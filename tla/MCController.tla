---------------------------- MODULE MCController -----------------------------
(***************************************************************************)
(* The values of Controller's constants for TLC.  The strings stand for    *)
(* contents of which the code only asks whether two are equal.             *)
(***************************************************************************)
EXTENDS ControllerRefinement

Exporter(rest, metricType, generic) ==
  [rest |-> rest, metricType |-> metricType, generic |-> generic]

Scraper(fields, api) == [fields |-> fields, api |-> api]

\* Both sections filled in; the scraper calls the exporter (api left out).
SpecA ==
  [exporter |-> Exporter("a", "generic", "cpu"), scraper |-> Scraper("f", "exporter"),
   long |-> FALSE]

\* SpecA with another exporter section, which the ScraperConfig follows in its
\* metric type and its generic part.
SpecB == [SpecA EXCEPT !.exporter = Exporter("b", "cost", "none")]

\* SpecA with only the generic part edited: another metric.
SpecGeneric == [SpecA EXCEPT !.exporter.generic = "memory"]

\* SpecA with an API of the user's own.
SpecCustom == [SpecA EXCEPT !.scraper.api = "custom"]

\* Only the exporter section.
SpecNoScraper == [SpecA EXCEPT !.scraper = NoScraper]

\* SpecA with a line that yaml.v2 folds.
SpecLong == [SpecA EXCEPT !.long = TRUE]

ExporterSpecs == {SpecA, SpecB}
EditedSpecs == {SpecA, SpecB, SpecGeneric}
OneSpec == {SpecA}
CustomSpecs == {SpecCustom}
ApiSpecs == {SpecA, SpecCustom}
NoScraperSpecs == {SpecNoScraper}
LongSpecs == {SpecLong}

==============================================================================
