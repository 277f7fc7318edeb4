----------------------------- MODULE MCOperator ------------------------------
(***************************************************************************)
(* The values of Operator's constants for TLC.                             *)
(***************************************************************************)
EXTENDS OperatorRefinement, MCController

\* The specs a ScraperConfig can be generated from, or not.
ScraperSpecs == {SpecA, SpecCustom, SpecNoScraper}

\* One of the informers, where all four are too many for TLC.
ScraperOnly == {"ScraperConfig"}

==============================================================================
