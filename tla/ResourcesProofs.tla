--------------------------- MODULE ResourcesProofs ----------------------------
(***************************************************************************)
(* What the generators make and what the comparators accept, for every     *)
(* configuration.                                                          *)
(***************************************************************************)
EXTENDS Resources, TLAPS

\* What GenericObject returns for every kind: an object of the configuration,
\* which, as a ScraperConfig, uses the exporter's endpoint or not as the scraper
\* section of the spec says.
LEMMA GenericObjects ==
  ASSUME NEW k \in Kinds, NEW config \in Configs
  PROVE  /\ GenericObject(k, config) \in Objects
         /\ GenericObject(k, config).owner = config.uid
         /\ k = "ScraperConfig"
              => GenericObject(k, config).body = ScraperSpec(config.spec)
BY DEF GenericObject, GetGenericExporterDeployment, GetGenericExporterConfigMap,
       GetGenericExporterService, GetGenericExporterScraperConfig, Kinds,
       OwnerReference, Objects, Bodies, Configs

LEMMA ScraperSpecs ==
  ASSUME NEW spec, spec.scraper # NoScraper
  PROVE  /\ ScraperSpec(spec) =
               [fields |-> spec.scraper.fields, metricType |-> spec.exporter.metricType,
                generic |-> spec.exporter.generic, api |-> spec.scraper.api]
         /\ UsesExporterEndpoint(ScraperSpec(spec))
              <=> UsesExporterEndpoint(spec.scraper)
BY DEF ScraperSpec, UsesExporterEndpoint

\* What a generator makes is an object its kind can have, provided there is one
\* to make.
LEMMA GeneratedContents ==
  ASSUME NEW k \in Kinds, NEW config \in Configs,
         k = "ScraperConfig" => config.spec.scraper # NoScraper
  PROVE  GenericObject(k, config).body \in ContentsOf(k)
<1>1. config.spec \in Specs
  BY DEF Configs
<1>2. CASE k \in {"Deployment", "Service"}
  BY <1>2 DEF ContentsOf, GenericObject, GetGenericExporterDeployment,
              GetGenericExporterService
<1>3. CASE k = "ConfigMap"
  BY <1>1, <1>3 DEF ContentsOf, GenericObject, GetGenericExporterConfigMap
<1>4. CASE k = "ScraperConfig"
  BY <1>1, <1>4 DEF ContentsOf, GenericObject, GetGenericExporterScraperConfig
<1> QED
  BY <1>2, <1>3, <1>4 DEF Kinds

-----------------------------------------------------------------------------

\* What is as generated is accepted, but for a spec with a long line, a scraper
\* with an API of the user's own, and one there is no section for.
LEMMA GeneratedIsAccepted ==
  ASSUME NEW k \in Kinds, NEW config \in Configs, NEW obj \in Objects,
         obj.owner = config.uid,
         ContentsAsGenerated(k, obj, config),
         k = "ConfigMap" => ~config.spec.long,
         k = "ScraperConfig" => /\ config.spec.scraper # NoScraper
                                /\ UsesExporterEndpoint(config.spec.scraper)
  PROVE  Check(k, obj, config)
<1>1. config.spec \in Specs
  BY DEF Configs
<1>2. CASE k \in {"Deployment", "Service"}
  BY <1>2 DEF ContentsAsGenerated, Check, CheckDeployment, CheckService, GenericObject,
              GetGenericExporterDeployment, GetGenericExporterService
<1>3. CASE k = "ConfigMap"
  BY <1>3 DEF ContentsAsGenerated, Check, CheckConfigMap, GenericObject,
              GetGenericExporterConfigMap
<1>4. CASE k = "ScraperConfig"
  <2> DEFINE body == ScraperSpec(config.spec)
  <2>1. body = [fields |-> config.spec.scraper.fields,
                metricType |-> config.spec.exporter.metricType,
                generic |-> config.spec.exporter.generic,
                api |-> config.spec.scraper.api]
    BY <1>4, ScraperSpecs
  <2>2. GenericObject(k, config).body = body
    BY <1>4, GenericObjects
  <2>3. obj.body # Drifted
    BY <1>1, <2>2, DriftedAssumption DEF ContentsAsGenerated
  <2>4. obj.body = body \/ obj.body = [body EXCEPT !.generic = obj.body.generic]
    BY <2>2 DEF ContentsAsGenerated
  <2> HIDE DEF body
  <2>5. /\ obj.body.fields = config.spec.scraper.fields
        /\ obj.body.metricType = config.spec.exporter.metricType
        /\ obj.body.api = config.spec.scraper.api
    BY <2>1, <2>4
  <2> QED
    BY <1>4, <2>3, <2>5 DEF Check, CheckScraper, UsesExporterEndpoint
<1> QED
  BY <1>2, <1>3, <1>4 DEF Kinds

\* What is accepted for a scraper of the exporter is as it would be generated
\* now, and but for the ScraperConfig it belongs to the configuration.
LEMMA AcceptedContents ==
  ASSUME NEW k \in Kinds, NEW config \in Configs, NEW obj \in Objects,
         obj.body \in ContentsOf(k), Check(k, obj, config),
         k = "ScraperConfig" => UsesExporterEndpoint(config.spec.scraper)
  PROVE  /\ ContentsAsGenerated(k, obj, config)
         /\ k # "ScraperConfig" => obj.owner = config.uid
<1>1. CASE k \in {"Deployment", "Service"}
  BY <1>1 DEF ContentsAsGenerated, Check, CheckDeployment, CheckService, GenericObject,
              GetGenericExporterDeployment, GetGenericExporterService
<1>2. CASE k = "ConfigMap"
  BY <1>2 DEF ContentsAsGenerated, Check, CheckConfigMap, GenericObject,
              GetGenericExporterConfigMap
<1>3. CASE k = "ScraperConfig"
  <2>1. CheckScraper(obj, config)
    BY <1>3 DEF Check
  <2>2. PICK s \in Specs : obj.body = ScraperSpec(s) /\ s.scraper # NoScraper
    BY <1>3, <2>1 DEF ContentsOf, CheckScraper
  <2>3. obj.body = [fields |-> s.scraper.fields, metricType |-> s.exporter.metricType,
                    generic |-> s.exporter.generic, api |-> s.scraper.api]
    BY <2>2, ScraperSpecs
  <2>4. config.spec.scraper # NoScraper
    BY <2>1 DEF CheckScraper
  <2>5. ScraperSpec(config.spec) =
          [fields |-> config.spec.scraper.fields,
           metricType |-> config.spec.exporter.metricType,
           generic |-> config.spec.exporter.generic,
           api |-> config.spec.scraper.api]
    BY <2>4, ScraperSpecs
  <2>6. /\ s.scraper.fields = config.spec.scraper.fields
        /\ s.exporter.metricType = config.spec.exporter.metricType
        /\ s.scraper.api = config.spec.scraper.api
    BY <1>3, <2>1, <2>3 DEF CheckScraper, UsesExporterEndpoint
  <2>7. obj.body = [ScraperSpec(config.spec) EXCEPT !.generic = obj.body.generic]
    BY <2>3, <2>5, <2>6
  <2>8. GenericObject(k, config).body = ScraperSpec(config.spec)
    BY <1>3, GenericObjects
  <2> QED
    BY <1>3, <2>1, <2>4, <2>7, <2>8 DEF ContentsAsGenerated, CheckScraper
<1> QED
  BY <1>1, <1>2, <1>3 DEF Kinds

==============================================================================
