------------------------------ MODULE Resources ------------------------------
(***************************************************************************)
(* The objects the operator manages for one ExporterScraperConfig: what    *)
(* utils.go generates from the configuration, and what comparators.go      *)
(* accepts as up to date.                                                  *)
(*                                                                         *)
(* Data is kept to what the code tells apart.  A child object has the UID  *)
(* in its owner reference (0: it has none), a body and, for a Service, the *)
(* cluster IP the API server allocated.  A configuration's spec is a       *)
(* record [exporter, scraper, long].  Of its exporter section the metric   *)
(* type and the generic part, which the ScraperConfig is made of too, are  *)
(* kept apart from the rest.  Its scraper section is NoScraper when every  *)
(* field tested by GetGenericExporterScraperConfig is empty, otherwise     *)
(* [fields, api], with api "exporter" when EndpointRef is nil and "custom" *)
(* when the user wrote an API of their own.  long says that yaml.v2 folds  *)
(* a line of the spec, where yaml.v3 does not.                             *)
(* Drifted stands for the changes by others that the comparators see: what *)
(* they do not compare (the restartedAt annotation, the Secret's URL, a    *)
(* ScraperConfig's generic part) can differ unnoticed.                     *)
(***************************************************************************)
EXTENDS Naturals

CONSTANTS
  Specs,      \* the specs a user can write
  NoScraper,  \* an empty spec.scraperConfig
  IPs,        \* the cluster IPs the API server can allocate
  NoIP,       \* the ip of an object that is not a Service
  Standard,   \* a Deployment or Service exactly as utils.go generates it
  Drifted     \* a body some other client changed so that its Check fails

\* What the records of the introduction are made of.
ASSUME SpecsAssumption ==
  \A s \in Specs :
     /\ s = [exporter |-> s.exporter, scraper |-> s.scraper, long |-> s.long]
     /\ s.exporter = [rest |-> s.exporter.rest, metricType |-> s.exporter.metricType,
                      generic |-> s.exporter.generic]
     /\ s.long \in BOOLEAN
     /\ s.scraper # NoScraper
          => /\ s.scraper = [fields |-> s.scraper.fields, api |-> s.scraper.api]
             /\ s.scraper.api \in {"exporter", "custom"}

Kinds == {"Deployment", "ConfigMap", "Service", "ScraperConfig"}

\* ExporterScraperConfig: metadata, spec, and the references kept in status.
Configs == [uid: Nat, gen: Nat, spec: Specs, finalizer: BOOLEAN,
            deleting: BOOLEAN, refs: SUBSET Kinds]

\* The spec of the ScraperConfig that is generated for a spec: nil without a
\* scraper section; otherwise it has the metric type of the exporter section,
\* not its own.
ScraperSpec(spec) ==
  IF spec.scraper = NoScraper THEN NoScraper
  ELSE [fields |-> spec.scraper.fields, metricType |-> spec.exporter.metricType,
        generic |-> spec.exporter.generic, api |-> spec.scraper.api]

\* Nothing the operator generates is Drifted.
ASSUME DriftedAssumption ==
  Drifted \notin {Standard} \cup Specs \cup {ScraperSpec(s) : s \in Specs}

Bodies == {Standard, Drifted} \cup Specs \cup {ScraperSpec(s) : s \in Specs}

Objects == [owner: Nat, body: Bodies, ip: IPs \cup {NoIP}]

\* The endpoint Secret: its server-url is the IP of the exporter's Service.
Secrets == [owner: Nat, ip: IPs \cup {NoIP}]

-----------------------------------------------------------------------------
\* Generators (internal/utils/utils.go).

\* Mutant: the generated object carries no owner reference.
NoOwnerReference(config) == 0

OwnerReference(config) == config.uid

GetGenericExporterDeployment(config) ==
  [owner |-> OwnerReference(config), body |-> Standard, ip |-> NoIP]

\* config.yaml is the marshalled configuration: it pins down the whole spec.
GetGenericExporterConfigMap(config) ==
  [owner |-> OwnerReference(config), body |-> config.spec, ip |-> NoIP]

GetGenericExporterService(config) ==
  [owner |-> OwnerReference(config), body |-> Standard, ip |-> NoIP]

GetGenericExporterScraperConfig(config) ==
  [owner |-> OwnerReference(config), body |-> ScraperSpec(config.spec), ip |-> NoIP]

GenericObject(k, config) ==
  CASE k = "Deployment" -> GetGenericExporterDeployment(config)
    [] k = "ConfigMap" -> GetGenericExporterConfigMap(config)
    [] k = "Service" -> GetGenericExporterService(config)
    [] k = "ScraperConfig" -> GetGenericExporterScraperConfig(config)

\* Spec.ScraperConfig.API.EndpointRef == nil: the operator writes the endpoint.
UsesExporterEndpoint(scraper) == scraper.api = "exporter"

EndpointSecret(config, ip) == [owner |-> OwnerReference(config), ip |-> ip]

-----------------------------------------------------------------------------
\* Comparators (internal/helpers/kube/comparators/comparators.go).

CheckDeployment(obj, config) == obj.owner = config.uid /\ obj.body = Standard

CheckService(obj, config) == obj.owner = config.uid /\ obj.body = Standard

\* Mutant: only the owner reference is compared, not the data.
CheckConfigMapOwner(obj, config) == obj.owner = config.uid

\* Mutant: the bytes are compared without dropping the blanks, on which the
\* two YAML libraries differ.
CheckConfigMapBytes(obj, config) == FALSE

\* The live text, which yaml.v3 laid out, and that of yaml.v2 are compared
\* without their blanks; where only one of them breaks a line they differ.
CheckConfigMap(obj, config) ==
  /\ obj.owner = config.uid
  /\ obj.body = config.spec
  /\ ~config.spec.long

\* Mutant: the metric type is forgotten.
CheckScraperFields(obj, config) ==
  /\ config.spec.scraper # NoScraper
  /\ obj.body # Drifted
  /\ obj.body.fields = config.spec.scraper.fields
  /\ obj.body.api = "exporter"

\* Neither the owner reference nor the generic part is compared, and the live
\* API must be the exporter's, whatever API the spec asks for.
CheckScraper(obj, config) ==
  /\ config.spec.scraper # NoScraper
  /\ obj.body # Drifted
  /\ obj.body.fields = config.spec.scraper.fields
  /\ obj.body.metricType = config.spec.exporter.metricType
  /\ obj.body.api = "exporter"

Check(k, obj, config) ==
  CASE k = "Deployment" -> CheckDeployment(obj, config)
    [] k = "ConfigMap" -> CheckConfigMap(obj, config)
    [] k = "Service" -> CheckService(obj, config)
    [] k = "ScraperConfig" -> CheckScraper(obj, config)

-----------------------------------------------------------------------------
\* The contents an object of each kind can have: what its generator writes for
\* some spec, or what another client made of it.
ContentsOf(k) ==
  {Drifted} \cup
    CASE k \in {"Deployment", "Service"} -> {Standard}
      [] k = "ConfigMap" -> Specs
      [] k = "ScraperConfig" ->
           {ScraperSpec(s) : s \in {t \in Specs : t.scraper # NoScraper}}

\* The contents are what would be generated, except that the generic part of a
\* ScraperConfig may be that of another spec.
ContentsAsGenerated(k, obj, config) ==
  LET body == GenericObject(k, config).body IN
  \/ obj.body = body
  \/ /\ k = "ScraperConfig"
     /\ config.spec.scraper # NoScraper
     /\ obj.body # Drifted
     /\ obj.body = [body EXCEPT !.generic = obj.body.generic]

==============================================================================
