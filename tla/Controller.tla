----------------------------- MODULE Controller ------------------------------
(***************************************************************************)
(* The reconciler of one ExporterScraperConfig                             *)
(* (internal/controller/exporterscraperconfig_controller.go) over the      *)
(* shared state of Cluster.  One action is one call to the API server, so  *)
(* users, the garbage collector and failures interleave with the calls of  *)
(* one reconcile.  The work queue keeps a name from being reconciled by    *)
(* two workers at once, so there is one worker.                            *)
(*                                                                         *)
(* provider-runtime, which is not in the repository, is modelled from the  *)
(* ExternalClient interface the code implements: it reads the              *)
(* configuration from the manager's cache, calls Observe, adds the         *)
(* finalizer, and then calls Create, Update or Delete, or removes the      *)
(* finalizer of a deleted configuration whose resources do not exist.      *)
(***************************************************************************)
EXTENDS Cluster, Integers, Sequences

CONSTANT PollInterval  \* the interval parsed by main.go, 0 when unset

ASSUME PollAssumption == PollInterval \in Int

VARIABLES
  cached,  \* the configuration in the manager's cache, possibly stale
  queued,  \* another reconcile is due as soon as the worker is free
  pc,      \* the call the worker makes next
  at,      \* its position in a sequence of calls, one per kind
  mg,      \* the worker's copy of the configuration
  ip       \* the cluster IP the worker read from the Service

ctlVars == <<cached, queued, pc, at, mg, ip>>
vars == <<clusterVars, ctlVars>>

Labels == {"idle", "observe", "check", "adopt", "create", "status", "refetch",
           "getService", "endpoint", "update", "delete", "release"}

\* Every variable keeps its type, a sequence of calls stays within the four kinds
\* and a busy worker has a copy of the configuration: no call of a reconcile is
\* made on nothing.
TypeOK ==
  /\ ClusterTypeOK
  /\ cached \in Configs \cup {NoConfig}
  /\ queued \in BOOLEAN
  /\ pc \in Labels
  /\ at \in 1..4
  /\ mg \in Configs \cup {NoConfig}
  /\ pc # "idle" => mg # NoConfig
  /\ ip \in IPs \cup {NoIP}

Init ==
  /\ ClusterInit
  /\ cached = NoConfig
  /\ queued = FALSE
  /\ pc = "idle"
  /\ at = 1
  /\ mg = NoConfig
  /\ ip = NoIP

-----------------------------------------------------------------------------
\* The orders in which the code goes through the kinds.

ObserveOrder == <<"Deployment", "ConfigMap", "Service", "ScraperConfig">>
DeleteOrder == <<"Deployment", "ConfigMap", "Service", "ScraperConfig">>
CreateOrder == <<"ConfigMap", "Deployment", "Service", "ScraperConfig">>

UpdateOrder == <<"ConfigMap", "Deployment", "Service", "ScraperConfig">>

\* Mutant: the last call of a sequence is taken for one before it.
MoreAfterLast == at <= 4

\* The call just made is not the last of its sequence.
More == at < 4

\* The worker's next call, with its copy kept.
GoTo(label, i) ==
  /\ pc' = label
  /\ at' = i
  /\ UNCHANGED <<mg, ip, queued>>

\* The reconcile ends; the worker forgets its copy.
Return(again) ==
  /\ pc' = "idle"
  /\ at' = 1
  /\ mg' = NoConfig
  /\ ip' = NoIP
  /\ queued' = (queued \/ again)

\* Mutant: an error is logged and forgotten.
Forget == Return(FALSE)

\* An error is retried through the work queue, and so is a completed Create.
Requeue == Return(TRUE)

\* Success: the next reconcile comes with the poll, if there is one.
Done == Return(FALSE)

\* A call that writes: it is answered, or it is applied and the answer lost,
\* or it is refused.
Call(effect, proceed) ==
  \/ effect /\ proceed /\ UNCHANGED faults
  \/ effect /\ Fault /\ Requeue
  \/ Fault /\ Requeue /\ UNCHANGED objects

\* A call that reads: the server answers, or the call fails.
Answered(proceed) == proceed /\ UNCHANGED faults
Failed(proceed) == Fault /\ proceed

-----------------------------------------------------------------------------
\* The runtime: cache, work queue, crash of the process.

\* The watch delivers the latest object; every event is queued.
SyncCache ==
  /\ cached # cr
  /\ cached' = cr
  /\ queued' = TRUE
  /\ UNCHANGED <<clusterVars, pc, at, mg, ip>>

StartReconcile ==
  /\ pc = "idle"
  /\ queued
  /\ cached # NoConfig
  /\ mg' = cached
  /\ pc' = "observe"
  /\ at' = 1
  /\ queued' = (PollInterval > 0)
  /\ UNCHANGED <<clusterVars, cached, ip>>

\* After the restart the cache is listed afresh and every object queued.
Crash ==
  /\ pc # "idle"
  /\ Fault
  /\ Requeue
  /\ cached' = cr
  /\ UNCHANGED <<cr, lastUid, child, secret, pods, drifts>>

-----------------------------------------------------------------------------
\* Observe, and what the runtime does with its verdict.

\* Mutant: what is left of a deleted configuration is always deleted first.
MissingIsDeleted ==
  \/ mg.deleting /\ GoTo("delete", 1)
  \/ ~mg.deleting /\ ~mg.finalizer /\ GoTo("adopt", 1)
  \/ ~mg.deleting /\ mg.finalizer /\ GoTo("create", 1)

\* ResourceExists: FALSE.
Missing ==
  \/ mg.deleting /\ GoTo("release", 1)
  \/ ~mg.deleting /\ ~mg.finalizer /\ GoTo("adopt", 1)
  \/ ~mg.deleting /\ mg.finalizer /\ GoTo("create", 1)

\* Mutant: what differs is deleted, to be created anew.
DeleteExisting(proceed) == GoTo("delete", 1)

\* ResourceExists: TRUE.
Existing(proceed) ==
  \/ mg.deleting /\ GoTo("delete", 1)
  \/ ~mg.deleting /\ proceed

\* Observe's first four GETs go through the references kept in the status; an
\* empty reference, a missing object and a failed GET have the same verdict.
Observe ==
  LET k == ObserveOrder[at]
      exists == k \in mg.refs /\ child[k] # Absent
  IN
  /\ pc = "observe"
  /\ \/ exists /\ More /\ Answered(GoTo("observe", at + 1))
     \/ exists /\ ~More /\ Answered(GoTo("check", 1))
     \/ ~exists /\ Answered(Missing)
     \/ Failed(Missing)
  /\ UNCHANGED <<objects, lastUid, drifts, cached>>

\* The four objects are fetched again and compared, up to the first that
\* differs.
checkExporterStatus ==
  LET k == ObserveOrder[at]
      fits == Check(k, child[k], mg)
  IN
  /\ pc = "check"
  /\ \/ child[k] # Absent /\ fits /\ More /\ Answered(GoTo("check", at + 1))
     \/ child[k] # Absent /\ fits /\ ~More /\ Answered(Existing(Done))
     \/ child[k] # Absent /\ ~fits /\ Answered(Existing(GoTo("getService", 1)))
     \/ child[k] = Absent /\ Answered(Requeue)
     \/ Failed(Requeue)
  /\ UNCHANGED <<objects, lastUid, drifts, cached>>

\* Mutant: the finalizer is never added.
AdoptNothing ==
  /\ pc = "adopt"
  /\ Answered(GoTo("create", 1))
  /\ UNCHANGED <<objects, lastUid, drifts, cached>>

AddFinalizer ==
  /\ pc = "adopt"
  /\ \/ /\ IsCurrent(mg)
        /\ cr' = [mg EXCEPT !.finalizer = TRUE]
        /\ UNCHANGED <<child, secret, pods>>
        /\ \/ /\ mg' = cr'
              /\ pc' = "create"
              /\ at' = 1
              /\ UNCHANGED <<ip, queued, faults>>
           \/ Failed(Requeue)
     \/ ~IsCurrent(mg) /\ Answered(Requeue) /\ UNCHANGED objects
     \/ Failed(Requeue) /\ UNCHANGED objects
  /\ UNCHANGED <<lastUid, drifts, cached>>

RemoveFinalizer ==
  /\ pc = "release"
  /\ \/ IsCurrent(mg)
          /\ Call(cr' = NoConfig /\ UNCHANGED <<child, secret, pods>>, Done)
     \/ cr = NoConfig /\ Answered(Done) /\ UNCHANGED objects
     \/ cr # NoConfig /\ ~IsCurrent(mg) /\ Answered(Requeue) /\ UNCHANGED objects
  /\ UNCHANGED <<lastUid, drifts, cached>>

-----------------------------------------------------------------------------
\* Create (createExporterFromScratch): for each kind, create the object,
\* record it in the status, read the configuration back.

\* An object that already exists is left as it is, whatever it holds.
CreateChild ==
  LET k == CreateOrder[at] IN
  /\ pc = "create"
  /\ Call(\/ CreateObj(k, GenericObject(k, mg))
          \/ child[k] # Absent /\ UNCHANGED objects,
          GoTo("status", at))
  /\ UNCHANGED <<lastUid, drifts, cached>>

RecordStatus ==
  /\ pc = "status"
  /\ \/ /\ IsCurrent(mg)
        /\ Call(UpdateStatus(mg.refs \cup {CreateOrder[at]}),
                IF More THEN GoTo("refetch", at) ELSE Requeue)
     \/ ~IsCurrent(mg) /\ Answered(Requeue) /\ UNCHANGED objects
  /\ UNCHANGED <<lastUid, drifts, cached>>

\* The configuration as it is now, with a spec a user may have changed; the
\* ScraperConfig needs the Service's address first.
Refetch ==
  /\ pc = "refetch"
  /\ \/ /\ cr # NoConfig
        /\ mg' = cr
        /\ at' = at + 1
        /\ pc' = IF at = 3 THEN "getService" ELSE "create"
        /\ UNCHANGED <<ip, queued, faults>>
     \/ cr = NoConfig /\ Answered(Requeue)
     \/ Failed(Requeue)
  /\ UNCHANGED <<objects, lastUid, drifts, cached>>

-----------------------------------------------------------------------------
\* The Service's address and the endpoint Secret, in Create (at = 4) and in
\* Update (at = 1).

GetService ==
  /\ pc = "getService"
  /\ \/ /\ child["Service"] # Absent
        /\ ip' = child["Service"].ip
        /\ pc' = "endpoint"
        /\ UNCHANGED <<at, mg, queued, faults>>
     \/ child["Service"] = Absent /\ Answered(Requeue)
     \/ Failed(Requeue)
  /\ UNCHANGED <<objects, lastUid, drifts, cached>>

NeedsEndpoint(config) == UsesExporterEndpoint(config.spec.scraper)

\* Mutant: the conversion error of a nil object is not looked at.
ConvertNil ==
  /\ pc = "endpoint"
  /\ Call(CreateOrUpdate(EndpointSecret(mg, ip)),
          GoTo(IF at = 4 THEN "create" ELSE "update", at))
  /\ UNCHANGED <<lastUid, drifts, cached>>

\* Without a scraper section there is no object to convert: an error.
CreateEndpointRef ==
  LET scraper == mg.spec.scraper
      write == GoTo(IF at = 4 THEN "create" ELSE "update", at)
  IN
  /\ pc = "endpoint"
  /\ \/ scraper = NoScraper /\ Answered(Requeue) /\ UNCHANGED objects
     \/ /\ scraper # NoScraper
        /\ NeedsEndpoint(mg)
        /\ Call(CreateOrUpdate(EndpointSecret(mg, ip)), write)
     \/ /\ scraper # NoScraper
        /\ ~NeedsEndpoint(mg)
        /\ Answered(write)
        /\ UNCHANGED objects
  /\ UNCHANGED <<lastUid, drifts, cached>>

-----------------------------------------------------------------------------
\* Update: the four objects are overwritten; the Deployment's carries a new
\* restartedAt annotation, so that it rolls out.

UpdateChild ==
  LET k == UpdateOrder[at] IN
  /\ pc = "update"
  /\ \/ Call(UpdateObj(k, GenericObject(k, mg)) /\ Restart(k),
             IF More THEN GoTo("update", at + 1) ELSE Done)
     \/ child[k] = Absent /\ Answered(Requeue) /\ UNCHANGED objects
  /\ UNCHANGED <<lastUid, drifts, cached>>

\* Delete: the first object that is missing is an error.
DeleteChild ==
  LET k == DeleteOrder[at] IN
  /\ pc = "delete"
  /\ \/ Call(DeleteObj(k), IF More THEN GoTo("delete", at + 1) ELSE Requeue)
     \/ child[k] = Absent /\ Answered(Requeue) /\ UNCHANGED objects
  /\ UNCHANGED <<lastUid, drifts, cached>>

-----------------------------------------------------------------------------

Worker ==
  \/ StartReconcile \/ Observe \/ checkExporterStatus
  \/ AddFinalizer \/ RemoveFinalizer
  \/ CreateChild \/ RecordStatus \/ Refetch
  \/ GetService \/ CreateEndpointRef
  \/ UpdateChild \/ DeleteChild

Next ==
  \/ Worker \/ SyncCache \/ Crash
  \/ (Users \/ Collect \/ StartPods) /\ UNCHANGED ctlVars

Spec == Init /\ [][Next]_vars

\* The worker keeps running, the watch keeps delivering, the garbage collector
\* and the kubelet keep working.  Users and failures owe nothing.
Fairness ==
  /\ WF_vars(Worker)
  /\ WF_vars(SyncCache)
  /\ WF_vars(Collect /\ UNCHANGED ctlVars)
  /\ WF_vars(StartPods /\ UNCHANGED ctlVars)

FairSpec == Spec /\ Fairness

-----------------------------------------------------------------------------
\* Safety.

Writing == {"create", "status", "refetch", "getService", "endpoint", "update"}

\* From the moment Create or Update starts, the configuration the worker has a
\* copy of stays in the cluster, as the same incarnation, until the call
\* returns: nothing is ever created or overwritten on behalf of a configuration
\* that is gone, though it may be deleted and applied again at any moment and
\* though the copy comes from a cache.
WorkerHoldsConfig ==
  pc \in Writing => cr # NoConfig /\ cr.uid = mg.uid /\ cr.finalizer

\* Whether or not the cache lags behind, Delete and the removal of the finalizer
\* never meet objects that belong to a configuration nobody asked to delete,
\* such as a new one applied under the same name.
NeverDeletesLive ==
  pc \in {"delete", "release"} /\ cr # NoConfig /\ ~cr.deleting
    => \A k \in Kinds : child[k] # Absent => child[k].owner # cr.uid

\* A ScraperConfig of the live configuration that is to scrape the exporter is
\* never in the cluster without the endpoint Secret it names, owned by the same
\* configuration: createEndpointRef runs before every write of a ScraperConfig.
EndpointBeforeScraper ==
  LET s == child["ScraperConfig"]
      scrapesExporter ==
        /\ cr # NoConfig
        /\ s # Absent
        /\ s.owner = cr.uid
        /\ s.body # Drifted
        /\ UsesExporterEndpoint(s.body)
  IN scrapesExporter => secret # Absent /\ secret.owner = cr.uid

\* The references in the status of one incarnation are never lost, although
\* every status write replaces the whole status with what a stale copy holds.
StatusRefsKept ==
  [][cr # NoConfig /\ cr' # NoConfig /\ cr'.uid = cr.uid
       => cr.refs \subseteq cr'.refs]_vars

\* No object is ever made from the nil that the ScraperConfig's generator returns
\* for a configuration without a scraper, although the edit that removes the
\* section can come at any call, and the copy be read again in between.
WellFormed == \A k \in Kinds : child[k] # Absent => child[k].body \in ContentsOf(k)

\* The comparators are not laxer than the generators: an object that is accepted
\* for the configuration as it is now has the contents, and but for the
\* ScraperConfig the owner, that would be generated for it now, whichever spec
\* and incarnation it was written for.  What CheckScraper does not compare, the
\* generic part and an API of the user's own, is the exception.
AcceptedIsGenerated ==
  cr # NoConfig =>
    \A k \in Kinds :
       /\ child[k] # Absent
       /\ Check(k, child[k], cr)
       /\ k = "ScraperConfig" => NeedsEndpoint(cr)
       => /\ ContentsAsGenerated(k, child[k], cr)
          /\ k # "ScraperConfig" => child[k].owner = cr.uid

\* Delete goes by name and can meet a configuration that nobody asked to delete.
\* That one has not been adopted: its Create is still to come and makes what was
\* deleted again, so that neither finalizer nor references promise anything.
DeletesNoneAdopted ==
  pc \in {"delete", "release"} /\ cr # NoConfig /\ ~cr.deleting
    => ~cr.finalizer /\ cr.refs = {}

-----------------------------------------------------------------------------
\* Liveness.

Live == cr # NoConfig /\ ~cr.deleting

\* Every child is there, owned by this configuration, as its spec asks; but for
\* the generic part of the ScraperConfig (GenericCurrent).
UpToDate ==
  \A k \in Kinds :
     /\ child[k] # Absent
     /\ child[k].owner = cr.uid
     /\ ContentsAsGenerated(k, child[k], cr)

\* The work is done: everything is up to date, the status names all four, and
\* neither cache nor worker is behind.  A scraper section that calls the
\* exporter and a spec without long lines are part of it: no other is ever
\* accepted (comparators.go:231, :85).
AtRest ==
  /\ Live
  /\ cr.finalizer
  /\ cr.refs = Kinds
  /\ cr.spec.scraper # NoScraper
  /\ NeedsEndpoint(cr)
  /\ ~cr.spec.long
  /\ UpToDate
  /\ cached = cr
  /\ pc \in {"idle", "observe", "check"}
  /\ pc # "idle" => mg = cr

\* A step that is neither a user's nor another client's nor a failure.
Undisturbed == ~Users /\ UNCHANGED <<drifts, faults>>

\* Done is done: from there on, reconciles that are polled or queued change
\* neither the configuration nor a child, until somebody else does or a call
\* fails.  It is the half of Converges and ComesToRest that says "and stay so".
StaysAtRest ==
  [][AtRest /\ Undisturbed => AtRest' /\ UNCHANGED <<cr, child>>]_vars

\* Once users, other clients and failures stop, the children of a configuration
\* become what it asks for and stay so: Observe, Create and Update converge from
\* every state a crash or an interrupted reconcile can leave.
Converges == <>[](Live => UpToDate)

\* A configuration marked for deletion goes away, whatever is left of its
\* children when Delete runs or runs again.
DeletionCompletes == (cr # NoConfig /\ cr.deleting) ~> (cr = NoConfig)

\* No object of a deleted configuration stays for ever, those included that
\* Delete never reached because an earlier one was missing.
OrphansCollected ==
  <>[](/\ \A k \in Kinds : child[k] # Absent => ~Orphaned(child[k]) /\ child[k].owner # 0
       /\ secret # Absent => ~Orphaned(secret) /\ secret.owner # 0)

\* The operator comes to rest: every later reconcile only reads.  It does not
\* create, overwrite (and so roll out the exporter) or delete for ever.
ComesToRest == <>[](pc \notin Writing \cup {"adopt", "delete", "release"})

\* The Secret the scraper uses ends up with the address of the Service that
\* exists, also after the Service was lost and created anew.
EndpointCurrent ==
  LET scrapesExporter ==
        /\ Live
        /\ cr.spec.scraper # NoScraper
        /\ UsesExporterEndpoint(cr.spec.scraper)
  IN <>[](scrapesExporter => /\ secret # Absent
                             /\ child["Service"] # Absent
                             /\ secret.ip = child["Service"].ip)

\* The ScraperConfig ends up with the generic part of the spec, by whose metric
\* name the scraper selects what it uploads.
GenericCurrent ==
  <>[](Live /\ cr.spec.scraper # NoScraper
         => /\ child["ScraperConfig"] # Absent
            /\ child["ScraperConfig"].body = ScraperSpec(cr.spec))

\* The exporter's pods end up running the configuration the user wrote last.
ConfigLoaded == <>[](Live => pods = cr.spec)

==============================================================================
