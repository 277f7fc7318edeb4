--------------------------- MODULE ControllerProofs ---------------------------
(***************************************************************************)
(* Proofs, for every value of the constants, of the type invariant of      *)
(* Controller and of its safety properties.                                *)
(***************************************************************************)
EXTENDS ControllerInvariant, ResourcesProofs

\* Every order is an order of the kinds, and the ScraperConfig comes last.
LEMMA Orders ==
  ASSUME NEW i \in 1..4
  PROVE  /\ ObserveOrder[i] \in Kinds
         /\ DeleteOrder[i] \in Kinds
         /\ CreateOrder[i] \in Kinds
         /\ UpdateOrder[i] \in Kinds
         /\ CreateOrder[i] = "ScraperConfig" <=> i = 4
BY DEF ObserveOrder, DeleteOrder, CreateOrder, UpdateOrder, Kinds

\* The three ways to write a child keep the types of the cluster's objects.
LEMMA WritesTyped ==
  ASSUME ClusterTypeOK, NEW k \in Kinds, NEW obj \in Objects,
         CreateObj(k, obj) \/ UpdateObj(k, obj) \/ DeleteObj(k)
  PROVE  /\ child' \in [Kinds -> Objects \cup {Absent}]
         /\ pods' \in Bodies \cup {Pending}
         /\ UNCHANGED <<cr, secret>>
<1>1. pods' \in Bodies \cup {Pending} /\ UNCHANGED <<cr, secret>>
  BY DEF CreateObj, UpdateObj, DeleteObj, Restart, ClusterTypeOK
<1>2. CASE CreateObj(k, obj)
  <2>1. PICK addr \in IPs \cup {NoIP} :
               child' = [child EXCEPT ![k] = [obj EXCEPT !.ip = addr]]
    BY <1>2 DEF CreateObj
  <2>2. [obj EXCEPT !.ip = addr] \in Objects
    BY DEF Objects
  <2> QED
    BY <1>1, <2>1, <2>2 DEF ClusterTypeOK
<1>3. CASE UpdateObj(k, obj)
  <2>1. child[k] \in Objects
    BY <1>3 DEF UpdateObj, ClusterTypeOK
  <2>2. [obj EXCEPT !.ip = child[k].ip] \in Objects
    BY <2>1 DEF Objects
  <2> QED
    BY <1>1, <1>3, <2>2 DEF UpdateObj, ClusterTypeOK
<1>4. CASE DeleteObj(k)
  BY <1>1, <1>4 DEF DeleteObj, ClusterTypeOK
<1> QED
  BY <1>2, <1>3, <1>4

-----------------------------------------------------------------------------
TypeInv == TypeOK /\ Positions

\* The operator starts with typed variables, idle.
LEMMA TypeInit == Init => TypeInv
<1> SUFFICES ASSUME Init PROVE TypeInv
  OBVIOUS
<1>1. ClusterTypeOK
  BY DEF Init, ClusterInit, ClusterTypeOK
<1>2. queued \in BOOLEAN
  BY Zenon DEF Init
<1>3. TypeOK
  BY <1>1, <1>2 DEF Init, TypeOK, Labels
<1>4. Positions
  BY DEF Init, Positions
<1> QED
  BY <1>3, <1>4 DEF TypeInv

\* Whatever the worker does with its copy, a reconcile that ends leaves the
\* worker's variables typed.
LEMMA ReturnTyped ==
  ASSUME queued \in BOOLEAN, Requeue \/ Done
  PROVE  /\ queued' \in BOOLEAN
         /\ pc' = "idle" /\ at' = 1 /\ mg' = NoConfig /\ ip' = NoIP
<1>1. queued' \in BOOLEAN
  BY Zenon DEF Requeue, Done, Return
<1> QED
  BY <1>1 DEF Requeue, Done, Return

\* A call that proceeds or is requeued leaves the worker's variables typed.
LEMMA CallTyped ==
  ASSUME queued \in BOOLEAN, NEW i \in 1..4, NEW label \in Labels,
         GoTo(label, i) \/ Requeue \/ Done
  PROVE  /\ queued' \in BOOLEAN
         /\ \/ pc' = label /\ at' = i /\ mg' = mg /\ ip' = ip
            \/ pc' = "idle" /\ at' = 1 /\ mg' = NoConfig /\ ip' = NoIP
BY ReturnTyped DEF GoTo

\* The steps of the worker that read.
LEMMA ReadsTyped ==
  ASSUME TypeInv,
         StartReconcile \/ Observe \/ checkExporterStatus \/ Refetch \/ GetService
  PROVE  TypeInv'
<1>1. ClusterTypeOK'
  <2>1. UNCHANGED <<cr, lastUid, child, secret, pods, drifts>>
    BY DEF StartReconcile, Observe, checkExporterStatus, Refetch, GetService,
           clusterVars, objects
  <2>2. faults' \in Nat
    BY DEF StartReconcile, Observe, checkExporterStatus, Refetch, GetService,
           clusterVars, Answered, Failed, Fault, TypeInv, TypeOK, ClusterTypeOK
  <2> QED
    BY <2>1, <2>2 DEF TypeInv, TypeOK, ClusterTypeOK
<1>2. CASE StartReconcile
  <2>1. queued' \in BOOLEAN
    BY <1>2, PollAssumption DEF StartReconcile
  <2> QED
    BY <1>1, <1>2, <2>1 DEF StartReconcile, TypeInv, TypeOK, Positions, Labels
<1>3. CASE Observe
  <2> DEFINE k == ObserveOrder[at]
  <2>1. \/ k \in mg.refs /\ More /\ GoTo("observe", at + 1)
        \/ k \in mg.refs /\ ~More /\ GoTo("check", 1)
        \/ Missing
    BY <1>3 DEF Observe, Answered, Failed
  <2>2. UNCHANGED cached /\ pc = "observe"
    BY <1>3 DEF Observe
  <2>3. UNCHANGED <<mg, ip, queued>>
    BY <2>1 DEF Missing, GoTo
  <2> QED
    BY <1>1, <2>1, <2>2, <2>3 DEF Missing, GoTo, More, TypeInv, TypeOK, Positions, Labels
<1>4. CASE checkExporterStatus
  <2>1. \/ More /\ GoTo("check", at + 1)
        \/ GoTo("delete", 1)
        \/ GoTo("getService", 1)
        \/ Requeue \/ Done
    BY <1>4 DEF checkExporterStatus, Answered, Failed, Existing
  <2>2. UNCHANGED cached /\ pc = "check"
    BY <1>4 DEF checkExporterStatus
  <2>3. queued' \in BOOLEAN
    BY <2>1, ReturnTyped DEF GoTo, TypeInv, TypeOK
  <2>4. CASE Requeue \/ Done
    BY <1>1, <2>2, <2>4, ReturnTyped DEF TypeInv, TypeOK, Positions, Labels
  <2> QED
    BY <1>1, <2>1, <2>2, <2>3, <2>4 DEF GoTo, More, TypeInv, TypeOK, Positions, Labels
<1>5. CASE Refetch
  <2>1. CASE Requeue
    BY <1>1, <1>5, <2>1, ReturnTyped DEF Refetch, TypeInv, TypeOK, Positions, Labels
  <2>2. CASE ~Requeue
    BY <1>1, <1>5, <2>2 DEF Refetch, Answered, Failed, TypeInv, TypeOK, ClusterTypeOK, Positions, Labels
  <2> QED
    BY <2>1, <2>2
<1>6. CASE GetService
  <2>1. CASE Requeue
    BY <1>1, <1>6, <2>1, ReturnTyped DEF GetService, TypeInv, TypeOK, Positions, Labels
  <2>2. CASE ~Requeue
    <3>1. child["Service"] # Absent /\ ip' = child["Service"].ip
      BY <1>6, <2>2 DEF GetService, Answered, Failed
    <3>2. ip' \in IPs \cup {NoIP}
      BY <3>1 DEF TypeInv, TypeOK, ClusterTypeOK, Objects, Kinds
    <3> QED
      BY <1>1, <1>6, <2>2, <3>2 DEF GetService, Answered, Failed, TypeInv, TypeOK, Positions, Labels
  <2> QED
    BY <2>1, <2>2
<1> QED
  BY <1>2, <1>3, <1>4, <1>5, <1>6

\* The worker's writes: one of the cluster's objects changes, or none.
LEMMA CallOutcome ==
  ASSUME TypeInv, NEW i \in 1..4, NEW label \in Labels,
         GoTo(label, i) \/ Requeue \/ Done,
         UNCHANGED <<lastUid, drifts, cached>>,
         Fault \/ UNCHANGED faults,
         label \notin {"observe", "check"},
         label = "refetch" => i <= 3,
         label \in {"endpoint", "getService"} => i \in {1, 4},
         cr' \in Configs \cup {NoConfig},
         child' \in [Kinds -> Objects \cup {Absent}],
         secret' \in Secrets \cup {Absent},
         pods' \in Bodies \cup {Pending},
         pc # "idle"
  PROVE  TypeInv'
<1>1. ClusterTypeOK'
  BY DEF ClusterTypeOK, Fault, TypeInv, TypeOK
<1>2. queued \in BOOLEAN
  BY DEF TypeInv, TypeOK
<1>3. /\ queued' \in BOOLEAN
      /\ \/ pc' = label /\ at' = i /\ mg' = mg /\ ip' = ip
         \/ pc' = "idle" /\ at' = 1 /\ mg' = NoConfig /\ ip' = NoIP
  BY <1>2, CallTyped
<1>4. TypeOK'
  BY <1>1, <1>3 DEF TypeInv, TypeOK, Labels
<1> QED
  BY <1>3, <1>4 DEF TypeInv, Positions

\* The steps of the worker that write.
LEMMA WritesOfWorkerTyped ==
  ASSUME TypeInv,
         \/ AddFinalizer \/ RemoveFinalizer \/ CreateChild \/ RecordStatus
         \/ CreateEndpointRef \/ UpdateChild \/ DeleteChild
  PROVE  TypeInv'
<1>0. /\ at \in 1..4 /\ queued \in BOOLEAN /\ ClusterTypeOK
      /\ pc # "idle" => mg \in Configs
  BY DEF TypeInv, TypeOK
<1>1. CASE AddFinalizer
  <2> DEFINE adopted == [mg EXCEPT !.finalizer = TRUE]
  <2>1. adopted \in Configs
    BY <1>0, <1>1 DEF AddFinalizer, Configs
  <2>2. UNCHANGED <<child, secret, pods, lastUid, drifts, cached>>
    BY <1>1 DEF AddFinalizer, objects
  <2>3. /\ cr' = adopted \/ cr' = cr
        /\ Fault \/ UNCHANGED faults
        /\ \/ mg' = adopted /\ pc' = "create" /\ at' = 1 /\ UNCHANGED <<ip, queued>>
           \/ Requeue
    BY <1>1 DEF AddFinalizer, Answered, Failed, objects
  <2> HIDE DEF adopted
  <2>4. ClusterTypeOK'
    BY <1>0, <2>1, <2>2, <2>3 DEF Fault, ClusterTypeOK
  <2>5. CASE Requeue
    BY <1>0, <2>2, <2>4, <2>5, ReturnTyped DEF TypeInv, TypeOK, Positions, Labels
  <2>6. CASE mg' = adopted /\ pc' = "create" /\ at' = 1 /\ UNCHANGED <<ip, queued>>
    <3>1. mg' \in Configs /\ mg' # NoConfig
      BY <2>1, <2>6, NullsAssumption
    <3>2. TypeOK'
      BY <2>2, <2>4, <2>6, <3>1 DEF TypeInv, TypeOK, Labels
    <3> QED
      BY <2>6, <3>2 DEF TypeInv, Positions
  <2> QED
    BY <2>3, <2>5, <2>6
<1>2. CASE RemoveFinalizer
  <2>1. Requeue \/ Done
    BY <1>2 DEF RemoveFinalizer, Call, Answered
  <2> QED
    BY <1>0, <1>2, <2>1, ReturnTyped DEF RemoveFinalizer, Call, Answered, Fault, objects, ClusterTypeOK, TypeInv, TypeOK, Positions, Labels
<1>3. CASE CreateChild
  <2> DEFINE k == CreateOrder[at]
             obj == GenericObject(k, mg)
  <2>1. k \in Kinds /\ mg \in Configs /\ obj \in Objects /\ pc # "idle"
    BY <1>0, <1>3, Orders, GenericObjects DEF CreateChild
  <2>2. /\ UNCHANGED <<lastUid, drifts, cached>>
        /\ Fault \/ UNCHANGED faults
        /\ GoTo("status", at) \/ Requeue \/ Done
        /\ CreateObj(k, obj) \/ UNCHANGED objects
    BY <1>3 DEF CreateChild, Call
  <2>3. /\ cr' \in Configs \cup {NoConfig}
        /\ child' \in [Kinds -> Objects \cup {Absent}]
        /\ secret' \in Secrets \cup {Absent}
        /\ pods' \in Bodies \cup {Pending}
    BY <1>0, <2>1, <2>2, WritesTyped DEF objects, ClusterTypeOK
  <2> QED
    BY <1>0, <2>1, <2>2, <2>3, CallOutcome DEF Labels
<1>4. CASE RecordStatus
  <2> DEFINE refs == mg.refs \cup {CreateOrder[at]}
  <2>1. mg \in Configs /\ refs \in SUBSET Kinds /\ pc # "idle"
    BY <1>0, <1>4, Orders DEF RecordStatus, Configs
  <2>2. /\ UNCHANGED <<lastUid, drifts, cached>>
        /\ Fault \/ UNCHANGED faults
        /\ (More /\ GoTo("refetch", at)) \/ Requeue \/ Done
        /\ (cr = mg /\ UpdateStatus(refs)) \/ UNCHANGED objects
    BY <1>4 DEF RecordStatus, Call, Answered, IsCurrent
  <2>3. /\ cr' \in Configs \cup {NoConfig}
        /\ UNCHANGED <<child, secret, pods>>
    <3>1. CASE cr = mg /\ UpdateStatus(refs)
      <4>1. [cr EXCEPT !.refs = refs] \in Configs
        BY <2>1, <3>1 DEF Configs
      <4> QED
        BY <3>1, <4>1 DEF UpdateStatus
    <3>2. CASE UNCHANGED objects
      BY <1>0, <3>2 DEF objects, ClusterTypeOK
    <3> QED
      BY <2>2, <3>1, <3>2
  <2>4. CASE More
    BY <1>0, <2>1, <2>2, <2>3, <2>4, CallOutcome DEF More, Labels, ClusterTypeOK
  <2>5. CASE ~More
    BY <1>0, <2>1, <2>2, <2>3, <2>5, CallOutcome DEF Labels, ClusterTypeOK
  <2> QED
    BY <2>4, <2>5
<1>5. CASE CreateEndpointRef
  <2> DEFINE label == IF at = 4 THEN "create" ELSE "update"
             s == EndpointSecret(mg, ip)
  <2>1. mg \in Configs /\ s \in Secrets /\ pc # "idle"
    BY <1>0, <1>5 DEF CreateEndpointRef, EndpointSecret, OwnerReference, Secrets,
                      Configs, TypeInv, TypeOK
  <2>2. /\ UNCHANGED <<lastUid, drifts, cached>>
        /\ Fault \/ UNCHANGED faults
        /\ GoTo(label, at) \/ Requeue \/ Done
        /\ CreateOrUpdate(s) \/ UNCHANGED objects
    BY <1>5 DEF CreateEndpointRef, Call, Answered
  <2>3. /\ UNCHANGED <<cr, child, pods>>
        /\ secret' \in Secrets \cup {Absent}
    BY <1>0, <2>1, <2>2 DEF CreateOrUpdate, objects, ClusterTypeOK
  <2> QED
    BY <1>0, <2>1, <2>2, <2>3, CallOutcome DEF Labels, ClusterTypeOK
<1>6. CASE UpdateChild
  <2> DEFINE k == UpdateOrder[at]
             obj == GenericObject(k, mg)
  <2>1. k \in Kinds /\ mg \in Configs /\ obj \in Objects
    BY <1>0, <1>6, Orders, GenericObjects DEF UpdateChild
  <2>2. /\ UNCHANGED <<lastUid, drifts, cached>>
        /\ Fault \/ UNCHANGED faults
        /\ (More /\ GoTo("update", at + 1)) \/ Requeue \/ Done
        /\ UpdateObj(k, obj) \/ UNCHANGED objects
    BY <1>6 DEF UpdateChild, Call, Answered
  <2>3. /\ cr' \in Configs \cup {NoConfig}
        /\ child' \in [Kinds -> Objects \cup {Absent}]
        /\ secret' \in Secrets \cup {Absent}
        /\ pods' \in Bodies \cup {Pending}
    BY <1>0, <2>1, <2>2, WritesTyped DEF objects, ClusterTypeOK
  <2>4. pc # "idle"
    BY <1>6 DEF UpdateChild
  <2>5. CASE More
    BY <1>0, <2>2, <2>3, <2>4, <2>5, CallOutcome DEF More, Labels
  <2>6. CASE ~More
    BY <1>0, <2>2, <2>3, <2>4, <2>6, CallOutcome DEF More, Labels
  <2> QED
    BY <2>5, <2>6
<1>7. CASE DeleteChild
  <2> DEFINE k == DeleteOrder[at]
  <2>1. k \in Kinds /\ pc # "idle"
    BY <1>0, <1>7, Orders DEF DeleteChild
  <2>2. /\ UNCHANGED <<lastUid, drifts, cached>>
        /\ Fault \/ UNCHANGED faults
        /\ (More /\ GoTo("delete", at + 1)) \/ Requeue \/ Done
        /\ DeleteObj(k) \/ UNCHANGED objects
    BY <1>7 DEF DeleteChild, Call, Answered
  <2>3. /\ UNCHANGED <<cr, secret>>
        /\ child' \in [Kinds -> Objects \cup {Absent}]
        /\ pods' \in Bodies \cup {Pending}
    BY <1>0, <2>1, <2>2 DEF DeleteObj, Restart, objects, ClusterTypeOK
  <2>4. CASE More
    BY <1>0, <2>1, <2>2, <2>3, <2>4, CallOutcome DEF More, Labels, ClusterTypeOK
  <2>5. CASE ~More
    BY <1>0, <2>1, <2>2, <2>3, <2>5, CallOutcome DEF Labels, ClusterTypeOK
  <2> QED
    BY <2>4, <2>5
<1> QED
  BY <1>1, <1>2, <1>3, <1>4, <1>5, <1>6, <1>7

\* The steps of the users, the garbage collector, the kubelet and the runtime.
LEMMA EnvironmentTyped ==
  ASSUME TypeInv,
         \/ SyncCache \/ Crash
         \/ (Users \/ Collect \/ StartPods) /\ UNCHANGED ctlVars
  PROVE  TypeInv'
<1>0. queued \in BOOLEAN /\ ClusterTypeOK
  BY DEF TypeInv, TypeOK
<1>1. CASE SyncCache
  <2>1. queued' \in BOOLEAN
    BY <1>1, Zenon DEF SyncCache
  <2> QED
    BY <1>0, <1>1, <2>1 DEF SyncCache, clusterVars, ClusterTypeOK, TypeInv, TypeOK, Positions
<1>2. CASE Crash
  BY <1>0, <1>2, ReturnTyped DEF Crash, Fault, ClusterTypeOK, TypeInv, TypeOK, Positions, Labels
<1>3. ASSUME Users \/ Collect \/ StartPods PROVE ClusterTypeOK'
  <2>1. CASE Apply
    <3>1. PICK s \in Specs :
            cr' = [uid |-> lastUid + 1, gen |-> 1, spec |-> s,
                   finalizer |-> FALSE, deleting |-> FALSE, refs |-> {}]
      BY <2>1 DEF Apply
    <3>2. cr' \in Configs /\ lastUid' \in Nat
      BY <1>0, <2>1, <3>1 DEF Apply, Configs, ClusterTypeOK
    <3> QED
      BY <1>0, <2>1, <3>2 DEF Apply, ClusterTypeOK
  <2>2. CASE EditSpec
    <3>1. cr \in Configs
      BY <1>0, <2>2 DEF EditSpec, ClusterTypeOK
    <3>2. PICK s \in Specs : cr' = [cr EXCEPT !.spec = s, !.gen = cr.gen + 1]
      BY <2>2 DEF EditSpec
    <3>3. cr.gen + 1 \in Nat
      BY <3>1 DEF Configs
    <3>4. \A n \in Nat : [cr EXCEPT !.spec = s, !.gen = n] \in Configs
      BY <3>1 DEF Configs
    <3>5. cr' \in Configs
      BY <3>2, <3>3, <3>4
    <3> QED
      BY <1>0, <2>2, <3>5 DEF EditSpec, ClusterTypeOK
  <2>3. CASE DeleteConfig
    <3>1. cr \in Configs
      BY <1>0, <2>3 DEF DeleteConfig, ClusterTypeOK
    <3>2. [cr EXCEPT !.deleting = TRUE] \in Configs
      BY <3>1 DEF Configs
    <3> QED
      BY <1>0, <2>3, <3>2 DEF DeleteConfig, ClusterTypeOK
  <2>4. CASE Drift
    <3>1. PICK k \in Kinds :
            DeleteObj(k) \/ UpdateObj(k, [child[k] EXCEPT !.body = Drifted])
      BY <2>4 DEF Drift
    <3>2. CASE UpdateObj(k, [child[k] EXCEPT !.body = Drifted])
      <4>1. [child[k] EXCEPT !.body = Drifted] \in Objects
        BY <1>0, <3>2 DEF UpdateObj, ClusterTypeOK, Objects, Bodies
      <4> QED
        BY <1>0, <2>4, <3>2, <4>1, WritesTyped DEF Drift, ClusterTypeOK
    <3>3. CASE DeleteObj(k)
      BY <1>0, <2>4, <3>3 DEF Drift, DeleteObj, Restart, ClusterTypeOK
    <3> QED
      BY <3>1, <3>2, <3>3
  <2>5. CASE Collect
    BY <1>0, <2>5 DEF Collect, DeleteObj, Restart, ClusterTypeOK
  <2>6. CASE StartPods
    BY <1>0, <2>6 DEF StartPods, ClusterTypeOK, Objects, Kinds
  <2> QED
    BY <1>3, <2>1, <2>2, <2>3, <2>4, <2>5, <2>6 DEF Users
<1>4. CASE (Users \/ Collect \/ StartPods) /\ UNCHANGED ctlVars
  BY <1>3, <1>4 DEF ctlVars, TypeInv, TypeOK, Positions
<1> QED
  BY <1>1, <1>2, <1>4

\* No step of the operator or of its environment breaks the types.
LEMMA TypeStep == TypeInv /\ [Next]_vars => TypeInv'
<1> SUFFICES ASSUME TypeInv, [Next]_vars PROVE TypeInv'
  OBVIOUS
<1>1. CASE UNCHANGED vars
  BY <1>1 DEF vars, clusterVars, ctlVars, TypeInv, TypeOK, ClusterTypeOK, Positions
<1> QED
  BY <1>1, ReadsTyped, WritesOfWorkerTyped, EnvironmentTyped DEF Next, Worker

\* Every variable keeps its type, and the worker never holds a position past the
\* end of a sequence of calls nor works without a copy of the configuration.
THEOREM TypeCorrect == Spec => []TypeOK
<1>1. TypeInv => TypeOK
  BY DEF TypeInv
<1> QED
  BY <1>1, TypeInit, TypeStep, PTL DEF Spec

-----------------------------------------------------------------------------
(***************************************************************************)
(* What a step can do to each part of the state, whoever takes it.  The    *)
(* preservation of IInv is proved from these summaries.                    *)
(***************************************************************************)

Applied ==
  /\ cr = NoConfig
  /\ cr' # NoConfig
  /\ cr'.uid = lastUid + 1
  /\ lastUid' = lastUid + 1
  /\ cr'.refs = {}
  /\ ~cr'.finalizer

Advanced ==
  /\ cr # NoConfig
  /\ cr' # NoConfig
  /\ cr'.uid = cr.uid
  /\ cr.finalizer => cr'.finalizer
  /\ cr.deleting => cr'.deleting
  /\ cr.refs \subseteq cr'.refs
  /\ cr'.refs # cr.refs => pc = "status"
  /\ cr'.finalizer => cr.finalizer \/ (pc = "adopt" /\ cr = mg)

Gone ==
  /\ cr # NoConfig
  /\ cr' = NoConfig
  /\ cr.finalizer => pc = "release" /\ cr = mg

ConfigStep ==
  \/ Applied
  \/ lastUid' = lastUid /\ (cr' = cr \/ Advanced \/ Gone)

ChildStep ==
  \A k \in Kinds : child'[k] # Absent =>
    \/ /\ child[k] # Absent
       /\ child'[k].owner = child[k].owner
       /\ child'[k].body \in {child[k].body, Drifted}
    \/ /\ pc \in {"create", "update"}
       /\ child'[k].owner = mg.uid
       /\ child'[k].body = GenericObject(k, mg).body
       /\ k = "ScraperConfig"
            => (pc = "update" \/ at = 4) /\ child'[k].body = ScraperSpec(mg.spec)

SecretStep ==
  \/ secret' = secret
  \/ pc = "endpoint" /\ secret' = EndpointSecret(mg, ip)
  \/ Orphaned(secret) /\ secret' = Absent

\* The worker goes on with the copy it has.
Move ==
  /\ Busy
  /\ UNCHANGED <<mg, cached>>
  /\ \/ pc = "observe" /\ pc' \in {"observe", "check", "adopt"}
     \/ pc = "check" /\ pc' = "check"
     \/ pc \in {"observe", "check"} /\ pc' \in {"delete", "release"} /\ mg.deleting
     \/ pc = "delete" /\ pc' = "delete"
     \/ pc = "observe" /\ pc' = "create" /\ at' = 1 /\ mg.finalizer /\ ~mg.deleting
     \/ pc = "check" /\ pc' = "getService" /\ ~mg.deleting
     \/ pc \in Writing /\ pc' \in Writing \ {"create", "update"}
     \/ /\ pc = "endpoint" /\ pc' \in {"create", "update"}
        /\ mg.spec.scraper # NoScraper
        /\ NeedsEndpoint(mg) => secret' = EndpointSecret(mg, ip)
     \/ pc = "update" /\ pc' = "update"

Adopted ==
  /\ pc = "adopt" /\ pc' = "create" /\ at' = 1
  /\ cr' # NoConfig /\ mg' = cr' /\ cr'.uid = mg.uid /\ cr'.finalizer
  /\ UNCHANGED cached

Reread ==
  /\ pc = "refetch"
  /\ (pc' = "create" /\ at' <= 3) \/ pc' = "getService"
  /\ cr # NoConfig /\ mg' = cr
  /\ UNCHANGED <<cr, cached>>

CacheStep == cached' = cached \/ (cached' = cr /\ UNCHANGED cr)

CtlStep ==
  \/ UNCHANGED <<pc, at, mg>> /\ CacheStep
  \/ pc' = "idle" /\ CacheStep
  \/ /\ pc = "idle" /\ pc' = "observe" /\ cached # NoConfig /\ mg' = cached
     /\ UNCHANGED <<cr, cached>>
  \/ Move
  \/ Adopted
  \/ Reread

\* The configuration on the server only advances, and only the release of its
\* finalizer removes one that has it.
LEMMA ConfigSteps == TypeInv /\ [Next]_vars => ConfigStep
<1> SUFFICES ASSUME TypeInv, [Next]_vars PROVE ConfigStep
  OBVIOUS
<1>0. cr \in Configs \cup {NoConfig} /\ (pc # "idle" => mg \in Configs) /\ at \in 1..4
  BY DEF TypeInv, TypeOK, ClusterTypeOK
<1>1. CASE AddFinalizer
  <2>1. /\ pc = "adopt" /\ UNCHANGED lastUid
        /\ UNCHANGED cr \/ (cr = mg /\ cr' = [mg EXCEPT !.finalizer = TRUE])
    BY <1>1 DEF AddFinalizer, IsCurrent, objects
  <2>2. CASE cr = mg /\ cr' = [mg EXCEPT !.finalizer = TRUE]
    <3>1. mg \in Configs /\ cr' \in Configs
      BY <1>0, <1>1, <2>2 DEF AddFinalizer, Configs
    <3> QED
      BY <2>1, <2>2, <3>1, NullsAssumption DEF ConfigStep, Advanced, Configs
  <2> QED
    BY <2>1, <2>2 DEF ConfigStep
<1>2. CASE RemoveFinalizer
  BY <1>0, <1>2, NullsAssumption DEF RemoveFinalizer, Call, Answered, IsCurrent, objects, ConfigStep, Gone
<1>3. CASE RecordStatus
  <2> DEFINE refs == mg.refs \cup {CreateOrder[at]}
  <2>1. /\ UNCHANGED lastUid
        /\ pc = "status" /\ mg \in Configs
        /\ UNCHANGED cr \/ (cr = mg /\ cr' = [cr EXCEPT !.refs = refs])
    BY <1>0, <1>3 DEF RecordStatus, Call, Answered, IsCurrent, UpdateStatus, objects
  <2>2. CASE cr = mg /\ cr' = [cr EXCEPT !.refs = refs]
    <3>1. cr' \in Configs
      BY <1>0, <2>1, <2>2, Orders DEF Configs
    <3> QED
      BY <2>1, <2>2, <3>1, NullsAssumption DEF ConfigStep, Advanced, Configs
  <2> QED
    BY <2>1, <2>2 DEF ConfigStep
<1>4. CASE Apply
  <2>1. PICK s \in Specs :
          cr' = [uid |-> lastUid + 1, gen |-> 1, spec |-> s,
                 finalizer |-> FALSE, deleting |-> FALSE, refs |-> {}]
    BY <1>4 DEF Apply
  <2>2. lastUid \in Nat
    BY DEF TypeInv, TypeOK, ClusterTypeOK
  <2>3. cr' \in Configs
    BY <2>1, <2>2 DEF Configs
  <2> QED
    BY <1>4, <2>1, <2>3, NullsAssumption DEF Apply, ConfigStep, Applied
<1>5. CASE EditSpec
  <2>1. cr \in Configs
    BY <1>0, <1>5 DEF EditSpec
  <2>2. PICK s \in Specs : cr' = [cr EXCEPT !.spec = s, !.gen = cr.gen + 1]
    BY <1>5 DEF EditSpec
  <2>3. /\ cr'.uid = cr.uid /\ cr'.finalizer = cr.finalizer
        /\ cr'.deleting = cr.deleting /\ cr'.refs = cr.refs
    BY <2>1, <2>2 DEF Configs
  <2>4. cr.gen + 1 \in Nat
    BY <2>1 DEF Configs
  <2>5. \A n \in Nat : [cr EXCEPT !.spec = s, !.gen = n] \in Configs
    BY <2>1 DEF Configs
  <2>6. cr' # NoConfig
    BY <2>2, <2>4, <2>5, NullsAssumption
  <2> QED
    BY <1>5, <2>3, <2>6 DEF EditSpec, ConfigStep, Advanced
<1>6. CASE DeleteConfig
  <2>1. cr \in Configs
    BY <1>0, <1>6 DEF DeleteConfig
  <2>2. CASE cr.finalizer
    <3>1. cr' = [cr EXCEPT !.deleting = TRUE]
      BY <1>6, <2>2 DEF DeleteConfig
    <3>2. cr' \in Configs
      BY <2>1, <3>1 DEF Configs
    <3> QED
      BY <1>6, <2>1, <3>1, <3>2, NullsAssumption DEF DeleteConfig, ConfigStep, Advanced, Configs
  <2>3. CASE ~cr.finalizer
    BY <1>6, <2>3 DEF DeleteConfig, ConfigStep, Gone
  <2> QED
    BY <2>2, <2>3
<1>7. CASE UNCHANGED <<cr, lastUid>>
  BY <1>7 DEF ConfigStep
<1>8. CASE UNCHANGED vars
  BY <1>7, <1>8 DEF vars, clusterVars
<1>9. CASE Worker
  BY <1>1, <1>2, <1>3, <1>7, <1>9
     DEF Worker, StartReconcile, Observe, checkExporterStatus, CreateChild, Refetch,
         GetService, CreateEndpointRef, UpdateChild, DeleteChild, Call, CreateObj,
         UpdateObj, DeleteObj, CreateOrUpdate, objects, clusterVars
<1>10. CASE SyncCache \/ Crash \/ Drift \/ Collect \/ StartPods
  BY <1>7, <1>10 DEF SyncCache, Crash, Drift, Collect, StartPods, UpdateObj, DeleteObj, clusterVars
<1> QED
  BY <1>4, <1>5, <1>6, <1>8, <1>9, <1>10 DEF Next, Users

\* Only Create and Update give an object a body or an owner, and then those of
\* the worker's copy; other clients change bodies, and objects disappear.
LEMMA ChildSteps == TypeInv /\ [Next]_vars => ChildStep
<1> SUFFICES ASSUME TypeInv, [Next]_vars, NEW k \in Kinds, child'[k] # Absent
             PROVE  \/ /\ child[k] # Absent
                       /\ child'[k].owner = child[k].owner
                       /\ child'[k].body \in {child[k].body, Drifted}
                    \/ /\ pc \in {"create", "update"}
                       /\ child'[k].owner = mg.uid
                       /\ child'[k].body = GenericObject(k, mg).body
                       /\ k = "ScraperConfig"
                            => /\ pc = "update" \/ at = 4
                               /\ child'[k].body = ScraperSpec(mg.spec)
  BY DEF ChildStep
<1>0. /\ child \in [Kinds -> Objects \cup {Absent}]
      /\ pc # "idle" => mg \in Configs
      /\ at \in 1..4
  BY DEF TypeInv, TypeOK, ClusterTypeOK
<1>1. CASE CreateChild
  <2> DEFINE j == CreateOrder[at]
             obj == GenericObject(j, mg)
  <2>1. j \in Kinds /\ obj \in Objects /\ pc = "create"
    BY <1>0, <1>1, Orders, GenericObjects DEF CreateChild
  <2>2. obj.owner = mg.uid /\ (j = "ScraperConfig" => obj.body = ScraperSpec(mg.spec))
    BY <1>0, <2>1, GenericObjects
  <2>3. CASE k = j /\ CreateObj(j, obj)
    <3>1. PICK addr \in IPs \cup {NoIP} :
                 child' = [child EXCEPT ![j] = [obj EXCEPT !.ip = addr]]
      BY <2>3 DEF CreateObj
    <3>2. child'[k] = [obj EXCEPT !.ip = addr]
      BY <1>0, <2>1, <2>3, <3>1
    <3>3. child'[k].owner = obj.owner /\ child'[k].body = obj.body
      BY <2>1, <3>2 DEF Objects
    <3> QED
      BY <1>0, <2>1, <2>2, <2>3, <3>3, Orders
  <2>4. CASE child'[k] = child[k]
    BY <2>4
  <2>5. (k = j /\ CreateObj(j, obj)) \/ child'[k] = child[k]
    <3>1. CreateObj(j, obj) \/ UNCHANGED child
      BY <1>1 DEF CreateChild, Call, objects
    <3> QED
      BY <1>0, <2>1, <3>1 DEF CreateObj
  <2> QED
    BY <2>3, <2>4, <2>5
<1>2. CASE UpdateChild
  <2> DEFINE j == UpdateOrder[at]
             obj == GenericObject(j, mg)
  <2>1. j \in Kinds /\ obj \in Objects /\ pc = "update"
    BY <1>0, <1>2, Orders, GenericObjects DEF UpdateChild
  <2>2. obj.owner = mg.uid /\ (j = "ScraperConfig" => obj.body = ScraperSpec(mg.spec))
    BY <1>0, <2>1, GenericObjects
  <2>3. \/ k = j /\ child'[k] = [obj EXCEPT !.ip = child[j].ip]
        \/ child'[k] = child[k]
    <3>1. UpdateObj(j, obj) \/ UNCHANGED child
      BY <1>2 DEF UpdateChild, Call, Answered, objects
    <3> QED
      BY <1>0, <2>1, <3>1 DEF UpdateObj
  <2>4. CASE k = j /\ child'[k] = [obj EXCEPT !.ip = child[j].ip]
    <3>1. child'[k].owner = obj.owner /\ child'[k].body = obj.body
      BY <2>1, <2>4 DEF Objects
    <3> QED
      BY <2>1, <2>2, <2>4, <3>1
  <2> QED
    BY <2>3, <2>4
<1>3. CASE Drift
  <2>1. PICK j \in Kinds :
          DeleteObj(j) \/ UpdateObj(j, [child[j] EXCEPT !.body = Drifted])
    BY <1>3 DEF Drift
  <2>2. CASE DeleteObj(j)
    BY <1>0, <2>2 DEF DeleteObj
  <2>3. CASE UpdateObj(j, [child[j] EXCEPT !.body = Drifted])
    <3> DEFINE obj == [child[j] EXCEPT !.body = Drifted]
    <3>1. child[j] \in Objects
      BY <1>0, <2>3 DEF UpdateObj
    <3>2. obj \in Objects /\ obj.owner = child[j].owner /\ obj.body = Drifted
      BY <3>1 DEF Objects, Bodies
    <3>3. \/ k = j /\ child'[k] = [obj EXCEPT !.ip = child[j].ip]
          \/ child'[k] = child[k]
      BY <1>0, <2>3 DEF UpdateObj
    <3>4. CASE k = j /\ child'[k] = [obj EXCEPT !.ip = child[j].ip]
      <4>1. child'[k].owner = obj.owner /\ child'[k].body = obj.body
        BY <3>2, <3>4 DEF Objects
      <4> QED
        BY <2>3, <3>2, <3>4, <4>1 DEF UpdateObj
    <3> QED
      BY <3>3, <3>4
  <2> QED
    BY <2>1, <2>2, <2>3
<1>4. CASE DeleteChild
  BY <1>0, <1>4, Orders DEF DeleteChild, Call, Answered, DeleteObj, objects
<1>5. CASE Collect
  BY <1>0, <1>5 DEF Collect, DeleteObj
<1>6. CASE UNCHANGED child
  BY <1>6
<1>7. CASE Worker
  BY <1>1, <1>2, <1>4, <1>6, <1>7
     DEF Worker, StartReconcile, Observe, checkExporterStatus, AddFinalizer,
         RemoveFinalizer, RecordStatus, Refetch, GetService, CreateEndpointRef,
         Call, Answered, CreateOrUpdate, UpdateStatus, objects, clusterVars
<1>8. CASE SyncCache \/ Crash \/ Apply \/ EditSpec \/ DeleteConfig \/ StartPods \/ UNCHANGED vars
  BY <1>6, <1>8 DEF SyncCache, Crash, Apply, EditSpec, DeleteConfig, StartPods, clusterVars, vars
<1> QED
  BY <1>3, <1>5, <1>7, <1>8 DEF Next, Users

\* Only createEndpointRef writes the endpoint Secret.
LEMMA SecretSteps == TypeInv /\ [Next]_vars => SecretStep
<1> SUFFICES ASSUME TypeInv, [Next]_vars PROVE SecretStep
  OBVIOUS
<1>1. CASE CreateEndpointRef
  BY <1>1 DEF CreateEndpointRef, Call, Answered, CreateOrUpdate, objects, SecretStep
<1>2. CASE UNCHANGED secret
  BY <1>2 DEF SecretStep
<1>3. CASE Worker
  BY <1>1, <1>2, <1>3
     DEF Worker, StartReconcile, Observe, checkExporterStatus, AddFinalizer,
         RemoveFinalizer, CreateChild, RecordStatus, Refetch, GetService,
         UpdateChild, DeleteChild, Call, Answered, CreateObj, UpdateObj,
         DeleteObj, UpdateStatus, objects, clusterVars
<1>4. CASE Collect
  BY <1>2, <1>4 DEF Collect, DeleteObj, SecretStep
<1>5. CASE Drift
  BY <1>2, <1>5 DEF Drift, DeleteObj, UpdateObj
<1>6. CASE SyncCache \/ Crash \/ Apply \/ EditSpec \/ DeleteConfig \/ StartPods \/ UNCHANGED vars
  BY <1>2, <1>6 DEF SyncCache, Crash, Apply, EditSpec, DeleteConfig, StartPods, clusterVars, vars
<1> QED
  BY <1>3, <1>4, <1>5, <1>6 DEF Next, Users

\* The worker goes from call to call as Move, Adopted and Reread say, and only
\* they, a new reconcile and the cache touch what it works from.
LEMMA CtlSteps == TypeInv /\ [Next]_vars => CtlStep
<1> SUFFICES ASSUME TypeInv, [Next]_vars PROVE CtlStep
  OBVIOUS
<1>0. /\ at \in 1..4 /\ pc \in Labels
      /\ pc # "idle" => mg \in Configs
      /\ pc = "refetch" => at <= 3
      /\ pc \in {"endpoint", "getService"} => at \in {1, 4}
  BY DEF TypeInv, TypeOK, Positions
<1>e. ASSUME pc' = "idle", UNCHANGED cached PROVE CtlStep
  BY <1>e DEF CtlStep, CacheStep
<1>r. ASSUME Requeue \/ Done, UNCHANGED cached PROVE CtlStep
  BY <1>e, <1>r DEF Requeue, Done, Return
<1>1. CASE StartReconcile
  BY <1>1 DEF StartReconcile, CtlStep, clusterVars
<1>2. CASE Observe
  <2>1. /\ pc = "observe" /\ UNCHANGED cached
        /\ \/ GoTo("observe", at + 1) \/ GoTo("check", 1) \/ Missing
    BY <1>2 DEF Observe, Answered, Failed
  <2> QED
    BY <2>1 DEF Missing, GoTo, CtlStep, Move, Busy
<1>3. CASE checkExporterStatus
  <2>1. /\ pc = "check" /\ UNCHANGED cached
        /\ \/ GoTo("check", at + 1)
           \/ mg.deleting /\ GoTo("delete", 1)
           \/ ~mg.deleting /\ GoTo("getService", 1)
           \/ Requeue \/ Done
    BY <1>3 DEF checkExporterStatus, Answered, Failed, Existing
  <2> QED
    BY <1>r, <2>1 DEF GoTo, CtlStep, Move, Busy
<1>4. CASE AddFinalizer
  <2>1. CASE Requeue
    BY <1>4, <1>r, <2>1 DEF AddFinalizer
  <2>2. CASE ~Requeue
    <3>1. /\ pc = "adopt" /\ pc' = "create" /\ at' = 1 /\ UNCHANGED cached
          /\ mg' = cr' /\ cr' = [mg EXCEPT !.finalizer = TRUE]
      BY <1>4, <2>2 DEF AddFinalizer, Answered, Failed
    <3>2. cr' \in Configs /\ cr'.uid = mg.uid /\ cr'.finalizer
      BY <1>0, <3>1 DEF Configs
    <3> QED
      BY <3>1, <3>2, NullsAssumption DEF CtlStep, Adopted
  <2> QED
    BY <2>1, <2>2
<1>5. CASE RemoveFinalizer
  BY <1>5, <1>r DEF RemoveFinalizer, Call, Answered
<1>6. CASE CreateChild
  BY <1>6, <1>r DEF CreateChild, Call, GoTo, CtlStep, Move, Busy, Writing
<1>7. CASE RecordStatus
  BY <1>7, <1>r DEF RecordStatus, Call, Answered, GoTo, CtlStep, Move, Busy, Writing
<1>8. CASE Refetch
  <2>1. CASE Requeue
    BY <1>8, <1>r, <2>1 DEF Refetch
  <2>2. CASE ~Requeue
    <3>1. /\ pc = "refetch" /\ cr # NoConfig /\ mg' = cr /\ at' = at + 1
          /\ pc' = IF at = 3 THEN "getService" ELSE "create"
          /\ UNCHANGED <<cr, cached>>
      BY <1>8, <2>2 DEF Refetch, Answered, Failed, objects
    <3>2. pc' = "create" => at' <= 3
      BY <1>0, <3>1
    <3> QED
      BY <3>1, <3>2 DEF CtlStep, Reread
  <2> QED
    BY <2>1, <2>2
<1>9. CASE GetService
  BY <1>9, <1>r DEF GetService, Answered, Failed, CtlStep, Move, Busy, Writing
<1>10. CASE CreateEndpointRef
  <2> DEFINE label == IF at = 4 THEN "create" ELSE "update"
  <2>1. /\ pc = "endpoint" /\ UNCHANGED cached
        /\ \/ Requeue
           \/ /\ GoTo(label, at)
              /\ mg.spec.scraper # NoScraper
              /\ NeedsEndpoint(mg) => secret' = EndpointSecret(mg, ip)
    BY <1>10 DEF CreateEndpointRef, Call, Answered, CreateOrUpdate
  <2> QED
    BY <1>r, <2>1 DEF GoTo, CtlStep, Move, Busy
<1>11. CASE UpdateChild
  BY <1>11, <1>r DEF UpdateChild, Call, Answered, GoTo, CtlStep, Move, Busy
<1>12. CASE DeleteChild
  BY <1>12, <1>r DEF DeleteChild, Call, Answered, GoTo, CtlStep, Move, Busy
<1>13. CASE SyncCache
  BY <1>13 DEF SyncCache, CtlStep, CacheStep, clusterVars
<1>14. CASE Crash
  BY <1>14 DEF Crash, Requeue, Return, CtlStep, CacheStep
<1>15. CASE UNCHANGED ctlVars
  BY <1>15 DEF ctlVars, CtlStep, CacheStep
<1>16. CASE UNCHANGED vars
  BY <1>15, <1>16 DEF vars
<1> QED
  BY <1>1, <1>2, <1>3, <1>4, <1>5, <1>6, <1>7, <1>8, <1>9, <1>10, <1>11, <1>12,
     <1>13, <1>14, <1>15, <1>16 DEF Next, Worker

-----------------------------------------------------------------------------
\* With nothing applied and an idle worker there are no copies to differ.
LEMMA InvInit == Init => IInv
<1> SUFFICES ASSUME Init PROVE IInv
  OBVIOUS
<1>1. TypeOK /\ Positions
  BY TypeInit DEF TypeInv
<1>2. cr = NoConfig /\ cached = NoConfig /\ pc = "idle" /\ \A k \in Kinds : child[k] = Absent
  BY DEF Init, ClusterInit
<1> QED
  BY <1>1, <1>2 DEF IInv, CopiesInv, UidsGrow, OwnersKnown, UnseenOwnsNothing, MarkStays, RefsNeedFinalizer,
     FinalizerHolds, AdoptedIsSeen, WorkerHoldsConfig, EndpointReady,
     EndpointBeforeScraper, Busy, NoneOwned, Writing

\* What happens to the configuration and to the worker keeps the copies in
\* order: one part of CopiesInv per step of the proof.
LEMMA CopiesStep ==
  ASSUME CopiesInv, TypeInv', ConfigStep, CtlStep
  PROVE  CopiesInv'
<1>1. ConfigStep /\ CtlStep
  OBVIOUS
<1>n. /\ lastUid \in Nat
      /\ cr # NoConfig => cr.uid \in Nat
      /\ cached # NoConfig => cached.uid \in Nat
      /\ Busy => mg.uid \in Nat
  BY DEF CopiesInv, TypeOK, ClusterTypeOK, Busy, Configs
<1>2. UidsGrow'
  <2>1. lastUid' \in Nat /\ lastUid <= lastUid'
    BY <1>1, <1>n DEF ConfigStep, Applied
  <2>2. cr' # NoConfig
          => /\ cr'.uid <= lastUid'
             /\ cached # NoConfig => cached.uid <= cr'.uid
             /\ Busy => mg.uid <= cr'.uid
    BY <1>1, <1>n DEF CopiesInv, UidsGrow, ConfigStep, Applied, Advanced, Gone
  <2>4. CASE UNCHANGED <<pc, at, mg>> /\ CacheStep
    BY <1>n, <2>1, <2>2, <2>4 DEF CopiesInv, UidsGrow, CacheStep, Busy
  <2>5. CASE pc' = "idle" /\ CacheStep
    BY <1>n, <2>1, <2>2, <2>5 DEF CopiesInv, UidsGrow, CacheStep, Busy
  <2>6. CASE /\ pc = "idle" /\ pc' = "observe" /\ cached # NoConfig /\ mg' = cached
             /\ UNCHANGED <<cr, cached>>
    BY <1>n, <2>1, <2>2, <2>6 DEF CopiesInv, UidsGrow, Busy
  <2>7. CASE Move
    BY <1>n, <2>1, <2>2, <2>7 DEF CopiesInv, UidsGrow, Move, Busy
  <2>8. CASE Adopted
    BY <1>n, <2>1, <2>2, <2>8 DEF CopiesInv, UidsGrow, Adopted, Busy
  <2>9. CASE Reread
    <3>1. cr.uid = mg.uid /\ Busy
      BY <2>9 DEF CopiesInv, WorkerHoldsConfig, Reread, Writing, Busy
    <3> QED
      BY <1>n, <2>1, <2>2, <2>9, <3>1 DEF CopiesInv, UidsGrow, Reread, Busy
  <2> QED
    BY <1>1, <2>4, <2>5, <2>6, <2>7, <2>8, <2>9 DEF CtlStep
<1>3. MarkStays'
  <2>1. ASSUME NEW config, config \in {cached, mg}, config.uid <= lastUid, config.uid \in Nat,
               cr # NoConfig /\ cr.uid = config.uid => cr.deleting,
               cr' # NoConfig, cr'.uid = config.uid
        PROVE  cr'.deleting
    BY <1>1, <1>n, <2>1 DEF ConfigStep, Applied, Advanced, Gone
  <2>2. ASSUME cached' # NoConfig, cached'.deleting, cr' # NoConfig, cr'.uid = cached'.uid
        PROVE  cr'.deleting
    <3>1. CASE cached' = cached
      BY <1>n, <2>1, <2>2, <3>1 DEF CopiesInv, UidsGrow, MarkStays
    <3>2. CASE cached' = cr /\ cr' = cr
      BY <2>2, <3>2
    <3> QED
      BY <1>1, <3>1, <3>2 DEF CtlStep, CacheStep, Move, Adopted, Reread
  <2>3. ASSUME Busy', mg'.deleting, cr' # NoConfig, cr'.uid = mg'.uid
        PROVE  cr'.deleting
    <3>1. CASE Busy /\ mg' = mg
      BY <1>n, <2>1, <2>3, <3>1 DEF CopiesInv, UidsGrow, MarkStays
    <3>2. CASE cached # NoConfig /\ mg' = cached
      BY <1>n, <2>1, <2>3, <3>2 DEF CopiesInv, UidsGrow, MarkStays
    <3>3. CASE mg' = cr'
      BY <2>3, <3>3
    <3> QED
      BY <1>1, <2>3, <3>1, <3>2, <3>3
         DEF CtlStep, CacheStep, Move, Adopted, Reread, Busy
  <2>4. ASSUME pc' \in {"observe", "check", "delete", "release"}, mg'.deleting,
               cached' # NoConfig, cached'.uid = mg'.uid
        PROVE  cached'.deleting
    <3>1. CASE UNCHANGED <<pc, mg>> /\ cached' = cr /\ cr' = cr
      BY <2>4, <3>1 DEF CopiesInv, MarkStays, Busy
    <3>2. CASE /\ mg' = mg /\ cached' = cached
               /\ pc \in {"observe", "check", "delete", "release"}
      BY <2>4, <3>2 DEF CopiesInv, MarkStays
    <3>3. CASE mg' = cached /\ cached' = cached
      BY <2>4, <3>3
    <3> QED
      BY <1>1, <2>4, <3>1, <3>2, <3>3
         DEF CtlStep, CacheStep, Move, Adopted, Reread, Writing
  <2>5. pc' \in {"delete", "release"} => mg'.deleting
    BY <1>1 DEF CopiesInv, MarkStays, CtlStep, Move, Adopted, Reread, Writing
  <2> QED
    BY <2>2, <2>3, <2>4, <2>5 DEF MarkStays
<1>4. RefsNeedFinalizer'
  <2>1. cr' # NoConfig /\ cr'.refs # {} => cr'.finalizer
    BY <1>1 DEF CopiesInv, RefsNeedFinalizer, WorkerHoldsConfig, Writing, ConfigStep,
                Applied, Advanced, Gone
  <2>2. cached' # NoConfig /\ cached'.refs # {} => cached'.finalizer
    BY <1>1 DEF CopiesInv, RefsNeedFinalizer, CtlStep, CacheStep, Move, Adopted, Reread
  <2>3. Busy' /\ mg'.refs # {} => mg'.finalizer
    BY <1>1 DEF CopiesInv, RefsNeedFinalizer, CtlStep, Move, Adopted, Reread, Busy
  <2> QED
    BY <2>1, <2>2, <2>3 DEF RefsNeedFinalizer
<1>5. FinalizerHolds'
  <2>1. ASSUME NEW config, Held(config),
               pc = "release" /\ cr = mg => (cr.uid = config.uid => config.deleting),
               config.finalizer, ~config.deleting
        PROVE  cr' # NoConfig /\ cr'.uid = config.uid /\ cr'.finalizer
    BY <1>1, <2>1 DEF Held, ConfigStep, Applied, Advanced, Gone
  <2>2. ASSUME cached' # NoConfig, cached'.finalizer, ~cached'.deleting
        PROVE  cr' # NoConfig /\ cr'.uid = cached'.uid /\ cr'.finalizer
    <3>1. CASE cached' = cached
      <4>1. pc = "release" /\ cr = mg => (cr.uid = cached.uid => cached.deleting)
        BY <2>2, <3>1 DEF CopiesInv, MarkStays
      <4> QED
        BY <2>1, <2>2, <3>1, <4>1 DEF CopiesInv, FinalizerHolds
    <3>2. CASE cached' = cr /\ cr' = cr
      BY <2>2, <3>2
    <3> QED
      BY <1>1, <3>1, <3>2 DEF CtlStep, CacheStep, Move, Adopted, Reread
  <2>3. ASSUME Busy', mg'.finalizer, ~mg'.deleting
        PROVE  cr' # NoConfig /\ cr'.uid = mg'.uid /\ cr'.finalizer
    <3>1. CASE Busy /\ mg' = mg
      <4>1. pc = "release" => mg.deleting
        BY DEF CopiesInv, MarkStays
      <4> QED
        BY <2>1, <2>3, <3>1, <4>1 DEF CopiesInv, FinalizerHolds
    <3>2. CASE pc = "idle" /\ cached # NoConfig /\ mg' = cached
      BY <2>1, <2>3, <3>2 DEF CopiesInv, FinalizerHolds
    <3>3. CASE cr' # NoConfig /\ mg' = cr'
      BY <2>3, <3>3
    <3> QED
      BY <1>1, <2>3, <3>1, <3>2, <3>3
         DEF CtlStep, CacheStep, Move, Adopted, Reread, Busy
  <2> QED
    BY <2>2, <2>3 DEF FinalizerHolds, Held
<1>6. WorkerHoldsConfig'
  <2> SUFFICES ASSUME pc' \in Writing
               PROVE  cr' # NoConfig /\ cr'.uid = mg'.uid /\ cr'.finalizer
    BY DEF WorkerHoldsConfig
  <2>1. CASE pc \in Writing
    <3>1. cr' # NoConfig /\ cr'.uid = cr.uid /\ cr'.finalizer
      BY <1>1, <2>1 DEF CopiesInv, WorkerHoldsConfig, Writing, ConfigStep, Applied, Advanced, Gone
    <3>2. mg' = mg \/ mg' = cr
      BY <1>1, <2>1 DEF CtlStep, Move, Adopted, Reread, Writing
    <3> QED
      BY <2>1, <3>1, <3>2 DEF CopiesInv, WorkerHoldsConfig
  <2>2. CASE Adopted
    BY <2>2 DEF Adopted
  <2>3. CASE pc \notin Writing /\ Move
    <3>1. mg.finalizer /\ ~mg.deleting /\ mg' = mg /\ Busy'
      BY <2>3 DEF Move, Writing, Busy, CopiesInv, Positions, RefsNeedFinalizer
    <3> QED
      BY <1>5, <3>1 DEF FinalizerHolds, Held
  <2> QED
    BY <1>1, <2>1, <2>2, <2>3 DEF CtlStep, Reread, Writing
<1>7. AdoptedIsSeen'
  <2>1. ASSUME cr # NoConfig, cr' # NoConfig, cr'.uid = cr.uid, Busy', mg'.uid = cr'.uid
        PROVE  cached' # NoConfig /\ cached'.uid = cr'.uid
    <3>1. \/ Busy /\ mg.uid = cr.uid
          \/ cached # NoConfig /\ cached.uid = cr.uid
      BY <1>1, <2>1 DEF CtlStep, CacheStep, Move, Adopted, Reread, Busy, CopiesInv,
                        WorkerHoldsConfig, Writing
    <3>2. cached # NoConfig /\ cached.uid = cr.uid
      BY <2>1, <3>1 DEF CopiesInv, AdoptedIsSeen
    <3> QED
      BY <1>1, <2>1, <3>2 DEF CtlStep, CacheStep, Move, Adopted, Reread
  <2>2. ASSUME cr # NoConfig, cr' # NoConfig, cr'.uid = cr.uid, cr'.finalizer
        PROVE  /\ cached' # NoConfig /\ cached'.uid = cr'.uid
               /\ Busy' => mg'.uid = cr'.uid
    <3>1. cr.finalizer \/ (pc = "adopt" /\ mg = cr)
      BY <1>1, <1>n, <2>2 DEF ConfigStep, Applied, Advanced, Gone
    <3>2. /\ cached # NoConfig /\ cached.uid = cr.uid
          /\ Busy => mg.uid = cr.uid
      BY <2>2, <3>1 DEF CopiesInv, AdoptedIsSeen, Busy
    <3> QED
      BY <1>1, <2>2, <3>2 DEF CtlStep, CacheStep, Move, Adopted, Reread, Busy
  <2>3. ASSUME cr' # NoConfig, ~(cr # NoConfig /\ cr'.uid = cr.uid)
        PROVE  Applied /\ ~cr'.finalizer /\ (Busy' => mg'.uid # cr'.uid)
    <3>1. Applied
      BY <1>1, <2>3 DEF ConfigStep, Advanced, Gone
    <3>2. Busy' => (Busy /\ mg' = mg)
      BY <1>1, <2>3, <3>1 DEF Applied, CtlStep, CacheStep, Move, Adopted, Reread, Busy,
                              CopiesInv, WorkerHoldsConfig, Writing
    <3> QED
      BY <1>n, <3>1, <3>2 DEF Applied, CopiesInv, UidsGrow
  <2> QED
    BY <2>1, <2>2, <2>3 DEF AdoptedIsSeen
<1> QED
  BY <1>2, <1>3, <1>4, <1>5, <1>6, <1>7 DEF CopiesInv, TypeInv

\* Every step keeps the invariant: one part of it per step of the proof.
LEMMA InvStep == IInv /\ [Next]_vars => IInv'
<1> SUFFICES ASSUME IInv, [Next]_vars PROVE IInv'
  OBVIOUS
<1>1. TypeInv /\ TypeInv'
  BY TypeStep DEF IInv, CopiesInv, TypeInv
<1>2. ConfigStep /\ ChildStep /\ SecretStep /\ CtlStep
  BY <1>1, ConfigSteps, ChildSteps, SecretSteps, CtlSteps
<1>t. /\ TypeOK /\ TypeOK' /\ Positions /\ Positions'
  BY <1>1 DEF TypeInv
<1>n. /\ lastUid \in Nat
      /\ cr # NoConfig => cr.uid \in Nat
      /\ cached # NoConfig => cached.uid \in Nat
      /\ Busy => mg.uid \in Nat
      /\ \A k \in Kinds : child[k] # Absent => child[k].owner \in Nat
  BY <1>t DEF TypeOK, ClusterTypeOK, Busy, Configs, Objects
<1>c. CopiesInv'
  BY <1>1, <1>2, CopiesStep DEF IInv
<1>3. OwnersKnown'
  <2> SUFFICES ASSUME NEW k \in Kinds, child'[k] # Absent
               PROVE  child'[k].owner <= lastUid'
    BY DEF OwnersKnown
  <2>1. lastUid' \in Nat /\ lastUid <= lastUid'
    BY <1>2, <1>n DEF ConfigStep, Applied
  <2>2. \/ child[k] # Absent /\ child'[k].owner = child[k].owner
        \/ Busy /\ child'[k].owner = mg.uid
    BY <1>2 DEF ChildStep, Busy
  <2> QED
    BY <2>1, <2>2, <1>n DEF IInv, CopiesInv, OwnersKnown, UidsGrow
<1>4. UnseenOwnsNothing'
  \* A step that writes an object writes it for an incarnation both have seen.
  <2>1. ASSUME cr' # NoConfig, cr # NoConfig, cr'.uid = cr.uid, NoneOwned,
               pc \in {"create", "update"} => mg.uid # cr.uid
        PROVE  NoneOwned'
    <3> SUFFICES ASSUME NEW k \in Kinds, child'[k] # Absent
                 PROVE  child'[k].owner # cr'.uid
      BY DEF NoneOwned
    <3> QED
      BY <1>2, <2>1 DEF ChildStep, NoneOwned
  <2>2. CASE Applied
    <3>1. \A k \in Kinds : child'[k] # Absent => child'[k].owner <= lastUid
      <4> SUFFICES ASSUME NEW k \in Kinds, child'[k] # Absent
                   PROVE  child'[k].owner <= lastUid
        OBVIOUS
      <4>1. \/ child[k] # Absent /\ child'[k].owner = child[k].owner
            \/ Busy /\ child'[k].owner = mg.uid
        BY <1>2 DEF ChildStep, Busy
      <4> QED
        BY <4>1 DEF IInv, CopiesInv, UidsGrow, OwnersKnown
    <3>2. NoneOwned'
      BY <1>n, <2>2, <3>1, <1>1 DEF NoneOwned, Applied, TypeInv, TypeOK, ClusterTypeOK, Objects
    <3> QED
      BY <3>2 DEF UnseenOwnsNothing
  <2>3. CASE cr' = NoConfig
    BY <2>3 DEF UnseenOwnsNothing
  <2>4. CASE cr # NoConfig /\ cr' # NoConfig /\ cr'.uid = cr.uid
    <3>1. pc \in {"create", "update"} => mg.uid = cr.uid /\ Busy
      BY DEF IInv, CopiesInv, WorkerHoldsConfig, Writing, Busy
    <3>2. ASSUME cached # NoConfig, cached.uid < cr.uid PROVE NoneOwned'
      <4>1. pc \in {"create", "update"} => mg.uid # cr.uid
        BY <1>n, <2>4, <3>1, <3>2 DEF IInv, CopiesInv, UidsGrow, OwnersKnown
      <4>2. NoneOwned
        BY <2>4, <3>2 DEF IInv, UnseenOwnsNothing
      <4> QED
        BY <2>1, <2>4, <4>1, <4>2
    <3>3. ASSUME Busy, mg.uid < cr.uid PROVE NoneOwned'
      <4>1. pc \in {"create", "update"} => mg.uid # cr.uid
        BY <1>n, <2>4, <3>3
      <4>2. NoneOwned
        BY <2>4, <3>3 DEF IInv, UnseenOwnsNothing
      <4> QED
        BY <2>1, <2>4, <4>1, <4>2
    <3>4. cached' # NoConfig /\ cached'.uid < cr'.uid => NoneOwned'
      <4>1. cached' \in {cached, cr}
        BY <1>2 DEF CtlStep, CacheStep, Move, Adopted, Reread
      <4> QED
        BY <1>n, <2>4, <3>2, <4>1
    <3>5. Busy' /\ mg'.uid < cr'.uid => NoneOwned'
      <4>1. \/ ~Busy'
            \/ Busy /\ mg' = mg
            \/ cached # NoConfig /\ mg' = cached
            \/ mg' \in {cr, cr'}
        BY <1>2 DEF CtlStep, CacheStep, Move, Adopted, Reread, Busy
      <4> QED
        BY <1>n, <2>4, <3>2, <3>3, <4>1
    <3> QED
      BY <3>4, <3>5 DEF UnseenOwnsNothing
  <2> QED
    BY <1>2, <2>2, <2>3, <2>4 DEF ConfigStep, Advanced, Gone
<1>s. ASSUME cr # NoConfig, secret # Absent, secret.owner = cr.uid,
             pc = "endpoint" => mg.uid = cr.uid
      PROVE  secret' # Absent /\ secret'.owner = cr.uid
  <2>1. ~Orphaned(secret)
    BY <1>s DEF Orphaned, Owners
  <2>2. CASE pc = "endpoint" /\ secret' = EndpointSecret(mg, ip)
    <3>1. secret' \in Secrets
      BY <1>t, <2>2 DEF TypeOK, Configs, Secrets, EndpointSecret, OwnerReference
    <3> QED
      BY <1>s, <2>2, <3>1, NullsAssumption DEF EndpointSecret, OwnerReference
  <2> QED
    BY <1>2, <1>s, <2>1, <2>2 DEF SecretStep
<1>5. EndpointReady'
  <2> SUFFICES ASSUME (pc' = "create" /\ at' = 4) \/ pc' = "update"
               PROVE  /\ mg'.spec.scraper # NoScraper
                      /\ NeedsEndpoint(mg') => secret' # Absent /\ secret'.owner = mg'.uid
    BY DEF EndpointReady, NeedsEndpoint
  <2>1. CASE /\ pc = "endpoint" /\ mg' = mg /\ mg.spec.scraper # NoScraper
             /\ NeedsEndpoint(mg) => secret' = EndpointSecret(mg, ip)
    <3>1. NeedsEndpoint(mg) => secret' \in Secrets
      BY <1>t, <2>1 DEF TypeOK, Configs, Secrets, EndpointSecret, OwnerReference
    <3> QED
      BY <2>1, <3>1, NullsAssumption DEF EndpointSecret, OwnerReference, NeedsEndpoint
  <2>2. CASE /\ mg' = mg
             /\ (pc = "create" /\ at = 4) \/ pc = "update"
    <3>1. /\ mg.spec.scraper # NoScraper
          /\ NeedsEndpoint(mg) => secret # Absent /\ secret.owner = mg.uid
          /\ cr # NoConfig /\ cr.uid = mg.uid
      BY <2>2 DEF IInv, CopiesInv, EndpointReady, WorkerHoldsConfig, Writing
    <3> QED
      BY <1>s, <2>2, <3>1 DEF NeedsEndpoint
  <2> QED
    BY <1>2, <2>1, <2>2 DEF CtlStep, Move, Adopted, Reread, Writing
<1>6. EndpointBeforeScraper'
  <2> DEFINE s == child["ScraperConfig"]
             k == "ScraperConfig"
  <2> SUFFICES ASSUME cr' # NoConfig, s' # Absent, s'.owner = cr'.uid, s'.body # Drifted,
                      UsesExporterEndpoint(s'.body)
               PROVE  secret' # Absent /\ secret'.owner = cr'.uid
    BY DEF EndpointBeforeScraper, UsesExporterEndpoint
  <2>0. k \in Kinds
    BY DEF Kinds
  <2>1. \/ s # Absent /\ s'.owner = s.owner /\ s'.body = s.body
        \/ /\ (pc = "create" /\ at = 4) \/ pc = "update"
           /\ s'.owner = mg.uid /\ s'.body = ScraperSpec(mg.spec)
    BY <1>2, <2>0 DEF ChildStep
  <2>2. pc \in Writing => cr # NoConfig /\ mg.uid = cr.uid /\ Busy
    BY DEF IInv, CopiesInv, WorkerHoldsConfig, Writing, Busy
  <2>3. s'.owner <= lastUid /\ lastUid \in Nat
    BY <1>n, <2>0, <2>1, <2>2 DEF IInv, CopiesInv, UidsGrow, OwnersKnown, Writing
  <2>4. cr # NoConfig /\ cr'.uid = cr.uid
    BY <1>2, <2>3 DEF ConfigStep, Applied, Advanced, Gone
  <2>5. secret # Absent /\ secret.owner = cr.uid
    <3>1. CASE s # Absent /\ s'.owner = s.owner /\ s'.body = s.body
      BY <2>4, <3>1 DEF IInv, EndpointBeforeScraper
    <3>2. CASE /\ (pc = "create" /\ at = 4) \/ pc = "update"
               /\ s'.body = ScraperSpec(mg.spec)
      <4>1. mg.spec.scraper # NoScraper
        BY <3>2 DEF IInv, EndpointReady
      <4>2. NeedsEndpoint(mg)
        BY <3>2, <4>1, ScraperSpecs DEF NeedsEndpoint
      <4> QED
        BY <2>2, <3>2, <4>2 DEF IInv, EndpointReady, Writing
    <3> QED
      BY <2>1, <3>1, <3>2
  <2> QED
    BY <1>s, <2>2, <2>4, <2>5 DEF Writing
<1> QED
  BY <1>c, <1>3, <1>4, <1>5, <1>6 DEF IInv

\* The three copies of the configuration never differ in a way that matters.
THEOREM Invariant == Spec => []IInv
BY InvInit, InvStep, PTL DEF Spec

\* Whatever the cache missed, nothing is created or overwritten on behalf of a
\* configuration that is no longer there as the same incarnation.
THEOREM HoldsConfig == Spec => []WorkerHoldsConfig
<1>1. IInv => WorkerHoldsConfig
  BY DEF IInv, CopiesInv
<1> QED
  BY <1>1, Invariant, PTL

\* Delete and the release of the finalizer only ever concern objects of a
\* configuration that was asked to be deleted.
THEOREM DeletesOnlyDeleted == Spec => []NeverDeletesLive
<1>1. IInv => NeverDeletesLive
  <2> SUFFICES ASSUME IInv, pc \in {"delete", "release"}, cr # NoConfig, ~cr.deleting
               PROVE  NoneOwned
    BY DEF NeverDeletesLive, NoneOwned
  <2>1. Busy /\ mg.deleting
    BY DEF IInv, CopiesInv, MarkStays, Busy
  <2>2. mg.uid # cr.uid /\ mg.uid <= cr.uid
    BY <2>1 DEF IInv, CopiesInv, MarkStays, UidsGrow
  <2>3. mg.uid \in Nat /\ cr.uid \in Nat
    BY <2>1 DEF IInv, CopiesInv, TypeOK, ClusterTypeOK, Configs, Busy
  <2> QED
    BY <2>1, <2>2, <2>3 DEF IInv, UnseenOwnsNothing
<1> QED
  BY <1>1, Invariant, PTL

\* Delete meets a configuration nobody asked to delete only before it is adopted:
\* who adopts has read it, and reads nothing older from then on.
LEMMA NoneAdopted == CopiesInv => DeletesNoneAdopted
<1> SUFFICES ASSUME CopiesInv, pc \in {"delete", "release"}, cr # NoConfig, ~cr.deleting
             PROVE  ~cr.finalizer /\ cr.refs = {}
  BY DEF DeletesNoneAdopted
<1>1. Busy /\ mg.deleting
  BY DEF CopiesInv, MarkStays, Busy
<1>2. mg.uid # cr.uid
  BY <1>1 DEF CopiesInv, MarkStays
<1> QED
  BY <1>1, <1>2 DEF CopiesInv, AdoptedIsSeen, RefsNeedFinalizer

\* A ScraperConfig that scrapes the exporter never precedes its endpoint Secret.
THEOREM EndpointFirst == Spec => []EndpointBeforeScraper
<1>1. IInv => EndpointBeforeScraper
  BY DEF IInv
<1> QED
  BY <1>1, Invariant, PTL

\* No status write loses a reference: a stale copy is refused by its resource
\* version.
THEOREM RefsAreKept == Spec => StatusRefsKept
<1>1. TypeInv /\ [Next]_vars
        => [cr # NoConfig /\ cr' # NoConfig /\ cr'.uid = cr.uid
              => cr.refs \subseteq cr'.refs]_vars
  <2> SUFFICES ASSUME TypeInv, [Next]_vars, cr # NoConfig, cr' # NoConfig
               PROVE  cr.refs \subseteq cr'.refs
    OBVIOUS
  <2> QED
    BY ConfigSteps DEF ConfigStep, Applied, Advanced, Gone
<1> QED
  BY <1>1, TypeInit, TypeStep, PTL DEF Spec, StatusRefsKept

-----------------------------------------------------------------------------
\* Rest.

\* At rest every child passes its check.
LEMMA RestFits ==
  ASSUME TypeInv, AtRest, NEW k \in Kinds
  PROVE  child[k] # Absent /\ Check(k, child[k], cr)
<1>1. cr \in Configs /\ child[k] \in Objects
  BY DEF TypeInv, TypeOK, ClusterTypeOK, AtRest, Live, UpToDate
<1>2. /\ child[k].owner = cr.uid
      /\ ContentsAsGenerated(k, child[k], cr)
      /\ cr.spec.scraper # NoScraper /\ UsesExporterEndpoint(cr.spec.scraper)
      /\ ~cr.spec.long
  BY DEF AtRest, UpToDate, NeedsEndpoint
<1>3. Check(k, child[k], cr)
  BY <1>1, <1>2, GeneratedIsAccepted
<1> QED
  BY <1>1, <1>3, NullsAssumption

\* A worker that starts at rest finds every reference, every object and every
\* check in order, and ends where it began.
LEMMA WorkerRests ==
  ASSUME TypeInv, AtRest, Worker, UNCHANGED faults
  PROVE  /\ UNCHANGED <<cr, child, cached>>
         /\ pc' \in {"idle", "observe", "check"}
         /\ pc' # "idle" => mg' = cr
<1>0. /\ at \in 1..4
      /\ cr.refs = Kinds /\ ~cr.deleting
      /\ cached = cr
      /\ pc \in {"idle", "observe", "check"}
      /\ pc # "idle" => mg = cr
  BY DEF TypeInv, TypeOK, AtRest, Live
<1>1. ~Fault
  <2>1. faults \in Nat
    BY DEF TypeInv, TypeOK, ClusterTypeOK
  <2> QED
    BY <2>1 DEF Fault
<1>2. StartReconcile \/ Observe \/ checkExporterStatus
  BY <1>0 DEF Worker, AddFinalizer, RemoveFinalizer, CreateChild, RecordStatus, Refetch,
              GetService, CreateEndpointRef, UpdateChild, DeleteChild
<1>3. CASE StartReconcile
  BY <1>0, <1>3 DEF StartReconcile, clusterVars
<1>4. CASE Observe
  <2>1. ObserveOrder[at] \in Kinds
    BY <1>0, Orders
  <2>2. ObserveOrder[at] \in mg.refs /\ child[ObserveOrder[at]] # Absent
    BY <1>0, <1>4, <2>1, RestFits DEF Observe
  <2>3. GoTo("observe", at + 1) \/ GoTo("check", 1)
    BY <1>1, <1>4, <2>2 DEF Observe, Answered, Failed
  <2> QED
    BY <1>0, <1>4, <2>3 DEF Observe, GoTo, objects
<1>5. CASE checkExporterStatus
  <2>1. ObserveOrder[at] \in Kinds
    BY <1>0, Orders
  <2>2. /\ child[ObserveOrder[at]] # Absent
        /\ Check(ObserveOrder[at], child[ObserveOrder[at]], mg)
    BY <1>0, <1>5, <2>1, RestFits DEF checkExporterStatus
  <2>3. GoTo("check", at + 1) \/ Done
    BY <1>0, <1>1, <1>5, <2>2 DEF checkExporterStatus, Answered, Failed, Existing
  <2> QED
    BY <1>0, <1>5, <2>3 DEF checkExporterStatus, GoTo, Done, Return, objects
<1> QED
  BY <1>2, <1>3, <1>4, <1>5

\* What is left of the environment when users and failures are not there finds
\* nothing to do to the configuration or a child.
LEMMA EnvironmentRests ==
  ASSUME TypeInv, AtRest, Collect \/ StartPods, UNCHANGED ctlVars
  PROVE  /\ UNCHANGED <<cr, child, cached>>
         /\ pc' \in {"idle", "observe", "check"}
         /\ pc' # "idle" => mg' = cr
<1>1. UNCHANGED <<cached, pc, mg>>
  BY DEF ctlVars
<1>2. \A k \in Kinds : ~Orphaned(child[k])
  BY DEF AtRest, Live, UpToDate, Orphaned, Owners
<1>3. UNCHANGED <<cr, child>>
  BY <1>2 DEF Collect, StartPods
<1> QED
  BY <1>1, <1>3 DEF AtRest

\* AtRest is about the configuration, the children and the copies.
LEMMA RestKept ==
  ASSUME AtRest, UNCHANGED <<cr, child, cached>>,
         pc' \in {"idle", "observe", "check"},
         pc' # "idle" => mg' = cr
  PROVE  AtRest'
BY DEF AtRest, Live, UpToDate, NeedsEndpoint

\* Where everything is up to date and recorded, and every copy is the live one,
\* the operator only reads: the generators make what the comparators accept, so
\* no reconcile finds anything to change.
THEOREM RestIsKept == Spec => StaysAtRest
<1>1. TypeInv /\ [Next]_vars
        => [AtRest /\ Undisturbed => AtRest' /\ UNCHANGED <<cr, child>>]_vars
  <2> SUFFICES ASSUME TypeInv, Next, AtRest, Undisturbed
               PROVE  AtRest' /\ UNCHANGED <<cr, child>>
    OBVIOUS
  <2>1. ~Users /\ UNCHANGED faults
    BY DEF Undisturbed
  <2>2. faults \in Nat /\ cached = cr
    BY DEF TypeInv, TypeOK, ClusterTypeOK, AtRest
  <2>3. ~SyncCache /\ ~Crash
    BY <2>1, <2>2 DEF SyncCache, Crash, Fault
  <2>4. Worker \/ ((Collect \/ StartPods) /\ UNCHANGED ctlVars)
    BY <2>1, <2>3 DEF Next
  <2> QED
    BY <2>1, <2>4, WorkerRests, EnvironmentRests, RestKept
<1> QED
  BY <1>1, TypeInit, TypeStep, PTL DEF Spec, StaysAtRest

==============================================================================
