-------------------------- MODULE RefinementProofs ---------------------------
(***************************************************************************)
(* The reconciler implements the safety part of Lifecycle, for all values  *)
(* of the constants.  CopiesInv says that a worker that writes holds the   *)
(* configuration there is; RecordedInOrder gives the order of the status.  *)
(***************************************************************************)
EXTENDS ControllerRefinement, ControllerProofs

\* What Lifecycle calls resources are the four kinds.
LEMMA FourResources ==
  /\ Len(CreateOrder) = 4
  /\ L!ResourcesOf(CreateOrder) = Kinds
<1>1. Len(CreateOrder) = 4
  BY DEF CreateOrder
<1>2. /\ CreateOrder[1] = "ConfigMap" /\ CreateOrder[2] = "Deployment"
      /\ CreateOrder[3] = "Service" /\ CreateOrder[4] = "ScraperConfig"
  BY DEF CreateOrder
<1>3. 1..4 = {1, 2, 3, 4}
  OBVIOUS
<1> QED
  BY <1>1, <1>2, <1>3 DEF L!ResourcesOf, Kinds

-----------------------------------------------------------------------------
\* RecordedInOrder is an invariant.

\* It speaks of a worker that is busy.
LEMMA OrderInit == Init => RecordedInOrder
BY DEF Init, RecordedInOrder

\* Whatever others do to the configuration, its references stay; the worker
\* adds one at a time.
LEMMA OrderStep == CopiesInv /\ RecordedInOrder /\ [Next]_vars => RecordedInOrder'
<1> SUFFICES ASSUME CopiesInv, RecordedInOrder, [Next]_vars PROVE RecordedInOrder'
  OBVIOUS
<1>0. /\ TypeInv /\ at \in 1..4
      /\ cr \in Configs \cup {NoConfig}
      /\ pc # "idle" => mg \in Configs
  BY DEF CopiesInv, TypeInv, TypeOK, ClusterTypeOK
<1>1. ConfigStep
  BY <1>0, ConfigSteps
<1>2. pc = "refetch" /\ cr' # NoConfig => cr # NoConfig /\ cr.refs \subseteq cr'.refs
  BY <1>1 DEF CopiesInv, WorkerHoldsConfig, Writing, ConfigStep, Applied, Advanced, Gone
<1>k. CASE UNCHANGED <<pc, at, mg>>
  BY <1>2, <1>k DEF RecordedInOrder
<1>r. CASE Requeue \/ Done
  BY <1>r DEF Requeue, Done, Return, RecordedInOrder
<1>3. CASE StartReconcile
  BY <1>3 DEF StartReconcile, RecordedInOrder
<1>4. CASE Observe
  <2>1. \/ GoTo("observe", at + 1) \/ GoTo("check", 1) \/ Missing
    BY <1>4 DEF Observe, Answered, Failed
  <2> QED
    BY <2>1 DEF Missing, GoTo, RecordedInOrder
<1>5. CASE checkExporterStatus
  <2>1. \/ GoTo("check", at + 1) \/ GoTo("delete", 1) \/ GoTo("getService", 1)
        \/ Requeue \/ Done
    BY <1>5 DEF checkExporterStatus, Answered, Failed, Existing
  <2> QED
    BY <1>r, <2>1 DEF GoTo, RecordedInOrder
<1>6. CASE AddFinalizer
  <2>1. Requeue \/ (pc' = "create" /\ at' = 1)
    BY <1>6 DEF AddFinalizer, Answered, Failed
  <2> QED
    BY <1>r, <2>1 DEF RecordedInOrder
<1>7. CASE RemoveFinalizer
  BY <1>7, <1>r DEF RemoveFinalizer, Call, Answered
<1>8. CASE CreateChild
  BY <1>8, <1>r DEF CreateChild, Call, GoTo, RecordedInOrder
<1>9. CASE RecordStatus
  <2>1. CASE Requeue
    BY <1>r, <2>1
  <2>2. CASE ~Requeue
    <3>1. /\ pc = "status" /\ cr = mg /\ mg \in Configs
          /\ cr' = [cr EXCEPT !.refs = mg.refs \cup {CreateOrder[at]}]
          /\ pc' = "refetch" /\ at' = at
      BY <1>0, <1>9, <2>2 DEF RecordStatus, Call, Answered, IsCurrent, UpdateStatus, GoTo
    <3>2. cr'.refs = mg.refs \cup {CreateOrder[at]}
      BY <3>1 DEF Configs
    <3>3. \A j \in 1..at : CreateOrder[j] \in cr'.refs
      <4> SUFFICES ASSUME NEW j \in 1..at PROVE CreateOrder[j] \in cr'.refs
        OBVIOUS
      <4>1. j = at \/ j \in 1..(at - 1)
        BY <1>0
      <4> QED
        BY <3>1, <3>2, <4>1 DEF RecordedInOrder
    <3> QED
      BY <3>1, <3>3 DEF RecordedInOrder
  <2> QED
    BY <2>1, <2>2
<1>10. CASE Refetch
  <2>1. CASE Requeue
    BY <1>r, <2>1
  <2>2. CASE ~Requeue
    <3>1. /\ pc = "refetch" /\ cr # NoConfig /\ mg' = cr /\ at' = at + 1
          /\ pc' \in {"getService", "create"}
      BY <1>10, <2>2 DEF Refetch, Answered, Failed
    <3>2. at' - 1 = at
      BY <1>0, <3>1
    <3> QED
      BY <3>1, <3>2 DEF RecordedInOrder
  <2> QED
    BY <2>1, <2>2
<1>11. CASE GetService
  BY <1>11, <1>r DEF GetService, Answered, Failed, RecordedInOrder
<1>12. CASE CreateEndpointRef
  <2>1. \/ Requeue
        \/ /\ pc = "endpoint" /\ at' = at /\ mg' = mg
           /\ pc' = IF at = 4 THEN "create" ELSE "update"
    BY <1>12 DEF CreateEndpointRef, Call, Answered, GoTo
  <2> QED
    BY <1>r, <2>1 DEF RecordedInOrder
<1>13. CASE UpdateChild
  BY <1>13, <1>r DEF UpdateChild, Call, Answered, GoTo, RecordedInOrder
<1>14. CASE DeleteChild
  BY <1>14, <1>r DEF DeleteChild, Call, Answered, GoTo, RecordedInOrder
<1>15. CASE SyncCache \/ UNCHANGED ctlVars
  BY <1>15, <1>k DEF SyncCache, ctlVars
<1>16. CASE Crash
  BY <1>16, <1>r DEF Crash
<1>17. CASE UNCHANGED vars
  BY <1>17, <1>k DEF vars, ctlVars
<1> QED
  BY <1>3, <1>4, <1>5, <1>6, <1>7, <1>8, <1>9, <1>10, <1>11, <1>12, <1>13, <1>14,
     <1>15, <1>16, <1>17 DEF Next, Worker

\* An object gets its owner from a worker that holds an adopted configuration.
LEMMA UnadoptedStep == IInv /\ UnadoptedOwnsNothing /\ [Next]_vars => UnadoptedOwnsNothing'
<1> SUFFICES ASSUME IInv, UnadoptedOwnsNothing, [Next]_vars, cr' # NoConfig, ~cr'.finalizer,
                    NEW k \in Kinds, child'[k] # Absent
             PROVE  child'[k].owner # cr'.uid
  BY DEF UnadoptedOwnsNothing, NoneOwned
<1>1. ConfigStep /\ ChildStep
  BY ConfigSteps, ChildSteps DEF IInv, CopiesInv, TypeInv
<1>2. lastUid \in Nat /\ (child[k] # Absent => child[k].owner \in Nat)
  BY DEF IInv, CopiesInv, TypeOK, ClusterTypeOK, Objects
<1>3. CASE Applied
  <2>1. child[k] # Absent /\ child'[k].owner = child[k].owner
    BY <1>1, <1>3 DEF ChildStep, IInv, CopiesInv, WorkerHoldsConfig, Writing, Applied
  <2> QED
    BY <1>2, <1>3, <2>1 DEF IInv, OwnersKnown, Applied
<1>4. CASE cr # NoConfig /\ ~cr.finalizer /\ cr'.uid = cr.uid
  <2>1. child[k] # Absent /\ child'[k].owner = child[k].owner
    BY <1>1, <1>4 DEF ChildStep, IInv, CopiesInv, WorkerHoldsConfig, Writing
  <2> QED
    BY <1>4, <2>1 DEF UnadoptedOwnsNothing, NoneOwned
<1> QED
  BY <1>1, <1>3, <1>4 DEF ConfigStep, Advanced, Gone

\* What the status names it names in order, and only an adopted configuration
\* owns anything, whatever the cache and the worker's copy missed.
THEOREM InOrder == Spec => []LifecycleInv
<1>1. Init => LifecycleInv
  BY OrderInit DEF Init, ClusterInit, LifecycleInv, UnadoptedOwnsNothing
<1>2. IInv /\ LifecycleInv /\ [Next]_vars => LifecycleInv'
  BY OrderStep, UnadoptedStep DEF LifecycleInv, IInv
<1> QED
  BY <1>1, <1>2, Invariant, PTL DEF Spec

-----------------------------------------------------------------------------
\* Init maps to Lifecycle's initial state, every step to one of its actions or
\* to a stutter.

\* No configuration is the abstract configuration that is absent.
LEMMA LifecycleInitially == Init => L!LifecycleInit
BY DEF Init, ClusterInit, L!LifecycleInit, phaseBar, engagedBar, ownedBar,
       recordedBar, Writing

\* The worker that writes does so for the configuration there is.
LEMMA WritingHolds ==
  ASSUME WorkerHoldsConfig, engagedBar
  PROVE  /\ cr # NoConfig /\ cr.uid = mg.uid
         /\ phaseBar \in {"adopted", "deleting"}
BY DEF WorkerHoldsConfig, engagedBar, phaseBar

\* A step that neither touches the configuration nor a child can only begin or
\* end the worker's own work.
LEMMA EngageOrNot ==
  ASSUME CopiesInv, CopiesInv', UNCHANGED <<cr, child>>
  PROVE  [L!LifecycleNext]_(L!lifecycleVars)
<1>1. UNCHANGED <<phaseBar, ownedBar, recordedBar>>
  BY DEF phaseBar, ownedBar, recordedBar
<1>2. CASE engagedBar' = engagedBar
  BY <1>1, <1>2 DEF L!lifecycleVars
<1>3. CASE ~engagedBar /\ engagedBar'
  <2>1. WorkerHoldsConfig'
    BY DEF CopiesInv
  <2>2. phaseBar \in {"adopted", "deleting"}
    BY <1>1, <1>3, <2>1 DEF WorkerHoldsConfig, engagedBar, phaseBar
  <2>3. L!Engage
    BY <1>1, <1>3, <2>2 DEF L!Engage
  <2> QED
    BY <2>3 DEF L!LifecycleNext
<1>4. CASE engagedBar /\ ~engagedBar'
  <2>1. L!Disengage
    BY <1>1, <1>4 DEF L!Disengage
  <2> QED
    BY <2>1 DEF L!LifecycleNext
<1> QED
  BY <1>2, <1>3, <1>4 DEF engagedBar

\* Removing an object, whoever does it.
LEMMA Removal ==
  ASSUME TypeOK, NEW k \in Kinds, DeleteObj(k), engagedBar' = engagedBar
  PROVE  [L!LifecycleNext]_(L!lifecycleVars)
<1>1. cr' = cr /\ child' = [child EXCEPT ![k] = Absent]
  BY DEF DeleteObj
<1>2. ownedBar' = ownedBar \ {k}
  BY <1>1 DEF ownedBar, TypeOK, ClusterTypeOK
<1>3. UNCHANGED <<phaseBar, recordedBar>>
  BY <1>1 DEF phaseBar, recordedBar
<1>4. L!Remove(k)
  BY <1>2, <1>3 DEF L!Remove
<1> QED
  BY <1>4, FourResources DEF L!LifecycleNext

\* Writing an object in the name of the configuration the worker holds.
LEMMA Building ==
  ASSUME CopiesInv, CopiesInv', NEW k \in Kinds, engagedBar, cr' = cr,
         \A j \in Kinds \ {k} : child'[j] = child[j],
         child'[k] = child[k] \/ (child'[k] # Absent /\ child'[k].owner = mg.uid)
  PROVE  [L!LifecycleNext]_(L!lifecycleVars)
<1>1. cr # NoConfig /\ cr.uid = mg.uid
  BY WritingHolds DEF CopiesInv
<1>2. UNCHANGED <<phaseBar, recordedBar>>
  BY DEF phaseBar, recordedBar
<1>3. CASE child'[k] = child[k]
  <2>1. child' = child
    BY <1>3 DEF CopiesInv, TypeOK, ClusterTypeOK
  <2> QED
    BY <2>1, EngageOrNot
<1>4. CASE child'[k] # Absent /\ child'[k].owner = mg.uid
  <2>1. ownedBar' = ownedBar \cup {k}
    BY <1>1, <1>4 DEF ownedBar
  <2>2. engagedBar' \in BOOLEAN
    BY DEF engagedBar
  <2>3. L!Build(k)
    BY <1>2, <2>1, <2>2 DEF L!Build
  <2> QED
    BY <2>3, FourResources DEF L!LifecycleNext
<1> QED
  BY <1>3, <1>4

\* The steps of the worker that write an object, or remove one.
LEMMA ChildRefines ==
  ASSUME CopiesInv, CopiesInv', CreateChild \/ UpdateChild \/ DeleteChild
  PROVE  [L!LifecycleNext]_(L!lifecycleVars)
<1>0. /\ TypeOK /\ at \in 1..4
      /\ child \in [Kinds -> Objects \cup {Absent}]
      /\ pc # "idle" => mg \in Configs
  BY DEF CopiesInv, TypeOK, ClusterTypeOK
<1>1. CASE CreateChild
  <2> DEFINE k == CreateOrder[at]
  <2>1. k \in Kinds /\ pc = "create" /\ engagedBar
    BY <1>0, <1>1, Orders DEF CreateChild, engagedBar, Writing
  <2>2. CASE UNCHANGED <<cr, child>>
    BY <2>2, EngageOrNot
  <2>3. CASE CreateObj(k, GenericObject(k, mg))
    <3>1. PICK addr \in IPs \cup {NoIP} :
            child' = [child EXCEPT ![k] = [GenericObject(k, mg) EXCEPT !.ip = addr]]
      BY <2>3 DEF CreateObj
    <3>2. /\ GenericObject(k, mg) \in Objects
          /\ GenericObject(k, mg).owner = mg.uid
      BY <1>0, <2>1, GenericObjects
    <3>3. /\ [GenericObject(k, mg) EXCEPT !.ip = addr] \in Objects
          /\ [GenericObject(k, mg) EXCEPT !.ip = addr].owner = mg.uid
      BY <3>2 DEF Objects
    <3>4. child'[k] # Absent /\ child'[k].owner = mg.uid
      BY <1>0, <2>1, <3>1, <3>3, NullsAssumption
    <3>5. \A j \in Kinds \ {k} : child'[j] = child[j]
      BY <1>0, <3>1
    <3>6. cr' = cr
      BY <2>3 DEF CreateObj
    <3> QED
      BY <2>1, <3>4, <3>5, <3>6, Building
  <2> QED
    BY <1>1, <2>2, <2>3 DEF CreateChild, Call, objects
<1>2. CASE UpdateChild
  <2> DEFINE k == UpdateOrder[at]
  <2>1. k \in Kinds /\ pc = "update" /\ engagedBar
    BY <1>0, <1>2, Orders DEF UpdateChild, engagedBar, Writing
  <2>2. CASE UNCHANGED <<cr, child>>
    BY <2>2, EngageOrNot
  <2>3. CASE UpdateObj(k, GenericObject(k, mg))
    <3>1. child' = [child EXCEPT ![k] = [GenericObject(k, mg) EXCEPT !.ip = child[k].ip]]
      BY <2>3 DEF UpdateObj
    <3>2. /\ GenericObject(k, mg) \in Objects
          /\ GenericObject(k, mg).owner = mg.uid
          /\ child[k] \in Objects
      BY <1>0, <2>1, <2>3, GenericObjects DEF UpdateObj
    <3>3. /\ [GenericObject(k, mg) EXCEPT !.ip = child[k].ip] \in Objects
          /\ [GenericObject(k, mg) EXCEPT !.ip = child[k].ip].owner = mg.uid
      BY <3>2 DEF Objects
    <3>4. child'[k] # Absent /\ child'[k].owner = mg.uid
      BY <1>0, <2>1, <3>1, <3>3, NullsAssumption
    <3>5. \A j \in Kinds \ {k} : child'[j] = child[j]
      BY <1>0, <3>1
    <3>6. cr' = cr
      BY <2>3 DEF UpdateObj
    <3> QED
      BY <2>1, <3>4, <3>5, <3>6, Building
  <2> QED
    BY <1>2, <2>2, <2>3 DEF UpdateChild, Call, objects
<1>3. CASE DeleteChild
  <2> DEFINE k == DeleteOrder[at]
  <2>1. k \in Kinds
    BY <1>0, Orders
  <2>2. CASE UNCHANGED <<cr, child>>
    BY <2>2, EngageOrNot
  <2>3. CASE DeleteObj(k)
    <3>1. pc = "delete" /\ pc' \in {"delete", "idle"}
      BY <1>3 DEF DeleteChild, Call, Answered, GoTo, Requeue, Return
    <3>2. engagedBar' = engagedBar
      BY <3>1 DEF engagedBar, Writing
    <3> QED
      BY <1>0, <2>1, <2>3, <3>2, Removal
  <2> QED
    BY <1>3, <2>2, <2>3 DEF DeleteChild, Call, objects
<1> QED
  BY <1>1, <1>2, <1>3

\* The steps of the worker that write the configuration.
LEMMA ConfigRefines ==
  ASSUME CopiesInv, CopiesInv', RecordedInOrder, AddFinalizer \/ RemoveFinalizer \/ RecordStatus
  PROVE  [L!LifecycleNext]_(L!lifecycleVars)
<1>0. /\ at \in 1..4
      /\ cr \in Configs \cup {NoConfig}
      /\ pc # "idle" => mg \in Configs
  BY DEF CopiesInv, TypeOK, ClusterTypeOK
<1>1. CASE UNCHANGED <<cr, child>>
  BY <1>1, EngageOrNot
<1>2. CASE AddFinalizer
  <2>1. CASE cr = mg /\ cr' = [mg EXCEPT !.finalizer = TRUE] /\ UNCHANGED child
    <3>1. /\ cr \in Configs /\ cr' \in Configs /\ cr'.uid = cr.uid
          /\ cr'.finalizer /\ cr'.deleting = cr.deleting /\ cr'.refs = cr.refs
      BY <1>0, <1>2, <2>1 DEF AddFinalizer, Configs
    <3>2. UNCHANGED <<ownedBar, recordedBar>>
      BY <2>1, <3>1, NullsAssumption DEF ownedBar, recordedBar
    <3>3. pc = "adopt"
      BY <1>2 DEF AddFinalizer
    <3>4. ~engagedBar
      BY <3>3 DEF engagedBar, Writing
    <3>5. CASE phaseBar = "applied"
      <4>1. phaseBar' = "adopted"
        BY <3>1, <3>5, NullsAssumption DEF phaseBar
      <4>2. engagedBar' \in BOOLEAN
        BY DEF engagedBar
      <4>3. L!Adopt
        BY <3>2, <3>5, <4>1, <4>2 DEF L!Adopt
      <4> QED
        BY <4>3 DEF L!LifecycleNext
    <3>6. CASE phaseBar # "applied"
      <4>1. phaseBar' = phaseBar /\ phaseBar \in {"adopted", "deleting"}
        BY <3>1, <3>6, NullsAssumption DEF phaseBar
      <4>2. CASE engagedBar'
        BY <3>2, <4>1, <4>2 DEF L!Engage, L!LifecycleNext
      <4>3. CASE ~engagedBar'
        BY <3>2, <3>4, <4>1, <4>3 DEF L!Disengage, L!LifecycleNext
      <4> QED
        BY <4>2, <4>3
    <3> QED
      BY <3>5, <3>6
  <2> QED
    BY <1>1, <1>2, <2>1 DEF AddFinalizer, IsCurrent, objects
<1>3. CASE RemoveFinalizer
  <2>1. CASE cr = mg /\ cr' = NoConfig /\ UNCHANGED child
    <3>1. pc = "release" /\ pc' = "idle"
      BY <1>3 DEF RemoveFinalizer, Call, Answered, Done, Requeue, Return
    <3>2. ~engagedBar /\ ~engagedBar'
      BY <3>1 DEF engagedBar, Writing
    <3>3. cr # NoConfig /\ cr.deleting
      BY <1>0, <2>1, <3>1, NullsAssumption DEF CopiesInv, MarkStays, Busy
    <3>4. phaseBar = "deleting" /\ phaseBar' = "absent"
      BY <2>1, <3>3 DEF phaseBar
    <3>5. ownedBar' = {} /\ recordedBar' = {}
      BY <2>1 DEF ownedBar, recordedBar
    <3>6. L!Release
      BY <3>2, <3>4, <3>5 DEF L!Release, engagedBar
    <3> QED
      BY <3>6 DEF L!LifecycleNext
  <2> QED
    BY <1>1, <1>3, <2>1 DEF RemoveFinalizer, Call, IsCurrent, objects
<1>4. CASE RecordStatus
  <2>1. CASE cr = mg /\ cr' = [cr EXCEPT !.refs = mg.refs \cup {CreateOrder[at]}] /\ UNCHANGED child
    <3>1. pc = "status" /\ engagedBar
      BY <1>4 DEF RecordStatus, engagedBar, Writing
    <3>2. /\ cr \in Configs /\ cr' \in Configs /\ cr'.uid = cr.uid
          /\ cr'.finalizer = cr.finalizer /\ cr'.deleting = cr.deleting
          /\ cr'.refs = cr.refs \cup {CreateOrder[at]}
      BY <1>0, <2>1, <3>1, Orders DEF Configs
    <3>3. UNCHANGED <<phaseBar, ownedBar>>
      BY <2>1, <3>2, NullsAssumption DEF phaseBar, ownedBar
    <3>4. recordedBar = cr.refs /\ recordedBar' = recordedBar \cup {CreateOrder[at]}
      BY <3>2, NullsAssumption DEF recordedBar
    <3>5. \A j \in 1..(at - 1) : CreateOrder[j] \in recordedBar
      BY <2>1, <3>1, <3>4 DEF RecordedInOrder
    <3>6. engagedBar' \in BOOLEAN
      BY DEF engagedBar
    <3>7. L!Record(at)
      BY <3>1, <3>3, <3>4, <3>5, <3>6 DEF L!Record
    <3> QED
      BY <1>0, <3>7, FourResources DEF L!LifecycleNext
  <2> QED
    BY <1>1, <1>4, <2>1 DEF RecordStatus, Call, IsCurrent, UpdateStatus, objects
<1> QED
  BY <1>2, <1>3, <1>4

\* What users, the garbage collector and the kubelet do, but for the delete of a
\* configuration that was not adopted.
LEMMA EnvironmentRefines ==
  ASSUME CopiesInv, CopiesInv', OwnersKnown, Users \/ Collect \/ StartPods,
         DeleteConfig => cr.finalizer, UNCHANGED ctlVars
  PROVE  [L!LifecycleNext]_(L!lifecycleVars)
<1>0. /\ TypeOK /\ lastUid \in Nat
      /\ child \in [Kinds -> Objects \cup {Absent}]
      /\ cr \in Configs \cup {NoConfig}
  BY DEF CopiesInv, TypeOK, ClusterTypeOK
<1>1. engagedBar' = engagedBar
  BY DEF engagedBar, ctlVars
<1>2. CASE Apply
  <2>1. /\ cr = NoConfig /\ cr'.uid = lastUid + 1 /\ cr'.refs = {}
        /\ ~cr'.deleting /\ ~cr'.finalizer /\ UNCHANGED child
    BY <1>2 DEF Apply
  <2>2. cr' # NoConfig
    <3>1. PICK s \in Specs :
            cr' = [uid |-> lastUid + 1, gen |-> 1, spec |-> s,
                   finalizer |-> FALSE, deleting |-> FALSE, refs |-> {}]
      BY <1>2 DEF Apply
    <3>2. cr' \in Configs
      BY <1>0, <3>1 DEF Configs
    <3> QED
      BY <3>2, NullsAssumption
  <2>3. \A k \in Kinds : child[k] # Absent => child[k].owner # lastUid + 1
    BY <1>0 DEF OwnersKnown, Objects
  <2>4. ownedBar = {} /\ ownedBar' = {}
    BY <2>1, <2>3 DEF ownedBar
  <2>5. recordedBar = {} /\ recordedBar' = {}
    BY <2>1 DEF recordedBar
  <2>6. phaseBar = "absent" /\ phaseBar' = "applied"
    BY <2>1, <2>2 DEF phaseBar
  <2>7. ~engagedBar
    BY <2>1 DEF CopiesInv, WorkerHoldsConfig, engagedBar
  <2>8. L!Begin
    BY <1>1, <2>4, <2>5, <2>6, <2>7 DEF L!Begin
  <2> QED
    BY <2>8 DEF L!LifecycleNext
<1>3. CASE EditSpec
  <2>1. PICK s \in Specs : cr' = [cr EXCEPT !.spec = s, !.gen = cr.gen + 1]
    BY <1>3 DEF EditSpec
  <2>2. cr \in Configs /\ cr.gen + 1 \in Nat /\ UNCHANGED child
    BY <1>0, <1>3 DEF EditSpec, Configs
  <2>3. /\ cr' \in Configs /\ cr'.uid = cr.uid
        /\ cr'.finalizer = cr.finalizer /\ cr'.deleting = cr.deleting
        /\ cr'.refs = cr.refs
    BY <2>1, <2>2 DEF Configs
  <2>4. UNCHANGED <<phaseBar, ownedBar, recordedBar>>
    BY <2>2, <2>3, NullsAssumption DEF phaseBar, ownedBar, recordedBar
  <2> QED
    BY <1>1, <2>4 DEF L!lifecycleVars
<1>4. CASE DeleteConfig
  <2>1. cr \in Configs /\ ~cr.deleting /\ cr.finalizer /\ UNCHANGED child
    BY <1>0, <1>4 DEF DeleteConfig
  <2>2. cr' \in Configs /\ cr'.uid = cr.uid /\ cr'.deleting /\ cr'.refs = cr.refs
    BY <1>4, <2>1 DEF DeleteConfig, Configs
  <2>3. UNCHANGED <<ownedBar, recordedBar>>
    BY <2>1, <2>2, NullsAssumption DEF ownedBar, recordedBar
  <2>4. phaseBar = "adopted" /\ phaseBar' = "deleting"
    BY <2>1, <2>2, NullsAssumption DEF phaseBar
  <2>5. L!Withdraw
    BY <1>1, <2>3, <2>4 DEF L!Withdraw
  <2> QED
    BY <2>5 DEF L!LifecycleNext
<1>5. CASE Drift
  <2>1. PICK k \in Kinds :
           DeleteObj(k) \/ UpdateObj(k, [child[k] EXCEPT !.body = Drifted])
    BY <1>5 DEF Drift
  <2>2. CASE DeleteObj(k)
    BY <1>0, <1>1, <2>2, Removal
  <2>3. CASE UpdateObj(k, [child[k] EXCEPT !.body = Drifted])
    <3>1. /\ cr' = cr /\ child[k] \in Objects
          /\ child' = [child EXCEPT
                ![k] = [[child[k] EXCEPT !.body = Drifted] EXCEPT !.ip = child[k].ip]]
      BY <1>0, <2>3 DEF UpdateObj
    <3>2. /\ child'[k] \in Objects /\ child'[k].owner = child[k].owner
          /\ \A j \in Kinds \ {k} : child'[j] = child[j]
      BY <1>0, <3>1 DEF Objects, Bodies
    <3>3. UNCHANGED <<phaseBar, ownedBar, recordedBar>>
      BY <3>1, <3>2, NullsAssumption DEF phaseBar, ownedBar, recordedBar
    <3> QED
      BY <1>1, <3>3 DEF L!lifecycleVars
  <2> QED
    BY <2>1, <2>2, <2>3
<1>6. CASE Collect
  <2>1. CASE \E k \in Kinds : DeleteObj(k)
    BY <1>0, <1>1, <2>1, Removal
  <2>2. CASE UNCHANGED <<cr, child>>
    BY <2>2, EngageOrNot
  <2> QED
    BY <1>6, <2>1, <2>2 DEF Collect
<1>7. CASE StartPods
  BY <1>7, EngageOrNot DEF StartPods
<1> QED
  BY <1>2, <1>3, <1>4, <1>5, <1>6, <1>7 DEF Users

\* A configuration that was not adopted is gone at once, and its status named
\* nothing.
LEMMA WithdrawalAtOnce ==
  ASSUME CopiesInv, DeleteConfig, ~cr.finalizer, UNCHANGED ctlVars
  PROVE  /\ UNCHANGED engagedBar
         /\ phaseBar = "applied" /\ phaseBar' = "absent"
         /\ ownedBar' = {} /\ UNCHANGED recordedBar
<1>1. cr # NoConfig /\ ~cr.deleting /\ cr' = NoConfig
  BY DEF DeleteConfig
<1>2. cr.refs = {}
  BY <1>1 DEF CopiesInv, RefsNeedFinalizer
<1> QED
  BY <1>1, <1>2 DEF engagedBar, ctlVars, phaseBar, ownedBar, recordedBar

\* What the operator itself does, its runtime included.
LEMMA OwnStepsRefine ==
  ASSUME CopiesInv, CopiesInv', RecordedInOrder,
         Worker \/ SyncCache \/ Crash \/ UNCHANGED vars
  PROVE  [L!LifecycleNext]_(L!lifecycleVars)
<1>1. CASE \/ StartReconcile \/ Observe \/ checkExporterStatus \/ Refetch \/ GetService
           \/ CreateEndpointRef \/ SyncCache \/ Crash \/ UNCHANGED vars
  <2>1. UNCHANGED <<cr, child>>
    BY <1>1 DEF StartReconcile, Observe, checkExporterStatus, Refetch, GetService,
                CreateEndpointRef, Call, Answered, CreateOrUpdate, SyncCache, Crash,
                objects, clusterVars, vars
  <2> QED
    BY <2>1, EngageOrNot
<1>2. CASE CreateChild \/ UpdateChild \/ DeleteChild
  BY <1>2, ChildRefines
<1>3. CASE AddFinalizer \/ RemoveFinalizer \/ RecordStatus
  BY <1>3, ConfigRefines
<1> QED
  BY <1>1, <1>2, <1>3 DEF Worker

\* Every step of the reconciler and of its environment is a step of Lifecycle or
\* changes nothing that Lifecycle has.
LEMMA LifecycleStep ==
  IInv /\ IInv' /\ LifecycleInv /\ [Next]_vars => [L!LifecycleNext]_(L!lifecycleVars)
<1> SUFFICES ASSUME IInv, IInv', LifecycleInv, [Next]_vars
             PROVE  [L!LifecycleNext]_(L!lifecycleVars)
  OBVIOUS
<1>0. /\ CopiesInv /\ CopiesInv' /\ OwnersKnown
      /\ RecordedInOrder /\ UnadoptedOwnsNothing
  BY DEF IInv, LifecycleInv
<1>1. CASE Worker \/ SyncCache \/ Crash \/ UNCHANGED vars
  BY <1>0, <1>1, OwnStepsRefine
<1>2. CASE (Users \/ Collect \/ StartPods) /\ UNCHANGED ctlVars
  <2>1. CASE DeleteConfig => cr.finalizer
    BY <1>0, <1>2, <2>1, EnvironmentRefines
  <2>2. CASE DeleteConfig /\ ~cr.finalizer
    <3>1. /\ UNCHANGED engagedBar
          /\ phaseBar = "applied" /\ phaseBar' = "absent"
          /\ ownedBar' = {} /\ UNCHANGED recordedBar
      BY <1>0, <1>2, <2>2, WithdrawalAtOnce
    <3>2. ownedBar = {}
      BY <1>0, <2>2 DEF UnadoptedOwnsNothing, NoneOwned, ownedBar
    <3>3. L!Withdraw
      BY <3>1, <3>2 DEF L!Withdraw
    <3> QED
      BY <3>3 DEF L!LifecycleNext
  <2> QED
    BY <2>1, <2>2
<1> QED
  BY <1>1, <1>2 DEF Next

\* The reconciler, with its stale cache, its retries and its crashes, is an
\* implementation of Lifecycle's safety part: it never writes for a
\* configuration it has not adopted or that is gone, never releases one while
\* it works for it, and fills the status in order.
THEOREM Refines == Spec => KeepsLifecycle
<1>1. Spec => [](IInv /\ LifecycleInv)
  BY Invariant, InOrder, PTL
<1> QED
  BY <1>1, LifecycleInitially, LifecycleStep, PTL DEF Spec, KeepsLifecycle, L!LifecycleSafety

==============================================================================
