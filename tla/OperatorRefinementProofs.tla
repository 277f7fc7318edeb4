---------------------- MODULE OperatorRefinementProofs -----------------------
(***************************************************************************)
(* The whole operator implements Lifecycle with somebody else who builds   *)
(* resources: what the reconciler does it does as in RefinementProofs, and *)
(* a handler's write builds a resource for the configuration there is, or  *)
(* takes one from it by giving it to an earlier incarnation.               *)
(***************************************************************************)
EXTENDS OperatorRefinement, OperatorObjectProofs, RefinementProofs

\* A step of Lifecycle is one of the shared Lifecycle.
LEMMA OwnIsShared ==
  [L!LifecycleNext]_(L!lifecycleVars) => [L!SharedNext]_(L!lifecycleVars)
BY DEF L!SharedNext

\* The references are recorded in order beside the informers too: the handlers
\* touch neither the status nor the worker.
LEMMA OperatorOrderStep ==
  ASSUME OperatorInv, RecordedInOrder, [OperatorNext]_opVars
  PROVE  RecordedInOrder'
<1>0. CopiesInv /\ TypeInv /\ InformerTypeOK
  BY DEF OperatorInv, CopiesInv, TypeInv
<1>k. CASE UNCHANGED <<cr, pc, at, mg>>
  BY <1>k DEF RecordedInOrder
<1>1. CASE [Next]_vars
  BY <1>0, <1>1, OrderStep
<1>2. CASE \E k \in Kinds : Handle(k) /\ UNCHANGED ctlVars
  BY <1>0, <1>k, <1>2, HandlerEffects DEF ctlVars
<1>3. CASE UNCHANGED <<objects, lastUid, task, ctlVars>>
  BY <1>k, <1>3 DEF objects, ctlVars
<1>4. CASE RestartProcess
  BY <1>4 DEF RestartProcess, Requeue, Return, RecordedInOrder
<1> QED
  BY <1>1, <1>2, <1>3, <1>4, OperatorCases

\* What a handler writes belongs to the configuration there is, or takes an
\* object from it.
LEMMA HandlerRefines ==
  ASSUME TypeInv, InformerTypeOK, NEW k \in Kinds, Handle(k), UNCHANGED ctlVars
  PROVE  [L!SharedNext]_(L!lifecycleVars)
<1>1. /\ UNCHANGED cr
      /\ \A j \in Kinds \ {k} : child'[j] = child[j]
      /\ child'[k] = child[k] \/ (child'[k] # Absent /\ ByHandler(k))
  BY HandlerEffects
<1>2. UNCHANGED <<phaseBar, engagedBar, recordedBar>>
  BY <1>1 DEF phaseBar, engagedBar, recordedBar, ctlVars
<1>3. CASE child'[k] = child[k]
  <2>1. UNCHANGED ownedBar
    BY <1>1, <1>3 DEF ownedBar
  <2> QED
    BY <1>2, <2>1 DEF L!lifecycleVars
<1>4. CASE child'[k] # Absent /\ cr # NoConfig /\ child'[k].owner = cr.uid
  <2>1. ownedBar' = ownedBar \cup {k}
    BY <1>1, <1>4 DEF ownedBar
  <2>2. phaseBar # "absent"
    BY <1>4 DEF phaseBar
  <2>3. L!Rebuild(k)
    BY <1>2, <2>1, <2>2 DEF L!Rebuild
  <2> QED
    BY <2>3, FourResources DEF L!SharedNext
<1>5. CASE cr = NoConfig \/ child'[k].owner # cr.uid
  <2>1. ownedBar' = ownedBar \ {k}
    BY <1>1, <1>5 DEF ownedBar
  <2>2. L!Remove(k)
    BY <1>2, <2>1 DEF L!Remove
  <2> QED
    BY <2>2, FourResources DEF L!LifecycleNext, L!SharedNext
<1> QED
  BY <1>1, <1>3, <1>4, <1>5

\* Every step of the operator and of what surrounds it is a step of the shared
\* Lifecycle, or changes nothing it has.
LEMMA SharedStep ==
  FullInv /\ FullInv' /\ RecordedInOrder /\ [OperatorNext]_opVars
    => [L!SharedNext]_(L!lifecycleVars)
<1> SUFFICES ASSUME FullInv, FullInv', RecordedInOrder, [OperatorNext]_opVars
             PROVE  [L!SharedNext]_(L!lifecycleVars)
  OBVIOUS
<1>0. /\ CopiesInv /\ CopiesInv' /\ TypeInv /\ InformerTypeOK
  BY DEF FullInv, OperatorInv, CopiesInv, TypeInv
<1>1. OwnersKnown
  BY <1>0 DEF FullInv, ObjectsInv, ObjectsApplied, Uids, OwnersKnown, TypeInv, TypeOK, ClusterTypeOK
<1>2. CASE Worker \/ SyncCache \/ Crash \/ UNCHANGED vars
  BY <1>0, <1>2, OwnStepsRefine, OwnIsShared
<1>3. CASE (Users \/ Collect \/ StartPods) /\ UNCHANGED ctlVars
  <2>1. CASE DeleteConfig => cr.finalizer
    BY <1>0, <1>1, <1>3, <2>1, EnvironmentRefines, OwnIsShared
  <2>2. CASE DeleteConfig /\ ~cr.finalizer
    <3>1. L!Abandon
      BY <1>0, <1>3, <2>2, WithdrawalAtOnce DEF L!Abandon
    <3> QED
      BY <3>1 DEF L!SharedNext
  <2> QED
    BY <2>1, <2>2
<1>4. CASE \E k \in Kinds : Handle(k) /\ UNCHANGED ctlVars
  BY <1>0, <1>4, HandlerRefines
<1>5. CASE UNCHANGED <<objects, lastUid, task, ctlVars>> \/ RestartProcess
  <2>1. UNCHANGED <<cr, child>>
    BY <1>5 DEF objects, RestartProcess
  <2> QED
    BY <1>0, <2>1, EngageOrNot, OwnIsShared
<1> QED
  BY <1>2, <1>3, <1>4, <1>5, OperatorCases DEF Next

\* The operator with its informers, panics and restarts is an implementation of
\* the safety part of the shared Lifecycle: what the handlers do behind the
\* reconciler's back never releases or adopts a configuration, never ends the
\* reconciler's work and never enters the status, and a new incarnation still
\* begins with nothing.
THEOREM OperatorRefines == OperatorSpec => KeepsSharedLifecycle
<1>1. OperatorInit => FullInv /\ RecordedInOrder /\ L!LifecycleInit
  BY OperatorInitially, ObjectsInit, OrderInit, LifecycleInitially DEF FullInv, OperatorInit
<1>2. FullInv /\ RecordedInOrder /\ [OperatorNext]_opVars => FullInv' /\ RecordedInOrder'
  BY FullStep, OperatorOrderStep DEF FullInv
<1> QED
  BY <1>1, <1>2, SharedStep, PTL DEF OperatorSpec, KeepsSharedLifecycle, L!SharedSafety

==============================================================================
