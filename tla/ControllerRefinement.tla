------------------------ MODULE ControllerRefinement -------------------------
(***************************************************************************)
(* The reconciler of Controller implements Lifecycle.  The mapping forgets *)
(* the cache, the queue and the worker's copy, and keeps of each child     *)
(* only whether it belongs to the configuration there is now.              *)
(***************************************************************************)
EXTENDS ControllerInvariant

phaseBar ==
  IF cr = NoConfig THEN "absent"
  ELSE IF cr.deleting THEN "deleting"
  ELSE IF cr.finalizer THEN "adopted"
  ELSE "applied"

engagedBar == pc \in Writing

ownedBar ==
  {k \in Kinds : cr # NoConfig /\ child[k] # Absent /\ child[k].owner = cr.uid}

recordedBar == IF cr = NoConfig THEN {} ELSE cr.refs

L == INSTANCE Lifecycle WITH
       Order <- CreateOrder,
       phase <- phaseBar, engaged <- engagedBar,
       owned <- ownedBar, recorded <- recordedBar

\* The reconciler keeps what Lifecycle promises: a new incarnation owns nothing
\* until it is adopted, only a configuration being deleted is released and never
\* while Create or Update runs for it, and the status names the resources in the
\* order in which Create makes them.
KeepsLifecycle == L!LifecycleSafety

\* A deleted configuration is released and an adopted one gets its resources,
\* also after a failed call and also when an earlier incarnation left objects
\* under the same names.
CompletesLifecycle == L!LifecycleLiveness

-----------------------------------------------------------------------------
\* Why the references are recorded in order: where Create is, the worker's copy
\* names every resource before the one it is at; and when the copy is about to
\* be read again, so does the status it will be read from.
RecordedInOrder ==
  /\ pc \in {"create", "status"} \/ (pc \in {"getService", "endpoint"} /\ at = 4)
       => \A j \in 1..(at - 1) : CreateOrder[j] \in mg.refs
  /\ pc = "refetch" /\ cr # NoConfig
       => \A j \in 1..at : CreateOrder[j] \in cr.refs

\* A configuration without the operator's finalizer owns nothing.
UnadoptedOwnsNothing == cr # NoConfig /\ ~cr.finalizer => NoneOwned

\* What the refinement needs beside IInv: a user's delete of a configuration
\* that was not adopted leaves nothing behind, and no reference in the status
\* skips a resource, whichever copies and retries it was written from.
LifecycleInv == RecordedInOrder /\ UnadoptedOwnsNothing

==============================================================================
