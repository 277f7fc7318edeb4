------------------------------ MODULE Operator -------------------------------
(***************************************************************************)
(* The whole operator: the reconciler of Controller and the informers of   *)
(* Informer in one process (cmd/main.go), two writers that meet only in    *)
(* the API server.                                                         *)
(***************************************************************************)
EXTENDS Controller, Informer

opVars == <<vars, infVars>>

\* The types of the two writers; what a handler is about to write it has read a
\* configuration for.
OperatorTypeOK == TypeOK /\ InformerTypeOK

OperatorInit == Init /\ InformerInit

\* The process ends and is started again: what the handlers had to do is
\* forgotten, and the objects listed first are no events for them.
RestartProcess ==
  /\ Requeue
  /\ cached' = cr
  /\ events' = [k \in Kinds |-> <<>>]
  /\ task' = [k \in Kinds |-> Idle]
  /\ UNCHANGED <<objects, lastUid, drifts>>

Kill == Fault /\ RestartProcess

\* DeleteFunc takes whatever it is given for an object.
Panic ==
  /\ \E k \in Kinds :
        task[k].at = "idle" /\ events[k] # <<>> /\ Head(events[k]).type = "tombstone"
  /\ RestartProcess
  /\ UNCHANGED faults

\* Update always changes the annotation of the Deployment, and so does a watch
\* notice it when nothing else is different.
Annotate ==
  /\ pc = "update"
  /\ UpdateOrder[at] = "Deployment"
  /\ UNCHANGED child
  /\ Rewritten("Deployment")

Reconciler == Worker /\ (Watch \/ Annotate) /\ UNCHANGED task

\* Other controllers write the status of the objects.
WriteStatus ==
  /\ drifts < MaxDrifts
  /\ drifts' = drifts + 1
  /\ \E k \in Kinds : Rewritten(k)
  /\ UNCHANGED <<objects, lastUid, faults, task, ctlVars>>

Handlers == \E k \in Kinds : Handle(k) /\ UNCHANGED ctlVars

Environment ==
  \/ SyncCache /\ UNCHANGED infVars
  \/ (Users \/ Collect \/ StartPods) /\ Watch /\ UNCHANGED <<ctlVars, task>>
  \/ (\E k \in Kinds : Relist(k)) /\ UNCHANGED ctlVars
  \/ WriteStatus

OperatorNext == Reconciler \/ Handlers \/ Environment \/ Kill \/ Panic

OperatorSpec == OperatorInit /\ [][OperatorNext]_opVars

\* As for the reconciler alone; and every handler keeps handling.
OperatorFairness ==
  /\ WF_opVars(Reconciler)
  /\ WF_opVars(SyncCache /\ UNCHANGED infVars)
  /\ WF_opVars(Collect /\ Watch /\ UNCHANGED <<ctlVars, task>>)
  /\ WF_opVars(StartPods /\ Watch /\ UNCHANGED <<ctlVars, task>>)
  /\ WF_opVars(Panic)
  /\ \A k \in Kinds : WF_opVars(Handle(k) /\ UNCHANGED ctlVars)

OperatorFairSpec == OperatorSpec /\ OperatorFairness

\* The garbage collector is all that is sure to go on.
OperatorCollectedSpec ==
  OperatorSpec /\ WF_opVars(Collect /\ Watch /\ UNCHANGED <<ctlVars, task>>)

-----------------------------------------------------------------------------
\* Every handler waits for an event and there is none.
Settled == \A k \in Kinds : events[k] = <<>> /\ task[k].at = "idle"

\* The two writers do not keep each other busy: what the reconciler writes is
\* an event for the informers and what they write is read by the reconciler,
\* yet in the end neither writes, and no event is left.
WritersComeToRest == ComesToRest /\ <>[]Settled

\* Rest is kept by the two writers together: where the reconciler has nothing to
\* do and the handlers have no event, no reconcile causes one.
OperatorStaysAtRest ==
  [][AtRest /\ Settled /\ Undisturbed
       => AtRest' /\ Settled' /\ UNCHANGED <<cr, child>>]_opVars

==============================================================================
