--------------------------- MODULE OperatorProofs ----------------------------
(***************************************************************************)
(* What the informers cannot disturb.  They write the children and the     *)
(* endpoint Secret behind the reconciler's back, so nothing is said of     *)
(* those; they never write the configuration, so how its copies may differ *)
(* (CopiesInv) and what follows from it stand.                             *)
(***************************************************************************)
EXTENDS Operator, ControllerProofs, SequenceTheorems

OperatorInv == InformerTypeOK /\ CopiesInv

\* An idle handler has a task of its own.
LEMMA IdleTyped == Idle \in Tasks /\ Idle.at = "idle"
BY DEF Idle, Tasks

\* An update event carries the object there is now.
LEMMA EventsTyped ==
  ASSUME NEW obj \in Objects
  PROVE  Updated(obj) \in Events
BY DEF Events, Updated

\* The watches add events and nothing else.
LEMMA WatchTyped ==
  ASSUME ClusterTypeOK', events \in [Kinds -> Seq(Events)], Watch
  PROVE  events' \in [Kinds -> Seq(Events)]
<1> SUFFICES ASSUME NEW k \in Kinds PROVE events[k] \o Notice(k) \in Seq(Events)
  BY DEF Watch
<1>1. /\ child'[k] \in Objects \cup {Absent}
      /\ events[k] \in Seq(Events)
  BY DEF ClusterTypeOK
<1>2. <<Deleted>> \in Seq(Events) /\ <<>> \in Seq(Events)
  BY DEF Events, Deleted
<1>3. child'[k] # Absent => <<Updated(child'[k])>> \in Seq(Events)
  <2> SUFFICES ASSUME child'[k] # Absent PROVE Updated(child'[k]) \in Events
    OBVIOUS
  <2> QED
    BY <1>1, EventsTyped
<1>4. Notice(k) \in {<<>>, <<Deleted>>, <<Updated(child'[k])>>}
  BY DEF Notice
<1>5. Notice(k) \in Seq(Events)
  <2>1. CASE child'[k] = Absent
    <3>1. Notice(k) \in {<<>>, <<Deleted>>}
      BY <2>1 DEF Notice
    <3> QED
      BY <1>2, <3>1
  <2>2. CASE child'[k] # Absent
    BY <1>2, <1>3, <1>4, <2>2
  <2> QED
    BY <2>1, <2>2
<1> QED
  BY <1>1, <1>5

\* What a list puts in the place of lost events is an event.
LEMMA RelistTyped ==
  ASSUME ClusterTypeOK, events \in [Kinds -> Seq(Events)], NEW k \in Kinds, Relist(k)
  PROVE  events' \in [Kinds -> Seq(Events)]
<1> DEFINE listed == IF child[k] = Absent THEN Tombstone ELSE Updated(child[k])
<1>1. listed \in Events
  <2>1. child[k] \in Objects \cup {Absent}
    BY DEF ClusterTypeOK
  <2>2. Tombstone \in Events
    BY DEF Tombstone, Events
  <2>3. child[k] # Absent => Updated(child[k]) \in Events
    BY <2>1, EventsTyped
  <2> QED
    BY <2>2, <2>3
<1> DEFINE others(n) == IF n > 0 /\ events[k][n].type # "updated" THEN {<<>>} ELSE {}
<1>2. <<listed>> \in Seq(Events) /\ <<>> \in Seq(Events)
  BY <1>1
<1>3. PICK n \in 0..(Len(events[k]) - 1) :
         \E more \in {<<listed>>} \cup others(n) :
            events' = [events EXCEPT ![k] = SubSeq(events[k], 1, n) \o more]
  BY Zenon DEF Relist
<1>4. PICK more \in {<<listed>>} \cup others(n) :
         events' = [events EXCEPT ![k] = SubSeq(events[k], 1, n) \o more]
  BY <1>3
<1>5. more = <<listed>> \/ more = <<>>
  BY <1>4, Zenon
<1>6. more \in Seq(Events)
  BY <1>2, <1>5, Zenon
<1>7. SubSeq(events[k], 1, n) \in Seq(Events)
  <2>1. n \in Int /\ \A i \in 1..n : events[k][i] \in Events
    OBVIOUS
  <2> QED
    BY <2>1, SubSeqProperties
<1>8. SubSeq(events[k], 1, n) \o more \in Seq(Events)
  BY <1>6, <1>7
<1> QED
  BY <1>4, <1>8

\* An event about something the model does not show is an event.
LEMMA RewrittenTyped ==
  ASSUME ClusterTypeOK, events \in [Kinds -> Seq(Events)], NEW k \in Kinds, Rewritten(k)
  PROVE  events' \in [Kinds -> Seq(Events)]
<1>1. child[k] \in Objects
  BY DEF Rewritten, ClusterTypeOK
<1>2. Append(events[k], Updated(child[k])) \in Seq(Events)
  BY <1>1, EventsTyped
<1> QED
  BY <1>2 DEF Rewritten

\* A handler leaves the types alone, and the configuration, its copies and the
\* reconciler too.
LEMMA HandlersTyped ==
  ASSUME TypeInv, InformerTypeOK, NEW k \in Kinds, Handle(k), UNCHANGED ctlVars
  PROVE  /\ TypeInv' /\ InformerTypeOK'
         /\ UNCHANGED <<cr, lastUid>>
<1>0. /\ ClusterTypeOK /\ task[k] \in Tasks /\ events[k] \in Seq(Events)
      /\ task \in [Kinds -> Tasks] /\ events \in [Kinds -> Seq(Events)]
      /\ task[k].at # "idle" => task[k].config \in Configs
  BY DEF TypeInv, TypeOK, InformerTypeOK, Tasks
<1>f. Fault => faults' \in Nat
  BY <1>0 DEF Fault, ClusterTypeOK
<1>c. ASSUME ClusterTypeOK' PROVE TypeInv'
  BY <1>c, Zenon DEF TypeInv, TypeOK, Positions, ctlVars
<1>t. ASSUME NEW next \in Tasks, task' = [task EXCEPT ![k] = next],
             next.at # "idle" => next.config # NoConfig
      PROVE  /\ task' \in [Kinds -> Tasks]
             /\ \A j \in Kinds : task'[j].at # "idle" => task'[j].config # NoConfig
  BY <1>0, <1>t DEF InformerTypeOK
<1>1. CASE Receive(k)
  <2>1. ClusterTypeOK' /\ UNCHANGED <<cr, lastUid>>
    BY <1>0, <1>1, <1>f DEF Receive, objects, ClusterTypeOK
  <2>2. events' \in [Kinds -> Seq(Events)]
    BY <1>0, <1>1 DEF Receive
  <2>3. CASE UNCHANGED task
    BY <1>c, <2>1, <2>2, <2>3 DEF InformerTypeOK
  <2>4. CASE ~UNCHANGED task
    <3> DEFINE start == [at |-> IF k = "ScraperConfig" THEN "service" ELSE "write",
                         create |-> Head(events[k]).type = "deleted", config |-> cr,
                         ip |-> NoIP]
    <3>1. cr # NoConfig /\ task' = [task EXCEPT ![k] = start]
      BY <1>1, <2>4 DEF Receive
    <3>2. start \in Tasks
      BY <1>0, <3>1 DEF Tasks, ClusterTypeOK
    <3> QED
      BY <1>c, <1>t, <2>1, <2>2, <3>1, <3>2 DEF InformerTypeOK
  <2> QED
    BY <2>3, <2>4
<1>2. CASE ReadService(k)
  <2>1. ClusterTypeOK' /\ UNCHANGED <<cr, lastUid, events>> /\ task[k].config # NoConfig
    BY <1>0, <1>2, <1>f DEF ReadService, objects, ClusterTypeOK, InformerTypeOK
  <2> DEFINE next == [[task[k] EXCEPT !.at = "endpoint"] EXCEPT !.ip = child["Service"].ip]
  <2>2. CASE Drop(k)
    BY <1>c, <1>t, <2>1, <2>2, IdleTyped DEF Drop, InformerTypeOK
  <2>3. CASE ~Drop(k)
    <3>1. /\ child["Service"] # Absent
          /\ task' = [task EXCEPT ![k] = next]
      BY <1>0, <1>2, <2>3 DEF ReadService
    <3>2. child["Service"] \in Objects
      BY <1>0, <3>1 DEF ClusterTypeOK, Kinds
    <3>3. next \in Tasks /\ next.config # NoConfig
      BY <1>0, <2>1, <3>2 DEF Tasks, Objects
    <3> QED
      BY <1>c, <1>t, <2>1, <3>1, <3>3 DEF InformerTypeOK
  <2> QED
    BY <2>2, <2>3
<1>3. CASE WriteEndpoint(k)
  <2> DEFINE config == task[k].config
             s == EndpointSecret(config, task[k].ip)
  <2>1. config \in Configs /\ s \in Secrets
    BY <1>0, <1>3 DEF WriteEndpoint, Configs, Tasks, Secrets, EndpointSecret, OwnerReference
  <2>2. ClusterTypeOK' /\ UNCHANGED <<cr, lastUid, events>>
    <3>1. CASE CreateOrUpdate(s)
      BY <1>0, <1>3, <1>f, <2>1, <3>1 DEF WriteEndpoint, CreateOrUpdate, ClusterTypeOK
    <3>2. CASE UNCHANGED objects
      BY <1>0, <1>3, <1>f, <3>2 DEF WriteEndpoint, objects, ClusterTypeOK
    <3> QED
      BY <1>3, <3>1, <3>2 DEF WriteEndpoint
  <2>3. CASE Drop(k)
    BY <1>c, <1>t, <2>2, <2>3, IdleTyped DEF Drop, InformerTypeOK
  <2>4. CASE Continue(k, "write")
    <3> DEFINE next == [task[k] EXCEPT !.at = "write"]
    <3>1. task' = [task EXCEPT ![k] = next]
      BY <1>0, <2>4 DEF Continue
    <3>2. next \in Tasks /\ next.config # NoConfig
      BY <1>0, <1>3, <2>1, NullsAssumption DEF Tasks
    <3> QED
      BY <1>c, <1>t, <2>2, <3>1, <3>2 DEF InformerTypeOK
  <2> QED
    BY <1>3, <2>3, <2>4 DEF WriteEndpoint
<1>4. CASE Restore(k)
  <2> DEFINE obj == GenericObject(k, task[k].config)
  <2>1. obj \in Objects
    BY <1>0, <1>4, GenericObjects DEF Restore
  <2>2. ClusterTypeOK' /\ UNCHANGED <<cr, lastUid>>
    <3>1. CASE CreateObj(k, obj) \/ UpdateObj(k, obj)
      <4>1. /\ child' \in [Kinds -> Objects \cup {Absent}]
            /\ pods' \in Bodies \cup {Pending}
            /\ UNCHANGED <<cr, secret>>
        BY <1>0, <2>1, <3>1, WritesTyped
      <4> QED
        BY <1>0, <1>4, <1>f, <4>1 DEF Restore, ClusterTypeOK
    <3>2. CASE UNCHANGED objects
      BY <1>0, <1>4, <1>f, <3>2 DEF Restore, objects, ClusterTypeOK
    <3> QED
      BY <1>4, <3>1, <3>2 DEF Restore, RestoreObject
  <2>3. events' \in [Kinds -> Seq(Events)]
    BY <1>4, <2>2, WatchTyped DEF Restore, InformerTypeOK
  <2>4. Drop(k)
    BY <1>4 DEF Restore
  <2> QED
    BY <1>c, <1>t, <2>2, <2>3, <2>4, IdleTyped DEF Drop, InformerTypeOK
<1> QED
  BY <1>1, <1>2, <1>3, <1>4 DEF Handle

-----------------------------------------------------------------------------

\* At the start no handler has anything to do.
LEMMA OperatorInitially == OperatorInit => OperatorInv
<1> SUFFICES ASSUME OperatorInit PROVE OperatorInv
  OBVIOUS
<1>1. CopiesInv
  BY InvInit DEF OperatorInit, IInv
<1>2. InformerTypeOK
  BY IdleTyped DEF OperatorInit, InformerInit, InformerTypeOK
<1> QED
  BY <1>1, <1>2 DEF OperatorInv

\* A step of the operator and its environment is one of Controller's steps
\* with the watches looking on, or leaves the configuration alone and at most
\* lets the reconciler start over.
LEMMA OperatorSteps ==
  ASSUME TypeInv, InformerTypeOK, [OperatorNext]_opVars
  PROVE  TypeInv' /\ InformerTypeOK' /\ ConfigStep /\ CtlStep
<1>0. /\ task \in [Kinds -> Tasks] /\ events \in [Kinds -> Seq(Events)]
      /\ \A k \in Kinds : task[k].at # "idle" => task[k].config # NoConfig
  BY DEF InformerTypeOK
<1>1. ASSUME Next, Watch \/ Annotate \/ UNCHANGED events, UNCHANGED task
      PROVE  TypeInv' /\ InformerTypeOK' /\ ConfigStep /\ CtlStep
  <2>1. TypeInv' /\ ConfigStep /\ CtlStep
    BY <1>1, TypeStep, ConfigSteps, CtlSteps
  <2>2. Annotate => events' \in [Kinds -> Seq(Events)]
    BY <1>0, RewrittenTyped DEF Annotate, Kinds, TypeInv, TypeOK
  <2>3. events' \in [Kinds -> Seq(Events)]
    BY <1>0, <1>1, <2>1, <2>2, WatchTyped DEF TypeInv, TypeOK
  <2> QED
    BY <1>0, <1>1, <2>1, <2>3 DEF InformerTypeOK
<1>2. CASE Reconciler
  BY <1>1, <1>2 DEF Reconciler, Next
<1>3. CASE Handlers
  <2>1. PICK k \in Kinds : Handle(k) /\ UNCHANGED ctlVars
    BY <1>3 DEF Handlers
  <2>2. TypeInv' /\ InformerTypeOK' /\ UNCHANGED <<cr, lastUid>>
    BY <2>1, HandlersTyped
  <2>3. ConfigStep /\ CtlStep
    BY <2>1, <2>2 DEF ConfigStep, CtlStep, CacheStep, ctlVars
  <2> QED
    BY <2>2, <2>3
<1>4. CASE Environment
  <2>1. CASE SyncCache /\ UNCHANGED infVars
    BY <1>1, <2>1 DEF Next, infVars
  <2>2. CASE (Users \/ Collect \/ StartPods) /\ Watch /\ UNCHANGED <<ctlVars, task>>
    BY <1>1, <2>2 DEF Next
  <2>3. CASE (\E k \in Kinds : Relist(k)) /\ UNCHANGED ctlVars
    <3>1. PICK k \in Kinds : Relist(k)
      BY <2>3
    <3>2. UNCHANGED <<cr, child, secret, pods, lastUid, drifts, task>> /\ faults' \in Nat
      BY <3>1 DEF Relist, Fault, objects, TypeInv, TypeOK, ClusterTypeOK
    <3>3. ClusterTypeOK'
      BY <3>2 DEF TypeInv, TypeOK, ClusterTypeOK
    <3>4. TypeInv'
      BY <2>3, <3>3, Zenon DEF TypeInv, TypeOK, Positions, ctlVars
    <3>5. events' \in [Kinds -> Seq(Events)]
      BY <1>0, <3>1, RelistTyped DEF TypeInv, TypeOK
    <3>6. ConfigStep /\ CtlStep
      BY <2>3, <3>2 DEF ConfigStep, CtlStep, CacheStep, ctlVars
    <3> QED
      BY <1>0, <3>2, <3>4, <3>5, <3>6 DEF InformerTypeOK
  <2>4. CASE WriteStatus
    <3>1. PICK k \in Kinds : Rewritten(k)
      BY <2>4 DEF WriteStatus
    <3>2. UNCHANGED <<cr, child, secret, pods, lastUid, faults, task>> /\ drifts' \in Nat
      BY <2>4 DEF WriteStatus, objects, TypeInv, TypeOK, ClusterTypeOK
    <3>3. ClusterTypeOK'
      BY <3>2 DEF TypeInv, TypeOK, ClusterTypeOK
    <3>4. UNCHANGED ctlVars
      BY <2>4 DEF WriteStatus
    <3>5. TypeInv'
      BY <3>3, <3>4, Zenon DEF TypeInv, TypeOK, Positions, ctlVars
    <3>6. events' \in [Kinds -> Seq(Events)]
      BY <1>0, <3>1, RewrittenTyped DEF TypeInv, TypeOK
    <3>7. ConfigStep /\ CtlStep
      BY <3>2, <3>4 DEF ConfigStep, CtlStep, CacheStep, ctlVars
    <3> QED
      BY <1>0, <3>2, <3>5, <3>6, <3>7 DEF InformerTypeOK
  <2> QED
    BY <1>4, <2>1, <2>2, <2>3, <2>4 DEF Environment
<1>5. CASE Kill \/ Panic
  <2>1. RestartProcess /\ (Fault \/ UNCHANGED faults)
    BY <1>5 DEF Kill, Panic
  <2>2. UNCHANGED <<cr, child, secret, pods, lastUid, drifts>> /\ faults' \in Nat
    BY <2>1 DEF RestartProcess, Fault, objects, TypeInv, TypeOK, ClusterTypeOK
  <2>3. /\ pc' = "idle" /\ at' = 1 /\ mg' = NoConfig /\ ip' = NoIP
        /\ queued' \in BOOLEAN /\ cached' = cr
    BY <2>1, ReturnTyped DEF RestartProcess, TypeInv, TypeOK
  <2>4. ClusterTypeOK'
    BY <2>2 DEF TypeInv, TypeOK, ClusterTypeOK
  <2>5. TypeInv'
    BY <2>2, <2>3, <2>4 DEF TypeInv, TypeOK, Positions, ClusterTypeOK, Labels
  <2>6. InformerTypeOK'
    BY <2>1, IdleTyped DEF RestartProcess, InformerTypeOK
  <2>7. ConfigStep /\ CtlStep
    BY <2>2, <2>3 DEF ConfigStep, CtlStep, CacheStep
  <2> QED
    BY <2>5, <2>6, <2>7
<1>6. CASE UNCHANGED opVars
  <2>1. UNCHANGED vars /\ UNCHANGED infVars
    BY <1>6 DEF opVars
  <2>2. TypeInv' /\ ConfigStep /\ CtlStep
    BY <2>1, TypeStep, ConfigSteps, CtlSteps
  <2> QED
    BY <1>0, <2>1, <2>2 DEF infVars, InformerTypeOK
<1> QED
  BY <1>2, <1>3, <1>4, <1>5, <1>6 DEF OperatorNext

\* Every step of the operator and of what surrounds it preserves the invariant.
LEMMA OperatorStep == OperatorInv /\ [OperatorNext]_opVars => OperatorInv'
<1> SUFFICES ASSUME OperatorInv, [OperatorNext]_opVars PROVE OperatorInv'
  OBVIOUS
<1>1. TypeInv /\ InformerTypeOK
  BY DEF OperatorInv, CopiesInv, TypeInv
<1>2. TypeInv' /\ InformerTypeOK' /\ ConfigStep /\ CtlStep
  BY <1>1, OperatorSteps
<1> QED
  BY <1>2, CopiesStep DEF OperatorInv

\* The invariant of the operator holds with any of the informers, whatever they
\* write beside the reconciler.
THEOREM OperatorInvariant == OperatorSpec => []OperatorInv
BY OperatorInitially, OperatorStep, PTL DEF OperatorSpec

\* Every variable of the operator keeps its type: a handler that writes has a
\* configuration to write for, and every event carries what it is about.
THEOREM OperatorTypeCorrect == OperatorSpec => []OperatorTypeOK
<1>1. OperatorInv => OperatorTypeOK
  BY DEF OperatorInv, CopiesInv, OperatorTypeOK
<1> QED
  BY <1>1, OperatorInvariant, PTL

\* The copies of the configuration never differ in a way that matters, whatever
\* the informers do and however often the process starts over.
THEOREM OperatorCopies == OperatorSpec => []CopiesInv
<1>1. OperatorInv => CopiesInv
  BY DEF OperatorInv
<1> QED
  BY <1>1, OperatorInvariant, PTL

\* Also beside the informers, and across a panic of one of them, the reconciler
\* only writes for a configuration that is there as the same incarnation.
THEOREM OperatorHoldsConfig == OperatorSpec => []WorkerHoldsConfig
<1>1. OperatorInv => WorkerHoldsConfig
  BY DEF OperatorInv, CopiesInv
<1> QED
  BY <1>1, OperatorInvariant, PTL

\* Beside the informers Delete can meet objects of a configuration nobody asked to
\* delete, which a handler restored for it, but only before it is adopted: the
\* Create that makes them again is still to come.
THEOREM OperatorDeletesNoneAdopted == OperatorSpec => []DeletesNoneAdopted
<1>1. OperatorInv => DeletesNoneAdopted
  BY NoneAdopted DEF OperatorInv
<1> QED
  BY <1>1, OperatorInvariant, PTL

\* No reference is ever lost from the status: the informers never write it.
THEOREM OperatorRefsAreKept == OperatorSpec => StatusRefsKept
<1>1. OperatorInv /\ [OperatorNext]_opVars
        => [cr # NoConfig /\ cr' # NoConfig /\ cr'.uid = cr.uid
              => cr.refs \subseteq cr'.refs]_vars
  <2> SUFFICES ASSUME OperatorInv, [OperatorNext]_opVars, cr # NoConfig, cr' # NoConfig
               PROVE  cr.refs \subseteq cr'.refs
    OBVIOUS
  <2>1. ConfigStep
    BY OperatorSteps DEF OperatorInv, CopiesInv, TypeInv
  <2> QED
    BY <2>1 DEF ConfigStep, Applied, Advanced, Gone
<1> QED
  BY <1>1, OperatorInitially, OperatorStep, PTL DEF OperatorSpec, StatusRefsKept

-----------------------------------------------------------------------------
\* Rest, with two writers.

\* Where no object changes the watches have nothing to say.
LEMMA QuietWatch ==
  ASSUME InformerTypeOK, Settled, UNCHANGED child,
         Watch \/ UNCHANGED events, UNCHANGED task
  PROVE  Settled'
<1> SUFFICES ASSUME NEW k \in Kinds PROVE events'[k] = <<>> /\ task'[k].at = "idle"
  BY DEF Settled
<1>1. events[k] = <<>> /\ task[k].at = "idle"
  BY DEF Settled
<1>2. Notice(k) = <<>>
  BY DEF Notice
<1>3. events'[k] = events[k] \o <<>> \/ events'[k] = events[k]
  BY <1>2 DEF Watch
<1> QED
  BY <1>1, <1>3

\* With no event and no task a handler has no step to take.
LEMMA HandlersRest ==
  ASSUME Settled, NEW k \in Kinds
  PROVE  ~Handle(k) /\ ~Panic
<1>1. \A j \in Kinds : events[j] = <<>> /\ task[j].at = "idle"
  BY DEF Settled
<1> QED
  BY <1>1 DEF Handle, Receive, ReadService, WriteEndpoint, Restore, Panic

\* Where everything is up to date and no event is left, the reconciler finds
\* nothing to write, so the watches have nothing to report and the handlers
\* nothing to restore: neither writer wakes the other.
THEOREM OperatorRestIsKept == OperatorSpec => OperatorStaysAtRest
<1>1. OperatorInv /\ [OperatorNext]_opVars
        => [AtRest /\ Settled /\ Undisturbed
              => AtRest' /\ Settled' /\ UNCHANGED <<cr, child>>]_opVars
  <2> SUFFICES ASSUME OperatorInv, OperatorNext, AtRest, Settled, Undisturbed
               PROVE  AtRest' /\ Settled' /\ UNCHANGED <<cr, child>>
    OBVIOUS
  <2>0. TypeInv /\ InformerTypeOK
    BY DEF OperatorInv, CopiesInv, TypeInv
  <2>1. ~Users /\ UNCHANGED faults /\ ~Fault /\ ~WriteStatus
    BY <2>0 DEF Undisturbed, Fault, WriteStatus, TypeInv, TypeOK, ClusterTypeOK
  <2>2. ASSUME Worker \/ ((Collect \/ StartPods) /\ UNCHANGED ctlVars),
               Watch, UNCHANGED task
        PROVE  AtRest' /\ Settled' /\ UNCHANGED <<cr, child>>
    BY <2>0, <2>1, <2>2, WorkerRests, EnvironmentRests, RestKept, QuietWatch
  <2>3. CASE Reconciler
    <3>1. ~Annotate
      BY DEF AtRest, Annotate
    <3> QED
      BY <2>2, <2>3, <3>1 DEF Reconciler
  <2>4. CASE Handlers
    BY <2>4, HandlersRest DEF Handlers
  <2>5. CASE Environment
    <3>1. ~SyncCache
      BY DEF AtRest, SyncCache
    <3>2. \A k \in Kinds : ~Relist(k)
      BY <2>1 DEF Relist
    <3> QED
      BY <2>1, <2>2, <2>5, <3>1, <3>2 DEF Environment, ctlVars
  <2>6. CASE Kill
    BY <2>1, <2>6 DEF Kill
  <2>7. CASE Panic
    <3>1. "Service" \in Kinds
      BY DEF Kinds
    <3> QED
      BY <2>7, <3>1, HandlersRest
  <2> QED
    BY <2>3, <2>4, <2>5, <2>6, <2>7 DEF OperatorNext
<1> QED
  BY <1>1, OperatorInitially, OperatorStep, PTL DEF OperatorSpec, OperatorStaysAtRest

==============================================================================
