------------------------------ MODULE Informer -------------------------------
(***************************************************************************)
(* The four informers (internal/informers/informer_factory.go): one watch  *)
(* and one handler for each kind, beside the reconciler and without its    *)
(* queue.  A handler takes the next event, reads the configuration, and,   *)
(* when the object was deleted or no longer fits, writes it again.  A      *)
(* handler that fails at any call is done with the event: nothing is tried *)
(* again.                                                                  *)
(*                                                                         *)
(* client-go, which is not in the repository, is modelled from the         *)
(* handlers the code registers: events of one kind arrive in order, there  *)
(* is no resync (period 0), and a watch that was interrupted for too long  *)
(* is replaced by a list, which delivers the objects there are and, for    *)
(* those that went away unseen, a tombstone instead of the object.         *)
(***************************************************************************)
EXTENDS Cluster, Sequences

CONSTANT Watched  \* bound: the kinds with an informer; main.go starts all four

ASSUME WatchedAssumption == Watched \subseteq Kinds

VARIABLES
  events,  \* events[k]: the events of kind k its handler has still to take
  task     \* task[k]: what that handler is doing

infVars == <<events, task>>

Updated(obj) == [type |-> "updated", obj |-> obj]
Deleted == [type |-> "deleted", obj |-> Absent]
Tombstone == [type |-> "tombstone", obj |-> Absent]

Events == [type : {"updated", "deleted", "tombstone"}, obj : Objects \cup {Absent}]

Tasks == [at : {"idle", "service", "endpoint", "write"}, create : BOOLEAN,
          config : Configs \cup {NoConfig}, ip : IPs \cup {NoIP}]

Idle == [at |-> "idle", create |-> FALSE, config |-> NoConfig, ip |-> NoIP]

\* What a handler writes it has a configuration for, and what an update event
\* carries is an object.
InformerTypeOK ==
  /\ events \in [Kinds -> Seq(Events)]
  /\ task \in [Kinds -> Tasks]
  /\ \A k \in Kinds : task[k].at # "idle" => task[k].config # NoConfig

InformerInit ==
  /\ events = [k \in Kinds |-> <<>>]
  /\ task = [k \in Kinds |-> Idle]

-----------------------------------------------------------------------------
\* The watches.

\* What a step means to the watch of kind k.  No handler is registered for an
\* object that appears.
Notice(k) ==
  IF k \notin Watched \/ child[k] = Absent \/ child'[k] = child[k] THEN <<>>
  ELSE IF child'[k] = Absent THEN <<Deleted>>
  ELSE <<Updated(child'[k])>>

Watch == events' = [k \in Kinds |-> events[k] \o Notice(k)]

\* Something was written that the model does not show, the restartedAt annotation
\* of a Deployment or a status: an event with the object as it is.
Rewritten(k) ==
  /\ k \in Watched
  /\ child[k] # Absent
  /\ events' = [events EXCEPT ![k] = Append(events[k], Updated(child[k]))]

\* The watch of kind k was interrupted: the last events are lost, and a list
\* stands for them.  It is no event for the handler when the last it was told
\* is that the object is gone.
Relist(k) ==
  LET listed == IF child[k] = Absent THEN Tombstone ELSE Updated(child[k]) IN
  /\ Fault
  /\ \E n \in 0..(Len(events[k]) - 1) :
        \E more \in {<<listed>>} \cup
                      (IF n > 0 /\ events[k][n].type # "updated" THEN {<<>>} ELSE {}) :
           events' = [events EXCEPT ![k] = SubSeq(events[k], 1, n) \o more]
  /\ UNCHANGED <<objects, lastUid, drifts, task>>

-----------------------------------------------------------------------------
\* The handlers.

\* The handler is done with the event, whatever came of it.
Drop(k) == task' = [task EXCEPT ![k] = Idle]

Continue(k, label) == task' = [task EXCEPT ![k].at = label]

\* Mutant: a deleted object is restored although its configuration is being
\* deleted too.
RestoreAlways(k, event, config) ==
  \/ event.type = "deleted"
  \/ event.type = "updated" /\ event.obj.owner # 0 /\ ~Check(k, event.obj, config)

\* DeleteFunc asks whether the configuration is being deleted; UpdateFunc
\* whether some configuration owns the object and whether it still fits.
WantsRestore(k, event, config) ==
  \/ event.type = "deleted" /\ ~config.deleting
  \/ event.type = "updated" /\ event.obj.owner # 0 /\ ~Check(k, event.obj, config)

\* The handler takes the next event and reads the configuration.
Receive(k) ==
  LET event == Head(events[k])
      start == [at |-> IF k = "ScraperConfig" THEN "service" ELSE "write",
                create |-> event.type = "deleted", config |-> cr, ip |-> NoIP]
      restores == cr # NoConfig /\ WantsRestore(k, event, cr)
  IN
  /\ task[k].at = "idle"
  /\ events[k] # <<>>
  /\ event.type # "tombstone"
  /\ events' = [events EXCEPT ![k] = Tail(events[k])]
  /\ \/ restores /\ task' = [task EXCEPT ![k] = start] /\ UNCHANGED faults
     \/ ~restores /\ UNCHANGED <<task, faults>>
     \/ Fault /\ UNCHANGED task
  /\ UNCHANGED <<objects, lastUid, drifts>>

\* Mutant: the endpoint Secret is left to the reconciler.
ReadNothing(k) ==
  /\ task[k].at = "service"
  /\ IF task[k].config.spec.scraper = NoScraper THEN Drop(k) ELSE Continue(k, "write")
  /\ UNCHANGED <<objects, lastUid, drifts, faults, events>>

\* A ScraperConfig needs the address of the Service.
ReadService(k) ==
  /\ task[k].at = "service"
  /\ \/ /\ child["Service"] # Absent
        /\ task' = [task EXCEPT ![k].at = "endpoint", ![k].ip = child["Service"].ip]
        /\ UNCHANGED faults
     \/ child["Service"] = Absent /\ Drop(k) /\ UNCHANGED faults
     \/ Fault /\ Drop(k)
  /\ UNCHANGED <<objects, lastUid, drifts, events>>

\* The generator of the ScraperConfig writes the endpoint Secret; it answers a
\* configuration without a scraper with an object that cannot be converted.
WriteEndpoint(k) ==
  LET config == task[k].config
      needed == config.spec.scraper # NoScraper /\ UsesExporterEndpoint(config.spec.scraper)
      write == CreateOrUpdate(EndpointSecret(config, task[k].ip))
  IN
  /\ task[k].at = "endpoint"
  /\ \/ config.spec.scraper = NoScraper /\ Drop(k) /\ UNCHANGED <<objects, faults>>
     \/ /\ config.spec.scraper # NoScraper
        /\ ~needed
        /\ Continue(k, "write")
        /\ UNCHANGED <<objects, faults>>
     \/ needed /\ write /\ Continue(k, "write") /\ UNCHANGED faults
     \/ needed /\ (write \/ UNCHANGED objects) /\ Fault /\ Drop(k)
  /\ UNCHANGED <<lastUid, drifts, events>>

\* Mutant: what was deleted is updated, which cannot succeed.
UpdateOnly(k, obj) == ~task[k].create /\ UpdateObj(k, obj)

\* Create when the event was a deletion, update when it was a change.
RestoreObject(k, obj) ==
  \/ task[k].create /\ CreateObj(k, obj)
  \/ ~task[k].create /\ UpdateObj(k, obj)

Restore(k) ==
  /\ task[k].at = "write"
  /\ Drop(k)
  /\ \/ RestoreObject(k, GenericObject(k, task[k].config)) /\ UNCHANGED faults
     \/ (task[k].create <=> child[k] # Absent) /\ UNCHANGED <<objects, faults>>
     \/ Fault /\ UNCHANGED objects
  /\ Watch
  /\ UNCHANGED <<lastUid, drifts>>

Handle(k) == Receive(k) \/ ReadService(k) \/ WriteEndpoint(k) \/ Restore(k)

==============================================================================
