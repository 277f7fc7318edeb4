-------------------------- MODULE OperatorInvariant ---------------------------
(***************************************************************************)
(* Inductive invariants of the whole operator.  The informers keep copies  *)
(* of the configuration too, one for each handler, and unlike the worker's *)
(* theirs is bound to nothing: the configuration may be gone, or another   *)
(* incarnation, when the handler writes.                                   *)
(***************************************************************************)
EXTENDS Operator, ControllerInvariant

\* The incarnations applied so far.
Uids == 1..lastUid

\* Every copy is of an incarnation that was applied.
CopiesApplied ==
  /\ cr # NoConfig => cr.uid \in Uids
  /\ cached # NoConfig => cached.uid \in Uids
  /\ Busy => mg.uid \in Uids
  /\ \A k \in Kinds : task[k].at # "idle" => task[k].config.uid \in Uids

\* And so is every owner.
ObjectsApplied ==
  /\ \A k \in Kinds : child[k] # Absent => child[k].owner \in Uids
  /\ secret # Absent => secret.owner \in Uids

\* Whoever is about to write a ScraperConfig has one to write.
ScraperGiven ==
  /\ (pc = "create" /\ at = 4) \/ pc = "update" => mg.spec.scraper # NoScraper
  /\ task["ScraperConfig"].at = "write"
       => task["ScraperConfig"].config.spec.scraper # NoScraper

\* What every object in the cluster is, whoever wrote it.
ObjectsInv ==
  /\ CopiesApplied
  /\ ObjectsApplied
  /\ ScraperGiven
  /\ WellFormed

-----------------------------------------------------------------------------
\* No handler still works for an earlier incarnation.
NoneOvertaken ==
  \A k \in Kinds :
     task[k].at # "idle" /\ cr # NoConfig => task[k].config.uid = cr.uid

\* What EndpointReady says of the worker, of the handler.
HandlerReady ==
  LET t == task["ScraperConfig"] IN
  t.at = "write" /\ cr # NoConfig /\ NeedsEndpoint(t.config)
    => secret # Absent /\ secret.owner = cr.uid

EndpointInv == EndpointReady /\ HandlerReady /\ EndpointBeforeScraper

==============================================================================
