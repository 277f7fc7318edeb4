------------------------- MODULE ControllerInvariant --------------------------
(***************************************************************************)
(* Why WorkerHoldsConfig, NeverDeletesLive and EndpointBeforeScraper hold: *)
(* the inductive invariant their proofs rest on.  It says how the three    *)
(* copies of the configuration (the server's, the cache's, the worker's)   *)
(* may differ.                                                             *)
(***************************************************************************)
EXTENDS Controller

Busy == pc # "idle"

\* The positions a sequence of calls can be at, label by label.
Positions ==
  /\ pc = "refetch" => at <= 3
  /\ pc \in {"endpoint", "getService"} => at \in {1, 4}
  /\ pc = "observe" /\ at > 1 => mg.refs # {}
  /\ pc = "check" => mg.refs # {}

\* The incarnations only grow: worker's copy, cache, server.
UidsGrow ==
  /\ cr # NoConfig => cr.uid <= lastUid
  /\ cached # NoConfig => cached.uid <= lastUid
  /\ Busy => mg.uid <= lastUid
  /\ cached # NoConfig /\ cr # NoConfig => cached.uid <= cr.uid
  /\ Busy /\ cr # NoConfig => mg.uid <= cr.uid
  /\ Busy /\ cached # NoConfig => mg.uid <= cached.uid

\* No object belongs to an incarnation that has not been applied yet.
OwnersKnown == \A k \in Kinds : child[k] # Absent => child[k].owner <= lastUid

NoneOwned == \A k \in Kinds : child[k] # Absent => child[k].owner # cr.uid

\* An incarnation neither the cache nor the worker has seen owns nothing.
UnseenOwnsNothing ==
  /\ cached # NoConfig /\ cr # NoConfig /\ cached.uid < cr.uid => NoneOwned
  /\ Busy /\ cr # NoConfig /\ mg.uid < cr.uid => NoneOwned

\* A configuration once marked for deletion stays marked, in every copy that is
\* read later.
MarkStays ==
  /\ cached # NoConfig /\ cached.deleting /\ cr # NoConfig /\ cr.uid = cached.uid
       => cr.deleting
  /\ Busy /\ mg.deleting /\ cr # NoConfig /\ cr.uid = mg.uid => cr.deleting
  /\ pc \in {"observe", "check", "delete", "release"} /\ mg.deleting
       => (cached # NoConfig /\ cached.uid = mg.uid => cached.deleting)
  /\ pc \in {"delete", "release"} => mg.deleting

\* References are recorded only once the finalizer is there.
RefsNeedFinalizer ==
  /\ cr # NoConfig /\ cr.refs # {} => cr.finalizer
  /\ cached # NoConfig /\ cached.refs # {} => cached.finalizer
  /\ Busy /\ mg.refs # {} => mg.finalizer

\* A copy with the finalizer and without the mark is of a live configuration.
Held(config) ==
  config.finalizer /\ ~config.deleting
    => cr # NoConfig /\ cr.uid = config.uid /\ cr.finalizer

FinalizerHolds ==
  /\ cached # NoConfig => Held(cached)
  /\ Busy => Held(mg)

\* Before a ScraperConfig is written there is one to write, and the endpoint
\* Secret it names.
EndpointReady ==
  (pc = "create" /\ at = 4) \/ pc = "update"
    => /\ mg.spec.scraper # NoScraper
       /\ NeedsEndpoint(mg) => secret # Absent /\ secret.owner = mg.uid

\* The cache has seen every incarnation the worker has a copy of, and what is
\* adopted the worker has seen: it is the one who adopts.
AdoptedIsSeen ==
  /\ Busy /\ cr # NoConfig /\ mg.uid = cr.uid => cached # NoConfig /\ cached.uid = cr.uid
  /\ cr # NoConfig /\ cr.finalizer
       => /\ cached # NoConfig /\ cached.uid = cr.uid
          /\ Busy => mg.uid = cr.uid

\* How the copies of the configuration may differ, whatever happens to its
\* children and whoever else writes them.
CopiesInv ==
  /\ TypeOK
  /\ Positions
  /\ UidsGrow
  /\ MarkStays
  /\ RefsNeedFinalizer
  /\ FinalizerHolds
  /\ AdoptedIsSeen
  /\ WorkerHoldsConfig

\* The inductive invariant: every lag the cache and the worker's copy can have
\* behind the server is harmless for what the reconciler does with them.
IInv ==
  /\ CopiesInv
  /\ OwnersKnown
  /\ UnseenOwnsNothing
  /\ EndpointReady
  /\ EndpointBeforeScraper

==============================================================================
