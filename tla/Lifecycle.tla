------------------------------ MODULE Lifecycle ------------------------------
(***************************************************************************)
(* What the operator promises about one ExporterScraperConfig, without a   *)
(* cache, a work queue, a retry or a call to the API server: the life of   *)
(* the configuration, the resources it owns and those its status names.    *)
(* Every incarnation of the configuration starts this life afresh, whatever*)
(* the incarnation before left behind.                                     *)
(***************************************************************************)
EXTENDS Naturals, Sequences

CONSTANT Order  \* the resources, in the order in which they enter the status

VARIABLES
  phase,     \* how far this incarnation of the configuration has come
  engaged,   \* the operator is creating or updating its resources
  owned,     \* the resources in the cluster that belong to this incarnation
  recorded   \* the resources its status names

lifecycleVars == <<phase, engaged, owned, recorded>>

Phases == {"absent", "applied", "adopted", "deleting"}

ResourcesOf(order) == {order[i] : i \in 1..Len(order)}

LifecycleInit ==
  /\ phase = "absent"
  /\ engaged = FALSE
  /\ owned = {}
  /\ recorded = {}

\* A user applies the configuration; nothing belongs to it yet.
Begin ==
  /\ phase = "absent"
  /\ ~engaged
  /\ phase' = "applied"
  /\ UNCHANGED <<engaged, owned, recorded>>

\* The operator adds its finalizer before it creates anything.
Adopt ==
  /\ phase = "applied"
  /\ phase' = "adopted"
  /\ engaged' \in BOOLEAN
  /\ UNCHANGED <<owned, recorded>>

\* The operator may not have seen yet that the configuration is being deleted.
Engage ==
  /\ phase \in {"adopted", "deleting"}
  /\ engaged' = TRUE
  /\ UNCHANGED <<phase, owned, recorded>>

Disengage ==
  /\ engaged' = FALSE
  /\ UNCHANGED <<phase, owned, recorded>>

Build(r) ==
  /\ engaged
  /\ owned' = owned \cup {r}
  /\ engaged' \in BOOLEAN
  /\ UNCHANGED <<phase, recorded>>

\* The status names a resource only after those before it.
Record(i) ==
  /\ engaged
  /\ \A j \in 1..(i - 1) : Order[j] \in recorded
  /\ recorded' = recorded \cup {Order[i]}
  /\ engaged' \in BOOLEAN
  /\ UNCHANGED <<phase, owned>>

\* The operator deletes a resource, or somebody else does.
Remove(r) ==
  /\ owned' = owned \ {r}
  /\ UNCHANGED <<phase, engaged, recorded>>

\* A user deletes the configuration: at once when it was not adopted.
Withdraw ==
  \/ /\ phase = "applied"
     /\ phase' = "absent"
     /\ UNCHANGED <<engaged, owned, recorded>>
  \/ /\ phase = "adopted"
     /\ phase' = "deleting"
     /\ UNCHANGED <<engaged, owned, recorded>>

\* The operator gives up its finalizer, never in the middle of its own work.
\* Nothing belongs to a configuration that is gone.
Release ==
  /\ phase = "deleting"
  /\ ~engaged
  /\ phase' = "absent"
  /\ owned' = {}
  /\ recorded' = {}
  /\ UNCHANGED engaged

LifecycleNext ==
  \/ Begin \/ Adopt \/ Engage \/ Disengage \/ Withdraw \/ Release
  \/ \E r \in ResourcesOf(Order) : Build(r) \/ Remove(r)
  \/ \E i \in 1..Len(Order) : Record(i)

LifecycleSafety == LifecycleInit /\ [][LifecycleNext]_lifecycleVars

-----------------------------------------------------------------------------
\* The same life with somebody else who builds resources for a configuration
\* that is there, engaged or not, adopted or not.

Rebuild(r) ==
  /\ phase # "absent"
  /\ owned' = owned \cup {r}
  /\ UNCHANGED <<phase, engaged, recorded>>

\* A user deletes a configuration that was not adopted; what was built for it
\* belongs to nobody.
Abandon ==
  /\ phase = "applied"
  /\ phase' = "absent"
  /\ owned' = {}
  /\ UNCHANGED <<engaged, recorded>>

SharedNext ==
  \/ LifecycleNext
  \/ \E r \in ResourcesOf(Order) : Rebuild(r)
  \/ Abandon

SharedSafety == LifecycleInit /\ [][SharedNext]_lifecycleVars

-----------------------------------------------------------------------------
\* A deleted configuration goes away, and an adopted one gets all its resources.
LifecycleLiveness ==
  /\ phase = "deleting" ~> phase = "absent"
  /\ phase = "adopted" ~> (owned = ResourcesOf(Order) \/ phase # "adopted")

LifecycleSpec == LifecycleSafety /\ LifecycleLiveness

==============================================================================
