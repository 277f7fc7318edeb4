-------------------------- MODULE OperatorRefinement --------------------------
(***************************************************************************)
(* The whole operator implements what Lifecycle promises when resources    *)
(* are also built behind the reconciler's back, under the refinement       *)
(* mapping of ControllerRefinement.                                        *)
(***************************************************************************)
EXTENDS OperatorInvariant, ControllerRefinement

\* Beside the informers too, a new incarnation begins with nothing, only one
\* being deleted is released and never while Create or Update runs for it, and
\* the status names the resources in order, although handlers build them for
\* configurations that are not adopted, or adopted but not yet seen.
KeepsSharedLifecycle == L!SharedSafety

==============================================================================
