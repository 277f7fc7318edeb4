------------------------------- MODULE Replicas -------------------------------
(***************************************************************************)
(* Several replicas of the operator, from the start of the process to the  *)
(* first reconcile (cmd/main.go).  Each runs the steps of main in order    *)
(* and ends when one of them fails; the four informers are among these     *)
(* steps, while the reconciler waits for the lease when leader election is *)
(* on.                                                                     *)
(*                                                                         *)
(* The lease is controller-runtime's, which is not in the repository: a    *)
(* leader whose process ended, or which could not renew in time and ended  *)
(* for it, holds the lease until it expires, because main.go does not set  *)
(* LeaderElectionReleaseOnCancel.  Kubernetes starts every process again.  *)
(***************************************************************************)
EXTENDS Integers, Sequences

CONSTANTS
  Replicas,        \* the pods of the Deployment
  LeaderElection,  \* the flag --leader-elect
  Nobody,          \* the lease is free
  MaxExits         \* bound: processes that end

ASSUME ReplicasAssumption ==
  /\ Nobody \notin Replicas
  /\ LeaderElection \in BOOLEAN
  /\ MaxExits \in Nat

VARIABLES
  at,     \* at[r]: the step of main that r takes next
  up,     \* up[r]: the steps that succeeded
  leads,  \* leads[r]: the process of r was elected
  holder, \* the pod in whose name the lease is held
  exits   \* processes that ended so far

repVars == <<at, up, leads, holder, exits>>

Informers == {"deployments", "configmaps", "services", "scraperconfigs"}

\* The order of main.
Steps == <<"settings", "manager", "client",
           "deployments", "configmaps", "services", "scraperconfigs",
           "controller", "healthz", "readyz", "start">>

StepNames == {Steps[i] : i \in DOMAIN Steps}

-----------------------------------------------------------------------------

ReplicasInit ==
  /\ at = [r \in Replicas |-> 1]
  /\ up = [r \in Replicas |-> {}]
  /\ leads = [r \in Replicas |-> FALSE]
  /\ holder = Nobody
  /\ exits = 0

\* The next step of main succeeds.
Advance(r) ==
  /\ at[r] \in DOMAIN Steps
  /\ at' = [at EXCEPT ![r] = @ + 1]
  /\ up' = [up EXCEPT ![r] = @ \cup {Steps[at[r]]}]
  /\ UNCHANGED <<leads, holder, exits>>

\* The process of r is replaced by a new one.
StartAgain(r) ==
  /\ at' = [at EXCEPT ![r] = 1]
  /\ up' = [up EXCEPT ![r] = {}]
  /\ leads' = [leads EXCEPT ![r] = FALSE]
  /\ UNCHANGED holder

\* Mutant: the error is logged and main goes on.
LogOnly(r) ==
  /\ at' = [at EXCEPT ![r] = @ + 1]
  /\ UNCHANGED <<up, leads, holder>>

\* os.Exit(1), or the panic of StartInformer.
ExitProcess(r) == StartAgain(r)

\* The next step of main fails.  Unreadable settings have defaults.
FailStep(r) ==
  /\ exits < MaxExits
  /\ exits' = exits + 1
  /\ at[r] \in DOMAIN Steps
  /\ Steps[at[r]] # "settings"
  /\ ExitProcess(r)

\* The process ends in the middle of its work: a signal, a crash, or a lease
\* that was not renewed, upon which mgr.Start returns an error.
End(r) ==
  /\ exits < MaxExits
  /\ exits' = exits + 1
  /\ at[r] > 1
  /\ StartAgain(r)

\* Mutant: the flag does not reach the manager.
IgnoreFlag(r) == "start" \in up[r] /\ "controller" \in up[r]

\* Workers run when the manager was started with a controller and, with the
\* flag, once it was elected.
Reconciles(r) ==
  /\ "start" \in up[r]
  /\ "controller" \in up[r]
  /\ LeaderElection => leads[r]

Acquire(r) ==
  /\ LeaderElection
  /\ "start" \in up[r]
  /\ holder = Nobody
  /\ holder' = r
  /\ leads' = [leads EXCEPT ![r] = TRUE]
  /\ UNCHANGED <<at, up, exits>>

\* Nobody renews the lease: the process that took it has ended.
Expire ==
  /\ \E r \in Replicas : holder = r /\ ~leads[r]
  /\ holder' = Nobody
  /\ UNCHANGED <<at, up, leads, exits>>

ReplicasNext ==
  \/ \E r \in Replicas : Advance(r) \/ FailStep(r) \/ End(r) \/ Acquire(r)
  \/ Expire

ReplicasSpec == ReplicasInit /\ [][ReplicasNext]_repVars

\* main does not block before mgr.Start, and the election goes on.
ReplicasFairSpec ==
  /\ ReplicasSpec
  /\ \A r \in Replicas : WF_repVars(Advance(r)) /\ WF_repVars(Acquire(r))
  /\ WF_repVars(Expire)

-----------------------------------------------------------------------------
\* Two workers of different replicas never reconcile at the same time, however
\* often leaders end and others are elected.
OneReconciler ==
  LeaderElection => \A r, s \in Replicas : Reconciles(r) /\ Reconciles(s) => r = s

\* Whoever reconciles also watches what it writes: no failure on the way to
\* mgr.Start leaves a replica that reconciles without one of its informers.
WatchesWhatItWrites == \A r \in Replicas : Reconciles(r) => Informers \subseteq up[r]

\* After the last failure some replica reconciles for good: no lease is left with
\* a process that is gone, and none is taken by one that has no controller.
SomebodyReconciles == <>[](\E r \in Replicas : Reconciles(r))

\* The inductive invariant: a process that was elected holds the lease, and what
\* main has done is what comes before the step it takes next.
ReplicasInv ==
  /\ \A r \in Replicas : leads[r] => holder = r
  /\ \A r \in Replicas : up[r] = {Steps[i] : i \in 1..(at[r] - 1)}

===============================================================================
