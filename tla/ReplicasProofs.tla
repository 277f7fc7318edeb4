---------------------------- MODULE ReplicasProofs ----------------------------
(***************************************************************************)
(* For every set of replicas and any number of processes that end.         *)
(***************************************************************************)
EXTENDS Replicas, TLAPS

ReplicasTypes ==
  /\ at \in [Replicas -> 1..(Len(Steps) + 1)]
  /\ up \in [Replicas -> SUBSET StepNames]
  /\ leads \in [Replicas -> BOOLEAN]

ReplicasIInv == ReplicasTypes /\ ReplicasInv

\* The steps of main, and where they are in the sequence.
LEMMA StepsFact ==
  /\ Len(Steps) = 11 /\ DOMAIN Steps = 1..11
  /\ Informers = {Steps[i] : i \in 4..7}
  /\ StepNames = {Steps[i] : i \in 1..11}
  /\ \A i \in 1..11 : Steps[i] = "start" => i = 11
<1> QED
  BY DEF Steps, Informers, StepNames

\* Nothing is done and nobody was elected at first.
LEMMA ReplicasStart == ReplicasInit => ReplicasIInv
<1> QED
  BY StepsFact DEF ReplicasInit, ReplicasIInv, ReplicasInv, ReplicasTypes

\* A new process has done nothing and was not elected.
LEMMA Again ==
  ASSUME ReplicasIInv, NEW r \in Replicas, StartAgain(r)
  PROVE  ReplicasIInv'
<1> USE DEF ReplicasIInv, ReplicasInv, ReplicasTypes, StartAgain
<1>1. ReplicasTypes'
  BY StepsFact
<1>2. \A s \in Replicas : leads'[s] => holder' = s
  OBVIOUS
<1>3. ASSUME NEW s \in Replicas PROVE up'[s] = {Steps[i] : i \in 1..(at'[s] - 1)}
  <2>1. CASE s = r
    <3>1. at'[s] = 1 /\ up'[s] = {}
      BY <2>1
    <3>2. 1..(at'[s] - 1) = {}
      BY <3>1
    <3> QED
      BY <3>1, <3>2
  <2>2. CASE s # r
    <3>1. at'[s] = at[s] /\ up'[s] = up[s]
      BY <2>2
    <3> QED
      BY <3>1
  <2> QED
    BY <2>1, <2>2
<1> QED
  BY <1>1, <1>2, <1>3

\* Every step of the replicas preserves the invariant.
LEMMA ReplicasStep ==
  ASSUME ReplicasIInv, [ReplicasNext]_repVars
  PROVE  ReplicasIInv'
<1> USE DEF ReplicasIInv
<1>1. ASSUME NEW r \in Replicas, Advance(r) PROVE ReplicasIInv'
  <2> USE DEF Advance
  <2>1. ReplicasTypes'
    BY <1>1, StepsFact DEF ReplicasTypes, StepNames
  <2>2. \A s \in Replicas : leads'[s] => holder' = s
    BY <1>1 DEF ReplicasInv
  <2>3. ASSUME NEW s \in Replicas PROVE up'[s] = {Steps[i] : i \in 1..(at'[s] - 1)}
    <3>1. CASE s = r
      <4>1. at[r] \in 1..11 /\ at'[s] = at[r] + 1 /\ up'[s] = up[r] \cup {Steps[at[r]]}
        BY <1>1, <3>1, StepsFact DEF ReplicasTypes
      <4>2. up[r] = {Steps[i] : i \in 1..(at[r] - 1)}
        BY DEF ReplicasInv
      <4>3. 1..(at'[s] - 1) = 1..(at[r] - 1) \cup {at[r]}
        BY <4>1
      <4> QED
        BY <4>1, <4>2, <4>3
    <3>2. CASE s # r
      <4>1. at'[s] = at[s] /\ up'[s] = up[s]
        BY <1>1, <3>2 DEF ReplicasTypes
      <4> QED
        BY <4>1 DEF ReplicasInv
    <3> QED
      BY <3>1, <3>2
  <2> QED
    BY <2>1, <2>2, <2>3 DEF ReplicasInv
<1>2. ASSUME NEW r \in Replicas, FailStep(r) PROVE ReplicasIInv'
  BY <1>2, Again DEF FailStep, ExitProcess
<1>3. ASSUME NEW r \in Replicas, End(r) PROVE ReplicasIInv'
  BY <1>3, Again DEF End
<1>4. ASSUME NEW r \in Replicas, Acquire(r) PROVE ReplicasIInv'
  BY <1>4, ReplicasAssumption DEF Acquire, ReplicasInv, ReplicasTypes
<1>5. CASE Expire
  BY <1>5, ReplicasAssumption DEF Expire, ReplicasInv, ReplicasTypes
<1>6. CASE UNCHANGED repVars
  BY <1>6 DEF repVars, ReplicasInv, ReplicasTypes
<1> QED
  BY <1>1, <1>2, <1>3, <1>4, <1>5, <1>6 DEF ReplicasNext

-----------------------------------------------------------------------------

\* With leader election there is one reconciler at a time, whatever number of
\* replicas runs and however often their processes end.
THEOREM OnlyOneReconciler == ReplicasSpec => []OneReconciler
<1>1. ReplicasIInv => OneReconciler
  BY DEF ReplicasIInv, ReplicasInv, OneReconciler, Reconciles
<1> QED
  BY <1>1, ReplicasStart, ReplicasStep, PTL DEF ReplicasSpec

\* A replica that reconciles runs all four informers.
THEOREM ReconcilersWatch == ReplicasSpec => []WatchesWhatItWrites
<1>1. ReplicasIInv => WatchesWhatItWrites
  <2> SUFFICES ASSUME ReplicasIInv, NEW r \in Replicas, "start" \in up[r]
               PROVE  Informers \subseteq up[r]
    BY DEF WatchesWhatItWrites, Reconciles
  <2>1. up[r] = {Steps[i] : i \in 1..(at[r] - 1)} /\ at[r] \in 1..12
    BY StepsFact DEF ReplicasIInv, ReplicasInv, ReplicasTypes
  <2>2. PICK i \in 1..(at[r] - 1) : Steps[i] = "start"
    BY <2>1
  <2>3. at[r] = 12
    BY <2>1, <2>2, StepsFact
  <2> QED
    BY <2>1, <2>3, StepsFact
<1> QED
  BY <1>1, ReplicasStart, ReplicasStep, PTL DEF ReplicasSpec

==============================================================================
