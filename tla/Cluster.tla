------------------------------- MODULE Cluster -------------------------------
(***************************************************************************)
(* The API server as the operator uses it, for one ExporterScraperConfig   *)
(* name: the configuration, its four children, the endpoint Secret, and    *)
(* what other clients do to them.  The operators of the first part are the *)
(* calls of client.go and secrets.go; the actions of the second part are   *)
(* users, the garbage collector and the kubelet.                           *)
(*                                                                         *)
(* Resource versions are not counted: every write to the configuration     *)
(* that changes a field modelled here changes its value for good (gen,     *)
(* deleting, finalizer and refs only advance), so a copy carries the live  *)
(* resource version exactly when it equals the live object.                *)
(***************************************************************************)
EXTENDS Resources

CONSTANTS
  NoConfig,   \* no configuration with this name
  Absent,     \* no object with this name
  Pending,    \* the exporter's pods are still to be (re)started
  MaxUid,     \* bound: incarnations of the configuration
  MaxGen,     \* bound: generations of one incarnation, one per spec edit
  MaxDrifts,  \* bound: changes other clients make to the children
  MaxFaults   \* bound: failed calls and crashes of the operator

VARIABLES
  cr,       \* the ExporterScraperConfig, or NoConfig
  lastUid,  \* the UID of the latest incarnation
  child,    \* child[k]: the child of kind k, or Absent
  secret,   \* the endpoint Secret, or Absent
  pods,     \* the ConfigMap body the exporter's pods started with, or Pending
  drifts,   \* changes made by other clients so far
  faults    \* failures so far

objects == <<cr, child, secret, pods>>
clusterVars == <<cr, lastUid, child, secret, pods, drifts, faults>>

ASSUME BoundsAssumption == {MaxUid, MaxGen, MaxDrifts, MaxFaults} \subseteq Nat
ASSUME NullsAssumption ==
  /\ NoConfig \notin Configs
  /\ Absent \notin Objects \cup Secrets

ClusterTypeOK ==
  /\ cr \in Configs \cup {NoConfig}
  /\ lastUid \in Nat
  /\ child \in [Kinds -> Objects \cup {Absent}]
  /\ secret \in Secrets \cup {Absent}
  /\ pods \in Bodies \cup {Pending}
  /\ drifts \in Nat
  /\ faults \in Nat

ClusterInit ==
  /\ cr = NoConfig
  /\ lastUid = 0
  /\ child = [k \in Kinds |-> Absent]
  /\ secret = Absent
  /\ pods = Pending
  /\ drifts = 0
  /\ faults = 0

-----------------------------------------------------------------------------
\* What the calls of client.go and secrets.go do when the server accepts them.

\* A Deployment that appears, disappears or gets another template restarts pods.
Restart(k) == pods' = IF k = "Deployment" THEN Pending ELSE pods

CreateObj(k, obj) ==
  /\ child[k] = Absent
  /\ \E addr \in (IF k = "Service" THEN IPs ELSE {NoIP}) :
        child' = [child EXCEPT ![k] = [obj EXCEPT !.ip = addr]]
  /\ Restart(k)
  /\ UNCHANGED <<cr, secret>>

\* The GET for the resource version and the PUT are one step: the PUT is
\* accepted only if nothing was written in between, and a rejected one is a
\* failed call.  The server keeps the address it allocated.  What is written may
\* or may not change a Deployment's template.
UpdateObj(k, obj) ==
  /\ child[k] # Absent
  /\ child' = [child EXCEPT ![k] = [obj EXCEPT !.ip = child[k].ip]]
  /\ Restart(k) \/ UNCHANGED pods
  /\ UNCHANGED <<cr, secret>>

DeleteObj(k) ==
  /\ child[k] # Absent
  /\ child' = [child EXCEPT ![k] = Absent]
  /\ Restart(k)
  /\ UNCHANGED <<cr, secret>>

\* Mutant: the status is written without the resource version of the copy.
UnconditionalStatus(config) == cr # NoConfig

\* The copy sent to the server carries the live resource version.
IsCurrent(config) == cr = config

\* The status subresource: nothing but the status is written.
UpdateStatus(refs) ==
  /\ cr' = [cr EXCEPT !.refs = refs]
  /\ UNCHANGED <<child, secret, pods>>

CreateOrUpdate(s) ==
  /\ secret' = s
  /\ UNCHANGED <<cr, child, pods>>

\* One more failure, within the bound.
Fault ==
  /\ faults < MaxFaults
  /\ faults' = faults + 1

-----------------------------------------------------------------------------
\* The users of the cluster, its garbage collector and its kubelets.

Apply ==
  /\ cr = NoConfig
  /\ lastUid < MaxUid
  /\ lastUid' = lastUid + 1
  /\ \E s \in Specs :
        cr' = [uid |-> lastUid + 1, gen |-> 1, spec |-> s, finalizer |-> FALSE,
               deleting |-> FALSE, refs |-> {}]
  /\ UNCHANGED <<child, secret, pods, drifts, faults>>

EditSpec ==
  /\ cr # NoConfig
  /\ cr.gen < MaxGen
  /\ \E s \in Specs \ {cr.spec} :
        cr' = [cr EXCEPT !.spec = s, !.gen = cr.gen + 1]
  /\ UNCHANGED <<lastUid, child, secret, pods, drifts, faults>>

\* Deleting a configuration that has a finalizer only marks it.
DeleteConfig ==
  /\ cr # NoConfig
  /\ ~cr.deleting
  /\ cr' = IF cr.finalizer THEN [cr EXCEPT !.deleting = TRUE] ELSE NoConfig
  /\ UNCHANGED <<lastUid, child, secret, pods, drifts, faults>>

Drift ==
  /\ drifts < MaxDrifts
  /\ drifts' = drifts + 1
  /\ \E k \in Kinds :
        \/ DeleteObj(k)
        \/ UpdateObj(k, [child[k] EXCEPT !.body = Drifted])
  /\ UNCHANGED <<lastUid, faults>>

\* The owners the garbage collector respects; 0 is no owner at all.
Owners == {0} \cup (IF cr = NoConfig THEN {} ELSE {cr.uid})

\* Its owner reference names a configuration that no longer exists.
Orphaned(obj) == obj # Absent /\ obj.owner \notin Owners

Collect ==
  /\ \/ \E k \in Kinds : Orphaned(child[k]) /\ DeleteObj(k)
     \/ Orphaned(secret) /\ secret' = Absent /\ UNCHANGED <<cr, child, pods>>
  /\ UNCHANGED <<lastUid, drifts, faults>>

\* Pods mount the ConfigMap: they start only once it exists.
StartPods ==
  /\ pods = Pending
  /\ child["Deployment"] # Absent
  /\ child["ConfigMap"] # Absent
  /\ pods' = child["ConfigMap"].body
  /\ UNCHANGED <<cr, lastUid, child, secret, drifts, faults>>

Users == Apply \/ EditSpec \/ DeleteConfig \/ Drift

==============================================================================
