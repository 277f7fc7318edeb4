# A TLA+ model of finops-operator-exporter

The operator turns an `ExporterScraperConfig` into a Deployment (a Prometheus exporter), a
ConfigMap (its configuration), a Service, a `ScraperConfig` and a Secret with the exporter's
endpoint, and keeps them as the configuration asks. The model is about what is hard in that: a
reconcile is up to a dozen calls to the API server, made from a copy of the configuration that
may be stale, while users edit and delete, other clients change the objects, the garbage
collector removes orphans, and any call can fail, lose its answer, or be the last one before a
crash; and beside the reconciler four informers write the same objects.

Paths below are relative to the repository; line numbers are of the modelled commit.

## The system

| Part | State | Operations | What makes it correct |
|---|---|---|---|
| Reconciler (`internal/controller`) | the worker's copy of the configuration; four references in its status | `Observe`, `checkExporterStatus`, `Create`, `Update`, `Delete`, called by provider-runtime | converges from whatever a crash or a failure leaves; writes only for a configuration that exists; never deletes a live one's objects; comes to rest; deletion completes |
| Generators (`internal/utils`) | none | one function per object; `createEndpointRef` also writes the Secret | what is generated is what the comparators accept; Secret before ScraperConfig; owner references |
| Comparators (`internal/helpers/kube/comparators`) | none | `CheckDeployment`, `CheckConfigMap`, `CheckService`, `CheckScraper` | neither stricter nor laxer than the generators |
| Client helpers (`internal/helpers/kube/client`, `.../secrets`) | none | get, create, update (get and put), status update, delete; create-or-update of the Secret | updates of a stale version are refused |
| Informers (`internal/informers`) | a watch and an event queue for each of four kinds | delete handler: create again; update handler: compare and overwrite | restore what was lost, leave alone what was deleted on purpose, agree with the reconciler |
| Startup (`cmd/main.go`) | flags and environment | parses settings, starts the informers and the manager | settings parsed to usable values; one active writer |
| API types (`api/v1`) | the configuration | deepcopy, registration | |

Interactions. The reconciler and the informers are independent writers; they meet only in the
API server. provider-runtime (a library) calls the reconciler: it reads the configuration from
the manager's cache, calls `Observe`, and by its verdict adds the finalizer and calls `Create`,
calls `Update` or `Delete`, or removes the finalizer. `Create` records each object in the status
and reads the configuration back each time, so that it can continue with a newer spec than it
began with. `Observe` finds objects through the status; `Delete` and the informers go by name.
Nothing is kept in memory between reconciles: a crash loses only the position in a call sequence.

Hard behaviours, each listed with its line under `hazards` in `PROJECT.json`: sequences of
calls that stop anywhere (`Update` between ConfigMap and Deployment, `Create` between Service
and Secret, `Delete` at a missing object); failed reads taken for missing objects; stale copies;
edits, deletions and re-creations in the middle of a reconcile; leftovers of an earlier
incarnation; comparators and generators that disagree; the informers' races with all of this.

## Modules

| Module | Models | |
|---|---|---|
| `Resources` | `api/v1`, `internal/utils`, comparators | the objects; generators and comparators as operators |
| `Cluster` | client and secret helpers, API server, users, garbage collector, kubelet | shared state, the effects of the calls, the environment's actions |
| `Controller` | the reconciler, provider-runtime as far as the code depends on it | one action per call; properties; fairness |
| `Informer` | `internal/informers`, client-go as far as the code depends on it | four handlers, one action per call; event queues, interrupted watches |
| `Operator` | what `cmd/main.go` puts into one process | `Controller` and `Informer` over one `Cluster`; panic and restart |
| `Lifecycle` | what the operator promises of one configuration | abstract specification, for a reconciler alone and (`SharedSafety`) beside somebody who builds resources at any time |
| `ControllerRefinement` | | the refinement mapping from `Controller` to `Lifecycle` |
| `Names` | `strings.Replace` in the handlers, the generators' names | several configurations and the way back from a name |
| `Replicas` | `cmd/main.go` | the steps of main, the lease |
| `OperatorRefinement` | | the same mapping for `Operator`, to `Lifecycle` shared with another builder |
| `ControllerInvariant`, `OperatorInvariant` | | the inductive invariants of the reconciler and of the whole operator |
| `ResourcesProofs`, `ControllerProofs`, `RefinementProofs`, `OperatorProofs`, `OperatorObjectProofs`, `OperatorRefinementProofs`, `NamesProofs`, `ReplicasProofs` | | theorems and their TLAPS proofs |
| `MCController`, `MCOperator`, `MCNames` | | values of the constants for TLC |

`Operator` EXTENDS `Controller` and `Informer`, which both EXTEND `Cluster`, which EXTENDS
`Resources`. `Names` and `Replicas` stand alone: the first is about many configurations and no
reconciler, the second about many processes and no objects.

### State

`Cluster`: `cr` is the configuration on the server (identity `uid`, generation `gen`, `spec`,
`finalizer`, the deletion mark `deleting`, and `refs`, the kinds whose reference is in the
status); `child[k]` the object of each kind; `secret` the endpoint Secret; `pods` the ConfigMap
contents the exporter's pods started with. An object is its owner's UID, a body, and, for a
Service, the address the server allocated. A body says which spec it was generated from, or
`Drifted` when another client changed it so that its comparator notices.

A spec has an exporter section, of which the metric type and the generic part are kept apart
because the ScraperConfig is made of them too (`utils.go:216-217`); a scraper section, with an
`api` of the user's own or the exporter's; and `long`, for a line that yaml.v2 folds.
`ScraperSpec(spec)` is what the generator makes of it. `CheckScraper` compares all of that but the
generic part (`comparators.go:218-249`).

`Controller`: `cached` is the manager's cache, `queued` the work queue (one name, so one bit),
`pc` and `at` the call that is next, `mg` the worker's copy, `ip` the Service's address it read.
The queue never hands a name to two workers, whatever `MAX_RECONCILE_RATE` is, so there is one.

`Informer`: `events[k]` are the events of kind `k` that its handler has still to take, `task[k]`
what the handler is doing: the call that is next, whether it creates or updates, the copy of the
configuration and the Service's address it read. `Watched` says which kinds have an informer;
`main.go` starts all four, and runs that would be too large for TLC have fewer.

`Names`: `there` are the objects in the namespace, `spoilt` those another client changed, and
`events` what the handlers have to take. A name is a sequence of pieces, a suffix being one.

`Replicas`: `at[r]` is the step of main that replica `r` takes next and `up[r]` those that
succeeded; `leads[r]` whether its process was elected, `holder` in whose name the lease is held.

### Actions

| Action | Code |
|---|---|
| `StartReconcile`, `AddFinalizer`, `RemoveFinalizer`, `SyncCache` | provider-runtime and controller-runtime, from the interface the code implements |
| `Observe` (x4) | `Observe`, the GETs through the status; missing, failed and unrecorded have one verdict (`:138-199`) |
| `checkExporterStatus` (x4) | the GETs again and the comparators (`:519-593`) |
| `CreateChild`, `RecordStatus`, `Refetch` (x4, x4, x3) | `createExporterFromScratch` (`:352-517`), whose four sections are alike |
| `GetService`, `CreateEndpointRef` | the address and the Secret, in `Create` (`:469-491`) and in `Update` (`:272-292`) |
| `UpdateChild` (x4) | `Update` (`:294-312`) |
| `DeleteChild` (x4) | `Delete` (`:328-346`) |
| `Crash` | the process stops at any call; cache and queue are filled afresh |
| `Receive` (x4) | `DeleteFunc` and `UpdateFunc` up to the read of the configuration and the verdict (`informer_factory.go:64-170`) |
| `ReadService`, `WriteEndpoint`, `Restore` | `createRestoreObject` (`:202-270`) |
| `Relist`, `Watch` | client-go's watch; a list in place of lost events, with a tombstone for an object that went away unseen |
| `Panic` | `DeleteFunc` on a tombstone (`:65`): the process, reconciler included, starts again |
| `HandleDeleted`, `HandleUpdated` | the handlers again, in `Names`, for many configurations and as one step |
| `Advance`, `FailStep`, `End` | the steps of main, its `os.Exit(1)`, and what ends a running process |
| `Acquire`, `Expire` | controller-runtime's lease, which main does not release (`main.go:161-171`) |

A call that writes has three outcomes (`Call`): answered; applied but the answer lost; refused. A
read is answered or fails. Failures and crashes together are bounded by `MaxFaults`.

What is left out, and why that is safe: `UpdateObj`'s GET and PUT are one step, since a PUT of a
stale version is refused and that is a failed call; likewise `CreateOrUpdate`'s two calls.
Resource versions are not counted, because each modelled write to a configuration changes it for
good; the conditions the runtime stores are not modelled, and a conflict they cause is again a
failed call. A completed `Create` requeues, as the runtime does. Container details, names,
labels and ports are the same for every incarnation of a configuration and only enter as
"exactly as generated" or not.

In `Informer`, events of one kind come in order, as an informer's handler is called with them one
after the other; there is no resync (`informer_factory.go:60`), and what is listed at the start is
no event, as no handler for new objects is registered. A write that leaves an object as it was
raises no event, with two exceptions for what the model does not show: `Update`'s new annotation of
the Deployment (`Annotate`) and the status other controllers write (`WriteStatus`, bounded with the
changes by others) are events with the object as it is. Handlers that fail are done with the
event, whatever failed. `Update` always rolls the pods out (the annotation); any other write of an
existing Deployment may or may not, as it may leave the pod template as it was.

Other clients change and delete the four children. Nobody but the operator writes the endpoint
Secret, and only the garbage collector deletes it: `EndpointBeforeScraper` assumes that.

One assumption about the exporter, which is another repository: its pods read the ConfigMap when
they start. The code makes it too, as `Update` writes a `restartedAt` annotation "to trigger a
rollout" (`exporterscraperconfig_controller.go:256`).

## What is checked

"Uid/Gen/Drift/Fault" are the bounds: incarnations, generations of each, changes and deletions by
other clients, failures (calls, crashes, interrupted watches). Deadlock is not checked: once the
bounds of the environment are used up and the last configuration is deleted, nothing remains to
be done.

The reconciler alone (`MCController`):

| Run | Uid/Gen/Drift/Fault | Property | Result |
|---|---|---|---|
| `Incarnations` | 2/1/0/1 | `TypeOK`, `IInv`, `LifecycleInv`, `WorkerHoldsConfig`, `NeverDeletesLive`, `DeletesNoneAdopted`, `KeepsLifecycle`, `CompletesLifecycle`, `OrphansCollected` | hold |
| `Convergence` | 1/2/1/1 | `Converges`, `DeletionCompletes`, `ComesToRest`, `StaysAtRest` | hold |
| `NoPolls` (poll interval 0) | 1/2/0/2 | `Converges`, `DeletionCompletes` | hold |
| `CustomApi` | 1/1/0/0 | `ComesToRest` | violated |

The reconciler and the informers (`MCOperator`):

| Run | Informers | Uid/Gen/Drift/Fault | Property | Result |
|---|---|---|---|---|
| `Informers` (three kinds of spec) | ScraperConfig | 1/2/1/1 | `OperatorTypeOK`, `EndpointBeforeScraper`, `WellFormed`, `StatusRefsKept` | hold |
| `Restores` (poll interval 0) | all | 1/1/1/0 | `Converges`, `DeletionCompletes` | hold |
| `InformerEdits` | all | 1/2/0/1 | `AcceptedIsGenerated`, `Converges`, `WritersComeToRest`, `OperatorStaysAtRest` | hold |
| `InformerOrphans` | ScraperConfig | 2/1/0/0 | `CopiesInv`, `WorkerHoldsConfig`, `ObjectsInv`, `OrphansCollected`, `KeepsSharedLifecycle` | hold |
| `RestoredService` (two addresses) | all | 1/1/1/0 | `EndpointCurrent` | violated |
| `QuickEdits` | all | 1/3/0/0 | `ConfigLoaded` | violated |

Names and replicas (`MCNames`, `Replicas`):

| Run | Instance | Property | Result |
|---|---|---|---|
| `RestoredNames` | five names without an inner suffix, two objects of others, two deletions or changes | `NothingForgotten`, `EveryObjectRestored` | hold |
| `Election` | three replicas, two processes that end | `OneReconciler`, `WatchesWhatItWrites`, `SomebodyReconciles` | hold |

The passing runs have 2 thousand to 2.3 million distinct states. The bounds are small because the
actors are few: one configuration name, one worker, four objects, four handlers. Two incarnations
are what it takes for a stale copy to name a configuration that is gone; two generations for a
`Create` or `Update` to mix specs (in `NoPolls` and `InformerEdits` an edit changes the whole
exporter section or its generic part alone, so that it changes the ScraperConfig with or without its
comparator noticing), and three for an informer to be one edit ahead of an `Update` of an adopted
configuration; one failure can stop any sequence at any call, and a second one (`NoPolls`) can stop
its repair. Two incarnations with all four informers are too many states; the handlers do the same
but for the Service and the Secret, so `InformerOrphans` and `Informers` have the one of the
ScraperConfig, whose handler makes all the calls. In `InformerOrphans` a handler restores an object
for a configuration that is gone by then; that the next incarnation is applied as well before the
handler writes needs a change by another client too, which is beyond TLC, so for that case the
theorems, which have no bounds, have to do. In `Names`, two harms let one be an answer to the
other's repair, and names of three pieces have a suffix at the end, in the middle, twice, or not at
all. The proofs remove the bounds for the safety and the action properties.

Every property has a mutant, a plausible bug in the code under which its run fails; the mutants
stand next to the definitions they change.

**Three things do not converge.** `EndpointCurrent` (the Secret ends up with the Service's address)
and `ConfigLoaded` (the pods end up with the configuration written last) are violated by the
operator without any failure, because a handler puts one object right and thereby hides from the
reconciler that the rest of the work is still to be done. `GenericCurrent` (the ScraperConfig ends
up with the generic part of the spec) is violated when one call fails, because the generic part
is not compared. `Converges` and `AcceptedIsGenerated` therefore ask for the objects as they would
be generated *but for that part* (`ContentsAsGenerated`); an API of the user's own, which is
not compared with the spec either, is kept out of the runs of `Converges` and is an exception in
`AcceptedIsGenerated`.

**What the informers change.** `Converges`, `DeletionCompletes`, `OrphansCollected`,
`WorkerHoldsConfig` and `StatusRefsKept` hold of the whole operator too, and the two writers come to
rest (`WritersComeToRest`: the end of writing and of events) and stay there (`OperatorStaysAtRest`).
`NeverDeletesLive` is a result about the reconciler alone: a handler may restore an object for a new
incarnation before the reconciler has seen it, and a Delete that works from a stale copy removes it.
What holds of both writers is `DeletesNoneAdopted`: that incarnation has not been adopted, so that
its `Create` is still to come. `Incarnations` checks it where `Delete` does run with such a copy,
which takes a failure; for the operator it is a theorem. A handler that still holds the earlier
incarnation's configuration creates objects under the names the later one uses; their owner is gone,
and they are collected and made again, which is what `InformerOrphans` and `Converges` say.
`EndpointBeforeScraper` needs that no handler has been overtaken by a new incarnation
(`NoneOvertaken`): such a handler overwrites the Secret of the new one with its own, while the new
one's ScraperConfig is already there. For the same reason `Lifecycle` as it stands is implemented by
`Controller` and not by `Operator`: an informer builds while the reconciler is not engaged, and for
a configuration that was not adopted. `SharedSafety` adds just that, and `Operator` implements it
(`KeepsSharedLifecycle`): a new incarnation still begins with nothing, is released only when it is
being deleted and nobody works for it, and its status names the resources in order.

**At rest.** `AtRest` is the state the operator works towards: all four objects as the
configuration asks, their references in the status, cache and worker up to date. `StaysAtRest` and
`OperatorStaysAtRest` say that no step of the operator leaves it; only a user, another client or a
failure does. They hold because the comparators accept what the generators make (lemma
`GeneratedIsAccepted`), with two exceptions that `AtRest` leaves out: a scraper with an API of its
own, and a spec with a line that yaml.v2 folds and yaml.v3 does not.

**Fairness.** The worker is weakly fair, since the work queue hands out a queued name and a
reconcile makes its calls one after the other, and so are the watch that fills the cache, the
garbage collector and the kubelet, all of which retry for ever. Each handler is weakly fair: its
events are delivered by a goroutine of its own, and it makes its calls one after the other; a panic
ends the process, which Kubernetes starts again. `OrphansCollected` needs no more than the garbage
collector (`OperatorCollectedSpec`). In `Replicas`, main goes on (it does not block before
`mgr.Start`), and a free lease is taken and one that is not renewed expires. Users, other clients
and failures have no fairness: they are bounded and may stop at any time, which is what "once they
stop" means in the liveness properties. With a poll interval a finished reconcile queues the next;
with interval 0 (`cmd/main.go:135`) only events and errors do.

### Findings

Each is a violation run, and is quoted with its lines in `PROJECT.json`.

1. *Quick edits* (`QuickEdits`, `informer_factory.go:264`). The informer answers `Update`'s write of
   one edit with the contents of the next one; the reconciler then finds nothing to do, and the
   rollout of the second edit never happens.
2. *Restored Service* (`RestoredService`, `informer_factory.go:262`). The informer re-creates a
   deleted Service with another address and leaves the Secret alone; the next `Observe` accepts
   everything.
3. *A scraper with its own API* (`CustomApi`, `comparators.go:231`). The generator copies the user's
   API, the comparator demands the exporter's: `Update`, and with it a rollout, for ever.

Other constants of the same modules show more of the same kind:

| Behaviour | Line | How to see it |
|---|---|---|
| A failure after `Update` wrote the ConfigMap and before it wrote the Deployment: the rollout is lost, without any informer | `exporterscraperconfig_controller.go:299` | `ConfigLoaded` in `NoPolls` |
| A failure after `Create` re-created the Service and before it wrote the Secret: the address stays the old one | `utils.go:179` | `EndpointCurrent` in `Convergence`, with `OneSpec` and two addresses |
| Only the exporter configured: the generator returns nil, converting it is an error, `Create` is repeated for ever | `utils.go:174` | `CustomApi` with `NoScraperSpecs` |
| A handler whose write fails forgets the event; nothing looks at the object again, as nothing is polled unless `POLLING_INTERVAL` is set (the README's default is 300, that of `main.go:135` is 0) | `informer_factory.go:89` | `Restores` with one failure |
| An edit of `exporterConfig.generic`, which the generator copies into the ScraperConfig (`utils.go:217`) and by whose `metricName` the scraper selects (`README.md:66`), is not compared: it is lost when `Update` fails after the ConfigMap and before the ScraperConfig | `comparators.go:218` | `GenericCurrent` in `NoPolls` |
| `CheckScraper` accepts the exporter's API whatever API the spec asks for: an edit from the exporter's API to one of the user's own is lost in the same way | `comparators.go:231` | `Converges` in `NoPolls`, with `ApiSpecs` |
| A line of the spec that yaml.v2 2.4.0 folds and yaml.v3 does not: the ConfigMap as generated is refused, and `Update` runs for ever | `comparators.go:85` | `ComesToRest` in `CustomApi`, with `LongSpecs` |
| The first occurrence of the suffix is removed, not the one at the end: `azure-service-costs-service` is taken for a Service of `azure-costs-service` and is not restored; theorem `NameRecovered` says for which names | `informer_factory.go:78` | `RestoredNames` with `SuffixInside` |
| The informers start before the election, so every replica writes, whatever `--leader-elect` says of one active manager | `main.go:198` | the order of `Steps` in `Replicas` |

One comment disagrees with the code without a consequence in the model, which has one image:
"Container image and secret name are not checked on purpose" (`comparators.go:209`), while
`CheckDeployment` does compare the image (`comparators.go:171`).

## What is proved

For all specs, addresses, incarnations, edits, changes and failures, all sets of informers, all
names and all numbers of replicas:

| Theorem | Statement |
|---|---|
| *`ControllerProofs`* | |
| `TypeCorrect` | `Spec => []TypeOK` |
| `Invariant` | `Spec => []IInv` |
| `HoldsConfig` | `Spec => []WorkerHoldsConfig` |
| `DeletesOnlyDeleted` | `Spec => []NeverDeletesLive` |
| `EndpointFirst` | `Spec => []EndpointBeforeScraper` |
| `RefsAreKept` | `Spec => StatusRefsKept` |
| `RestIsKept` | `Spec => StaysAtRest` |
| *`RefinementProofs`* | |
| `InOrder` | `Spec => []LifecycleInv` |
| `Refines` | `Spec => KeepsLifecycle` |
| *`OperatorProofs`* | |
| `OperatorInvariant` | `OperatorSpec => []OperatorInv` |
| `OperatorTypeCorrect` | `OperatorSpec => []OperatorTypeOK` |
| `OperatorCopies` | `OperatorSpec => []CopiesInv` |
| `OperatorHoldsConfig` | `OperatorSpec => []WorkerHoldsConfig` |
| `OperatorDeletesNoneAdopted` | `OperatorSpec => []DeletesNoneAdopted` |
| `OperatorRefsAreKept` | `OperatorSpec => StatusRefsKept` |
| `OperatorRestIsKept` | `OperatorSpec => OperatorStaysAtRest` |
| *`OperatorObjectProofs`* | |
| `OperatorObjects` | `OperatorSpec => []ObjectsInv` |
| `OperatorWellFormed` | `OperatorSpec => []WellFormed` |
| `OperatorAccepts` | `OperatorSpec => []AcceptedIsGenerated` |
| `OperatorEndpointFirst` | `OperatorSpec /\ []NoneOvertaken => []EndpointBeforeScraper` |
| `FirstEndpointFirst` | `OperatorSpec => [](lastUid <= 1 => EndpointBeforeScraper)` |
| *`OperatorRefinementProofs`* | |
| `OperatorRefines` | `OperatorSpec => KeepsSharedLifecycle` |
| *`NamesProofs`* | |
| `NameRecovered` | `ConfigName(ObjectName(config, k), k) = config <=> ~Ambiguous(config, k)` |
| `NoneForgotten` | no ambiguous name: `NamesSpec => []NothingForgotten` |
| *`ReplicasProofs`* | |
| `OnlyOneReconciler` | `ReplicasSpec => []OneReconciler` |
| `ReconcilersWatch` | `ReplicasSpec => []WatchesWhatItWrites` |

The assumptions are those in the modules: the bounds are natural numbers (as large as one likes),
specs are the records `Resources` says (`SpecsAssumption`) and none of their parts is what another
client's change looks like (`DriftedAssumption`), `NoConfig` and `Absent` are not values of the
types they complement, the poll interval is an integer, `Watched` is a set of kinds, suffixes are
no letters, and `Nobody` is no replica.

The argument. None of the properties is inductive, because each depends on how far the three
copies of the configuration, the server's, the cache's and the worker's, can differ. `IInv` says
how:

* `UidsGrow`: worker <= cache <= server, and objects belong to incarnations already applied;
* `UnseenOwnsNothing`: an incarnation that neither the cache nor the worker has seen owns no
  object, for only a worker with a copy of it creates any. `NeverDeletesLive` rests on this;
* `MarkStays`: the deletion mark never goes away in later copies;
* `FinalizerHolds`: a copy with the finalizer and without the mark is of an incarnation that is
  still there, for only a worker with a marked copy removes the finalizer. `WorkerHoldsConfig`
  rests on this;
* `RefsNeedFinalizer`: references are recorded only under the finalizer, so that whoever gets
  past `Observe` has it;
* `AdoptedIsSeen`: an incarnation that was adopted has been seen by the cache and by the worker, for
  it is the worker who adopts. `DeletesNoneAdopted` rests on this;
* `EndpointReady`: wherever a ScraperConfig is about to be written, there is one to write and the
  Secret is there.
  `EndpointBeforeScraper` rests on this and on `UidsGrow`.

The proof first shows types (`TypeStep`), then summarises each action by what it does to the
configuration, the objects, the Secret and the worker (`ConfigSteps`, `ChildSteps`,
`SecretSteps`, `CtlSteps`), and derives each part of `IInv` from those summaries. The run
`Incarnations` checks `IInv` itself.

*The refinement.* The mapping keeps of the configuration whether it is there, adopted or being
deleted; the reconciler is engaged while it is in `Create` or `Update`; a resource is owned when
its owner is the incarnation there is now, and recorded when the status names it. Two facts
beside `IInv` are needed: that where `Create` is, all earlier references are in the worker's copy
and in the status (`RecordedInOrder`), and that a configuration without the finalizer owns nothing
(`UnadoptedOwnsNothing`). `Refines` maps each action to its abstract step or to a stutter; that
the liveness of `Lifecycle` is implemented is checked by the run `Incarnations`.

*The operator.* `CopiesInv` is the part of `IInv` that does not speak of the objects. The informers
write only objects, so that each of their steps leaves the copies alone, and `CopiesInv` with the
handlers' types is inductive for `OperatorSpec`; the proof reuses the summaries and the step
lemma of `ControllerProofs`.

*The objects of both writers.* A handler's copy of the configuration is bound to nothing: when the
handler writes, the configuration may be gone or another incarnation. What remains true of any
copy is that it is of an incarnation that was applied, and that whoever is about to write a
ScraperConfig has a scraper section to write (`ScraperGiven`: the generator's nil is an error
before the write). `ObjectsInv` puts this together with what the objects are made of; a step
summary per writer (`WrittenFor`) says that an object is the generator's for the copy it was
written from. `WellFormed` follows, and with lemma `AcceptedContents` of `ResourcesProofs` so does
`AcceptedIsGenerated`: of all that can be in the cluster the comparators accept only what would
be generated now, but for a ScraperConfig's owner, generic part and own API.

*The Secret of both writers.* `EndpointReady` for the worker has a counterpart for the handler of
the ScraperConfig (`HandlerReady`: between its two writes the Secret is there). Neither is kept by a
handler that was overtaken, hence the premise `NoneOvertaken` of `OperatorEndpointFirst`; in the
first incarnation there is nobody to be overtaken by (`FirstEndpointFirst`). The Secret itself
never goes away under a configuration that is there, as the garbage collector takes it only with
its owner.

*Rest.* At rest a reconcile cannot leave `Observe` and `checkExporterStatus`: every reference leads
to an object, and every object is accepted (lemma `GeneratedIsAccepted`). The only other step is the
one that starts the next reconcile. With the informers one shows besides that no event appears,
which is `QuietWatch`: nothing that is watched changes.

*The shared refinement.* The steps of the reconciler map as before, which the lemmas of
`RefinementProofs` say from `CopiesInv` alone, so that they can be used for `OperatorSpec`. A
handler's write is a `Rebuild` when its copy is of the incarnation there is, and otherwise a
`Remove` or a stutter, as it may overwrite what belonged to the live configuration. A
configuration deleted before it was adopted takes with it what handlers built for it (`Abandon`).

*Names.* `RemoveFirst` removes at the first occurrence of the suffix; what is left is the
configuration's name exactly if only suffixes follow that occurrence. The existence of a first
occurrence is the well-foundedness of the naturals. `NothingForgotten` is inductive once every
object leads back to its configuration.

*Replicas.* A process that was elected holds the lease, and what main has done is what comes
before its next step (`ReplicasInv`).

Only model-checked: the liveness properties (that of `Lifecycle` included), which are out of the
prover's reach. Every invariant and every action property of a passing run is a theorem.

## Not modelled

* In `main.go`, the servers' flags and TLS, `WATCH_NAMESPACE`, and `MAX_RECONCILE_RATE`: what a rate
  of 0 or less does is decided by the rate limiter, which is not in the repository.
* Several configurations with a reconciler: they share nothing but the queue, except through names
  (`Names`).
* Several replicas with objects: what the informers of another replica write, they write from the
  same events and the same configuration; the second creation of an object is refused.
* The two calls of `CreateOrUpdate` apart (`secrets.go:44`), and a Secret of the same name that
  belongs to somebody else; `Get` and `Delete` of that package, which nothing calls.
* A ScraperConfig without an `endpointRef` (`comparators.go:237`), on which the comparator panics:
  nothing in the repository writes one.
* Time: polls, retries and rollouts happen eventually. The one-second resolution of
  `restartedAt` is listed as a hazard only.
* The layout of the two YAML libraries (`utils.go:9`, `comparators.go:10`): the comparator drops
  blanks, and beyond that they are taken to differ only where one of them folds a line (`long`).
* Whether the watch of an informer has synced: in `Replicas` an informer runs once `StartInformer`
  has returned.
* Generated code, manifests, scripts.

## What could follow

* The operator with the findings repaired, which would turn `RestoredService`, `QuickEdits` and
  `CustomApi` into passing runs, and `AtRest`, `Converges` and `AcceptedIsGenerated` into
  statements about every part of every spec.
* Handlers that check the configuration's UID before they write, which is what
  `EndpointBeforeScraper` would need across incarnations.
