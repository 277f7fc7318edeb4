------------------------ MODULE OperatorObjectProofs -------------------------
(***************************************************************************)
(* What the objects in the cluster are, when the reconciler and the        *)
(* informers both write them.  A handler's copy of the configuration is    *)
(* bound to nothing, but it is a copy of some incarnation, and a handler   *)
(* writes what the generators make of it.                                  *)
(***************************************************************************)
EXTENDS OperatorInvariant, OperatorProofs

-----------------------------------------------------------------------------
\* What a step can do to the objects and to the handlers, whoever takes it.

\* The object of kind k is as it was, or with its body changed by another client.
Kept(k) ==
  /\ child[k] # Absent
  /\ child'[k].owner = child[k].owner
  /\ child'[k].body \in {child[k].body, Drifted}

\* It is what the generator makes of a copy of the configuration.
WrittenFor(k, config) ==
  /\ child'[k].owner = config.uid
  /\ child'[k].body = GenericObject(k, config).body

ByWorker(k) ==
  /\ pc = "update" \/ pc = "create"
  /\ k = "ScraperConfig" => pc = "update" \/ at = 4
  /\ WrittenFor(k, mg)

ByHandler(k) == task[k].at = "write" /\ WrittenFor(k, task[k].config)

ObjectStep ==
  \A k \in Kinds : child'[k] # Absent => Kept(k) \/ ByWorker(k) \/ ByHandler(k)

EndpointStep ==
  \/ SecretStep
  \/ \E k \in Kinds :
        task[k].at = "endpoint" /\ secret' = EndpointSecret(task[k].config, task[k].ip)

\* A handler takes an event for the configuration it reads, and goes on with that
\* copy or is done.
Took(k) ==
  /\ cr # NoConfig
  /\ task'[k].config = cr
  /\ task'[k].at = IF k = "ScraperConfig" THEN "service" ELSE "write"

WentOn(k) ==
  /\ task'[k].config = task[k].config
  /\ \/ task[k].at = "service" /\ task'[k].at = "endpoint"
     \/ /\ task[k].at = "endpoint" /\ task'[k].at = "write"
        /\ task[k].config.spec.scraper # NoScraper
        /\ NeedsEndpoint(task[k].config)
             => secret' = EndpointSecret(task[k].config, task[k].ip)

TaskStep ==
  \A k \in Kinds :
     \/ task'[k] = task[k]
     \/ task'[k].at = "idle"
     \/ Took(k) /\ UNCHANGED cr
     \/ WentOn(k)

\* A handler of one kind leaves the other kinds alone, and what it writes is a
\* restored object or the endpoint Secret.
LEMMA HandlerEffects ==
  ASSUME TypeInv, InformerTypeOK, NEW k \in Kinds, Handle(k)
  PROVE  /\ UNCHANGED cr
         /\ \A j \in Kinds \ {k} : child'[j] = child[j]
         /\ child'[k] = child[k] \/ (child'[k] # Absent /\ ByHandler(k))
         /\ \/ secret' = secret
            \/ task[k].at = "endpoint"
                 /\ secret' = EndpointSecret(task[k].config, task[k].ip)
         /\ TaskStep
<1>0. /\ child \in [Kinds -> Objects \cup {Absent}]
      /\ task \in [Kinds -> Tasks]
      /\ task[k].at # "idle" => task[k].config \in Configs
  BY DEF TypeInv, TypeOK, ClusterTypeOK, InformerTypeOK, Tasks
<1>d. ASSUME Drop(k) PROVE TaskStep
  BY <1>0, <1>d, IdleTyped DEF Drop, TaskStep
<1>1. CASE Receive(k)
  <2> DEFINE start == [at |-> IF k = "ScraperConfig" THEN "service" ELSE "write",
                       create |-> Head(events[k]).type = "deleted", config |-> cr,
                       ip |-> NoIP]
  <2>1. /\ UNCHANGED <<cr, child, secret>>
        /\ UNCHANGED task \/ (cr # NoConfig /\ task' = [task EXCEPT ![k] = start])
    BY <1>1 DEF Receive, objects
  <2>2. TaskStep
    BY <1>0, <2>1 DEF TaskStep, Took
  <2> QED
    BY <2>1, <2>2
<1>2. CASE ReadService(k)
  <2>1. /\ task[k].at = "service" /\ UNCHANGED <<cr, child, secret>>
        /\ \/ Drop(k)
           \/ task' = [task EXCEPT ![k] = [[task[k] EXCEPT !.at = "endpoint"]
                                             EXCEPT !.ip = child["Service"].ip]]
    BY <1>0, <1>2 DEF ReadService, objects
  <2>2. CASE ~Drop(k)
    <3>1. /\ task'[k].at = "endpoint" /\ task'[k].config = task[k].config
          /\ \A j \in Kinds \ {k} : task'[j] = task[j]
      BY <1>0, <2>1, <2>2 DEF Tasks
    <3>2. TaskStep
      BY <2>1, <3>1 DEF TaskStep, WentOn
    <3> QED
      BY <2>1, <3>2
  <2> QED
    BY <1>d, <2>1, <2>2
<1>3. CASE WriteEndpoint(k)
  <2> DEFINE config == task[k].config
             s == EndpointSecret(config, task[k].ip)
  <2>1. /\ task[k].at = "endpoint"
        /\ UNCHANGED <<cr, child>>
        /\ secret' = secret \/ secret' = s
    BY <1>3 DEF WriteEndpoint, CreateOrUpdate, objects
  <2>2. \/ Drop(k)
        \/ /\ task' = [task EXCEPT ![k] = [task[k] EXCEPT !.at = "write"]]
           /\ config.spec.scraper # NoScraper
           /\ NeedsEndpoint(config) => secret' = s
    BY <1>0, <1>3 DEF WriteEndpoint, Continue, CreateOrUpdate, NeedsEndpoint
  <2>3. TaskStep
    BY <1>0, <1>d, <2>1, <2>2 DEF TaskStep, WentOn, Tasks
  <2> QED
    BY <2>1, <2>3
<1>4. CASE Restore(k)
  <2> DEFINE obj == GenericObject(k, task[k].config)
  <2>1. /\ task[k].at = "write" /\ Drop(k)
        /\ obj \in Objects /\ obj.owner = task[k].config.uid
    BY <1>0, <1>4, GenericObjects DEF Restore
  <2>2. \/ UNCHANGED <<cr, child, secret>>
        \/ CreateObj(k, obj) \/ UpdateObj(k, obj)
    BY <1>4 DEF Restore, RestoreObject, objects
  <2>3. CASE CreateObj(k, obj)
    <3>1. PICK addr \in IPs \cup {NoIP} :
                 child' = [child EXCEPT ![k] = [obj EXCEPT !.ip = addr]]
      BY <2>3 DEF CreateObj
    <3>2. /\ [obj EXCEPT !.ip = addr] \in Objects
          /\ child'[k].owner = obj.owner /\ child'[k].body = obj.body
      BY <1>0, <2>1, <3>1 DEF Objects
    <3>3. child'[k] # Absent
      BY <1>0, <3>1, <3>2, NullsAssumption
    <3> QED
      BY <1>0, <1>d, <2>1, <2>3, <3>1, <3>2, <3>3 DEF CreateObj, ByHandler, WrittenFor
  <2>4. CASE UpdateObj(k, obj)
    <3>1. child' = [child EXCEPT ![k] = [obj EXCEPT !.ip = child[k].ip]]
      BY <2>4 DEF UpdateObj
    <3>2. /\ [obj EXCEPT !.ip = child[k].ip] \in Objects
          /\ child'[k].owner = obj.owner /\ child'[k].body = obj.body
      BY <1>0, <2>1, <2>4, <3>1 DEF UpdateObj, Objects
    <3>3. child'[k] # Absent
      BY <1>0, <3>1, <3>2, NullsAssumption
    <3> QED
      BY <1>0, <1>d, <2>1, <2>4, <3>1, <3>2, <3>3 DEF UpdateObj, ByHandler, WrittenFor
  <2> QED
    BY <1>d, <2>1, <2>2, <2>3, <2>4
<1> QED
  BY <1>1, <1>2, <1>3, <1>4 DEF Handle

\* A step of the whole operator is a step of the reconciler or its environment
\* that no handler takes part in, a step of one handler, or one that leaves the
\* objects alone and at most makes everybody start over.
LEMMA OperatorCases ==
  ASSUME [OperatorNext]_opVars
  PROVE  \/ [Next]_vars /\ UNCHANGED task
         \/ \E k \in Kinds : Handle(k) /\ UNCHANGED ctlVars
         \/ UNCHANGED <<objects, lastUid, task, ctlVars>>
         \/ RestartProcess
<1>1. CASE Reconciler
  BY <1>1 DEF Reconciler, Next
<1>2. CASE Handlers
  BY <1>2 DEF Handlers
<1>3. CASE Environment
  BY <1>3 DEF Environment, Next, infVars, Relist, WriteStatus
<1>4. CASE Kill \/ Panic
  BY <1>4 DEF Kill, Panic
<1>5. CASE UNCHANGED opVars
  BY <1>5 DEF opVars, infVars
<1> QED
  BY <1>1, <1>2, <1>3, <1>4, <1>5 DEF OperatorNext

\* Whoever takes the step, an object appears or changes its owner only as the
\* worker's or a handler's copy says.
LEMMA ObjectSteps ==
  ASSUME TypeInv, InformerTypeOK, [OperatorNext]_opVars
  PROVE  ObjectStep /\ EndpointStep /\ TaskStep
<1>0. task \in [Kinds -> Tasks]
  BY DEF InformerTypeOK
<1>1. CASE [Next]_vars /\ UNCHANGED task
  <2>1. ChildStep /\ SecretStep
    BY <1>1, ChildSteps, SecretSteps
  <2>2. ObjectStep
    BY <2>1 DEF ChildStep, ObjectStep, Kept, ByWorker, WrittenFor
  <2> QED
    BY <1>1, <2>1, <2>2 DEF EndpointStep, TaskStep
<1>2. ASSUME NEW k \in Kinds, Handle(k) PROVE ObjectStep /\ EndpointStep /\ TaskStep
  BY <1>2, HandlerEffects DEF ObjectStep, EndpointStep, SecretStep, Kept
<1>3. CASE UNCHANGED <<objects, lastUid, task, ctlVars>>
  BY <1>3 DEF objects, ObjectStep, EndpointStep, SecretStep, TaskStep, Kept
<1>4. CASE RestartProcess
  BY <1>0, <1>4, IdleTyped
     DEF RestartProcess, objects, ObjectStep, EndpointStep, SecretStep, TaskStep, Kept
<1> QED
  BY <1>1, <1>2, <1>3, <1>4, OperatorCases

-----------------------------------------------------------------------------
\* ObjectsInv is inductive beside OperatorInv.

FullInv == OperatorInv /\ ObjectsInv

\* There is nothing yet to be well formed, and nobody has a copy.
LEMMA ObjectsInit == OperatorInit => ObjectsInv
<1> SUFFICES ASSUME OperatorInit PROVE ObjectsInv
  OBVIOUS
<1>1. /\ cr = NoConfig /\ cached = NoConfig /\ pc = "idle" /\ secret = Absent
      /\ \A k \in Kinds : child[k] = Absent /\ task[k].at = "idle"
  BY IdleTyped DEF OperatorInit, Init, ClusterInit, InformerInit
<1> QED
  BY <1>1 DEF ObjectsInv, CopiesApplied, ObjectsApplied, ScraperGiven, WellFormed, Busy, Kinds

\* The incarnations applied so far are still applied, and so is a new one.
LEMMA UidsStep ==
  ASSUME TypeInv, ConfigStep, CopiesApplied
  PROVE  /\ Uids \subseteq Uids'
         /\ cr' # NoConfig => cr'.uid \in Uids'
<1>1. lastUid \in Nat
  BY DEF TypeInv, TypeOK, ClusterTypeOK
<1>2. lastUid' = lastUid \/ (lastUid' = lastUid + 1 /\ Applied)
  BY DEF ConfigStep, Applied
<1>3. Uids \subseteq Uids' /\ lastUid + 1 \in 1..(lastUid + 1)
  BY <1>1, <1>2 DEF Uids
<1> QED
  BY <1>2, <1>3 DEF ConfigStep, Applied, Advanced, Gone, CopiesApplied, Uids

\* Every copy is made of another copy.
LEMMA CopiesAppliedStep ==
  ASSUME TypeInv, CopiesApplied, ConfigStep, CtlStep, TaskStep
  PROVE  CopiesApplied'
<1>1. /\ Uids \subseteq Uids'
      /\ cr' # NoConfig => cr'.uid \in Uids'
  BY UidsStep
<1>2. cached' # NoConfig => cached'.uid \in Uids'
  BY <1>1 DEF CtlStep, CacheStep, Move, Adopted, Reread, CopiesApplied
<1>3. Busy' => mg'.uid \in Uids'
  <2>1. \/ ~Busy'
        \/ Busy /\ mg' = mg
        \/ cached # NoConfig /\ mg' = cached
        \/ cr # NoConfig /\ mg' = cr
        \/ cr' # NoConfig /\ mg' = cr'
    BY DEF CtlStep, CacheStep, Move, Adopted, Reread, Busy
  <2> QED
    BY <1>1, <2>1 DEF CopiesApplied
<1>4. ASSUME NEW k \in Kinds, task'[k].at # "idle"
      PROVE  task'[k].config.uid \in Uids'
  <2>1. \/ task'[k] = task[k]
        \/ cr # NoConfig /\ task'[k].config = cr
        \/ task'[k].config = task[k].config /\ task[k].at # "idle"
    BY <1>4 DEF TaskStep, Took, WentOn
  <2> QED
    BY <1>1, <1>4, <2>1 DEF CopiesApplied
<1> QED
  BY <1>1, <1>2, <1>3, <1>4 DEF CopiesApplied

\* Every owner is the incarnation of some writer's copy.
LEMMA ObjectsAppliedStep ==
  ASSUME TypeInv, InformerTypeOK, CopiesApplied, ObjectsApplied,
         ConfigStep, ObjectStep, EndpointStep
  PROVE  ObjectsApplied'
<1>1. Uids \subseteq Uids'
  BY UidsStep
<1>2. ASSUME NEW k \in Kinds, child'[k] # Absent
      PROVE  child'[k].owner \in Uids'
  <2>1. Kept(k) \/ ByWorker(k) \/ ByHandler(k)
    BY <1>2 DEF ObjectStep
  <2> QED
    BY <1>1, <2>1 DEF Kept, ByWorker, ByHandler, WrittenFor, CopiesApplied, ObjectsApplied, Busy
<1>3. ASSUME secret' # Absent
      PROVE  secret'.owner \in Uids'
  <2>1. \/ secret' = secret
        \/ pc = "endpoint" /\ secret'.owner = mg.uid
        \/ \E k \in Kinds : task[k].at = "endpoint" /\ secret'.owner = task[k].config.uid
    BY <1>3 DEF EndpointStep, SecretStep, EndpointSecret, OwnerReference
  <2> QED
    BY <1>1, <1>3, <2>1 DEF CopiesApplied, ObjectsApplied, Busy
<1> QED
  BY <1>2, <1>3 DEF ObjectsApplied

\* createEndpointRef and the handler's generator let nobody pass without a
\* scraper section.
LEMMA ScraperGivenStep ==
  ASSUME TypeInv, ScraperGiven, CtlStep, TaskStep
  PROVE  ScraperGiven'
<1>1. ASSUME (pc' = "create" /\ at' = 4) \/ pc' = "update"
      PROVE  mg'.spec.scraper # NoScraper
  BY <1>1 DEF ScraperGiven, CtlStep, Move, Adopted, Reread, Writing
<1>2. ASSUME task'["ScraperConfig"].at = "write"
      PROVE  task'["ScraperConfig"].config.spec.scraper # NoScraper
  <2>1. "ScraperConfig" \in Kinds
    BY DEF Kinds
  <2> QED
    BY <1>2, <2>1 DEF ScraperGiven, TaskStep, Took, WentOn
<1> QED
  BY <1>1, <1>2 DEF ScraperGiven

\* So what is written is an object its kind can have.
LEMMA WellFormedStep ==
  ASSUME TypeInv, InformerTypeOK, ScraperGiven, WellFormed, ObjectStep
  PROVE  WellFormed'
<1> SUFFICES ASSUME NEW k \in Kinds, child'[k] # Absent
             PROVE  child'[k].body \in ContentsOf(k)
  BY DEF WellFormed
<1>1. CASE Kept(k)
  <2>1. Drifted \in ContentsOf(k)
    BY DEF ContentsOf
  <2> QED
    BY <1>1, <2>1 DEF Kept, WellFormed
<1>2. CASE ByWorker(k)
  <2>1. mg \in Configs
    BY <1>2 DEF ByWorker, TypeInv, TypeOK
  <2>2. k = "ScraperConfig" => mg.spec.scraper # NoScraper
    BY <1>2 DEF ByWorker, ScraperGiven
  <2> QED
    BY <1>2, <2>1, <2>2, GeneratedContents DEF ByWorker, WrittenFor
<1>3. CASE ByHandler(k)
  <2>1. task[k].config \in Configs
    BY <1>3 DEF ByHandler, InformerTypeOK, Tasks
  <2>2. k = "ScraperConfig" => task[k].config.spec.scraper # NoScraper
    BY <1>3 DEF ByHandler, ScraperGiven
  <2> QED
    BY <1>3, <2>1, <2>2, GeneratedContents DEF ByHandler, WrittenFor
<1> QED
  BY <1>1, <1>2, <1>3 DEF ObjectStep

\* Every step keeps what every object is.
LEMMA FullStep == FullInv /\ [OperatorNext]_opVars => FullInv'
<1> SUFFICES ASSUME FullInv, [OperatorNext]_opVars PROVE FullInv'
  OBVIOUS
<1>1. TypeInv /\ InformerTypeOK
  BY DEF FullInv, OperatorInv, CopiesInv, TypeInv
<1>2. ConfigStep /\ CtlStep /\ ObjectStep /\ EndpointStep /\ TaskStep
  BY <1>1, OperatorSteps, ObjectSteps
<1>3. ObjectsInv'
  BY <1>1, <1>2, CopiesAppliedStep, ObjectsAppliedStep, ScraperGivenStep, WellFormedStep
     DEF FullInv, ObjectsInv
<1> QED
  BY <1>3, OperatorStep DEF FullInv

\* Whoever wrote an object, and for whichever incarnation, it is well formed and
\* belongs to an incarnation that was applied.
THEOREM OperatorObjects == OperatorSpec => []ObjectsInv
<1>1. OperatorInit => FullInv
  BY OperatorInitially, ObjectsInit DEF FullInv
<1>2. FullInv => ObjectsInv
  BY DEF FullInv
<1> QED
  BY <1>1, <1>2, FullStep, PTL DEF OperatorSpec

\* Nothing is ever made of a scraper section that is not there, by neither writer.
THEOREM OperatorWellFormed == OperatorSpec => []WellFormed
<1>1. ObjectsInv => WellFormed
  BY DEF ObjectsInv
<1> QED
  BY <1>1, OperatorObjects, PTL

\* What Observe leaves alone is what Create would write, but for the generic part
\* of a ScraperConfig: the comparators accept nothing else of what can be in the
\* cluster.
THEOREM OperatorAccepts == OperatorSpec => []AcceptedIsGenerated
<1>1. FullInv => AcceptedIsGenerated
  <2> SUFFICES ASSUME FullInv, cr # NoConfig, NEW k \in Kinds, child[k] # Absent,
                      Check(k, child[k], cr), k = "ScraperConfig" => NeedsEndpoint(cr)
               PROVE  /\ ContentsAsGenerated(k, child[k], cr)
                      /\ k # "ScraperConfig" => child[k].owner = cr.uid
    BY DEF AcceptedIsGenerated
  <2>1. cr \in Configs /\ child[k] \in Objects
    BY DEF FullInv, OperatorInv, CopiesInv, TypeOK, ClusterTypeOK
  <2>2. child[k].body \in ContentsOf(k)
    BY DEF FullInv, ObjectsInv, WellFormed
  <2>3. k = "ScraperConfig" => UsesExporterEndpoint(cr.spec.scraper)
    BY DEF NeedsEndpoint
  <2> QED
    BY <2>1, <2>2, <2>3, AcceptedContents
<1>2. OperatorInit => FullInv
  BY OperatorInitially, ObjectsInit DEF FullInv
<1> QED
  BY <1>1, <1>2, FullStep, PTL DEF OperatorSpec

-----------------------------------------------------------------------------
\* The endpoint Secret with two writers.

\* A Secret of the live configuration stays its own, unless somebody writes the
\* Secret for another.
LEMMA SecretStays ==
  ASSUME TypeInv, InformerTypeOK, EndpointStep,
         cr # NoConfig, secret # Absent, secret.owner = cr.uid,
         pc = "endpoint" => mg.uid = cr.uid,
         \A k \in Kinds : task[k].at = "endpoint" => task[k].config.uid = cr.uid
  PROVE  secret' # Absent /\ secret'.owner = cr.uid
<1>1. ~Orphaned(secret)
  BY DEF Orphaned, Owners
<1>2. ASSUME NEW config \in Configs, NEW addr \in IPs \cup {NoIP},
             config.uid = cr.uid, secret' = EndpointSecret(config, addr)
      PROVE  secret' # Absent /\ secret'.owner = cr.uid
  <2>1. secret' \in Secrets
    BY <1>2 DEF Configs, Secrets, EndpointSecret, OwnerReference
  <2> QED
    BY <1>2, <2>1, NullsAssumption DEF EndpointSecret, OwnerReference
<1>3. CASE pc = "endpoint" /\ secret' = EndpointSecret(mg, ip)
  BY <1>2, <1>3 DEF TypeInv, TypeOK
<1>4. ASSUME NEW k \in Kinds, task[k].at = "endpoint",
             secret' = EndpointSecret(task[k].config, task[k].ip)
      PROVE  secret' # Absent /\ secret'.owner = cr.uid
  <2>1. task[k].config \in Configs /\ task[k].ip \in IPs \cup {NoIP}
    BY <1>4 DEF InformerTypeOK, Tasks
  <2> QED
    BY <1>2, <1>4, <2>1
<1> QED
  BY <1>1, <1>3, <1>4 DEF EndpointStep, SecretStep

\* As long as no handler works for an earlier incarnation, the handlers do what
\* the reconciler does: the Secret first, then the ScraperConfig.
LEMMA EndpointKept ==
  ASSUME FullInv, EndpointInv, NoneOvertaken, NoneOvertaken', [OperatorNext]_opVars
  PROVE  EndpointInv'
<1>1. TypeInv /\ InformerTypeOK
  BY DEF FullInv, OperatorInv, CopiesInv, TypeInv
<1>2. /\ ConfigStep /\ CtlStep /\ ObjectStep /\ EndpointStep /\ TaskStep
      /\ TypeInv' /\ InformerTypeOK' /\ FullInv'
  BY <1>1, OperatorSteps, ObjectSteps, FullStep
<1>3. /\ pc \in Writing => cr # NoConfig /\ cr.uid = mg.uid
      /\ pc' \in Writing => cr' # NoConfig /\ cr'.uid = mg'.uid
  BY <1>2 DEF FullInv, OperatorInv, CopiesInv, WorkerHoldsConfig
<1>4. \A k \in Kinds : task[k].at = "endpoint" /\ cr # NoConfig => task[k].config.uid = cr.uid
  BY DEF NoneOvertaken
<1>5. lastUid \in Nat
  BY <1>1 DEF TypeInv, TypeOK, ClusterTypeOK
<1>s. ASSUME cr # NoConfig, secret # Absent, secret.owner = cr.uid
      PROVE  secret' # Absent /\ secret'.owner = cr.uid
  BY <1>1, <1>2, <1>3, <1>4, <1>s, SecretStays DEF Writing
<1>w. ASSUME NEW config \in Configs, NEW addr \in IPs \cup {NoIP},
             secret' = EndpointSecret(config, addr)
      PROVE  secret' # Absent /\ secret'.owner = config.uid
  <2>1. secret' \in Secrets
    BY <1>w DEF Configs, Secrets, EndpointSecret, OwnerReference
  <2> QED
    BY <1>w, <2>1, NullsAssumption DEF EndpointSecret, OwnerReference
<1>6. EndpointReady'
  <2> SUFFICES ASSUME (pc' = "create" /\ at' = 4) \/ pc' = "update"
               PROVE  /\ mg'.spec.scraper # NoScraper
                      /\ NeedsEndpoint(mg') => secret' # Absent /\ secret'.owner = mg'.uid
    BY DEF EndpointReady, NeedsEndpoint
  <2>1. CASE /\ pc = "endpoint" /\ mg' = mg /\ mg.spec.scraper # NoScraper
             /\ NeedsEndpoint(mg) => secret' = EndpointSecret(mg, ip)
    <3>1. mg \in Configs /\ ip \in IPs \cup {NoIP}
      BY <1>1, <2>1 DEF TypeInv, TypeOK
    <3> QED
      BY <1>w, <2>1, <3>1 DEF NeedsEndpoint
  <2>2. CASE /\ mg' = mg
             /\ (pc = "create" /\ at = 4) \/ pc = "update"
    <3>1. /\ mg.spec.scraper # NoScraper
          /\ NeedsEndpoint(mg) => secret # Absent /\ secret.owner = mg.uid
      BY <2>2 DEF EndpointInv, EndpointReady
    <3> QED
      BY <1>3, <1>s, <2>2, <3>1 DEF Writing, NeedsEndpoint
  <2> QED
    BY <1>2, <2>1, <2>2 DEF CtlStep, Move, Adopted, Reread, Writing
<1>7. HandlerReady'
  <2> DEFINE k == "ScraperConfig"
             t == task[k]
  <2> SUFFICES ASSUME t'.at = "write", cr' # NoConfig, NeedsEndpoint(t'.config)
               PROVE  secret' # Absent /\ secret'.owner = cr'.uid
    BY DEF HandlerReady, NeedsEndpoint
  <2>0. k \in Kinds
    BY DEF Kinds
  <2>1. t'.config.uid = cr'.uid
    BY <2>0 DEF NoneOvertaken
  <2>2. t.config = t'.config /\ t.at \in {"endpoint", "write"}
    BY <1>2, <2>0 DEF TaskStep, Took, WentOn
  <2>3. cr # NoConfig /\ cr.uid = cr'.uid
    <3>1. t'.config.uid <= lastUid
      BY <2>0, <2>2 DEF FullInv, ObjectsInv, CopiesApplied, Uids
    <3> QED
      BY <1>2, <1>5, <2>1, <3>1 DEF ConfigStep, Applied, Advanced, Gone
  <2>4. CASE t.at = "endpoint" /\ secret' = EndpointSecret(t.config, t.ip)
    <3>1. t.config \in Configs /\ t.ip \in IPs \cup {NoIP}
      BY <1>1, <2>0, <2>4 DEF InformerTypeOK, Tasks
    <3> QED
      BY <1>w, <2>1, <2>2, <2>4, <3>1
  <2>5. CASE t.at = "write"
    <3>1. secret # Absent /\ secret.owner = cr.uid
      BY <2>2, <2>3, <2>5 DEF EndpointInv, HandlerReady
    <3> QED
      BY <1>s, <2>3, <3>1
  <2> QED
    BY <1>2, <2>0, <2>2, <2>4, <2>5 DEF TaskStep, Took, WentOn
<1>8. EndpointBeforeScraper'
  <2> DEFINE k == "ScraperConfig"
             s == child[k]
             t == task[k]
  <2> SUFFICES ASSUME cr' # NoConfig, s' # Absent, s'.owner = cr'.uid, s'.body # Drifted,
                      UsesExporterEndpoint(s'.body)
               PROVE  secret' # Absent /\ secret'.owner = cr'.uid
    BY DEF EndpointBeforeScraper, UsesExporterEndpoint
  <2>0. k \in Kinds
    BY DEF Kinds
  <2>1. Kept(k) \/ ByWorker(k) \/ ByHandler(k)
    BY <1>2, <2>0 DEF ObjectStep
  <2>2. s'.owner <= lastUid
    <3>1. CASE Kept(k)
      BY <2>0, <3>1 DEF Kept, FullInv, ObjectsInv, ObjectsApplied, Uids
    <3>2. CASE ByWorker(k)
      BY <3>2 DEF ByWorker, WrittenFor, FullInv, ObjectsInv, CopiesApplied, Uids, Busy
    <3>3. CASE ByHandler(k)
      BY <2>0, <3>3 DEF ByHandler, WrittenFor, FullInv, ObjectsInv, CopiesApplied, Uids
    <3> QED
      BY <2>1, <3>1, <3>2, <3>3
  <2>3. cr # NoConfig /\ cr'.uid = cr.uid
    BY <1>2, <1>5, <2>2 DEF ConfigStep, Applied, Advanced, Gone
  <2>4. secret # Absent /\ secret.owner = cr.uid
    <3>1. CASE Kept(k)
      BY <2>3, <3>1 DEF Kept, EndpointInv, EndpointBeforeScraper
    <3>2. CASE ByWorker(k)
      <4>1. mg \in Configs /\ mg.uid = cr.uid
        BY <1>1, <1>3, <3>2 DEF ByWorker, TypeInv, TypeOK, Writing
      <4>2. s'.body = ScraperSpec(mg.spec)
        BY <2>0, <3>2, <4>1, GenericObjects DEF ByWorker, WrittenFor
      <4>3. mg.spec.scraper # NoScraper
        BY <3>2 DEF ByWorker, EndpointInv, EndpointReady
      <4>4. NeedsEndpoint(mg)
        BY <4>2, <4>3, ScraperSpecs DEF NeedsEndpoint
      <4> QED
        BY <3>2, <4>1, <4>4 DEF ByWorker, EndpointInv, EndpointReady
    <3>3. CASE ByHandler(k)
      <4>1. t.config \in Configs
        BY <1>1, <2>0, <3>3 DEF ByHandler, InformerTypeOK, Tasks
      <4>2. s'.body = ScraperSpec(t.config.spec)
        BY <2>0, <3>3, <4>1, GenericObjects DEF ByHandler, WrittenFor
      <4>3. t.config.spec.scraper # NoScraper
        BY <3>3 DEF ByHandler, FullInv, ObjectsInv, ScraperGiven
      <4>4. NeedsEndpoint(t.config)
        BY <4>2, <4>3, ScraperSpecs DEF NeedsEndpoint
      <4> QED
        BY <2>3, <3>3, <4>4 DEF ByHandler, EndpointInv, HandlerReady
    <3> QED
      BY <2>1, <3>1, <3>2, <3>3
  <2> QED
    BY <1>s, <2>3, <2>4
<1> QED
  BY <1>6, <1>7, <1>8 DEF EndpointInv

\* No handler has begun, and nothing is there to be scraped.
LEMMA EndpointInitially == OperatorInit => EndpointInv
<1> SUFFICES ASSUME OperatorInit PROVE EndpointInv
  OBVIOUS
<1>1. EndpointReady /\ EndpointBeforeScraper
  BY InvInit DEF OperatorInit, IInv
<1>2. HandlerReady
  BY IdleTyped DEF OperatorInit, InformerInit, HandlerReady, Kinds
<1> QED
  BY <1>1, <1>2 DEF EndpointInv

\* Beside the informers too a ScraperConfig that scrapes the exporter never
\* precedes its endpoint Secret, in every behaviour in which no handler is still
\* at work for an incarnation that has been replaced.
THEOREM OperatorEndpointFirst ==
  OperatorSpec /\ []NoneOvertaken => []EndpointBeforeScraper
<1>1. OperatorInit => FullInv /\ EndpointInv
  BY OperatorInitially, ObjectsInit, EndpointInitially DEF FullInv
<1>2. FullInv /\ EndpointInv /\ NoneOvertaken /\ NoneOvertaken' /\ [OperatorNext]_opVars
        => FullInv' /\ EndpointInv'
  BY FullStep, EndpointKept
<1>3. EndpointInv => EndpointBeforeScraper
  BY DEF EndpointInv
<1> QED
  BY <1>1, <1>2, <1>3, PTL DEF OperatorSpec

\* The first incarnation has nothing to be overtaken from: until a second is
\* applied, the Secret is always there first.
THEOREM FirstEndpointFirst ==
  OperatorSpec => [](lastUid <= 1 => EndpointBeforeScraper)
<1>1. FullInv /\ lastUid <= 1 => NoneOvertaken
  <2> SUFFICES ASSUME FullInv, lastUid <= 1, NEW k \in Kinds, task[k].at # "idle", cr # NoConfig
               PROVE  task[k].config.uid = cr.uid
    BY DEF NoneOvertaken
  <2>1. task[k].config.uid \in 1..lastUid /\ cr.uid \in 1..lastUid /\ lastUid \in Nat
    BY DEF FullInv, ObjectsInv, CopiesApplied, Uids, OperatorInv, CopiesInv, TypeOK, ClusterTypeOK
  <2> QED
    BY <2>1
<1>p. (FullInv /\ lastUid <= 1 => NoneOvertaken)'
  BY <1>1, PTL
<1>2. FullInv /\ [OperatorNext]_opVars => lastUid <= lastUid'
  <2> SUFFICES ASSUME FullInv, [OperatorNext]_opVars PROVE lastUid <= lastUid'
    OBVIOUS
  <2>1. ConfigStep /\ lastUid \in Nat
    BY OperatorSteps DEF FullInv, OperatorInv, CopiesInv, TypeInv, TypeOK, ClusterTypeOK
  <2> QED
    BY <2>1 DEF ConfigStep, Applied
<1> DEFINE J == FullInv /\ (lastUid <= 1 => EndpointInv)
<1>3. OperatorInit => J
  BY OperatorInitially, ObjectsInit, EndpointInitially DEF FullInv
<1>4. J /\ [OperatorNext]_opVars => J'
  <2> SUFFICES ASSUME J, [OperatorNext]_opVars, lastUid' <= 1
               PROVE  FullInv' /\ EndpointInv'
    BY FullStep
  <2>1. FullInv'
    BY FullStep
  <2>2. lastUid <= lastUid' /\ lastUid \in Nat /\ lastUid' \in Nat
    BY <1>2, <2>1 DEF FullInv, OperatorInv, CopiesInv, TypeOK, ClusterTypeOK
  <2>3. NoneOvertaken'
    BY <1>p, <2>1
  <2> QED
    BY <1>1, <2>1, <2>2, <2>3, EndpointKept
<1>5. J => (lastUid <= 1 => EndpointBeforeScraper)
  BY DEF EndpointInv
<1> QED
  BY <1>3, <1>4, <1>5, PTL DEF OperatorSpec

==============================================================================
