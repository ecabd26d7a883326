------------------------------- MODULE RestProofs -------------------------------
(***************************************************************************)
(* At rest the cluster is what the operator's cached specs ask for, and    *)
(* the condition of a Lookout says what its partition Job has come to;     *)
(* finalizers are in place and deletions seen through: no event is lost,   *)
(* whenever it comes.                                                      *)
(***************************************************************************)
EXTENDS GatesProofs

-----------------------------------------------------------------------------
(***************************************************************************)
(* What is assumed: namespace and name tell custom resources apart.        *)
(***************************************************************************)
NamesApart == \A n, m \in CRs : n[1] = m[1] /\ n[2] = m[2] => n = m

-----------------------------------------------------------------------------
(***************************************************************************)
(* The invariant.                                                          *)
(***************************************************************************)
InHand(n) == Busy /\ wk.n = n

\* What the worker has in hand is what the cache has, unless n is queued.
InStep ==
    \A n \in CRs : n \notin queue /\ InHand(n) =>
        /\ crCache[n] # NoCR
        /\ wk.mem.spec = crCache[n].spec /\ wk.mem.deleting = crCache[n].deleting

\* An object that the cache shows is there, unless it is one the worker removes.
StillThere ==
    \A k \in Keys : k \notin lost /\ k[3] \notin {"cronJob"} \cup CleanedUp /\ objCache[k] # NoObj
                      => obj[k] # NoObj

Passed(n, i) == InHand(n) => i < wk.pc

\* Step i is about a component that spec asks for, or about one it does not want.
Asked(i, spec) ==
    /\ Steps[i].c \in Tracked \ CleanedUp
    /\ \/ Steps[i].op = "upsert" /\ Steps[i].c \in Generated(Kind, spec)
       \/ Steps[i].op = "prune" /\ "pruning" \in spec.on

Unwanted(i, spec) ==
    Steps[i].c \in Tracked /\ Steps[i].op = "prune" /\ "pruning" \notin spec.on

InPlace(n, c, spec) ==
    Key(n, c) \notin lost =>
        /\ obj[Key(n, c)] # NoObj
        /\ c \in Defaulted => obj[Key(n, c)].content = Content(n, c, spec)

Placed ==
    \A n \in CRs : n \notin queue /\ Live(crCache[n]) =>
        \A i \in 1..Len(Steps) : Passed(n, i) =>
            /\ Asked(i, crCache[n].spec) => InPlace(n, Steps[i].c, crCache[n].spec)
            /\ Unwanted(i, crCache[n].spec) => obj[Key(n, Steps[i].c)] = NoObj

RInv == InStep /\ StillThere /\ Placed

-----------------------------------------------------------------------------
(***************************************************************************)
(* The tables.                                                             *)
(***************************************************************************)
\* What is upserted or pruned belongs to a namespace or is cleaned up, and comes
\* before the partition Job; CronJobs are pruned, never upserted.
OwnTable ==
    \A i \in 1..Len(Steps) :
        /\ Steps[i].op \in {"upsert", "prune"} =>
              /\ Steps[i].c \notin {"none", "partition"}
              /\ Steps[i].c \in ClusterScoped => Steps[i].c \in CleanedUp
              /\ Steps[i].op = "prune" <=> Steps[i].c = "cronJob"
              /\ \A j \in 1..Len(Steps) : Steps[j].op \in {"partition", "status"} => i < j

\* Every cluster-scoped component a controller upserts is one it cleans up.
LEMMA ClusterScopedCleanedUp ==
    ASSUME NEW spec \in Specs
    PROVE  /\ Kind = "Executor" => ClusterScoped \subseteq CleanedUp
           /\ Kind = "Binoculars" => {"clusterRole", "binding"} \subseteq CleanedUp
<1>1. {"clusterRole", "binding", "extraBinding"} \subseteq Components
  BY DEF Components
<1>2. CASE Kind = "Executor"
  <2> DEFINE all == [app |-> spec.app, on |-> Features]
  <2>1. all \in Specs
    BY DEF Specs
  <2>2. {"extraBinding", "prometheusRule"} \subseteq Generated("Executor", all)
    BY DEF Generated, generateExecutorInstallComponents, Given, Features
  <2> HIDE DEF all
  <2>3. /\ When("prometheusRule", "Executor", all) = <<"prometheusRule">>
        /\ When("extraBinding", "Executor", all) = <<"extraBinding">>
    BY <2>2 DEF When
  <2>4. Cleanup(Kind, all) = <<"clusterRole">> \o <<"prometheusRule">> \o <<"binding">>
                               \o <<"extraBinding">>
    BY <1>2, <2>3 DEF Cleanup, ExecutorDeleteExternalResources
  <2> DEFINE clean == Cleanup(Kind, all)
  <2>5. /\ Len(clean) = 4 /\ clean[1] = "clusterRole" /\ clean[3] = "binding"
        /\ clean[4] = "extraBinding"
    BY <2>4
  <2>6. {1, 3, 4} \subseteq DOMAIN clean
    BY <2>4
  <2> HIDE DEF clean
  <2>7. \A c \in ClusterScoped : \E i \in DOMAIN clean : clean[i] = c
    BY <2>5, <2>6 DEF ClusterScoped
  <2> QED
    BY <1>1, <1>2, <2>1, <2>7 DEF CleanedUp, ClusterScoped, clean
<1>3. CASE Kind = "Binoculars"
  <2>1. Cleanup(Kind, spec) = <<"clusterRole", "binding">>
    BY <1>3 DEF Cleanup, BinocularsDeleteExternalResources
  <2> QED
    BY <1>1, <1>3, <2>1 DEF CleanedUp
<1> QED
  BY <1>2, <1>3

LEMMA OwnTableHolds ==
    ASSUME NEW spec \in Specs
    PROVE  OwnTable
<1> DEFINE Own(s, last) ==
             /\ Len(s) \in Nat
             /\ \A i \in 1..Len(s) :
                  /\ s[i].op \in {"partition", "status"} => i > last
                  /\ s[i].op \in {"upsert", "prune"} =>
                        /\ i <= last
                        /\ s[i].c \notin {"none", "partition"}
                        /\ s[i].c \in ClusterScoped => s[i].c \in CleanedUp
                        /\ s[i].op = "prune" <=> s[i].c = "cronJob"
           Fits(t) ==
             /\ t.op \notin {"partition", "status"}
             /\ t.op \in {"upsert", "prune"} =>
                  /\ t.c \notin {"none", "partition"}
                  /\ t.c \in ClusterScoped => t.c \in CleanedUp
                  /\ t.op = "prune" <=> t.c = "cronJob"
           Plain(s, n) == Len(s) = n /\ \A i \in 1..n : Fits(s[i])
<1>1. ASSUME NEW s, NEW n \in Nat, Plain(s, n) PROVE Own(s, n)
  BY <1>1
<1>2. ASSUME NEW last \in Nat, Own(Steps, last) PROVE OwnTable
  BY <1>2 DEF OwnTable
<1>3. CASE Kind = "Lookout"
  <2>1. /\ Len(Steps) = 13 /\ Steps[1] = Finalize /\ Steps[2] = Parse
        /\ Steps[3] = Upsert("serviceAccount") /\ Steps[4] = Upsert("secret")
        /\ Steps[5] = Upsert("migration") /\ Steps[6] = Step("wait", "migration")
        /\ Steps[7] = Upsert("deployment") /\ Steps[8] = Upsert("service")
        /\ Steps[9] = Upsert("ingressHttp") /\ Steps[10] = Step("prune", "cronJob")
        /\ Steps[11] = Upsert("serviceMonitor") /\ Steps[12] = Step("partition", "partition")
        /\ Steps[13] = Step("status", "partition")
    BY <1>3 DEF Steps, Reconcile, LookoutReconcile, JobRun
  <2>2. Own(Steps, 11)
    BY <2>1, StepFields DEF ClusterScoped
  <2> QED
    BY <1>2, <2>2
<1>4. CASE Kind = "Scheduler"
  <2>1. Plain(SchedulerReconcile, 14)
    BY StepFields DEF SchedulerReconcile, JobRun, ClusterScoped
  <2> HIDE DEF Plain, Own
  <2> QED
    BY <1>1, <1>2, <1>4, <2>1 DEF Steps, Reconcile
<1>5. CASE Kind = "ArmadaServer"
  <2>1. Plain(ArmadaServerReconcile, 15)
    BY StepFields DEF ArmadaServerReconcile, JobRun, ClusterScoped
  <2> HIDE DEF Plain, Own
  <2> QED
    BY <1>1, <1>2, <1>5, <2>1 DEF Steps, Reconcile
<1>6. CASE Kind = "Executor"
  <2>1. ClusterScoped \subseteq CleanedUp
    BY <1>6, ClusterScopedCleanedUp
  <2>2. Plain(ExecutorReconcile, 11)
    BY <2>1, StepFields DEF ExecutorReconcile, ClusterScoped
  <2> HIDE DEF Plain, Own
  <2> QED
    BY <1>1, <1>2, <1>6, <2>2 DEF Steps, Reconcile
<1>7. CASE Kind = "Binoculars"
  <2>1. {"clusterRole", "binding"} \subseteq CleanedUp
    BY <1>7, ClusterScopedCleanedUp
  <2>2. Plain(BinocularsReconcile, 10)
    BY <2>1, StepFields DEF BinocularsReconcile, ClusterScoped
  <2> HIDE DEF Plain, Own
  <2> QED
    BY <1>1, <1>2, <1>7, <2>2 DEF Steps, Reconcile
<1>8. CASE Kind \in {"EventIngester", "LookoutIngester", "SchedulerIngester"}
  <2>1. Plain(EventIngesterReconcile, 5) /\ Plain(LookoutIngesterReconcile, 5)
          /\ Plain(SchedulerIngesterReconcile, 5)
    BY StepFields DEF EventIngesterReconcile, LookoutIngesterReconcile,
                      SchedulerIngesterReconcile, ClusterScoped
  <2> HIDE DEF Plain, Own
  <2> QED
    BY <1>1, <1>2, <1>8, <2>1 DEF Steps, Reconcile
<1> QED
  BY <1>3, <1>4, <1>5, <1>6, <1>7, <1>8, InstallAssumption DEF Kinds

\* What deleteExternalResources removes is cleaned up.
LEMMA DeletesCleanedUp ==
    ASSUME TInv, deleteExternalResources, NEW k \in Keys
    PROVE  obj'[k] = obj[k] \/ (obj'[k] = NoObj /\ k[3] \in CleanedUp)
<1> DEFINE clean == Cleanup(Kind, wk.mem.spec)
           c == clean[wk.del + 1]
<1>1. wk.mem.spec \in Specs /\ wk.del \in Nat /\ wk.del < Len(clean) /\ wk.n \in CRs
  BY DEF deleteExternalResources, At, TInv, WorkType, Workers, WorkerHolds, Busy, CRRecords
<1>2. clean \in Seq(Components \ Jobs)
  BY CleanupsSpareJobs
<1>3. wk.del + 1 \in DOMAIN clean
  BY <1>1, <1>2
<1>4. c \in CleanedUp
  <2>1. c \in Components
    BY <1>2, <1>3
  <2> QED
    BY <1>1, <1>3, <2>1 DEF CleanedUp
<1>5. Key(wk.n, c)[3] = c
  BY <1>1, KeyParts
<1>6. obj' = obj \/ StoreObj(Key(wk.n, c), NoObj)
  BY DEF deleteExternalResources, objVars
<1> HIDE DEF c
<1> QED
  BY <1>4, <1>5, <1>6 DEF StoreObj, TInv, ObjType

-----------------------------------------------------------------------------
(***************************************************************************)
(* The worker, the queue and the cache keep in step.                       *)
(***************************************************************************)
\* Whoever is asleep after a step was so before, or has just been taken up; what
\* the cache has of it is what it had.
Asleep(n) ==
    /\ crCache'[n] = crCache[n] /\ ~Restart
    /\ n \notin queue \/ Dequeue(n)

LEMMA QueueKeeps ==
    ASSUME TInv, [Next]_vars, NEW n \in queue
    PROVE  n \in queue' \/ Dequeue(n) \/ Restart
<1>1. CASE Worker
  <2>1. \A c : CreateOrUpdate(c) \/ deleteObjectIfNeeded(c) => n \in queue'
    BY DEF CreateOrUpdate, deleteObjectIfNeeded, Continue, Retry
  <2>2. \A r, next : WriteInHand(r, next) => n \in queue'
    BY DEF WriteInHand, Retry
  <2>3. \A c : (\/ upsertObjectIfNeeded(c) \/ PruneStep(c) \/ PollJob(c) \/ JobTimeout(c)
                \/ PartitionStep(c) \/ StatusStep(c)) => n \in queue'
    BY <2>1, <2>2 DEF upsertObjectIfNeeded, PruneStep, PollJob, JobTimeout, PartitionStep,
       SkipPartition, StatusStep, Continue, Retry, ReadBack
  <2>4. (\/ ParseConfig \/ addFinalizerIfNeeded \/ deleteExternalResources
         \/ handleObjectDeletion) => n \in queue'
    BY <2>2 DEF ParseConfig, addFinalizerIfNeeded, deleteExternalResources,
       handleObjectDeletion, Continue, Retry
  <2>5. ReconcileStep => n \in queue'
    BY <2>3, <2>4 DEF ReconcileStep
  <2>6. ASSUME NEW m \in CRs, Dequeue(m) PROVE n \in queue' \/ Dequeue(n)
    BY <2>6 DEF Dequeue
  <2> QED
    BY <1>1, <2>5, <2>6 DEF Worker
<1>2. CASE Faults \/ Watches \/ ClusterSteps
  BY <1>2 DEF Faults, Watches, ClusterSteps, CallFails, Retry, ObserveCR, ObserveObj, Resync,
              CollectGarbage, EndJob
<1>3. CASE Users
  BY <1>3 DEF Users, CreateCR, EditCR, DeleteCR, DeleteChild, UserChange
<1> QED
  BY <1>1, <1>2, <1>3 DEF Next, vars

LEMMA CacheWakes ==
    ASSUME TInv, [Next]_vars, NEW n \in CRs
    PROVE  crCache'[n] = crCache[n] \/ n \in queue' \/ Restart
<1>1. crCache \in [CRs -> CRRecords \cup {NoCR}]
  BY DEF TInv, CRType
<1>2. ASSUME NEW m \in CRs, ObserveCR(m) PROVE crCache'[n] = crCache[n] \/ n \in queue'
  BY <1>1, <1>2 DEF ObserveCR
<1>3. CASE Watches \/ Faults
  BY <1>2, <1>3 DEF Watches, Faults, CallFails, ObserveObj, Resync, crVars
<1>4. crCache' = crCache \/ Watches \/ Faults
  BY CachesMove
<1> QED
  BY <1>3, <1>4

LEMMA AsleepBefore ==
    ASSUME TInv, [Next]_vars, NEW n \in CRs, n \notin queue', Live(crCache'[n])
    PROVE  Asleep(n)
<1>1. ~Restart
  BY DEF Restart, Live
<1> QED
  BY <1>1, QueueKeeps, CacheWakes DEF Asleep

\* What the worker holds it goes on holding, unless it starts on something new.
LEMMA KeepsHold ==
    ASSUME TInv, [Next]_vars, Busy'
    PROVE  \/ \E n \in CRs : Dequeue(n)
           \/ /\ Busy /\ wk'.n = wk.n
              /\ wk'.mem.spec = wk.mem.spec /\ wk'.mem.deleting = wk.mem.deleting
<1>1. CASE addFinalizerIfNeeded
  <2>1. Busy /\ ~wk.mem.deleting /\ ~wk'.mem.deleting /\ wk'.n = wk.n
    BY <1>1, FinalizerGoesOn DEF addFinalizerIfNeeded, At, Busy
  <2>2. Goes
    BY <1>1, FinalizeMoves
  <2>3. wk.mem.deleting = FALSE /\ wk'.mem.deleting = FALSE
    <3>1. wk.mem \in CRRecords /\ wk'.mem \in CRRecords
      BY <1>1, <2>1, FinalizeTypes DEF TInv, WorkType, WorkerHolds, Busy
    <3> QED
      BY <2>1, <3>1 DEF CRRecords
  <2> QED
    BY <2>1, <2>2, <2>3 DEF Goes
<1>2. CASE deleteExternalResources
  BY <1>2 DEF deleteExternalResources, At, Busy, TInv, WorkType, Workers
<1>3. CASE GoesOn
  BY <1>3 DEF GoesOn
<1> QED
  BY <1>1, <1>2, <1>3, StepsGoOn

LEMMA InStepStep ==
    ASSUME TInv, InStep, [Next]_vars
    PROVE  InStep'
<1> SUFFICES ASSUME NEW n \in CRs, n \notin queue', Busy', wk'.n = n
             PROVE  /\ crCache'[n] # NoCR
                    /\ wk'.mem.spec = crCache'[n].spec
                    /\ wk'.mem.deleting = crCache'[n].deleting
  BY DEF InStep, InHand
<1>1. crCache'[n] = crCache[n] /\ ~Restart
  BY CacheWakes, IdleType DEF Restart, Busy
<1>2. ASSUME NEW m \in CRs, Dequeue(m)
      PROVE  crCache[n] # NoCR /\ wk'.mem = crCache[n]
  <2>1. crCache[m] # NoCR
    BY <1>2, IdleType DEF Dequeue, Busy
  <2>2. wk' = [pc |-> 1, n |-> m, mem |-> crCache[m], fresh |-> m \in crFresh,
               del |-> 0, job |-> "none"]
    BY <1>2, <2>1 DEF Dequeue, Idle
  <2> QED
    BY <2>1, <2>2
<1>3. CASE /\ Busy /\ wk'.n = wk.n
           /\ wk'.mem.spec = wk.mem.spec /\ wk'.mem.deleting = wk.mem.deleting
  <2>1. n \notin queue
    BY <1>1, <1>3, QueueKeeps DEF Dequeue, Busy
  <2> QED
    BY <1>1, <1>3, <2>1 DEF InStep, InHand
<1> QED
  BY <1>1, <1>2, <1>3, KeepsHold

-----------------------------------------------------------------------------
(***************************************************************************)
(* What becomes of an object.                                              *)
(***************************************************************************)
AtStep(ops, c) == Busy /\ c \in Tracked /\ Steps[wk.pc].c = c /\ Steps[wk.pc].op \in ops

\* The worker writes component c, or removes it.
Puts(c) ==
    /\ AtStep({"upsert", "prune"}, c) /\ CreateOrUpdate(c) /\ UNCHANGED world
    /\ ~(Retry /\ UNCHANGED objVars)
    /\ Steps[wk.pc].op = "prune" => "pruning" \in wk.mem.spec.on

Clears(c) ==
    /\ AtStep({"prune"}, c) /\ deleteObjectIfNeeded(c) /\ UNCHANGED world
    /\ "pruning" \notin wk.mem.spec.on

\* Someone else removes it, or the cleanup does, or its content stays.
Removed(k) == obj'[k] = NoObj /\ k \in lost'

Kept(k) ==
    /\ obj'[k] # NoObj <=> obj[k] # NoObj
    /\ obj'[k] # NoObj => obj'[k].content = obj[k].content

Cleaned(k) == obj'[k] = NoObj /\ k[3] \in CleanedUp

Becomes(k) ==
    \/ Removed(k)
    \/ Cleaned(k)
    \/ Kept(k)
    \/ k[3] = "partition"
    \/ \E c \in Tracked : k = Key(wk.n, c) /\ (Puts(c) \/ Clears(c))

LEMMA ComponentStep ==
    ASSUME TInv, NEW c \in Tracked, upsertObjectIfNeeded(c) \/ PruneStep(c)
    PROVE  \/ Puts(c) \/ Clears(c)
           \/ Retry /\ UNCHANGED objVars
           \/ /\ AtStep({"upsert"}, c) /\ c \notin Generated(Kind, wk.mem.spec)
              /\ Continue /\ UNCHANGED objVars
<1>1. CASE upsertObjectIfNeeded(c)
  BY <1>1, StandsAt DEF upsertObjectIfNeeded, Puts, AtStep
<1>2. CASE PruneStep(c)
  BY <1>2, StandsAt DEF PruneStep, Puts, Clears, AtStep
<1> QED
  BY <1>1, <1>2

LEMMA PutsElsewhere ==
    ASSUME TInv, NEW c, Puts(c) \/ Clears(c), NEW k \in Keys, k # Key(wk.n, c)
    PROVE  obj'[k] = obj[k]
<1>1. obj \in [Keys -> Objects \cup {NoObj}]
  BY DEF TInv, ObjType
<1> QED
  BY <1>1 DEF Puts, Clears, CreateOrUpdate, deleteObjectIfNeeded, StoreObj, objVars

LEMMA WorkerBecomes ==
    ASSUME TInv, OnPlan, Worker, NEW k \in Keys
    PROVE  Becomes(k)
<1>1. obj' = obj => Becomes(k)
  BY DEF Becomes, Kept
<1>2. CASE ParseConfig \/ addFinalizerIfNeeded \/ handleObjectDeletion
           \/ \E n \in CRs : Dequeue(n)
  BY <1>1, <1>2 DEF ParseConfig, addFinalizerIfNeeded, handleObjectDeletion, Dequeue, objVars
<1>3. CASE deleteExternalResources
  BY <1>3, DeletesCleanedUp DEF Becomes, Kept, Cleaned
<1>4. ASSUME NEW c \in Tracked, upsertObjectIfNeeded(c) \/ PruneStep(c)
      PROVE  Becomes(k)
  <2>1. CASE Puts(c) \/ Clears(c)
    BY <2>1, PutsElsewhere DEF Becomes, Kept
  <2> QED
    BY <1>1, <1>4, <2>1, ComponentStep DEF objVars
<1>5. ASSUME NEW c \in Tracked, PollJob(c) \/ JobTimeout(c) \/ StatusStep(c)
      PROVE  Becomes(k)
  BY <1>1, <1>5 DEF PollJob, JobTimeout, StatusStep, objVars
<1>6. ASSUME NEW c \in Tracked, PartitionStep(c)
      PROVE  Becomes(k)
  <2>1. c = "partition"
    BY <1>6, StandsAt, OnTheTable, Tables DEF PartitionStep, WaitsAndReports
  <2>2. k = Key(wk.n, c) => k[3] = "partition"
    BY <2>1, KeyParts
  <2>3. k # Key(wk.n, c) => obj'[k] = obj[k]
    BY <1>6 DEF PartitionStep, SkipPartition, StoreObj, objVars, TInv, ObjType
  <2> QED
    BY <2>2, <2>3 DEF Becomes, Kept
<1> QED
  BY <1>2, <1>3, <1>4, <1>5, <1>6 DEF Worker, ReconcileStep

LEMMA ObjectBecomes ==
    ASSUME TInv, OnPlan, [Next]_vars, NEW k \in Keys
    PROVE  Becomes(k)
<1>1. obj \in [Keys -> Objects \cup {NoObj}] /\ NoObj \notin Objects
  BY InstallAssumption DEF TInv, ObjType
<1>2. ASSUME NEW ck, StoreObj(ck, NoObj), lost' = lost \cup {ck} PROVE Becomes(k)
  BY <1>1, <1>2 DEF StoreObj, Becomes, Removed, Kept
<1>3. obj' = obj => Becomes(k)
  BY DEF Becomes, Kept
<1>4. ASSUME NEW ck \in Keys, NEW outcome \in Outcomes, EndJob(ck, outcome)
      PROVE  Becomes(k)
  <2> DEFINE o == [obj[ck] EXCEPT !.status = outcome]
  <2>1. o \in Objects /\ o.content = obj[ck].content
    BY <1>1, <1>4 DEF EndJob, Objects, Outcomes, Verdicts
  <2>2. StoreObj(ck, o) /\ obj[ck] # NoObj
    BY <1>4 DEF EndJob
  <2> HIDE DEF o
  <2> QED
    BY <1>1, <2>1, <2>2 DEF StoreObj, Becomes, Kept
<1>5. CASE ClusterSteps
  BY <1>2, <1>4, <1>5 DEF ClusterSteps, CollectGarbage, Outcomes
<1>6. CASE Faults \/ Watches
  BY <1>3, <1>6 DEF Faults, Watches, CallFails, Restart, ObserveCR, ObserveObj, Resync, objVars
<1>7. CASE Users
  BY <1>2, <1>3, <1>7 DEF Users, CreateCR, EditCR, DeleteCR, DeleteChild, objVars
<1> QED
  BY <1>3, <1>5, <1>6, <1>7, WorkerBecomes DEF Next, vars, objVars

\* What the worker has put is there, with the content of the spec in hand.
Laid(n, c, spec) ==
    Key(n, c) \notin lost' =>
        /\ obj'[Key(n, c)] # NoObj
        /\ c \in Defaulted => obj'[Key(n, c)].content = Content(n, c, spec)

LEMMA PutsLay ==
    ASSUME TInv, ObjFresh, StillThere, NEW c \in Tracked \ CleanedUp, Puts(c)
    PROVE  Laid(wk.n, c, wk.mem.spec)
<1> DEFINE k == Key(wk.n, c)
           want == ReconcileComponents(wk.n, c, wk.mem, objCache[k])
           new == NewObject(wk.n, c, wk.mem)
<1>1. /\ k \in Keys /\ obj \in [Keys -> Objects \cup {NoObj}] /\ NoObj \notin Objects
      /\ objCache \in [Keys -> Objects \cup {NoObj}]
      /\ wk.n \in CRs /\ wk.mem \in CRRecords
  BY KeyType, InstallAssumption DEF Puts, AtStep, TInv, ObjType, WorkType, WorkerHolds
<1>2. lost' = lost
  BY DEF Puts, world
<1>3. c \in Defaulted => c \in Mutable /\ c \notin ConfigFree
  BY DEF Defaulted, Mutable, Components, Jobs, ConfigFree, ClusterScoped
<1>4. CASE obj[k] = NoObj /\ StoreObj(k, new)
  <2>1. new \in Objects /\ new.content = Content(wk.n, c, wk.mem.spec)
    BY <1>1, ObjectType DEF NewObject
  <2> HIDE DEF new
  <2> QED
    BY <1>1, <1>4, <2>1 DEF StoreObj, Laid
<1>5. CASE /\ objCache[k] # NoObj /\ UNCHANGED objVars
           /\ want = objCache[k] /\ c \notin Defaulted
  <2>1. k \notin lost => obj[k] # NoObj
    <3>1. k[3] = c /\ c # "cronJob"
      BY <1>5, KeyParts DEF Defaulted
    <3> QED
      BY <1>1, <1>5, <3>1 DEF StillThere
  <2> QED
    BY <1>2, <1>5, <2>1 DEF Laid, objVars
<1>6. CASE /\ objCache[k] # NoObj /\ k \in objFresh
           /\ IF want # objCache[k] THEN StoreObj(k, want) ELSE UNCHANGED objVars
  <2>1. objCache[k] = obj[k] /\ obj[k] \in Objects
    BY <1>1, <1>6 DEF ObjFresh
  <2>2. want \in Objects
    BY <1>1, <2>1, ObjectType
  <2>3. c \in Defaulted => want.content = Content(wk.n, c, wk.mem.spec)
    BY <1>3, <2>1 DEF ReconcileComponents, Objects
  <2>4. obj'[k] = want
    <3> HIDE DEF want
    <3> QED
      BY <1>1, <1>6, <2>1 DEF StoreObj, objVars
  <2> HIDE DEF want
  <2> QED
    BY <1>1, <2>2, <2>3, <2>4 DEF Laid
<1>7. \/ obj[k] = NoObj /\ StoreObj(k, new)
      \/ objCache[k] # NoObj /\ UNCHANGED objVars /\ want = objCache[k] /\ c \notin Defaulted
      \/ /\ objCache[k] # NoObj /\ k \in objFresh
         /\ IF want # objCache[k] THEN StoreObj(k, want) ELSE UNCHANGED objVars
  BY DEF Puts, CreateOrUpdate
<1> QED
  BY <1>4, <1>5, <1>6, <1>7

LEMMA ClearsAway ==
    ASSUME TInv, NEW c \in Tracked, Clears(c)
    PROVE  obj'[Key(wk.n, c)] = NoObj
<1>1. Key(wk.n, c) \in Keys /\ obj \in [Keys -> Objects \cup {NoObj}]
  BY KeyType DEF Clears, AtStep, TInv, ObjType, WorkType, WorkerHolds
<1> QED
  BY <1>1 DEF Clears, deleteObjectIfNeeded, StoreObj, objVars

LEMMA StillThereStep ==
    ASSUME TInv, ObjFresh, OnPlan, StillThere, [Next]_vars
    PROVE  StillThere'
<1> SUFFICES ASSUME NEW k \in Keys, k \notin lost', k[3] \notin {"cronJob"} \cup CleanedUp,
                    objCache'[k] # NoObj
             PROVE  obj'[k] # NoObj
  BY DEF StillThere
<1>1. /\ obj \in [Keys -> Objects \cup {NoObj}] /\ NoObj \notin Objects
      /\ Busy => wk.n \in CRs /\ wk.mem \in CRRecords
  BY InstallAssumption DEF TInv, ObjType, WorkType, WorkerHolds
<1>2. obj[k] # NoObj
  BY LostGrows, CachesCopy DEF StillThere
<1>3. CASE k[3] = "partition"
  <2>1. ~Vanishes(k)
    BY <1>3 DEF Vanishes, Jobs
  <2>2. Written(k)
    BY ObjWrites
  <2> QED
    BY <1>2, <2>1, <2>2 DEF Written, KeepsStatus, Ends, Made
<1>4. ASSUME NEW c \in Tracked, k = Key(wk.n, c), Puts(c)
      PROVE  obj'[k] # NoObj
  <2> DEFINE want == ReconcileComponents(wk.n, c, wk.mem, objCache[k])
  <2>1. obj' = obj \/ (objCache[k] # NoObj /\ k \in objFresh /\ StoreObj(k, want))
    BY <1>2, <1>4 DEF Puts, CreateOrUpdate, objVars
  <2>2. objCache[k] # NoObj /\ k \in objFresh => want \in Objects
    BY <1>1, <1>4, ObjectType DEF ObjFresh, Puts, AtStep
  <2> HIDE DEF want
  <2> QED
    BY <1>1, <1>2, <2>1, <2>2 DEF StoreObj
<1>5. ASSUME NEW c \in Tracked, k = Key(wk.n, c), Clears(c)
      PROVE  FALSE
  <2>1. c = "cronJob"
    BY <1>5, OnTheTable, Tables DEF Clears, AtStep, WaitsAndReports
  <2> QED
    BY <1>5, <2>1, KeyParts
<1> QED
  BY <1>2, <1>3, <1>4, <1>5, ObjectBecomes DEF Becomes, Removed, Cleaned, Kept

-----------------------------------------------------------------------------
(***************************************************************************)
(* How a step of the table ends.                                           *)
(***************************************************************************)
\* The worker is moved on, or comes to rest without a retry, by a step of its own.
LEMMA MovesItself ==
    ASSUME TInv, [Next]_vars, Busy, ~(Busy' /\ wk'.pc = wk.pc), ~Restart, wk.n \notin queue'
    PROVE  ReconcileStep /\ ~deleteExternalResources /\ ~Retry
<1>1. wk \in Workers
  BY DEF TInv, WorkType
<1>2. wk' # wk /\ \A n : ~OvertakeWorker(n)
  BY <1>1 DEF Busy, OvertakeWorker, Workers
<1>3. ~Retry
  BY DEF Retry
<1>4. ~(Faults \/ Watches \/ ClusterSteps)
  BY <1>2, <1>3 DEF Faults, Watches, ClusterSteps, CallFails, ObserveCR, ObserveObj, Resync,
                    CollectGarbage, EndJob
<1>5. ~Users
  BY <1>2 DEF Users, CreateCR, EditCR, DeleteCR, DeleteChild
<1>6. \A n : ~Dequeue(n)
  BY DEF Dequeue, Busy
<1>7. ~deleteExternalResources
  BY <1>1 DEF deleteExternalResources, Busy, Workers
<1> QED
  BY <1>2, <1>3, <1>4, <1>5, <1>6, <1>7 DEF Next, Worker, vars

\* The worker that comes to rest without a retry has no component left to see to.
LEMMA ComesToRest ==
    ASSUME TInv, [Next]_vars, Busy, ~Busy', ~Restart, wk.n \notin queue'
    PROVE  \/ StepsAfter(wk.pc) = {}
           \/ Steps[wk.pc].op \in {"partition", "status"}
           \/ wk.mem.deleting
<1>1. wk \in Workers
  BY DEF TInv, WorkType
<1>2. ReconcileStep /\ ~deleteExternalResources /\ ~Retry
  BY MovesItself
<1>3. ASSUME NEW w \in Workers, w.pc = wk.pc, wk' \in Advance(w)
      PROVE  StepsAfter(wk.pc) = {}
  BY <1>3, StepsStart DEF Advance, StepsAfter, Busy, Workers, FinalizeEarly
<1>4. Continue => StepsAfter(wk.pc) = {}
  BY <1>1, <1>3 DEF Continue
<1>5. \A status \in Verdicts : ReadBack(status) => StepsAfter(wk.pc) = {}
  BY <1>1, <1>3 DEF ReadBack, Workers
<1>6. CASE ParseConfig
  BY <1>2, <1>4, <1>6 DEF ParseConfig
<1>7. CASE addFinalizerIfNeeded
  <2> DEFINE r == [wk.mem EXCEPT !.fin = TRUE]
             w == [wk EXCEPT !.mem = r]
  <2>1. r \in CRRecords
    BY DEF TInv, WorkType, WorkerHolds, CRRecords
  <2>2. w \in Workers /\ w.pc = wk.pc
    BY <1>1, <2>1 DEF Workers
  <2>3. Continue \/ Retry \/ wk' \in Advance(w)
    BY <1>7 DEF addFinalizerIfNeeded, WriteInHand
  <2> HIDE DEF r, w
  <2> QED
    BY <1>2, <1>3, <1>4, <2>2, <2>3
<1>8. CASE handleObjectDeletion
  BY <1>8 DEF handleObjectDeletion
<1>9. ASSUME NEW c \in Tracked, upsertObjectIfNeeded(c) \/ PruneStep(c)
       PROVE  StepsAfter(wk.pc) = {}
  BY <1>2, <1>4, <1>9 DEF upsertObjectIfNeeded, PruneStep, CreateOrUpdate, deleteObjectIfNeeded
<1>10. ASSUME NEW c \in Tracked, PollJob(c) \/ JobTimeout(c)
       PROVE  StepsAfter(wk.pc) = {}
  <2>1. Key(wk.n, c) \in Keys
    BY KeyType DEF TInv, WorkType, WorkerHolds
  <2>2. objCache[Key(wk.n, c)] # NoObj => objCache[Key(wk.n, c)].status \in Verdicts
    BY <2>1 DEF TInv, ObjType, Objects
  <2> QED
    BY <1>2, <1>4, <1>5, <1>10, <2>2 DEF PollJob, JobTimeout
<1>11. ASSUME NEW c \in Tracked, PartitionStep(c) \/ StatusStep(c)
       PROVE  Steps[wk.pc].op \in {"partition", "status"}
  BY <1>11, StandsAt DEF PartitionStep, StatusStep
<1> QED
  BY <1>2, <1>6, <1>7, <1>8, <1>9, <1>10, <1>11 DEF ReconcileStep

\* The worker that leaves a component behind without a retry has seen to it.
LEMMA StepTaken ==
    ASSUME TInv, [Next]_vars, Busy, ~(Busy' /\ wk'.pc = wk.pc), ~Restart, wk.n \notin queue',
           NEW c \in Tracked, Steps[wk.pc].c = c, Steps[wk.pc].op \in {"upsert", "prune"}
    PROVE  \/ Puts(c) \/ Clears(c)
           \/ Steps[wk.pc].op = "upsert" /\ c \notin Generated(Kind, wk.mem.spec)
<1>1. ReconcileStep /\ ~deleteExternalResources /\ ~Retry
  BY MovesItself
<1>2. ~(ParseConfig \/ addFinalizerIfNeeded \/ handleObjectDeletion)
  BY StandsAt DEF ParseConfig, addFinalizerIfNeeded, handleObjectDeletion
<1>3. \A d : ~(PollJob(d) \/ JobTimeout(d) \/ PartitionStep(d) \/ StatusStep(d))
  BY StandsAt DEF PollJob, JobTimeout, PartitionStep, StatusStep
<1>4. PICK d \in Tracked : upsertObjectIfNeeded(d) \/ PruneStep(d)
  BY <1>1, <1>2, <1>3 DEF ReconcileStep
<1>5. d = c
  BY <1>4, StandsAt DEF upsertObjectIfNeeded, PruneStep
<1> QED
  BY <1>1, <1>4, <1>5, ComponentStep DEF AtStep

\* What is passed after a step was so before, or is what the step was about.
LEMMA PassedBefore ==
    ASSUME TInv, OnPlan, OwnTable, InStep, [Next]_vars, NEW n \in CRs, n \notin queue,
           n \notin queue', ~Restart, Live(crCache[n]),
           NEW i \in 1..Len(Steps), Busy' /\ wk'.n = n => i < wk'.pc,
           Steps[i].c \in Tracked, Steps[i].op \in {"upsert", "prune"}
    PROVE  Passed(n, i) \/ (InHand(n) /\ i = wk.pc /\ ~(Busy' /\ wk'.pc = wk.pc))
<1> SUFFICES ASSUME InHand(n), ~(i < wk.pc)
             PROVE  i = wk.pc /\ ~(Busy' /\ wk'.pc = wk.pc)
  BY DEF Passed
<1>1. Busy /\ wk.n = n /\ wk.pc \in 1..Len(Steps) /\ Len(Steps) \in Nat
  BY OnTheTable DEF InHand
<1>2. i \in StepsAfter(wk.pc) \/ i = wk.pc
  BY <1>1 DEF StepsAfter
<1>3. CASE Busy'
  <2>1. wk'.n = n /\ i < wk'.pc
    BY <1>1, <1>3, KeepsHold DEF Dequeue, Busy
  <2>2. ~Starts
    BY <2>1 DEF Starts
  <2>3. ~Stays
    BY <2>1 DEF Stays
  <2>4. Goes
    BY <1>3, <2>2, <2>3, Moves
  <2>5. i \notin StepsAfter(wk.pc) /\ wk'.pc \in Nat /\ wk'.pc > wk.pc
    BY <1>1, <2>1, <2>4 DEF Goes, StepsAfter
  <2> QED
    BY <1>1, <1>2, <2>5
<1>4. CASE ~Busy'
  <2>1. ~wk.mem.deleting
    BY <1>1 DEF InStep, InHand, Live
  <2>2. Steps[wk.pc].op \notin {"partition", "status"}
    BY <1>1 DEF OwnTable
  <2>3. StepsAfter(wk.pc) = {}
    BY <1>1, <1>4, <2>1, <2>2, ComesToRest
  <2> QED
    BY <1>2, <1>4, <2>3
<1> QED
  BY <1>3, <1>4

\* Whoever is seen to is seen to as its spec asks.
LEMMA SeenTo ==
    ASSUME TInv, ObjFresh, OnPlan, OwnTable, NamesApart, InStep, StillThere,
           NEW n \in CRs, n \notin queue, NEW i \in 1..Len(Steps),
           Steps[i].c \in Tracked, Steps[i].op \in {"upsert", "prune"},
           NEW c \in Tracked, Key(wk.n, c) = Key(n, Steps[i].c), Puts(c) \/ Clears(c)
    PROVE  /\ Asked(i, crCache[n].spec) => Laid(n, Steps[i].c, crCache[n].spec)
           /\ Unwanted(i, crCache[n].spec) => obj'[Key(n, Steps[i].c)] = NoObj
<1>1. Busy /\ Steps[wk.pc].c = c /\ Steps[wk.pc].op \in {"upsert", "prune"} /\ wk.n \in CRs
  BY DEF Puts, Clears, AtStep, TInv, WorkType, WorkerHolds
<1>2. c = Steps[i].c
  BY KeyParts
<1>3. Steps[wk.pc].op = Steps[i].op
  <2>1. wk.pc \in 1..Len(Steps)
    BY <1>1, OnTheTable
  <2>2. /\ Steps[wk.pc].op = "prune" <=> c = "cronJob"
        /\ Steps[i].op = "prune" <=> c = "cronJob"
    BY <1>1, <1>2, <2>1 DEF OwnTable
  <2> QED
    BY <1>1, <2>2
<1>4. Asked(i, crCache[n].spec) \/ Unwanted(i, crCache[n].spec) => c \notin ClusterScoped
  <2>1. "cronJob" \notin ClusterScoped
    BY DEF ClusterScoped
  <2> QED
    BY <1>2, <2>1 DEF Asked, Unwanted, OwnTable
<1>5. CASE c \in PulsarJobs \ CleanedUp
  <2>1. c \notin Defaulted /\ c # "cronJob"
    BY <1>5 DEF PulsarJobs, Defaulted
  <2>2. Puts(c)
    BY <1>1, <1>2, <1>3, <2>1 DEF Clears, AtStep, OwnTable
  <2>3. Laid(wk.n, c, wk.mem.spec)
    BY <1>5, <2>2, PutsLay
  <2>4. Laid(n, c, crCache[n].spec)
    BY <1>2, <2>1, <2>3 DEF Laid
  <2> QED
    BY <1>2, <2>1, <2>4 DEF Unwanted, OwnTable
<1>6. CASE c \notin PulsarJobs
  <2> SUFFICES ASSUME Asked(i, crCache[n].spec) \/ Unwanted(i, crCache[n].spec)
               PROVE  /\ Asked(i, crCache[n].spec) => Laid(n, c, crCache[n].spec)
                      /\ Unwanted(i, crCache[n].spec) => obj'[Key(n, c)] = NoObj
    BY <1>2
  <2>1. wk.n = n
    <3>1. wk.n[1] = n[1] /\ wk.n[2] = n[2]
      BY <1>2, <1>4, <1>6, KeyParts
    <3> QED
      BY <1>1, <3>1 DEF NamesApart
  <2>2. wk.mem.spec = crCache[n].spec
    BY <1>1, <2>1 DEF InStep, InHand
  <2>3. CASE Puts(c)
    <3>1. Asked(i, crCache[n].spec) => Laid(n, c, crCache[n].spec)
      BY <1>2, <2>1, <2>2, <2>3, PutsLay DEF Asked
    <3>2. ~Unwanted(i, crCache[n].spec)
      BY <1>3, <2>2, <2>3 DEF Puts, Unwanted
    <3> QED
      BY <3>1, <3>2
  <2>4. CASE Clears(c)
    <3>1. obj'[Key(n, c)] = NoObj
      BY <2>1, <2>4, ClearsAway
    <3>2. ~Asked(i, crCache[n].spec)
      BY <1>3, <2>2, <2>4 DEF Clears, AtStep, Asked
    <3> QED
      BY <3>1, <3>2
  <2> QED
    BY <2>3, <2>4
<1>7. CASE c \in CleanedUp \cap PulsarJobs
  BY <1>2, <1>7 DEF Asked, Unwanted, PulsarJobs, OwnTable
<1> QED
  BY <1>5, <1>6, <1>7

LEMMA PlacedStep ==
    ASSUME TInv, ObjFresh, OnPlan, NamesApart, RInv, [Next]_vars
    PROVE  Placed'
<1> USE DEF RInv
<1> SUFFICES ASSUME NEW n \in CRs, n \notin queue', Live(crCache'[n]),
                    NEW i \in 1..Len(Steps), Busy' /\ wk'.n = n => i < wk'.pc
             PROVE  /\ Asked(i, crCache'[n].spec) => Laid(n, Steps[i].c, crCache'[n].spec)
                    /\ Unwanted(i, crCache'[n].spec) => obj'[Key(n, Steps[i].c)] = NoObj
  BY DEF Placed, Passed, InHand, Busy, InPlace, Laid, Live
<1> DEFINE c == Steps[i].c
           spec == crCache[n].spec
           k == Key(n, c)
<1>1. crCache'[n] = crCache[n] /\ ~Restart /\ (n \notin queue \/ Dequeue(n))
  BY AsleepBefore DEF Asleep
<1>2. n \notin queue
  <2>1. ASSUME Dequeue(n) PROVE FALSE
    <3>1. wk' = [pc |-> 1, n |-> n, mem |-> crCache[n], fresh |-> n \in crFresh,
                 del |-> 0, job |-> "none"]
      BY <1>1, <2>1 DEF Dequeue, Live, Idle
    <3> QED
      BY <3>1 DEF Busy
  <2> QED
    BY <1>1, <2>1
<1> SUFFICES ASSUME Asked(i, spec) \/ Unwanted(i, spec)
             PROVE  /\ Asked(i, spec) => Laid(n, c, spec)
                    /\ Unwanted(i, spec) => obj'[k] = NoObj
  BY <1>1
<1>3. /\ c \in Tracked /\ Steps[i].op \in {"upsert", "prune"} /\ Live(crCache[n])
      /\ Asked(i, spec) => c \notin CleanedUp
  BY <1>1 DEF Asked, Unwanted
<1> OwnTable
  <2>1. spec \in Specs
    BY <1>3 DEF Live, TInv, CRType, CRRecords
  <2> QED
    BY <2>1, OwnTableHolds
<1>4. k \in Keys /\ k[3] = c /\ c # "partition"
  BY <1>3, KeyType, KeyParts DEF OwnTable
<1>5. ASSUME NEW d \in Tracked, k = Key(wk.n, d), Puts(d) \/ Clears(d)
      PROVE  /\ Asked(i, spec) => Laid(n, c, spec)
             /\ Unwanted(i, spec) => obj'[k] = NoObj
  BY <1>2, <1>3, <1>5, SeenTo
<1>6. CASE Passed(n, i)
  <2>1. /\ Asked(i, spec) => InPlace(n, c, spec)
        /\ Unwanted(i, spec) => obj[k] = NoObj
    BY <1>2, <1>3, <1>6 DEF Placed
  <2>2. lost \subseteq lost'
    BY LostGrows
  <2>3. \/ Removed(k) \/ Cleaned(k) \/ Kept(k)
        \/ \E d \in Tracked : k = Key(wk.n, d) /\ (Puts(d) \/ Clears(d))
    BY <1>4, ObjectBecomes DEF Becomes
  <2>4. CASE Removed(k) \/ Cleaned(k) \/ Kept(k)
    BY <1>3, <1>4, <2>1, <2>2, <2>4 DEF Removed, Cleaned, Kept, InPlace, Laid
  <2> QED
    BY <1>5, <2>3, <2>4
<1>7. CASE InHand(n) /\ i = wk.pc /\ ~(Busy' /\ wk'.pc = wk.pc)
  <2>1. wk.n = n /\ Busy /\ wk.mem.spec = spec
    BY <1>2, <1>7 DEF InHand, InStep
  <2>2. \/ Puts(c) \/ Clears(c)
        \/ Steps[i].op = "upsert" /\ c \notin Generated(Kind, spec)
    BY <1>1, <1>3, <1>7, <2>1, StepTaken
  <2>3. ~(Steps[i].op = "upsert" /\ c \notin Generated(Kind, spec))
    BY DEF Asked, Unwanted
  <2> QED
    BY <1>3, <1>5, <2>1, <2>2, <2>3
<1> QED
  BY <1>1, <1>2, <1>3, <1>6, <1>7, PassedBefore

-----------------------------------------------------------------------------
(***************************************************************************)
(* The theorems.                                                           *)
(***************************************************************************)
\* The invariant holds in every reachable state.
THEOREM RestInvariance ==
    ASSUME NamesApart
    PROVE  Spec => []RInv
<1>1. Init => RInv
  BY IdleType DEF Init, RInv, InStep, StillThere, Placed, InHand, Busy, Live
<1>2. LInv /\ RInv /\ [Next]_vars => RInv'
  <2> SUFFICES ASSUME LInv, RInv, [Next]_vars PROVE RInv'
    OBVIOUS
  <2>1. TInv /\ ObjFresh /\ OnPlan
    BY TypesSplit DEF LInv, IInv
  <2>2. Placed'
    BY <2>1, PlacedStep
  <2> QED
    BY <2>1, <2>2, InStepStep, StillThereStep DEF RInv
<1> QED
  BY <1>1, <1>2, LifecycleInvariance, PTL DEF Spec

\* Who generates a pruning CronJob has a step for it.
LEMMA PrunersHaveAStep ==
    ASSUME NEW spec, "cronJob" \in Generated(Kind, spec)
    PROVE  \E i \in 1..Len(Steps) : Steps[i] = Step("prune", "cronJob")
<1>1. Kind \in {"Lookout", "Scheduler"}
  BY DEF Generated, generateArmadaServerInstallComponents, generateExecutorInstallComponents,
         generateBinocularsInstallComponents, generateEventIngesterComponents,
         generateLookoutIngesterComponents, generateSchedulerIngesterComponents,
         IngesterComponents, OwnServiceAccount, newProfilingComponents, Given
<1>2. CASE Kind = "Lookout"
  <2>1. Len(Steps) = 13 /\ Steps[10] = Step("prune", "cronJob")
    BY <1>2 DEF Steps, Reconcile, LookoutReconcile, JobRun
  <2> QED
    BY <2>1
<1>3. CASE Kind = "Scheduler"
  <2>1. Len(Steps) = 14 /\ Steps[14] = Step("prune", "cronJob")
    BY <1>3 DEF Steps, Reconcile, SchedulerReconcile, JobRun
  <2> QED
    BY <2>1
<1> QED
  BY <1>1, <1>2, <1>3

\* Nothing is at work on a custom resource at rest: all its steps are behind it.
LEMMA SettledIsPlaced ==
    ASSUME RInv, NEW n \in CRs, Settled(n), Live(crCache[n]), NEW i \in 1..Len(Steps)
    PROVE  /\ Asked(i, crCache[n].spec) => InPlace(n, Steps[i].c, crCache[n].spec)
           /\ Unwanted(i, crCache[n].spec) => obj[Key(n, Steps[i].c)] = NoObj
  BY DEF RInv, Placed, Passed, InHand, Settled

\* Whatever events, reconciles, edits, faults and restarts there were, and in
\* whatever order: once nothing is queued or at work, every component of the spec
\* the operator has seen is there, unless removed behind its back, and the
\* workloads carry its configuration.
THEOREM InstalledOnceAtRest ==
    ASSUME NamesApart
    PROVE  Spec => []InstalledAtRest
<1>1. RInv => InstalledAtRest
  <2> SUFFICES ASSUME RInv, NEW n \in CRs, Settled(n), Live(crCache[n]),
                      NEW c \in Installed(crCache[n].spec) \ CleanedUp
               PROVE  InPlace(n, c, crCache[n].spec)
    BY DEF InstalledAtRest, InPlace
  <2> DEFINE spec == crCache[n].spec
  <2>1. c \in Tracked /\ c \in Generated(Kind, spec)
    BY DEF Installed
  <2>2. CASE \E i \in DOMAIN Steps : Steps[i] = Upsert(c)
    <3>1. PICK i \in 1..Len(Steps) : Steps[i] = Upsert(c)
      BY <2>2, StepsStart DEF FinalizeEarly
    <3>2. Steps[i].c = c /\ Asked(i, spec)
      BY <2>1, <3>1, StepFields DEF Asked
    <3> QED
      BY <3>2, SettledIsPlaced
  <2>3. CASE c = "cronJob" /\ "pruning" \in spec.on
    <3>1. PICK i \in 1..Len(Steps) : Steps[i] = Step("prune", "cronJob")
      BY <2>1, <2>3, PrunersHaveAStep
    <3>2. Steps[i].c = c /\ Asked(i, spec)
      BY <2>1, <2>3, <3>1, StepFields DEF Asked
    <3> QED
      BY <3>2, SettledIsPlaced
  <2> QED
    BY <2>2, <2>3 DEF Installed
<1> QED
  BY <1>1, RestInvariance, PTL

\* With pruning off there is no pruning CronJob once nothing is queued or at work.
THEOREM UnprunedAtRest ==
    ASSUME NamesApart, Kind \in {"Lookout", "Scheduler"}, "cronJob" \in Tracked
    PROVE  Spec => []NoPrunerAtRest
<1>2. PICK i \in 1..Len(Steps) : Steps[i] = Step("prune", "cronJob")
  <2>1. \A spec : "cronJob" \in Generated(Kind, spec)
    BY DEF Generated, generateLookoutInstallComponents, generateSchedulerInstallComponents
  <2> QED
    BY <2>1, PrunersHaveAStep
<1>3. Steps[i].c = "cronJob" /\ Steps[i].op = "prune"
  BY <1>2, StepFields
<1>4. RInv => NoPrunerAtRest
  BY <1>3, SettledIsPlaced DEF NoPrunerAtRest, Unwanted
<1> QED
  BY <1>4, RestInvariance, PTL

-----------------------------------------------------------------------------
(***************************************************************************)
(* The condition of a Lookout at rest.                                     *)
(***************************************************************************)
JobSeen(n, c) == objCache[Key(n, c)]

\* The operator has seen all it needs to report on the partition Job.
Due(n) ==
    /\ n \in crFresh /\ Live(cr[n]) /\ "partitionJobTable" \in cr[n].spec.on
    /\ JobSeen(n, "migration") # NoObj /\ JobSeen(n, "migration").status = "complete"
    /\ JobSeen(n, "partition") # NoObj

\* A report that is due is made, or the worker is on its way to make it, with the
\* status of the migration in hand and at last that of the partition Job.
Reported ==
    \A n \in CRs : n \notin queue /\ Due(n) =>
        IF InHand(n)
        THEN /\ wk.mem.cond = cr[n].cond
             /\ wk.pc > 6 => wk.job = IF Steps[wk.pc].op = "status"
                                      THEN JobSeen(n, "partition").status ELSE "complete"
        ELSE cr[n].cond = JobSeen(n, "partition").status

\* A step that leaves n asleep shows nothing new of it, nor of its Jobs.
LEMMA JobCacheWakes ==
    ASSUME Kind = "Lookout", TInv, [Next]_vars, NEW n \in CRs, NEW c \in Jobs \cap Tracked
    PROVE  JobSeen(n, c)' = JobSeen(n, c) \/ n \in queue' \/ Restart
<1> DEFINE k == Key(n, c)
<1>1. objCache \in [Keys -> Objects \cup {NoObj}] /\ k \in Keys /\ k[3] = c /\ c \in Owned
  BY KeyType, KeyParts DEF TInv, ObjType, Owned
<1>2. ASSUME NEW j \in Keys, ObserveObj(j) PROVE objCache'[k] = objCache[k] \/ n \in queue'
  BY <1>1, <1>2 DEF ObserveObj
<1>3. CASE Watches \/ Faults
  BY <1>2, <1>3 DEF Watches, Faults, CallFails, ObserveCR, Resync, objVars, JobSeen
<1> QED
  BY <1>3, CachesMove DEF JobSeen

LEMMA FreshCR ==
    ASSUME TInv, [Next]_vars, NEW n \in CRs, n \notin queue', ~Restart, n \in crFresh'
    PROVE  n \in crFresh /\ cr'[n] = cr[n]
<1>1. cr \in [CRs -> CRRecords \cup {NoCR}]
  BY DEF TInv, CRType
<1>2. ASSUME NEW m, NEW r, StoreCR(m, r) PROVE n \in crFresh /\ cr'[n] = cr[n]
  BY <1>1, <1>2 DEF StoreCR
<1>3. \A r, next : WriteInHand(r, next) => n \in crFresh /\ cr'[n] = cr[n]
  BY <1>2 DEF WriteInHand, crVars
<1>4. CASE Worker
  <2>1. ReconcileStep => n \in crFresh /\ cr'[n] = cr[n]
    BY <1>3 DEF ReconcileStep, ParseConfig, addFinalizerIfNeeded, deleteExternalResources,
       handleObjectDeletion, upsertObjectIfNeeded, PruneStep, PollJob, JobTimeout,
       PartitionStep, StatusStep, crVars
  <2> QED
    BY <1>4, <2>1 DEF Worker, Dequeue, crVars
<1>5. CASE Faults \/ Watches \/ ClusterSteps
  BY <1>5 DEF Faults, Watches, ClusterSteps, CallFails, ObserveCR, ObserveObj, Resync,
              CollectGarbage, EndJob, crVars
<1>6. CASE Users
  BY <1>2, <1>6 DEF Users, CreateCR, EditCR, DeleteCR, DeleteChild, crVars
<1> QED
  BY <1>4, <1>5, <1>6 DEF Next, vars, crVars

LEMMA DueBefore ==
    ASSUME Kind = "Lookout", {"migration", "partition"} \subseteq Tracked,
           TInv, [Next]_vars, NEW n \in CRs, n \notin queue', Due(n)'
    PROVE  /\ Due(n) /\ cr'[n] = cr[n] /\ ~Restart /\ (n \notin queue \/ Dequeue(n))
           /\ JobSeen(n, "migration")' = JobSeen(n, "migration")
           /\ JobSeen(n, "partition")' = JobSeen(n, "partition")
<1>1. ~Restart
  BY DEF Restart, Due, Live
<1>2. n \in crFresh /\ cr'[n] = cr[n]
  BY <1>1, FreshCR DEF Due
<1>3. /\ JobSeen(n, "migration")' = JobSeen(n, "migration")
      /\ JobSeen(n, "partition")' = JobSeen(n, "partition")
  BY <1>1, JobCacheWakes DEF Jobs
<1>4. Due(n)
  BY <1>2, <1>3 DEF Due, Live
<1> QED
  BY <1>1, <1>2, <1>3, <1>4, QueueKeeps

LEMMA LookoutWaits ==
    ASSUME Kind = "Lookout", {"migration", "partition"} \subseteq Tracked
    PROVE  /\ Len(Steps) = 13 /\ Steps[6].op = "wait" /\ Steps[6].c = "migration"
           /\ Steps[12].op = "partition" /\ Steps[12].c = "partition"
           /\ Steps[13].op = "status" /\ Steps[13].c = "partition"
           /\ \A i \in 1..13 : /\ Steps[i].op = "wait" => i = 6
                               /\ Steps[i].op = "partition" => i = 12
                               /\ Steps[i].op = "status" => i = 13
                               /\ i < 6 => 6 \in StepsAfter(i)
                               /\ i < 13 => 13 \in StepsAfter(i)
<1>1. /\ Len(Steps) = 13 /\ Steps[1] = Finalize /\ Steps[2] = Parse
      /\ Steps[3] = Upsert("serviceAccount") /\ Steps[4] = Upsert("secret")
      /\ Steps[5] = Upsert("migration") /\ Steps[6] = Step("wait", "migration")
      /\ Steps[7] = Upsert("deployment") /\ Steps[8] = Upsert("service")
      /\ Steps[9] = Upsert("ingressHttp") /\ Steps[10] = Step("prune", "cronJob")
      /\ Steps[11] = Upsert("serviceMonitor") /\ Steps[12] = Step("partition", "partition")
      /\ Steps[13] = Step("status", "partition")
  BY DEF Steps, Reconcile, LookoutReconcile, JobRun
<1>2. /\ Steps[6].op = "wait" /\ Steps[6].c = "migration"
      /\ Steps[12].op = "partition" /\ Steps[12].c = "partition"
      /\ Steps[13].op = "status" /\ Steps[13].c = "partition"
      /\ \A i \in 1..13 : /\ Steps[i].op = "wait" => i = 6
                          /\ Steps[i].op = "partition" => i = 12
                          /\ Steps[i].op = "status" => i = 13
  BY <1>1, StepFields
<1> QED
  BY <1>1, <1>2 DEF StepsAfter

\* The worker goes on with the right status in hand.
LEMMA DueGoes ==
    ASSUME Kind = "Lookout", {"migration", "partition"} \subseteq Tracked, TInv, OnPlan, Goes,
           Due(wk.n), wk'.pc > 6,
           wk.pc > 6 => wk.job = IF Steps[wk.pc].op = "status"
                                 THEN JobSeen(wk.n, "partition").status ELSE "complete"
    PROVE  wk'.job = IF Steps[wk'.pc].op = "status"
                     THEN JobSeen(wk.n, "partition").status ELSE "complete"
<1> USE LookoutWaits
<1>1. wk.pc \in 1..13 /\ wk'.pc \in 1..13 /\ wk'.pc > wk.pc
  BY OnTheTable DEF Goes, StepsAfter
<1>2. /\ Steps[wk'.pc].op = "status" <=> Steps[wk.pc].op = "partition"
      /\ Steps[wk.pc].op # "status"
  BY OnlyFromPartition
<1>3. wk.pc >= 6
  BY <1>1 DEF Goes
<1>4. "migration" \in Generated(Kind, wk.mem.spec)
  BY DEF Generated, generateLookoutInstallComponents
<1>5. CASE wk.pc = 6
  <2>1. Reads
    BY <1>1, <1>4, <1>5 DEF Goes, PassesBy
  <2> QED
    BY <1>1, <1>2, <1>5, <2>1 DEF Reads, Due, JobSeen
<1>6. CASE wk.pc = 12
  <2>1. Reads
    BY <1>1, <1>6 DEF Goes, PassesBy
  <2> QED
    BY <1>1, <1>2, <1>6, <2>1 DEF Reads, Due, JobSeen
<1>7. CASE wk.pc # 6 /\ wk.pc # 12
  <2>1. Steps[wk.pc].op \notin {"wait", "partition"}
    BY <1>1, <1>7
  <2>2. wk'.job = wk.job
    BY <2>1 DEF Goes, PassesBy, Reads
  <2> QED
    BY <1>1, <1>2, <1>3, <1>7, <2>1, <2>2
<1> QED
  BY <1>5, <1>6, <1>7

\* The worker comes to rest with the report made.
LEMMA DueRests ==
    ASSUME Kind = "Lookout", {"migration", "partition"} \subseteq Tracked, TInv, OnPlan,
           [Next]_vars, Busy, ~Busy', ~Restart, wk.n \notin queue', wk.n \in crFresh',
           Due(wk.n), wk.mem.spec = cr[wk.n].spec, wk.mem.deleting = cr[wk.n].deleting,
           wk.mem.cond = cr[wk.n].cond,
           wk.pc > 6 => wk.job = IF Steps[wk.pc].op = "status"
                                 THEN JobSeen(wk.n, "partition").status ELSE "complete"
    PROVE  cr[wk.n].cond = JobSeen(wk.n, "partition").status
<1> USE LookoutWaits
<1>1. wk.pc \in 1..13
  BY OnTheTable
<1>2. ReconcileStep /\ ~deleteExternalResources /\ ~Retry
  BY MovesItself
<1>3. wk.pc < 13 => 13 \in StepsAfter(wk.pc)
  BY <1>1
<1>4. Steps[wk.pc].op \in {"partition", "status"}
  <2>1. ~wk.mem.deleting
    BY DEF Due, Live
  <2> QED
    BY <1>1, <1>3, <2>1, ComesToRest
<1>5. PICK c \in Tracked : PartitionStep(c) \/ StatusStep(c)
  <2>1. ~(ParseConfig \/ addFinalizerIfNeeded \/ handleObjectDeletion)
    BY <1>4, StandsAt DEF ParseConfig, addFinalizerIfNeeded, handleObjectDeletion
  <2>2. \A c : ~(upsertObjectIfNeeded(c) \/ PruneStep(c) \/ PollJob(c) \/ JobTimeout(c))
    BY <1>4, StandsAt DEF upsertObjectIfNeeded, PruneStep, PollJob, JobTimeout
  <2> QED
    BY <1>2, <2>1, <2>2 DEF ReconcileStep
<1>6. ~PartitionStep(c)
  <2> SUFFICES ASSUME PartitionStep(c) PROVE FALSE
    OBVIOUS
  <2>1. wk.pc = 12 /\ c = "partition"
    BY <1>1, StandsAt DEF PartitionStep
  <2>2. MayPartition(c)
    <3>1. c \in Generated(Kind, wk.mem.spec)
      BY <2>1 DEF Generated, generateLookoutInstallComponents, Given, Due
    <3> QED
      BY <1>1, <2>1, <3>1 DEF MayPartition
  <2>3. PICK status \in Verdicts : ReadBack(status)
    <3>1. Key(wk.n, c) \in Keys
      BY KeyType DEF TInv, WorkType, WorkerHolds
    <3>2. objCache[Key(wk.n, c)] # NoObj => objCache[Key(wk.n, c)].status \in Verdicts
      BY <3>1 DEF TInv, ObjType, Objects
    <3>3. "running" \in Verdicts
      BY DEF Verdicts
    <3> QED
      BY <1>2, <2>2, <3>2, <3>3 DEF PartitionStep
  <2> DEFINE w == [wk EXCEPT !.job = status]
  <2>4. wk' \in Advance(w) /\ w.pc = 12
    BY <2>1, <2>3 DEF ReadBack, TInv, WorkType, Workers
  <2> HIDE DEF w
  <2>5. StepsAfter(w.pc) # {}
    BY <1>3, <2>1, <2>4
  <2>6. PICK j \in StepsAfter(w.pc) : wk' = [w EXCEPT !.pc = j]
    BY <2>4, <2>5 DEF Advance
  <2>7. w \in Workers
    BY <2>3 DEF w, TInv, WorkType, Workers
  <2> QED
    BY <1>1, <2>6, <2>7 DEF Busy, Workers, StepsAfter
<1>7. wk.mem.cond = wk.job
  <2>1. \A r : ~StoreCR(wk.n, r)
    BY DEF StoreCR
  <2> QED
    BY <1>2, <1>5, <1>6, <2>1 DEF StatusStep, WriteInHand
<1>8. Steps[wk.pc].op = "status" /\ wk.pc = 13
  BY <1>1, <1>5, <1>6, StandsAt DEF StatusStep
<1> QED
  BY <1>7, <1>8

LEMMA ReportedStep ==
    ASSUME Kind = "Lookout", {"migration", "partition"} \subseteq Tracked, TInv, CRInv, OnPlan,
           InStep, Reported, [Next]_vars
    PROVE  Reported'
<1> DEFINE Way(w, n) == w.pc > 6 => w.job = IF Steps[w.pc].op = "status"
                                            THEN JobSeen(n, "partition").status ELSE "complete"
<1> SUFFICES ASSUME NEW n \in CRs, n \notin queue', Due(n)'
             PROVE  IF Busy' /\ wk'.n = n
                    THEN wk'.mem.cond = cr[n].cond /\ Way(wk', n)
                    ELSE cr[n].cond = JobSeen(n, "partition").status
  <2>1. ASSUME NEW n \in CRs, n \notin queue', Due(n)'
        PROVE  cr'[n] = cr[n] /\ JobSeen(n, "partition")' = JobSeen(n, "partition")
    BY <2>1, DueBefore
  <2> QED
    BY <2>1 DEF Reported, InHand, Busy
<1>1. Due(n) /\ ~Restart /\ (n \notin queue \/ Dequeue(n)) /\ n \in crFresh'
  BY DueBefore DEF Due
<1>2. crCache[n] = cr[n] /\ cr[n] # NoCR
  BY <1>1 DEF CRInv, CacheFresh, Due, Live
<1>3. CASE Dequeue(n)
  <2>1. wk' = [pc |-> 1, n |-> n, mem |-> crCache[n], fresh |-> n \in crFresh,
               del |-> 0, job |-> "none"]
    BY <1>2, <1>3 DEF Dequeue, Idle
  <2> QED
    BY <1>2, <2>1 DEF Busy
<1>4. CASE n \notin queue /\ InHand(n)
  <2>1. /\ Busy /\ wk.n = n /\ wk.mem.cond = cr[n].cond /\ Way(wk, n)
        /\ wk.mem.spec = cr[n].spec /\ wk.mem.deleting = cr[n].deleting
    BY <1>1, <1>2, <1>4 DEF Reported, InHand, InStep
  <2>2. CASE ~Busy'
    <3>1. cr[n].cond = JobSeen(n, "partition").status
      BY <1>1, <2>1, <2>2, DueRests
    <3> QED
      BY <2>2, <3>1
  <2>3. CASE Busy'
    <3>1. wk'.n = n
      BY <2>1, <2>3, KeepsHold DEF Dequeue, Busy
    <3>2. Starts => wk'.mem = crCache[n] /\ ~(wk'.pc > 6)
      BY <3>1 DEF Starts
    <3>3. Stays => wk'.mem = wk.mem /\ Way(wk', n)
      BY <2>1 DEF Stays
    <3>4. Goes => wk'.mem.cond = wk.mem.cond /\ Way(wk', n)
      BY <1>1, <2>1, DueGoes DEF Goes
    <3> QED
      BY <1>2, <2>1, <2>3, <3>1, <3>2, <3>3, <3>4, Moves
  <2> QED
    BY <2>2, <2>3
<1>5. CASE n \notin queue /\ ~InHand(n)
  <2>1. ASSUME Busy', wk'.n = n PROVE FALSE
    <3>1. PICK m \in CRs : Dequeue(m)
      BY <1>5, <2>1, KeepsHold DEF InHand
    <3>2. m = n
      BY <2>1, <3>1, IdleType DEF Dequeue, Busy
    <3> QED
      BY <1>5, <3>1, <3>2 DEF Dequeue
  <2> QED
    BY <1>1, <1>5, <2>1 DEF Reported
<1> QED
  BY <1>1, <1>3, <1>4, <1>5

\* At rest the condition shows the outcome of the partition Job that the operator
\* has seen end, whichever events were lost, doubled or late on the way.
THEOREM VerdictShown ==
    ASSUME NamesApart, Kind = "Lookout", {"migration", "partition"} \subseteq Tracked
    PROVE  Spec => []VerdictReported
<1>1. Init => Reported
  BY DEF Init, Reported, Due, Live
<1>2. LInv /\ RInv /\ Reported /\ [Next]_vars => Reported'
  <2> SUFFICES ASSUME LInv, RInv, Reported, [Next]_vars PROVE Reported'
    OBVIOUS
  <2>1. TInv /\ CRInv /\ OnPlan /\ InStep
    BY TypesSplit DEF LInv, IInv, RInv
  <2> QED
    BY <2>1, ReportedStep
<1>3. Reported => VerdictReported
  BY DEF Reported, Due, JobSeen, VerdictReported, Settled, InHand
<1> QED
  BY <1>1, <1>2, <1>3, LifecycleInvariance, RestInvariance, PTL DEF Spec

-----------------------------------------------------------------------------
(***************************************************************************)
(* The finalizer at rest.                                                  *)
(***************************************************************************)
\* Only a custom resource with a finalizer can be marked for deletion.
Marked(r) == r # NoCR /\ r.deleting => r.fin

AllMarked == /\ \A n \in CRs : Marked(cr[n]) /\ Marked(crCache[n])
             /\ Busy => Marked(wk.mem)

\* A custom resource the operator is up to date with has its finalizer and its
\* deletion is not pending, or it is in hand just as it is.
Guarded ==
    \A n \in CRs : n \notin queue /\ n \in crFresh /\ cr[n] # NoCR =>
        IF InHand(n) THEN wk.mem = cr[n] ELSE cr[n].fin /\ ~cr[n].deleting

\* What the worker has in hand is a copy just taken up, or the one it had, unless
\* it is at the finalizer.
LEMMA HeldAsItWas ==
    ASSUME TInv, [Next]_vars, Busy', ~addFinalizerIfNeeded
    PROVE  \/ \E n \in CRs : Dequeue(n) /\ crCache[n] # NoCR /\ wk'.mem = crCache[n] /\ wk'.n = n
           \/ Busy /\ wk'.n = wk.n /\ wk'.mem = wk.mem
<1>1. ASSUME NEW n \in CRs, Dequeue(n)
      PROVE  crCache[n] # NoCR /\ wk'.mem = crCache[n] /\ wk'.n = n
  <2>1. crCache[n] # NoCR
    BY <1>1, IdleType DEF Dequeue, Busy
  <2>2. wk' = [pc |-> 1, n |-> n, mem |-> crCache[n], fresh |-> n \in crFresh,
               del |-> 0, job |-> "none"]
    BY <1>1, <2>1 DEF Dequeue, Idle
  <2> QED
    BY <2>1, <2>2
<1>2. CASE deleteExternalResources
  BY <1>2 DEF deleteExternalResources, At, Busy, TInv, WorkType, Workers
<1> QED
  BY <1>1, <1>2, StepsGoOn DEF GoesOn

LEMMA MarkedStep ==
    ASSUME TInv, AllMarked, [Next]_vars
    PROVE  AllMarked'
<1> USE DEF Marked
<1>1. /\ cr \in [CRs -> CRRecords \cup {NoCR}] /\ crCache \in [CRs -> CRRecords \cup {NoCR}]
      /\ Busy => wk \in Workers /\ wk.n \in CRs /\ wk.mem \in CRRecords
  BY DEF TInv, CRType, WorkType, WorkerHolds
<1>2. ASSUME NEW m \in CRs, NEW r, StoreCR(m, r), Marked(r)
      PROVE  \A n \in CRs : Marked(cr'[n]) /\ Marked(crCache'[n])
  BY <1>1, <1>2 DEF StoreCR, AllMarked
<1>3. UNCHANGED crVars => \A n \in CRs : Marked(cr'[n]) /\ Marked(crCache'[n])
  BY DEF AllMarked, crVars
<1>4. CASE addFinalizerIfNeeded
  <2> DEFINE r == [wk.mem EXCEPT !.fin = TRUE]
  <2>1. Busy
    BY <1>4 DEF addFinalizerIfNeeded, At, Busy
  <2>2. r \in CRRecords /\ Marked(r)
    BY <1>1, <2>1 DEF CRRecords
  <2>3. UNCHANGED crVars \/ StoreCR(wk.n, r)
    BY <1>4 DEF addFinalizerIfNeeded, WriteInHand
  <2>4. Busy' => ~wk'.mem.deleting
    BY <1>4, FinalizerGoesOn
  <2> HIDE DEF r
  <2> QED
    BY <1>1, <1>2, <1>3, <2>1, <2>2, <2>3, <2>4 DEF AllMarked
<1>5. ASSUME NEW c \in Tracked, StatusStep(c)
      PROVE  \A n \in CRs : Marked(cr'[n]) /\ Marked(crCache'[n])
  <2> DEFINE r == [wk.mem EXCEPT !.cond = wk.job]
  <2>1. Busy
    BY <1>5 DEF StatusStep, At, Busy
  <2>2. Marked(r)
    <3>1. wk.mem.deleting => wk.mem.fin
      BY <1>1, <2>1, InstallAssumption DEF AllMarked
    <3> QED
      BY <1>1, <2>1, <3>1 DEF CRRecords
  <2>3. UNCHANGED crVars \/ StoreCR(wk.n, r)
    BY <1>5 DEF StatusStep, WriteInHand
  <2> HIDE DEF r
  <2> QED
    BY <1>1, <1>2, <1>3, <2>1, <2>2, <2>3
<1>6. \A n \in CRs : Marked(cr'[n]) /\ Marked(crCache'[n])
  <2>1. CASE Worker
    <3>1. handleObjectDeletion => UNCHANGED crVars \/ (Busy /\ StoreCR(wk.n, NoCR))
      BY DEF handleObjectDeletion, WriteInHand, At, Busy
    <3>2. ParseConfig \/ deleteExternalResources \/ (\E m \in CRs : Dequeue(m)) => UNCHANGED crVars
      BY DEF ParseConfig, deleteExternalResources, Dequeue
    <3>3. (\E c \in Tracked : \/ upsertObjectIfNeeded(c) \/ PruneStep(c) \/ PollJob(c)
                              \/ JobTimeout(c) \/ PartitionStep(c)) => UNCHANGED crVars
      BY DEF upsertObjectIfNeeded, PruneStep, PollJob, JobTimeout, PartitionStep
    <3>4. addFinalizerIfNeeded => \A n \in CRs : Marked(cr'[n]) /\ Marked(crCache'[n])
      BY <1>4 DEF AllMarked
    <3> QED
      BY <1>1, <1>2, <1>3, <1>5, <2>1, <3>1, <3>2, <3>3, <3>4 DEF Worker, ReconcileStep
  <2>2. CASE Faults \/ Watches \/ ClusterSteps
    <3>1. ASSUME NEW m \in CRs, ObserveCR(m)
          PROVE  \A n \in CRs : Marked(cr'[n]) /\ Marked(crCache'[n])
      BY <1>1, <3>1 DEF ObserveCR, AllMarked
    <3>2. Restart => \A n \in CRs : Marked(cr'[n]) /\ Marked(crCache'[n])
      BY DEF Restart, AllMarked
    <3> QED
      BY <1>3, <2>2, <3>1, <3>2 DEF Faults, Watches, ClusterSteps, CallFails, ObserveObj, Resync,
                                  CollectGarbage, EndJob
  <2>3. ASSUME NEW m \in CRs, NEW spec \in SpecChoices, CreateCR(m, spec) \/ EditCR(m, spec)
        PROVE  \A n \in CRs : Marked(cr'[n]) /\ Marked(crCache'[n])
    <3>1. CASE CreateCR(m, spec)
      BY <1>2, <3>1 DEF CreateCR
    <3>2. CASE EditCR(m, spec)
      <4> DEFINE r == [cr[m] EXCEPT !.spec = spec]
      <4>1. Marked(r)
        BY <1>1, <3>2 DEF EditCR, AllMarked, CRRecords
      <4>2. StoreCR(m, r)
        BY <3>2 DEF EditCR
      <4> HIDE DEF r
      <4> QED
        BY <1>2, <4>1, <4>2
    <3> QED
      BY <2>3, <3>1, <3>2
  <2>4. ASSUME NEW m \in CRs, DeleteCR(m)
        PROVE  \A n \in CRs : Marked(cr'[n]) /\ Marked(crCache'[n])
    <3> DEFINE r == IF cr[m].fin THEN [cr[m] EXCEPT !.deleting = TRUE] ELSE NoCR
    <3>1. Marked(r) /\ StoreCR(m, r)
      BY <1>1, <2>4 DEF DeleteCR, CRRecords
    <3> HIDE DEF r
    <3> QED
      BY <1>2, <3>1
  <2>5. CASE Users
    BY <1>3, <2>3, <2>4, <2>5 DEF Users, DeleteChild
  <2> QED
    BY <1>3, <2>1, <2>2, <2>5 DEF Next, vars
<1>7. Busy' => Marked(wk'.mem)
  <2>1. CASE addFinalizerIfNeeded
    BY <1>4, <2>1 DEF AllMarked
  <2>2. CASE ~addFinalizerIfNeeded /\ Busy'
    <3>1. \/ \E n \in CRs : crCache[n] # NoCR /\ wk'.mem = crCache[n]
          \/ Busy /\ wk'.mem = wk.mem
      BY <2>2, HeldAsItWas
    <3> QED
      BY <3>1 DEF AllMarked
  <2> QED
    BY <2>1, <2>2
<1> QED
  BY <1>6, <1>7 DEF AllMarked

\* A worker that comes to rest without a retry, and without a write of the custom
\* resource it had in hand as it is stored, leaves it with its finalizer.
LEMMA GuardedRests ==
    ASSUME TInv, AllMarked, FinalizedFirst, [Next]_vars, Busy, ~Busy', ~Restart,
           wk.n \notin queue', wk.n \in crFresh'
    PROVE  wk.mem.fin /\ ~wk.mem.deleting
<1>1. wk \in Workers /\ wk.mem \in CRRecords
  BY DEF TInv, WorkType, WorkerHolds
<1>2. ReconcileStep /\ ~deleteExternalResources /\ ~Retry
  BY MovesItself
<1>3. \A r : ~StoreCR(wk.n, r)
  BY DEF StoreCR
<1>4. CASE Finalized(wk.pc)
  BY <1>4 DEF FinalizedFirst
<1>5. CASE addFinalizerIfNeeded
  BY <1>2, <1>3, <1>5 DEF addFinalizerIfNeeded, WriteInHand
<1>6. CASE handleObjectDeletion
  <2>1. wk.mem.deleting /\ ~wk.mem.fin
    BY <1>2, <1>3, <1>6 DEF handleObjectDeletion, WriteInHand
  <2> QED
    BY <1>1, <2>1, InstallAssumption DEF AllMarked, Marked
<1>7. CASE ParseConfig
  <2>1. Continue
    BY <1>2, <1>7 DEF ParseConfig
  <2>2. StepsAfter(wk.pc) = {}
    BY <1>1, <2>1, StepsStart DEF Continue, Advance, StepsAfter, Busy, Workers, FinalizeEarly
  <2>3. wk.pc # 1
    BY <2>2, StepsStart, StepFields DEF StepsAfter, FinalizeEarly
  <2>4. wk.pc = 2 => Steps[1] = Finalize
    BY <1>7, StandsAt, StepsStart, StepFields DEF ParseConfig, FinalizeEarly
  <2>5. Finalized(wk.pc)
    BY <1>1, <2>3, <2>4 DEF Finalized, Busy, Workers
  <2> QED
    BY <1>4, <2>5
<1>8. ASSUME NEW c \in Tracked,
             \/ upsertObjectIfNeeded(c) \/ PruneStep(c) \/ PollJob(c)
             \/ JobTimeout(c) \/ PartitionStep(c) \/ StatusStep(c)
      PROVE  Finalized(wk.pc)
  <2>1. Steps[wk.pc].op \notin {"finalize", "parse"}
    BY <1>8, StandsAt DEF upsertObjectIfNeeded, PruneStep, PollJob, JobTimeout, PartitionStep,
                          StatusStep
  <2>2. wk.pc # 1 /\ wk.pc # 2
    BY <2>1, StepsStart, StepFields DEF FinalizeEarly
  <2> QED
    BY <1>1, <2>2 DEF Finalized, Busy, Workers
<1> QED
  BY <1>2, <1>4, <1>5, <1>6, <1>7, <1>8 DEF ReconcileStep

LEMMA GuardedStep ==
    ASSUME TInv, CRInv, AllMarked, Guarded, [Next]_vars
    PROVE  Guarded'
<1> SUFFICES ASSUME NEW n \in CRs, n \notin queue', n \in crFresh', cr'[n] # NoCR
             PROVE  IF Busy' /\ wk'.n = n THEN wk'.mem = cr'[n]
                    ELSE cr'[n].fin /\ ~cr'[n].deleting
  BY DEF Guarded, InHand
<1>1. ~Restart
  BY DEF Restart
<1>2. n \in crFresh /\ cr'[n] = cr[n] /\ crCache[n] = cr[n]
  BY <1>1, FreshCR DEF CRInv, CacheFresh
<1>3. n \notin queue \/ Dequeue(n)
  BY <1>1, QueueKeeps
<1>4. CASE Dequeue(n)
  <2>1. wk' = [pc |-> 1, n |-> n, mem |-> crCache[n], fresh |-> n \in crFresh,
               del |-> 0, job |-> "none"]
    BY <1>2, <1>4 DEF Dequeue, Idle
  <2> QED
    BY <1>2, <2>1 DEF Busy
<1>5. CASE n \notin queue /\ InHand(n)
  <2>1. Busy /\ wk.n = n /\ wk.mem = cr[n]
    BY <1>2, <1>5 DEF Guarded, InHand
  <2>2. CASE ~Busy'
    BY <1>1, <1>2, <2>1, <2>2, GuardedRests DEF CRInv
  <2>3. CASE Busy' /\ ~addFinalizerIfNeeded
    <3>1. \A m \in CRs : ~Dequeue(m)
      BY <2>1 DEF Dequeue, Busy
    <3> QED
      BY <1>2, <2>1, <2>3, <3>1, HeldAsItWas
  <2>4. CASE Busy' /\ addFinalizerIfNeeded
    <3>1. Continue
      <4>1. \A r : ~StoreCR(n, r)
        BY DEF StoreCR
      <4>2. ~Retry
        BY <2>1 DEF Retry
      <4> QED
        BY <2>1, <2>4, <4>1, <4>2 DEF addFinalizerIfNeeded, WriteInHand
    <3>2. wk'.n = wk.n /\ wk'.mem = wk.mem
      BY <2>1, <2>4, <3>1, WorkerGoesOn DEF GoesOn
    <3> QED
      BY <1>2, <2>1, <2>4, <3>2
  <2> QED
    BY <2>2, <2>3, <2>4
<1>6. CASE n \notin queue /\ ~InHand(n)
  <2>1. cr[n].fin /\ ~cr[n].deleting
    BY <1>2, <1>6 DEF Guarded
  <2>2. ASSUME Busy', wk'.n = n PROVE FALSE
    <3>1. ~Dequeue(n)
      BY <1>6 DEF Dequeue
    <3>2. ~Busy
      BY <1>6, <2>2, KeepsHold DEF InHand, Dequeue, Busy
    <3>3. ~addFinalizerIfNeeded
      BY <3>2 DEF addFinalizerIfNeeded, At, Busy
    <3> QED
      BY <2>2, <3>1, <3>2, <3>3, HeldAsItWas
  <2> QED
    BY <1>2, <2>1, <2>2
<1> QED
  BY <1>3, <1>4, <1>5, <1>6

\* Once nothing is queued or at work and the operator has seen the last change, a
\* custom resource carries the finalizer and no deletion of it is pending: no
\* deletion is forgotten, and none can come that would skip the cleanup.
THEOREM FinalizerAtRest == Spec => []GuardedAtRest
<1>1. Init => AllMarked /\ Guarded
  BY IdleType DEF Init, AllMarked, Marked, Guarded, Busy
<1>2. IInv /\ AllMarked /\ Guarded /\ [Next]_vars => (AllMarked /\ Guarded)'
  <2> SUFFICES ASSUME IInv, AllMarked, Guarded, [Next]_vars PROVE (AllMarked /\ Guarded)'
    OBVIOUS
  <2>1. TInv /\ CRInv
    BY TypesSplit DEF IInv
  <2> QED
    BY <2>1, MarkedStep, GuardedStep
<1>3. Guarded => GuardedAtRest
  BY DEF Guarded, GuardedAtRest, Settled, InHand
<1> QED
  BY <1>1, <1>2, <1>3, Invariance, PTL DEF Spec

=============================================================================
