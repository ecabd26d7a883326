----------------------------- MODULE InstallProofs -----------------------------
(***************************************************************************)
(* For every controller, every set of custom resources and every bound:    *)
(* the types, and that no object is created behind the back of a deletion. *)
(***************************************************************************)
EXTENDS InstallInvariant, TLAPS

-----------------------------------------------------------------------------
(***************************************************************************)
(* The tables and the way through them.                                    *)
(***************************************************************************)
AllSteps == [op : {"finalize", "parse", "upsert", "wait", "prune", "partition", "status"},
             c  : Components \cup {"none"}]

\* The finalizer and the parse come first, in either order.
FinalizeEarly(s) ==
    /\ s \in Seq(AllSteps) /\ Len(s) >= 2
    /\ \/ s[1] = Finalize /\ s[2] = Parse
       \/ s[1] = Parse /\ s[2] = Finalize

LEMMA FinalizeEarlyAppend ==
    ASSUME NEW s, NEW t \in Seq(AllSteps), FinalizeEarly(s)
    PROVE  FinalizeEarly(s \o t)
<1>1. \A S : \A u, v \in Seq(S) : Len(u) >= 2 =>
        /\ u \o v \in Seq(S) /\ Len(u \o v) >= 2
        /\ (u \o v)[1] = u[1] /\ (u \o v)[2] = u[2]
  OBVIOUS
<1> QED
  BY <1>1 DEF FinalizeEarly

LEMMA StepsAreSteps ==
    /\ Finalize \in AllSteps /\ Parse \in AllSteps
    /\ \A c \in Components :
          /\ Upsert(c) \in AllSteps
          /\ \A op \in {"wait", "prune", "partition", "status"} : Step(op, c) \in AllSteps
          /\ JobRun(c) \in Seq(AllSteps)
<1>1. \A op \in {"finalize", "parse", "upsert", "wait", "prune", "partition", "status"} :
        \A c \in Components \cup {"none"} : Step(op, c) \in AllSteps
  BY DEF AllSteps, Step
<1>2. \A c \in Components : <<Upsert(c), Step("wait", c)>> \in Seq(AllSteps)
  BY <1>1 DEF Upsert
<1> QED
  BY <1>1, <1>2 DEF Upsert, Finalize, Parse, JobRun

LEMMA ComponentNames ==
    {"binding", "clusterRole", "cronJob", "deployment", "extraBinding",
     "ingressGrpc", "ingressHttp", "ingressProfiling", "initPulsar", "migration",
     "partition", "podDisruptionBudget", "prometheusRule", "secret", "service",
     "serviceAccount", "serviceMonitor", "serviceProfiling", "waitForPulsar"}
        \subseteq Components
  BY DEF Components, Jobs

\* Every controller looks at the deletion timestamp and the finalizer in one of
\* its first two steps, before it writes anything else.
LEMMA StepsStart == FinalizeEarly(Steps)
<1> USE StepsAreSteps, ComponentNames
<1>1. CASE Kind = "Lookout"
  <2> DEFINE rest == <<Upsert("deployment"), Upsert("service"), Upsert("ingressHttp"),
                       Step("prune", "cronJob"), Upsert("serviceMonitor"),
                       Step("partition", "partition"), Step("status", "partition")>>
  <2>1. FinalizeEarly(<<Finalize, Parse, Upsert("serviceAccount"), Upsert("secret")>>)
    BY DEF FinalizeEarly
  <2>2. JobRun("migration") \in Seq(AllSteps) /\ rest \in Seq(AllSteps)
    OBVIOUS
  <2>3. FinalizeEarly(LookoutReconcile)
    BY <2>1, <2>2, FinalizeEarlyAppend DEF LookoutReconcile
  <2> QED
    BY <1>1, <2>3 DEF Steps, Reconcile
<1>2. CASE Kind = "Scheduler"
  <2> DEFINE rest == <<Upsert("deployment"), Upsert("service"), Upsert("serviceProfiling"),
                       Upsert("ingressGrpc"), Upsert("ingressProfiling"),
                       Upsert("serviceMonitor"), Upsert("prometheusRule"),
                       Step("prune", "cronJob")>>
  <2>1. FinalizeEarly(<<Finalize, Parse, Upsert("serviceAccount"), Upsert("secret")>>)
    BY DEF FinalizeEarly
  <2>2. JobRun("migration") \in Seq(AllSteps) /\ rest \in Seq(AllSteps)
    OBVIOUS
  <2>3. FinalizeEarly(SchedulerReconcile)
    BY <2>1, <2>2, FinalizeEarlyAppend DEF SchedulerReconcile
  <2> QED
    BY <1>2, <2>3 DEF Steps, Reconcile
<1>3. CASE Kind = "ArmadaServer"
  <2> DEFINE rest == <<Upsert("deployment"), Upsert("service"), Upsert("ingressGrpc"),
                       Upsert("ingressHttp"), Upsert("podDisruptionBudget"),
                       Upsert("prometheusRule"), Upsert("serviceMonitor")>>
  <2>1. FinalizeEarly(<<Parse, Finalize, Upsert("serviceAccount"), Upsert("secret")>>)
    BY DEF FinalizeEarly
  <2>2. /\ JobRun("waitForPulsar") \in Seq(AllSteps)
        /\ JobRun("initPulsar") \in Seq(AllSteps)
        /\ rest \in Seq(AllSteps)
    OBVIOUS
  <2>3. FinalizeEarly(ArmadaServerReconcile)
    BY <2>1, <2>2, FinalizeEarlyAppend DEF ArmadaServerReconcile
  <2> QED
    BY <1>3, <2>3 DEF Steps, Reconcile
<1>4. FinalizeEarly(ExecutorReconcile)
  BY DEF FinalizeEarly, ExecutorReconcile
<1>5. FinalizeEarly(BinocularsReconcile)
  BY DEF FinalizeEarly, BinocularsReconcile
<1>6. /\ FinalizeEarly(EventIngesterReconcile)
      /\ FinalizeEarly(LookoutIngesterReconcile)
      /\ FinalizeEarly(SchedulerIngesterReconcile)
  BY DEF FinalizeEarly, EventIngesterReconcile, LookoutIngesterReconcile,
         SchedulerIngesterReconcile
<1> QED
  BY <1>1, <1>2, <1>3, <1>4, <1>5, <1>6, InstallAssumption DEF Steps, Reconcile, Kinds

\* What the steps have in common: they go on to a later step, to rest, or leave
\* the worker where it is; from the first step the way leads to the second.
LEMMA AdvanceResult ==
    ASSUME NEW w, w.pc \in Nat, NEW v \in Advance(w)
    PROVE  \/ v = Idle
           \/ \E j \in Nat : v = [w EXCEPT !.pc = j] /\ j > w.pc /\ (w.pc = 1 => j = 2)
<1>1. CASE StepsAfter(w.pc) = {}
  BY <1>1 DEF Advance
<1>2. CASE StepsAfter(w.pc) # {}
  <2>1. PICK j \in StepsAfter(w.pc) :
            /\ \A i \in StepsAfter(w.pc) : j <= i
            /\ v = [w EXCEPT !.pc = j]
    BY <1>2 DEF Advance
  <2>2. j \in Nat /\ j > w.pc
    BY <2>1, StepsStart DEF StepsAfter, FinalizeEarly
  <2>3. ASSUME w.pc = 1 PROVE j = 2
    <3>1. 2 \in 1..Len(Steps) /\ Steps[2].c = "none"
      BY StepsStart DEF FinalizeEarly, Finalize, Parse, Step
    <3>2. 2 \in StepsAfter(w.pc)
      BY <2>3, <3>1 DEF StepsAfter
    <3> QED
      BY <2>1, <2>2, <2>3, <3>2
  <2> QED
    BY <2>1, <2>2, <2>3
<1> QED
  BY <1>1, <1>2

-----------------------------------------------------------------------------
(***************************************************************************)
(* Types.                                                                  *)
(***************************************************************************)
Workers == [pc : Nat, n : CRs \cup {NoCR}, mem : CRRecords \cup {NoCR},
            fresh : BOOLEAN, del : Nat, job : Verdicts]

CRType == /\ cr \in [CRs -> CRRecords \cup {NoCR}]
          /\ crCache \in [CRs -> CRRecords \cup {NoCR}]
          /\ crFresh \subseteq CRs

ObjType == /\ obj \in [Keys -> Objects \cup {NoObj}]
           /\ objCache \in [Keys -> Objects \cup {NoObj}]
           /\ objFresh \subseteq Keys

WorkType == queue \subseteq CRs /\ wk \in Workers /\ WorkerHolds

WorldType == /\ ended \subseteq Keys \X {"complete", "failed"}
             /\ lost \subseteq Keys
             /\ changes \in Nat
             /\ faults \in Nat

TInv == CRType /\ ObjType /\ WorkType /\ WorldType

LEMMA TypesSplit == TInv <=> TypeOK /\ WorkerHolds
  BY DEF TInv, TypeOK, CRType, ObjType, WorkType, WorldType, Workers

LEMMA IdleType == Idle \in Workers /\ Idle.pc = 0
  BY DEF Idle, Workers, Verdicts

LEMMA AdvanceType ==
    ASSUME NEW w \in Workers, w.pc # 0 => w.n \in CRs /\ w.mem \in CRRecords, w.pc # 0,
           NEW v \in Advance(w)
    PROVE  v \in Workers /\ (v.pc # 0 => v.n \in CRs /\ v.mem \in CRRecords)
<1>1. w.pc \in Nat
  BY DEF Workers
<1>2. CASE v = Idle
  BY <1>2, IdleType DEF Idle
<1>3. ASSUME NEW j \in Nat, v = [w EXCEPT !.pc = j]
      PROVE  v \in Workers /\ v.n = w.n /\ v.mem = w.mem
  BY <1>3 DEF Workers
<1> QED
  BY <1>1, <1>2, <1>3, AdvanceResult

LEMMA KeyType ==
    ASSUME NEW n \in CRs, NEW c \in Tracked
    PROVE  Key(n, c) \in Keys
  BY DEF Keys

LEMMA ContentType ==
    ASSUME NEW n \in CRs, NEW c, NEW spec \in Specs
    PROVE  Content(n, c, spec) \subseteq Apps \cup Namespaces
<1>1. n[1] \in Namespaces
  BY DEF Namespaces
<1>2. spec.app \in Apps
  BY DEF Specs
<1> QED
  BY <1>1, <1>2 DEF Content

LEMMA ObjectType ==
    ASSUME NEW n \in CRs, NEW c, NEW r \in CRRecords
    PROVE  /\ NewObject(n, c, r) \in Objects
           /\ \A o \in Objects : ReconcileComponents(n, c, r, o) \in Objects
<1>1. r.uid \in Nat /\ r.spec \in Specs
  BY DEF CRRecords
<1>2. Content(n, c, r.spec) \subseteq Apps \cup Namespaces
  BY <1>1, ContentType
<1>3. NewObject(n, c, r) \in Objects
  BY <1>1, <1>2 DEF NewObject, Objects, Verdicts
<1>4. ASSUME NEW o \in Objects
      PROVE  ReconcileComponents(n, c, r, o) \in Objects
  BY <1>2 DEF ReconcileComponents, Objects
<1> QED
  BY <1>3, <1>4

\* The writes keep the types.
LEMMA StoreTypes ==
    /\ CRType /\ (\E n \in CRs, r \in CRRecords \cup {NoCR} : StoreCR(n, r)) => CRType'
    /\ ObjType /\ (\E k \in Keys, o \in Objects \cup {NoObj} : StoreObj(k, o)) => ObjType'
    /\ CRType /\ UNCHANGED crVars => CRType'
    /\ ObjType /\ UNCHANGED objVars => ObjType'
    /\ WorkType /\ UNCHANGED <<queue, wk>> => WorkType'
    /\ WorldType /\ UNCHANGED world => WorldType'
  BY DEF CRType, ObjType, WorkType, WorkerHolds, Busy, WorldType, crVars, objVars, world,
         StoreCR, StoreObj

LEMMA WorkerTypes ==
    ASSUME WorkType
    PROVE  /\ Busy /\ Retry => WorkType'
           /\ Busy /\ Continue => WorkType'
           /\ Busy /\ (\E v \in Verdicts : ReadBack(v)) => WorkType'
           /\ queue' \subseteq CRs /\ wk' = Idle => WorkType'
<1> USE DEF WorkType, WorkerHolds, Busy
<1>1. queue' \subseteq CRs /\ wk' = Idle => WorkType'
  BY IdleType DEF Idle
<1>2. Busy /\ Retry => WorkType'
  BY <1>1 DEF Retry
<1>3. Busy /\ Continue => WorkType'
  BY AdvanceType DEF Continue
<1>4. ASSUME Busy, NEW v \in Verdicts, ReadBack(v)
      PROVE  WorkType'
  <2> DEFINE w == [wk EXCEPT !.job = v]
  <2>1. w \in Workers /\ w.pc = wk.pc /\ w.n = wk.n /\ w.mem = wk.mem
    BY DEF Workers
  <2>2. wk' \in Advance(w) /\ queue' = queue
    BY <1>4 DEF ReadBack
  <2> HIDE DEF w
  <2> QED
    BY <1>4, <2>1, <2>2, AdvanceType
<1> QED
  BY <1>1, <1>2, <1>3, <1>4

\* The worker's own writes of a custom resource.
LEMMA WriteInHandTypes ==
    ASSUME CRType, WorkType, Busy,
           NEW r \in CRRecords \cup {NoCR}, NEW next, WriteInHand(r, next),
           \A v \in next : v \in Workers /\ (v.pc # 0 => v.n \in CRs /\ v.mem \in CRRecords)
    PROVE  CRType' /\ WorkType'
<1>1. CASE wk.fresh
  <2>1. StoreCR(wk.n, r) /\ wk' \in next /\ queue' = queue
    BY <1>1 DEF WriteInHand
  <2>2. wk.n \in CRs
    BY DEF WorkType, WorkerHolds
  <2> QED
    BY <2>1, <2>2, StoreTypes DEF WorkType, WorkerHolds, Busy
<1>2. CASE ~wk.fresh
  BY <1>2, StoreTypes, WorkerTypes DEF WriteInHand
<1> QED
  BY <1>1, <1>2

LEMMA DequeueTypes ==
    ASSUME TInv, NEW n \in CRs, Dequeue(n)
    PROVE  TInv'
<1>1. CRType' /\ ObjType' /\ WorldType'
  BY StoreTypes DEF TInv, Dequeue
<1>2. queue' \subseteq CRs
  BY DEF TInv, WorkType, Dequeue
<1>3. CASE crCache[n] = NoCR
  BY <1>1, <1>2, <1>3, WorkerTypes DEF TInv, Dequeue
<1>4. CASE crCache[n] # NoCR
  <2>1. crCache[n] \in CRRecords
    BY <1>4 DEF TInv, CRType
  <2>2. wk' = [pc |-> 1, n |-> n, mem |-> crCache[n], fresh |-> n \in crFresh,
               del |-> 0, job |-> "none"]
    BY <1>4 DEF Dequeue, Idle
  <2>3. wk' \in Workers /\ wk'.n = n /\ wk'.mem = crCache[n]
    BY <2>1, <2>2 DEF Workers, Verdicts
  <2> QED
    BY <1>1, <1>2, <2>1, <2>3 DEF TInv, WorkType, WorkerHolds
<1> QED
  BY <1>3, <1>4

LEMMA FinalizeTypes ==
    ASSUME TInv, addFinalizerIfNeeded \/ deleteExternalResources \/ handleObjectDeletion
    PROVE  TInv'
<1>1. Busy /\ wk.n \in CRs /\ wk.mem \in CRRecords /\ wk \in Workers
  BY DEF TInv, WorkType, WorkerHolds, Busy, At, addFinalizerIfNeeded,
         deleteExternalResources, handleObjectDeletion
<1>2. CASE addFinalizerIfNeeded
  <2> DEFINE r == [wk.mem EXCEPT !.fin = TRUE]
             w == [wk EXCEPT !.mem = r]
  <2>1. ObjType' /\ WorldType'
    BY <1>2, StoreTypes DEF TInv, addFinalizerIfNeeded
  <2>2. CASE wk.mem.fin
    BY <1>1, <1>2, <2>1, <2>2, StoreTypes, WorkerTypes DEF TInv, addFinalizerIfNeeded
  <2>3. CASE ~wk.mem.fin
    <3>1. r \in CRRecords
      BY <1>1 DEF CRRecords
    <3>2. w \in Workers /\ w.pc = wk.pc /\ w.n = wk.n /\ w.mem = r
      BY <1>1, <3>1 DEF Workers
    <3>3. WriteInHand(r, Advance(w))
      BY <1>2, <2>3 DEF addFinalizerIfNeeded
    <3> HIDE DEF r, w
    <3>4. \A v \in Advance(w) : v \in Workers /\ (v.pc # 0 => v.n \in CRs /\ v.mem \in CRRecords)
      BY <1>1, <3>1, <3>2, AdvanceType DEF Busy
    <3> QED
      BY <1>1, <2>1, <3>1, <3>3, <3>4, WriteInHandTypes DEF TInv
  <2> QED
    BY <2>2, <2>3
<1>3. CASE deleteExternalResources
  <2>1. CRType' /\ WorldType'
    BY <1>3, StoreTypes DEF TInv, deleteExternalResources
  <2>2. ObjType'
    BY <1>3, StoreTypes DEF TInv, deleteExternalResources
  <2>3. wk' \in Workers /\ wk'.n = wk.n /\ wk'.mem = wk.mem /\ queue' = queue
    BY <1>1, <1>3 DEF deleteExternalResources, Workers
  <2> QED
    BY <1>1, <2>1, <2>2, <2>3 DEF TInv, WorkType, WorkerHolds
<1>4. CASE handleObjectDeletion
  <2>1. ObjType' /\ WorldType'
    BY <1>4, StoreTypes DEF TInv, handleObjectDeletion
  <2>2. CASE wk.mem.fin
    <3>1. WriteInHand(NoCR, {Idle})
      BY <1>4, <2>2 DEF handleObjectDeletion
    <3>2. \A v \in {Idle} : v \in Workers /\ v.pc = 0
      BY IdleType
    <3> QED
      BY <1>1, <2>1, <3>1, <3>2, WriteInHandTypes DEF TInv
  <2>3. CASE ~wk.mem.fin
    BY <1>1, <1>4, <2>1, <2>3, StoreTypes, WorkerTypes
    DEF TInv, handleObjectDeletion, WorkType
  <2> QED
    BY <2>2, <2>3
<1> QED
  BY <1>2, <1>3, <1>4

\* What the worker reads and writes of the objects.
LEMMA CreateOrUpdateTypes ==
    ASSUME TInv, Busy, NEW c \in Tracked, CreateOrUpdate(c)
    PROVE  ObjType' /\ WorkType'
<1> DEFINE k == Key(wk.n, c)
           want == ReconcileComponents(wk.n, c, wk.mem, objCache[k])
<1>1. wk.n \in CRs /\ wk.mem \in CRRecords
  BY DEF TInv, WorkType, WorkerHolds
<1>2. k \in Keys
  BY <1>1, KeyType
<1>3. NewObject(wk.n, c, wk.mem) \in Objects
  BY <1>1, ObjectType
<1>4. objCache[k] # NoObj => want \in Objects
  BY <1>1, <1>2, ObjectType DEF TInv, ObjType
<1>5. \/ StoreObj(k, NewObject(wk.n, c, wk.mem))
      \/ objCache[k] # NoObj /\ StoreObj(k, want)
      \/ UNCHANGED objVars
  BY DEF CreateOrUpdate
<1>6. Continue \/ Retry
  BY DEF CreateOrUpdate
<1> HIDE DEF k, want
<1>7. ObjType'
  BY <1>2, <1>3, <1>4, <1>5, StoreTypes DEF TInv
<1>8. WorkType'
  BY <1>6, WorkerTypes DEF TInv
<1> QED
  BY <1>7, <1>8

LEMMA PartitionTypes ==
    ASSUME TInv, NEW c \in Tracked, PartitionStep(c)
    PROVE  TInv'
<1> DEFINE k == Key(wk.n, c)
<1>1. Busy /\ wk.n \in CRs /\ wk.mem \in CRRecords
  BY DEF TInv, WorkType, WorkerHolds, Busy, At, PartitionStep
<1>2. k \in Keys
  BY <1>1, KeyType
<1>3. NewObject(wk.n, c, wk.mem) \in Objects
  BY <1>1, ObjectType
<1>4. objCache[k] # NoObj => objCache[k].status \in Verdicts
  BY <1>2 DEF TInv, ObjType, Objects
<1>5. StoreObj(k, NewObject(wk.n, c, wk.mem)) \/ UNCHANGED objVars
  BY DEF PartitionStep, SkipPartition
<1>6. \/ Retry
      \/ wk' = Idle /\ UNCHANGED queue
      \/ \E v \in Verdicts : ReadBack(v)
  BY <1>4 DEF PartitionStep, SkipPartition, Verdicts
<1>7. CRType' /\ WorldType'
  BY StoreTypes DEF TInv, PartitionStep
<1> HIDE DEF k
<1>8. ObjType'
  BY <1>2, <1>3, <1>5, StoreTypes DEF TInv
<1>9. WorkType'
  BY <1>1, <1>6, WorkerTypes DEF TInv, WorkType
<1> QED
  BY <1>7, <1>8, <1>9 DEF TInv

LEMMA ComponentStepTypes ==
    ASSUME TInv, NEW c \in Tracked,
           \/ upsertObjectIfNeeded(c)
           \/ PruneStep(c)
           \/ PollJob(c)
           \/ JobTimeout(c)
           \/ StatusStep(c)
    PROVE  TInv'
<1>1. Busy /\ wk.n \in CRs /\ wk.mem \in CRRecords /\ wk \in Workers
  BY DEF TInv, WorkType, WorkerHolds, Busy, At, upsertObjectIfNeeded, PruneStep,
         PollJob, JobTimeout, StatusStep
<1>2. Key(wk.n, c) \in Keys
  BY <1>1, KeyType
<1>3. CASE upsertObjectIfNeeded(c)
  BY <1>1, <1>3, CreateOrUpdateTypes, StoreTypes, WorkerTypes
  DEF TInv, upsertObjectIfNeeded
<1>4. CASE PruneStep(c)
  <2>1. CRType' /\ WorldType'
    BY <1>4, StoreTypes DEF TInv, PruneStep
  <2>2. CASE CreateOrUpdate(c)
    BY <1>1, <2>1, <2>2, CreateOrUpdateTypes DEF TInv
  <2>3. CASE deleteObjectIfNeeded(c)
    BY <1>1, <1>2, <2>1, <2>3, StoreTypes, WorkerTypes DEF TInv, deleteObjectIfNeeded
  <2> QED
    BY <1>4, <2>2, <2>3 DEF PruneStep
<1>5. CASE PollJob(c)
  <2>1. CRType' /\ ObjType' /\ WorldType'
    BY <1>5, StoreTypes DEF TInv, PollJob
  <2>2. objCache[Key(wk.n, c)] # NoObj => objCache[Key(wk.n, c)].status \in Verdicts
    BY <1>2 DEF TInv, ObjType, Objects
  <2>3. Continue \/ Retry \/ \E v \in Verdicts : ReadBack(v)
    BY <1>5, <2>2 DEF PollJob
  <2> QED
    BY <1>1, <2>1, <2>3, WorkerTypes DEF TInv
<1>6. CASE JobTimeout(c)
  BY <1>1, <1>6, StoreTypes, WorkerTypes DEF TInv, JobTimeout
<1>7. CASE StatusStep(c)
  <2> DEFINE r == [wk.mem EXCEPT !.cond = wk.job]
  <2>1. ObjType' /\ WorldType'
    BY <1>7, StoreTypes DEF TInv, StatusStep
  <2>2. CASE wk.mem.cond = wk.job
    BY <1>1, <1>7, <2>1, <2>2, StoreTypes, WorkerTypes DEF TInv, WorkType, StatusStep
  <2>3. CASE wk.mem.cond # wk.job
    <3>1. WriteInHand(r, {Idle})
      BY <1>7, <2>3 DEF StatusStep
    <3>2. r \in CRRecords
      BY <1>1 DEF CRRecords, Workers
    <3>3. \A v \in {Idle} : v \in Workers /\ v.pc = 0
      BY IdleType
    <3> QED
      BY <1>1, <2>1, <3>1, <3>2, <3>3, WriteInHandTypes DEF TInv
  <2> QED
    BY <2>2, <2>3
<1> QED
  BY <1>3, <1>4, <1>5, <1>6, <1>7

\* The steps of the rest of the system.
LEMMA FaultAndWatchTypes ==
    ASSUME TInv, Faults \/ Watches
    PROVE  TInv'
<1>1. CASE CallFails
  BY <1>1, StoreTypes, WorkerTypes DEF TInv, WorldType, CallFails, Busy, WorkType, Workers
<1>2. CASE Restart
  BY <1>2, WorkerTypes DEF TInv, CRType, ObjType, WorkType, WorldType, Restart
<1>3. ASSUME NEW n \in CRs, ObserveCR(n)
      PROVE  TInv'
  BY <1>3, StoreTypes DEF TInv, CRType, WorkType, WorkerHolds, Busy, ObserveCR
<1>4. ASSUME NEW k \in Keys, ObserveObj(k)
      PROVE  TInv'
  BY <1>4, StoreTypes DEF TInv, ObjType, WorkType, WorkerHolds, Busy, ObserveObj
<1>5. CASE Resync
  BY <1>5, StoreTypes DEF TInv, WorkType, WorkerHolds, Busy, Resync
<1> QED
  BY <1>1, <1>2, <1>3, <1>4, <1>5 DEF Faults, Watches

LEMMA ClusterTypes ==
    ASSUME TInv, ClusterSteps
    PROVE  TInv'
<1>1. ASSUME NEW k \in Keys, CollectGarbage(k)
      PROVE  TInv'
  BY <1>1, StoreTypes DEF TInv, WorldType, CollectGarbage
<1>2. ASSUME NEW k \in Keys, NEW outcome \in {"complete", "failed"}, EndJob(k, outcome)
      PROVE  TInv'
  <2>1. [obj[k] EXCEPT !.status = outcome] \in Objects
    BY <1>2 DEF TInv, ObjType, EndJob, Objects, Verdicts
  <2>2. ObjType'
    BY <1>2, <2>1, StoreTypes DEF TInv, EndJob
  <2> QED
    BY <1>2, <2>2, StoreTypes DEF TInv, WorldType, EndJob
<1> QED
  BY <1>1, <1>2 DEF ClusterSteps

LEMMA UserTypes ==
    ASSUME TInv, Users
    PROVE  TInv'
<1>1. PICK n \in CRs : \/ \E spec \in SpecChoices : CreateCR(n, spec) \/ EditCR(n, spec)
                       \/ DeleteCR(n)
                       \/ \E c \in Deletable : DeleteChild(n, c)
  BY DEF Users
<1>2. cr[n] # NoCR => cr[n] \in CRRecords
  BY DEF TInv, CRType
<1>3. OvertakeWorker(n) /\ UNCHANGED queue => WorkType'
  BY DEF OvertakeWorker, TInv, WorkType, WorkerHolds, Busy, Workers
<1>4. UserChange(n) => queue' = queue /\ changes' \in Nat /\ changes' = changes + 1
  BY DEF UserChange, TInv, WorldType
<1>5. UserChange(n) /\ (lost' = lost \/ lost' \subseteq Keys) => WorldType'
  BY <1>4 DEF UserChange, TInv, WorldType
<1>6. ASSUME NEW spec \in SpecChoices, CreateCR(n, spec)
      PROVE  TInv'
  <2>1. [uid |-> changes', spec |-> spec, deleting |-> FALSE, fin |-> FALSE,
         cond |-> "none"] \in CRRecords
    BY <1>4, <1>6, InstallAssumption DEF CreateCR, CRRecords, Verdicts
  <2> QED
    BY <1>4, <1>5, <1>6, <2>1, StoreTypes DEF TInv, CreateCR
<1>7. ASSUME NEW spec \in SpecChoices, EditCR(n, spec)
      PROVE  TInv'
  <2>1. [cr[n] EXCEPT !.spec = spec] \in CRRecords
    BY <1>2, <1>7, InstallAssumption DEF EditCR, CRRecords
  <2> QED
    BY <1>3, <1>4, <1>5, <1>7, <2>1, StoreTypes DEF TInv, EditCR
<1>8. ASSUME DeleteCR(n)
      PROVE  TInv'
  <2>1. [cr[n] EXCEPT !.deleting = TRUE] \in CRRecords
    BY <1>2, <1>8 DEF DeleteCR, CRRecords
  <2> QED
    BY <1>3, <1>4, <1>5, <1>8, <2>1, StoreTypes DEF TInv, DeleteCR
<1>9. ASSUME NEW c \in Deletable, DeleteChild(n, c)
      PROVE  TInv'
  <2>1. Key(n, c) \in Keys
    BY KeyType, InstallAssumption
  <2>2. lost' \subseteq Keys
    BY <1>9, <2>1 DEF DeleteChild, TInv, WorldType
  <2> QED
    BY <1>4, <1>5, <1>9, <2>1, <2>2, StoreTypes DEF TInv, DeleteChild
<1> QED
  BY <1>1, <1>6, <1>7, <1>8, <1>9

LEMMA TypesHold == Spec => []TInv
<1>1. Init => TInv
  BY IdleType DEF Init, TInv, CRType, ObjType, WorkType, WorkerHolds, Busy, WorldType
<1>2. TInv /\ [Next]_vars => TInv'
  <2> SUFFICES ASSUME TInv, [Next]_vars PROVE TInv'
    OBVIOUS
  <2>1. CASE Worker
    <3>1. CASE ParseConfig
      BY <3>1, StoreTypes, WorkerTypes DEF TInv, ParseConfig, At, Busy
    <3> QED
      BY <2>1, <3>1, DequeueTypes, FinalizeTypes, PartitionTypes, ComponentStepTypes
      DEF Worker, ReconcileStep
  <2>2. CASE UNCHANGED vars
    BY <2>2, StoreTypes DEF TInv, vars
  <2> QED
    BY <2>1, <2>2, FaultAndWatchTypes, ClusterTypes, UserTypes DEF Next
<1> QED
  BY <1>1, <1>2, PTL DEF Spec

\* Whatever users, faults and watches do, every variable keeps its type.
THEOREM TypeCorrectness == Spec => []TypeOK
  BY TypesHold, TypesSplit, PTL

-----------------------------------------------------------------------------
(***************************************************************************)
(* The finalizer comes first.                                              *)
(***************************************************************************)
LEMMA AdvanceKeeps ==
    ASSUME NEW w \in Workers, NEW v \in Advance(w)
    PROVE  v = Idle \/ (v.n = w.n /\ v.mem = w.mem /\ v.fresh = w.fresh)
<1>1. w.pc \in Nat
  BY DEF Workers
<1>2. ASSUME NEW j \in Nat, v = [w EXCEPT !.pc = j]
      PROVE  v.n = w.n /\ v.mem = w.mem /\ v.fresh = w.fresh
  BY <1>2 DEF Workers
<1> QED
  BY <1>1, <1>2, AdvanceResult

\* From a step that is not the finalizer's the worker goes on with the same
\* custom resource, and is past the finalizer only if it was before.
LEMMA PastFinalize ==
    ASSUME TInv, Busy, Steps[wk.pc] # Finalize,
           NEW w \in Workers, w.pc = wk.pc, w.n = wk.n, w.mem = wk.mem, w.fresh = wk.fresh,
           NEW v \in Advance(w)
    PROVE  \/ v = Idle
           \/ /\ v.n = wk.n /\ v.mem = wk.mem /\ v.fresh = wk.fresh
              /\ Finalized(v.pc) => Finalized(wk.pc)
<1>1. wk.pc \in Nat /\ wk.pc # 0
  BY DEF TInv, WorkType, Workers, Busy
<1>2. ASSUME NEW j \in Nat, v = [w EXCEPT !.pc = j], wk.pc = 1 => j = 2
      PROVE  /\ v.n = wk.n /\ v.mem = wk.mem /\ v.fresh = wk.fresh
             /\ Finalized(v.pc) => Finalized(wk.pc)
  <2>1. v.n = wk.n /\ v.mem = wk.mem /\ v.fresh = wk.fresh /\ v.pc = j
    BY <1>2 DEF Workers
  <2>2. wk.pc = 1 => Steps[1] # Finalize
    OBVIOUS
  <2>3. wk.pc = 2 => Steps[1] = Finalize
    BY StepsStart DEF FinalizeEarly
  <2> QED
    BY <1>1, <1>2, <2>1, <2>2, <2>3 DEF Finalized
<1> QED
  BY <1>1, <1>2, AdvanceResult

\* A move of the worker that touches no custom resource.
Onward ==
    \/ wk' = Idle
    \/ /\ Busy /\ wk'.n = wk.n /\ wk'.mem = wk.mem /\ wk'.fresh = wk.fresh
       /\ Finalized(wk'.pc) => Finalized(wk.pc)

LEMMA OnwardKeeps ==
    ASSUME TInv, CRInv, UNCHANGED crVars, UNCHANGED changes, Onward \/ UNCHANGED wk
    PROVE  CRInv'
<1> USE DEF CRInv, CacheFresh, WorkFresh, UidsNumbered, SeenProtected, DeletionsStand,
            FinalizedFirst, crVars, Busy, Protected, StillDeleting
<1>1. CASE wk' = Idle
  BY <1>1 DEF Idle, Finalized
<1>2. CASE UNCHANGED wk
  BY <1>2
<1>3. CASE wk' # Idle /\ Onward
  BY <1>3 DEF Onward
<1> QED
  BY <1>1, <1>2, <1>3

LEMMA WorkerMoves ==
    ASSUME TInv, Busy, Steps[wk.pc] # Finalize,
           \/ Continue \/ Retry \/ \E v \in Verdicts : ReadBack(v)
    PROVE  Onward
<1>1. wk \in Workers
  BY DEF TInv, WorkType
<1>2. CASE Retry
  BY <1>2 DEF Retry, Onward
<1>3. CASE Continue
  BY <1>1, <1>3, PastFinalize DEF Continue, Onward
<1>4. ASSUME NEW u \in Verdicts, ReadBack(u)
      PROVE  Onward
  <2> DEFINE w == [wk EXCEPT !.job = u]
  <2>1. w \in Workers /\ w.pc = wk.pc /\ w.n = wk.n /\ w.mem = wk.mem /\ w.fresh = wk.fresh
    BY <1>1 DEF Workers
  <2>2. wk' \in Advance(w)
    BY <1>4 DEF ReadBack
  <2> HIDE DEF w
  <2> QED
    BY <2>1, <2>2, PastFinalize DEF Onward
<1> QED
  BY <1>2, <1>3, <1>4

\* A write of the custom resource in hand that keeps its uid, and its finalizer
\* and its deletion if it has them, or removes one that is being deleted.
LEMMA StoreInHandKeeps ==
    ASSUME TInv, CRInv, Busy, wk.fresh, UNCHANGED changes, wk' = Idle,
           NEW r \in CRRecords \cup {NoCR}, StoreCR(wk.n, r),
           \/ r = NoCR /\ wk.mem.deleting
           \/ /\ r # NoCR /\ r.uid = wk.mem.uid /\ r.deleting = wk.mem.deleting
              /\ wk.mem.fin => r.fin
    PROVE  CRInv'
<1>1. wk.n \in CRs /\ wk.mem \in CRRecords /\ wk.mem # NoCR /\ cr[wk.n] = wk.mem
  BY InstallAssumption DEF TInv, WorkType, WorkerHolds, CRInv, WorkFresh
<1>2. /\ cr' = [cr EXCEPT ![wk.n] = r] /\ crCache' = crCache
      /\ crFresh' = crFresh \ {wk.n} /\ cr \in [CRs -> CRRecords \cup {NoCR}]
      /\ crFresh \subseteq CRs
  BY DEF StoreCR, TInv, CRType
<1>3. CacheFresh'
  BY <1>2 DEF CRInv, CacheFresh
<1>4. ~Busy' /\ WorkFresh' /\ FinalizedFirst'
  BY DEF Busy, WorkFresh, FinalizedFirst, Idle, Finalized
<1>5. UidsNumbered'
  BY <1>1, <1>2, <1>4 DEF CRInv, UidsNumbered, Busy
<1>6. SeenProtected'
  <2> SUFFICES ASSUME NEW n \in CRs, crCache[n] # NoCR, crCache[n].fin, ~crCache[n].deleting
               PROVE  cr'[n] # NoCR /\ cr'[n].uid = crCache[n].uid /\ cr'[n].fin
    BY <1>2, <1>4 DEF SeenProtected, Protected
  <2>1. cr[n] # NoCR /\ cr[n].uid = crCache[n].uid /\ cr[n].fin
    BY DEF CRInv, SeenProtected, Protected
  <2>2. n = wk.n => ~wk.mem.deleting
    BY <1>1, <2>1 DEF CRInv, DeletionsStand, StillDeleting
  <2> QED
    BY <1>1, <1>2, <2>1, <2>2
<1>7. DeletionsStand'
  BY <1>1, <1>2, <1>4 DEF CRInv, DeletionsStand, StillDeleting, Busy
<1> QED
  BY <1>3, <1>4, <1>5, <1>6, <1>7 DEF CRInv

LEMMA AddFinalizerKeeps ==
    ASSUME TInv, CRInv, addFinalizerIfNeeded
    PROVE  CRInv'
<1> DEFINE r == [wk.mem EXCEPT !.fin = TRUE]
           w == [wk EXCEPT !.mem = r]
<1>1. /\ Busy /\ wk.n \in CRs /\ wk.mem \in CRRecords /\ wk \in Workers /\ ~wk.mem.deleting
      /\ changes' = changes
  BY DEF TInv, WorkType, WorkerHolds, Busy, At, addFinalizerIfNeeded, world
<1>2. CASE wk.mem.fin
  <2>1. UNCHANGED crVars /\ Continue
    BY <1>2 DEF addFinalizerIfNeeded
  <2>2. wk' = Idle \/ (wk'.n = wk.n /\ wk'.mem = wk.mem /\ wk'.fresh = wk.fresh)
    BY <1>1, <2>1, AdvanceKeeps DEF Continue
  <2>3. wk' = Idle => CRInv'
    BY <1>1, <2>1, OnwardKeeps DEF Onward
  <2> QED
    BY <1>1, <1>2, <2>1, <2>2, <2>3
    DEF CRInv, CacheFresh, WorkFresh, UidsNumbered, SeenProtected, DeletionsStand,
        FinalizedFirst, Finalized, crVars, Busy, Protected, StillDeleting
<1>3. CASE ~wk.mem.fin /\ ~wk.fresh
  BY <1>1, <1>3, OnwardKeeps DEF addFinalizerIfNeeded, WriteInHand, Retry, Onward
<1>4. CASE ~wk.mem.fin /\ wk.fresh
  <2>1. r \in CRRecords /\ r.uid = wk.mem.uid /\ r.deleting = wk.mem.deleting /\ r.fin
    BY <1>1 DEF CRRecords
  <2>2. w \in Workers /\ w.pc = wk.pc /\ w.n = wk.n /\ w.mem = r /\ w.fresh = wk.fresh
    BY <1>1, <2>1 DEF Workers
  <2>3. StoreCR(wk.n, r) /\ wk' \in Advance(w)
    BY <1>4 DEF addFinalizerIfNeeded, WriteInHand
  <2>4. cr[wk.n] = wk.mem
    BY <1>1, <1>4 DEF CRInv, WorkFresh
  <2>5. /\ cr' = [cr EXCEPT ![wk.n] = r] /\ crCache' = crCache
        /\ crFresh' = crFresh \ {wk.n} /\ cr \in [CRs -> CRRecords \cup {NoCR}]
        /\ crFresh \subseteq CRs /\ r # NoCR /\ wk.mem # NoCR
    BY <1>1, <2>1, <2>3, InstallAssumption DEF StoreCR, TInv, CRType
  <2> HIDE DEF r, w
  <2>6. wk' = Idle \/ (wk'.n = wk.n /\ wk'.mem = r /\ wk'.fresh = wk.fresh)
    BY <2>2, <2>3, AdvanceKeeps
  <2>7. CASE wk' = Idle
    BY <1>1, <1>4, <2>1, <2>3, <2>5, <2>7, StoreInHandKeeps
  <2>8. CASE wk'.n = wk.n /\ wk'.mem = r /\ wk'.fresh = wk.fresh
    <3>1. CacheFresh' /\ WorkFresh'
      BY <1>1, <2>5, <2>8 DEF CRInv, CacheFresh, WorkFresh
    <3>2. UidsNumbered'
      BY <1>1, <2>1, <2>5, <2>8 DEF CRInv, UidsNumbered, Busy
    <3>3. SeenProtected'
      BY <1>1, <2>1, <2>4, <2>5, <2>8 DEF CRInv, SeenProtected, Protected
    <3>4. DeletionsStand'
      BY <1>1, <2>1, <2>4, <2>5, <2>8 DEF CRInv, DeletionsStand, StillDeleting
    <3>5. FinalizedFirst'
      BY <1>1, <2>1, <2>8 DEF FinalizedFirst
    <3> QED
      BY <3>1, <3>2, <3>3, <3>4, <3>5 DEF CRInv
  <2> QED
    BY <2>6, <2>7, <2>8
<1> QED
  BY <1>2, <1>3, <1>4

LEMMA DeletionAndStatusKeep ==
    ASSUME TInv, CRInv, NEW c, handleObjectDeletion \/ StatusStep(c)
    PROVE  CRInv'
<1>1. /\ Busy /\ wk.n \in CRs /\ wk.mem \in CRRecords /\ wk \in Workers
      /\ changes' = changes
  BY DEF TInv, WorkType, WorkerHolds, Busy, At, handleObjectDeletion, StatusStep, world
<1>2. CASE UNCHANGED crVars /\ wk' = Idle
  BY <1>1, <1>2, OnwardKeeps DEF Onward
<1>3. CASE handleObjectDeletion /\ wk.mem.fin /\ wk.fresh
  <2>1. StoreCR(wk.n, NoCR) /\ wk' = Idle /\ wk.mem.deleting
    BY <1>3 DEF handleObjectDeletion, WriteInHand
  <2> QED
    BY <1>1, <1>3, <2>1, StoreInHandKeeps
<1>4. CASE StatusStep(c) /\ wk.mem.cond # wk.job /\ wk.fresh
  <2> DEFINE r == [wk.mem EXCEPT !.cond = wk.job]
  <2>1. StoreCR(wk.n, r) /\ wk' = Idle
    BY <1>4 DEF StatusStep, WriteInHand
  <2>2. /\ r \in CRRecords /\ r.uid = wk.mem.uid /\ r.deleting = wk.mem.deleting
        /\ r.fin = wk.mem.fin
    BY <1>1 DEF CRRecords, Workers
  <2> HIDE DEF r
  <2> QED
    BY <1>1, <1>4, <2>1, <2>2, StoreInHandKeeps, InstallAssumption
<1> QED
  BY <1>2, <1>3, <1>4 DEF handleObjectDeletion, StatusStep, WriteInHand, Retry

LEMMA DequeueKeeps ==
    ASSUME TInv, CRInv, NEW n \in CRs, Dequeue(n)
    PROVE  CRInv'
<1>1. UNCHANGED crVars /\ changes' = changes
  BY DEF Dequeue, world
<1>2. CASE crCache[n] = NoCR
  BY <1>1, <1>2, OnwardKeeps DEF Dequeue, Onward
<1>3. CASE crCache[n] # NoCR
  <2>1. wk' = [pc |-> 1, n |-> n, mem |-> crCache[n], fresh |-> n \in crFresh,
               del |-> 0, job |-> "none"]
    BY <1>3 DEF Dequeue, Idle
  <2>2. wk'.n = n /\ wk'.mem = crCache[n] /\ wk'.pc = 1 /\ (wk'.fresh => n \in crFresh)
    BY <2>1
  <2>3. cr' = cr /\ crCache' = crCache /\ crFresh' = crFresh
    BY <1>1 DEF crVars
  <2>4. ~Finalized(wk'.pc)
    BY <2>2 DEF Finalized
  <2>5. CacheFresh' /\ WorkFresh' /\ UidsNumbered'
    BY <1>1, <1>3, <2>2, <2>3 DEF CRInv, CacheFresh, WorkFresh, UidsNumbered
  <2>6. SeenProtected' /\ DeletionsStand'
    BY <1>3, <2>2, <2>3
    DEF CRInv, SeenProtected, DeletionsStand, Protected, StillDeleting
  <2> QED
    BY <2>4, <2>5, <2>6 DEF CRInv, FinalizedFirst
<1> QED
  BY <1>2, <1>3

LEMMA RestartKeeps ==
    ASSUME TInv, CRInv, Restart
    PROVE  CRInv'
  BY DEF Restart, Idle, Finalized, CRInv, CacheFresh, WorkFresh, UidsNumbered,
         SeenProtected, DeletionsStand, FinalizedFirst, Busy, Protected, StillDeleting

LEMMA ObserveKeeps ==
    ASSUME TInv, CRInv, NEW n \in CRs, ObserveCR(n)
    PROVE  CRInv'
<1>1. /\ cr' = cr /\ wk' = wk /\ changes' = changes
      /\ crCache' = [crCache EXCEPT ![n] = cr[n]] /\ crFresh' = crFresh \cup {n}
      /\ crCache \in [CRs -> CRRecords \cup {NoCR}] /\ crFresh \subseteq CRs
  BY DEF ObserveCR, world, TInv, CRType
<1>2. Busy => wk.n \in CRs
  BY DEF TInv, WorkType, WorkerHolds
<1>3. CacheFresh' /\ WorkFresh' /\ UidsNumbered'
  BY <1>1 DEF CRInv, CacheFresh, WorkFresh, UidsNumbered, Busy
<1>4. SeenProtected' /\ DeletionsStand'
  BY <1>1, <1>2 DEF CRInv, SeenProtected, DeletionsStand, Protected, StillDeleting, Busy
<1> QED
  BY <1>1, <1>3, <1>4 DEF CRInv, FinalizedFirst

LEMMA CreateKeeps ==
    ASSUME TInv, CRInv, NEW n \in CRs, NEW spec \in SpecChoices, CreateCR(n, spec)
    PROVE  CRInv'
<1> DEFINE r == [uid |-> changes', spec |-> spec, deleting |-> FALSE, fin |-> FALSE,
                 cond |-> "none"]
<1>1. /\ cr' = [cr EXCEPT ![n] = r] /\ crCache' = crCache /\ crFresh' = crFresh \ {n}
      /\ wk' = wk /\ changes' = changes + 1 /\ cr[n] = NoCR
  BY DEF CreateCR, UserChange, StoreCR
<1>2. /\ cr \in [CRs -> CRRecords \cup {NoCR}] /\ crCache \in [CRs -> CRRecords \cup {NoCR}]
      /\ changes \in Nat /\ crFresh \subseteq CRs
      /\ Busy => wk.n \in CRs /\ wk.mem \in CRRecords /\ wk.mem.uid \in Nat
      /\ \A m \in CRs : /\ cr[m] # NoCR => cr[m].uid \in Nat
                        /\ crCache[m] # NoCR => crCache[m].uid \in Nat
  BY DEF TInv, CRType, WorkType, WorkerHolds, WorldType, CRRecords
<1>3. r.uid = changes + 1 /\ ~r.deleting
  BY <1>1
<1> HIDE DEF r
<1>4. CacheFresh' /\ WorkFresh'
  BY <1>1, <1>2, InstallAssumption DEF CRInv, CacheFresh, WorkFresh, Busy
<1>5. UidsNumbered'
  BY <1>1, <1>2, <1>3 DEF CRInv, UidsNumbered, Busy
<1>6. SeenProtected'
  BY <1>1, <1>2 DEF CRInv, SeenProtected, Protected, Busy
<1>7. DeletionsStand'
  BY <1>1, <1>2, <1>3 DEF CRInv, DeletionsStand, StillDeleting, UidsNumbered, Busy
<1> QED
  BY <1>1, <1>4, <1>5, <1>6, <1>7 DEF CRInv, FinalizedFirst

\* Editing or deleting overtakes the worker; a custom resource without finalizer
\* goes at once, and no version of it that was seen had one.
LEMMA ChangeKeeps ==
    ASSUME TInv, CRInv, NEW n \in CRs, DeleteCR(n) \/ \E spec \in SpecChoices : EditCR(n, spec)
    PROVE  CRInv'
<1>1. PICK r \in CRRecords \cup {NoCR} :
        /\ cr' = [cr EXCEPT ![n] = r] /\ crCache' = crCache /\ crFresh' = crFresh \ {n}
        /\ \/ r = NoCR /\ ~cr[n].fin
           \/ r # NoCR /\ r.uid = cr[n].uid /\ r.fin = cr[n].fin /\ (cr[n].deleting => r.deleting)
  <2>1. cr[n] \in CRRecords
    BY DEF TInv, CRType, DeleteCR, EditCR
  <2>2. CASE DeleteCR(n)
    <3>1. /\ [cr[n] EXCEPT !.deleting = TRUE] \in CRRecords
          /\ [cr[n] EXCEPT !.deleting = TRUE].uid = cr[n].uid
          /\ [cr[n] EXCEPT !.deleting = TRUE].fin = cr[n].fin
          /\ [cr[n] EXCEPT !.deleting = TRUE].deleting
      BY <2>1 DEF CRRecords
    <3> QED
      BY <2>2, <3>1, InstallAssumption DEF DeleteCR, StoreCR
  <2>3. ASSUME NEW spec \in SpecChoices, EditCR(n, spec)
        PROVE  /\ [cr[n] EXCEPT !.spec = spec] \in CRRecords
               /\ [cr[n] EXCEPT !.spec = spec].uid = cr[n].uid
               /\ [cr[n] EXCEPT !.spec = spec].fin = cr[n].fin
               /\ [cr[n] EXCEPT !.spec = spec].deleting = cr[n].deleting
    BY <2>1, InstallAssumption DEF CRRecords
  <2> QED
    BY <2>2, <2>3, InstallAssumption DEF EditCR, StoreCR
<1>2. /\ cr \in [CRs -> CRRecords \cup {NoCR}] /\ crFresh \subseteq CRs /\ cr[n] # NoCR
      /\ changes \in Nat /\ changes' = changes + 1 /\ cr[n].uid \in Nat
      /\ \A m \in CRs : /\ cr[m] # NoCR => cr[m].uid \in Nat
                        /\ crCache[m] # NoCR => crCache[m].uid \in Nat
      /\ Busy => wk.mem \in CRRecords /\ wk.mem.uid \in Nat
      /\ Busy => wk.n \in CRs
  BY DEF TInv, CRType, WorkType, WorkerHolds, WorldType, CRRecords, DeleteCR, EditCR, UserChange
<1>3. /\ wk'.pc = wk.pc /\ wk'.n = wk.n /\ wk'.mem = wk.mem
      /\ wk'.fresh => wk.fresh /\ wk.n # n
  BY DEF DeleteCR, EditCR, OvertakeWorker, TInv, WorkType, Workers
<1>4. CacheFresh' /\ WorkFresh'
  BY <1>1, <1>2, <1>3 DEF CRInv, CacheFresh, WorkFresh, Busy
<1>5. UidsNumbered'
  BY <1>1, <1>2, <1>3 DEF CRInv, UidsNumbered, Busy
<1>6. SeenProtected'
  BY <1>1, <1>2, <1>3 DEF CRInv, SeenProtected, Protected, Busy
<1>7. DeletionsStand'
  BY <1>1, <1>2, <1>3 DEF CRInv, DeletionsStand, StillDeleting, Busy
<1> QED
  BY <1>3, <1>4, <1>5, <1>6, <1>7 DEF CRInv, FinalizedFirst

\* Deleting a component leaves the custom resources alone; the count goes up.
LEMMA DeleteChildKeeps ==
    ASSUME TInv, CRInv, NEW n \in CRs, NEW c \in Deletable, DeleteChild(n, c)
    PROVE  CRInv'
<1>1. UNCHANGED crVars /\ wk' = wk /\ changes' = changes + 1
  BY DEF DeleteChild, UserChange
<1>2. /\ changes \in Nat
      /\ \A m \in CRs : /\ cr[m] # NoCR => cr[m].uid \in Nat
                        /\ crCache[m] # NoCR => crCache[m].uid \in Nat
      /\ Busy => wk.mem.uid \in Nat
  BY DEF TInv, CRType, WorkType, WorkerHolds, WorldType, CRRecords
<1>3. UidsNumbered'
  BY <1>1, <1>2 DEF CRInv, UidsNumbered, Busy, crVars
<1> QED
  BY <1>1, <1>3
  DEF CRInv, CacheFresh, WorkFresh, SeenProtected, DeletionsStand, FinalizedFirst,
      crVars, Busy, Protected, StillDeleting

\* The steps on a component move the worker onward.
LEMMA ComponentStepsGoOnward ==
    ASSUME TInv, NEW c \in Tracked,
           \/ upsertObjectIfNeeded(c) \/ PruneStep(c) \/ PollJob(c)
           \/ JobTimeout(c) \/ PartitionStep(c)
    PROVE  Onward /\ UNCHANGED crVars /\ changes' = changes /\ Busy
<1>1. Busy /\ Steps[wk.pc] # Finalize /\ UNCHANGED crVars /\ changes' = changes
  BY DEF upsertObjectIfNeeded, PruneStep, PollJob, JobTimeout, PartitionStep, At, Busy, Step, Finalize, world
<1>2. Key(wk.n, c) \in Keys
  BY <1>1, KeyType DEF TInv, WorkType, WorkerHolds
<1>3. objCache[Key(wk.n, c)] # NoObj => objCache[Key(wk.n, c)].status \in Verdicts
  BY <1>2 DEF TInv, ObjType, Objects
<1>4. "running" \in Verdicts
  BY DEF Verdicts
<1>5. Continue \/ Retry \/ wk' = Idle \/ \E v \in Verdicts : ReadBack(v)
  <2>2. CASE upsertObjectIfNeeded(c)
    BY <2>2 DEF upsertObjectIfNeeded, CreateOrUpdate
  <2>3. CASE PruneStep(c)
    BY <2>3 DEF PruneStep, CreateOrUpdate, deleteObjectIfNeeded
  <2>4. CASE PollJob(c)
    BY <1>3, <2>4 DEF PollJob
  <2>5. CASE JobTimeout(c)
    BY <2>5 DEF JobTimeout
  <2>6. CASE PartitionStep(c)
    BY <1>3, <1>4, <2>6 DEF PartitionStep, SkipPartition
  <2> QED
    BY <2>2, <2>3, <2>4, <2>5, <2>6
<1> QED
  BY <1>1, <1>5, WorkerMoves DEF Onward

LEMMA CRInvStep ==
    ASSUME TInv, CRInv, [Next]_vars
    PROVE  CRInv'
<1>1. CASE UNCHANGED vars
  BY <1>1, OnwardKeeps DEF vars, world
<1>2. CASE Worker
  <2>1. CASE deleteExternalResources
    <3>1. /\ UNCHANGED crVars /\ changes' = changes /\ Busy
          /\ wk' = [wk EXCEPT !.del = @ + 1]
      BY <2>1 DEF deleteExternalResources, world, At, Busy
    <3>2. wk' # Idle => wk'.pc = wk.pc /\ wk'.n = wk.n /\ wk'.mem = wk.mem /\ wk'.fresh = wk.fresh
      BY <3>1 DEF TInv, WorkType, Workers
    <3> QED
      BY <3>1, <3>2, OnwardKeeps DEF Onward
  <2>2. ASSUME ParseConfig \/ \E c \in Tracked : \/ upsertObjectIfNeeded(c) \/ PruneStep(c)
                                                  \/ PollJob(c) \/ JobTimeout(c)
                                                  \/ PartitionStep(c)
        PROVE  CRInv'
    <3>1. CASE ParseConfig
      <4>1. Busy /\ Steps[wk.pc] # Finalize /\ UNCHANGED crVars /\ changes' = changes
        BY <3>1 DEF ParseConfig, At, Busy, Step, Finalize, world
      <4>2. Continue \/ Retry
        BY <3>1 DEF ParseConfig
      <4> QED
        BY <4>1, <4>2, WorkerMoves, OnwardKeeps
    <3> QED
      BY <2>2, <3>1, ComponentStepsGoOnward, OnwardKeeps
  <2> QED
    BY <1>2, <2>1, <2>2, AddFinalizerKeeps, DeletionAndStatusKeep, DequeueKeeps
    DEF Worker, ReconcileStep
<1>3. CASE Faults \/ Watches
  <2>1. CASE CallFails
    BY <2>1, OnwardKeeps DEF CallFails, Retry, Onward
  <2>2. CASE Restart
    BY <2>2, RestartKeeps
  <2>3. CASE Resync \/ \E k \in Keys : ObserveObj(k)
    BY <2>3, OnwardKeeps DEF Resync, ObserveObj, world
  <2> QED
    BY <1>3, <2>1, <2>2, <2>3, ObserveKeeps DEF Faults, Watches
<1>4. CASE ClusterSteps
  BY <1>4, OnwardKeeps DEF ClusterSteps, CollectGarbage, EndJob
<1>5. CASE Users
  BY <1>5, CreateKeeps, ChangeKeeps, DeleteChildKeeps DEF Users
<1> QED
  BY <1>1, <1>2, <1>3, <1>4, <1>5 DEF Next

-----------------------------------------------------------------------------
(***************************************************************************)
(* The invariant, and what follows from it.                                *)
(***************************************************************************)
\* What a step of the worker does to the objects: nothing, a change of one that
\* is there or a removal, or the creation of a component past the first steps.
Changes == \E k \in Keys : \E o : StoreObj(k, o) /\ (obj[k] # NoObj \/ o = NoObj)

Creates(c) ==
    /\ obj[Key(wk.n, c)] = NoObj
    /\ StoreObj(Key(wk.n, c), NewObject(wk.n, c, wk.mem))
    /\ Busy /\ Steps[wk.pc] \notin {Finalize, Parse}

LEMMA UpsertStores ==
    ASSUME TInv, ObjFresh, Busy, Steps[wk.pc] \notin {Finalize, Parse}, NEW c \in Tracked,
           CreateOrUpdate(c)
    PROVE  UNCHANGED objVars \/ Changes \/ Creates(c)
<1> DEFINE k == Key(wk.n, c)
           want == ReconcileComponents(wk.n, c, wk.mem, objCache[k])
<1>1. k \in Keys
  BY KeyType DEF TInv, WorkType, WorkerHolds
<1>2. \/ obj[k] = NoObj /\ StoreObj(k, NewObject(wk.n, c, wk.mem))
      \/ objCache[k] # NoObj /\ k \in objFresh /\ StoreObj(k, want)
      \/ UNCHANGED objVars
  BY DEF CreateOrUpdate
<1> HIDE DEF want
<1> QED
  BY <1>1, <1>2 DEF ObjFresh, Changes, Creates

LEMMA WorkerStores ==
    ASSUME TInv, ObjFresh, Worker
    PROVE  UNCHANGED objVars \/ Changes \/ \E c \in Tracked : Creates(c)
<1>1. \A c \in Tracked : Busy => Key(wk.n, c) \in Keys
  BY KeyType DEF TInv, WorkType, WorkerHolds
<1>2. CASE ParseConfig \/ addFinalizerIfNeeded \/ handleObjectDeletion
           \/ \E n \in CRs : Dequeue(n)
  BY <1>2 DEF ParseConfig, addFinalizerIfNeeded, handleObjectDeletion, Dequeue
<1>3. CASE deleteExternalResources
  BY <1>3 DEF deleteExternalResources, Changes
<1>4. ASSUME NEW c \in Tracked, upsertObjectIfNeeded(c) \/ PruneStep(c)
      PROVE  UNCHANGED objVars \/ Changes \/ Creates(c)
  <2>1. Busy /\ Steps[wk.pc] \notin {Finalize, Parse}
    BY <1>4 DEF upsertObjectIfNeeded, PruneStep, At, Busy, Step, Finalize, Parse
  <2>2. CreateOrUpdate(c) \/ deleteObjectIfNeeded(c) \/ UNCHANGED objVars
    BY <1>4 DEF upsertObjectIfNeeded, PruneStep
  <2>3. deleteObjectIfNeeded(c) => UNCHANGED objVars \/ Changes
    BY <1>1, <2>1 DEF deleteObjectIfNeeded, Changes
  <2> QED
    BY <2>1, <2>2, <2>3, UpsertStores
<1>5. ASSUME NEW c \in Tracked, PartitionStep(c)
      PROVE  UNCHANGED objVars \/ Creates(c)
  BY <1>5 DEF PartitionStep, SkipPartition, At, Busy, Step, Finalize, Parse, Creates
<1>6. ASSUME NEW c \in Tracked, PollJob(c) \/ JobTimeout(c) \/ StatusStep(c)
      PROVE  UNCHANGED objVars
  BY <1>6 DEF PollJob, JobTimeout, StatusStep
<1> QED
  BY <1>2, <1>3, <1>4, <1>5, <1>6 DEF Worker, ReconcileStep

\* The rest of the system creates nothing.
LEMMA OthersStore ==
    ASSUME TInv, Faults \/ Watches \/ ClusterSteps \/ Users
    PROVE  \/ Changes
           \/ obj' = obj /\ (UNCHANGED objVars \/ Restart \/ \E k \in Keys : ObserveObj(k))
<1>1. ClusterSteps => Changes
  BY DEF ClusterSteps, CollectGarbage, EndJob, Changes
<1>2. \A n \in CRs, c \in Deletable : Key(n, c) \in Keys
  BY KeyType, InstallAssumption
<1>3. Users => UNCHANGED objVars \/ Changes
  BY <1>2 DEF Users, CreateCR, EditCR, DeleteCR, DeleteChild, Changes
<1>4. Watches \/ Faults => \/ UNCHANGED objVars \/ Restart
                           \/ \E k \in Keys : ObserveObj(k)
  BY DEF Watches, Faults, CallFails, ObserveCR, Resync
<1> QED
  BY <1>1, <1>3, <1>4 DEF objVars, Restart, ObserveObj

LEMMA ObjFreshStep ==
    ASSUME TInv, ObjFresh, [Next]_vars
    PROVE  ObjFresh'
<1>1. CASE UNCHANGED objVars
  BY <1>1 DEF ObjFresh, objVars
<1>2. ASSUME NEW k \in Keys, NEW o, StoreObj(k, o)
      PROVE  ObjFresh'
  BY <1>2 DEF ObjFresh, StoreObj, TInv, ObjType
<1>3. CASE Restart
  BY <1>3 DEF Restart, ObjFresh
<1>4. ASSUME NEW k \in Keys, ObserveObj(k)
      PROVE  ObjFresh'
  BY <1>4 DEF ObserveObj, ObjFresh, TInv, ObjType
<1>5. ASSUME NEW c \in Tracked, Creates(c)
      PROVE  ObjFresh'
  BY <1>2, <1>5, KeyType DEF Creates, TInv, WorkType, WorkerHolds
<1> QED
  BY <1>1, <1>2, <1>3, <1>4, <1>5, WorkerStores, OthersStore DEF Next, Changes, vars

\* The inductive invariant holds in every reachable state.
THEOREM Invariance == Spec => []IInv
<1>1. Init => ObjFresh /\ CRInv
  BY DEF Init, ObjFresh, CRInv, CacheFresh, WorkFresh, UidsNumbered, SeenProtected,
         DeletionsStand, FinalizedFirst, Busy, Idle, Finalized
<1>2. TInv /\ ObjFresh /\ CRInv /\ [Next]_vars => (ObjFresh /\ CRInv)'
  BY ObjFreshStep, CRInvStep
<1>3. TInv /\ ObjFresh /\ CRInv => IInv
  BY TypesSplit DEF IInv
<1> QED
  BY <1>1, <1>2, <1>3, TypesHold, PTL DEF Spec

\* An object that comes into being belongs to a custom resource that is there,
\* with the finalizer on it.
Born(k) ==
    obj[k] = NoObj /\ obj'[k] # NoObj =>
        \E n \in CRs : /\ \E c \in Tracked : Key(n, c) = k
                       /\ cr[n] # NoCR
                       /\ cr[n].fin
                       /\ obj'[k].owner \in {0, cr[n].uid}

LEMMA BornProtected ==
    ASSUME IInv, [Next]_vars, NEW k \in Keys
    PROVE  Born(k)
<1> USE TypesSplit DEF IInv
<1>1. CASE obj' = obj
  BY <1>1 DEF Born
<1>2. CASE Changes
  BY <1>2 DEF Changes, StoreObj, Born, TInv, ObjType
<1>3. ASSUME NEW c \in Tracked, Creates(c)
      PROVE  Born(k)
  <2>1. wk.n \in CRs /\ wk.mem \in CRRecords /\ wk.pc \in Nat /\ wk.pc # 0
    BY <1>3 DEF Creates, WorkerHolds, TInv, WorkType, Workers, Busy
  <2>2. wk.pc # 1 /\ wk.pc # 2
    BY <1>3, StepsStart DEF Creates, FinalizeEarly
  <2>3. Finalized(wk.pc)
    BY <2>1, <2>2 DEF Finalized
  <2>4. cr[wk.n] # NoCR /\ cr[wk.n].uid = wk.mem.uid /\ cr[wk.n].fin
    BY <1>3, <2>3 DEF Creates, CRInv, FinalizedFirst, SeenProtected, Protected
  <2>5. NewObject(wk.n, c, wk.mem).owner \in {0, wk.mem.uid}
    BY DEF NewObject
  <2>6. /\ obj' = [obj EXCEPT ![Key(wk.n, c)] = NewObject(wk.n, c, wk.mem)]
        /\ obj \in [Keys -> Objects \cup {NoObj}]
    BY <1>3 DEF Creates, StoreObj, TInv, ObjType
  <2>7. CASE k = Key(wk.n, c)
    BY <2>1, <2>4, <2>5, <2>6, <2>7 DEF Born
  <2>8. CASE k # Key(wk.n, c)
    BY <2>6, <2>8 DEF Born
  <2> QED
    BY <2>7, <2>8
<1> QED
  BY <1>1, <1>2, <1>3, WorkerStores, OthersStore DEF Next, vars, objVars

\* No reconcile, however stale what it has read, creates an object without the
\* finalizer in place on the custom resource the object belongs to.
THEOREM NoOrphans == Spec => NoOrphanIsBorn
<1>1. IInv /\ [Next]_vars => [\A k \in Keys : Born(k)]_vars
  BY BornProtected
<1>2. Spec => [][\A k \in Keys : Born(k)]_vars
  BY <1>1, Invariance, PTL DEF Spec
<1> QED
  BY <1>2 DEF NoOrphanIsBorn, Born

-----------------------------------------------------------------------------
(***************************************************************************)
(* The operator writes whole copies and still undoes nothing.              *)
(***************************************************************************)
\* What a step that is not a user's leaves of custom resource n.
Stands(n) ==
    cr[n] # NoCR /\ changes' = changes =>
        IF cr'[n] = NoCR THEN cr[n].deleting
        ELSE /\ cr'[n].uid = cr[n].uid /\ cr'[n].spec = cr[n].spec
             /\ cr'[n].deleting = cr[n].deleting

\* A copy that is written back is the stored version but for what is changed in it.
LEMMA WriteBackStands ==
    ASSUME TInv, CRInv, Busy, NEW r, NEW next, NEW n \in CRs, WriteInHand(r, next),
           \/ r = NoCR /\ wk.mem.deleting
           \/ /\ r # NoCR /\ r.uid = wk.mem.uid /\ r.spec = wk.mem.spec
              /\ r.deleting = wk.mem.deleting
    PROVE  Stands(n)
<1>1. cr \in [CRs -> CRRecords \cup {NoCR}] /\ wk.n \in CRs
  BY DEF TInv, CRType, WorkType, WorkerHolds
<1>2. cr' = cr \/ (wk.fresh /\ cr' = [cr EXCEPT ![wk.n] = r])
  BY DEF WriteInHand, StoreCR, crVars
<1>3. wk.fresh => cr[wk.n] = wk.mem
  BY DEF CRInv, WorkFresh
<1> QED
  BY <1>1, <1>2, <1>3 DEF Stands

LEMMA OperatorStands ==
    ASSUME TInv, CRInv, [Next]_vars, NEW n \in CRs
    PROVE  Stands(n)
<1>1. cr' = cr => Stands(n)
  BY DEF Stands
<1>2. Busy => wk.mem \in CRRecords
  BY DEF WorkerHolds, WorkType, TInv
<1>3. CASE addFinalizerIfNeeded
  <2> DEFINE r == [wk.mem EXCEPT !.fin = TRUE]
  <2>1. Busy
    BY <1>3 DEF addFinalizerIfNeeded, At, Busy
  <2>2. /\ r \in CRRecords /\ r # NoCR /\ r.uid = wk.mem.uid /\ r.spec = wk.mem.spec
        /\ r.deleting = wk.mem.deleting
    BY <1>2, <2>1, InstallAssumption DEF CRRecords
  <2>3. cr' = cr \/ \E next : WriteInHand(r, next)
    BY <1>3 DEF addFinalizerIfNeeded, crVars
  <2> HIDE DEF r
  <2> QED
    BY <1>1, <2>1, <2>2, <2>3, WriteBackStands
<1>4. CASE handleObjectDeletion
  <2>1. Busy /\ wk.mem.deleting
    BY <1>4 DEF handleObjectDeletion, At, Busy
  <2>2. cr' = cr \/ \E next : WriteInHand(NoCR, next)
    BY <1>4 DEF handleObjectDeletion, crVars
  <2> QED
    BY <1>1, <2>1, <2>2, WriteBackStands
<1>5. ASSUME NEW c \in Tracked, StatusStep(c)
      PROVE  Stands(n)
  <2> DEFINE r == [wk.mem EXCEPT !.cond = wk.job]
  <2>1. Busy
    BY <1>5 DEF StatusStep, At, Busy
  <2>2. /\ r.uid = wk.mem.uid /\ r.spec = wk.mem.spec /\ r.deleting = wk.mem.deleting
        /\ r \in CRRecords /\ r # NoCR
    <3>1. wk.job \in Verdicts
      BY DEF TInv, WorkType, Workers
    <3> QED
      BY <1>2, <2>1, <3>1, InstallAssumption DEF CRRecords
  <2>3. cr' = cr \/ \E next : WriteInHand(r, next)
    BY <1>5 DEF StatusStep, crVars
  <2> HIDE DEF r
  <2> QED
    BY <1>1, <2>1, <2>2, <2>3, WriteBackStands
<1>6. CASE Worker
  <2>1. ParseConfig \/ deleteExternalResources \/ (\E m \in CRs : Dequeue(m)) => cr' = cr
    BY DEF ParseConfig, deleteExternalResources, Dequeue, crVars
  <2>2. (\E c \in Tracked : \/ upsertObjectIfNeeded(c) \/ PruneStep(c) \/ PollJob(c)
                            \/ JobTimeout(c) \/ PartitionStep(c)) => cr' = cr
    BY DEF upsertObjectIfNeeded, PruneStep, PollJob, JobTimeout, PartitionStep, crVars
  <2> QED
    BY <1>1, <1>3, <1>4, <1>5, <1>6, <2>1, <2>2 DEF Worker, ReconcileStep
<1>7. CASE Faults \/ Watches \/ ClusterSteps
  BY <1>1, <1>7 DEF Faults, Watches, ClusterSteps, CallFails, Restart, ObserveCR, ObserveObj,
                    Resync, CollectGarbage, EndJob, crVars
<1>8. CASE Users
  <2>1. \A m : ~(UserChange(m) /\ changes' = changes)
    BY DEF UserChange, TInv, WorldType
  <2> QED
    BY <1>8, <2>1 DEF Users, CreateCR, EditCR, DeleteCR, DeleteChild, Stands
<1> QED
  BY <1>1, <1>6, <1>7, <1>8 DEF Next, vars, crVars

\* Whatever stale copy a reconcile holds, no write of the operator takes back an
\* edit or a deletion, or reaches another custom resource of the same name.
THEOREM EditsAreKept == Spec => EditsStand
<1>1. IInv /\ [Next]_vars => [\A n \in CRs : Stands(n)]_vars
  BY OperatorStands, TypesSplit DEF IInv
<1>2. Spec => [][\A n \in CRs : Stands(n)]_vars
  BY <1>1, Invariance, PTL DEF Spec
<1> QED
  BY <1>2 DEF EditsStand, Stands

=============================================================================
