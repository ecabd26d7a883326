------------------------------ MODULE GatesProofs ------------------------------
(***************************************************************************)
(* What waits for a Job comes after it, what is said of a Job is true, and *)
(* a verdict stands: for every controller, every set of custom resources   *)
(* and every bound.                                                        *)
(***************************************************************************)
EXTENDS LifecycleProofs

-----------------------------------------------------------------------------
(***************************************************************************)
(* The invariant.                                                          *)
(***************************************************************************)
Outcomes == {"complete", "failed"}

\* A Job has a status, and what it says of its end has happened.
Told(k, o) ==
    o # NoObj => /\ k[3] \in Jobs => o.status # "none"
                 /\ o.status \in Outcomes => <<k, o.status>> \in ended

ObjTold == \A k \in Keys : Told(k, obj[k]) /\ Told(k, objCache[k])

\* A custom resource has one of the specs users give, and what its condition
\* says of an end has happened.
CRTold(n, r) ==
    r # NoCR => /\ r.spec \in SpecChoices
                /\ r.cond \in Outcomes => <<Key(n, "partition"), r.cond>> \in ended

CRsTold ==
    /\ \A n \in CRs : CRTold(n, cr[n]) /\ CRTold(n, crCache[n])
    /\ Busy => CRTold(wk.n, wk.mem)

\* The status in hand is that of the migration, and at last of the partition Job.
JobRead ==
    Kind = "Lookout" /\ Busy /\ wk.job \in Outcomes =>
        IF Steps[wk.pc].op = "status" THEN <<Key(wk.n, "partition"), wk.job>> \in ended
        ELSE <<Key(wk.n, "migration"), wk.job>> \in ended

\* The worker waits for this step whatever the spec.
Awaited(i) ==
    /\ Steps[i].op = "wait" /\ Steps[i].c \in Tracked
    /\ \A spec \in SpecChoices : Steps[i].c \in Generated(Kind, spec)

\* The Jobs that the worker has waited for have ended.
WaitsPassed ==
    Busy => \A i \in 1..Len(Steps) : i < wk.pc /\ Awaited(i) => HasEnded(wk.n, Steps[i].c)

Partitioned ==
    \A n \in CRs : "partition" \in Tracked /\ obj[Key(n, "partition")] # NoObj =>
        <<Key(n, "migration"), "complete">> \in ended

GInv == ObjTold /\ CRsTold /\ JobRead /\ WaitsPassed /\ Partitioned /\ JobsGate

-----------------------------------------------------------------------------
(***************************************************************************)
(* The tables.                                                             *)
(***************************************************************************)
Writes(step) == step.op \in {"upsert", "prune", "partition"}

\* Every wait is for a Job, that of Lookout for the migration; only Lookout
\* partitions, and only CronJobs are pruned.
WaitsAndReports ==
    \A i \in 1..Len(Steps) :
        /\ Steps[i].op = "wait" =>
              Steps[i].c \in Jobs /\ (Kind = "Lookout" => Steps[i].c = "migration")
        /\ Steps[i].op \in {"partition", "status"} =>
              Kind = "Lookout" /\ Steps[i].c = "partition"
        /\ Writes(Steps[i]) /\ Steps[i].c = "partition" => Steps[i].op = "partition"
        /\ Steps[i].op = "prune" => Steps[i].c = "cronJob"

LookoutEnds ==
    Kind = "Lookout" =>
        /\ Len(Steps) = 13
        /\ Steps[12] = Step("partition", "partition")
        /\ Steps[13] = Step("status", "partition")
        /\ \A i \in 1..13 : /\ Steps[i].op = "status" => i = 13
                            /\ Steps[i].op = "partition" => i = 12

PulsarJobs == {"waitForPulsar", "initPulsar"}

\* Step w parts what is written: later components belong to one custom resource,
\* or to all of a namespace if the Job waited for does, and are not written
\* before.
Parts(w, later) ==
    /\ \A j \in 1..Len(Steps) : Writes(Steps[j]) => (Steps[j].c \in later <=> j > w)
    /\ later \cap ClusterScoped = {}
    /\ Steps[w].c \in PulsarJobs \/ later \cap PulsarJobs = {}

WaitsPart == \A w \in 1..Len(Steps) : Steps[w].op = "wait" => \E later : Parts(w, later)

LEMMA StepFields ==
    /\ Finalize.op = "finalize" /\ Parse.op = "parse" /\ Finalize.c = "none" /\ Parse.c = "none"
    /\ \A c : Upsert(c).op = "upsert" /\ Upsert(c).c = c
    /\ \A op, c : Step(op, c).op = op /\ Step(op, c).c = c
  BY DEF Finalize, Parse, Upsert, Step

LEMMA LookoutTable ==
    ASSUME Kind = "Lookout"
    PROVE  WaitsAndReports /\ LookoutEnds /\ WaitsPart
<1>1. /\ Len(Steps) = 13 /\ Steps[1] = Finalize /\ Steps[2] = Parse
      /\ Steps[3] = Upsert("serviceAccount") /\ Steps[4] = Upsert("secret")
      /\ Steps[5] = Upsert("migration") /\ Steps[6] = Step("wait", "migration")
      /\ Steps[7] = Upsert("deployment") /\ Steps[8] = Upsert("service")
      /\ Steps[9] = Upsert("ingressHttp") /\ Steps[10] = Step("prune", "cronJob")
      /\ Steps[11] = Upsert("serviceMonitor") /\ Steps[12] = Step("partition", "partition")
      /\ Steps[13] = Step("status", "partition")
  BY DEF Steps, Reconcile, LookoutReconcile, JobRun
<1> DEFINE later == {"deployment", "service", "ingressHttp", "cronJob", "serviceMonitor",
                     "partition"}
<1>2. \A i \in 1..13 :
        /\ Steps[i].op = "wait" => i = 6
        /\ Steps[i].op = "status" => i = 13
        /\ Steps[i].op = "partition" => i = 12
        /\ Steps[i].op = "prune" => i = 10
        /\ Writes(Steps[i]) /\ Steps[i].c = "partition" => i = 12
        /\ Writes(Steps[i]) => (Steps[i].c \in later <=> i > 6)
  BY <1>1, StepFields DEF Writes
<1>3. WaitsAndReports
  BY <1>1, <1>2, StepFields DEF WaitsAndReports, Jobs
<1>4. LookoutEnds
  BY <1>1, <1>2 DEF LookoutEnds
<1>5. Parts(6, later)
  BY <1>1, <1>2 DEF Parts, ClusterScoped, PulsarJobs
<1> HIDE DEF later
<1> QED
  BY <1>1, <1>2, <1>3, <1>4, <1>5 DEF WaitsPart

LEMMA SchedulerTable ==
    ASSUME Kind = "Scheduler"
    PROVE  WaitsAndReports /\ LookoutEnds /\ WaitsPart
<1>1. /\ Len(Steps) = 14 /\ Steps[1] = Finalize /\ Steps[2] = Parse
      /\ Steps[3] = Upsert("serviceAccount") /\ Steps[4] = Upsert("secret")
      /\ Steps[5] = Upsert("migration") /\ Steps[6] = Step("wait", "migration")
      /\ Steps[7] = Upsert("deployment") /\ Steps[8] = Upsert("service")
      /\ Steps[9] = Upsert("serviceProfiling") /\ Steps[10] = Upsert("ingressGrpc")
      /\ Steps[11] = Upsert("ingressProfiling") /\ Steps[12] = Upsert("serviceMonitor")
      /\ Steps[13] = Upsert("prometheusRule") /\ Steps[14] = Step("prune", "cronJob")
  BY DEF Steps, Reconcile, SchedulerReconcile, JobRun
<1> DEFINE later == {"deployment", "service", "serviceProfiling", "ingressGrpc",
                     "ingressProfiling", "serviceMonitor", "prometheusRule", "cronJob"}
<1>2. \A i \in 1..14 :
        /\ Steps[i].op = "wait" => i = 6
        /\ Steps[i].op = "prune" => i = 14
        /\ Steps[i].op \notin {"partition", "status"} /\ Steps[i].c # "partition"
        /\ Writes(Steps[i]) => (Steps[i].c \in later <=> i > 6)
  BY <1>1, StepFields DEF Writes
<1>3. WaitsAndReports
  BY <1>1, <1>2, StepFields DEF WaitsAndReports, Jobs
<1>4. Parts(6, later)
  BY <1>1, <1>2 DEF Parts, ClusterScoped, PulsarJobs
<1> HIDE DEF later
<1> QED
  BY <1>1, <1>2, <1>3, <1>4 DEF WaitsPart, LookoutEnds

LEMMA ArmadaServerTable ==
    ASSUME Kind = "ArmadaServer"
    PROVE  WaitsAndReports /\ LookoutEnds /\ WaitsPart
<1>1. /\ Len(Steps) = 15 /\ Steps[1] = Parse /\ Steps[2] = Finalize
      /\ Steps[3] = Upsert("serviceAccount") /\ Steps[4] = Upsert("secret")
      /\ Steps[5] = Upsert("waitForPulsar") /\ Steps[6] = Step("wait", "waitForPulsar")
      /\ Steps[7] = Upsert("initPulsar") /\ Steps[8] = Step("wait", "initPulsar")
      /\ Steps[9] = Upsert("deployment") /\ Steps[10] = Upsert("service")
      /\ Steps[11] = Upsert("ingressGrpc") /\ Steps[12] = Upsert("ingressHttp")
      /\ Steps[13] = Upsert("podDisruptionBudget") /\ Steps[14] = Upsert("prometheusRule")
      /\ Steps[15] = Upsert("serviceMonitor")
  BY DEF Steps, Reconcile, ArmadaServerReconcile, JobRun
<1> DEFINE last == {"deployment", "service", "ingressGrpc", "ingressHttp",
                    "podDisruptionBudget", "prometheusRule", "serviceMonitor"}
           later == last \cup {"initPulsar"}
<1>2. \A i \in 1..15 :
        /\ Steps[i].op = "wait" => i = 6 \/ i = 8
        /\ Steps[i].op \notin {"prune", "partition", "status"} /\ Steps[i].c # "partition"
        /\ Writes(Steps[i]) => (Steps[i].c \in later <=> i > 6)
        /\ Writes(Steps[i]) => (Steps[i].c \in last <=> i > 8)
  BY <1>1, StepFields DEF Writes
<1>3. WaitsAndReports
  BY <1>1, <1>2, StepFields DEF WaitsAndReports, Jobs
<1>4. Parts(6, later) /\ Parts(8, last)
  BY <1>1, <1>2, StepFields DEF Parts, ClusterScoped, PulsarJobs
<1> HIDE DEF later, last
<1> QED
  BY <1>1, <1>2, <1>3, <1>4 DEF WaitsPart, LookoutEnds

\* The other five wait for nothing and only upsert.
LEMMA OtherTables ==
    ASSUME Kind \notin {"Lookout", "Scheduler", "ArmadaServer"}
    PROVE  WaitsAndReports /\ LookoutEnds /\ WaitsPart
<1> DEFINE Plain(s) == \A i \in 1..Len(s) : /\ s[i].op \in {"finalize", "parse", "upsert"}
                                            /\ s[i].c # "partition"
<1>1. Plain(ExecutorReconcile)
  BY StepFields DEF ExecutorReconcile
<1>2. Plain(BinocularsReconcile)
  BY StepFields DEF BinocularsReconcile
<1>3. Plain(EventIngesterReconcile)
  BY StepFields DEF EventIngesterReconcile
<1>4. Plain(LookoutIngesterReconcile)
  BY StepFields DEF LookoutIngesterReconcile
<1>5. Plain(SchedulerIngesterReconcile)
  BY StepFields DEF SchedulerIngesterReconcile
<1>6. Plain(Steps)
  <2> HIDE DEF Plain
  <2> QED
    BY <1>1, <1>2, <1>3, <1>4, <1>5, InstallAssumption DEF Steps, Reconcile, Kinds
<1> QED
  BY <1>6 DEF WaitsAndReports, LookoutEnds, WaitsPart

LEMMA Tables == WaitsAndReports /\ LookoutEnds /\ WaitsPart
  BY LookoutTable, SchedulerTable, ArmadaServerTable, OtherTables

LEMMA OnTheTable ==
    ASSUME TInv, OnPlan, Busy
    PROVE  wk.pc \in 1..Len(Steps) /\ Len(Steps) \in Nat
  BY StepsStart DEF OnPlan, Busy, TInv, WorkType, Workers, FinalizeEarly

\* No cleanup deletes a Job.
LEMMA CleanupsSpareJobs ==
    ASSUME NEW spec
    PROVE  Cleanup(Kind, spec) \in Seq(Components \ Jobs)
<1> DEFINE S == Components \ Jobs
<1>1. {"clusterRole", "prometheusRule", "binding", "extraBinding"} \subseteq S
  BY ComponentNames DEF Jobs
<1>2. \A c \in S : \A kind : When(c, kind, spec) \in Seq(S)
  BY WhenSeq
<1>3. /\ <<"clusterRole">> \in Seq(S) /\ <<"binding">> \in Seq(S) /\ << >> \in Seq(S)
      /\ <<"clusterRole", "binding">> \in Seq(S)
  BY <1>1
<1> HIDE DEF S
<1>4. \A s, t \in Seq(S) : s \o t \in Seq(S)
  OBVIOUS
<1>5. /\ ExecutorDeleteExternalResources(spec) \in Seq(S)
      /\ BinocularsDeleteExternalResources \in Seq(S)
      /\ ArmadaServerDeleteExternalResources(spec) \in Seq(S)
  BY <1>1, <1>2, <1>3, <1>4 DEF ExecutorDeleteExternalResources,
     BinocularsDeleteExternalResources, ArmadaServerDeleteExternalResources
<1>6. Cleanup(Kind, spec) \in Seq(S)
  BY <1>3, <1>5 DEF Cleanup
<1> QED
  BY <1>6 DEF S

-----------------------------------------------------------------------------
(***************************************************************************)
(* How the worker moves.                                                   *)
(***************************************************************************)
\* What a later version of a custom resource keeps of an earlier one.
Carries(old, new) == new.spec \in {old.spec} \cup SpecChoices /\ new.cond = old.cond

Starts ==
    \E n \in CRs : /\ crCache[n] # NoCR /\ wk'.mem = crCache[n] /\ wk'.n = n
                   /\ wk'.pc = 1 /\ wk'.job = "none"

Stays ==
    /\ Busy /\ wk'.pc = wk.pc /\ wk'.n = wk.n /\ wk'.mem = wk.mem /\ wk'.job = wk.job
    /\ wk'.fresh => wk.fresh

\* A step that reads no Job.
PassesBy ==
    /\ wk'.job = wk.job
    /\ Steps[wk.pc].op # "partition"
    /\ Steps[wk.pc].op = "wait" => Steps[wk.pc].c \notin Generated(Kind, wk.mem.spec)

\* A step that reads one, found in the cache or just created.
Reads ==
    LET step == Steps[wk.pc]
        read == objCache[Key(wk.n, step.c)]
    IN  /\ step.c \in Tracked
        /\ \/ /\ step.op \in {"wait", "partition"}
              /\ read # NoObj /\ wk'.job = read.status
              /\ step.op = "wait" => read.status # "running"
           \/ step.op = "partition" /\ read = NoObj /\ wk'.job = "running"

Goes ==
    /\ Busy /\ wk'.n = wk.n /\ wk'.mem.spec = wk.mem.spec /\ wk'.mem.cond = wk.mem.cond
    /\ wk'.fresh = wk.fresh
    /\ wk'.pc \in StepsAfter(wk.pc) /\ \A i \in StepsAfter(wk.pc) : wk'.pc <= i
    /\ PassesBy \/ Reads

LEMMA AdvanceTo ==
    ASSUME NEW w \in Workers, NEW v \in Advance(w)
    PROVE  \/ v = Idle
           \/ /\ v.n = w.n /\ v.mem = w.mem /\ v.job = w.job /\ v.fresh = w.fresh
              /\ v.pc \in StepsAfter(w.pc) /\ \A i \in StepsAfter(w.pc) : v.pc <= i
<1>1. CASE StepsAfter(w.pc) = {}
  BY <1>1 DEF Advance
<1>2. CASE StepsAfter(w.pc) # {}
  <2>1. PICK j \in StepsAfter(w.pc) :
            /\ \A i \in StepsAfter(w.pc) : j <= i
            /\ v = [w EXCEPT !.pc = j]
    BY <1>2 DEF Advance
  <2> QED
    BY <2>1 DEF Workers
<1> QED
  BY <1>1, <1>2

LEMMA ContinueGoes ==
    ASSUME TInv, Busy, Continue, wk'.job = wk.job => PassesBy
    PROVE  ~Busy' \/ Goes
<1>1. wk \in Workers
  BY DEF TInv, WorkType
<1> QED
  BY <1>1, AdvanceTo, IdleType DEF Continue, Busy, Goes

LEMMA ReadBackGoes ==
    ASSUME TInv, Busy, NEW status \in Verdicts, ReadBack(status),
           wk'.job = status => Reads
    PROVE  ~Busy' \/ Goes
<1> DEFINE w == [wk EXCEPT !.job = status]
<1>1. /\ w \in Workers /\ w.pc = wk.pc /\ w.n = wk.n /\ w.mem = wk.mem /\ w.job = status
      /\ w.fresh = wk.fresh
  BY DEF TInv, WorkType, Workers
<1>2. wk' \in Advance(w)
  BY DEF ReadBack
<1> HIDE DEF w
<1> QED
  BY <1>1, <1>2, AdvanceTo, IdleType DEF Busy, Goes

\* Where the worker stands, by what it does.
LEMMA StandsAt ==
    ASSUME NEW op, NEW c, At(op, c)
    PROVE  Busy /\ Steps[wk.pc].op = op /\ Steps[wk.pc].c = c
  BY StepFields DEF At, Busy

LEMMA FinalizeMoves ==
    ASSUME TInv, ParseConfig \/ addFinalizerIfNeeded
    PROVE  ~Busy' \/ Goes
<1>1. wk \in Workers /\ Busy /\ wk.mem \in CRRecords
  BY DEF TInv, WorkType, WorkerHolds, ParseConfig, addFinalizerIfNeeded, At, Busy
<1>2. Steps[wk.pc].op \in {"parse", "finalize"}
  BY StandsAt DEF ParseConfig, addFinalizerIfNeeded
<1>3. Retry => ~Busy'
  BY IdleType DEF Retry, Busy
<1>4. CASE Continue
  BY <1>1, <1>2, <1>4, ContinueGoes DEF PassesBy
<1> DEFINE r == [wk.mem EXCEPT !.fin = TRUE]
           w == [wk EXCEPT !.mem = r]
<1>5. CASE wk' \in Advance(w)
  <2>1. r \in CRRecords /\ r.spec = wk.mem.spec /\ r.cond = wk.mem.cond
    BY <1>1 DEF CRRecords
  <2>2. /\ w \in Workers /\ w.pc = wk.pc /\ w.n = wk.n /\ w.mem = r /\ w.job = wk.job
        /\ w.fresh = wk.fresh
    BY <1>1, <2>1 DEF Workers
  <2> HIDE DEF r, w
  <2> QED
    BY <1>1, <1>2, <1>5, <2>1, <2>2, AdvanceTo, IdleType DEF Busy, Goes, PassesBy
<1> QED
  BY <1>3, <1>4, <1>5 DEF ParseConfig, addFinalizerIfNeeded, WriteInHand

LEMMA ComponentMoves ==
    ASSUME TInv, NEW c \in Tracked,
           \/ upsertObjectIfNeeded(c) \/ PruneStep(c) \/ PollJob(c)
           \/ JobTimeout(c) \/ PartitionStep(c)
    PROVE  ~Busy' \/ Goes
<1> DEFINE read == objCache[Key(wk.n, c)]
<1>1. Retry \/ wk' = Idle => ~Busy'
  BY IdleType DEF Retry, Busy
<1>2. Busy /\ Steps[wk.pc].c = c
  BY StandsAt DEF upsertObjectIfNeeded, PruneStep, PollJob, JobTimeout, PartitionStep
<1>3. read # NoObj => read.status \in Verdicts
  BY <1>2, KeyType DEF TInv, ObjType, Objects, WorkType, WorkerHolds
<1>4. CASE upsertObjectIfNeeded(c) \/ PruneStep(c)
  <2>1. Steps[wk.pc].op \in {"upsert", "prune"}
    BY <1>4, StandsAt DEF upsertObjectIfNeeded, PruneStep
  <2>2. Continue \/ Retry
    BY <1>4 DEF upsertObjectIfNeeded, PruneStep, CreateOrUpdate, deleteObjectIfNeeded
  <2> QED
    BY <1>1, <1>2, <2>1, <2>2, ContinueGoes DEF PassesBy
<1>5. CASE PollJob(c)
  <2>1. Steps[wk.pc].op = "wait"
    BY <1>5, StandsAt DEF PollJob
  <2>2. CASE c \notin Generated(Kind, wk.mem.spec)
    BY <1>2, <1>5, <2>1, <2>2, ContinueGoes DEF PollJob, PassesBy
  <2>3. CASE c \in Generated(Kind, wk.mem.spec) /\ read = NoObj
    BY <1>1, <1>5, <2>3 DEF PollJob
  <2>4. CASE c \in Generated(Kind, wk.mem.spec) /\ read # NoObj
    <3>1. read.status # "running" /\ ReadBack(read.status)
      BY <1>5, <2>4 DEF PollJob
    <3>2. wk'.job = read.status => Reads
      BY <1>2, <2>1, <2>4, <3>1 DEF Reads
    <3> QED
      BY <1>2, <1>3, <2>4, <3>1, <3>2, ReadBackGoes
  <2> QED
    BY <2>2, <2>3, <2>4
<1>6. CASE JobTimeout(c)
  BY <1>1, <1>6 DEF JobTimeout
<1>7. CASE PartitionStep(c)
  <2>1. Steps[wk.pc].op = "partition"
    BY <1>7, StandsAt DEF PartitionStep
  <2>2. \/ Retry \/ wk' = Idle
        \/ read # NoObj /\ ReadBack(read.status)
        \/ read = NoObj /\ ReadBack("running")
    BY <1>7 DEF PartitionStep, SkipPartition
  <2>3. CASE read # NoObj /\ ReadBack(read.status)
    <3>1. wk'.job = read.status => Reads
      BY <1>2, <2>1, <2>3 DEF Reads
    <3> QED
      BY <1>2, <1>3, <2>3, <3>1, ReadBackGoes
  <2>4. CASE read = NoObj /\ ReadBack("running")
    <3>1. wk'.job = "running" => Reads
      BY <1>2, <2>1, <2>4 DEF Reads
    <3>2. "running" \in Verdicts
      BY DEF Verdicts
    <3> QED
      BY <1>2, <2>4, <3>1, <3>2, ReadBackGoes
  <2> QED
    BY <1>1, <2>2, <2>3, <2>4
<1> QED
  BY <1>4, <1>5, <1>6, <1>7

LEMMA Moves ==
    ASSUME TInv, [Next]_vars
    PROVE  ~Busy' \/ Starts \/ Stays \/ Goes
<1>1. wk \in Workers
  BY DEF TInv, WorkType
<1>2. wk' = Idle => ~Busy'
  BY IdleType DEF Busy
<1>3. wk' = wk => ~Busy' \/ Stays
  BY DEF Busy, Stays
<1>4. ASSUME NEW n \in CRs, Dequeue(n) PROVE ~Busy' \/ Starts
  <2>1. CASE crCache[n] = NoCR
    BY <1>2, <1>4, <2>1 DEF Dequeue
  <2>2. CASE crCache[n] # NoCR
    <3>1. wk' = [pc |-> 1, n |-> n, mem |-> crCache[n], fresh |-> n \in crFresh,
                 del |-> 0, job |-> "none"]
      BY <1>4, <2>2 DEF Dequeue, Idle
    <3> QED
      BY <2>2, <3>1 DEF Starts
  <2> QED
    BY <2>1, <2>2
<1>5. CASE deleteExternalResources
  BY <1>1, <1>5 DEF deleteExternalResources, At, Busy, Stays, Workers
<1>6. CASE handleObjectDeletion \/ \E c \in Tracked : StatusStep(c)
  BY <1>2, <1>6 DEF handleObjectDeletion, StatusStep, WriteInHand, Retry
<1>7. CASE Worker
  BY <1>4, <1>5, <1>6, <1>7, FinalizeMoves, ComponentMoves DEF Worker, ReconcileStep
<1>8. CASE Faults \/ Watches \/ ClusterSteps
  BY <1>2, <1>3, <1>8 DEF Faults, Watches, ClusterSteps, CallFails, Retry, Restart, ObserveCR,
                          ObserveObj, Resync, CollectGarbage, EndJob
<1>9. ASSUME NEW n \in CRs, OvertakeWorker(n)
      PROVE  ~Busy' \/ Stays
  BY <1>1, <1>9 DEF OvertakeWorker, Busy, Stays, Workers
<1>10. CASE Users
  BY <1>3, <1>9, <1>10 DEF Users, CreateCR, EditCR, DeleteCR, DeleteChild
<1>11. CASE UNCHANGED vars
  BY <1>3, <1>11 DEF vars
<1> QED
  BY <1>7, <1>8, <1>10, <1>11 DEF Next

-----------------------------------------------------------------------------
(***************************************************************************)
(* What is written.                                                        *)
(***************************************************************************)
LEMMA EndedGrows ==
    ASSUME [Next]_vars
    PROVE  ended \subseteq ended'
<1>1. CASE Worker
  BY <1>1 DEF Worker, ReconcileStep, ParseConfig, addFinalizerIfNeeded, deleteExternalResources,
              handleObjectDeletion, upsertObjectIfNeeded, PruneStep, PollJob, JobTimeout,
              PartitionStep, StatusStep, Dequeue, world
<1>2. CASE Faults \/ Watches \/ ClusterSteps
  BY <1>2 DEF Faults, Watches, ClusterSteps, CallFails, Restart, ObserveCR, ObserveObj, Resync,
              CollectGarbage, EndJob, world
<1>3. CASE Users
  BY <1>3 DEF Users, CreateCR, EditCR, DeleteCR, DeleteChild, UserChange
<1> QED
  BY <1>1, <1>2, <1>3 DEF Next, vars, world

LEMMA LostGrows ==
    ASSUME [Next]_vars
    PROVE  lost \subseteq lost'
<1>1. CASE Worker
  BY <1>1 DEF Worker, ReconcileStep, ParseConfig, addFinalizerIfNeeded, deleteExternalResources,
              handleObjectDeletion, upsertObjectIfNeeded, PruneStep, PollJob, JobTimeout,
              PartitionStep, StatusStep, Dequeue, world
<1>2. CASE Faults \/ Watches \/ ClusterSteps
  BY <1>2 DEF Faults, Watches, ClusterSteps, CallFails, Restart, ObserveCR, ObserveObj, Resync,
              CollectGarbage, EndJob, world
<1>3. CASE Users
  BY <1>3 DEF Users, CreateCR, EditCR, DeleteCR, DeleteChild
<1> QED
  BY <1>1, <1>2, <1>3 DEF Next, vars, world

LEMMA KeyParts ==
    /\ \A n, c : Key(n, c)[3] = c
    /\ \A n, m, c : Key(n, c) = Key(m, c) /\ c \notin ClusterScoped =>
          /\ n[1] = m[1]
          /\ c \notin PulsarJobs => n[2] = m[2]
    /\ \A n, m, c : c \in Jobs /\ n[1] = m[1] /\ (c \notin PulsarJobs => n[2] = m[2]) =>
          Key(n, c) = Key(m, c)
<1>1. Jobs \cap ClusterScoped = {}
  BY DEF Jobs, ClusterScoped
<1> QED
  BY <1>1 DEF Key, PulsarJobs

\* The worker creates, at this step, the component the step is about.
Made(c, k) ==
    /\ Busy /\ k = Key(wk.n, c) /\ Steps[wk.pc].c = c /\ Writes(Steps[wk.pc])
    /\ Steps[wk.pc].op = "partition" => MayPartition(c)
    /\ obj[k] = NoObj /\ obj'[k] = NewObject(wk.n, c, wk.mem)

Ends(k) ==
    /\ obj[k] # NoObj /\ obj[k].status = "running" /\ obj'[k] # NoObj
    /\ obj'[k].status \in Outcomes /\ <<k, obj'[k].status>> \in ended'

KeepsStatus(k) == obj[k] # NoObj /\ obj'[k] # NoObj /\ obj'[k].status = obj[k].status

\* Of the Jobs only those go that the history knows of.
Vanishes(k) == obj'[k] = NoObj /\ (k[3] \in Jobs => k \in lost')

\* Everything that can happen to an object.
Written(k) ==
    \/ obj'[k] = obj[k]
    \/ Vanishes(k)
    \/ KeepsStatus(k)
    \/ Ends(k)
    \/ \E c \in Tracked : Made(c, k)

LEMMA UpsertWrites ==
    ASSUME TInv, ObjFresh, NEW c \in Tracked, Busy, CreateOrUpdate(c),
           Steps[wk.pc].c = c, Steps[wk.pc].op \in {"upsert", "prune"}, NEW k \in Keys
    PROVE  Written(k)
<1> DEFINE ck == Key(wk.n, c)
           want == ReconcileComponents(wk.n, c, wk.mem, objCache[ck])
<1>1. ck \in Keys /\ obj \in [Keys -> Objects \cup {NoObj}] /\ NoObj \notin Objects
  BY KeyType, InstallAssumption DEF TInv, ObjType, WorkType, WorkerHolds
<1>2. \/ obj[ck] = NoObj /\ StoreObj(ck, NewObject(wk.n, c, wk.mem))
      \/ objCache[ck] # NoObj /\ ck \in objFresh /\ StoreObj(ck, want)
      \/ UNCHANGED objVars
  BY DEF CreateOrUpdate
<1>3. CASE UNCHANGED objVars
  BY <1>3 DEF Written, objVars
<1>4. CASE obj[ck] = NoObj /\ StoreObj(ck, NewObject(wk.n, c, wk.mem))
  BY <1>1, <1>4 DEF StoreObj, Written, Made, Writes
<1>5. CASE objCache[ck] # NoObj /\ ck \in objFresh /\ StoreObj(ck, want)
  <2>1. objCache[ck] = obj[ck] /\ obj[ck] \in Objects
    BY <1>1, <1>5 DEF ObjFresh
  <2>2. want.status = obj[ck].status /\ want # NoObj
    <3>1. want \in Objects
      BY <2>1, ObjectType DEF TInv, WorkType, WorkerHolds
    <3> QED
      BY <1>1, <2>1, <3>1 DEF ReconcileComponents, Objects
  <2> HIDE DEF want
  <2> QED
    BY <1>1, <1>5, <2>1, <2>2 DEF StoreObj, Written, KeepsStatus
<1> QED
  BY <1>2, <1>3, <1>4, <1>5

LEMMA WorkerWrites ==
    ASSUME TInv, ObjFresh, OnPlan, Worker, NEW k \in Keys
    PROVE  Written(k)
<1>1. obj \in [Keys -> Objects \cup {NoObj}] /\ NoObj \notin Objects
  BY InstallAssumption DEF TInv, ObjType
<1>2. ASSUME NEW n, NEW c, c \notin Jobs, StoreObj(Key(n, c), NoObj) PROVE Written(k)
  BY <1>1, <1>2, KeyParts DEF StoreObj, Written, Vanishes
<1>3. UNCHANGED objVars => Written(k)
  BY DEF Written, objVars
<1>4. CASE ParseConfig \/ addFinalizerIfNeeded \/ handleObjectDeletion
           \/ \E n \in CRs : Dequeue(n)
  BY <1>3, <1>4 DEF ParseConfig, addFinalizerIfNeeded, handleObjectDeletion, Dequeue
<1>5. CASE deleteExternalResources
  <2> DEFINE s == Cleanup(Kind, wk.mem.spec)
  <2>1. s \in Seq(Components \ Jobs)
    BY CleanupsSpareJobs
  <2>2. wk.del \in Nat /\ wk.del < Len(s)
    BY <1>5 DEF deleteExternalResources, TInv, WorkType, Workers
  <2>3. UNCHANGED objVars \/ StoreObj(Key(wk.n, s[wk.del + 1]), NoObj)
    BY <1>5 DEF deleteExternalResources
  <2> HIDE DEF s
  <2>4. s[wk.del + 1] \notin Jobs
    BY <2>1, <2>2
  <2> QED
    BY <1>2, <1>3, <2>3, <2>4
<1>6. ASSUME NEW c \in Tracked, upsertObjectIfNeeded(c) \/ PruneStep(c)
      PROVE  Written(k)
  <2>1. Busy /\ Steps[wk.pc].c = c /\ Steps[wk.pc].op \in {"upsert", "prune"}
    BY <1>6, StandsAt DEF upsertObjectIfNeeded, PruneStep
  <2>2. \/ CreateOrUpdate(c) \/ UNCHANGED objVars
        \/ Steps[wk.pc].op = "prune" /\ deleteObjectIfNeeded(c)
    BY <1>6, StandsAt DEF upsertObjectIfNeeded, PruneStep
  <2>3. Steps[wk.pc].op = "prune" /\ deleteObjectIfNeeded(c) => Written(k)
    <3>1. Steps[wk.pc].op = "prune" => c = "cronJob"
      BY <2>1, OnTheTable, Tables DEF WaitsAndReports
    <3>2. "cronJob" \notin Jobs
      BY DEF Jobs
    <3> QED
      BY <1>2, <1>3, <3>1, <3>2 DEF deleteObjectIfNeeded
  <2> QED
    BY <1>3, <2>1, <2>2, <2>3, UpsertWrites
<1>7. ASSUME NEW c \in Tracked, PartitionStep(c)
      PROVE  Written(k)
  <2> DEFINE ck == Key(wk.n, c)
  <2>1. Busy /\ Steps[wk.pc].c = c /\ Steps[wk.pc].op = "partition"
    BY <1>7, StandsAt DEF PartitionStep
  <2>2. \/ UNCHANGED objVars
        \/ MayPartition(c) /\ obj[ck] = NoObj /\ StoreObj(ck, NewObject(wk.n, c, wk.mem))
    BY <1>7 DEF PartitionStep, SkipPartition
  <2>3. ck \in Keys
    BY <2>1, KeyType DEF TInv, WorkType, WorkerHolds
  <2> QED
    BY <1>1, <1>3, <2>1, <2>2, <2>3 DEF StoreObj, Written, Made, Writes
<1>8. ASSUME NEW c \in Tracked, PollJob(c) \/ JobTimeout(c) \/ StatusStep(c)
      PROVE  Written(k)
  BY <1>3, <1>8 DEF PollJob, JobTimeout, StatusStep
<1> QED
  BY <1>4, <1>5, <1>6, <1>7, <1>8 DEF Worker, ReconcileStep

LEMMA ObjWrites ==
    ASSUME TInv, ObjFresh, OnPlan, [Next]_vars, NEW k \in Keys
    PROVE  Written(k)
<1>1. obj \in [Keys -> Objects \cup {NoObj}] /\ NoObj \notin Objects
  BY InstallAssumption DEF TInv, ObjType
<1>2. ASSUME NEW ck, StoreObj(ck, NoObj), lost' = lost \cup {ck} PROVE Written(k)
  BY <1>1, <1>2 DEF StoreObj, Written, Vanishes
<1>3. obj' = obj => Written(k)
  BY DEF Written
<1>4. ASSUME NEW ck \in Keys, NEW outcome \in Outcomes, EndJob(ck, outcome)
      PROVE  Written(k)
  <2> DEFINE o == [obj[ck] EXCEPT !.status = outcome]
  <2>1. o \in Objects /\ obj[ck].status = "running" /\ o.status = outcome
    BY <1>1, <1>4 DEF EndJob, Objects, Outcomes, Verdicts
  <2>2. /\ StoreObj(ck, o) /\ obj[ck] # NoObj
        /\ ended' = ended \cup {<<ck, outcome>>}
    BY <1>4 DEF EndJob
  <2> HIDE DEF o
  <2> QED
    BY <1>1, <2>1, <2>2 DEF StoreObj, Written, Ends
<1>5. CASE ClusterSteps
  BY <1>2, <1>4, <1>5 DEF ClusterSteps, CollectGarbage, Outcomes
<1>6. CASE Faults \/ Watches
  BY <1>3, <1>6 DEF Faults, Watches, CallFails, Restart, ObserveCR, ObserveObj, Resync, objVars
<1>7. CASE Users
  BY <1>2, <1>3, <1>7 DEF Users, CreateCR, EditCR, DeleteCR, DeleteChild, objVars
<1> QED
  BY <1>3, <1>5, <1>6, <1>7, WorkerWrites DEF Next, vars, objVars

\* Only the watches, and a restart, change what the caches show.
LEMMA CachesMove ==
    ASSUME [Next]_vars
    PROVE  (crCache' = crCache /\ objCache' = objCache) \/ Watches \/ Faults
<1>1. CASE Worker
  <2>1. \A c : CreateOrUpdate(c) \/ deleteObjectIfNeeded(c) => objCache' = objCache
    BY DEF CreateOrUpdate, deleteObjectIfNeeded, StoreObj, objVars
  <2>2. \A r, next : WriteInHand(r, next) => crCache' = crCache
    BY DEF WriteInHand, StoreCR, crVars
  <2>3. \A c : PartitionStep(c) => crCache' = crCache /\ objCache' = objCache
    BY DEF PartitionStep, SkipPartition, StoreObj, crVars, objVars
  <2>4. deleteExternalResources => crCache' = crCache /\ objCache' = objCache
    BY DEF deleteExternalResources, StoreObj, crVars, objVars
  <2>5. \A c : upsertObjectIfNeeded(c) \/ PruneStep(c) =>
                  crCache' = crCache /\ objCache' = objCache
    BY <2>1 DEF upsertObjectIfNeeded, PruneStep, crVars, objVars
  <2>6. \A c : StatusStep(c) => crCache' = crCache /\ objCache' = objCache
    BY <2>2 DEF StatusStep, crVars, objVars
  <2>7. addFinalizerIfNeeded \/ handleObjectDeletion =>
                  crCache' = crCache /\ objCache' = objCache
    BY <2>2 DEF addFinalizerIfNeeded, handleObjectDeletion, crVars, objVars
  <2> QED
    BY <1>1, <2>3, <2>4, <2>5, <2>6, <2>7
    DEF Worker, ReconcileStep, ParseConfig, PollJob, JobTimeout, Dequeue, crVars, objVars
<1>2. CASE ClusterSteps \/ Users
  BY <1>2 DEF ClusterSteps, CollectGarbage, EndJob, Users, CreateCR, EditCR, DeleteCR,
              DeleteChild, StoreCR, StoreObj, crVars, objVars
<1> QED
  BY <1>1, <1>2 DEF Next, vars, crVars, objVars

\* The caches show what is, or what they showed.
LEMMA CachesCopy ==
    ASSUME TInv, [Next]_vars
    PROVE  /\ \A k \in Keys : objCache'[k] \in {objCache[k], obj[k]}
           /\ \A n \in CRs : crCache'[n] \in {crCache[n], cr[n]}
<1>1. /\ crCache \in [CRs -> CRRecords \cup {NoCR}]
      /\ objCache \in [Keys -> Objects \cup {NoObj}]
  BY DEF TInv, CRType, ObjType
<1>2. CASE Watches \/ Faults
  <2>1. CASE Restart
    BY <2>1 DEF Restart
  <2>2. ASSUME NEW n \in CRs, ObserveCR(n)
        PROVE  objCache' = objCache /\ \A m \in CRs : crCache'[m] \in {crCache[m], cr[m]}
    BY <1>1, <2>2 DEF ObserveCR, objVars
  <2>3. ASSUME NEW k \in Keys, ObserveObj(k)
        PROVE  crCache' = crCache /\ \A j \in Keys : objCache'[j] \in {objCache[j], obj[j]}
    BY <1>1, <2>3 DEF ObserveObj, crVars
  <2> QED
    BY <1>2, <2>1, <2>2, <2>3 DEF Watches, Faults, Resync, CallFails, crVars, objVars
<1> QED
  BY <1>2, CachesMove

\* The objects tell the truth.
LEMMA ObjToldStep ==
    ASSUME TInv, ObjFresh, OnPlan, ObjTold, [Next]_vars
    PROVE  ObjTold'
<1> SUFFICES ASSUME NEW k \in Keys PROVE Told(k, obj[k])' /\ Told(k, objCache[k])'
  BY DEF ObjTold
<1>1. ended \subseteq ended'
  BY EndedGrows
<1>2. \A o : Told(k, o) => (o # NoObj => /\ k[3] \in Jobs => o.status # "none"
                                         /\ o.status \in Outcomes => <<k, o.status>> \in ended')
  BY <1>1 DEF Told
<1>3. Told(k, obj[k]) /\ Told(k, objCache[k])
  BY DEF ObjTold
<1>4. Told(k, objCache[k])'
  BY <1>2, <1>3, CachesCopy DEF Told
<1>5. CASE obj'[k] = obj[k] \/ Vanishes(k) \/ KeepsStatus(k)
  <2>1. obj'[k] # NoObj => obj[k] # NoObj /\ obj'[k].status = obj[k].status
    BY <1>5 DEF KeepsStatus, Vanishes
  <2> QED
    BY <1>2, <1>3, <1>4, <2>1 DEF Told
<1>6. CASE Ends(k)
  BY <1>4, <1>6 DEF Told, Ends, Outcomes
<1>7. ASSUME NEW c \in Tracked, Made(c, k)
      PROVE  Told(k, obj[k])'
  <2>1. k[3] = c
    BY <1>7, KeyParts DEF Made
  <2>2. obj'[k].status = IF c \in Jobs THEN "running" ELSE "none"
    BY <1>7 DEF Made, NewObject
  <2> QED
    BY <2>1, <2>2 DEF Told, Outcomes
<1> QED
  BY <1>4, <1>5, <1>6, <1>7, ObjWrites DEF Written

-----------------------------------------------------------------------------
(***************************************************************************)
(* The custom resources tell the truth.                                    *)
(***************************************************************************)
Reports(n) ==
    /\ Busy /\ n = wk.n /\ wk.fresh /\ Steps[wk.pc].op = "status"
    /\ cr'[n].spec = wk.mem.spec /\ cr'[n].cond = wk.job

\* Everything that can happen to a custom resource.
CRWritten(n) ==
    \/ cr'[n] \in {cr[n], NoCR}
    \/ cr[n] # NoCR /\ Carries(cr[n], cr'[n])
    \/ Busy /\ n = wk.n /\ wk.fresh /\ Carries(wk.mem, cr'[n])
    \/ Reports(n)
    \/ cr[n] = NoCR /\ cr'[n].spec \in SpecChoices /\ cr'[n].cond = "none"

LEMMA CRWrites ==
    ASSUME TInv, [Next]_vars, NEW n \in CRs
    PROVE  CRWritten(n)
<1>1. cr \in [CRs -> CRRecords \cup {NoCR}]
  BY DEF TInv, CRType
<1>2. cr' = cr => CRWritten(n)
  BY DEF CRWritten
<1>3. ASSUME NEW m \in CRs, NEW r, StoreCR(m, r)
      PROVE  cr'[n] = IF n = m THEN r ELSE cr[n]
  BY <1>1, <1>3 DEF StoreCR
<1>4. Busy => wk \in Workers /\ wk.n \in CRs /\ wk.mem \in CRRecords
  BY DEF TInv, WorkType, WorkerHolds
<1>5. CASE addFinalizerIfNeeded
  <2> DEFINE r == [wk.mem EXCEPT !.fin = TRUE]
  <2>1. Busy
    BY <1>5 DEF addFinalizerIfNeeded, At, Busy
  <2>2. Carries(wk.mem, r)
    BY <1>4, <2>1 DEF CRRecords, Carries
  <2>3. UNCHANGED cr \/ (wk.fresh /\ StoreCR(wk.n, r))
    BY <1>5 DEF addFinalizerIfNeeded, WriteInHand, crVars
  <2> HIDE DEF r
  <2> QED
    BY <1>2, <1>3, <1>4, <2>1, <2>2, <2>3 DEF CRWritten
<1>6. CASE handleObjectDeletion
  <2>1. Busy
    BY <1>6 DEF handleObjectDeletion, At, Busy
  <2>2. UNCHANGED cr \/ StoreCR(wk.n, NoCR)
    BY <1>6 DEF handleObjectDeletion, WriteInHand, crVars
  <2> QED
    BY <1>2, <1>3, <1>4, <2>1, <2>2 DEF CRWritten
<1>7. ASSUME NEW c \in Tracked, StatusStep(c)
      PROVE  CRWritten(n)
  <2> DEFINE r == [wk.mem EXCEPT !.cond = wk.job]
  <2>1. Busy /\ Steps[wk.pc].op = "status"
    BY <1>7, StandsAt DEF StatusStep
  <2>2. r.spec = wk.mem.spec /\ r.cond = wk.job
    BY <1>4, <2>1 DEF CRRecords
  <2>3. UNCHANGED cr \/ (wk.fresh /\ StoreCR(wk.n, r))
    BY <1>7 DEF StatusStep, WriteInHand, crVars
  <2> HIDE DEF r
  <2> QED
    BY <1>2, <1>3, <1>4, <2>1, <2>2, <2>3 DEF CRWritten, Reports
<1>8. CASE Worker
  <2>1. ParseConfig \/ deleteExternalResources \/ (\E m \in CRs : Dequeue(m)) => cr' = cr
    BY DEF ParseConfig, deleteExternalResources, Dequeue, crVars
  <2>2. (\E c \in Tracked : \/ upsertObjectIfNeeded(c) \/ PruneStep(c) \/ PollJob(c)
                            \/ JobTimeout(c) \/ PartitionStep(c)) => cr' = cr
    BY DEF upsertObjectIfNeeded, PruneStep, PollJob, JobTimeout, PartitionStep, crVars
  <2> QED
    BY <1>2, <1>5, <1>6, <1>7, <1>8, <2>1, <2>2 DEF Worker, ReconcileStep
<1>9. CASE Faults \/ Watches \/ ClusterSteps
  BY <1>2, <1>9 DEF Faults, Watches, ClusterSteps, CallFails, Restart, ObserveCR, ObserveObj,
                    Resync, CollectGarbage, EndJob, crVars
<1>10. ASSUME NEW m \in CRs, NEW spec \in SpecChoices, CreateCR(m, spec)
       PROVE  CRWritten(n)
  BY <1>3, <1>10 DEF CreateCR, CRWritten
<1>11. ASSUME NEW m \in CRs, NEW spec \in SpecChoices, EditCR(m, spec)
       PROVE  CRWritten(n)
  <2> DEFINE r == [cr[m] EXCEPT !.spec = spec]
  <2>1. cr[m] # NoCR /\ r.spec = spec /\ r.cond = cr[m].cond
    BY <1>1, <1>11 DEF EditCR, CRRecords
  <2>2. StoreCR(m, r)
    BY <1>11 DEF EditCR
  <2> HIDE DEF r
  <2> QED
    BY <1>3, <2>1, <2>2 DEF CRWritten, Carries
<1>12. ASSUME NEW m \in CRs, DeleteCR(m)
       PROVE  CRWritten(n)
  <2> DEFINE r == [cr[m] EXCEPT !.deleting = TRUE]
  <2>1. cr[m] # NoCR /\ r.spec = cr[m].spec /\ r.cond = cr[m].cond
    BY <1>1, <1>12 DEF DeleteCR, CRRecords
  <2>2. StoreCR(m, r) \/ StoreCR(m, NoCR)
    BY <1>12 DEF DeleteCR
  <2> HIDE DEF r
  <2> QED
    BY <1>3, <2>1, <2>2 DEF CRWritten, Carries
<1>13. CASE Users
  BY <1>2, <1>10, <1>11, <1>12, <1>13 DEF Users, DeleteChild, crVars
<1> QED
  BY <1>2, <1>8, <1>9, <1>13 DEF Next, vars, crVars

LEMMA CRsToldStep ==
    ASSUME TInv, CRsTold, JobRead, OnPlan, [Next]_vars
    PROVE  CRsTold'
<1>1. ended \subseteq ended'
  BY EndedGrows
<1>2. NoCR \notin CRRecords
  BY InstallAssumption
<1> DEFINE CRTolds(n, r) ==
              r # NoCR => /\ r.spec \in SpecChoices
                          /\ r.cond \in Outcomes => <<Key(n, "partition"), r.cond>> \in ended'
<1>3. \A n, r : CRTold(n, r) => CRTolds(n, r)
  BY <1>1 DEF CRTold
<1>4. Busy => wk.mem # NoCR /\ wk.n \in CRs /\ CRTold(wk.n, wk.mem)
  BY <1>2 DEF TInv, WorkType, WorkerHolds, CRsTold
<1>5. ASSUME NEW n \in CRs PROVE CRTolds(n, cr'[n])
  <2>1. CRTold(n, cr[n])
    BY DEF CRsTold
  <2>2. CASE cr'[n] \in {cr[n], NoCR}
    BY <1>3, <2>1, <2>2
  <2>3. CASE cr[n] # NoCR /\ Carries(cr[n], cr'[n])
    BY <1>1, <2>1, <2>3 DEF CRTold, Carries
  <2>4. CASE Busy /\ n = wk.n /\ wk.fresh /\ Carries(wk.mem, cr'[n])
    BY <1>1, <1>4, <2>4 DEF CRTold, Carries
  <2>5. CASE Reports(n)
    <3>1. wk.pc \in 1..Len(Steps)
      BY <2>5, StepsStart DEF Reports, Busy, OnPlan, TInv, WorkType, Workers, FinalizeEarly
    <3>2. Kind = "Lookout"
      BY <2>5, <3>1, Tables DEF WaitsAndReports, Reports
    <3> QED
      BY <1>1, <1>4, <2>5, <3>2 DEF Reports, JobRead, CRTold
  <2>6. CASE cr[n] = NoCR /\ cr'[n].spec \in SpecChoices /\ cr'[n].cond = "none"
    BY <2>6 DEF Outcomes
  <2> HIDE DEF CRTolds
  <2> QED
    BY <2>2, <2>3, <2>4, <2>5, <2>6, CRWrites DEF CRWritten
<1>6. ASSUME NEW n \in CRs PROVE CRTolds(n, crCache'[n])
  <2>1. CRTold(n, cr[n]) /\ CRTold(n, crCache[n])
    BY DEF CRsTold
  <2>2. crCache'[n] \in {crCache[n], cr[n]}
    BY CachesCopy
  <2> HIDE DEF CRTolds
  <2> QED
    BY <1>3, <2>1, <2>2
<1>7. ASSUME Busy' PROVE CRTolds(wk'.n, wk'.mem)
  <2>1. CASE Starts
    <3>1. PICK n \in CRs : wk'.mem = crCache[n] /\ wk'.n = n
      BY <2>1 DEF Starts
    <3>2. CRTold(n, crCache[n])
      BY DEF CRsTold
    <3> HIDE DEF CRTolds
    <3> QED
      BY <1>3, <3>1, <3>2
  <2>2. CASE Stays
    <3>1. wk'.mem = wk.mem /\ wk'.n = wk.n /\ CRTold(wk.n, wk.mem)
      BY <1>4, <2>2 DEF Stays
    <3> HIDE DEF CRTolds
    <3> QED
      BY <1>3, <3>1
  <2>3. CASE Goes
    <3>1. wk'.mem.spec = wk.mem.spec /\ wk'.mem.cond = wk.mem.cond /\ wk'.n = wk.n
      BY <2>3 DEF Goes
    <3>2. CRTolds(wk.n, wk.mem) /\ wk.mem # NoCR
      BY <1>3, <1>4, <2>3 DEF Goes
    <3> QED
      BY <3>1, <3>2
  <2> QED
    BY <1>7, <2>1, <2>2, <2>3, Moves
<1> QED
  BY <1>5, <1>6, <1>7 DEF CRsTold, CRTold, Busy

-----------------------------------------------------------------------------
(***************************************************************************)
(* The status in hand, and the waits.                                      *)
(***************************************************************************)
\* No step leads to the report but the one that sees to the partition Job.
LEMMA OnlyFromPartition ==
    ASSUME TInv, OnPlan, Goes, Kind = "Lookout"
    PROVE  /\ Steps[wk'.pc].op = "status" <=> Steps[wk.pc].op = "partition"
           /\ Steps[wk.pc].op # "status"
<1>1. /\ Len(Steps) = 13
      /\ Steps[12].op = "partition" /\ Steps[12].c = "partition"
      /\ Steps[13].op = "status" /\ Steps[13].c = "partition"
      /\ \A i \in 1..13 : /\ Steps[i].op = "status" => i = 13
                          /\ Steps[i].op = "partition" => i = 12
  BY Tables, StepFields DEF LookoutEnds
<1>2. wk.pc \in 1..13 /\ wk'.pc \in 1..13 /\ wk'.pc > wk.pc
  BY <1>1, OnTheTable DEF Goes, StepsAfter
<1>3. ASSUME Steps[wk'.pc].op = "status"
      PROVE  Steps[wk.pc].op = "partition"
  <2>1. wk'.pc = 13 /\ "partition" \in Tracked \cup {"none"}
    BY <1>1, <1>2, <1>3 DEF Goes, StepsAfter
  <2>2. wk.pc < 12 => 12 \in StepsAfter(wk.pc)
    BY <1>1, <1>2, <2>1 DEF StepsAfter
  <2>3. wk.pc = 12
    BY <1>2, <2>1, <2>2 DEF Goes
  <2> QED
    BY <1>1, <2>3
<1>4. ASSUME Steps[wk.pc].op = "partition"
      PROVE  Steps[wk'.pc].op = "status"
  <2>1. wk'.pc = 13
    BY <1>1, <1>2, <1>4
  <2> QED
    BY <1>1, <2>1
<1>5. Steps[wk.pc].op # "status"
  BY <1>1, <1>2
<1> QED
  BY <1>3, <1>4, <1>5

LEMMA JobReadStep ==
    ASSUME TInv, OnPlan, ObjTold, JobRead, [Next]_vars
    PROVE  JobRead'
<1> SUFFICES ASSUME Kind = "Lookout", Busy', wk'.job \in Outcomes
             PROVE  <<Key(wk'.n, IF Steps[wk'.pc].op = "status" THEN "partition"
                                 ELSE "migration"), wk'.job>> \in ended'
  BY DEF JobRead
<1>1. ended \subseteq ended'
  BY EndedGrows
<1>2. ~Starts
  BY DEF Starts, Outcomes
<1>3. CASE Stays
  BY <1>1, <1>3 DEF Stays, JobRead
<1>4. CASE Goes
  <2>1. wk'.n = wk.n /\ Busy /\ wk.pc \in 1..Len(Steps) /\ wk.n \in CRs
    BY <1>4, OnTheTable DEF Goes, TInv, WorkType, WorkerHolds
  <2>2. /\ Steps[wk'.pc].op = "status" <=> Steps[wk.pc].op = "partition"
        /\ Steps[wk.pc].op # "status"
    BY <1>4, OnlyFromPartition
  <2>3. CASE PassesBy
    BY <1>1, <2>1, <2>2, <2>3 DEF PassesBy, JobRead
  <2>4. CASE Reads
    <3> DEFINE c == Steps[wk.pc].c
    <3>1. c = IF Steps[wk.pc].op = "partition" THEN "partition" ELSE "migration"
      BY <2>1, <2>4, Tables DEF WaitsAndReports, Reads
    <3>2. objCache[Key(wk.n, c)] # NoObj /\ wk'.job = objCache[Key(wk.n, c)].status
      BY <2>4 DEF Reads, Outcomes
    <3>3. Key(wk.n, c) \in Keys
      BY <2>1, <2>4, KeyType DEF Reads
    <3>4. <<Key(wk.n, c), wk'.job>> \in ended
      BY <3>2, <3>3 DEF ObjTold, Told
    <3> QED
      BY <1>1, <2>1, <2>2, <3>1, <3>4
  <2> QED
    BY <1>4, <2>3, <2>4 DEF Goes
<1> QED
  BY <1>2, <1>3, <1>4, Moves

LEMMA WaitsPassedStep ==
    ASSUME TInv, OnPlan, ObjTold, CRsTold, WaitsPassed, [Next]_vars
    PROVE  WaitsPassed'
<1> SUFFICES ASSUME Busy', NEW i \in 1..Len(Steps), i < wk'.pc, Awaited(i)
             PROVE  \E outcome \in Outcomes : <<Key(wk'.n, Steps[i].c), outcome>> \in ended'
  BY DEF WaitsPassed, HasEnded, Outcomes, Awaited
<1>1. ended \subseteq ended' /\ i \in Nat /\ i >= 1
  BY EndedGrows
<1>2. ASSUME Busy, i < wk.pc, wk'.n = wk.n
      PROVE  \E outcome \in Outcomes : <<Key(wk'.n, Steps[i].c), outcome>> \in ended'
  BY <1>1, <1>2 DEF WaitsPassed, HasEnded, Outcomes
<1>3. ~Starts
  BY <1>1 DEF Starts
<1>4. CASE Stays
  BY <1>2, <1>4 DEF Stays
<1>5. CASE Goes
  <2>1. wk'.n = wk.n /\ Busy /\ wk.pc \in 1..Len(Steps) /\ Len(Steps) \in Nat
    BY <1>5, OnTheTable DEF Goes
  <2>2. wk'.pc \in Nat /\ wk'.pc > wk.pc
    BY <1>5, <2>1 DEF Goes, StepsAfter
  <2>3. ~(i > wk.pc)
    BY <1>5, <2>1, <2>2 DEF Goes, StepsAfter, Awaited
  <2>4. CASE i = wk.pc
    <3> DEFINE c == Steps[i].c
               read == objCache[Key(wk.n, c)]
    <3>1. wk.n \in CRs /\ wk.mem \in CRRecords /\ wk.mem # NoCR
      BY <2>1, InstallAssumption DEF TInv, WorkType, WorkerHolds
    <3>2. wk.mem.spec \in SpecChoices
      BY <2>1, <3>1 DEF CRsTold, CRTold
    <3>3. Steps[i].op = "wait" /\ c \in Jobs /\ c \in Generated(Kind, wk.mem.spec)
      BY <3>2, Tables DEF Awaited, WaitsAndReports
    <3>4. Reads
      BY <1>5, <2>4, <3>3 DEF Goes, PassesBy
    <3>5. c \in Tracked /\ read # NoObj /\ read.status # "running"
      BY <2>4, <3>3, <3>4 DEF Reads
    <3>6. Key(wk.n, c) \in Keys /\ Key(wk.n, c)[3] = c
      BY <3>1, <3>5, KeyType, KeyParts
    <3>7. read.status \in Verdicts
      BY <3>5, <3>6 DEF TInv, ObjType, Objects
    <3>8. Told(Key(wk.n, c), read)
      BY <3>6 DEF ObjTold
    <3>9. read.status \in Outcomes /\ <<Key(wk.n, c), read.status>> \in ended
      BY <3>3, <3>5, <3>6, <3>7, <3>8 DEF Told, Verdicts, Outcomes
    <3> QED
      BY <1>1, <2>1, <3>9
  <2>5. CASE i < wk.pc
    BY <1>2, <2>1, <2>5
  <2>6. i < wk.pc \/ i = wk.pc \/ i > wk.pc
    BY <2>1
  <2> QED
    BY <2>3, <2>4, <2>5, <2>6
<1> QED
  BY <1>3, <1>4, <1>5, Moves

-----------------------------------------------------------------------------
(***************************************************************************)
(* The gates hold.                                                         *)
(***************************************************************************)
LEMMA PartitionedStep ==
    ASSUME TInv, ObjFresh, OnPlan, JobRead, Partitioned, [Next]_vars
    PROVE  Partitioned'
<1> SUFFICES ASSUME NEW n \in CRs, "partition" \in Tracked, obj'[Key(n, "partition")] # NoObj
             PROVE  <<Key(n, "migration"), "complete">> \in ended'
  BY DEF Partitioned
<1> DEFINE k == Key(n, "partition")
<1>1. ended \subseteq ended' /\ k \in Keys
  BY EndedGrows, KeyType
<1>2. CASE obj[k] # NoObj
  BY <1>1, <1>2 DEF Partitioned
<1>3. CASE obj[k] = NoObj
  <2>1. PICK c \in Tracked : Made(c, k)
    BY <1>1, <1>3, ObjWrites DEF Written, Vanishes, KeepsStatus, Ends
  <2>2. Busy /\ wk.pc \in 1..Len(Steps)
    BY <2>1, OnTheTable DEF Made
  <2>3. c = "partition" /\ k = Key(wk.n, "partition")
    BY <2>1, KeyParts DEF Made
  <2>4. Steps[wk.pc].op = "partition" /\ Kind = "Lookout"
    BY <2>1, <2>2, <2>3, Tables DEF Made, WaitsAndReports
  <2>5. <<Key(wk.n, "migration"), "complete">> \in ended
    BY <2>1, <2>2, <2>4 DEF Made, MayPartition, JobRead, Outcomes
  <2>6. Key(wk.n, "migration") = Key(n, "migration")
    <3>1. "partition" \notin ClusterScoped \cup PulsarJobs /\ "migration" \in Jobs
      BY DEF ClusterScoped, PulsarJobs, Jobs
    <3>2. n[1] = wk.n[1] /\ n[2] = wk.n[2]
      BY <2>3, <3>1, KeyParts
    <3> QED
      BY <3>1, <3>2, KeyParts
  <2> QED
    BY <1>1, <2>5, <2>6
<1> QED
  BY <1>2, <1>3

\* What a step writes lies behind every wait that parts it from the start.
LEMMA JobsGateStep ==
    ASSUME TInv, ObjFresh, OnPlan, WaitsPassed, JobsGate, [Next]_vars
    PROVE  JobsGate'
<1> SUFFICES ASSUME NEW n \in CRs, NEW i \in DOMAIN Steps, NEW j \in DOMAIN Steps,
                    i < j, Awaited(i), Writes(Steps[j]), Steps[j].c \in Tracked,
                    obj'[Key(n, Steps[j].c)] # NoObj
             PROVE  \E outcome \in Outcomes : <<Key(n, Steps[i].c), outcome>> \in ended'
  BY DEF JobsGate, Awaited, Writes, HasEnded, Outcomes
<1> DEFINE k == Key(n, Steps[j].c)
<1>1. ended \subseteq ended' /\ k \in Keys
  BY EndedGrows, KeyType
<1>2. i \in 1..Len(Steps) /\ j \in 1..Len(Steps)
  BY StepsStart DEF FinalizeEarly
<1>3. CASE obj[k] # NoObj
  BY <1>1, <1>3 DEF JobsGate, Awaited, Writes, HasEnded, Outcomes
<1>4. CASE obj[k] = NoObj
  <2>1. PICK c \in Tracked : Made(c, k)
    BY <1>1, <1>4, ObjWrites DEF Written, Vanishes, KeepsStatus, Ends
  <2>2. Busy /\ wk.pc \in 1..Len(Steps)
    BY <2>1, OnTheTable DEF Made
  <2>3. Steps[wk.pc].c = Steps[j].c /\ Writes(Steps[wk.pc]) /\ k = Key(wk.n, Steps[j].c)
    BY <2>1, KeyParts DEF Made
  <2>4. Steps[i].op = "wait" /\ Steps[i].c \in Jobs
    BY <1>2, Tables DEF Awaited, WaitsAndReports
  <2>5. PICK later : Parts(i, later)
    BY <1>2, <2>4, Tables DEF WaitsPart
  <2>6. Steps[j].c \in later /\ wk.pc > i
    BY <1>2, <2>2, <2>3, <2>5 DEF Parts
  <2>7. \E outcome \in Outcomes : <<Key(wk.n, Steps[i].c), outcome>> \in ended
    BY <1>2, <2>2, <2>6 DEF WaitsPassed, HasEnded, Outcomes
  <2>8. Key(wk.n, Steps[i].c) = Key(n, Steps[i].c)
    <3>1. Steps[j].c \notin ClusterScoped
      BY <2>5, <2>6 DEF Parts
    <3>2. n[1] = wk.n[1] /\ (Steps[j].c \notin PulsarJobs => n[2] = wk.n[2])
      BY <2>3, <3>1, KeyParts
    <3>3. Steps[i].c \notin PulsarJobs => n[2] = wk.n[2]
      BY <2>5, <2>6, <3>2 DEF Parts
    <3> QED
      BY <2>4, <3>2, <3>3, KeyParts
  <2> QED
    BY <1>1, <2>7, <2>8
<1> QED
  BY <1>3, <1>4

\* The invariant holds in every reachable state.
THEOREM GatesInvariance == Spec => []GInv
<1>1. Init => GInv
  <2> SUFFICES ASSUME Init PROVE GInv
    OBVIOUS
  <2>1. /\ \A k \in Keys : obj[k] = NoObj /\ objCache[k] = NoObj
        /\ \A n \in CRs : cr[n] = NoCR /\ crCache[n] = NoCR
        /\ ~Busy
    BY IdleType DEF Init, Busy
  <2>2. Partitioned
    BY <2>1, KeyType DEF Partitioned
  <2>3. JobsGate
    BY <2>1, KeyType DEF JobsGate
  <2> QED
    BY <2>1, <2>2, <2>3 DEF GInv, ObjTold, Told, CRsTold, CRTold, JobRead, WaitsPassed
<1>2. LInv /\ GInv /\ [Next]_vars => GInv'
  <2> SUFFICES ASSUME LInv, GInv, [Next]_vars PROVE GInv'
    OBVIOUS
  <2>1. TInv /\ ObjFresh /\ OnPlan
    BY TypesSplit DEF LInv, IInv
  <2> QED
    BY <2>1, ObjToldStep, CRsToldStep, JobReadStep, WaitsPassedStep, PartitionedStep,
       JobsGateStep DEF GInv
<1> QED
  BY <1>1, <1>2, LifecycleInvariance, PTL DEF Spec

\* What Reconcile writes after it has waited for a Job is there only once a Job of
\* that name has ended.
THEOREM JobsAreAwaited == Spec => []JobsGate
<1>1. GInv => JobsGate
  BY DEF GInv
<1> QED
  BY <1>1, GatesInvariance, PTL

\* The job table is partitioned only after a migration has succeeded.
THEOREM PartitionAwaited ==
    ASSUME "partition" \in Tracked
    PROVE  Spec => []PartitionGate
<1>1. GInv => PartitionGate
  BY DEF GInv, Partitioned, PartitionGate
<1> QED
  BY <1>1, GatesInvariance, PTL

\* The condition says of the partition Job only what has happened to one.
THEOREM VerdictsAreEarned == Spec => []VerdictHonest
<1>1. GInv => VerdictHonest
  BY DEF GInv, CRsTold, CRTold, VerdictHonest, Outcomes
<1> QED
  BY <1>1, GatesInvariance, PTL

-----------------------------------------------------------------------------
(***************************************************************************)
(* A verdict stands: what the condition of a Lookout once says of the end  *)
(* of its partition Job it keeps saying, as long as nobody removes the     *)
(* Job.  The invariant.                                                    *)
(***************************************************************************)
Partitioner(n) == Key(n, "partition")

\* A Job that has ended and was not removed is there, with its outcome.
EndsStand ==
    \A k \in Keys, outcome \in Outcomes :
        k[3] \in Jobs /\ k \notin lost /\ <<k, outcome>> \in ended =>
            obj[k] # NoObj /\ obj[k].status = outcome

\* The cache shows the end of Job k, as v.
Seen(k, v) == objCache[k] # NoObj /\ objCache[k].status = v

\* The operator has seen what a condition reports.
CondSeen ==
    \A n \in CRs :
        cr[n] # NoCR /\ cr[n].cond \in Outcomes /\ Partitioner(n) \notin lost =>
            Seen(Partitioner(n), cr[n].cond)

\* What the worker is about to report it has seen, and it is what the condition
\* says already if that is a verdict.
ReportSeen ==
    Busy /\ Steps[wk.pc].op = "status" /\ Partitioner(wk.n) \notin lost =>
        /\ wk.job \in Outcomes => Seen(Partitioner(wk.n), wk.job)
        /\ wk.fresh /\ wk.mem.cond \in Outcomes => wk.job = wk.mem.cond

VInv == EndsStand /\ CondSeen /\ ReportSeen

-----------------------------------------------------------------------------
(***************************************************************************)
(* Jobs that are not removed.                                              *)
(***************************************************************************)
\* A Job that ends has its outcome on it.
LEMMA EndsMarked ==
    ASSUME TInv, [Next]_vars, NEW k \in Keys, NEW outcome, <<k, outcome>> \in ended' \ ended
    PROVE  obj'[k] # NoObj /\ obj'[k].status = outcome
<1>1. ended' = ended \/ ClusterSteps
  <2>1. CASE Worker
    BY <2>1 DEF Worker, ReconcileStep, ParseConfig, addFinalizerIfNeeded,
                deleteExternalResources, handleObjectDeletion, upsertObjectIfNeeded, PruneStep,
                PollJob, JobTimeout, PartitionStep, StatusStep, Dequeue, world
  <2>2. CASE Faults \/ Watches
    BY <2>2 DEF Faults, Watches, CallFails, Restart, ObserveCR, ObserveObj, Resync, world
  <2>3. CASE Users
    BY <2>3 DEF Users, CreateCR, EditCR, DeleteCR, DeleteChild, UserChange
  <2> QED
    BY <2>1, <2>2, <2>3 DEF Next, vars, world
<1>2. PICK ck \in Keys, o \in Outcomes : EndJob(ck, o)
  BY <1>1 DEF ClusterSteps, CollectGarbage, Outcomes
<1>3. ck = k /\ o = outcome
  BY <1>2 DEF EndJob
<1>4. obj \in [Keys -> Objects \cup {NoObj}] /\ NoObj \notin Objects
  BY InstallAssumption DEF TInv, ObjType
<1> DEFINE new == [obj[k] EXCEPT !.status = outcome]
<1>5. new \in Objects /\ new.status = outcome
  BY <1>2, <1>3, <1>4 DEF EndJob, Objects, Verdicts, Outcomes
<1>6. obj' = [obj EXCEPT ![k] = new]
  BY <1>2, <1>3 DEF EndJob, StoreObj
<1> HIDE DEF new
<1> QED
  BY <1>4, <1>5, <1>6

LEMMA EndsStandStep ==
    ASSUME TInv, ObjFresh, OnPlan, EndsStand, [Next]_vars
    PROVE  EndsStand'
<1> SUFFICES ASSUME NEW k \in Keys, NEW outcome \in Outcomes, k[3] \in Jobs, k \notin lost',
                    <<k, outcome>> \in ended'
             PROVE  obj'[k] # NoObj /\ obj'[k].status = outcome
  BY DEF EndsStand
<1>1. CASE <<k, outcome>> \notin ended
  BY <1>1, EndsMarked
<1>2. CASE <<k, outcome>> \in ended
  <2>1. obj[k] # NoObj /\ obj[k].status = outcome
    BY <1>2, LostGrows DEF EndsStand
  <2>2. Written(k)
    BY ObjWrites
  <2> QED
    BY <2>1, <2>2 DEF Written, Vanishes, KeepsStatus, Ends, Made, Outcomes
<1> QED
  BY <1>1, <1>2

-----------------------------------------------------------------------------
(***************************************************************************)
(* What was seen.                                                          *)
(***************************************************************************)
SeenNow(k, v) == objCache'[k] # NoObj /\ objCache'[k].status = v

\* The cache never shows a Job that has ended as anything else again.
LEMMA StillSeen ==
    ASSUME TInv, ObjTold, EndsStand, [Next]_vars, NEW k \in Keys, k[3] \in Jobs, k \notin lost',
           NEW v \in Outcomes, Seen(k, v)
    PROVE  SeenNow(k, v)
<1>1. k \notin lost
  BY LostGrows
<1>2. <<k, v>> \in ended
  BY DEF Seen, ObjTold, Told
<1>3. obj[k] # NoObj /\ obj[k].status = v
  BY <1>1, <1>2 DEF EndsStand
<1> QED
  BY <1>3, CachesCopy DEF Seen, SeenNow

\* Whoever has a verdict has a partition Job among the objects.
LEMMA Verdict ==
    ASSUME TInv, CRsTold, NEW n \in CRs, cr[n] # NoCR, cr[n].cond \in Outcomes
    PROVE  Partitioner(n) \in Keys /\ Partitioner(n)[3] \in Jobs
<1>1. <<Partitioner(n), cr[n].cond>> \in ended
  BY DEF CRsTold, CRTold, Partitioner
<1>2. Partitioner(n) \in Keys
  BY <1>1 DEF TInv, WorldType
<1>3. Partitioner(n)[3] = "partition"
  BY KeyParts DEF Partitioner
<1> QED
  BY <1>2, <1>3 DEF Jobs

\* Only Lookout reports, and on its partition Job.
LEMMA Report ==
    ASSUME TInv, OnPlan, Busy, Steps[wk.pc].op = "status"
    PROVE  Kind = "Lookout" /\ Steps[wk.pc].c = "partition"
  BY OnTheTable, Tables DEF WaitsAndReports

\* A verdict that the worker holds in a fresh copy is the one that is stored, and
\* what it reports then is that same verdict.
LEMMA ReportsAgree ==
    ASSUME TInv, CRInv, ReportSeen, NEW n \in CRs, Reports(n), cr[n].cond \in Outcomes,
           Partitioner(n) \notin lost
    PROVE  cr'[n].cond = cr[n].cond
<1>1. cr[n] = wk.mem
  BY DEF CRInv, WorkFresh, Reports
<1> QED
  BY <1>1 DEF Reports, ReportSeen

LEMMA CondSeenStep ==
    ASSUME TInv, CRInv, OnPlan, ObjTold, CRsTold, JobRead, VInv, [Next]_vars
    PROVE  CondSeen'
<1> USE DEF VInv
<1> SUFFICES ASSUME NEW n \in CRs, cr'[n] # NoCR, cr'[n].cond \in Outcomes,
                    Partitioner(n) \notin lost'
             PROVE  SeenNow(Partitioner(n), cr'[n].cond)
  BY DEF CondSeen, Seen, SeenNow, Partitioner
<1>1. Partitioner(n) \notin lost
  BY LostGrows
<1>2. ASSUME cr[n] # NoCR, cr'[n].cond = cr[n].cond
      PROVE  SeenNow(Partitioner(n), cr'[n].cond)
  <2>1. Seen(Partitioner(n), cr[n].cond)
    BY <1>1, <1>2 DEF CondSeen
  <2>2. Partitioner(n) \in Keys /\ Partitioner(n)[3] \in Jobs
    BY <1>2, Verdict
  <2>3. SeenNow(Partitioner(n), cr[n].cond)
    BY <1>2, <2>1, <2>2, StillSeen
  <2> QED
    BY <1>2, <2>3
<1>3. CASE Reports(n)
  <2>1. wk.job \in Outcomes /\ Busy /\ n = wk.n /\ Steps[wk.pc].op = "status"
    BY <1>3 DEF Reports
  <2>2. Seen(Partitioner(n), wk.job)
    BY <1>1, <2>1 DEF ReportSeen
  <2>3. Partitioner(n) \in Keys /\ Partitioner(n)[3] \in Jobs
    <3>1. <<Partitioner(n), wk.job>> \in ended
      BY <2>1, Report DEF JobRead, Partitioner
    <3>2. Partitioner(n)[3] = "partition"
      BY KeyParts DEF Partitioner
    <3> QED
      BY <3>1, <3>2 DEF TInv, WorldType, Jobs
  <2>4. SeenNow(Partitioner(n), wk.job)
    BY <2>1, <2>2, <2>3, StillSeen
  <2> QED
    BY <1>3, <2>4 DEF Reports
<1>4. CASE Busy /\ n = wk.n /\ wk.fresh /\ Carries(wk.mem, cr'[n])
  <2>1. cr[n] = wk.mem /\ wk.mem # NoCR
    BY <1>4, InstallAssumption DEF CRInv, WorkFresh, TInv, WorkType, WorkerHolds
  <2> QED
    BY <1>2, <1>4, <2>1 DEF Carries
<1> QED
  BY <1>2, <1>3, <1>4, CRWrites DEF CRWritten, Carries, Outcomes

LEMMA ReportSeenStep ==
    ASSUME TInv, CRInv, OnPlan, ObjTold, CRsTold, JobRead, VInv, [Next]_vars
    PROVE  ReportSeen'
<1> USE DEF VInv
<1> DEFINE k == Partitioner(wk'.n)
<1> SUFFICES ASSUME Busy', Steps[wk'.pc].op = "status", k \notin lost'
             PROVE  /\ wk'.job \in Outcomes => SeenNow(k, wk'.job)
                    /\ wk'.fresh /\ wk'.mem.cond \in Outcomes => wk'.job = wk'.mem.cond
  BY DEF ReportSeen, Seen, SeenNow, Partitioner
<1>1. k \notin lost
  BY LostGrows
<1>2. ~Starts
  BY StepsStart DEF Starts, FinalizeEarly, Finalize, Parse, Step
<1>3. CASE Stays
  <2>1. /\ wk'.n = wk.n /\ wk'.job = wk.job /\ wk'.mem = wk.mem /\ (wk'.fresh => wk.fresh)
        /\ Busy /\ Steps[wk.pc].op = "status" /\ wk.n \in CRs
    BY <1>3 DEF Stays, TInv, WorkType, WorkerHolds
  <2>2. ASSUME wk.job \in Outcomes PROVE SeenNow(k, wk.job)
    <3>1. <<k, wk.job>> \in ended
      BY <2>1, <2>2, Report DEF JobRead, Partitioner
    <3>2. k \in Keys /\ k[3] \in Jobs
      BY <3>1, KeyParts DEF TInv, WorldType, Partitioner, Jobs
    <3>3. Seen(k, wk.job)
      BY <1>1, <2>1, <2>2 DEF ReportSeen
    <3> QED
      BY <2>2, <3>2, <3>3, StillSeen
  <2> QED
    BY <1>1, <2>1, <2>2 DEF ReportSeen
<1>4. CASE Goes
  <2>1. /\ Busy /\ wk'.n = wk.n /\ wk'.fresh = wk.fresh /\ wk'.mem.cond = wk.mem.cond
        /\ wk.pc \in 1..Len(Steps) /\ wk'.pc \in 1..Len(Steps) /\ wk.n \in CRs
    BY <1>4, OnTheTable DEF Goes, StepsAfter, TInv, WorkType, WorkerHolds
  <2>2. Kind = "Lookout"
    BY <2>1, Tables DEF WaitsAndReports
  <2>3. Steps[wk.pc].op = "partition" /\ Steps[wk.pc].c = "partition"
    BY <1>4, <2>1, <2>2, OnlyFromPartition, Tables DEF WaitsAndReports
  <2>4. Reads
    BY <1>4, <2>3 DEF Goes, PassesBy
  <2>5. "partition" \in Tracked /\ (Seen(k, wk'.job) \/ (objCache[k] = NoObj /\ wk'.job = "running"))
    BY <2>1, <2>3, <2>4 DEF Reads, Seen, Partitioner
  <2>6. k \in Keys /\ k[3] \in Jobs
    BY <2>1, <2>5, KeyType, KeyParts DEF Partitioner, Jobs
  <2>7. wk'.job \in Outcomes => SeenNow(k, wk'.job)
    BY <2>5, <2>6, StillSeen DEF Outcomes
  <2>8. ASSUME wk.fresh, wk.mem.cond \in Outcomes PROVE wk'.job = wk.mem.cond
    <3>1. cr[wk.n] = wk.mem /\ wk.mem # NoCR
      BY <2>1, <2>8, InstallAssumption DEF CRInv, WorkFresh, TInv, WorkType, WorkerHolds
    <3>2. Seen(k, wk.mem.cond)
      BY <1>1, <2>1, <2>8, <3>1 DEF CondSeen
    <3> QED
      BY <2>5, <3>2 DEF Seen
  <2> QED
    BY <2>1, <2>7, <2>8
<1> QED
  BY <1>2, <1>3, <1>4, Moves

-----------------------------------------------------------------------------
(***************************************************************************)
(* A verdict stands: the theorem.                                          *)
(***************************************************************************)
\* The invariant holds in every reachable state.
THEOREM VerdictInvariance == Spec => []VInv
<1>1. Init => VInv
  BY IdleType DEF Init, VInv, EndsStand, CondSeen, ReportSeen, Busy
<1>2. LInv /\ GInv => TInv /\ ObjFresh /\ CRInv /\ OnPlan /\ ObjTold /\ CRsTold /\ JobRead
  BY TypesSplit DEF LInv, IInv, GInv
<1>3. LInv /\ GInv /\ VInv /\ [Next]_vars => VInv'
  BY <1>2, EndsStandStep, CondSeenStep, ReportSeenStep DEF VInv
<1> QED
  BY <1>1, <1>3, LifecycleInvariance, GatesInvariance, PTL DEF Spec

Stable(n) ==
    (/\ cr[n] # NoCR /\ cr[n].cond \in {"complete", "failed"}
     /\ cr'[n] # NoCR /\ cr'[n].uid = cr[n].uid
     /\ Key(n, "partition") \notin lost)
        => cr'[n].cond = cr[n].cond

LEMMA StableStep ==
    ASSUME LInv, GInv, VInv, [Next]_vars, NEW n \in CRs
    PROVE  Stable(n)
<1>1. TInv /\ CRInv /\ ReportSeen
  BY TypesSplit DEF LInv, IInv, VInv
<1> SUFFICES ASSUME cr[n] # NoCR, cr[n].cond \in Outcomes, cr'[n] # NoCR,
                    Partitioner(n) \notin lost
             PROVE  cr'[n].cond = cr[n].cond
  BY DEF Stable, Outcomes, Partitioner
<1>2. CASE Reports(n)
  BY <1>1, <1>2, ReportsAgree
<1>3. CASE Busy /\ n = wk.n /\ wk.fresh /\ Carries(wk.mem, cr'[n])
  <2>1. cr[n] = wk.mem
    BY <1>1, <1>3 DEF CRInv, WorkFresh
  <2> QED
    BY <1>3, <2>1 DEF Carries
<1> QED
  BY <1>1, <1>2, <1>3, CRWrites DEF CRWritten, Carries

\* A verdict is not taken back while its Job was never removed, whatever users
\* edit, whatever the caches show and however often the operator restarts.
THEOREM VerdictsStand == Spec => VerdictStable
<1>1. LInv /\ GInv /\ VInv /\ [Next]_vars => [\A n \in CRs : Stable(n)]_vars
  BY StableStep
<1>2. Spec => [][\A n \in CRs : Stable(n)]_vars
  BY <1>1, LifecycleInvariance, GatesInvariance, VerdictInvariance, PTL DEF Spec
<1> QED
  BY <1>2 DEF VerdictStable, Stable

=============================================================================
