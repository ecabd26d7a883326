----------------------------- MODULE RolloutProofs -----------------------------
(***************************************************************************)
(* For every kind, every set of requests, every configuration and every    *)
(* bound: the defaulting webhooks, what they leave to the builders, and    *)
(* which pods the Services select.                                         *)
(***************************************************************************)
EXTENDS RolloutProperties, TLAPS

-----------------------------------------------------------------------------
(***************************************************************************)
(* Defaulting.                                                             *)
(***************************************************************************)
LEMMA FillType ==
    ASSUME NEW spec \in RolloutSpecs, NEW F
    PROVE  /\ Fill(spec, F) \in RolloutSpecs
           /\ Fill(spec, F).on = spec.on
           /\ \A f \in Optional : Fill(spec, F).opt[f] =
                IF f \in F /\ spec.opt[f] = "nil" THEN "default" ELSE spec.opt[f]
<1> DEFINE opt == [f \in Optional |->
        IF f \in F /\ spec.opt[f] = "nil" THEN "default" ELSE spec.opt[f]]
<1>1. opt \in [Optional -> Values]
  BY DEF RolloutSpecs, Values
<1>2. Fill(spec, F) = [spec EXCEPT !.opt = opt]
  BY DEF Fill
<1> HIDE DEF opt
<1>3. Fill(spec, F) \in RolloutSpecs /\ Fill(spec, F).on = spec.on /\ Fill(spec, F).opt = opt
  BY <1>1, <1>2 DEF RolloutSpecs
<1> QED
  BY <1>3 DEF opt

\* Filling in what has been filled in changes nothing.
LEMMA FillAgain ==
    ASSUME NEW spec \in RolloutSpecs, NEW F, NEW G, G \subseteq F
    PROVE  Fill(Fill(spec, F), G) = Fill(spec, F)
<1> DEFINE filled == Fill(spec, F)
           opt == [f \in Optional |->
                IF f \in G /\ filled.opt[f] = "nil" THEN "default" ELSE filled.opt[f]]
<1>1. filled \in RolloutSpecs
  BY FillType
<1>2. \A f \in Optional : f \in F => filled.opt[f] # "nil"
  <2>1. \A f \in Optional : filled.opt[f] =
            IF f \in F /\ spec.opt[f] = "nil" THEN "default" ELSE spec.opt[f]
    BY FillType
  <2> HIDE DEF filled
  <2> QED
    BY <2>1
<1>3. filled.opt \in [Optional -> Values]
  BY <1>1 DEF RolloutSpecs
<1>4. Fill(filled, G) = [filled EXCEPT !.opt = opt]
  BY DEF Fill
<1> HIDE DEF filled
<1>5. opt = filled.opt
  BY <1>2, <1>3
<1> HIDE DEF opt
<1>6. [filled EXCEPT !.opt = opt] = filled
  BY <1>1, <1>5 DEF RolloutSpecs
<1> QED
  BY <1>4, <1>6 DEF filled

\* Each defaulter fills in a set of fields, and the next time no other one.
LEMMA DefaultsAreFilled ==
    ASSUME NEW k \in Kinds, NEW spec \in RolloutSpecs
    PROVE  \E F, G : /\ applyDefaults(k, spec) = Fill(spec, F)
                     /\ applyDefaults(k, Fill(spec, F)) = Fill(Fill(spec, F), G)
                     /\ G \subseteq F
<1> DEFINE Common == CommonDefaults \cup {"replicas"}
           MigrateToo == Common \cup {"migrate"}
           ForScheduler(s) == CommonDefaults \cup {"migrate"} \cup EnabledInterval(s) \cup NewPruner(s)
<1>1. \A F : EnabledInterval(Fill(spec, F)) = EnabledInterval(spec)
  BY FillType DEF EnabledInterval, Given
<1>2. \A F : "prometheus" \notin F => AnyInterval(Fill(spec, F)) = AnyInterval(spec)
  <2> SUFFICES ASSUME NEW F, "prometheus" \notin F
               PROVE  AnyInterval(Fill(spec, F)) = AnyInterval(spec)
    OBVIOUS
  <2>1. Fill(spec, F).opt["prometheus"] = spec.opt["prometheus"]
    <3>1. "prometheus" \in Optional
      BY DEF Optional
    <3> QED
      BY <3>1, FillType
  <2> QED
    BY <2>1 DEF AnyInterval
<1>3. "prometheus" \notin MigrateToo \cup AnyInterval(spec) /\ "prometheus" \notin Common \cup AnyInterval(spec)
  BY DEF CommonDefaults, AnyInterval
<1>4. ForScheduler(Fill(spec, ForScheduler(spec))) \subseteq ForScheduler(spec)
  <2>1. NewPruner(Fill(spec, ForScheduler(spec))) \subseteq NewPruner(spec)
    <3>1. CASE spec.opt["pruner"] = "nil"
      BY <3>1 DEF NewPruner
    <3>2. CASE spec.opt["pruner"] # "nil"
      <4>1. Fill(spec, ForScheduler(spec)).opt["pruner"] = spec.opt["pruner"]
        <5>1. "pruner" \in Optional
          BY DEF Optional
        <5> HIDE DEF ForScheduler
        <5> QED
          BY <3>2, <5>1, FillType
      <4> QED
        BY <3>2, <4>1 DEF NewPruner
    <3> QED
      BY <3>1, <3>2
  <2> QED
    BY <1>1, <2>1
<1> HIDE DEF Common, MigrateToo, ForScheduler
<1>5. CASE k \in {"ArmadaServer", "Binoculars"}
  <2>1. \A s : applyDefaults(k, s) = Fill(s, Common \cup EnabledInterval(s))
    BY <1>5 DEF applyDefaults, ArmadaServerDefaults, BinocularsDefaults, Common
  <2> QED
    BY <1>1, <2>1
<1>6. CASE k = "Executor"
  <2>1. \A s : applyDefaults(k, s) = Fill(s, Common \cup AnyInterval(s))
    BY <1>6 DEF applyDefaults, ExecutorDefaults, Common
  <2> QED
    BY <1>2, <1>3, <2>1
<1>7. CASE k = "Lookout"
  <2>1. \A s : applyDefaults(k, s) = Fill(s, MigrateToo \cup AnyInterval(s))
    <3>1. MigrateToo = CommonDefaults \cup {"replicas", "migrate"}
      BY DEF MigrateToo, Common
    <3> QED
      BY <1>7, <3>1 DEF applyDefaults, LookoutDefaults
  <2> QED
    BY <1>2, <1>3, <2>1
<1>8. CASE k = "Scheduler"
  <2>1. \A s : applyDefaults(k, s) = Fill(s, ForScheduler(s))
    BY <1>8 DEF applyDefaults, SchedulerDefaults, ForScheduler
  <2> QED
    BY <1>4, <2>1
<1>9. CASE k \in {"EventIngester", "LookoutIngester", "SchedulerIngester"}
  <2>1. \A s : applyDefaults(k, s) = Fill(s, Common)
    BY <1>9 DEF applyDefaults, EventIngesterDefaults, LookoutIngesterDefaults,
                SchedulerIngesterDefaults, Common
  <2> QED
    BY <2>1
<1> QED
  BY <1>5, <1>6, <1>7, <1>8, <1>9 DEF Kinds

\* A defaulting webhook is idempotent, and its result is a spec: a custom
\* resource may pass it any number of times, with each update of the user and
\* with those the operator makes (applyDefaults of the eight kinds).
THEOREM DefaultsIdempotent ==
    ASSUME NEW k \in Kinds, NEW spec \in RolloutSpecs
    PROVE  /\ applyDefaults(k, spec) \in RolloutSpecs
           /\ applyDefaults(k, applyDefaults(k, spec)) = applyDefaults(k, spec)
<1>1. PICK F, G : /\ applyDefaults(k, spec) = Fill(spec, F)
                  /\ applyDefaults(k, Fill(spec, F)) = Fill(Fill(spec, F), G)
                  /\ G \subseteq F
  BY DefaultsAreFilled
<1> QED
  BY <1>1, FillType, FillAgain

-----------------------------------------------------------------------------
(***************************************************************************)
(* The tables of Reconcile, as far as Rollout asks about them.             *)
(***************************************************************************)
Ops == {"finalize", "parse", "upsert", "wait", "prune", "partition", "status"}

Names == {"binding", "clusterRole", "cronJob", "deployment", "extraBinding",
          "ingressGrpc", "ingressHttp", "ingressProfiling", "initPulsar",
          "migration", "partition", "podDisruptionBudget", "prometheusRule",
          "secret", "service", "serviceAccount", "serviceMonitor",
          "serviceProfiling", "waitForPulsar"}

\* Only Lookout and Scheduler prune, only Lookout partitions, nobody upserts the
\* CronJob otherwise and only the Scheduler the ingress for profiling.
StepsOf(k) ==
    {s \in [op : Ops, c : Names \cup {"none"}] :
        /\ s.op \in {"upsert", "prune", "partition"} => s.c \in Names
        /\ s.op = "upsert" => s.c # "cronJob" /\ (s.c = "ingressProfiling" => k = "Scheduler")
        /\ s.op = "prune" => s.c = "cronJob" /\ k \in {"Lookout", "Scheduler"}
        /\ s.op = "partition" => s.c = "partition" /\ k = "Lookout"}

\* Neither the finalizer nor parsing is the last step.
GoodPlan(k, s) ==
    s \in Seq(StepsOf(k)) /\ Len(s) > 0 /\ s[Len(s)].op \notin {"finalize", "parse"}

LEMMA StepsAreOfKind ==
    ASSUME NEW k
    PROVE  /\ Finalize \in StepsOf(k) /\ Parse \in StepsOf(k)
           /\ \A c \in Names \ {"cronJob", "ingressProfiling"} :
                               /\ Upsert(c) \in StepsOf(k) /\ Upsert(c).op = "upsert"
                               /\ \A op \in {"wait", "status"} :
                                      Step(op, c) \in StepsOf(k) /\ Step(op, c).op = op
                               /\ JobRun(c) \in Seq(StepsOf(k))
           /\ k \in {"Lookout", "Scheduler"} => /\ Step("prune", "cronJob") \in StepsOf(k)
                                                /\ Step("prune", "cronJob").op = "prune"
           /\ k = "Lookout" => Step("partition", "partition") \in StepsOf(k)
           /\ k = "Scheduler" => Upsert("ingressProfiling") \in StepsOf(k)
<1>1. \A c \in Names \ {"cronJob", "ingressProfiling"} : \A op \in {"upsert", "wait", "status"} :
          Step(op, c) \in StepsOf(k) /\ Step(op, c).op = op
  BY DEF StepsOf, Step, Ops
<1>2. \A c \in Names \ {"cronJob", "ingressProfiling"} :
         <<Upsert(c), Step("wait", c)>> \in Seq(StepsOf(k))
  BY <1>1 DEF Upsert
<1>3. Finalize \in StepsOf(k) /\ Parse \in StepsOf(k)
  BY DEF StepsOf, Step, Ops, Finalize, Parse
<1>4. /\ k \in {"Lookout", "Scheduler"} => /\ Step("prune", "cronJob") \in StepsOf(k)
                                           /\ Step("prune", "cronJob").op = "prune"
      /\ k = "Lookout" => Step("partition", "partition") \in StepsOf(k)
      /\ k = "Scheduler" => Upsert("ingressProfiling") \in StepsOf(k)
  BY DEF StepsOf, Step, Ops, Names, Upsert
<1> QED
  BY <1>1, <1>2, <1>3, <1>4 DEF Upsert, JobRun

\* The steps that the tables are made of.
LEMMA StepsOfTables ==
    ASSUME NEW k
    PROVE  /\ Finalize \in StepsOf(k) /\ Parse \in StepsOf(k)
           /\ Upsert("serviceAccount") \in StepsOf(k) /\ Upsert("secret") \in StepsOf(k)
           /\ Upsert("deployment") \in StepsOf(k) /\ Upsert("service") \in StepsOf(k)
           /\ Upsert("serviceProfiling") \in StepsOf(k) /\ Upsert("ingressHttp") \in StepsOf(k)
           /\ Upsert("ingressGrpc") \in StepsOf(k)
           /\ k = "Scheduler" => Upsert("ingressProfiling") \in StepsOf(k)
           /\ Upsert("serviceMonitor") \in StepsOf(k) /\ Upsert("prometheusRule") \in StepsOf(k)
           /\ Upsert("podDisruptionBudget") \in StepsOf(k) /\ Upsert("clusterRole") \in StepsOf(k)
           /\ Upsert("binding") \in StepsOf(k) /\ Upsert("extraBinding") \in StepsOf(k)
           /\ \A job \in {"migration", "waitForPulsar", "initPulsar"} :
                  JobRun(job) \in Seq(StepsOf(k))
           /\ Upsert("serviceMonitor").op = "upsert" /\ Upsert("deployment").op = "upsert"
           /\ Upsert("ingressHttp").op = "upsert"
           /\ k \in {"Lookout", "Scheduler"} => /\ Step("prune", "cronJob") \in StepsOf(k)
                                                /\ Step("prune", "cronJob").op = "prune"
           /\ k = "Lookout" => /\ Step("partition", "partition") \in StepsOf(k)
                               /\ Step("status", "partition") \in StepsOf(k)
                               /\ Step("status", "partition").op = "status"
<1>1. \A c \in {"serviceAccount", "secret", "deployment", "service", "serviceProfiling",
                 "ingressHttp", "ingressGrpc", "serviceMonitor",
                 "prometheusRule", "podDisruptionBudget", "clusterRole", "binding",
                 "extraBinding", "migration", "waitForPulsar", "initPulsar", "partition"} :
          c \in Names \ {"cronJob", "ingressProfiling"}
  BY DEF Names
<1> QED
  BY <1>1, StepsAreOfKind

LEMMA GoodPlanAppend ==
    ASSUME NEW k, NEW s \in Seq(StepsOf(k)), NEW t, GoodPlan(k, t)
    PROVE  GoodPlan(k, s \o t)
<1>1. \A S : \A u, v \in Seq(S) : Len(v) > 0 =>
        /\ u \o v \in Seq(S) /\ Len(u \o v) > 0
        /\ (u \o v)[Len(u \o v)] = v[Len(v)]
  OBVIOUS
<1> QED
  BY <1>1 DEF GoodPlan

LEMMA PlansAreGood ==
    ASSUME NEW k \in Kinds
    PROVE  GoodPlan(k, Reconcile(k))
<1> USE StepsOfTables
<1>1. CASE k = "Lookout"
  <2> DEFINE rest == <<Upsert("deployment"), Upsert("service"), Upsert("ingressHttp"),
                       Step("prune", "cronJob"), Upsert("serviceMonitor"),
                       Step("partition", "partition"), Step("status", "partition")>>
             start == <<Finalize, Parse, Upsert("serviceAccount"), Upsert("secret")>>
  <2>1. start \in Seq(StepsOf(k)) /\ JobRun("migration") \in Seq(StepsOf(k))
    OBVIOUS
  <2>2. GoodPlan(k, rest)
    BY <1>1 DEF GoodPlan
  <2>3. start \o JobRun("migration") \in Seq(StepsOf(k))
    BY <2>1
  <2> HIDE DEF rest, start
  <2>4. GoodPlan(k, (start \o JobRun("migration")) \o rest)
    BY <2>2, <2>3, GoodPlanAppend
  <2> QED
    BY <1>1, <2>4 DEF Reconcile, LookoutReconcile, rest, start
<1>2. CASE k = "Scheduler"
  <2> DEFINE rest == <<Upsert("deployment"), Upsert("service"), Upsert("serviceProfiling"),
                       Upsert("ingressGrpc"), Upsert("ingressProfiling"),
                       Upsert("serviceMonitor"), Upsert("prometheusRule"),
                       Step("prune", "cronJob")>>
             start == <<Finalize, Parse, Upsert("serviceAccount"), Upsert("secret")>>
  <2>1. start \in Seq(StepsOf(k)) /\ JobRun("migration") \in Seq(StepsOf(k))
    OBVIOUS
  <2>2. GoodPlan(k, rest)
    BY <1>2 DEF GoodPlan
  <2>3. start \o JobRun("migration") \in Seq(StepsOf(k))
    BY <2>1
  <2> HIDE DEF rest, start
  <2>4. GoodPlan(k, (start \o JobRun("migration")) \o rest)
    BY <2>2, <2>3, GoodPlanAppend
  <2> QED
    BY <1>2, <2>4 DEF Reconcile, SchedulerReconcile, rest, start
<1>3. CASE k = "ArmadaServer"
  <2> DEFINE rest == <<Upsert("deployment"), Upsert("service"), Upsert("ingressGrpc"),
                       Upsert("ingressHttp"), Upsert("podDisruptionBudget"),
                       Upsert("prometheusRule"), Upsert("serviceMonitor")>>
             start == <<Parse, Finalize, Upsert("serviceAccount"), Upsert("secret")>>
  <2>1. /\ start \in Seq(StepsOf(k))
        /\ JobRun("waitForPulsar") \in Seq(StepsOf(k))
        /\ JobRun("initPulsar") \in Seq(StepsOf(k))
    OBVIOUS
  <2>2. GoodPlan(k, rest)
    BY DEF GoodPlan
  <2>3. start \o JobRun("waitForPulsar") \o JobRun("initPulsar") \in Seq(StepsOf(k))
    BY <2>1
  <2> HIDE DEF rest, start
  <2>4. GoodPlan(k, (start \o JobRun("waitForPulsar") \o JobRun("initPulsar")) \o rest)
    BY <2>2, <2>3, GoodPlanAppend
  <2> QED
    BY <1>3, <2>4 DEF Reconcile, ArmadaServerReconcile, rest, start
<1>4. GoodPlan(k, ExecutorReconcile)
  BY DEF GoodPlan, ExecutorReconcile
<1>5. GoodPlan(k, BinocularsReconcile)
  BY DEF GoodPlan, BinocularsReconcile
<1>6. GoodPlan(k, EventIngesterReconcile)
  BY DEF GoodPlan, EventIngesterReconcile
<1>7. GoodPlan(k, LookoutIngesterReconcile)
  BY DEF GoodPlan, LookoutIngesterReconcile
<1>8. GoodPlan(k, SchedulerIngesterReconcile)
  BY DEF GoodPlan, SchedulerIngesterReconcile
<1> QED
  BY <1>1, <1>2, <1>3, <1>4, <1>5, <1>6, <1>7, <1>8 DEF Reconcile, Kinds

-----------------------------------------------------------------------------
(***************************************************************************)
(* The custom resource and the copy in hand.                               *)
(***************************************************************************)
WorkType ==
    /\ kind \in Kinds /\ webhooks \in BOOLEAN
    /\ cr \in CustomResources(kind) \cup {None}
    /\ pc \in 0..Len(Plan) /\ queued \in BOOLEAN
    /\ hand \in CustomResources(kind) \cup {None} /\ (hand = None <=> pc = 0)

\* What is stored, and what the worker has in hand, has been through the
\* webhook: once more would change nothing.
Filled ==
    /\ webhooks /\ cr # None => applyDefaults(kind, cr.spec) = cr.spec
    /\ webhooks /\ hand # None => applyDefaults(kind, hand.spec) = hand.spec

\* The copy in hand is of the custom resource that is there, from no later a
\* version, and agrees with it when it is of the same.
HandSeen ==
    /\ hand # None \/ queued => cr # None
    /\ hand # None =>
          /\ hand.version <= cr.version
          /\ hand.version = cr.version => hand.spec = cr.spec /\ hand.labels = cr.labels

WInv == WorkType /\ Filled /\ HandSeen

LEMMA NoneIsNot ==
    ASSUME WorkType, NEW r \in CustomResources(kind)
    PROVE  r # None
  BY RolloutAssumption DEF WorkType

\* A stored custom resource is one, defaulted.
LEMMA StoreResult ==
    ASSUME WorkType,
           NEW q, q.labels \in {p.labels : p \in Requests[kind]}, q.spec \in RolloutSpecs,
           NEW version \in Nat, NEW fin \in BOOLEAN, Store(q, version, fin)
    PROVE  /\ cr' \in CustomResources(kind) /\ queued'
           /\ cr'.version = version /\ cr'.labels = q.labels
           /\ cr'.spec = Admit(webhooks, kind, q.spec)
           /\ webhooks => applyDefaults(kind, cr'.spec) = cr'.spec
<1>1. kind \in Kinds
  BY DEF WorkType
<1>2. Admit(webhooks, kind, q.spec) \in RolloutSpecs
  BY <1>1, DefaultsIdempotent DEF Admit
<1>3. cr' = [name |-> Name, labels |-> q.labels, version |-> version, fin |-> fin,
             spec |-> Admit(webhooks, kind, q.spec)]
  BY DEF Store
<1>4. cr' \in CustomResources(kind)
  BY <1>2, <1>3 DEF CustomResources
<1>5. webhooks => applyDefaults(kind, cr'.spec) = cr'.spec
  BY <1>1, <1>3, DefaultsIdempotent DEF Admit
<1> QED
  BY <1>3, <1>4, <1>5 DEF Store

\* The worker goes on with the copy it has, or is done with it.
Moves ==
    /\ pc' \in 0..Len(Plan) /\ queued' \in BOOLEAN
    /\ \/ pc' = 0 /\ hand' = None
       \/ pc' # 0 /\ hand' = hand

LEMMA OnwardMoves ==
    ASSUME WorkType, pc # 0, Onward \/ Retry
    PROVE  Moves
<1>1. pc \in 1..Len(Plan) /\ Len(Plan) \in Nat
  BY PlansAreGood DEF WorkType, GoodPlan, Plan
<1>2. CASE Onward
  BY <1>1, <1>2 DEF Onward, Moves, WorkType
<1>3. CASE Retry
  BY <1>1, <1>3 DEF Retry, Moves
<1> QED
  BY <1>2, <1>3

LEMMA MovesKeep ==
    ASSUME WInv, pc # 0, Moves, UNCHANGED <<setting, cr>>
    PROVE  WInv'
<1>1. kind' = kind /\ webhooks' = webhooks /\ cr' = cr /\ Plan' = Plan
  BY DEF setting, Plan
<1>2. hand # None /\ cr # None
  BY DEF WInv, WorkType, HandSeen
<1>3. WorkType'
  BY <1>1, <1>2 DEF WInv, WorkType, Moves
<1>4. Filled' /\ HandSeen'
  BY <1>1, <1>2 DEF WInv, Filled, HandSeen, Moves
<1> QED
  BY <1>3, <1>4 DEF WInv

LEMMA UsersKeep ==
    ASSUME WInv, NEW q \in Requests[kind], Create(q) \/ Edit(q)
    PROVE  WInv'
<1>1. /\ WorkType /\ kind' = kind /\ webhooks' = webhooks /\ Plan' = Plan
      /\ pc' = pc /\ hand' = hand
  BY DEF WInv, Create, Edit, setting, Plan
<1>2. PICK version \in Nat, fin \in BOOLEAN :
        /\ Store(q, version, fin)
        /\ cr # None => version > cr.version
  <2>1. CASE Create(q)
    BY <2>1 DEF Create
  <2>2. CASE Edit(q)
    <3>1. cr.version + 1 \in Nat /\ cr.fin \in BOOLEAN /\ cr.version + 1 > cr.version
      BY <1>1, <2>2 DEF Edit, WorkType, CustomResources
    <3> QED
      BY <2>2, <3>1 DEF Edit
  <2> QED
    BY <2>1, <2>2
<1>3. q.spec \in RolloutSpecs
  BY <1>1, RolloutAssumption DEF WorkType
<1>4. /\ cr' \in CustomResources(kind) /\ queued' /\ cr'.version = version
      /\ webhooks => applyDefaults(kind, cr'.spec) = cr'.spec
  BY <1>1, <1>2, <1>3, StoreResult
<1>5. cr' # None
  BY <1>1, <1>4, NoneIsNot
<1>6. queued' \in BOOLEAN
  BY <1>2 DEF Store
<1>7. WorkType'
  BY <1>1, <1>4, <1>6 DEF WorkType
<1>8. Filled'
  BY <1>1, <1>4 DEF WInv, Filled
<1>9. HandSeen'
  <2>1. hand # None => hand.version \in Nat /\ cr.version \in Nat /\ cr # None
    BY <1>1 DEF WInv, HandSeen, WorkType, CustomResources
  <2> QED
    BY <1>1, <1>2, <1>4, <1>5, <2>1 DEF WInv, HandSeen
<1> QED
  BY <1>7, <1>8, <1>9 DEF WInv

LEMMA DequeueKeeps ==
    ASSUME WInv, Dequeue
    PROVE  WInv'
<1>1. /\ kind' = kind /\ webhooks' = webhooks /\ cr' = cr /\ Plan' = Plan
      /\ pc' = 1 /\ hand' = cr /\ queued' = FALSE
  BY DEF Dequeue, setting, Plan
<1>2. cr # None /\ cr \in CustomResources(kind)
  BY DEF WInv, HandSeen, Dequeue, WorkType
<1>3. 1 \in 0..Len(Plan)
  BY PlansAreGood DEF WInv, WorkType, GoodPlan, Plan
<1>4. WorkType'
  <2>1. hand' # None /\ pc' # 0 /\ hand' \in CustomResources(kind') /\ pc' \in 0..Len(Plan')
    BY <1>1, <1>2, <1>3
  <2>2. queued' \in BOOLEAN
    BY <1>1
  <2>3. /\ kind' \in Kinds /\ webhooks' \in BOOLEAN
        /\ cr' \in CustomResources(kind') \cup {None}
    BY <1>1 DEF WInv, WorkType
  <2> QED
    BY <2>1, <2>2, <2>3 DEF WorkType
<1>5. Filled'
  BY <1>1 DEF WInv, Filled
<1>6. HandSeen'
  BY <1>1, <1>2 DEF HandSeen, CustomResources
<1> QED
  BY <1>4, <1>5, <1>6 DEF WInv

\* Adding the finalizer stores the copy in hand as it is.
LEMMA FinalizerStores ==
    ASSUME WInv, FinalizeStep, cr' # cr
    PROVE  /\ cr' \in CustomResources(kind) /\ hand' = cr' /\ queued' /\ queued' \in BOOLEAN
           /\ pc' = pc + 1 /\ pc' \in 1..Len(Plan)
           /\ cr'.spec = cr.spec /\ cr'.labels = cr.labels
           /\ webhooks => applyDefaults(kind, cr'.spec) = cr'.spec
<1>1. /\ At("finalize") /\ hand.version = cr.version
      /\ Store(hand, hand.version, TRUE)
      /\ hand' = cr' /\ pc' = pc + 1
  BY DEF FinalizeStep
<1>2. /\ WorkType /\ hand \in CustomResources(kind) /\ hand # None
      /\ hand.spec = cr.spec /\ hand.labels = cr.labels
      /\ webhooks => applyDefaults(kind, hand.spec) = hand.spec
  BY <1>1 DEF WInv, WorkType, At, HandSeen, Filled
<1>3. /\ hand.labels \in {p.labels : p \in Requests[kind]}
      /\ hand.spec \in RolloutSpecs /\ hand.version \in Nat
  BY <1>2 DEF CustomResources
<1>4. /\ cr' \in CustomResources(kind) /\ queued'
      /\ cr'.labels = hand.labels /\ cr'.spec = Admit(webhooks, kind, hand.spec)
      /\ webhooks => applyDefaults(kind, cr'.spec) = cr'.spec
  BY <1>1, <1>2, <1>3, StoreResult
<1>5. cr'.spec = hand.spec
  BY <1>2, <1>4 DEF Admit
<1>6. pc' \in 1..Len(Plan)
  <2>1. GoodPlan(kind, Plan) /\ pc \in 1..Len(Plan) /\ Plan[pc].op = "finalize"
    BY <1>1, <1>2, PlansAreGood DEF WorkType, At, Plan
  <2>2. pc # Len(Plan) /\ Len(Plan) \in Nat
    BY <2>1 DEF GoodPlan
  <2> QED
    BY <1>1, <2>1, <2>2
<1>7. queued' \in BOOLEAN
  BY <1>1 DEF Store
<1> QED
  BY <1>1, <1>2, <1>4, <1>5, <1>6, <1>7

LEMMA FinalizeKeeps ==
    ASSUME WInv, FinalizeStep
    PROVE  WInv'
<1>1. kind' = kind /\ webhooks' = webhooks /\ Plan' = Plan /\ pc # 0 /\ WorkType
  BY DEF FinalizeStep, setting, Plan, At, WInv
<1>2. CASE cr' = cr
  <2>1. CASE Onward \/ Retry
    <3>1. Moves
      BY <1>1, <2>1, OnwardMoves
    <3> QED
      BY <1>1, <1>2, <3>1, MovesKeep DEF setting
  <2>2. CASE Store(hand, hand.version, TRUE) /\ hand' = cr' /\ pc' = pc + 1 /\ ~hand.fin
                 /\ hand.version = cr.version
    <3>1. hand \in CustomResources(kind) /\ cr'.fin = TRUE /\ hand # None
      BY <1>1, <2>2 DEF Store, WorkType
    <3>2. cr # None /\ cr \in CustomResources(kind)
      BY <3>1 DEF WInv, HandSeen, WorkType
    <3>3. GoodPlan(kind, Plan) /\ pc \in 1..Len(Plan) /\ Plan[pc].op = "finalize"
      BY <1>1, PlansAreGood DEF WorkType, At, Plan, FinalizeStep
    <3>4. pc + 1 \in 1..Len(Plan)
      BY <3>3 DEF GoodPlan
    <3>5. queued' \in BOOLEAN
      BY <2>2 DEF Store
    <3>6. WorkType'
      BY <1>1, <1>2, <2>2, <3>2, <3>4, <3>5 DEF WorkType
    <3>7. Filled' /\ HandSeen'
      BY <1>1, <1>2, <2>2, <3>2 DEF WInv, Filled, HandSeen, CustomResources
    <3> QED
      BY <3>6, <3>7 DEF WInv
  <2> QED
    BY <2>1, <2>2 DEF FinalizeStep
<1>3. CASE cr' # cr
  <2>1. /\ cr' \in CustomResources(kind) /\ hand' = cr' /\ queued' /\ queued' \in BOOLEAN
        /\ pc' \in 1..Len(Plan)
        /\ webhooks => applyDefaults(kind, cr'.spec) = cr'.spec
    BY <1>3, FinalizerStores
  <2>2. cr' # None
    BY <1>1, <2>1, NoneIsNot
  <2>3. WorkType'
    BY <1>1, <2>1, <2>2 DEF WorkType
  <2>4. Filled' /\ HandSeen'
    BY <1>1, <2>1, <2>2 DEF Filled, HandSeen, CustomResources
  <2> QED
    BY <2>3, <2>4 DEF WInv
<1> QED
  BY <1>2, <1>3

LEMMA WInvStep ==
    ASSUME WInv, [Next]_vars
    PROVE  WInv'
<1>1. CASE \E q \in Requests[kind] : Create(q) \/ Edit(q)
  BY <1>1, UsersKeep
<1>2. CASE Dequeue \/ FinalizeStep
  BY <1>2, DequeueKeeps, FinalizeKeeps
<1>3. CASE ParseStep \/ UpsertStep \/ PruneStep \/ PartitionStep \/ OtherStep \/ CutShort
  <2>1. /\ pc # 0 /\ (Onward \/ Retry) /\ UNCHANGED <<setting, cr>>
    BY <1>3 DEF ParseStep, UpsertStep, PruneStep, PartitionStep, OtherStep, CutShort, Write, At
  <2> QED
    BY <2>1, OnwardMoves, MovesKeep DEF WInv
<1>4. CASE Resync \/ StartPod \/ (\E p \in pods : ReplacePod(p) \/ StopPod(p)) \/ UNCHANGED vars
  <2>1. /\ kind' = kind /\ webhooks' = webhooks /\ cr' = cr /\ Plan' = Plan
        /\ pc' = pc /\ hand' = hand /\ queued' \in BOOLEAN
        /\ queued' => queued \/ cr # None
    <3>1. /\ UNCHANGED <<setting, cr, pc, hand>>
          /\ (queued' = queued) \/ (queued' = TRUE /\ cr # None)
      BY <1>4 DEF Resync, StartPod, ReplacePod, StopPod, vars, worker
    <3>2. queued' \in BOOLEAN /\ (queued' => queued \/ cr # None)
      <4>1. queued \in BOOLEAN /\ TRUE \in BOOLEAN
        BY DEF WInv, WorkType
      <4>2. CASE queued' = queued
        BY <4>1, <4>2
      <4>3. CASE queued' = TRUE /\ cr # None
        BY <4>1, <4>3
      <4> QED
        BY <3>1, <4>2, <4>3
    <3> QED
      BY <3>1, <3>2 DEF setting, Plan
  <2> QED
    BY <2>1 DEF WInv, WorkType, Filled, HandSeen
<1> QED
  BY <1>1, <1>2, <1>3, <1>4 DEF Next, Operator

LEMMA WInvHolds == Spec => []WInv
<1>1. Init => WInv
  <2> SUFFICES ASSUME Init PROVE WInv
    OBVIOUS
  <2>1. Len(Plan) \in Nat
    BY PlansAreGood DEF Init, GoodPlan, Plan
  <2>2. 0 \in 0..Len(Plan) /\ FALSE \in BOOLEAN
    BY <2>1
  <2>3. WorkType
    BY <2>2 DEF Init, WorkType
  <2> QED
    BY <2>3 DEF Init, WInv, Filled, HandSeen
<1>2. WInv /\ [Next]_vars => WInv'
  BY WInvStep
<1> QED
  BY <1>1, <1>2, PTL DEF Spec

\* Of the nil pointers the webhooks leave that of the ingress.
LEMMA DefaultsLeaveIngress ==
    ASSUME NEW k \in Kinds, NEW spec \in RolloutSpecs, applyDefaults(k, spec) = spec,
           NilDereference(k, spec)
    PROVE  NilIngress(k, spec)
<1>1. "pruner" \in Optional /\ "resources" \in Optional
  BY DEF Optional
<1>2. CASE k = "Scheduler"
  <2> DEFINE F == CommonDefaults \cup {"migrate"} \cup EnabledInterval(spec) \cup NewPruner(spec)
  <2>1. spec = Fill(spec, F) /\ (spec.opt["pruner"] = "nil" => "pruner" \in F)
    BY <1>2 DEF applyDefaults, SchedulerDefaults, NewPruner
  <2> HIDE DEF F
  <2>2. spec.opt["pruner"] # "nil"
    BY <1>1, <2>1, FillType
  <2> QED
    BY <1>2, <2>2 DEF NilDereference
<1>3. CASE k = "Binoculars"
  <2> DEFINE F == CommonDefaults \cup {"replicas"} \cup EnabledInterval(spec)
  <2>1. spec = Fill(spec, F) /\ "resources" \in F
    BY <1>3 DEF applyDefaults, BinocularsDefaults, CommonDefaults
  <2> HIDE DEF F
  <2>2. spec.opt["resources"] # "nil"
    BY <1>1, <2>1, FillType
  <2> QED
    BY <1>3, <2>2 DEF NilDereference
<1> QED
  BY <1>2, <1>3 DEF NilDereference

\* What the operator writes of a custom resource passes the webhook again and
\* leaves what the user asked for as it is.
THEOREM SpecKept == Spec => OperatorKeepsSpec
<1> DEFINE Kept == cr # None /\ cr'.version = cr.version
                      => cr'.spec = cr.spec /\ cr'.labels = cr.labels
<1>1. WInv /\ [Next]_vars => Kept
  <2> SUFFICES ASSUME WInv, [Next]_vars PROVE Kept
    OBVIOUS
  <2>1. CASE \E q \in Requests[kind] : Create(q) \/ Edit(q)
    <3>1. PICK q \in Requests[kind] : Create(q) \/ Edit(q)
      BY <2>1
    <3>2. CASE Create(q)
      BY <3>2 DEF Create
    <3>3. CASE Edit(q)
      <4>1. cr.version \in Nat
        BY <3>3 DEF WInv, WorkType, Edit, CustomResources
      <4>2. cr'.version = cr.version + 1
        BY <3>3 DEF Edit, Store
      <4> QED
        BY <4>1, <4>2
    <3> QED
      BY <3>1, <3>2, <3>3
  <2>2. CASE FinalizeStep
    BY <2>2, FinalizerStores
  <2>3. CASE cr' = cr
    BY <2>3
  <2>4. CASE Dequeue \/ ParseStep \/ UpsertStep \/ PruneStep \/ PartitionStep \/ OtherStep
               \/ CutShort \/ Resync \/ StartPod \/ (\E p \in pods : ReplacePod(p) \/ StopPod(p))
               \/ UNCHANGED vars
    <3>1. cr' = cr
      BY <2>4 DEF Dequeue, ParseStep, UpsertStep, PruneStep, PartitionStep, OtherStep, CutShort,
                  Resync, StartPod, ReplacePod, StopPod, vars
    <3> QED
      BY <3>1, <2>3
  <2> QED
    BY <2>1, <2>2, <2>4 DEF Next, Operator
<1> QED
  BY <1>1, WInvHolds, PTL DEF Spec, OperatorKeepsSpec

-----------------------------------------------------------------------------
(***************************************************************************)
(* Labels and selectors.                                                   *)
(***************************************************************************)
Identified(labels, name) == "app" \in DOMAIN labels /\ labels["app"] = name

\* Whatever labels a user gives, the identity is the name it is asked for.
LEMMA LabelsIdentify ==
    ASSUME NEW name, NEW labels
    PROVE  Identified(AllLabels(name, labels), name)
<1> DEFINE first == MergeMaps([release |-> name], labels)
<1>1. "app" \in DOMAIN IdentityLabel(name) /\ IdentityLabel(name)["app"] = name
  BY DEF IdentityLabel
<1> HIDE DEF first
<1>2. Identified(MergeMaps(first, IdentityLabel(name)), name)
  BY <1>1 DEF MergeMaps, Identified
<1> QED
  BY <1>2 DEF AllLabels, first

\* An object keeps to the routing: the Services select the name of the custom
\* resource, which the pods of the Deployment have and the Jobs that prune and
\* partition have not.
Fits(c, object) ==
    /\ c \in {"service", "serviceProfiling"} => object.selector = IdentityLabel(Name)
    /\ c = "deployment" => Identified(object.template.pod.labels, Name)
    /\ c \in {"cronJob", "partition"} =>
          \E name : name # Name /\ Identified(object.pod.labels, name)

StoreFits ==
    /\ \A c \in DOMAIN store : Fits(c, store[c])
    /\ \A p \in pods : Identified(p.template.pod.labels, Name)

LEMMA ServicesFit ==
    ASSUME NEW r, r.name = Name, NEW config
    PROVE  /\ LookoutService(r, config).selector = IdentityLabel(Name)
           /\ ApplicationService(r, config).selector = IdentityLabel(Name)
           /\ createExecutorService(r).selector = IdentityLabel(Name)
           /\ newProfilingService(r, config).selector = IdentityLabel(Name)
<1>1. \A name, ports : Service(name, r, ports).selector = IdentityLabel(Name)
  BY DEF Service
<1> QED
  BY <1>1 DEF LookoutService, ApplicationService, createExecutorService, newProfilingService

LEMMA DeploymentsFit ==
    ASSUME NEW r, r.name = Name, NEW ports, NEW probe, NEW pulsar
    PROVE  Identified(Deployment(r, ports, probe, pulsar).template.pod.labels, Name)
<1>1. AnyPod(r.name, r).labels = AllLabels(Name, r.labels)
  BY DEF AnyPod, PodWith
<1>2. Deployment(r, ports, probe, pulsar).template.pod = AnyPod(r.name, r)
  BY DEF Deployment
<1> QED
  BY <1>1, <1>2, LabelsIdentify

LEMMA JobsFit ==
    ASSUME NEW r, r.name = Name, NEW suffix
    PROVE  \E name : name # Name /\ Identified(OnItsOwn(r, suffix).pod.labels, name)
<1> DEFINE name == Append(Name, suffix)
<1>1. name # Name
  <2> DEFINE S == STRING \cup {suffix}
  <2>1. Name \in Seq(S) /\ suffix \in S
    <3>1. \A T, U : T \subseteq U => Seq(T) \subseteq Seq(U)
      OBVIOUS
    <3> QED
      BY <3>1, RolloutAssumption
  <2> HIDE DEF S
  <2>2. Len(Append(Name, suffix)) = Len(Name) + 1 /\ Len(Name) \in Nat
    BY <2>1
  <2> QED
    BY <2>2
<1>2. OnItsOwn(r, suffix).pod.labels = AllLabels(name, r.labels)
  <2>1. OnItsOwn(r, suffix).pod = AnyPod(name, r)
    BY DEF OnItsOwn, Job, Suffixed
  <2> QED
    BY <2>1 DEF AnyPod, PodWith
<1>3. Identified(AllLabels(name, r.labels), name)
  BY LabelsIdentify
<1> QED
  BY <1>1, <1>2, <1>3

\* All controllers have one builder of Deployments.
LEMMA DeploymentManifest ==
    ASSUME NEW k \in Kinds, NEW r
    PROVE  \E ports, probe, pulsar :
              Manifest(k, r, "deployment") = Deployment(r, ports, probe, pulsar)
<1> DEFINE config == ParseCommonApplicationConfig(r.spec.app)
<1>1. Manifest(k, r, "deployment") \in
        {createArmadaServerDeployment(r, config), createBinocularsDeployment(r, config),
         createExecutorDeployment(r, config), createLookoutDeployment(r, config),
         newSchedulerDeployment(r, config), IngesterDeployment(r, config)}
  <2> HIDE DEF config
  <2> QED
    BY DEF Manifest, ArmadaServerManifest, BinocularsManifest, ExecutorManifest,
           LookoutManifest, SchedulerManifest, IngesterDeploymentOf,
           createEventIngesterDeployment, createLookoutIngesterDeployment,
           createSchedulerIngesterDeployment, config
<1> HIDE DEF config
<1> QED
  BY <1>1 DEF createArmadaServerDeployment, createBinocularsDeployment,
              createExecutorDeployment, createLookoutDeployment, newSchedulerDeployment,
              IngesterDeployment

LEMMA ManifestFits ==
    ASSUME NEW k \in Kinds, NEW r, r.name = Name, NEW c,
           c = "cronJob" => k \in {"Lookout", "Scheduler"},
           c = "partition" => k = "Lookout"
    PROVE  Fits(c, Manifest(k, r, c))
<1> DEFINE config == ParseCommonApplicationConfig(r.spec.app)
<1> HIDE DEF config
<1>1. CASE c = "service"
  <2>1. Manifest(k, r, c) \in {LookoutService(r, config), ApplicationService(r, config),
                              createExecutorService(r)}
    BY <1>1 DEF Manifest, ArmadaServerManifest, BinocularsManifest, ExecutorManifest,
                LookoutManifest, SchedulerManifest, CommonManifest, Kinds, config
  <2> QED
    BY <1>1, <2>1, ServicesFit DEF Fits
<1>2. CASE c = "serviceProfiling"
  <2>1. Manifest(k, r, c) = newProfilingService(r, config)
    BY <1>2 DEF Manifest, ArmadaServerManifest, BinocularsManifest, ExecutorManifest,
                LookoutManifest, SchedulerManifest, CommonManifest, Kinds, config
  <2> QED
    BY <1>2, <2>1, ServicesFit DEF Fits
<1>3. CASE c = "deployment"
  <2>1. \E ports, probe, pulsar : Manifest(k, r, c) = Deployment(r, ports, probe, pulsar)
    BY <1>3, DeploymentManifest
  <2> QED
    BY <1>3, <2>1, DeploymentsFit DEF Fits
<1>4. CASE c \in {"cronJob", "partition"}
  <2>1. Manifest(k, r, c) \in {createLookoutCronJob(r), newSchedulerCronJob(r),
                              createLookoutPartitionJobTableJob(r)}
    BY <1>4 DEF Manifest, LookoutManifest, SchedulerManifest
  <2>2. \A schedule : CronJob(r, schedule).pod = OnItsOwn(r, "db-pruner").pod
    BY DEF CronJob
  <2>3. \E suffix : Manifest(k, r, c).pod = OnItsOwn(r, suffix).pod
    BY <2>1, <2>2
    DEF createLookoutCronJob, newSchedulerCronJob, createLookoutPartitionJobTableJob
  <2> QED
    BY <1>4, <2>3, JobsFit DEF Fits
<1>5. CASE c \notin {"service", "serviceProfiling", "deployment", "cronJob", "partition"}
  BY <1>5 DEF Fits
<1> QED
  BY <1>1, <1>2, <1>3, <1>4, <1>5

LEMMA GeneratedBy ==
    ASSUME NEW k \in Kinds, NEW spec
    PROVE  /\ "cronJob" \in Generated(k, spec) => k \in {"Lookout", "Scheduler"}
           /\ "partition" \in Generated(k, spec) => k = "Lookout"
  BY DEF Generated, Kinds, generateArmadaServerInstallComponents,
         generateExecutorInstallComponents, generateBinocularsInstallComponents,
         generateSchedulerInstallComponents, generateEventIngesterComponents,
         generateLookoutIngesterComponents, generateSchedulerIngesterComponents,
         IngesterComponents, newProfilingComponents, OwnServiceAccount, Given

\* What the worker stores keeps to the routing.
LEMMA WritesFit ==
    ASSUME WInv, StoreFits, UpsertStep \/ PruneStep \/ PartitionStep
    PROVE  /\ \A c \in DOMAIN store' : c \in Names \cup DOMAIN store /\ Fits(c, store'[c])
           /\ pods' = pods
<1>1. /\ pc \in 1..Len(Plan) /\ kind \in Kinds /\ hand \in CustomResources(kind)
      /\ Plan[pc] \in StepsOf(kind)
  BY PlansAreGood DEF UpsertStep, PruneStep, PartitionStep, At, WInv, WorkType, GoodPlan, Plan
<1>2. hand.name = Name
  BY <1>1 DEF CustomResources
<1>3. ASSUME store' # store, ~ \E c : store' = [d \in DOMAIN store \ {c} |-> store[d]]
      PROVE  /\ This \in Names
             /\ This = "cronJob" => kind \in {"Lookout", "Scheduler"}
             /\ This = "partition" => kind = "Lookout"
             /\ Put(This, Sent(This))
  <2>1. CASE UpsertStep
    BY <1>1, <1>3, <2>1, GeneratedBy DEF UpsertStep, Write, At, This, Wanted, StepsOf
  <2>2. CASE PruneStep
    BY <1>1, <1>3, <2>2 DEF PruneStep, Write, At, This, StepsOf
  <2>3. CASE PartitionStep
    BY <1>1, <1>3, <2>3, GeneratedBy DEF PartitionStep, Write, At, This, Wanted, StepsOf
  <2> QED
    BY <2>1, <2>2, <2>3
<1>4. CASE Put(This, Sent(This)) /\ store' # store
             /\ ~ \E c : store' = [d \in DOMAIN store \ {c} |-> store[d]]
  <2>1. Fits(This, Sent(This))
    <3>1. CASE Sent(This) = Manifest(kind, hand, This)
      BY <1>1, <1>2, <1>3, <1>4, <3>1, ManifestFits
    <3>2. CASE Sent(This) = store[This] /\ Stored(This)
      BY <3>2 DEF StoreFits, Stored
    <3> QED
      BY <3>1, <3>2 DEF Sent
  <2>2. This \in Names
    BY <1>3, <1>4
  <2> QED
    BY <1>4, <2>1, <2>2 DEF Put, StoreFits, UpsertStep, PruneStep, PartitionStep
<1>5. CASE store' = store \/ \E c : store' = [d \in DOMAIN store \ {c} |-> store[d]]
  BY <1>5 DEF StoreFits, UpsertStep, PruneStep, PartitionStep
<1> QED
  BY <1>3, <1>4, <1>5

LEMMA StoreFitsStep ==
    ASSUME WInv, StoreFits, [Next]_vars
    PROVE  StoreFits'
<1>1. CASE UpsertStep \/ PruneStep \/ PartitionStep
  BY <1>1, WritesFit DEF StoreFits
<1>2. CASE store' = store /\ pods' = pods
  BY <1>2 DEF StoreFits
<1>3. CASE StartPod
  <2>1. /\ store' = store /\ "deployment" \in DOMAIN store
        /\ pods' = pods \cup {StartedFrom(store["deployment"].template)}
    BY <1>3 DEF StartPod, Stored
  <2>2. Identified(store["deployment"].template.pod.labels, Name)
    BY <2>1 DEF StoreFits, Fits
  <2> QED
    BY <2>1, <2>2 DEF StoreFits, StartedFrom
<1>4. CASE \E p \in pods : ReplacePod(p) \/ StopPod(p)
  BY <1>4 DEF ReplacePod, StopPod, StoreFits, StartedFrom
<1>5. CASE (\E q \in Requests[kind] : Create(q) \/ Edit(q)) \/ Dequeue \/ FinalizeStep
             \/ ParseStep \/ OtherStep \/ CutShort \/ Resync \/ UNCHANGED vars
  <2>1. store' = store /\ pods' = pods
    BY <1>5 DEF Create, Edit, Dequeue, FinalizeStep, ParseStep, OtherStep, CutShort, Resync, vars
  <2> QED
    BY <1>2, <2>1
<1> QED
  BY <1>1, <1>3, <1>4, <1>5 DEF Next, Operator

\* Whatever labels users give, and through every edit, roll-out, eviction and
\* reconcile cut short, every Service has all the pods of the Deployment behind
\* it and none of those that prune or partition (AllLabels, IdentityLabel,
\* createLookoutPartitionJobTableJob).
THEOREM PodsRouted == Spec => []Routing
<1>1. Init => StoreFits
  BY DEF Init, StoreFits
<1>2. WInv /\ StoreFits /\ [Next]_vars => StoreFits'
  BY StoreFitsStep
<1>3. StoreFits => Routing
  <2> SUFFICES ASSUME StoreFits, NEW s \in {"service", "serviceProfiling"} \cap DOMAIN store
               PROVE  /\ \A p \in pods : Selects(store[s].selector, p.template.pod.labels)
                      /\ \A c \in {"cronJob", "partition"} \cap DOMAIN store :
                             ~Selects(store[s].selector, store[c].pod.labels)
    BY DEF Routing
  <2>1. store[s].selector = [app |-> Name]
    BY DEF StoreFits, Fits, IdentityLabel
  <2>2. \A labels : Selects(store[s].selector, labels) <=> Identified(labels, Name)
    BY <2>1 DEF Selects, Identified
  <2>3. \A p \in pods : Identified(p.template.pod.labels, Name)
    BY DEF StoreFits
  <2>4. \A c \in {"cronJob", "partition"} \cap DOMAIN store :
            ~Identified(store[c].pod.labels, Name)
    BY DEF StoreFits, Fits, Identified
  <2> QED
    BY <2>2, <2>3, <2>4
<1> QED
  BY <1>1, <1>2, <1>3, WInvHolds, PTL DEF Spec

\* Every variable of Rollout keeps its type.
THEOREM RolloutTypes == Spec => []TypeOK
<1> DEFINE ObjType == /\ DOMAIN store \subseteq Components
                      /\ past \subseteq Apps /\ faults \in 0..MaxFaults
<1>1. Init => ObjType
  BY RolloutAssumption DEF Init
<1>2. WInv /\ StoreFits /\ ObjType /\ [Next]_vars => ObjType'
  <2> SUFFICES ASSUME WInv, StoreFits, ObjType, [Next]_vars PROVE ObjType'
    OBVIOUS
  <2>1. CASE UpsertStep \/ PruneStep \/ PartitionStep
    <3>1. Names \subseteq Components
      BY DEF Names, Components, Jobs
    <3>2. past' = past /\ faults' = faults
      BY <2>1 DEF UpsertStep, PruneStep, PartitionStep
    <3> QED
      BY <2>1, <3>1, <3>2, WritesFit
  <2>2. CASE \E q \in Requests[kind] : Create(q) \/ Edit(q)
    <3>1. \A q \in Requests[kind] : q.spec.app \in Apps
      BY RolloutAssumption DEF WInv, WorkType, RolloutSpecs
    <3> QED
      BY <2>2, <3>1 DEF Create, Edit
  <2>3. CASE CutShort
    BY <2>3, RolloutAssumption DEF CutShort
  <2>4. CASE Dequeue \/ FinalizeStep \/ ParseStep \/ OtherStep \/ Resync \/ StartPod
               \/ (\E p \in pods : ReplacePod(p) \/ StopPod(p)) \/ UNCHANGED vars
    <3>1. store' = store /\ past' = past /\ faults' = faults
      BY <2>4 DEF Dequeue, FinalizeStep, ParseStep, OtherStep, Resync, StartPod, ReplacePod,
                  StopPod, vars
    <3> QED
      BY <3>1
  <2> QED
    BY <2>1, <2>2, <2>3, <2>4 DEF Next, Operator
<1>3. Init => StoreFits
  BY DEF Init, StoreFits
<1>4. WInv /\ StoreFits /\ [Next]_vars => StoreFits'
  BY StoreFitsStep
<1>5. WInv /\ ObjType => TypeOK
  BY DEF WInv, WorkType, TypeOK
<1> QED
  BY <1>1, <1>2, <1>3, <1>4, <1>5, WInvHolds, PTL DEF Spec

=============================================================================
