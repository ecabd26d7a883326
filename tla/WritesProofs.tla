----------------------------- MODULE WritesProofs -----------------------------
(***************************************************************************)
(* The API server refuses exactly those writes of a reconcile that are     *)
(* said to be refused, and a reconcile that panics has written nothing:    *)
(* for every kind, every set of requests, every configuration and every    *)
(* bound.                                                                  *)
(***************************************************************************)
EXTENDS PodsProofs

-----------------------------------------------------------------------------
(***************************************************************************)
(* What the ingresses and the additional binding are generated for.        *)
(***************************************************************************)
Config(r) == ParseCommonApplicationConfig(r.spec.app)

ServiceKinds == {"ArmadaServer", "Binoculars", "Executor", "Lookout", "Scheduler"}

\* The kinds that generate what has to be connected, and where it leads.
LEMMA ConnectionsOf ==
    ASSUME NEW k \in Kinds, NEW r
    PROVE  /\ "ingressGrpc" \in Generated(k, r.spec) =>
                /\ k \in {"ArmadaServer", "Binoculars", "Scheduler"}
                /\ Manifest(k, r, "ingressGrpc").service = r.name
                /\ Manifest(k, r, "ingressGrpc").port \in {Config(r).grpc, Config(r).http}
           /\ "ingressHttp" \in Generated(k, r.spec) =>
                /\ k \in {"ArmadaServer", "Binoculars", "Lookout"}
                /\ Manifest(k, r, "ingressHttp").service = r.name
                /\ Manifest(k, r, "ingressHttp").port = Config(r).http
           /\ Manifest(k, r, "ingressProfiling").service = Suffixed(r, "profiling")
           /\ Manifest(k, r, "ingressProfiling").port = Config(r).profiling
           /\ "serviceMonitor" \in Generated(k, r.spec) => k \in ServiceKinds \ {"Binoculars"}
           /\ "serviceAccount" \in Generated(k, r.spec) => AccountName(r) = r.name
<1> USE DEF Generated, Kinds, generateArmadaServerInstallComponents,
       generateLookoutInstallComponents, generateSchedulerInstallComponents,
       generateExecutorInstallComponents, generateBinocularsInstallComponents,
       generateEventIngesterComponents, generateLookoutIngesterComponents,
       generateSchedulerIngesterComponents, IngesterComponents, newProfilingComponents,
       OwnServiceAccount, Given
<1>1. "ingressGrpc" \in Generated(k, r.spec) => k \in {"ArmadaServer", "Binoculars", "Scheduler"}
  OBVIOUS
<1>2. "ingressHttp" \in Generated(k, r.spec) => k \in {"ArmadaServer", "Binoculars", "Lookout"}
  OBVIOUS
<1>3. "serviceMonitor" \in Generated(k, r.spec) => k \in ServiceKinds \ {"Binoculars"}
  BY DEF ServiceKinds
<1>4. "serviceAccount" \in Generated(k, r.spec) => AccountName(r) = r.name
  BY DEF AccountName
<1>5. k \in {"ArmadaServer", "Binoculars", "Scheduler"} =>
        /\ Manifest(k, r, "ingressGrpc").service = r.name
        /\ Manifest(k, r, "ingressGrpc").port \in {Config(r).grpc, Config(r).http}
  BY DEF Manifest, ArmadaServerManifest, BinocularsManifest, SchedulerManifest, Config,
         createServerIngressGRPC, createBinocularsIngressGrpc, newSchedulerIngressGRPC,
         IngressGrpc, Ingress
<1>6. k \in {"ArmadaServer", "Binoculars", "Lookout"} =>
        /\ Manifest(k, r, "ingressHttp").service = r.name
        /\ Manifest(k, r, "ingressHttp").port = Config(r).http
  BY DEF Manifest, ArmadaServerManifest, BinocularsManifest, LookoutManifest, Config,
         createServerIngressHTTP, createBinocularsIngressHttp, createLookoutIngressHttp,
         IngressHttp, Ingress
<1>7. /\ Manifest(k, r, "ingressProfiling").service = Suffixed(r, "profiling")
      /\ Manifest(k, r, "ingressProfiling").port = Config(r).profiling
  BY DEF Manifest, ArmadaServerManifest, BinocularsManifest, ExecutorManifest, LookoutManifest,
         SchedulerManifest, CommonManifest, Config, newProfilingIngress, Ingress
<1> QED
  BY <1>1, <1>2, <1>3, <1>4, <1>5, <1>6, <1>7

LEMMA ExtraBindingOf ==
    ASSUME NEW k \in Kinds, NEW spec, "extraBinding" \in Generated(k, spec)
    PROVE  k = "Executor"
  BY DEF Generated, Kinds, generateArmadaServerInstallComponents,
     generateLookoutInstallComponents, generateSchedulerInstallComponents,
     generateBinocularsInstallComponents,
     generateEventIngesterComponents, generateLookoutIngesterComponents,
     generateSchedulerIngesterComponents, IngesterComponents, newProfilingComponents,
     OwnServiceAccount, Given

-----------------------------------------------------------------------------
(***************************************************************************)
(* The invariant.                                                          *)
(***************************************************************************)
Behind(s) == \E i \in 1..Len(Plan) : i < pc /\ Plan[i] = s

\* Who has an ingress for profiling has a port for it.
Profiled(r) ==
    "ingressProfiling" \in Generated(kind, r.spec) => Config(r).profiling > 0

\* What the copy in hand has been through: parsing and generation,
Parsed ==
    hand # None /\ Behind(Parse) =>
        /\ hand.spec.app \notin Malformed
        /\ ~NilDereference(kind, hand.spec)
        /\ Profiled(hand)

\* and the write of the Deployment, which is not accepted with other ports.
InRange(k, spec) ==
    LET config == ParseCommonApplicationConfig(spec.app)
    IN  /\ \A p \in UsedPorts(k) : config[p] \in Ports
        /\ ~(config.profiling > MaxPort)
        /\ k = "Executor" => Written[spec.app].metric # 0

Deployed == hand # None /\ Behind(Upsert("deployment")) => InRange(kind, hand.spec)

\* What may not change is the same in every version.
Named ==
    /\ Stored("deployment") => store["deployment"].selector = IdentityLabel(Name)
    /\ Stored("binding") => store["binding"].roleRef = Name

AInv == Parsed /\ Deployed /\ Named

-----------------------------------------------------------------------------
(***************************************************************************)
(* The order of the tables.                                                *)
(***************************************************************************)
ParsedFirst(p) ==
    \E j \in {1, 2} : /\ p[j] = Parse
                      /\ \A i \in {1, 2} : p[i].op \in {"finalize", "parse"}
                      /\ j <= Len(p)

LEMMA ParsedFirstAppend ==
    ASSUME NEW S, NEW u \in Seq(S), NEW v \in Seq(S), Len(u) >= 2, ParsedFirst(u)
    PROVE  u \o v \in Seq(S) /\ Len(u \o v) >= 2 /\ ParsedFirst(u \o v)
<1>1. /\ u \o v \in Seq(S) /\ Len(u \o v) >= 2
      /\ (u \o v)[1] = u[1] /\ (u \o v)[2] = u[2]
  OBVIOUS
<1> QED
  BY <1>1 DEF ParsedFirst

LEMMA ParsedFirstTwo ==
    ASSUME NEW p, Len(p) >= 2,
           \/ p[1] = Finalize /\ p[2] = Parse
           \/ p[1] = Parse /\ p[2] = Finalize
    PROVE  ParsedFirst(p)
<1>1. Finalize.op = "finalize" /\ Parse.op = "parse"
  BY DEF Finalize, Parse, Step
<1>2. \A i \in {1, 2} : p[i].op \in {"finalize", "parse"}
  BY <1>1
<1>3. CASE p[1] = Parse
  BY <1>2, <1>3 DEF ParsedFirst
<1>4. CASE p[2] = Parse
  BY <1>2, <1>4 DEF ParsedFirst
<1> QED
  BY <1>3, <1>4

\* Every table parses before it writes.
LEMMA PlansParseFirst ==
    ASSUME NEW k \in Kinds
    PROVE  ParsedFirst(Reconcile(k))
<1> USE StepsOfTables
<1>1. Finalize.op = "finalize" /\ Parse.op = "parse"
  BY DEF Finalize, Parse, Step
<1> DEFINE FinalizeFirst == <<Finalize, Parse, Upsert("serviceAccount"), Upsert("secret")>>
           ParseFirst == <<Parse, Finalize, Upsert("serviceAccount"), Upsert("secret")>>
<1>2. /\ FinalizeFirst \in Seq(StepsOf(k)) /\ Len(FinalizeFirst) >= 2
      /\ FinalizeFirst[1] = Finalize /\ FinalizeFirst[2] = Parse
      /\ ParseFirst \in Seq(StepsOf(k)) /\ Len(ParseFirst) >= 2
      /\ ParseFirst[1] = Parse /\ ParseFirst[2] = Finalize
  OBVIOUS
<1> HIDE DEF FinalizeFirst, ParseFirst
<1>3. ParsedFirst(FinalizeFirst) /\ ParsedFirst(ParseFirst)
  BY <1>2, ParsedFirstTwo
<1>4. \A c \in {"migration", "waitForPulsar", "initPulsar"} : JobRun(c) \in Seq(StepsOf(k))
  OBVIOUS
<1>5. CASE k = "Lookout"
  <2> DEFINE rest == <<Upsert("deployment"), Upsert("service"), Upsert("ingressHttp"),
                       Step("prune", "cronJob"), Upsert("serviceMonitor"),
                       Step("partition", "partition"), Step("status", "partition")>>
             start == FinalizeFirst \o JobRun("migration")
  <2>1. rest \in Seq(StepsOf(k))
    BY <1>5
  <2>2. start \in Seq(StepsOf(k)) /\ Len(start) >= 2 /\ ParsedFirst(start)
    BY <1>2, <1>3, <1>4, ParsedFirstAppend
  <2> HIDE DEF rest, start
  <2>3. ParsedFirst(start \o rest)
    BY <2>1, <2>2, ParsedFirstAppend
  <2> QED
    BY <1>5, <2>3 DEF Reconcile, LookoutReconcile, rest, start, FinalizeFirst
<1>6. CASE k = "Scheduler"
  <2> DEFINE rest == <<Upsert("deployment"), Upsert("service"), Upsert("serviceProfiling"),
                       Upsert("ingressGrpc"), Upsert("ingressProfiling"),
                       Upsert("serviceMonitor"), Upsert("prometheusRule"),
                       Step("prune", "cronJob")>>
             start == FinalizeFirst \o JobRun("migration")
  <2>1. rest \in Seq(StepsOf(k))
    BY <1>6
  <2>2. start \in Seq(StepsOf(k)) /\ Len(start) >= 2 /\ ParsedFirst(start)
    BY <1>2, <1>3, <1>4, ParsedFirstAppend
  <2> HIDE DEF rest, start
  <2>3. ParsedFirst(start \o rest)
    BY <2>1, <2>2, ParsedFirstAppend
  <2> QED
    BY <1>6, <2>3 DEF Reconcile, SchedulerReconcile, rest, start, FinalizeFirst
<1>7. CASE k = "ArmadaServer"
  <2> DEFINE rest == <<Upsert("deployment"), Upsert("service"), Upsert("ingressGrpc"),
                       Upsert("ingressHttp"), Upsert("podDisruptionBudget"),
                       Upsert("prometheusRule"), Upsert("serviceMonitor")>>
             waits == ParseFirst \o JobRun("waitForPulsar")
             start == waits \o JobRun("initPulsar")
  <2>1. rest \in Seq(StepsOf(k))
    OBVIOUS
  <2>2. waits \in Seq(StepsOf(k)) /\ Len(waits) >= 2 /\ ParsedFirst(waits)
    BY <1>2, <1>3, <1>4, ParsedFirstAppend
  <2> HIDE DEF rest, waits
  <2>3. start \in Seq(StepsOf(k)) /\ Len(start) >= 2 /\ ParsedFirst(start)
    BY <1>4, <2>2, ParsedFirstAppend
  <2> HIDE DEF start
  <2>4. ParsedFirst(start \o rest)
    BY <2>1, <2>3, ParsedFirstAppend
  <2> QED
    BY <1>7, <2>4 DEF Reconcile, ArmadaServerReconcile, rest, start, waits, ParseFirst
<1>8. /\ ParsedFirst(ExecutorReconcile) /\ ParsedFirst(BinocularsReconcile)
      /\ ParsedFirst(EventIngesterReconcile) /\ ParsedFirst(LookoutIngesterReconcile)
      /\ ParsedFirst(SchedulerIngesterReconcile)
  BY <1>1 DEF ParsedFirst, ExecutorReconcile, BinocularsReconcile, EventIngesterReconcile,
              LookoutIngesterReconcile, SchedulerIngesterReconcile
<1> QED
  BY <1>5, <1>6, <1>7, <1>8 DEF Reconcile, Kinds

\* The Services and the ingresses come after the Deployment.
Serving == {"ingressGrpc", "ingressHttp", "ingressProfiling", "service", "serviceProfiling"}

ServesNothing(p) == \A i \in 1..Len(p) : \A c \in Serving : p[i] # Upsert(c)

DeploymentFirst(p) ==
    \A i \in 1..Len(p) : \A c \in Serving :
        p[i] = Upsert(c) => \E j \in 1..Len(p) : j < i /\ p[j] = Upsert("deployment")

LEMMA ServingAppend ==
    ASSUME NEW S, NEW u \in Seq(S), NEW v \in Seq(S), ServesNothing(u)
    PROVE  /\ u \o v \in Seq(S)
           /\ ServesNothing(v) => ServesNothing(u \o v)
           /\ Len(v) > 0 /\ v[1] = Upsert("deployment") => DeploymentFirst(u \o v)
<1> DEFINE w == u \o v
<1>1. /\ w \in Seq(S) /\ Len(u) \in Nat /\ Len(v) \in Nat
      /\ Len(w) = Len(u) + Len(v)
      /\ \A i \in 1..Len(u) : w[i] = u[i]
      /\ \A i \in 1..Len(v) : w[Len(u) + i] = v[i]
  OBVIOUS
<1>2. \A i \in 1..Len(w) : i \in 1..Len(u) \/ \E j \in 1..Len(v) : i = Len(u) + j
  <2> SUFFICES ASSUME NEW i \in 1..Len(w), i \notin 1..Len(u)
               PROVE  \E j \in 1..Len(v) : i = Len(u) + j
    OBVIOUS
  <2>1. i - Len(u) \in 1..Len(v) /\ i = Len(u) + (i - Len(u))
    BY <1>1
  <2> QED
    BY <2>1
<1> HIDE DEF w
<1>3. ServesNothing(v) => ServesNothing(w)
  BY <1>1, <1>2 DEF ServesNothing
<1>4. ASSUME Len(v) > 0, v[1] = Upsert("deployment")
      PROVE  DeploymentFirst(w)
  <2>1. Len(u) + 1 \in 1..Len(w) /\ w[Len(u) + 1] = Upsert("deployment")
    BY <1>1, <1>4
  <2> SUFFICES ASSUME NEW i \in 1..Len(w), NEW c \in Serving, w[i] = Upsert(c)
               PROVE  Len(u) + 1 < i
    BY <2>1 DEF DeploymentFirst
  <2>2. i \notin 1..Len(u)
    BY <1>1 DEF ServesNothing
  <2>3. i # Len(u) + 1
    BY <2>1 DEF Upsert, Step, Serving
  <2> QED
    BY <1>1, <2>2, <2>3
<1> QED
  BY <1>1, <1>3, <1>4 DEF w

LEMMA PlansServeLater ==
    ASSUME NEW k \in Kinds
    PROVE  DeploymentFirst(Reconcile(k))
<1> USE StepsOfTables
<1>1. /\ \A c \in Serving : Upsert("deployment") # Upsert(c)
      /\ \A c \in Serving : \A d : d \notin Serving => Upsert(d) # Upsert(c)
      /\ \A c : Finalize # Upsert(c) /\ Parse # Upsert(c)
      /\ \A c, d : Step("wait", d) # Upsert(c)
  BY DEF Upsert, Step, Finalize, Parse, Serving
<1>2. \A d \in {"migration", "waitForPulsar", "initPulsar"} : d \notin Serving
  BY DEF Serving
<1>3. \A d \in {"migration", "waitForPulsar", "initPulsar"} :
         JobRun(d) \in Seq(StepsOf(k)) /\ ServesNothing(JobRun(d))
  BY <1>1, <1>2 DEF ServesNothing, JobRun
<1> DEFINE FinalizeFirst == <<Finalize, Parse, Upsert("serviceAccount"), Upsert("secret")>>
           ParseFirst == <<Parse, Finalize, Upsert("serviceAccount"), Upsert("secret")>>
<1>4. "serviceAccount" \notin Serving /\ "secret" \notin Serving
  BY DEF Serving
<1>5. FinalizeFirst \in Seq(StepsOf(k)) /\ ServesNothing(FinalizeFirst)
  BY <1>1, <1>4 DEF ServesNothing
<1>6. ParseFirst \in Seq(StepsOf(k)) /\ ServesNothing(ParseFirst)
  BY <1>1, <1>4 DEF ServesNothing
<1>7. CASE k = "Lookout"
  <2> DEFINE rest == <<Upsert("deployment"), Upsert("service"), Upsert("ingressHttp"),
                       Step("prune", "cronJob"), Upsert("serviceMonitor"),
                       Step("partition", "partition"), Step("status", "partition")>>
  <2>1. rest \in Seq(StepsOf(k)) /\ Len(rest) > 0 /\ rest[1] = Upsert("deployment")
    BY <1>7
  <2> HIDE DEF rest, FinalizeFirst
  <2>2. DeploymentFirst((FinalizeFirst \o JobRun("migration")) \o rest)
    BY <1>3, <1>5, <2>1, ServingAppend
  <2> QED
    BY <1>7, <2>2 DEF Reconcile, LookoutReconcile, rest, FinalizeFirst
<1>8. CASE k = "Scheduler"
  <2> DEFINE rest == <<Upsert("deployment"), Upsert("service"), Upsert("serviceProfiling"),
                       Upsert("ingressGrpc"), Upsert("ingressProfiling"),
                       Upsert("serviceMonitor"), Upsert("prometheusRule"),
                       Step("prune", "cronJob")>>
  <2>1. rest \in Seq(StepsOf(k)) /\ Len(rest) > 0 /\ rest[1] = Upsert("deployment")
    BY <1>8
  <2> HIDE DEF rest, FinalizeFirst
  <2>2. DeploymentFirst((FinalizeFirst \o JobRun("migration")) \o rest)
    BY <1>3, <1>5, <2>1, ServingAppend
  <2> QED
    BY <1>8, <2>2 DEF Reconcile, SchedulerReconcile, rest, FinalizeFirst
<1>9. CASE k = "ArmadaServer"
  <2> DEFINE rest == <<Upsert("deployment"), Upsert("service"), Upsert("ingressGrpc"),
                       Upsert("ingressHttp"), Upsert("podDisruptionBudget"),
                       Upsert("prometheusRule"), Upsert("serviceMonitor")>>
             waits == ParseFirst \o JobRun("waitForPulsar")
             jobs == waits \o JobRun("initPulsar")
  <2>1. rest \in Seq(StepsOf(k)) /\ Len(rest) > 0 /\ rest[1] = Upsert("deployment")
    OBVIOUS
  <2> HIDE DEF rest, ParseFirst
  <2>2. waits \in Seq(StepsOf(k)) /\ ServesNothing(waits)
    BY <1>3, <1>6, ServingAppend
  <2> HIDE DEF waits
  <2>3. jobs \in Seq(StepsOf(k)) /\ ServesNothing(jobs)
    BY <1>3, <2>2, ServingAppend
  <2> HIDE DEF jobs
  <2>4. DeploymentFirst(jobs \o rest)
    BY <2>1, <2>3, ServingAppend
  <2> QED
    BY <1>9, <2>4 DEF Reconcile, ArmadaServerReconcile, rest, jobs, waits, ParseFirst
<1>10. \A d \in {"clusterRole", "binding", "extraBinding", "prometheusRule", "serviceMonitor"} :
          d \notin Serving
  BY DEF Serving
<1>11. DeploymentFirst(ExecutorReconcile)
  BY <1>1, <1>4, <1>10 DEF DeploymentFirst, ExecutorReconcile
<1>12. DeploymentFirst(BinocularsReconcile)
  BY <1>1, <1>4, <1>10 DEF DeploymentFirst, BinocularsReconcile
<1>13. DeploymentFirst(EventIngesterReconcile)
  BY <1>1, <1>4 DEF DeploymentFirst, EventIngesterReconcile
<1>14. DeploymentFirst(LookoutIngesterReconcile)
  BY <1>1, <1>4 DEF DeploymentFirst, LookoutIngesterReconcile
<1>15. DeploymentFirst(SchedulerIngesterReconcile)
  BY <1>1, <1>4 DEF DeploymentFirst, SchedulerIngesterReconcile
<1> QED
  BY <1>7, <1>8, <1>9, <1>11, <1>12, <1>13, <1>14, <1>15 DEF Reconcile, Kinds

\* The worker writes only what it has parsed, and Services and ingresses only
\* after the Deployment.
LEMMA WritesAreOrdered ==
    ASSUME WInv, pc # 0, Plan[pc].op \notin {"finalize", "parse"}
    PROVE  /\ Behind(Parse)
           /\ \A c \in Serving : Plan[pc] = Upsert(c) => Behind(Upsert("deployment"))
<1>1. /\ pc \in 1..Len(Plan) /\ kind \in Kinds /\ Len(Plan) \in Nat
      /\ ParsedFirst(Plan) /\ DeploymentFirst(Plan)
  BY PlansParseFirst, PlansServeLater, PlansAreGood DEF WInv, WorkType, GoodPlan, Plan
<1>2. Behind(Parse)
  <2>1. PICK j \in {1, 2} : Plan[j] = Parse /\ j <= Len(Plan)
                            /\ \A i \in {1, 2} : Plan[i].op \in {"finalize", "parse"}
    BY <1>1 DEF ParsedFirst
  <2>2. pc # 1 /\ pc # 2
    BY <2>1
  <2>3. j < pc /\ j \in 1..Len(Plan)
    BY <1>1, <2>1, <2>2
  <2> QED
    BY <2>1, <2>3 DEF Behind
<1>3. \A c \in Serving : Plan[pc] = Upsert(c) => Behind(Upsert("deployment"))
  BY <1>1 DEF DeploymentFirst, Behind
<1> QED
  BY <1>2, <1>3

-----------------------------------------------------------------------------
(***************************************************************************)
(* The invariant holds.                                                    *)
(***************************************************************************)
\* What is behind the worker was so before, or is the step it takes.
LEMMA BehindGrows ==
    ASSUME WInv, [Next]_vars, hand' # None
    PROVE  \/ \A s : ~Behind(s)'
           \/ /\ hand # None /\ hand'.spec = hand.spec
              /\ \A s : Behind(s)' => Behind(s) \/ (Operator /\ pc # 0 /\ Plan[pc] = s)
<1>1. Plan' = Plan /\ kind' = kind
  BY DEF Next, Operator, Create, Edit, Dequeue, FinalizeStep, ParseStep, UpsertStep, PruneStep,
         PartitionStep, OtherStep, CutShort, Resync, StartPod, ReplacePod, StopPod, vars,
         setting, Plan
<1>2. pc \in 0..Len(Plan) /\ Len(Plan) \in Nat
  BY PlansAreGood DEF WInv, WorkType, GoodPlan, Plan
<1>3. CASE hand' = hand /\ pc' = pc
  BY <1>1, <1>3 DEF Behind
<1>4. CASE pc' = 1
  BY <1>1, <1>4 DEF Behind
<1>5. CASE Operator /\ pc # 0 /\ pc' = pc + 1 /\ hand # None /\ hand'.spec = hand.spec
  <2> SUFFICES ASSUME NEW s, Behind(s)', ~Behind(s)
               PROVE  Plan[pc] = s
    BY <1>5
  <2>1. PICK i \in 1..Len(Plan) : i < pc + 1 /\ Plan[i] = s
    BY <1>1, <1>5 DEF Behind
  <2>2. ~(i < pc)
    BY <2>1 DEF Behind
  <2>3. i = pc
    BY <1>2, <2>1, <2>2
  <2> QED
    BY <2>1, <2>3
<1>6. CASE Operator
  <2>1. CASE Dequeue
    BY <1>4, <2>1 DEF Dequeue
  <2>2. CASE pc # 0 /\ Onward
    <3>1. hand' = hand /\ pc' = pc + 1
      BY <2>2 DEF Onward
    <3> QED
      BY <1>5, <1>6, <2>2, <3>1
  <2>3. CASE Retry
    BY <2>3 DEF Retry
  <2>4. CASE FinalizeStep /\ hand.version = cr.version /\ Store(hand, hand.version, TRUE)
               /\ hand' = cr' /\ pc' = pc + 1
    <3>1. pc # 0 /\ hand # None /\ (webhooks => applyDefaults(kind, hand.spec) = hand.spec)
      BY <2>4 DEF FinalizeStep, At, WInv, WorkType, Filled
    <3>2. hand'.spec = hand.spec
      BY <2>4, <3>1 DEF Store, Admit
    <3> QED
      BY <1>5, <1>6, <2>4, <3>1, <3>2
  <2> QED
    BY <1>6, <2>1, <2>2, <2>3, <2>4
    DEF Operator, FinalizeStep, ParseStep, UpsertStep, PruneStep, PartitionStep, OtherStep, Write, At
<1>7. CASE CutShort
  BY <1>7 DEF CutShort, Retry
<1>8. CASE (\E q \in Requests[kind] : Create(q) \/ Edit(q)) \/ Resync \/ StartPod
             \/ (\E p \in pods : ReplacePod(p) \/ StopPod(p)) \/ UNCHANGED vars
  <2>1. hand' = hand /\ pc' = pc
    BY <1>8 DEF Create, Edit, Resync, StartPod, ReplacePod, StopPod, vars, worker
  <2> QED
    BY <1>3, <2>1
<1> QED
  BY <1>6, <1>7, <1>8 DEF Next

LEMMA KindStays ==
    ASSUME [Next]_vars
    PROVE  kind' = kind
  BY DEF Next, Operator, Create, Edit, Dequeue, FinalizeStep, ParseStep, UpsertStep, PruneStep,
         PartitionStep, OtherStep, CutShort, Resync, StartPod, ReplacePod, StopPod, vars, setting

LEMMA StepOf ==
    ASSUME WInv, pc # 0
    PROVE  /\ pc \in 1..Len(Plan) /\ kind \in Kinds /\ hand # None
           /\ hand \in CustomResources(kind) /\ Plan[pc] \in StepsOf(kind)
           /\ hand.name = Name
           /\ \A c : At("upsert") /\ This = c => Plan[pc] = Upsert(c)
<1>1. /\ pc \in 1..Len(Plan) /\ kind \in Kinds /\ hand # None
      /\ hand \in CustomResources(kind) /\ Plan[pc] \in StepsOf(kind)
  BY PlansAreGood DEF WInv, WorkType, GoodPlan, Plan
<1>2. hand.name = Name
  BY <1>1 DEF CustomResources
<1>3. \A c : At("upsert") /\ This = c => Plan[pc] = Upsert(c)
  BY <1>1 DEF StepsOf, At, This, Upsert, Step
<1> QED
  BY <1>1, <1>2, <1>3

\* What the builders make a whole of.
LEMMA GeneratedFrom ==
    ASSUME kind \in Kinds, CanGenerate
    PROVE  /\ hand.spec.app \notin Malformed
           /\ ~NilDereference(kind, hand.spec)
           /\ Profiled(hand)
<1>1. Manifest(kind, hand, "ingressProfiling").port = Config(hand).profiling
  BY ConnectionsOf
<1> QED
  BY <1>1 DEF CanGenerate, Generates, IngressesHavePorts, Profiled

LEMMA ParsedStep ==
    ASSUME WInv, Parsed, [Next]_vars
    PROVE  Parsed'
<1>1. kind' = kind
  BY KindStays
<1> SUFFICES ASSUME hand' # None, Behind(Parse)'
             PROVE  /\ hand'.spec.app \notin Malformed
                    /\ ~NilDereference(kind, hand'.spec)
                    /\ Profiled(hand')
  BY <1>1 DEF Parsed, Profiled
<1>2. /\ hand # None /\ hand'.spec = hand.spec
      /\ Behind(Parse) \/ (Operator /\ pc # 0 /\ Plan[pc] = Parse)
  BY BehindGrows
<1>3. Profiled(hand) => Profiled(hand')
  BY <1>2 DEF Profiled, Config
<1>4. CASE Behind(Parse)
  BY <1>2, <1>3, <1>4 DEF Parsed
<1>5. CASE Operator /\ pc # 0 /\ Plan[pc] = Parse
  <2>1. ParseStep
    BY <1>5 DEF Operator, Dequeue, FinalizeStep, UpsertStep, PruneStep, PartitionStep,
                OtherStep, At, Parse, Step
  <2>2. CanGenerate
    BY <2>1 DEF ParseStep, Retry
  <2>3. kind \in Kinds
    BY DEF WInv, WorkType
  <2> QED
    BY <1>2, <1>3, <2>2, <2>3, GeneratedFrom
<1> QED
  BY <1>2, <1>4, <1>5

-----------------------------------------------------------------------------
(***************************************************************************)
(* What the API server makes of the objects of a custom resource.          *)
(***************************************************************************)
\* The additional mounts of a spec have their volumes.
Mounted(spec) == "additionalVolumeMounts" \in spec.on => "additionalVolumes" \in spec.on

LEMMA MountsOf ==
    ASSUME NEW name, NEW r
    PROVE  MountsHaveVolumes(AnyPod(name, r)) <=> Mounted(r.spec)
<1>1. AnyPod(name, r).volumes = createVolumes(r) /\ AnyPod(name, r).mounts = createVolumeMounts(r)
  BY DEF AnyPod, PodWith
<1> QED
  BY <1>1 DEF MountsHaveVolumes, Mounted, createVolumes, createVolumeMounts, Given

LEMMA ConfigType ==
    ASSUME NEW spec, spec.app \in Apps \ Malformed
    PROVE  /\ \A p \in PortNames : ParseCommonApplicationConfig(spec.app)[p] \in Int
           /\ ParseCommonApplicationConfig(spec.app).profiling \in Int
           /\ Written[spec.app].metric \in 0..MaxPort
<1> DEFINE config == ParseCommonApplicationConfig(spec.app)
<1>1. \A p \in PortNames : Default[p] \in Int
  BY SMT DEF Default, PortNames
<1>2. \A p \in DOMAIN Written[spec.app].ports : Written[spec.app].ports[p] \in Int
  BY WrittenAssumption
<1>3. \A p \in PortNames : config[p] \in Int
  BY <1>1, <1>2 DEF ParseCommonApplicationConfig
<1>4. Written[spec.app].metric \in 0..MaxPort
  BY WrittenAssumption
<1>5. config["profiling"] \in Int
  BY <1>3 DEF PortNames
<1> QED
  BY <1>3, <1>4, <1>5

LEMMA PortsType == MaxPort \in Nat /\ \A n \in Int : n \in Ports <=> n > 0 /\ ~(n > MaxPort)
<1>1. MaxPort \in Nat
  BY SMT DEF MaxPort
<1> QED
  BY <1>1 DEF Ports

AllUsable(ports) == \A p \in DOMAIN ports : ports[p] \in Ports

LEMMA UsableContainerPorts ==
    ASSUME NEW config, NEW names, config.profiling \in Int
    PROVE  AllUsable(newContainerPorts(config, names))
             <=> (\A p \in names : config[p] \in Ports) /\ ~(config.profiling > MaxPort)
<1> DEFINE used == newContainerPorts(config, names)
<1>1. config.profiling = config["profiling"]
  OBVIOUS
<1>2. config.profiling > 0 => (config.profiling \in Ports <=> ~(config.profiling > MaxPort))
  BY PortsType
<1>3. ~(config.profiling > 0) => ~(config.profiling > MaxPort)
  BY PortsType
<1>4. AllUsable(used) <=> /\ \A p \in names : config[p] \in Ports
                          /\ config.profiling > 0 => config["profiling"] \in Ports
  <2>1. DOMAIN used = names \cup (IF config.profiling > 0 THEN {"profiling"} ELSE {})
    BY DEF newContainerPorts
  <2>2. \A p \in DOMAIN used : used[p] = config[p]
    BY DEF newContainerPorts
  <2> HIDE DEF used
  <2> QED
    BY <2>1, <2>2 DEF AllUsable
<1> QED
  BY <1>1, <1>2, <1>3, <1>4

LEMMA UsableWithMetric ==
    ASSUME NEW ports, NEW metric, metric \in 0..MaxPort, "metrics" \notin DOMAIN ports
    PROVE  AllUsable(MergeMaps(ports, [metrics |-> metric]))
             <=> AllUsable(ports) /\ metric # 0
<1> DEFINE merged == MergeMaps(ports, [metrics |-> metric])
<1>1. metric \in Ports <=> metric # 0
  BY PortsType
<1>2. DOMAIN merged = DOMAIN ports \cup {"metrics"}
  BY DEF MergeMaps
<1>3. \A p \in DOMAIN ports : merged[p] = ports[p]
  BY DEF MergeMaps
<1>4. merged["metrics"] = metric
  BY DEF MergeMaps
<1> HIDE DEF merged
<1>5. AllUsable(merged) <=> AllUsable(ports) /\ metric # 0
  BY <1>1, <1>2, <1>3, <1>4 DEF AllUsable
<1> QED
  BY <1>5 DEF merged

\* The Deployment of each kind: its ports, and its Pulsar volumes.
LEMMA DeploymentOf ==
    ASSUME NEW k \in Kinds, NEW r
    PROVE  \E probe, pulsar :
              /\ MountsHaveVolumes(pulsar)
              /\ Manifest(k, r, "deployment") =
                    Deployment(r, IF k = "Executor"
                                  THEN MergeMaps(newContainerPorts(Config(r), {"http"}),
                                                 [metrics |-> Written[r.spec.app].metric])
                                  ELSE newContainerPorts(Config(r), UsedPorts(k)), probe, pulsar)
<1>1. MountsHaveVolumes(NoPulsar) /\ MountsHaveVolumes(Pulsar(r))
  BY DEF MountsHaveVolumes, NoPulsar, Pulsar, createPulsarVolumeMounts, createPulsarVolumes
<1>2. CASE k = "Executor"
  BY <1>1, <1>2 DEF Manifest, ExecutorManifest, createExecutorDeployment, Config
<1>3. CASE k = "Lookout"
  BY <1>1, <1>3 DEF Manifest, LookoutManifest, createLookoutDeployment, Config, UsedPorts,
                    newContainerPortsHTTPWithMetrics
<1>4. CASE k = "Scheduler"
  BY <1>1, <1>4 DEF Manifest, SchedulerManifest, newSchedulerDeployment, Config, UsedPorts,
                    newContainerPortsAll
<1>5. CASE k = "ArmadaServer"
  BY <1>1, <1>5 DEF Manifest, ArmadaServerManifest, createArmadaServerDeployment, Config,
                    UsedPorts, newContainerPortsAll
<1>6. CASE k = "Binoculars"
  BY <1>1, <1>6 DEF Manifest, BinocularsManifest, createBinocularsDeployment, Config, UsedPorts,
                    newContainerPortsAll
<1>7. CASE k \in {"EventIngester", "LookoutIngester", "SchedulerIngester"}
  BY <1>1, <1>7 DEF Manifest, IngesterDeploymentOf, IngesterDeployment,
     createEventIngesterDeployment, createLookoutIngesterDeployment,
     createSchedulerIngesterDeployment, Config, UsedPorts, newContainerPortsMetrics
<1> QED
  BY <1>2, <1>3, <1>4, <1>5, <1>6, <1>7 DEF Kinds

\* The API server takes a Deployment for its ports and its mounts; the pods are
\* in the selector whatever labels users give.
LEMMA DeploymentValid ==
    ASSUME NEW k \in Kinds, NEW r, r.name = Name, r.spec.app \in Apps \ Malformed
    PROVE  Valid("deployment", Manifest(k, r, "deployment"))
             <=> InRange(k, r.spec) /\ Mounted(r.spec)
<1> DEFINE metric == Written[r.spec.app].metric
           used == newContainerPorts(Config(r), UsedPorts(k))
           ports == IF k = "Executor"
                    THEN MergeMaps(newContainerPorts(Config(r), {"http"}), [metrics |-> metric])
                    ELSE used
<1>1. PICK probe, pulsar : /\ MountsHaveVolumes(pulsar)
                           /\ Manifest(k, r, "deployment") = Deployment(r, ports, probe, pulsar)
  BY DeploymentOf
<1>2. Config(r).profiling \in Int /\ metric \in 0..MaxPort
  BY ConfigType DEF Config
<1>3. AllUsable(ports) <=> InRange(k, r.spec)
  <2>1. AllUsable(used) <=> /\ \A p \in UsedPorts(k) : Config(r)[p] \in Ports
                            /\ ~(Config(r).profiling > MaxPort)
    BY <1>2, UsableContainerPorts
  <2>2. CASE k = "Executor"
    <3>1. UsedPorts(k) = {"http"}
      BY <2>2 DEF UsedPorts
    <3>2. "metrics" \notin DOMAIN used
      BY <3>1 DEF newContainerPorts
    <3>3. ports = MergeMaps(used, [metrics |-> metric])
      BY <2>2, <3>1
    <3> HIDE DEF used, ports, metric
    <3>4. AllUsable(ports) <=> AllUsable(used) /\ metric # 0
      BY <1>2, <3>2, <3>3, UsableWithMetric
    <3> QED
      BY <2>1, <2>2, <3>4 DEF InRange, Config, metric
  <2>3. CASE k # "Executor"
    <3>1. ports = used
      BY <2>3
    <3> HIDE DEF used, ports
    <3> QED
      BY <2>1, <2>3, <3>1 DEF InRange, Config
  <2> QED
    BY <2>2, <2>3
<1> HIDE DEF ports, used, metric
<1> DEFINE object == Deployment(r, ports, probe, pulsar)
<1>4. /\ object.template.ports = ports /\ object.template.pulsar = pulsar
      /\ object.template.pod = AnyPod(r.name, r) /\ object.selector = IdentityLabel(Name)
  BY DEF Deployment
<1>5. Identified(object.template.pod.labels, Name)
  BY DeploymentsFit
<1> HIDE DEF object
<1>6. Selects(object.selector, object.template.pod.labels)
  BY <1>4, <1>5 DEF Selects, Identified, IdentityLabel
<1>7. MountsHaveVolumes(object.template.pod) <=> Mounted(r.spec)
  BY <1>4, MountsOf
<1>8. Valid("deployment", object) <=> ValidDeployment(object)
  BY DEF Valid, Ingresses, Jobs
<1>9. Valid("deployment", object) <=> InRange(k, r.spec) /\ Mounted(r.spec)
  BY <1>1, <1>3, <1>4, <1>6, <1>7, <1>8 DEF ValidDeployment, AllUsable
<1> QED
  BY <1>1, <1>9 DEF object

LEMMA DeployedStep ==
    ASSUME WInv, AInv, [Next]_vars
    PROVE  Deployed'
<1>1. kind' = kind /\ kind \in Kinds
  BY KindStays DEF WInv, WorkType
<1> SUFFICES ASSUME hand' # None, Behind(Upsert("deployment"))'
             PROVE  InRange(kind, hand'.spec)
  BY <1>1 DEF Deployed
<1>2. /\ hand # None /\ hand'.spec = hand.spec
      /\ \/ Behind(Upsert("deployment"))
         \/ Operator /\ pc # 0 /\ Plan[pc] = Upsert("deployment")
  BY BehindGrows
<1>3. CASE Behind(Upsert("deployment"))
  BY <1>2, <1>3 DEF AInv, Deployed
<1>4. CASE Operator /\ pc # 0 /\ Plan[pc] = Upsert("deployment")
  <2>1. UpsertStep /\ This = "deployment"
    BY <1>4 DEF Operator, Dequeue, FinalizeStep, ParseStep, PruneStep, PartitionStep,
                OtherStep, At, Upsert, Step, This
  <2>2. Wanted("deployment")
    BY <1>1, WritesTheSpec DEF Wanted
  <2>3. Accepted("deployment")
    BY <2>1, <2>2 DEF UpsertStep, Write, Retry
  <2>4. "deployment" \in Mutable
    BY DEF Mutable, Components, Jobs
  <2>5. Valid("deployment", Manifest(kind, hand, "deployment"))
    BY <2>3, <2>4 DEF Accepted, Sent
  <2>6. Plan[pc].op = "upsert"
    BY <1>4 DEF Upsert, Step
  <2>7. Behind(Parse)
    BY <1>4, <2>6, WritesAreOrdered
  <2>8. hand \in CustomResources(kind) /\ hand.name = Name
    BY <1>4, StepOf
  <2>9. hand.spec.app \in Apps \ Malformed
    BY <1>2, <2>7, <2>8 DEF AInv, Parsed, CustomResources, RolloutSpecs
  <2> QED
    BY <1>1, <1>2, <2>5, <2>8, <2>9, DeploymentValid
<1> QED
  BY <1>2, <1>3, <1>4

LEMMA ManifestNamed ==
    ASSUME NEW k \in Kinds, NEW r, r.name = Name
    PROVE  /\ Manifest(k, r, "deployment").selector = IdentityLabel(Name)
           /\ "binding" \in Generated(k, r.spec) => Manifest(k, r, "binding").roleRef = Name
<1>1. Manifest(k, r, "deployment").selector = IdentityLabel(Name)
  <2>1. PICK ports, probe, pulsar :
          Manifest(k, r, "deployment") = Deployment(r, ports, probe, pulsar)
    BY DeploymentManifest
  <2> QED
    BY <2>1 DEF Deployment
<1>2. ASSUME "binding" \in Generated(k, r.spec)
      PROVE  Manifest(k, r, "binding").roleRef = Name
  <2>1. k \in {"Executor", "Binoculars"}
    BY <1>2 DEF Generated, Kinds, generateArmadaServerInstallComponents,
       generateLookoutInstallComponents, generateSchedulerInstallComponents,
       generateEventIngesterComponents, generateLookoutIngesterComponents,
       generateSchedulerIngesterComponents, IngesterComponents, newProfilingComponents,
       OwnServiceAccount, Given
  <2>2. Manifest(k, r, "binding") \in
          {createClusterRoleBinding(r), generateBinocularsClusterRoleBinding(r)}
    BY <2>1 DEF Manifest, ExecutorManifest, BinocularsManifest
  <2> QED
    BY <2>2 DEF createClusterRoleBinding, generateBinocularsClusterRoleBinding, Binding
<1> QED
  BY <1>1, <1>2

LEMMA NamedStep ==
    ASSUME WInv, Named, [Next]_vars
    PROVE  Named'
<1>1. CASE store' = store
  BY <1>1 DEF Named, Stored
<1>2. CASE \E c : store' = [d \in DOMAIN store \ {c} |-> store[d]]
  BY <1>2 DEF Named, Stored
<1>3. CASE UpsertStep /\ Wanted(This) /\ Put(This, Sent(This))
  <2>1. kind \in Kinds /\ hand.name = Name
    BY <1>3, StepOf DEF UpsertStep, At
  <2>2. "deployment" \in Mutable /\ "binding" \in Mutable
    BY DEF Mutable, Components, Jobs
  <2>3. CASE This = "deployment"
    <3>1. Sent(This) = Manifest(kind, hand, "deployment")
      BY <2>2, <2>3 DEF Sent
    <3>2. Sent(This).selector = IdentityLabel(Name)
      BY <2>1, <3>1, ManifestNamed
    <3> QED
      BY <1>3, <2>3, <3>2 DEF Put, Named, Stored
  <2>4. CASE This = "binding"
    <3>1. Sent(This) = Manifest(kind, hand, "binding")
      BY <2>2, <2>4 DEF Sent
    <3>2. Sent(This).roleRef = Name
      BY <1>3, <2>1, <2>4, <3>1, ManifestNamed DEF Wanted
    <3> QED
      BY <1>3, <2>4, <3>2 DEF Put, Named, Stored
  <2>5. CASE This \notin {"deployment", "binding"}
    BY <1>3, <2>5 DEF Put, Named, Stored
  <2> QED
    BY <2>3, <2>4, <2>5
<1>4. CASE (PruneStep \/ PartitionStep) /\ Put(This, Sent(This))
  <2>1. This \notin {"deployment", "binding"}
    BY <1>4, StepOf DEF PruneStep, PartitionStep, At, This, StepsOf
  <2> QED
    BY <1>4, <2>1 DEF Put, Named, Stored
<1>5. CASE (\E q \in Requests[kind] : Create(q) \/ Edit(q)) \/ Dequeue \/ FinalizeStep
             \/ ParseStep \/ OtherStep \/ CutShort \/ Resync \/ StartPod
             \/ (\E p \in pods : ReplacePod(p) \/ StopPod(p)) \/ UNCHANGED vars
  <2>1. store' = store
    BY <1>5 DEF Create, Edit, Dequeue, FinalizeStep, ParseStep, OtherStep, CutShort, Resync,
                StartPod, ReplacePod, StopPod, vars
  <2> QED
    BY <1>1, <2>1
<1>6. CASE UpsertStep \/ PruneStep \/ PartitionStep
  BY <1>1, <1>2, <1>3, <1>4, <1>6 DEF UpsertStep, PruneStep, PartitionStep, Write
<1> QED
  BY <1>5, <1>6 DEF Next, Operator

-----------------------------------------------------------------------------
(***************************************************************************)
(* What it makes of the objects that come after the Deployment, and of     *)
(* those that are Jobs.                                                    *)
(***************************************************************************)
LEMMA GeneratedKinds ==
    ASSUME NEW k \in Kinds, NEW spec
    PROVE  /\ "service" \in Generated(k, spec) => k \in ServiceKinds
           /\ "migration" \in Generated(k, spec) => k \in {"Lookout", "Scheduler"}
           /\ "partition" \in Generated(k, spec) => k = "Lookout"
           /\ {"waitForPulsar", "initPulsar"} \cap Generated(k, spec) # {} => k = "ArmadaServer"
  BY DEF Generated, Kinds, ServiceKinds, generateArmadaServerInstallComponents,
     generateLookoutInstallComponents, generateSchedulerInstallComponents,
     generateExecutorInstallComponents, generateBinocularsInstallComponents,
     generateEventIngesterComponents, generateLookoutIngesterComponents,
     generateSchedulerIngesterComponents, IngesterComponents, newProfilingComponents,
     OwnServiceAccount, Given

\* A Service with ports in range is taken unless two are the same.
LEMMA ServiceValid ==
    ASSUME NEW k \in ServiceKinds, NEW r, r.spec.app \in Apps \ Malformed, InRange(k, r.spec)
    PROVE  Valid("service", Manifest(k, r, "service"))
             <=> ~ \E p, q \in UsedPorts(k) : p # q /\ Config(r)[p] = Config(r)[q]
<1> DEFINE object == Manifest(k, r, "service")
           config == Config(r)
           metric == Written[r.spec.app].metric
           Usable == PortsUsable(object.ports)
<1>1. Valid("service", object) <=> Usable
  BY DEF Valid, Ingresses, Jobs
<1>2. CASE k = "Executor"
  <2>1. object.ports = [metrics |-> metric]
    BY <1>2 DEF Manifest, ExecutorManifest, createExecutorService, Service
  <2>2. metric \in Ports
    BY <1>2, ConfigType, PortsType DEF InRange
  <2> HIDE DEF object, metric
  <2>3. Usable
    BY <2>1, <2>2 DEF PortsUsable
  <2>4. UsedPorts(k) = {"http"}
    BY <1>2 DEF UsedPorts
  <2> HIDE DEF Usable
  <2> QED
    BY <1>1, <2>3, <2>4 DEF object
<1>3. CASE k # "Executor"
  <2>1. object.ports = PortsOf(config, UsedPorts(k))
    <3>1. CASE k = "Lookout"
      BY <3>1 DEF Manifest, LookoutManifest, LookoutService, Service, Config, UsedPorts
    <3>2. CASE k \in {"ArmadaServer", "Binoculars", "Scheduler"}
      BY <3>2 DEF Manifest, ArmadaServerManifest, BinocularsManifest, SchedulerManifest,
                  CommonManifest, ApplicationService, Service, Config, UsedPorts
    <3> QED
      BY <1>3, <3>1, <3>2 DEF ServiceKinds
  <2>2. \A p \in UsedPorts(k) : config[p] \in Ports
    BY DEF InRange, Config
  <2> HIDE DEF object, config
  <2>3. Usable <=> ~ \E p, q \in UsedPorts(k) : p # q /\ config[p] = config[q]
    BY <2>1, <2>2 DEF PortsUsable, PortsOf
  <2> HIDE DEF Usable
  <2> QED
    BY <1>1, <2>3 DEF object, config
<1> QED
  BY <1>2, <1>3

LEMMA ProfilingValid ==
    ASSUME NEW k \in Kinds, NEW r, r.spec.app \in Apps \ Malformed, InRange(k, r.spec)
    PROVE  Valid("serviceProfiling", Manifest(k, r, "serviceProfiling"))
             <=> ~(Config(r).profiling < 1)
<1> DEFINE config == Config(r)
           object == Manifest(k, r, "serviceProfiling")
<1>1. object.ports = [p \in {"profiling"} |-> config[p]]
  BY DEF Manifest, ArmadaServerManifest, BinocularsManifest, ExecutorManifest,
         LookoutManifest, SchedulerManifest, CommonManifest, newProfilingService, Service,
         PortsOf, Config
<1>2. config.profiling \in Int /\ ~(config.profiling > MaxPort)
  BY ConfigType DEF InRange, Config
<1> HIDE DEF config, object
<1>3. config.profiling \in Ports <=> ~(config.profiling < 1)
  BY <1>2, PortsType
<1>4. PortsUsable(object.ports) <=> config.profiling \in Ports
  BY <1>1 DEF PortsUsable
<1>5. Valid("serviceProfiling", object) <=> PortsUsable(object.ports)
  BY DEF Valid, Ingresses, Jobs
<1> QED
  BY <1>3, <1>4, <1>5 DEF config, object

LEMMA IngressValid ==
    ASSUME NEW k \in Kinds, NEW r, r.spec.app \in Apps \ Malformed, InRange(k, r.spec),
           NEW c \in Ingresses, c \in Generated(k, r.spec),
           c = "ingressProfiling" => Config(r).profiling > 0
    PROVE  Valid(c, Manifest(k, r, c))
<1>1. /\ Config(r).profiling \in Int
      /\ Config(r).grpc = Config(r)["grpc"] /\ Config(r).http = Config(r)["http"]
  BY ConfigType DEF Config
<1>2. /\ ~(Config(r).profiling > MaxPort)
      /\ \A p \in UsedPorts(k) : Config(r)[p] \in Ports
  BY DEF InRange, Config
<1>3. Manifest(k, r, c).port \in Ports
  <2>1. CASE c = "ingressProfiling"
    BY <1>1, <1>2, <2>1, PortsType, ConnectionsOf
  <2>2. CASE c = "ingressGrpc"
    <3>1. {"grpc", "http"} \subseteq UsedPorts(k)
      BY <2>2, ConnectionsOf DEF UsedPorts
    <3> QED
      BY <1>1, <1>2, <2>2, <3>1, ConnectionsOf
  <2>3. CASE c = "ingressHttp"
    <3>1. "http" \in UsedPorts(k)
      BY <2>3, ConnectionsOf DEF UsedPorts
    <3> QED
      BY <1>1, <1>2, <2>3, <3>1, ConnectionsOf
  <2> QED
    BY <2>1, <2>2, <2>3 DEF Ingresses
<1> QED
  BY <1>3 DEF Valid, Ingresses, Jobs

LEMMA JobValid ==
    ASSUME NEW k \in Kinds, NEW r
    PROVE  /\ \A c \in {"migration", "partition"} : c \in Generated(k, r.spec) =>
                 (Valid(c, Manifest(k, r, c)) <=> Mounted(r.spec))
           /\ \A c \in {"waitForPulsar", "initPulsar"} : c \in Generated(k, r.spec) =>
                 Valid(c, Manifest(k, r, c))
           /\ k \in {"Lookout", "Scheduler"} =>
                 (Valid("cronJob", Manifest(k, r, "cronJob"))
                    <=> /\ Mounted(r.spec)
                        /\ k = "Scheduler" => r.spec.opt["schedule"] # "nil")
<1>1. \A object : \A c \in Jobs : Valid(c, object) <=> MountsHaveVolumes(object.pod)
  BY DEF Valid, Ingresses, Jobs
<1>2. \A object : Valid("cronJob", object)
                    <=> MountsHaveVolumes(object.pod) /\ object.schedule # "nil"
  BY DEF Valid, Ingresses, Jobs
<1>3. \A suffix : \A job \in {LikeTheService(r, suffix), OnItsOwn(r, suffix)} :
         MountsHaveVolumes(job.pod) <=> Mounted(r.spec)
  BY MountsOf DEF LikeTheService, OnItsOwn, Job
<1>4. ASSUME NEW c \in {"migration", "partition"}, c \in Generated(k, r.spec)
      PROVE  Valid(c, Manifest(k, r, c)) <=> Mounted(r.spec)
  <2>1. \E suffix : Manifest(k, r, c) \in {LikeTheService(r, suffix), OnItsOwn(r, suffix)}
    BY <1>4, GeneratedKinds
    DEF Manifest, LookoutManifest, SchedulerManifest, createLookoutMigrationJob,
        newSchedulerMigrationJob, createLookoutPartitionJobTableJob
  <2> QED
    BY <1>1, <1>3, <2>1 DEF Jobs
<1>5. ASSUME NEW c \in {"waitForPulsar", "initPulsar"}, c \in Generated(k, r.spec)
      PROVE  Valid(c, Manifest(k, r, c))
  <2>1. \E name : Manifest(k, r, c) = createArmadaServerMigrationJobs(r, name)
    BY <1>5, GeneratedKinds DEF Manifest, ArmadaServerManifest
  <2>2. MountsHaveVolumes(Manifest(k, r, c).pod)
    BY <2>1 DEF createArmadaServerMigrationJobs, Job, PodWith, MountsHaveVolumes
  <2> QED
    BY <1>1, <2>2 DEF Jobs
<1>6. ASSUME k \in {"Lookout", "Scheduler"}
      PROVE  Valid("cronJob", Manifest(k, r, "cronJob"))
               <=> Mounted(r.spec) /\ (k = "Scheduler" => r.spec.opt["schedule"] # "nil")
  <2>1. \A schedule : /\ MountsHaveVolumes(CronJob(r, schedule).pod) <=> Mounted(r.spec)
                      /\ CronJob(r, schedule).schedule = schedule
    <3>1. \A schedule : CronJob(r, schedule).pod = OnItsOwn(r, "db-pruner").pod
      BY DEF CronJob
    <3>2. \A schedule : CronJob(r, schedule).schedule = schedule
      BY DEF CronJob
    <3> QED
      BY <1>3, <3>1, <3>2
  <2>2. \E schedule : /\ Manifest(k, r, "cronJob") = CronJob(r, schedule)
                      /\ schedule # "nil" <=>
                            (k = "Scheduler" => r.spec.opt["schedule"] # "nil")
    <3>1. CASE k = "Scheduler"
      BY <3>1 DEF Manifest, SchedulerManifest, newSchedulerCronJob
    <3>2. CASE k = "Lookout"
      BY <3>2 DEF Manifest, LookoutManifest, createLookoutCronJob
    <3> QED
      BY <1>6, <3>1, <3>2
  <2> QED
    BY <1>2, <2>1, <2>2
<1> QED
  BY <1>4, <1>5, <1>6

-----------------------------------------------------------------------------
(***************************************************************************)
(* Which writes are refused.                                               *)
(***************************************************************************)
NoSchedule(c) == kind = "Scheduler" /\ c = "cronJob" /\ hand.spec.opt["schedule"] = "nil"

\* What the worker writes, it has the whole of, and what it writes after the
\* Deployment has ports in range.
LEMMA WritingIs ==
    ASSUME WInv, AInv, Writing
    PROVE  /\ kind \in Kinds /\ hand # None /\ hand.name = Name /\ This \in Names
           /\ hand.spec.app \in Apps \ Malformed /\ Profiled(hand)
           /\ This \in Serving => InRange(kind, hand.spec)
           /\ IF This = "cronJob" THEN kind \in {"Lookout", "Scheduler"}
              ELSE This \in Generated(kind, hand.spec)
<1>1. /\ pc # 0 /\ kind \in Kinds /\ hand # None
      /\ hand \in CustomResources(kind) /\ Plan[pc] \in StepsOf(kind) /\ hand.name = Name
      /\ \A c : At("upsert") /\ This = c => Plan[pc] = Upsert(c)
      /\ Plan[pc].op \in {"upsert", "partition", "prune"}
  BY StepOf DEF Writing, At
<1>2. Behind(Parse) /\ \A c \in Serving : Plan[pc] = Upsert(c) => Behind(Upsert("deployment"))
  BY <1>1, WritesAreOrdered
<1>3. hand.spec.app \in Apps \ Malformed /\ Profiled(hand)
  BY <1>1, <1>2 DEF AInv, Parsed, CustomResources, RolloutSpecs
<1>4. This \in Serving => InRange(kind, hand.spec)
  <2> SUFFICES ASSUME This \in Serving PROVE InRange(kind, hand.spec)
    OBVIOUS
  <2>1. At("upsert")
    BY <1>1 DEF At, StepsOf, This, Serving
  <2> QED
    BY <1>1, <1>2, <2>1 DEF AInv, Deployed
<1>5. /\ This \in Names
      /\ IF This = "cronJob" THEN kind \in {"Lookout", "Scheduler"}
         ELSE This \in Generated(kind, hand.spec)
  BY <1>1 DEF Writing, Wanted, At, StepsOf, This
<1> QED
  BY <1>1, <1>3, <1>4, <1>5

LEMMA Spelt ==
    ASSUME WInv, AInv, Writing, NEW c
    PROVE  /\ BadPorts(c) <=>
                \/ c = "deployment" /\ ~InRange(kind, hand.spec)
                \/ /\ c = "service"
                   /\ \E p, q \in UsedPorts(kind) : p # q /\ Config(hand)[p] = Config(hand)[q]
                \/ c = "serviceProfiling" /\ Config(hand).profiling < 1
           /\ BadMounts(c) <=>
                /\ c \in {"deployment", "cronJob"} \/ (c \in {"migration", "partition"} /\ ~Stored(c))
                /\ ~Mounted(hand.spec)
           /\ RefusedForGood(c) <=>
                \/ BadPorts(c) \/ BadMounts(c) \/ NoSchedule(c)
                \/ c = "extraBinding" /\ Stored(c) /\ store[c].roleRef # hand.spec.role
<1> DEFINE config == ParseCommonApplicationConfig(hand.spec.app)
           metric == Written[hand.spec.app].metric
<1>1. InRange(kind, hand.spec) <=>
        ~ \/ \E p \in UsedPorts(kind) : config[p] \notin Ports
          \/ config.profiling > MaxPort
          \/ kind = "Executor" /\ metric = 0
  <2> HIDE DEF config, metric
  <2> QED
    BY DEF InRange, config, metric
<1>2. Config(hand) = config
  BY DEF Config
<1>3. BadMounts(c) <=>
        /\ c \in {"deployment", "cronJob"} \/ (c \in {"migration", "partition"} /\ ~Stored(c))
        /\ ~Mounted(hand.spec)
  BY DEF BadMounts, Mounted
<1>4. RefusedForGood(c) <=>
        \/ BadPorts(c) \/ BadMounts(c) \/ NoSchedule(c)
        \/ c = "extraBinding" /\ Stored(c) /\ store[c].roleRef # hand.spec.role
  BY DEF RefusedForGood, NoSchedule
<1>5. BadPorts(c) <=>
        \/ c = "deployment" /\ ~InRange(kind, hand.spec)
        \/ /\ c = "service"
           /\ \E p, q \in UsedPorts(kind) : p # q /\ config[p] = config[q]
        \/ c = "serviceProfiling" /\ config.profiling < 1
  BY <1>1 DEF BadPorts
<1> QED
  BY <1>2, <1>3, <1>4, <1>5

\* A Job that is there is not sent again; every other object is taken for its
\* ports, its mounts and its schedule.
LEMMA ValidJudged ==
    ASSUME WInv, AInv, Writing, ~(Stored(This) /\ This \notin Mutable)
    PROVE  Valid(This, Manifest(kind, hand, This))
             <=> ~(BadPorts(This) \/ BadMounts(This) \/ NoSchedule(This))
<1>1. /\ kind \in Kinds /\ hand.name = Name /\ hand.spec.app \in Apps \ Malformed
      /\ Profiled(hand)
      /\ This \in Serving => InRange(kind, hand.spec)
      /\ IF This = "cronJob" THEN kind \in {"Lookout", "Scheduler"}
         ELSE This \in Generated(kind, hand.spec)
  BY WritingIs
<1>2. /\ BadPorts(This) <=>
           \/ This = "deployment" /\ ~InRange(kind, hand.spec)
           \/ /\ This = "service"
              /\ \E p, q \in UsedPorts(kind) : p # q /\ Config(hand)[p] = Config(hand)[q]
           \/ This = "serviceProfiling" /\ Config(hand).profiling < 1
      /\ BadMounts(This) <=>
           /\ \/ This \in {"deployment", "cronJob"}
              \/ This \in {"migration", "partition"} /\ ~Stored(This)
           /\ ~Mounted(hand.spec)
  BY Spelt
<1>3. CASE This = "deployment"
  BY <1>1, <1>2, <1>3, DeploymentValid DEF NoSchedule
<1>4. CASE This = "service"
  <2>1. kind \in ServiceKinds /\ InRange(kind, hand.spec)
    BY <1>1, <1>4, GeneratedKinds DEF Serving
  <2> QED
    BY <1>1, <1>2, <1>4, <2>1, ServiceValid DEF NoSchedule
<1>5. CASE This = "serviceProfiling"
  <2>1. InRange(kind, hand.spec)
    BY <1>1, <1>5 DEF Serving
  <2> QED
    BY <1>1, <1>2, <1>5, <2>1, ProfilingValid DEF NoSchedule
<1>6. CASE This \in Ingresses
  <2>1. /\ InRange(kind, hand.spec) /\ This \in Generated(kind, hand.spec)
        /\ This = "ingressProfiling" => Config(hand).profiling > 0
    BY <1>1, <1>6 DEF Serving, Ingresses, Profiled
  <2>2. Valid(This, Manifest(kind, hand, This))
    BY <1>1, <1>6, <2>1, IngressValid
  <2> QED
    BY <1>2, <1>6, <2>2 DEF NoSchedule, Ingresses
<1>7. CASE This \in {"migration", "partition"}
  <2>1. ~Stored(This)
    BY <1>7 DEF Mutable, Jobs
  <2>2. Valid(This, Manifest(kind, hand, This)) <=> Mounted(hand.spec)
    BY <1>1, <1>7, JobValid
  <2> QED
    BY <1>2, <1>7, <2>1, <2>2 DEF NoSchedule
<1>8. CASE This \in {"waitForPulsar", "initPulsar"}
  <2>1. Valid(This, Manifest(kind, hand, This))
    BY <1>1, <1>8, JobValid
  <2> QED
    BY <1>2, <1>8, <2>1 DEF NoSchedule
<1>9. CASE This = "cronJob"
  <2>1. Valid("cronJob", Manifest(kind, hand, "cronJob"))
          <=> /\ Mounted(hand.spec)
              /\ kind = "Scheduler" => hand.spec.opt["schedule"] # "nil"
    BY <1>1, <1>9, JobValid
  <2> QED
    BY <1>2, <1>9, <2>1 DEF NoSchedule
<1>10. CASE /\ This \notin {"deployment", "service", "serviceProfiling", "cronJob"}
            /\ This \notin Ingresses /\ This \notin Jobs
  <2>1. Valid(This, Manifest(kind, hand, This))
    BY <1>10 DEF Valid
  <2>2. This \notin {"migration", "partition"}
    BY <1>10 DEF Jobs
  <2> QED
    BY <1>2, <1>10, <2>1, <2>2 DEF NoSchedule
<1> QED
  BY <1>3, <1>4, <1>5, <1>6, <1>7, <1>8, <1>9, <1>10 DEF Jobs

\* Of what may not change only the ClusterRole of an additional binding does.
LEMMA ImmutableJudged ==
    ASSUME WInv, AInv, Writing, Stored(This), This \in Mutable
    PROVE  Immutable(This, Manifest(kind, hand, This)) = Immutable(This, store[This])
             <=> ~(This = "extraBinding" /\ store[This].roleRef # hand.spec.role)
<1> DEFINE new == Manifest(kind, hand, This)
<1>1. /\ kind \in Kinds /\ hand.name = Name
      /\ This # "cronJob" => This \in Generated(kind, hand.spec)
  BY WritingIs
<1>2. CASE This = "deployment"
  <2>1. new.selector = store[This].selector
    BY <1>1, <1>2, ManifestNamed DEF AInv, Named
  <2> HIDE DEF new
  <2>2. Immutable(This, new) = Immutable(This, store[This])
    BY <1>2, <2>1 DEF Immutable, Jobs
  <2> QED
    BY <1>2, <2>2 DEF new
<1>3. CASE This = "binding"
  <2>1. new.roleRef = store[This].roleRef
    BY <1>1, <1>3, ManifestNamed DEF AInv, Named
  <2> HIDE DEF new
  <2>2. Immutable(This, new) = Immutable(This, store[This])
    BY <1>3, <2>1 DEF Immutable, Jobs
  <2> QED
    BY <1>3, <2>2 DEF new
<1>4. CASE This = "extraBinding"
  <2>1. kind = "Executor"
    BY <1>1, <1>4, ExtraBindingOf
  <2>2. new = createAdditionalClusterRoleBindings(hand)
    BY <1>4, <2>1 DEF Manifest, ExecutorManifest
  <2>3. new.roleRef = hand.spec.role
    BY <2>2 DEF createAdditionalClusterRoleBindings, Binding
  <2> HIDE DEF new
  <2>4. \A object : Immutable(This, object) = <<object.roleRef>>
    BY <1>4 DEF Immutable, Jobs
  <2>5. Immutable(This, new) = Immutable(This, store[This])
          <=> hand.spec.role = store[This].roleRef
    BY <2>3, <2>4
  <2> QED
    BY <1>4, <2>5 DEF new
<1>5. CASE This \notin {"deployment", "binding", "extraBinding"}
  <2>1. This \notin Jobs
    BY DEF Mutable
  <2> HIDE DEF new
  <2>2. Immutable(This, new) = Immutable(This, store[This])
    BY <1>5, <2>1 DEF Immutable
  <2> QED
    BY <1>5, <2>2 DEF new
<1> QED
  BY <1>2, <1>3, <1>4, <1>5

LEMMA WritesJudged ==
    ASSUME WInv, AInv, Writing
    PROVE  Accepted(This) <=> ~RefusedForGood(This)
<1> DEFINE new == Manifest(kind, hand, This)
<1>1. RefusedForGood(This) <=>
        \/ BadPorts(This) \/ BadMounts(This) \/ NoSchedule(This)
        \/ This = "extraBinding" /\ Stored(This) /\ store[This].roleRef # hand.spec.role
  BY Spelt
<1>2. CASE Stored(This) /\ This \notin Mutable
  <2>1. This \notin {"deployment", "service", "serviceProfiling", "cronJob", "extraBinding"}
    BY <1>2 DEF Mutable, Components, Jobs
  <2>2. ~BadPorts(This) /\ ~BadMounts(This) /\ ~NoSchedule(This)
    BY <1>2, <2>1, Spelt DEF NoSchedule
  <2> QED
    BY <1>1, <1>2, <2>1, <2>2 DEF Accepted
<1>3. CASE ~(Stored(This) /\ This \notin Mutable)
  <2>1. Accepted(This) <=>
          Valid(This, new) /\ (Stored(This) => Immutable(This, new) = Immutable(This, store[This]))
    BY <1>3 DEF Accepted, Sent
  <2>2. Valid(This, new) <=> ~(BadPorts(This) \/ BadMounts(This) \/ NoSchedule(This))
    BY <1>3, ValidJudged
  <2>3. Stored(This) =>
          (Immutable(This, new) = Immutable(This, store[This])
             <=> ~(This = "extraBinding" /\ store[This].roleRef # hand.spec.role))
    BY <1>3, ImmutableJudged
  <2> HIDE DEF new
  <2> QED
    BY <1>1, <2>1, <2>2, <2>3
<1> QED
  BY <1>2, <1>3

LEMMA AInvHolds == Spec => []AInv
<1>1. Init => AInv
  BY DEF Init, AInv, Parsed, Deployed, Named, Stored
<1>2. WInv /\ AInv /\ [Next]_vars => AInv'
  BY ParsedStep, DeployedStep, NamedStep DEF AInv
<1> QED
  BY <1>1, <1>2, WInvHolds, PTL DEF Spec

\* Whatever users change, and whatever an earlier spec has left behind, the API
\* server refuses exactly the writes that RefusedForGood lists, for the labels,
\* selectors, immutable fields, ports, mounts and schedules of the objects: the
\* upserts copy no other immutable field that changes, the pods stay in the
\* selector of their Deployment, every table parses before it writes, and
\* Services and ingresses come after the Deployment that ports out of range stop.
THEOREM NoWriteRefused == Spec => []WritesAccepted
<1>1. WInv /\ AInv => WritesAccepted
  BY WritesJudged DEF WritesAccepted
<1> QED
  BY <1>1, WInvHolds, AInvHolds, PTL

\* With the webhooks on no builder follows a nil pointer but that of the ingress
\* which host names call for, in the first version of a custom resource as in one
\* that an edit took a field out of; and a reconcile that does panic, with or
\* without them, has written no object: the tables parse and generate before
\* they write.
THEOREM NilSafety == Spec => []NilSafe
<1>1. WInv /\ AInv => NilSafe
  <2> SUFFICES ASSUME WInv, AInv, hand # None, NilDereference(kind, hand.spec)
               PROVE  /\ webhooks => NilIngress(kind, hand.spec)
                      /\ Plan[pc].op \in {"finalize", "parse"}
    BY DEF NilSafe
  <2>1. kind \in Kinds /\ hand.spec \in RolloutSpecs /\ pc # 0
    BY DEF WInv, WorkType, CustomResources
  <2>2. webhooks => NilIngress(kind, hand.spec)
    BY <2>1, DefaultsLeaveIngress DEF WInv, Filled
  <2>3. ~Behind(Parse)
    BY DEF AInv, Parsed
  <2> QED
    BY <2>1, <2>2, <2>3, WritesAreOrdered
<1> QED
  BY <1>1, WInvHolds, AInvHolds, PTL

=============================================================================
