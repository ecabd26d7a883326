----------------------------- MODULE ObjectsProofs -----------------------------
(***************************************************************************)
(* At rest the objects are what the builders make of the spec, and they    *)
(* fit together: for every kind, every set of requests, every              *)
(* configuration and every bound.                                          *)
(***************************************************************************)
EXTENDS WritesProofs

-----------------------------------------------------------------------------
(***************************************************************************)
(* What the builders read of a custom resource.                            *)
(***************************************************************************)
\* They look at its name, its labels and its spec, not at its version or its
\* finalizer.
LEMMA ManifestReads ==
    ASSUME NEW k \in Kinds, NEW c, NEW r, NEW s,
           r.name = s.name, r.labels = s.labels, r.spec = s.spec
    PROVE  Manifest(k, r, c) = Manifest(k, s, c)
<1> DEFINE config == ParseCommonApplicationConfig(r.spec.app)
<1>1. config = ParseCommonApplicationConfig(s.spec.app)
  OBVIOUS
<1> HIDE DEF config
<1>2. /\ \A name, account, file, volumes, mounts :
            PodWith(name, r, account, file, volumes, mounts)
              = PodWith(name, s, account, file, volumes, mounts)
      /\ createVolumes(r) = createVolumes(s) /\ createVolumeMounts(r) = createVolumeMounts(s)
      /\ AccountName(r) = AccountName(s)
      /\ \A flag : Says(r, flag) = Says(s, flag)
      /\ \A suffix : Suffixed(r, suffix) = Suffixed(s, suffix)
  BY DEF PodWith, createVolumes, createVolumeMounts, AccountName, Says, Suffixed
<1>3. /\ \A name : AnyPod(name, r) = AnyPod(name, s)
      /\ Pulsar(r) = Pulsar(s) /\ GetServerScheme(r) = GetServerScheme(s)
      /\ \A protocol : Secured(r, protocol) = Secured(s, protocol)
      /\ \A name, pod : Job(name, r, pod) = Job(name, s, pod)
      /\ \A name, ports : Service(name, r, ports) = Service(name, s, ports)
  BY <1>2 DEF AnyPod, Pulsar, createPulsarVolumes, createPulsarVolumeMounts, GetServerScheme,
              Secured, Job, Service
<1>4. /\ \A ports, probe, pulsar :
            Deployment(r, ports, probe, pulsar) = Deployment(s, ports, probe, pulsar)
      /\ \A suffix : LikeTheService(r, suffix) = LikeTheService(s, suffix)
      /\ \A suffix : OnItsOwn(r, suffix) = OnItsOwn(s, suffix)
      /\ \A port, protocol : IngressGrpc(r, port) = IngressGrpc(s, port)
                             /\ IngressHttp(r, port) = IngressHttp(s, port)
      /\ \A selector : ServiceMonitor(r, selector) = ServiceMonitor(s, selector)
      /\ PrometheusRule(r) = PrometheusRule(s)
  BY <1>2, <1>3 DEF Deployment, LikeTheService, OnItsOwn, IngressGrpc, IngressHttp, ServiceMonitor,
              PrometheusRule
<1>13. \A schedule : CronJob(r, schedule) = CronJob(s, schedule)
  BY <1>4 DEF CronJob
<1>5. CommonManifest(r, config, c) = CommonManifest(s, config, c)
  BY <1>2, <1>3 DEF CommonManifest, CreateSecret, ServiceAccount, ApplicationService,
                    newProfilingService, newProfilingIngress
<1>6. ArmadaServerManifest(r, config, c) = ArmadaServerManifest(s, config, c)
  BY <1>2, <1>3, <1>4, <1>5
  DEF ArmadaServerManifest, createArmadaServerDeployment, createServerIngressGRPC,
      createServerIngressHTTP, createServerPodDisruptionBudget, createServerPrometheusRule,
      createServerServiceMonitor, createArmadaServerMigrationJobs
<1>7. BinocularsManifest(r, config, c) = BinocularsManifest(s, config, c)
  BY <1>2, <1>3, <1>4, <1>5
  DEF BinocularsManifest, createBinocularsDeployment, createBinocularsIngressGrpc,
      createBinocularsIngressHttp, createBinocularsClusterRole,
      generateBinocularsClusterRoleBinding
<1>8. ExecutorManifest(r, config, c) = ExecutorManifest(s, config, c)
  BY <1>2, <1>3, <1>4, <1>5
  DEF ExecutorManifest, createExecutorDeployment, createExecutorService, createClusterRole,
      createClusterRoleBinding, createAdditionalClusterRoleBindings,
      createExecutorPrometheusRule, createServiceMonitor
<1>9. LookoutManifest(r, config, c) = LookoutManifest(s, config, c)
  BY <1>2, <1>3, <1>4, <1>5, <1>13
  DEF LookoutManifest, createLookoutDeployment, LookoutService, createLookoutIngressHttp,
      createLookoutServiceMonitor, createLookoutMigrationJob,
      createLookoutPartitionJobTableJob, createLookoutCronJob
<1>10. SchedulerManifest(r, config, c) = SchedulerManifest(s, config, c)
  BY <1>2, <1>3, <1>4, <1>5, <1>13
  DEF SchedulerManifest, newSchedulerDeployment, newSchedulerIngressGRPC,
      newSchedulerPrometheusRule, newSchedulerServiceMonitor, newSchedulerMigrationJob,
      newSchedulerCronJob
<1>11. IngesterDeployment(r, config) = IngesterDeployment(s, config)
  BY <1>3, <1>4 DEF IngesterDeployment
<1>12. IngesterDeploymentOf(k, r, config) = IngesterDeploymentOf(k, s, config)
  BY <1>11 DEF IngesterDeploymentOf, createEventIngesterDeployment,
              createLookoutIngesterDeployment, createSchedulerIngesterDeployment
<1> QED
  BY <1>1, <1>5, <1>6, <1>7, <1>8, <1>9, <1>10, <1>12 DEF Manifest, config

-----------------------------------------------------------------------------
(***************************************************************************)
(* What the objects of one custom resource say of each other.              *)
(***************************************************************************)
Serves(ports, config, names) == \A p \in names : p \in DOMAIN ports /\ ports[p] = config[p]

LEMMA ContainersServe ==
    ASSUME NEW config, NEW names
    PROVE  /\ Serves(newContainerPorts(config, names), config, names)
           /\ config.profiling > 0 =>
                Serves(newContainerPorts(config, names), config, {"profiling"})
<1>1. config.profiling > 0 => "profiling" \in DOMAIN newContainerPorts(config, names)
  BY DEF newContainerPorts
<1>2. \A p \in DOMAIN newContainerPorts(config, names) :
         newContainerPorts(config, names)[p] = config[p]
  BY DEF newContainerPorts
<1>3. names \subseteq DOMAIN newContainerPorts(config, names)
  BY DEF newContainerPorts
<1> QED
  BY <1>1, <1>2, <1>3 DEF Serves

\* The pods run under the account, mount the Secret, and listen on the ports.
LEMMA PodSays ==
    ASSUME NEW k \in Kinds, NEW r
    PROVE  LET pod == Manifest(k, r, "deployment").template
           IN  /\ pod.pod = AnyPod(r.name, r)
               /\ pod.probe # "none" => "http" \in DOMAIN pod.ports
               /\ k \in ServiceKinds => Serves(pod.ports, Config(r), {"http"})
               /\ k \in {"ArmadaServer", "Binoculars", "Scheduler"} =>
                     Serves(pod.ports, Config(r), {"grpc", "metrics"})
               /\ k = "Lookout" => Serves(pod.ports, Config(r), {"metrics"})
               /\ k = "Executor" =>
                     /\ "metrics" \in DOMAIN pod.ports
                     /\ pod.ports["metrics"] = Written[r.spec.app].metric
               /\ k = "Scheduler" /\ Config(r).profiling > 0 =>
                     Serves(pod.ports, Config(r), {"profiling"})
<1> DEFINE config == Config(r)
           PodOf(ports, probe, pulsar) == Deployment(r, ports, probe, pulsar).template
<1>1. \A ports, probe, pulsar : /\ PodOf(ports, probe, pulsar).pod = AnyPod(r.name, r)
                                /\ PodOf(ports, probe, pulsar).ports = ports
                                /\ PodOf(ports, probe, pulsar).probe = probe
  BY DEF Deployment
<1>2. /\ Serves(newContainerPortsAll(config), config, {"grpc", "http", "metrics"})
      /\ config.profiling > 0 => Serves(newContainerPortsAll(config), config, {"profiling"})
      /\ Serves(newContainerPortsHTTPWithMetrics(config), config, {"http", "metrics"})
      /\ Serves(newContainerPorts(config, {"http"}), config, {"http"})
  <2> HIDE DEF config
  <2> QED
    BY ContainersServe DEF newContainerPortsAll, newContainerPortsHTTPWithMetrics
<1>3. LET ports == MergeMaps(newContainerPorts(config, {"http"}),
                             [metrics |-> Written[r.spec.app].metric])
      IN  /\ Serves(ports, config, {"http"})
          /\ "metrics" \in DOMAIN ports /\ ports["metrics"] = Written[r.spec.app].metric
  <2> DEFINE first == newContainerPorts(config, {"http"})
             metric == Written[r.spec.app].metric
  <2>1. Serves(first, config, {"http"})
    BY <1>2
  <2> HIDE DEF first, metric, config
  <2>2. LET ports == MergeMaps(first, [metrics |-> metric])
        IN  /\ Serves(ports, config, {"http"})
            /\ "metrics" \in DOMAIN ports /\ ports["metrics"] = metric
    BY <2>1 DEF Serves, MergeMaps
  <2> QED
    BY <2>2 DEF first, metric
<1> HIDE DEF config, PodOf
<1>4. \A names : \A p \in names : \A ports :
         Serves(ports, config, names) => Serves(ports, config, {p})
  BY DEF Serves
<1>5. \A ports : Serves(ports, config, {"http"}) => "http" \in DOMAIN ports
  BY DEF Serves
<1>6. CASE k = "Executor"
  <2>1. Manifest(k, r, "deployment").template =
          PodOf(MergeMaps(newContainerPorts(config, {"http"}),
                        [metrics |-> Written[r.spec.app].metric]), "HTTP", NoPulsar)
    BY <1>6 DEF Manifest, ExecutorManifest, createExecutorDeployment, config, Config, PodOf
  <2> QED
    BY <1>1, <1>3, <1>5, <1>6, <2>1 DEF config
<1>7. CASE k = "Lookout"
  <2>1. Manifest(k, r, "deployment").template =
          PodOf(newContainerPortsHTTPWithMetrics(config), GetServerScheme(r), NoPulsar)
    BY <1>7 DEF Manifest, LookoutManifest, createLookoutDeployment, config, Config, PodOf
  <2>2. LET ports == newContainerPortsHTTPWithMetrics(config)
        IN  Serves(ports, config, {"http"}) /\ Serves(ports, config, {"metrics"})
    BY <1>2, <1>4
  <2> QED
    BY <1>1, <1>5, <1>7, <2>1, <2>2 DEF config
<1>8. CASE k \in {"ArmadaServer", "Binoculars", "Scheduler"}
  <2>1. \E probe, pulsar : Manifest(k, r, "deployment").template =
          PodOf(newContainerPortsAll(config), probe, pulsar)
    BY <1>8 DEF Manifest, ArmadaServerManifest, BinocularsManifest, SchedulerManifest,
       createArmadaServerDeployment, createBinocularsDeployment, newSchedulerDeployment,
       config, Config, PodOf
  <2>2. LET ports == newContainerPortsAll(config)
        IN  Serves(ports, config, {"http"}) /\ Serves(ports, config, {"grpc", "metrics"})
    BY <1>2 DEF Serves
  <2> QED
    BY <1>1, <1>2, <1>5, <1>8, <2>1, <2>2 DEF config
<1>9. CASE k \in {"EventIngester", "LookoutIngester", "SchedulerIngester"}
  <2>1. \E ports, pulsar : Manifest(k, r, "deployment").template = PodOf(ports, "none", pulsar)
    BY <1>9 DEF Manifest, IngesterDeploymentOf, IngesterDeployment,
       createEventIngesterDeployment, createLookoutIngesterDeployment,
       createSchedulerIngesterDeployment, config, Config, PodOf
  <2>2. k \notin ServiceKinds
    BY <1>9 DEF ServiceKinds
  <2> QED
    BY <1>1, <1>9, <2>1, <2>2
<1> QED
  BY <1>6, <1>7, <1>8, <1>9 DEF Kinds

\* The Services have the names the ingresses send to and the ports they send to,
\* and the ServiceMonitors their labels.
LEMMA ServicesSay ==
    ASSUME NEW k \in ServiceKinds, NEW r
    PROVE  LET service == Manifest(k, r, "service")
               profiling == Manifest(k, r, "serviceProfiling")
           IN  /\ service.name = r.name /\ service.labels = AllLabels(r.name, r.labels)
               /\ k \in {"ArmadaServer", "Binoculars", "Scheduler"} =>
                     Serves(service.ports, Config(r), {"grpc", "http", "metrics"})
               /\ k = "Lookout" => Serves(service.ports, Config(r), {"http", "metrics"})
               /\ k = "Executor" => service.ports = [metrics |-> Written[r.spec.app].metric]
               /\ profiling.name = Suffixed(r, "profiling")
               /\ Serves(profiling.ports, Config(r), {"profiling"})
<1> DEFINE config == Config(r)
<1>1. \A names : Serves(PortsOf(config, names), config, names)
  BY DEF Serves, PortsOf
<1>2. \A name, ports : /\ Service(name, r, ports).name = name
                       /\ Service(name, r, ports).labels = AllLabels(r.name, r.labels)
                       /\ Service(name, r, ports).ports = ports
  BY DEF Service
<1> HIDE DEF config
<1>3. Manifest(k, r, "serviceProfiling")
        = Service(Suffixed(r, "profiling"), r, PortsOf(config, {"profiling"}))
  BY DEF Manifest, ArmadaServerManifest, BinocularsManifest, ExecutorManifest, LookoutManifest,
         SchedulerManifest, CommonManifest, newProfilingService, config, Config, ServiceKinds
<1>4. k \in {"ArmadaServer", "Binoculars", "Scheduler"} => Manifest(k, r, "service")
        = Service(r.name, r, PortsOf(config, {"grpc", "http", "metrics"}))
  BY DEF Manifest, ArmadaServerManifest, BinocularsManifest, SchedulerManifest, CommonManifest,
         ApplicationService, config, Config
<1>5. k = "Lookout" => Manifest(k, r, "service")
        = Service(r.name, r, PortsOf(config, {"http", "metrics"}))
  BY DEF Manifest, LookoutManifest, LookoutService, config, Config
<1>6. k = "Executor" => Manifest(k, r, "service")
        = Service(r.name, r, [metrics |-> Written[r.spec.app].metric])
  BY DEF Manifest, ExecutorManifest, createExecutorService
<1> QED
  BY <1>1, <1>2, <1>3, <1>4, <1>5, <1>6 DEF config, ServiceKinds

-----------------------------------------------------------------------------
(***************************************************************************)
(* What the tables upsert.                                                 *)
(***************************************************************************)
Upserts(p, c) == \E i \in 1..Len(p) : p[i] = Upsert(c)

LEMMA UpsertsAppended ==
    ASSUME NEW S, NEW u \in Seq(S), NEW v \in Seq(S), NEW c, Upserts(v, c)
    PROVE  Upserts(u \o v, c)
<1>1. /\ Len(u) \in Nat /\ Len(v) \in Nat /\ Len(u \o v) = Len(u) + Len(v)
      /\ \A i \in 1..Len(v) : (u \o v)[Len(u) + i] = v[i]
  OBVIOUS
<1>2. PICK i \in 1..Len(v) : v[i] = Upsert(c)
  BY DEF Upserts
<1>3. Len(u) + i \in 1..Len(u \o v)
  BY <1>1
<1> QED
  BY <1>1, <1>2, <1>3 DEF Upserts

\* The tables walk every component that another one relies on: the Secret and
\* the Deployment, a Service where there is one, the Scheduler's profiling, the
\* roles of the Executor.
LEMMA TablesUpsert ==
    ASSUME NEW k \in Kinds
    PROVE  /\ Upserts(Reconcile(k), "secret") /\ Upserts(Reconcile(k), "deployment")
           /\ k \in ServiceKinds => Upserts(Reconcile(k), "service")
           /\ k = "Scheduler" => Upserts(Reconcile(k), "serviceProfiling")
           /\ k = "Executor" => /\ Upserts(Reconcile(k), "clusterRole")
                                /\ Upserts(Reconcile(k), "binding")
<1> USE StepsOfTables
<1>1. Upserts(Reconcile(k), "secret") /\ Upserts(Reconcile(k), "deployment")
  BY PlansAreOrdered DEF Ordered, Upserts
<1>2. /\ Upserts(ExecutorReconcile, "service") /\ Upserts(ExecutorReconcile, "clusterRole")
      /\ Upserts(ExecutorReconcile, "binding") /\ Upserts(BinocularsReconcile, "service")
  BY DEF Upserts, ExecutorReconcile, BinocularsReconcile
<1> DEFINE start == <<Finalize, Parse, Upsert("serviceAccount"), Upsert("secret")>>
<1>3. CASE k = "Lookout"
  <2> DEFINE rest == <<Upsert("deployment"), Upsert("service"), Upsert("ingressHttp"),
                       Step("prune", "cronJob"), Upsert("serviceMonitor"),
                       Step("partition", "partition"), Step("status", "partition")>>
  <2>1. start \o JobRun("migration") \in Seq(StepsOf(k)) /\ rest \in Seq(StepsOf(k))
    BY <1>3
  <2>2. Upserts(rest, "service")
    BY DEF Upserts
  <2> HIDE DEF rest, start
  <2>3. Upserts((start \o JobRun("migration")) \o rest, "service")
    BY <2>1, <2>2, UpsertsAppended
  <2> QED
    BY <1>1, <1>3, <2>3 DEF Reconcile, LookoutReconcile, rest, start
<1>4. CASE k = "Scheduler"
  <2> DEFINE rest == <<Upsert("deployment"), Upsert("service"), Upsert("serviceProfiling"),
                       Upsert("ingressGrpc"), Upsert("ingressProfiling"),
                       Upsert("serviceMonitor"), Upsert("prometheusRule"),
                       Step("prune", "cronJob")>>
  <2>1. start \o JobRun("migration") \in Seq(StepsOf(k)) /\ rest \in Seq(StepsOf(k))
    BY <1>4
  <2>2. Upserts(rest, "service") /\ Upserts(rest, "serviceProfiling")
    BY DEF Upserts
  <2> HIDE DEF rest, start
  <2>3. \A c : Upserts(rest, c) => Upserts((start \o JobRun("migration")) \o rest, c)
    BY <2>1, UpsertsAppended
  <2>4. /\ Upserts((start \o JobRun("migration")) \o rest, "service")
        /\ Upserts((start \o JobRun("migration")) \o rest, "serviceProfiling")
    BY <2>2, <2>3
  <2> QED
    BY <1>1, <1>4, <2>4 DEF Reconcile, SchedulerReconcile, rest, start
<1>5. CASE k = "ArmadaServer"
  <2> DEFINE rest == <<Upsert("deployment"), Upsert("service"), Upsert("ingressGrpc"),
                       Upsert("ingressHttp"), Upsert("podDisruptionBudget"),
                       Upsert("prometheusRule"), Upsert("serviceMonitor")>>
             jobs == <<Parse, Finalize, Upsert("serviceAccount"), Upsert("secret")>>
                       \o JobRun("waitForPulsar") \o JobRun("initPulsar")
  <2>1. jobs \in Seq(StepsOf(k)) /\ rest \in Seq(StepsOf(k))
    OBVIOUS
  <2>2. Upserts(rest, "service")
    BY DEF Upserts
  <2> HIDE DEF rest, jobs
  <2>3. Upserts(jobs \o rest, "service")
    BY <2>1, <2>2, UpsertsAppended
  <2> QED
    BY <1>1, <1>5, <2>3 DEF Reconcile, ArmadaServerReconcile, rest, jobs
<1> QED
  BY <1>1, <1>2, <1>3, <1>4, <1>5 DEF Reconcile, ServiceKinds

-----------------------------------------------------------------------------
(***************************************************************************)
(* What is at rest is current: the invariant.                              *)
(***************************************************************************)
\* The object of component c is what the builders make of r, or, of a component
\* that is written once, there.
Current(c, r) == Stored(c) /\ (c \in Mutable => store[c] = Manifest(kind, r, c))

\* The worker has written c of the copy in hand.
Due(c) ==
    \/ Passed(c) /\ Wanted(c)
    \/ c = "cronJob" /\ "pruning" \in hand.spec.on /\ Behind(Step("prune", "cronJob"))

Placed == hand # None => \A c \in Components : Due(c) => Current(c, hand)

\* What the worker has in hand is what is stored, unless there is a change in the
\* workqueue.
Kept == hand # None /\ ~queued => hand = cr

\* Who has an ingress for profiling has a port for it.
Profile ==
    /\ hand # None /\ Behind(Parse) => Profiled(hand)
    /\ AtRest => Profiled(cr)

\* The ServiceMonitors, which are written once, are the same in every version.
Monitored ==
    Stored("serviceMonitor") =>
        /\ store["serviceMonitor"].port = "metrics"
        /\ store["serviceMonitor"].selector \in {<< >>, IdentityLabel(Name)}

OInv == Kept /\ Placed /\ Profile /\ Monitored /\ ObjectsCurrent

-----------------------------------------------------------------------------
(***************************************************************************)
(* The steps of the worker.                                                *)
(***************************************************************************)
\* A step that goes on: what it has written, and everything else, is there.
LEMMA OnwardPlaces ==
    ASSUME WInv, OInv, Operator, pc # 0, Onward, pc' # 0 \/ ~queued', NEW c \in Components,
           \/ /\ Wanted(c)
              /\ \E i \in 1..Len(Plan) : i <= pc /\ Plan[i] = Upsert(c)
           \/ /\ c = "cronJob" /\ "pruning" \in hand.spec.on
              /\ \E i \in 1..Len(Plan) : i <= pc /\ Plan[i] = Step("prune", "cronJob")
    PROVE  /\ c \in DOMAIN store'
           /\ c \in Mutable => store'[c] = Manifest(kind, hand, c)
<1>1. /\ pc \in 1..Len(Plan) /\ hand # None /\ Plan[pc] \in StepsOf(kind)
      /\ \A i \in 1..Len(Plan) : Plan[i] \in StepsOf(kind)
      /\ \A d : At("upsert") /\ This = d => Plan[pc] = Upsert(d)
  BY StepOf, PlansAreGood DEF GoodPlan, Plan
<1>2. (\A i \in 1..Len(Plan) : i <= pc => i < pc \/ i = pc) /\ ~Retry
  BY <1>1 DEF Retry
<1>3. \/ Due(c)
      \/ Wanted(c) /\ Plan[pc] = Upsert(c)
      \/ c = "cronJob" /\ "pruning" \in hand.spec.on /\ Plan[pc] = Step("prune", "cronJob")
  BY <1>1, <1>2 DEF Due, Passed, Behind
<1>4. Due(c) => Current(c, hand)
  BY <1>1 DEF OInv, Placed
<1>5. CASE Put(This, Sent(This)) /\ This = c
  <2>1. c \in DOMAIN store' /\ store'[c] = Sent(c)
    BY <1>5 DEF Put
  <2>2. c \in Mutable => Sent(c) = Manifest(kind, hand, c)
    BY DEF Sent
  <2> QED
    BY <2>1, <2>2
<1>6. CASE Put(This, Sent(This)) /\ This # c /\ Due(c)
  BY <1>4, <1>6 DEF Put, Current, Stored
<1>7. CASE store' = store /\ Due(c)
  BY <1>4, <1>7 DEF Current, Stored
<1>8. CASE UpsertStep
  <2>1. Plan[pc] # Step("prune", "cronJob") /\ (Plan[pc] = Upsert(c) <=> This = c)
    BY <1>1, <1>8 DEF UpsertStep, At, Step, Upsert, This
  <2>2. \/ Wanted(This) /\ Put(This, Sent(This))
        \/ ~Wanted(This) /\ store' = store
    BY <1>1, <1>2, <1>8 DEF UpsertStep, Write
  <2> QED
    BY <1>3, <1>5, <1>6, <1>7, <2>1, <2>2
<1>9. CASE PruneStep
  <2>1. Plan[pc] # Upsert(c) /\ This = "cronJob"
    BY <1>1, <1>9 DEF PruneStep, At, Upsert, Step, This, StepsOf
  <2>2. CASE "pruning" \in hand.spec.on
    <3>1. Put(This, Sent(This))
      BY <1>1, <1>2, <1>9, <2>2 DEF PruneStep, Write
    <3> QED
      BY <1>3, <1>5, <1>6, <2>1, <3>1
  <2>3. CASE "pruning" \notin hand.spec.on
    <3>1. store' = [d \in DOMAIN store \ {"cronJob"} |-> store[d]]
      BY <1>9, <2>1, <2>3 DEF PruneStep
    <3>2. Due(c) /\ c # "cronJob"
      <4>1. Upsert("cronJob") \notin StepsOf(kind)
        BY DEF StepsOf, Upsert, Step
      <4>2. ~Passed("cronJob")
        BY <1>1, <4>1 DEF Passed
      <4> QED
        BY <1>3, <2>1, <2>3, <4>2 DEF Due
    <3> QED
      BY <1>4, <3>1, <3>2 DEF Current, Stored
  <2> QED
    BY <2>2, <2>3
<1>10. CASE PartitionStep
  <2>1. Plan[pc] # Upsert(c) /\ Plan[pc] # Step("prune", "cronJob")
    BY <1>10 DEF PartitionStep, At, Upsert, Step
  <2>2. store' = store \/ Put(This, Sent(This))
    BY <1>10 DEF PartitionStep, Write
  <2> QED
    BY <1>3, <1>5, <1>6, <1>7, <2>1, <2>2
<1>11. CASE FinalizeStep \/ ParseStep \/ OtherStep
  <2>1. Plan[pc] # Upsert(c) /\ Plan[pc] # Step("prune", "cronJob") /\ store' = store
    <3>1. /\ Plan[pc].op \in {"finalize", "parse", "wait", "status"}
          /\ store' = store
      BY <1>11 DEF FinalizeStep, ParseStep, OtherStep, At
    <3>2. Upsert(c).op = "upsert" /\ Step("prune", "cronJob").op = "prune"
      BY DEF Upsert, Step
    <3> QED
      BY <3>1, <3>2
  <2> QED
    BY <1>3, <1>7, <2>1
<1>12. ~Dequeue
  BY DEF Dequeue
<1> QED
  BY <1>8, <1>9, <1>10, <1>11, <1>12 DEF Operator

\* What is behind the worker once it has gone on.
LEMMA OnwardBehind ==
    ASSUME WInv, pc # 0, hand' = hand, pc' = pc + 1, UNCHANGED setting
    PROVE  /\ Plan' = Plan /\ kind' = kind
           /\ \A s : Behind(s)' => \E i \in 1..Len(Plan) : i <= pc /\ Plan[i] = s
           /\ \A s : Behind(s)' => Behind(s) \/ Plan[pc] = s
           /\ \A c : Passed(c)' => \E i \in 1..Len(Plan) : i <= pc /\ Plan[i] = Upsert(c)
<1>1. Plan' = Plan /\ kind' = kind /\ pc \in 1..Len(Plan)
  BY StepOf DEF setting, Plan
<1>2. \A i \in 1..Len(Plan) : i < pc + 1 => i <= pc /\ (i = pc \/ i < pc)
  BY <1>1
<1>3. \A s : Behind(s)' => \E i \in 1..Len(Plan) : i <= pc /\ Plan[i] = s
  BY <1>1, <1>2 DEF Behind
<1>4. \A s : Behind(s)' => Behind(s) \/ Plan[pc] = s
  BY <1>1, <1>2 DEF Behind
<1>5. \A c : Passed(c)' => \E i \in 1..Len(Plan) : i <= pc /\ Plan[i] = Upsert(c)
  BY <1>1, <1>2 DEF Passed
<1> QED
  BY <1>1, <1>3, <1>4, <1>5

\* What comes to rest has gone through the whole table with what is stored.
LEMMA LastPlaces ==
    ASSUME WInv, OInv, Operator, pc # 0, Onward, pc' = 0, ~queued', UNCHANGED <<setting, cr>>
    PROVE  ObjectsCurrent' /\ Profiled(cr)'
<1>1. /\ pc = Len(Plan) /\ hand = cr /\ Plan' = Plan /\ kind' = kind /\ cr' = cr
      /\ pc \in 1..Len(Plan) /\ Len(Plan) \in Nat /\ hand # None
  BY StepOf DEF Onward, OInv, Kept, setting, Plan
<1>2. \A i \in 1..Len(Plan) : i <= pc
  BY <1>1
<1>3. ObjectsCurrent'
  <2> SUFFICES ASSUME NEW c \in Components, Installed(c)' \/ (c = "cronJob" /\ Pruned')
               PROVE  /\ c \in DOMAIN store'
                      /\ c \in Mutable => store'[c] = Manifest(kind, hand, c)
    BY <1>1 DEF ObjectsCurrent, Stored
  <2>1. \/ Wanted(c) /\ \E i \in 1..Len(Plan) : Plan[i] = Upsert(c)
        \/ /\ c = "cronJob" /\ "pruning" \in hand.spec.on
           /\ \E i \in 1..Len(Plan) : Plan[i] = Step("prune", "cronJob")
    BY <1>1 DEF Installed, Pruned, Wanted
  <2> QED
    BY <1>2, <2>1, OnwardPlaces
<1>4. Profiled(hand)
  <2>1. Plan[pc].op \notin {"finalize", "parse"}
    BY <1>1, StepOf, PlansAreGood DEF GoodPlan, Plan
  <2>2. Behind(Parse)
    BY <1>1, <2>1, WritesAreOrdered
  <2> QED
    BY <1>1, <2>2 DEF OInv, Profile
<1> QED
  BY <1>1, <1>3, <1>4 DEF Profiled

\* The worker parses only what it can generate from.
LEMMA ParseProfiles ==
    ASSUME WInv, Operator, pc # 0, Onward, pc' # 0 \/ ~queued', Plan[pc] = Parse
    PROVE  Profiled(hand)
<1>1. ParseStep /\ ~Retry
  BY DEF Operator, Dequeue, FinalizeStep, UpsertStep, PruneStep, PartitionStep, OtherStep, At,
         Parse, Step, Retry
<1>2. CanGenerate /\ kind \in Kinds
  BY <1>1, StepOf DEF ParseStep
<1> QED
  BY <1>2, GeneratedFrom

\* A step of the worker that leaves the custom resource alone.
LEMMA WorkerKeepsOInv ==
    ASSUME WInv, OInv, Operator, pc # 0, Onward \/ Retry, UNCHANGED <<setting, cr>>, Monitored'
    PROVE  OInv'
<1>1. /\ pc \in 1..Len(Plan) /\ hand # None /\ kind' = kind /\ cr' = cr
  BY StepOf DEF setting
<1>2. CASE pc' = 0 /\ hand' = None /\ queued'
  BY <1>2 DEF OInv, Kept, Placed, Profile, ObjectsCurrent, AtRest
<1>3. CASE pc' = 0 /\ hand' = None /\ ~queued' /\ Onward
  <2>1. ObjectsCurrent' /\ Profiled(cr)'
    BY <1>3, LastPlaces
  <2> QED
    BY <1>3, <2>1 DEF OInv, Kept, Placed, Profile
<1>4. CASE hand' = hand /\ pc' = pc + 1 /\ Onward
  <2>1. pc' # 0 /\ queued' = queued
    BY <1>1, <1>4 DEF Onward
  <2>2. /\ Plan' = Plan
        /\ \A s : Behind(s)' => \E i \in 1..Len(Plan) : i <= pc /\ Plan[i] = s
        /\ \A s : Behind(s)' => Behind(s) \/ Plan[pc] = s
        /\ \A c : Passed(c)' => \E i \in 1..Len(Plan) : i <= pc /\ Plan[i] = Upsert(c)
    BY <1>4, OnwardBehind
  <2>3. Placed'
    <3> SUFFICES ASSUME NEW c \in Components, Due(c)'
                 PROVE  /\ c \in DOMAIN store'
                        /\ c \in Mutable => store'[c] = Manifest(kind, hand, c)
      BY <1>1, <1>4 DEF Placed, Current, Stored
    <3>1. \/ /\ Wanted(c)
             /\ \E i \in 1..Len(Plan) : i <= pc /\ Plan[i] = Upsert(c)
          \/ /\ c = "cronJob" /\ "pruning" \in hand.spec.on
             /\ \E i \in 1..Len(Plan) : i <= pc /\ Plan[i] = Step("prune", "cronJob")
      BY <1>1, <1>4, <2>2 DEF Due, Wanted
    <3> QED
      BY <1>4, <2>1, <3>1, OnwardPlaces
  <2>4. Profile'
    <3>1. Behind(Parse)' => Profiled(hand)
      BY <1>1, <1>4, <2>1, <2>2, ParseProfiles DEF OInv, Profile
    <3> QED
      BY <1>1, <1>4, <2>1, <3>1 DEF Profile, Profiled, AtRest
  <2>5. Kept' /\ ObjectsCurrent'
    BY <1>1, <1>4, <2>1 DEF OInv, Kept, ObjectsCurrent, AtRest
  <2> QED
    BY <2>3, <2>4, <2>5 DEF OInv
<1>5. \/ pc' = 0 /\ hand' = None /\ queued'
      \/ pc' = 0 /\ hand' = None /\ ~queued' /\ Onward
      \/ hand' = hand /\ pc' = pc + 1 /\ Onward
  BY DEF Onward, Retry
<1> QED
  BY <1>2, <1>3, <1>4, <1>5

\* The finalizer: the copy in hand is stored, and is of another version of
\* nothing that the builders read.
LEMMA FinalizerKeepsOInv ==
    ASSUME WInv, OInv, FinalizeStep, Store(hand, hand.version, TRUE), hand' = cr', pc' = pc + 1,
           Monitored'
    PROVE  OInv'
<1>1. /\ pc \in 1..Len(Plan) /\ hand # None /\ hand \in CustomResources(kind) /\ kind \in Kinds
      /\ kind' = kind /\ Plan' = Plan /\ store' = store /\ pc' # 0
      /\ Plan[pc].op = "finalize"
  BY StepOf DEF FinalizeStep, At, setting, Plan
<1>2. /\ hand'.name = hand.name /\ hand'.labels = hand.labels /\ hand'.spec = hand.spec
      /\ queued'
  <2>1. webhooks => applyDefaults(kind, hand.spec) = hand.spec
    BY <1>1 DEF WInv, Filled
  <2>2. hand.name = Name
    BY <1>1, StepOf
  <2> QED
    BY <2>1, <2>2 DEF Store, Admit
<1>3. /\ \A s : Behind(s)' => Behind(s) \/ Plan[pc] = s
      /\ \A c : Passed(c)' => Passed(c)
  <2>1. \A i \in 1..Len(Plan) : i < pc + 1 => i < pc \/ i = pc
    BY <1>1
  <2>2. \A c : Plan[pc] # Upsert(c)
    BY <1>1 DEF Upsert, Step
  <2> QED
    BY <1>1, <2>1, <2>2 DEF Behind, Passed
<1>4. Plan[pc] # Parse /\ Plan[pc] # Step("prune", "cronJob")
  BY <1>1 DEF Parse, Step
<1>5. Placed'
  <2> SUFFICES ASSUME NEW c \in Components, Due(c)' PROVE Current(c, hand)'
    BY DEF Placed
  <2>1. Due(c)
    BY <1>1, <1>2, <1>3, <1>4 DEF Due, Wanted
  <2>2. Current(c, hand)
    BY <1>1, <2>1 DEF OInv, Placed
  <2>3. Manifest(kind, hand', c) = Manifest(kind, hand, c)
    BY <1>1, <1>2, ManifestReads
  <2> QED
    BY <1>1, <2>2, <2>3 DEF Current, Stored
<1>6. Profile'
  BY <1>1, <1>2, <1>3, <1>4 DEF OInv, Profile, Profiled, AtRest, Config
<1>7. Kept' /\ ObjectsCurrent'
  BY <1>1, <1>2 DEF Kept, ObjectsCurrent, AtRest
<1> QED
  BY <1>5, <1>6, <1>7 DEF OInv

\* The monitor of a kind is written in one way only.
LEMMA MonitoredStep ==
    ASSUME WInv, Monitored, [Next]_vars
    PROVE  Monitored'
<1>1. CASE store' = store \/ \E c : store' = [d \in DOMAIN store \ {c} |-> store[d]]
  BY <1>1 DEF Monitored, Stored
<1>2. CASE UpsertStep /\ Wanted(This) /\ Put(This, Sent(This))
  <2>1. kind \in Kinds /\ hand.name = Name
    BY <1>2, StepOf DEF UpsertStep, At
  <2>2. CASE This = "serviceMonitor"
    <3>1. kind \in ServiceKinds \ {"Binoculars"}
      BY <1>2, <2>1, <2>2, ConnectionsOf DEF Wanted
    <3>2. LET object == Manifest(kind, hand, "serviceMonitor")
          IN  object.port = "metrics" /\ object.selector \in {<< >>, IdentityLabel(Name)}
      BY <2>1, <3>1 DEF Manifest, ArmadaServerManifest, ExecutorManifest, LookoutManifest,
         SchedulerManifest, createServerServiceMonitor, createLookoutServiceMonitor,
         newSchedulerServiceMonitor, createServiceMonitor, ServiceMonitor, ServiceKinds
    <3> QED
      BY <1>2, <2>2, <3>2 DEF Put, Sent, Monitored, Stored
  <2>3. CASE This # "serviceMonitor"
    BY <1>2, <2>3 DEF Put, Monitored, Stored
  <2> QED
    BY <2>2, <2>3
<1>3. CASE (PruneStep \/ PartitionStep) /\ Put(This, Sent(This))
  <2>1. This # "serviceMonitor"
    BY <1>3, StepOf DEF PruneStep, PartitionStep, At, This, StepsOf
  <2> QED
    BY <1>3, <2>1 DEF Put, Monitored, Stored
<1>4. CASE (\E q \in Requests[kind] : Create(q) \/ Edit(q)) \/ Dequeue \/ FinalizeStep
             \/ ParseStep \/ OtherStep \/ CutShort \/ Resync \/ StartPod
             \/ (\E p \in pods : ReplacePod(p) \/ StopPod(p)) \/ UNCHANGED vars
  <2>1. store' = store
    BY <1>4 DEF Create, Edit, Dequeue, FinalizeStep, ParseStep, OtherStep, CutShort, Resync,
                StartPod, ReplacePod, StopPod, vars
  <2> QED
    BY <1>1, <2>1
<1>5. CASE UpsertStep \/ PruneStep \/ PartitionStep
  BY <1>1, <1>2, <1>3, <1>5 DEF UpsertStep, PruneStep, PartitionStep, Write
<1> QED
  BY <1>4, <1>5 DEF Next, Operator

LEMMA OInvStep ==
    ASSUME WInv, OInv, [Next]_vars
    PROVE  OInv'
<1>1. Monitored'
  BY MonitoredStep DEF OInv
<1>2. CASE Dequeue
  <2>1. /\ pc' = 1 /\ hand' = cr' /\ Plan' = Plan
    BY <1>2 DEF Dequeue, setting, Plan
  <2>2. \A s : ~Behind(s)' /\ \A c : ~Passed(c)'
    BY <2>1 DEF Behind, Passed
  <2>3. Placed' /\ Profile'
    BY <2>1, <2>2 DEF Placed, Due, Profile, AtRest
  <2>4. Kept' /\ ObjectsCurrent'
    BY <2>1 DEF Kept, ObjectsCurrent, AtRest
  <2> QED
    BY <1>1, <2>3, <2>4 DEF OInv
<1>3. CASE Operator /\ ~Dequeue
  <2>1. CASE FinalizeStep /\ Store(hand, hand.version, TRUE) /\ hand' = cr' /\ pc' = pc + 1
    BY <1>1, <2>1, FinalizerKeepsOInv
  <2>2. CASE pc # 0 /\ (Onward \/ Retry) /\ UNCHANGED <<setting, cr>>
    BY <1>1, <1>3, <2>2, WorkerKeepsOInv
  <2> QED
    BY <1>3, <2>1, <2>2 DEF Operator, FinalizeStep, ParseStep, UpsertStep, PruneStep,
                            PartitionStep, OtherStep, Write, At
<1>4. CASE CutShort
  <2>1. pc' = 0 /\ hand' = None /\ queued'
    BY <1>4 DEF CutShort, Retry
  <2> QED
    BY <1>1, <2>1 DEF OInv, Kept, Placed, Profile, ObjectsCurrent, AtRest
<1>5. CASE \E q \in Requests[kind] : Create(q) \/ Edit(q)
  <2>1. /\ UNCHANGED <<pc, hand, store, kind>> /\ Plan' = Plan /\ queued'
    BY <1>5 DEF Create, Edit, Store, setting, Plan
  <2>2. (\A s : Behind(s)' <=> Behind(s)) /\ (\A c : Due(c)' <=> Due(c))
    BY <2>1 DEF Behind, Due, Passed, Wanted
  <2> QED
    BY <1>1, <2>1, <2>2 DEF OInv, Kept, Placed, Current, Stored, Profile, Profiled,
                            ObjectsCurrent, AtRest
<1>6. CASE Resync \/ StartPod \/ (\E p \in pods : ReplacePod(p) \/ StopPod(p)) \/ UNCHANGED vars
  <2>1. /\ UNCHANGED <<pc, hand, store, cr, kind>> /\ Plan' = Plan
        /\ queued' = queued \/ queued'
    BY <1>6 DEF Resync, StartPod, ReplacePod, StopPod, vars, setting, worker, Plan
  <2>2. (\A s : Behind(s)' <=> Behind(s)) /\ (\A c : Due(c)' <=> Due(c))
    BY <2>1 DEF Behind, Due, Passed, Wanted
  <2>3. Kept' /\ Placed' /\ Profile'
    BY <2>1, <2>2 DEF OInv, Kept, Placed, Current, Stored, Profile, Profiled, AtRest
  <2>4. ObjectsCurrent'
    BY <2>1 DEF OInv, ObjectsCurrent, AtRest, Installed, Pruned, Stored
  <2> QED
    BY <1>1, <2>3, <2>4 DEF OInv
<1> QED
  BY <1>2, <1>3, <1>4, <1>5, <1>6 DEF Next

LEMMA OInvHolds == Spec => []OInv
<1>1. Init => OInv
  BY DEF Init, OInv, Kept, Placed, Profile, Monitored, ObjectsCurrent, AtRest, Stored
<1>2. WInv /\ OInv /\ [Next]_vars => OInv'
  BY OInvStep
<1> QED
  BY <1>1, <1>2, WInvHolds, PTL DEF Spec

\* At rest every object the table keeps up to date is what the builders make of
\* the spec, whatever edits, webhooks, refused writes and reconciles cut short
\* came before (ReconcileComponents copies whole objects, and the workqueue
\* keeps what the worker has not seen).
THEOREM ObjectsAreCurrent == Spec => []ObjectsCurrent
<1>1. OInv => ObjectsCurrent
  BY DEF OInv
<1> QED
  BY <1>1, OInvHolds, PTL

-----------------------------------------------------------------------------
(***************************************************************************)
(* The objects fit together.                                               *)
(***************************************************************************)
\* What is generated and in the table is there, as the builders make it.
LEMMA CurrentAtRest ==
    ASSUME WInv, OInv, AtRest
    PROVE  /\ kind \in Kinds /\ cr # None /\ cr.name = Name
           /\ \A c \in Components \ {"serviceMonitor"} :
                  Installed(c) /\ c \in Mutable => Stored(c) /\ store[c] = Manifest(kind, cr, c)
           /\ Installed("serviceMonitor") => Stored("serviceMonitor")
           /\ Installed("secret") /\ Installed("deployment")
           /\ kind \in ServiceKinds => Installed("service")
           /\ kind = "Scheduler" => Installed("serviceProfiling")
           /\ kind = "Executor" => Installed("clusterRole") /\ Installed("binding")
<1>1. kind \in Kinds /\ cr # None /\ cr.name = Name
  BY DEF WInv, WorkType, AtRest, CustomResources
<1>2. \A c : Installed(c) <=> c \in Generated(kind, cr.spec) /\ Upserts(Reconcile(kind), c)
  BY DEF Installed, Upserts, Plan
<1>3. /\ {"secret", "deployment"} \subseteq Generated(kind, cr.spec)
      /\ kind \in ServiceKinds => {"service", "serviceProfiling"} \subseteq Generated(kind, cr.spec)
      /\ kind = "Executor" => {"clusterRole", "binding"} \subseteq Generated(kind, cr.spec)
  BY <1>1 DEF Generated, Kinds, ServiceKinds, generateArmadaServerInstallComponents,
       generateLookoutInstallComponents, generateSchedulerInstallComponents,
       generateExecutorInstallComponents, generateBinocularsInstallComponents,
       generateEventIngesterComponents, generateLookoutIngesterComponents,
       generateSchedulerIngesterComponents, IngesterComponents, newProfilingComponents,
       OwnServiceAccount, Given
<1>4. /\ Installed("secret") /\ Installed("deployment")
      /\ kind \in ServiceKinds => Installed("service")
      /\ kind = "Scheduler" => Installed("serviceProfiling")
      /\ kind = "Executor" => Installed("clusterRole") /\ Installed("binding")
  BY <1>1, <1>2, <1>3, TablesUpsert DEF ServiceKinds
<1>5. "serviceMonitor" \in Components
  BY DEF Components
<1> QED
  BY <1>1, <1>4, <1>5 DEF OInv, ObjectsCurrent

\* The components that refer to each other, all of them kept up to date.
LEMMA UpToDate ==
    {"secret", "deployment", "service", "serviceProfiling", "serviceAccount", "clusterRole",
     "binding", "extraBinding", "ingressGrpc", "ingressHttp", "ingressProfiling"}
        \subseteq Mutable \cap (Components \ {"serviceMonitor"})
  BY DEF Mutable, Components, Jobs

LEMMA OnlySchedulerProfiles ==
    ASSUME NEW k \in Kinds, Upserts(Reconcile(k), "ingressProfiling")
    PROVE  k = "Scheduler"
<1>1. Upsert("ingressProfiling") \in StepsOf(k)
  BY PlansAreGood DEF Upserts, GoodPlan
<1> QED
  BY <1>1 DEF StepsOf, Upsert, Step

\* At rest, and whichever edits and cut short reconciles the objects come from:
\* an ingress sends to a port that a Service of that name has and the container
\* listens on, Prometheus finds the metrics port, the pods can mount their
\* configuration and be probed, and the Executor's roles are bound to the
\* account of its pods (the generate...InstallComponents functions).
THEOREM ConnectedAtRest == Spec => []Connected
<1> SUFFICES WInv /\ OInv => Connected
  BY WInvHolds, OInvHolds, PTL
<1> SUFFICES ASSUME WInv, OInv, AtRest
             PROVE  /\ \A c \in {"ingressGrpc", "ingressHttp", "ingressProfiling"} :
                            Installed(c) => IngressServed(c)
                    /\ Installed("serviceMonitor") => MetricsScraped
                    /\ PodStarts
                    /\ kind = "Executor" => ExecutorBound
  BY DEF Connected
<1> DEFINE config == Config(cr)
<1>1. /\ kind \in Kinds /\ cr.name = Name
      /\ \A c \in {"secret", "deployment", "service", "serviceProfiling", "serviceAccount",
                    "clusterRole", "binding", "extraBinding", "ingressGrpc", "ingressHttp",
                    "ingressProfiling"} :
             Installed(c) => Stored(c) /\ store[c] = Manifest(kind, cr, c)
      /\ Installed("serviceMonitor") => Stored("serviceMonitor")
      /\ Installed("secret") /\ Installed("deployment")
      /\ kind \in ServiceKinds => Installed("service")
      /\ kind = "Scheduler" => Installed("serviceProfiling")
      /\ kind = "Executor" => Installed("clusterRole") /\ Installed("binding")
  BY CurrentAtRest, UpToDate
<1>2. Pod = Manifest(kind, cr, "deployment").template
  BY <1>1 DEF Pod
<1>3. /\ Pod.pod = AnyPod(cr.name, cr)
      /\ Pod.probe # "none" => "http" \in DOMAIN Pod.ports
      /\ kind \in ServiceKinds => Serves(Pod.ports, config, {"http"})
      /\ kind \in {"ArmadaServer", "Binoculars", "Scheduler"} =>
            Serves(Pod.ports, config, {"grpc", "metrics"})
      /\ kind = "Lookout" => Serves(Pod.ports, config, {"metrics"})
      /\ kind = "Executor" =>
            "metrics" \in DOMAIN Pod.ports /\ Pod.ports["metrics"] = Written[cr.spec.app].metric
      /\ kind = "Scheduler" /\ config.profiling > 0 => Serves(Pod.ports, config, {"profiling"})
  BY <1>1, <1>2, PodSays
<1>4. ASSUME kind \in ServiceKinds
      PROVE  /\ "service" \in DOMAIN store
             /\ store["service"].name = cr.name
             /\ store["service"].labels = AllLabels(cr.name, cr.labels)
             /\ kind \in {"ArmadaServer", "Binoculars", "Scheduler"} =>
                   Serves(store["service"].ports, config, {"grpc", "http", "metrics"})
             /\ kind = "Lookout" => Serves(store["service"].ports, config, {"http", "metrics"})
             /\ kind = "Executor" =>
                   store["service"].ports = [metrics |-> Written[cr.spec.app].metric]
  BY <1>1, <1>4, ServicesSay DEF Stored
<1>5. ASSUME kind = "Scheduler"
      PROVE  /\ "serviceProfiling" \in DOMAIN store
             /\ store["serviceProfiling"].name = Suffixed(cr, "profiling")
             /\ Serves(store["serviceProfiling"].ports, config, {"profiling"})
  <2>1. kind \in ServiceKinds
    BY <1>5 DEF ServiceKinds
  <2>2. /\ "serviceProfiling" \in DOMAIN store
        /\ store["serviceProfiling"] = Manifest(kind, cr, "serviceProfiling")
    BY <1>1, <1>5 DEF Stored
  <2>3. LET profiling == Manifest(kind, cr, "serviceProfiling")
        IN  /\ profiling.name = Suffixed(cr, "profiling")
            /\ Serves(profiling.ports, config, {"profiling"})
    BY <2>1, ServicesSay
  <2> QED
    BY <2>2, <2>3
<1>6. kind \in {"ArmadaServer", "Binoculars", "Lookout", "Scheduler"} => kind \in ServiceKinds
  BY DEF ServiceKinds
<1> HIDE DEF config
<1>7. ASSUME Installed("ingressGrpc") PROVE IngressServed("ingressGrpc")
  <2>1. /\ kind \in {"ArmadaServer", "Binoculars", "Scheduler"}
        /\ store["ingressGrpc"].service = cr.name
        /\ store["ingressGrpc"].port \in {config.grpc, config.http}
    BY <1>1, <1>7, ConnectionsOf DEF Installed, config
  <2>2. PICK p \in {"grpc", "http"} : store["ingressGrpc"].port = config[p]
    BY <2>1
  <2>3. /\ p \in DOMAIN store["service"].ports /\ store["service"].ports[p] = config[p]
        /\ p \in DOMAIN Pod.ports /\ Pod.ports[p] = config[p]
    BY <1>3, <1>4, <1>6, <2>1 DEF Serves
  <2> QED
    BY <1>4, <1>6, <2>1, <2>2, <2>3 DEF IngressServed
<1>8. ASSUME Installed("ingressHttp") PROVE IngressServed("ingressHttp")
  <2>1. /\ kind \in {"ArmadaServer", "Binoculars", "Lookout"}
        /\ store["ingressHttp"].service = cr.name
        /\ store["ingressHttp"].port = config["http"]
    BY <1>1, <1>8, ConnectionsOf DEF Installed, config
  <2>2. /\ "http" \in DOMAIN store["service"].ports /\ store["service"].ports["http"] = config["http"]
        /\ "http" \in DOMAIN Pod.ports /\ Pod.ports["http"] = config["http"]
    BY <1>3, <1>4, <1>6, <2>1 DEF Serves
  <2> QED
    BY <1>4, <1>6, <2>1, <2>2 DEF IngressServed
<1>9. ASSUME Installed("ingressProfiling") PROVE IngressServed("ingressProfiling")
  <2>1. kind = "Scheduler"
    BY <1>1, <1>9, OnlySchedulerProfiles DEF Installed, Upserts, Plan
  <2>2. config.profiling > 0
    BY <1>9 DEF OInv, Profile, Profiled, Installed, config
  <2>3. /\ store["ingressProfiling"].service = Suffixed(cr, "profiling")
        /\ store["ingressProfiling"].port = config["profiling"]
    BY <1>1, <1>9, ConnectionsOf DEF config
  <2>4. /\ "profiling" \in DOMAIN store["serviceProfiling"].ports
        /\ store["serviceProfiling"].ports["profiling"] = config["profiling"]
        /\ "profiling" \in DOMAIN Pod.ports /\ Pod.ports["profiling"] = config["profiling"]
    BY <1>3, <1>5, <2>1, <2>2 DEF Serves
  <2> QED
    BY <1>5, <2>1, <2>3, <2>4 DEF IngressServed
<1>10. ASSUME Installed("serviceMonitor") PROVE MetricsScraped
  <2>1. kind \in ServiceKinds /\ kind \in {"ArmadaServer", "Executor", "Lookout", "Scheduler"}
    BY <1>1, <1>10, ConnectionsOf DEF Installed, ServiceKinds
  <2>2. /\ store["serviceMonitor"].port = "metrics"
        /\ store["serviceMonitor"].selector \in {<< >>, IdentityLabel(Name)}
    BY <1>1, <1>10 DEF OInv, Monitored
  <2>3. Selects(store["serviceMonitor"].selector, store["service"].labels)
    <3>1. Identified(store["service"].labels, Name)
      BY <1>1, <1>4, <2>1, LabelsIdentify
    <3> QED
      BY <2>2, <3>1 DEF Selects, Identified, IdentityLabel
  <2>4. /\ "metrics" \in DOMAIN store["service"].ports
        /\ "metrics" \in DOMAIN Pod.ports
        /\ Pod.ports["metrics"] = store["service"].ports["metrics"]
    <3>1. CASE kind = "Executor"
      BY <1>3, <1>4, <2>1, <3>1
    <3>2. CASE kind # "Executor"
      BY <1>3, <1>4, <2>1, <3>2 DEF Serves
    <3> QED
      BY <3>1, <3>2
  <2> QED
    BY <1>4, <2>1, <2>2, <2>3, <2>4 DEF MetricsScraped
<1>11. PodStarts
  <2>1. /\ "secret" \in DOMAIN store /\ store["secret"] = CreateSecret(cr)
    BY <1>1 DEF Stored, Manifest, ArmadaServerManifest, BinocularsManifest, ExecutorManifest,
                LookoutManifest, SchedulerManifest, CommonManifest
  <2>2. /\ Pod.pod.account = AccountName(cr) /\ Pod.pod.secret = cr.name
        /\ Pod.pod.subPath = GetConfigFilename(cr.name)
    BY <1>3 DEF AnyPod, PodWith
  <2>3. Mountable(Pod)
    BY <2>1, <2>2 DEF Mountable, Stored, CreateSecret
  <2>4. ASSUME Installed("serviceAccount")
        PROVE  store["serviceAccount"].name = Pod.pod.account
    <3>1. store["serviceAccount"] = ServiceAccount(cr)
      BY <1>1, <2>4 DEF Manifest, ArmadaServerManifest, BinocularsManifest, ExecutorManifest,
                        LookoutManifest, SchedulerManifest, CommonManifest
    <3>2. AccountName(cr) = cr.name
      BY <1>1, <2>4, ConnectionsOf DEF Installed
    <3> QED
      BY <2>2, <3>1, <3>2 DEF ServiceAccount
  <2> QED
    BY <1>3, <2>3, <2>4 DEF PodStarts
<1>12. ASSUME kind = "Executor" PROVE ExecutorBound
  <2>1. /\ store["binding"] = createClusterRoleBinding(cr)
        /\ store["clusterRole"] = createClusterRole(cr)
        /\ Installed("extraBinding") =>
              store["extraBinding"] = createAdditionalClusterRoleBindings(cr)
    BY <1>1, <1>12 DEF Manifest, ExecutorManifest
  <2>2. Pod.pod.account = AccountName(cr)
    BY <1>3 DEF AnyPod, PodWith
  <2> QED
    BY <2>1, <2>2 DEF ExecutorBound, createClusterRoleBinding, createClusterRole,
                      createAdditionalClusterRoleBindings, Binding
<1> QED
  BY <1>7, <1>8, <1>9, <1>10, <1>11, <1>12

=============================================================================
