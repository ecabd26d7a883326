------------------------------- MODULE Manifests -------------------------------
(***************************************************************************)
(* The builders: the objects generated for a custom resource, as far as    *)
(* they refer to each other - names, labels and selectors, ports, accounts *)
(* and the configuration the pods are given.                               *)
(*                                                                         *)
(* A custom resource r has a name, the labels users put on it and a spec.  *)
(* A name is a sequence: a suffix is one more element of it.  Labels are   *)
(* functions, a set of ports is a function from port names to numbers.     *)
(***************************************************************************)
EXTENDS Controllers, Integers

PortNames == {"grpc", "http", "metrics", "profiling"}

\* What else the builders look for in a configuration.
Flags == {"grpcEnabled", "grpcTls", "pulsarAuth", "pulsarTls"}

\* Port numbers have 16 bits.
MaxPort == 65535

\* What an application configuration says: the ports it sets, the metrics port
\* of an Executor (a uint16; 0: none is set), and the flags that are true.
CONSTANT Written

ASSUME WrittenAssumption ==
    \A app \in Apps \ Malformed :
        /\ DOMAIN Written[app].ports \subseteq PortNames
        /\ \A p \in DOMAIN Written[app].ports : Written[app].ports[p] \in Int
        /\ Written[app].metric \in 0..MaxPort
        /\ Written[app].flags \subseteq Flags

Default == [grpc |-> 50051, http |-> 8080, metrics |-> 9000, profiling |-> 1337]

ParseCommonApplicationConfig(app) ==
    [p \in PortNames |->
        IF p \in DOMAIN Written[app].ports THEN Written[app].ports[p] ELSE Default[p]]

Says(r, flag) == flag \in Written[r.spec.app].flags

-----------------------------------------------------------------------------
(***************************************************************************)
(* Names and labels.                                                       *)
(***************************************************************************)
\* Where both have a key the second map wins.
MergeMaps(first, second) ==
    [k \in DOMAIN first \cup DOMAIN second |->
        IF k \in DOMAIN second THEN second[k] ELSE first[k]]

IdentityLabel(name) == [app |-> name]

\* The user's labels win over the identity.
AllLabels_UserLast(name, labels) ==
    MergeMaps(MergeMaps([release |-> name], IdentityLabel(name)), labels)

AllLabels(name, labels) ==
    MergeMaps(MergeMaps([release |-> name], labels), IdentityLabel(name))

Selects(selector, labels) ==
    \A k \in DOMAIN selector : k \in DOMAIN labels /\ labels[k] = selector[k]

GetConfigFilename(name) == <<name, "config.yaml">>

AccountName(r) ==
    IF "customServiceAccount" \in r.spec.on THEN <<"custom">> ELSE r.name

-----------------------------------------------------------------------------
(***************************************************************************)
(* Pods.                                                                   *)
(***************************************************************************)
createPulsarVolumes(r) ==
    (IF Says(r, "pulsarAuth") THEN {"pulsar-token"} ELSE {})
        \cup IF Says(r, "pulsarTls") THEN {"pulsar-ca"} ELSE {}

createPulsarVolumeMounts(r) ==
    (IF Says(r, "pulsarAuth") THEN {"pulsar-token"} ELSE {})
        \cup IF Says(r, "pulsarTls") THEN {"pulsar-ca"} ELSE {}

createVolumes(r) == {"user-config"} \cup Given("additionalVolumes", r.spec, {"additional"})

createVolumeMounts(r) ==
    {"user-config"} \cup Given("additionalVolumeMounts", r.spec, {"additional"})

\* A pod mounts the file of a Secret over its configuration.
PodWith(name, r, account, filename, volumes, mounts) ==
    [labels |-> AllLabels(name, r.labels), account |-> account,
     secret |-> r.name, subPath |-> filename, volumes |-> volumes, mounts |-> mounts]

AnyPod(name, r) ==
    PodWith(name, r, AccountName(r), GetConfigFilename(r.name),
            createVolumes(r), createVolumeMounts(r))

NoPulsar == [volumes |-> {}, mounts |-> {}]
Pulsar(r) == [volumes |-> createPulsarVolumes(r), mounts |-> createPulsarVolumeMounts(r)]

GetServerScheme(r) == IF Says(r, "grpcTls") THEN "HTTPS" ELSE "HTTP"

\* The pod template without the annotation that changes with the configuration.
Deployment_NoChecksum(r, ports, probe, pulsar) ==
    [name     |-> r.name,
     selector |-> IdentityLabel(r.name),
     template |-> [pod |-> AnyPod(r.name, r), ports |-> ports, probe |-> probe,
                   pulsar |-> pulsar, checksum |-> "none"]]

\* The probes ask the port named http; the checksum stands for the hash of the
\* configuration.
Deployment(r, ports, probe, pulsar) ==
    [name     |-> r.name,
     selector |-> IdentityLabel(r.name),
     template |-> [pod |-> AnyPod(r.name, r), ports |-> ports, probe |-> probe,
                   pulsar |-> pulsar, checksum |-> r.spec.app]]

newContainerPorts(config, names) ==
    [p \in names \cup (IF config.profiling > 0 THEN {"profiling"} ELSE {}) |-> config[p]]

newContainerPortsAll(config) == newContainerPorts(config, {"grpc", "http", "metrics"})
newContainerPortsHTTPWithMetrics(config) == newContainerPorts(config, {"http", "metrics"})
newContainerPortsMetrics(config) == newContainerPorts(config, {"metrics"})

createLookoutDeployment(r, config) ==
    Deployment(r, newContainerPortsHTTPWithMetrics(config), GetServerScheme(r), NoPulsar)

newSchedulerDeployment(r, config) ==
    Deployment(r, newContainerPortsAll(config), GetServerScheme(r), Pulsar(r))

createArmadaServerDeployment(r, config) ==
    Deployment(r, newContainerPortsAll(config), GetServerScheme(r), Pulsar(r))

createBinocularsDeployment(r, config) ==
    Deployment(r, newContainerPortsAll(config), GetServerScheme(r), NoPulsar)

\* The metrics port is the Executor's own setting.
createExecutorDeployment(r, config) ==
    Deployment(r,
               MergeMaps(newContainerPorts(config, {"http"}),
                         [metrics |-> Written[r.spec.app].metric]),
               "HTTP", NoPulsar)

\* The ingesters have no probes.
IngesterDeployment(r, config) ==
    Deployment(r, newContainerPortsMetrics(config), "none", Pulsar(r))

createEventIngesterDeployment(r, config)     == IngesterDeployment(r, config)
createLookoutIngesterDeployment(r, config)   == IngesterDeployment(r, config)
createSchedulerIngesterDeployment(r, config) == IngesterDeployment(r, config)

-----------------------------------------------------------------------------
(***************************************************************************)
(* Jobs.  The checksum is on the Job, not on its pods.                     *)
(***************************************************************************)
Job(name, r, pod) == [name |-> name, checksum |-> r.spec.app, pod |-> pod]

Suffixed(r, suffix) == Append(r.name, suffix)

\* The migrations carry the labels of the service itself.
LikeTheService(r, suffix) == Job(Suffixed(r, suffix), r, AnyPod(r.name, r))

\* Pruning and partitioning go under a name of their own.
OnItsOwn(r, suffix) ==
    LET name == Suffixed(r, suffix) IN Job(name, r, AnyPod(name, r))

createLookoutMigrationJob(r) == LikeTheService(r, "migration")
newSchedulerMigrationJob(r)  == LikeTheService(r, "migration")

\* The partition Job as createLookoutDatabaseJob returns it.
createLookoutPartitionJobTableJob_Unlabelled(r) == LikeTheService(r, "partition-job-table")

createLookoutPartitionJobTableJob(r) == OnItsOwn(r, "partition-job-table")

CronJob(r, schedule) ==
    LET job == OnItsOwn(r, "db-pruner")
    IN  [name |-> job.name, checksum |-> job.checksum, pod |-> job.pod, schedule |-> schedule]

\* Lookout prunes hourly when nothing else is said, the Scheduler's schedule is
\* taken as it is.
createLookoutCronJob(r) ==
    CronJob(r, IF r.spec.opt["schedule"] = "nil" THEN "default" ELSE r.spec.opt["schedule"])

newSchedulerCronJob(r) == CronJob(r, r.spec.opt["schedule"])

\* The Pulsar Jobs run under the default account, look for a file that has the
\* name of the Secret and mount nothing else.
createArmadaServerMigrationJobs(r, name) ==
    Job(<<name>>, r, PodWith(r.name, r, <<"default">>, r.name, {"user-config"}, {"user-config"}))

-----------------------------------------------------------------------------
(***************************************************************************)
(* Services, ingresses, monitors, accounts and roles.                      *)
(***************************************************************************)
Service(name, r, ports) ==
    [name |-> name, labels |-> AllLabels(r.name, r.labels),
     selector |-> IdentityLabel(r.name), ports |-> ports]

PortsOf(config, names) == [p \in names |-> config[p]]

LookoutService(r, config) == Service(r.name, r, PortsOf(config, {"http", "metrics"}))

\* Every Service exposes the ports of Lookout's.
ApplicationService_NoGrpc(r, config) ==
    Service(r.name, r, PortsOf(config, {"http", "metrics"}))

\* ServiceEnableApplicationPortsOnly: ArmadaServer, Binoculars and Scheduler.
ApplicationService(r, config) ==
    Service(r.name, r, PortsOf(config, {"grpc", "http", "metrics"}))

createExecutorService(r) ==
    Service(r.name, r, [metrics |-> Written[r.spec.app].metric])

newProfilingService(r, config) ==
    Service(Suffixed(r, "profiling"), r, PortsOf(config, {"profiling"}))

\* The backend protocol and the Service an ingress sends its requests to.
Ingress(name, service, port, protocol) ==
    [name |-> name, service |-> service, port |-> port, protocol |-> protocol]

Secured(r, protocol) == <<protocol, Says(r, "grpcEnabled")>>

IngressGrpc(r, port) == Ingress(Suffixed(r, "grpc"), r.name, port, Secured(r, "GRPC"))
IngressHttp(r, port) == Ingress(Suffixed(r, "rest"), r.name, port, Secured(r, "HTTP"))

\* The GRPC ingress of Binoculars sends to the http port.
createServerIngressGRPC(r, config)     == IngressGrpc(r, config.grpc)
newSchedulerIngressGRPC(r, config)     == IngressGrpc(r, config.grpc)
createBinocularsIngressGrpc(r, config) == IngressGrpc(r, config.http)

createServerIngressHTTP(r, config)     == IngressHttp(r, config.http)
createLookoutIngressHttp(r, config)    == IngressHttp(r, config.http)
createBinocularsIngressHttp(r, config) == IngressHttp(r, config.http)

newProfilingIngress(r, config) ==
    Ingress(Suffixed(r, "profiling"), Suffixed(r, "profiling"), config.profiling,
            <<"HTTP", FALSE>>)

ServiceMonitor(r, selector) == [name |-> r.name, port |-> "metrics", selector |-> selector]

\* Only the Executor's has a selector; one without selects every Service.
createServerServiceMonitor(r)  == ServiceMonitor(r, << >>)
createLookoutServiceMonitor(r) == ServiceMonitor(r, << >>)
newSchedulerServiceMonitor(r)  == ServiceMonitor(r, << >>)
createServiceMonitor(r)        == ServiceMonitor(r, IdentityLabel(r.name))

\* The rules are evaluated as often as the metrics are scraped.
PrometheusRule(r) == [name |-> r.name, interval |-> r.spec.opt["scrapeInterval"]]

createServerPrometheusRule(r)   == PrometheusRule(r)
newSchedulerPrometheusRule(r)   == PrometheusRule(r)
createExecutorPrometheusRule(r) == PrometheusRule(r)

Binding(name, roleRef, subject) ==
    [name |-> name, roleRef |-> roleRef, subject |-> subject]

createClusterRoleBinding(r) == Binding(r.name, r.name, AccountName(r))

\* The binding of Binoculars ignores a custom account.
generateBinocularsClusterRoleBinding(r) == Binding(r.name, r.name, r.name)

createAdditionalClusterRoleBindings(r) ==
    Binding(Suffixed(r, "extra"), r.spec.role, AccountName(r))

CreateSecret(r) ==
    [name |-> r.name, filename |-> GetConfigFilename(r.name), config |-> r.spec.app]

\* Objects that are referred to by their name and by nothing else.
ServiceAccount(r)                  == [name |-> r.name]
createClusterRole(r)               == [name |-> r.name]
createBinocularsClusterRole(r)     == [name |-> r.name]
createServerPodDisruptionBudget(r) == [name |-> r.name]

-----------------------------------------------------------------------------
(***************************************************************************)
(* The object generated as a component, by kind.                           *)
(***************************************************************************)
CommonManifest(r, config, c) ==
    CASE c = "secret"           -> CreateSecret(r)
      [] c = "serviceAccount"   -> ServiceAccount(r)
      [] c = "service"          -> ApplicationService(r, config)
      [] c = "serviceProfiling" -> newProfilingService(r, config)
      [] c = "ingressProfiling" -> newProfilingIngress(r, config)

ArmadaServerManifest(r, config, c) ==
    CASE c = "deployment"          -> createArmadaServerDeployment(r, config)
      [] c = "ingressGrpc"         -> createServerIngressGRPC(r, config)
      [] c = "ingressHttp"         -> createServerIngressHTTP(r, config)
      [] c = "podDisruptionBudget" -> createServerPodDisruptionBudget(r)
      [] c = "prometheusRule"      -> createServerPrometheusRule(r)
      [] c = "serviceMonitor"      -> createServerServiceMonitor(r)
      [] c = "waitForPulsar"       -> createArmadaServerMigrationJobs(r, "wait-for-pulsar")
      [] c = "initPulsar"          -> createArmadaServerMigrationJobs(r, "init-pulsar")
      [] OTHER                     -> CommonManifest(r, config, c)

BinocularsManifest(r, config, c) ==
    CASE c = "deployment"  -> createBinocularsDeployment(r, config)
      [] c = "ingressGrpc" -> createBinocularsIngressGrpc(r, config)
      [] c = "ingressHttp" -> createBinocularsIngressHttp(r, config)
      [] c = "clusterRole" -> createBinocularsClusterRole(r)
      [] c = "binding"     -> generateBinocularsClusterRoleBinding(r)
      [] OTHER             -> CommonManifest(r, config, c)

ExecutorManifest(r, config, c) ==
    CASE c = "deployment"     -> createExecutorDeployment(r, config)
      [] c = "service"        -> createExecutorService(r)
      [] c = "clusterRole"    -> createClusterRole(r)
      [] c = "binding"        -> createClusterRoleBinding(r)
      [] c = "extraBinding"   -> createAdditionalClusterRoleBindings(r)
      [] c = "prometheusRule" -> createExecutorPrometheusRule(r)
      [] c = "serviceMonitor" -> createServiceMonitor(r)
      [] OTHER                -> CommonManifest(r, config, c)

LookoutManifest(r, config, c) ==
    CASE c = "deployment"     -> createLookoutDeployment(r, config)
      [] c = "service"        -> LookoutService(r, config)
      [] c = "ingressHttp"    -> createLookoutIngressHttp(r, config)
      [] c = "serviceMonitor" -> createLookoutServiceMonitor(r)
      [] c = "migration"      -> createLookoutMigrationJob(r)
      [] c = "partition"      -> createLookoutPartitionJobTableJob(r)
      [] c = "cronJob"        -> createLookoutCronJob(r)
      [] OTHER                -> CommonManifest(r, config, c)

SchedulerManifest(r, config, c) ==
    CASE c = "deployment"     -> newSchedulerDeployment(r, config)
      [] c = "ingressGrpc"    -> newSchedulerIngressGRPC(r, config)
      [] c = "prometheusRule" -> newSchedulerPrometheusRule(r)
      [] c = "serviceMonitor" -> newSchedulerServiceMonitor(r)
      [] c = "migration"      -> newSchedulerMigrationJob(r)
      [] c = "cronJob"        -> newSchedulerCronJob(r)
      [] OTHER                -> CommonManifest(r, config, c)

IngesterDeploymentOf(kind, r, config) ==
    CASE kind = "EventIngester"   -> createEventIngesterDeployment(r, config)
      [] kind = "LookoutIngester" -> createLookoutIngesterDeployment(r, config)
      [] OTHER                    -> createSchedulerIngesterDeployment(r, config)

Manifest(kind, r, c) ==
    LET config == ParseCommonApplicationConfig(r.spec.app)
    IN  CASE kind = "ArmadaServer" -> ArmadaServerManifest(r, config, c)
          [] kind = "Binoculars"   -> BinocularsManifest(r, config, c)
          [] kind = "Executor"     -> ExecutorManifest(r, config, c)
          [] kind = "Lookout"      -> LookoutManifest(r, config, c)
          [] kind = "Scheduler"    -> SchedulerManifest(r, config, c)
          [] OTHER -> IF c = "deployment" THEN IngesterDeploymentOf(kind, r, config)
                      ELSE CommonManifest(r, config, c)

\* builders.Ingress wants a port.
IngressesHavePorts(kind, r) ==
    \A c \in {"ingressGrpc", "ingressHttp", "ingressProfiling"} :
        c \in Generated(kind, r.spec) => Manifest(kind, r, c).port > 0

=============================================================================
