----------------------------- MODULE Controllers -----------------------------
(***************************************************************************)
(* What the eight install controllers of internal/controller/install       *)
(* differ in, as tables: the components a custom resource stands for       *)
(* (generate...InstallComponents), the order in which Reconcile walks them *)
(* and what deleteExternalResources removes.  The machine that walks a     *)
(* table is module Install.                                                *)
(*                                                                         *)
(* The spec of a custom resource is a record: app is its ApplicationConfig *)
(* and on is the set of the optional features it turns on.                 *)
(***************************************************************************)
EXTENDS Naturals, Sequences

CONSTANTS
    Apps,       \* the application configurations a user may write
    Malformed   \* those that ParseCommonApplicationConfig rejects

ASSUME MalformedAssumption == Malformed \subseteq Apps

Kinds == {"ArmadaServer", "Binoculars", "EventIngester", "Executor",
          "Lookout", "LookoutIngester", "Scheduler", "SchedulerIngester"}

\* A profilingIngress comes with host names of its own; there is one
\* extraBinding, and the additionalVolumeMounts all name the additionalVolumes.
Features == {"additionalVolumeMounts", "additionalVolumes",
             "customServiceAccount", "extraBinding", "hostNames", "ingress",
             "migrate", "partitionJobTable", "profilingIngress", "prometheus",
             "pruning", "pulsarInit"}

Specs == [app : Apps, on : SUBSET Features]

Jobs == {"initPulsar", "migration", "partition", "waitForPulsar"}

\* The fields of CommonComponents, a Job and a ClusterRoleBinding each under a
\* name of its own, and the Job that partitions the Lookout job table.
Components ==
    Jobs \cup
    {"binding", "clusterRole", "cronJob", "deployment", "extraBinding",
     "ingressGrpc", "ingressHttp", "ingressProfiling", "podDisruptionBudget",
     "prometheusRule", "secret", "service", "serviceAccount", "serviceMonitor",
     "serviceProfiling"}

\* Cluster-scoped components: no namespace in their name, no owner reference.
ClusterScoped == {"binding", "clusterRole", "extraBinding"}

\* Components built without reading the application configuration.
ConfigFree == ClusterScoped \cup
    {"podDisruptionBudget", "prometheusRule", "serviceAccount", "serviceMonitor"}

\* Components ReconcileComponents copies onto an object that exists already.
Mutable == Components \ (Jobs \cup {"prometheusRule", "serviceMonitor"})

\* Mutable components whose stored object carries fields the API server filled
\* in and the generated one does not, so that CreateOrUpdate always sees a
\* difference and sends an Update.
Defaulted == {"cronJob", "deployment", "service", "serviceProfiling"}

-----------------------------------------------------------------------------
(***************************************************************************)
(* The components generated for a spec: the non-nil fields.                *)
(***************************************************************************)
Given(feature, spec, components) ==
    IF feature \in spec.on THEN components ELSE {}

OwnServiceAccount(spec) == {"serviceAccount"} \ Given("customServiceAccount", spec, {"serviceAccount"})

newProfilingComponents(spec) ==
    {"serviceProfiling"} \cup Given("profilingIngress", spec, {"ingressProfiling"})

generateLookoutInstallComponents(spec) ==
    {"secret", "deployment", "service", "migration", "cronJob"}
        \cup OwnServiceAccount(spec)
        \cup newProfilingComponents(spec)
        \cup Given("prometheus", spec, {"serviceMonitor"})
        \cup Given("partitionJobTable", spec, {"partition"})
        \cup Given("hostNames", spec, {"ingressHttp"})

generateSchedulerInstallComponents(spec) ==
    {"secret", "deployment", "service", "migration", "cronJob"}
        \cup OwnServiceAccount(spec)
        \cup newProfilingComponents(spec)
        \cup Given("prometheus", spec, {"serviceMonitor", "prometheusRule"})
        \cup Given("hostNames", spec, {"ingressGrpc"})

generateArmadaServerInstallComponents(spec) ==
    {"secret", "deployment", "service", "podDisruptionBudget"}
        \cup OwnServiceAccount(spec)
        \cup newProfilingComponents(spec)
        \cup Given("prometheus", spec, {"serviceMonitor", "prometheusRule"})
        \cup Given("hostNames", spec, {"ingressGrpc", "ingressHttp"})
        \cup Given("pulsarInit", spec, {"waitForPulsar", "initPulsar"})

generateExecutorInstallComponents(spec) ==
    {"secret", "deployment", "service", "clusterRole", "binding"}
        \cup OwnServiceAccount(spec)
        \cup newProfilingComponents(spec)
        \cup Given("extraBinding", spec, {"extraBinding"})
        \cup Given("prometheus", spec, {"serviceMonitor", "prometheusRule"})

generateBinocularsInstallComponents(spec) ==
    {"secret", "deployment", "service", "clusterRole", "binding",
     "ingressGrpc", "ingressHttp"}
        \cup OwnServiceAccount(spec)
        \cup newProfilingComponents(spec)

\* The three ingesters generate the same fields.
IngesterComponents(spec) ==
    {"secret", "deployment"} \cup OwnServiceAccount(spec) \cup newProfilingComponents(spec)

generateEventIngesterComponents(spec)     == IngesterComponents(spec)
generateLookoutIngesterComponents(spec)   == IngesterComponents(spec)
generateSchedulerIngesterComponents(spec) == IngesterComponents(spec)

Generated(kind, spec) ==
    CASE kind = "Lookout"         -> generateLookoutInstallComponents(spec)
      [] kind = "Scheduler"       -> generateSchedulerInstallComponents(spec)
      [] kind = "ArmadaServer"    -> generateArmadaServerInstallComponents(spec)
      [] kind = "Executor"        -> generateExecutorInstallComponents(spec)
      [] kind = "Binoculars"      -> generateBinocularsInstallComponents(spec)
      [] kind = "EventIngester"   -> generateEventIngesterComponents(spec)
      [] kind = "LookoutIngester" -> generateLookoutIngesterComponents(spec)
      [] OTHER                    -> generateSchedulerIngesterComponents(spec)

\* The nil pointers that no webhook fills and that are followed all the same:
\* the ingresses read Spec.Ingress when there are host names, and Binoculars
\* sets an owner reference on the ingresses it has not made when there are none.
NilIngress(kind, spec) ==
    \/ /\ kind \in {"ArmadaServer", "Binoculars", "Lookout", "Scheduler"}
       /\ "hostNames" \in spec.on /\ "ingress" \notin spec.on
    \/ kind = "Binoculars" /\ "hostNames" \notin spec.on

\* Parsing and generation return components, neither an error nor a (recovered)
\* panic.
Generates(kind, spec) ==
    /\ spec.app \notin Malformed
    /\ ~NilIngress(kind, spec)

-----------------------------------------------------------------------------
(***************************************************************************)
(* The order of Reconcile.  A step is an operation on a component:         *)
(*   finalize   checkAndHandleObjectDeletion                               *)
(*   parse      ParseCommonApplicationConfig and the generation            *)
(*   upsert     upsertObjectIfNeeded                                       *)
(*   wait       waitForJob                                                 *)
(*   prune      upsert when pruning is on, deleteObjectIfNeeded otherwise  *)
(*   partition  the opt-in Job of Lookout, left as it is when it exists    *)
(*   status     the condition that reports on that Job                     *)
(***************************************************************************)
Step(op, component) == [op |-> op, c |-> component]
Finalize == Step("finalize", "none")
Parse    == Step("parse", "none")
Upsert(component) == Step("upsert", component)
JobRun(job) == <<Upsert(job), Step("wait", job)>>

\* Lookout in the order of the ArmadaServer.
LookoutReconcile_ParseFirst ==
    <<Parse, Finalize, Upsert("serviceAccount"), Upsert("secret")>>
      \o JobRun("migration") \o <<Upsert("deployment"), Upsert("service")>>

LookoutReconcile ==
    <<Finalize, Parse, Upsert("serviceAccount"), Upsert("secret")>>
      \o JobRun("migration")
      \o <<Upsert("deployment"), Upsert("service"), Upsert("ingressHttp"),
           Step("prune", "cronJob"), Upsert("serviceMonitor"),
           Step("partition", "partition"), Step("status", "partition")>>

SchedulerReconcile ==
    <<Finalize, Parse, Upsert("serviceAccount"), Upsert("secret")>>
      \o JobRun("migration")
      \o <<Upsert("deployment"), Upsert("service"), Upsert("serviceProfiling"),
           Upsert("ingressGrpc"), Upsert("ingressProfiling"),
           Upsert("serviceMonitor"), Upsert("prometheusRule"),
           Step("prune", "cronJob")>>

ArmadaServerReconcile ==
    <<Parse, Finalize, Upsert("serviceAccount"), Upsert("secret")>>
      \o JobRun("waitForPulsar") \o JobRun("initPulsar")
      \o <<Upsert("deployment"), Upsert("service"), Upsert("ingressGrpc"),
           Upsert("ingressHttp"), Upsert("podDisruptionBudget"),
           Upsert("prometheusRule"), Upsert("serviceMonitor")>>

ExecutorReconcile ==
    <<Parse, Finalize, Upsert("serviceAccount"), Upsert("clusterRole"),
      Upsert("binding"), Upsert("extraBinding"), Upsert("secret"),
      Upsert("deployment"), Upsert("service"), Upsert("prometheusRule"),
      Upsert("serviceMonitor")>>

BinocularsReconcile ==
    <<Parse, Finalize, Upsert("serviceAccount"), Upsert("clusterRole"),
      Upsert("binding"), Upsert("secret"), Upsert("deployment"),
      Upsert("service"), Upsert("ingressGrpc"), Upsert("ingressHttp")>>

EventIngesterReconcile ==
    <<Parse, Finalize, Upsert("serviceAccount"), Upsert("secret"),
      Upsert("deployment")>>

LookoutIngesterReconcile ==
    <<Finalize, Parse, Upsert("secret"), Upsert("serviceAccount"),
      Upsert("deployment")>>

SchedulerIngesterReconcile ==
    <<Finalize, Parse, Upsert("serviceAccount"), Upsert("secret"),
      Upsert("deployment")>>

Reconcile(kind) ==
    CASE kind = "Lookout"         -> LookoutReconcile
      [] kind = "Scheduler"       -> SchedulerReconcile
      [] kind = "ArmadaServer"    -> ArmadaServerReconcile
      [] kind = "Executor"        -> ExecutorReconcile
      [] kind = "Binoculars"      -> BinocularsReconcile
      [] kind = "EventIngester"   -> EventIngesterReconcile
      [] kind = "LookoutIngester" -> LookoutIngesterReconcile
      [] OTHER                    -> SchedulerIngesterReconcile

-----------------------------------------------------------------------------
(***************************************************************************)
(* What the cleanup function deletes, in order, before the finalizer goes. *)
(* The other controllers pass no cleanup function.                         *)
(***************************************************************************)
When(component, kind, spec) ==
    IF component \in Generated(kind, spec) THEN <<component>> ELSE << >>

\* A cleanup that forgets the bindings.
ExecutorDeleteExternalResources_NoBinding(spec) ==
    <<"clusterRole">> \o When("prometheusRule", "Executor", spec)

ExecutorDeleteExternalResources(spec) ==
    <<"clusterRole">> \o When("prometheusRule", "Executor", spec)
        \o <<"binding">> \o When("extraBinding", "Executor", spec)

BinocularsDeleteExternalResources == <<"clusterRole", "binding">>

ArmadaServerDeleteExternalResources(spec) == When("prometheusRule", "ArmadaServer", spec)

Cleanup(kind, spec) ==
    CASE kind = "Executor"     -> ExecutorDeleteExternalResources(spec)
      [] kind = "Binoculars"   -> BinocularsDeleteExternalResources
      [] kind = "ArmadaServer" -> ArmadaServerDeleteExternalResources(spec)
      [] OTHER                 -> << >>

=============================================================================
