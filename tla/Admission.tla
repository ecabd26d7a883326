------------------------------- MODULE Admission -------------------------------
(***************************************************************************)
(* The defaulting webhooks of api/install/v1alpha1: what the API server    *)
(* stores when a custom resource is created or updated.                    *)
(*                                                                         *)
(* The optional fields of a spec are its component opt: a field is nil, or *)
(* given by the user, or was filled in.  The fields inside another one     *)
(* (prunerResources, scrapeInterval) are listed beside it.  The schedule   *)
(* is the Scheduler's Pruner.Schedule and Lookout's DbPruningSchedule.     *)
(***************************************************************************)
EXTENDS Controllers

Optional == {"image", "migrate", "podSecurityContext", "prometheus", "pruner",
             "prunerResources", "replicas", "resources", "schedule",
             "scrapeInterval", "securityContext", "topologyKey"}

Values == {"nil", "given", "default"}

-----------------------------------------------------------------------------
\* Defaulting leaves alone what is there.
Fill(spec, fields) ==
    [spec EXCEPT !.opt = [f \in Optional |->
        IF f \in fields /\ spec.opt[f] = "nil" THEN "default" ELSE spec.opt[f]]]

\* What every defaulter fills in.
CommonDefaults == {"image", "podSecurityContext", "resources", "securityContext", "topologyKey"}

\* An interval of an enabled Prometheus; Executor and Lookout do not ask
\* whether it is enabled.
EnabledInterval(spec) == Given("prometheus", spec, {"scrapeInterval"})

AnyInterval(spec) == IF spec.opt["prometheus"] = "nil" THEN {} ELSE {"scrapeInterval"}

ArmadaServerDefaults(spec) ==
    Fill(spec, CommonDefaults \cup {"replicas"} \cup EnabledInterval(spec))

BinocularsDefaults(spec) ==
    Fill(spec, CommonDefaults \cup {"replicas"} \cup EnabledInterval(spec))

ExecutorDefaults(spec) ==
    Fill(spec, CommonDefaults \cup {"replicas"} \cup AnyInterval(spec))

LookoutDefaults(spec) ==
    Fill(spec, CommonDefaults \cup {"replicas", "migrate"} \cup AnyInterval(spec))

\* A pruner the user wrote gets neither resources nor a schedule.
NewPruner(spec) ==
    IF spec.opt["pruner"] = "nil" THEN {"pruner", "prunerResources", "schedule"} ELSE {}

\* The pruner and its resources, one after the other.
SchedulerDefaults_PrunerFirst(spec) ==
    Fill(spec, CommonDefaults \cup {"migrate"} \cup EnabledInterval(spec) \cup
               IF spec.opt["pruner"] = "nil" THEN {"pruner", "schedule"} ELSE {"prunerResources"})

SchedulerDefaults_NoPruner(spec) ==
    Fill(spec, CommonDefaults \cup {"migrate"} \cup EnabledInterval(spec))

SchedulerDefaults(spec) ==
    Fill(spec, CommonDefaults \cup {"migrate"} \cup EnabledInterval(spec) \cup NewPruner(spec))

EventIngesterDefaults(spec)     == Fill(spec, CommonDefaults \cup {"replicas"})
LookoutIngesterDefaults(spec)   == Fill(spec, CommonDefaults \cup {"replicas"})
SchedulerIngesterDefaults(spec) == Fill(spec, CommonDefaults \cup {"replicas"})

applyDefaults(kind, spec) ==
    CASE kind = "ArmadaServer"    -> ArmadaServerDefaults(spec)
      [] kind = "Binoculars"      -> BinocularsDefaults(spec)
      [] kind = "Executor"        -> ExecutorDefaults(spec)
      [] kind = "Lookout"         -> LookoutDefaults(spec)
      [] kind = "Scheduler"       -> SchedulerDefaults(spec)
      [] kind = "EventIngester"   -> EventIngesterDefaults(spec)
      [] kind = "LookoutIngester" -> LookoutIngesterDefaults(spec)
      [] OTHER                    -> SchedulerIngesterDefaults(spec)

\* What is stored of a spec that was sent: the manager registers all eight
\* webhooks, or, with ENABLE_WEBHOOKS=false, none.
Admit(webhooks, kind, spec) == IF webhooks THEN applyDefaults(kind, spec) ELSE spec

-----------------------------------------------------------------------------
\* A builder follows a pointer that is nil: the CronJob of the Scheduler, the
\* container of Binoculars, the ingresses.
NilDereference(kind, spec) ==
    \/ kind = "Scheduler" /\ spec.opt["pruner"] = "nil"
    \/ kind = "Binoculars" /\ spec.opt["resources"] = "nil"
    \/ NilIngress(kind, spec)

=============================================================================
