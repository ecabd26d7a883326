------------------------------- MODULE MCRollout -------------------------------
(***************************************************************************)
(* The instances of Rollout.                                               *)
(***************************************************************************)
EXTENDS RolloutProperties, TLC

TheName == <<"armada">>

\* Two configurations that differ in nothing the builders look at, one with
\* neither a profiling nor, for an Executor, a metrics port, one with a number
\* that is no port and one that is negative, and one with a port twice.
OwnPorts == [ports  |-> [grpc |-> 5000, http |-> 5001, metrics |-> 5002, profiling |-> 5003],
             metric |-> 9002, flags |-> Flags]

Configurations ==
    "first"  :> OwnPorts
 @@ "second" :> OwnPorts
 @@ "bare"   :> [ports |-> [profiling |-> 0], metric |-> 0, flags |-> {}]
 @@ "wild"   :> [ports |-> [http |-> 65536, profiling |-> -1], metric |-> 9002, flags |-> {}]
 @@ "alike"  :> [ports |-> [grpc |-> 8080], metric |-> 9002, flags |-> {}]

NothingGiven == [f \in Optional |-> "nil"]
PrometheusGiven == [NothingGiven EXCEPT !["prometheus"] = "given", !["pruner"] = "given",
                                          !["schedule"] = "given"]
PrunerGiven == [NothingGiven EXCEPT !["pruner"] = "given"]
AllGiven == [f \in Optional |-> "given"]

Asked(app, on, opt, role, labels) ==
    [labels |-> labels, spec |-> [app |-> app, on |-> on, opt |-> opt, role |-> role]]

NoLabels == << >>
BadLabels == [app |-> <<"other">>, release |-> <<"other">>]

Always == {"hostNames", "ingress"}
Everything == Features \ {"customServiceAccount"}

Minimal    == Asked("first", Always, NothingGiven, "view", NoLabels)
Full       == Asked("first", Everything, AllGiven, "view", BadLabels)
Promoted   == Asked("second", Everything, PrometheusGiven, "edit", BadLabels)
Unprofiled == Asked("bare", Always \cup {"customServiceAccount"}, NothingGiven, "view", BadLabels)

\* Host names without an ingress, ports that cannot be, a mount without a volume,
\* a pruner without a schedule.
Forgotten   == Asked("first", {"hostNames"}, NothingGiven, "view", NoLabels)
Wild        == Asked("wild", Always, NothingGiven, "view", NoLabels)
Alike       == Asked("alike", Always, NothingGiven, "view", NoLabels)
Unmounted   == Asked("first", Always \cup {"additionalVolumeMounts"}, NothingGiven, "view", NoLabels)
Unscheduled == Asked("second", Always \cup {"pruning"}, PrunerGiven, "view", NoLabels)

AllRequests ==
    [k \in Kinds |->
        {Minimal, Full, Promoted, Unprofiled} \cup
        CASE k = "Scheduler"    -> {Forgotten, Unscheduled}
          [] k = "ArmadaServer" -> {Forgotten, Unmounted}
          [] k = "Binoculars"   -> {Forgotten, Alike}
          [] k = "Executor"     -> {Wild}
          [] OTHER              -> {Unmounted}]
FewRequests == [k \in Kinds |-> {Full, Promoted}]

=============================================================================
