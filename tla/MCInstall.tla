------------------------------ MODULE MCInstall ------------------------------
(***************************************************************************)
(* Instances of Install for TLC.  "bad" is the malformed configuration.    *)
(***************************************************************************)
EXTENDS InstallClaims, TLC

WithApp(app, features) == [app |-> app, on |-> features]

OneCR == {<<"armada", "a">>}
TwoNames == {<<"armada", "a">>, <<"armada", "b">>}
TwoNamespaces == {<<"east", "a">>, <<"west", "a">>}

OnePlainSpec == {WithApp("A", {})}
SpecsOneBad == {WithApp("A", {}), WithApp("bad", {})}
MixedSpecs == {WithApp(app, {}) : app \in {"A", "B", "bad"}}

\* Lookout and Scheduler: partitioning and pruning on and off.
LookoutSpecs == {WithApp("A", {"partitionJobTable"}), WithApp("B", {})}
PartitionSpecs == {WithApp("A", {"partitionJobTable"})}
PartitionOnOff == PartitionSpecs \cup {WithApp("A", {})}
PruningOnOff == {WithApp("A", {"pruning"}), WithApp("B", {"pruning"}), WithApp("B", {})}

\* ArmadaServer: Pulsar is always initialised.
PulsarSpecs == {WithApp("A", {"pulsarInit"})}

\* Executor: an additional binding, given and taken back.
BindingSpecs == {WithApp("A", {"extraBinding"}), WithApp("A", {})}

\* Binoculars, with the host names it needs.
BinocularsSpecs == {WithApp(app, {"hostNames", "ingress"}) : app \in {"A", "bad"}}
=============================================================================
