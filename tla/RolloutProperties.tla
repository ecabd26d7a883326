--------------------------- MODULE RolloutProperties ---------------------------
(***************************************************************************)
(* What the contents of the objects have to be good for.                   *)
(***************************************************************************)
EXTENDS Rollout

\* The types of the variables; the objects are what Manifest makes of them.
TypeOK ==
    /\ kind \in Kinds /\ webhooks \in BOOLEAN
    /\ cr \in CustomResources(kind) \cup {None}
    /\ pc \in 0..Len(Plan) /\ queued \in BOOLEAN
    /\ hand \in CustomResources(kind) \cup {None} /\ (hand = None <=> pc = 0)
    /\ DOMAIN store \subseteq Components
    /\ past \subseteq Apps /\ faults \in 0..MaxFaults

AtRest == cr # None /\ pc = 0 /\ ~queued

RolledOut == \A p \in pods : p.template = store["deployment"].template

\* Once the last change is reconciled and rolled out, every pod runs the
\* configuration of the spec - though a pod reads the Secret once, when it
\* starts, and the Secret and the Deployment are written one after the other,
\* with edits, evictions and failures between (the checksum/config annotation
\* of the pod templates, the Secret before the Deployment in every Reconcile).
PodsRunConfig ==
    AtRest /\ RolledOut => \A p \in pods : p.config = cr.spec.app

\* The ports that a kind takes from the configuration, but for profiling.
UsedPorts(k) ==
    CASE k \in {"ArmadaServer", "Binoculars", "Scheduler"} -> {"grpc", "http", "metrics"}
      [] k = "Lookout"  -> {"http", "metrics"}
      [] k = "Executor" -> {"http"}
      [] OTHER          -> {"metrics"}

BadPorts(c) ==
    LET config == ParseCommonApplicationConfig(hand.spec.app)
    IN  \/ /\ c = "deployment"
           /\ \/ \E p \in UsedPorts(kind) : config[p] \notin Ports
              \/ config.profiling > MaxPort
              \/ kind = "Executor" /\ Written[hand.spec.app].metric = 0
        \/ /\ c = "service"
           /\ \E p, q \in UsedPorts(kind) : p # q /\ config[p] = config[q]
        \/ c = "serviceProfiling" /\ config.profiling < 1

\* A mount without a volume, in pods that are not there yet.
BadMounts(c) ==
    /\ c \in {"deployment", "cronJob"} \/ (c \in {"migration", "partition"} /\ ~Stored(c))
    /\ "additionalVolumeMounts" \in hand.spec.on /\ "additionalVolumes" \notin hand.spec.on

\* The writes that the API server refuses until users change their mind.
RefusedForGood(c) ==
    \/ BadPorts(c) \/ BadMounts(c)
    \/ c = "extraBinding" /\ Stored(c) /\ store[c].roleRef # hand.spec.role
    \/ kind = "Scheduler" /\ c = "cronJob" /\ hand.spec.opt["schedule"] = "nil"

Writing ==
    \/ (At("upsert") \/ At("partition")) /\ Wanted(This)
    \/ At("prune") /\ "pruning" \in hand.spec.on

\* Whatever users change, and whatever an earlier spec has left behind, the API
\* server refuses a write of the reconcile for its labels, selectors, immutable
\* fields, ports, mounts or schedule exactly where the user asks for what cannot
\* be: a Deployment with ports out of range (an Executor without a metrics port
\* too), a Service with one port twice, profiling of a Scheduler at no port, a
\* mount without a volume, another ClusterRole for an additional binding, a
\* pruned Scheduler without a schedule.  Ports that are wrong are met at the
\* Deployment and nowhere after it; ReconcileComponents copies no other
\* immutable field; AllLabels keeps the pods in their selector.
WritesAccepted == Writing => (Accepted(This) <=> ~RefusedForGood(This))

\* Through every roll-out, whatever labels users give, the Services have all pods
\* of the Deployment behind them, old and new, and none of those that prune and
\* partition ("its Pods must not carry the Lookout identity label which the
\* Lookout Service selects on", createLookoutPartitionJobTableJob).
Routing ==
    \A s \in {"service", "serviceProfiling"} \cap DOMAIN store :
        /\ \A p \in pods : Selects(store[s].selector, p.template.pod.labels)
        /\ \A c \in {"cronJob", "partition"} \cap DOMAIN store :
               ~Selects(store[s].selector, store[c].pod.labels)

-----------------------------------------------------------------------------
Installed(c) ==
    /\ c \in Generated(kind, cr.spec)
    /\ \E i \in 1..Len(Plan) : Plan[i] = Upsert(c)

Pruned == /\ "pruning" \in cr.spec.on
          /\ \E i \in 1..Len(Plan) : Plan[i] = Step("prune", "cronJob")

\* At rest every object the table keeps up to date is what the builders make of
\* the spec, to the last field, whatever the webhook, edits and reconciles cut
\* short have left behind (ReconcileComponents copies whole objects).
ObjectsCurrent ==
    AtRest =>
        \A c \in Components :
            Installed(c) \/ (c = "cronJob" /\ Pruned) =>
                Stored(c) /\ (c \in Mutable => store[c] = Manifest(kind, cr, c))

Pod == store["deployment"].template

IngressServed(c) ==
    \E s \in {"service", "serviceProfiling"} \cap DOMAIN store :
        /\ store[s].name = store[c].service
        /\ \E p \in DOMAIN store[s].ports : store[s].ports[p] = store[c].port
        /\ \E p \in DOMAIN Pod.ports : Pod.ports[p] = store[c].port

MetricsScraped ==
    \E s \in {"service", "serviceProfiling"} \cap DOMAIN store :
        /\ Selects(store["serviceMonitor"].selector, store[s].labels)
        /\ store["serviceMonitor"].port \in DOMAIN store[s].ports
        /\ \E p \in DOMAIN Pod.ports : Pod.ports[p] = store[s].ports[store["serviceMonitor"].port]

PodStarts ==
    /\ Mountable(Pod)
    /\ Installed("serviceAccount") => store["serviceAccount"].name = Pod.pod.account
    /\ Pod.probe # "none" => "http" \in DOMAIN Pod.ports

ExecutorBound ==
    /\ store["binding"].subject = Pod.pod.account
    /\ store["binding"].roleRef = store["clusterRole"].name
    /\ Installed("extraBinding") => store["extraBinding"].subject = Pod.pod.account

\* At rest the objects fit together, whichever edits and cut short reconciles
\* they come from: an ingress sends to a port that a Service of that name has
\* and the container listens on, Prometheus finds the metrics port, the pods can
\* mount the configuration and be probed, and the Executor's roles are bound to
\* the account its pods run under (the generate...InstallComponents functions).
Connected ==
    AtRest =>
        /\ \A c \in {"ingressGrpc", "ingressHttp", "ingressProfiling"} :
               Installed(c) => IngressServed(c)
        /\ Installed("serviceMonitor") => MetricsScraped
        /\ PodStarts
        /\ kind = "Executor" => ExecutorBound

\* Whatever users leave out in the first version or take out in a later one, with
\* the webhooks on a builder follows no nil pointer but the ingress that host
\* names call for and the user has not given (the Scheduler's CronJob, the
\* resources of Binoculars, newSchedulerIngressGRPC and the like); and with or
\* without them such a copy is never written for: the reconcile that panics has
\* left every object as it was.
NilSafe ==
    hand # None /\ NilDereference(kind, hand.spec) =>
        /\ webhooks => NilIngress(kind, hand.spec)
        /\ Plan[pc].op \in {"finalize", "parse"}

\* The operator's own writes of a custom resource go through the defaulting
\* webhooks too, and leave what the user asked for as it is (applyDefaults).
OperatorKeepsSpec ==
    [][cr # None /\ cr'.version = cr.version
         => cr'.spec = cr.spec /\ cr'.labels = cr.labels]_vars

=============================================================================
