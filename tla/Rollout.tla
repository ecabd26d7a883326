-------------------------------- MODULE Rollout --------------------------------
(***************************************************************************)
(* From the spec a user writes to the pods that run it: one custom         *)
(* resource of any kind, the webhooks it is sent through, the reconcile    *)
(* that turns it into objects, the API server that may refuse them, and    *)
(* the Deployment controller and the kubelet, which start pods from what   *)
(* is there at that moment.                                                *)
(*                                                                         *)
(* The subject is the contents of the objects.  Caches that lag, Jobs,     *)
(* deletion and other custom resources are module Install's: here reads    *)
(* are of the stored version and a wait may end or fail at any time.       *)
(***************************************************************************)
EXTENDS Admission, Manifests, FiniteSets

CONSTANTS
    Name,      \* the name of the custom resource
    Requests,  \* Requests[kind]: what users send, as [labels, spec]
    Reverts,   \* whether users go back to a configuration they had before
    MaxEdits,  \* bound on the number of changes users make
    MaxFaults, \* bound on the number of reconciles cut short
    MaxPods,   \* bound on the number of pods at a time that differ
    None       \* no custom resource

RolloutSpecs ==
    [app : Apps, on : SUBSET Features, opt : [Optional -> Values], role : {"edit", "view"}]

CustomResources(k) ==
    [name : {Name}, labels : {q.labels : q \in Requests[k]}, version : Nat,
     fin : BOOLEAN, spec : RolloutSpecs]

ASSUME RolloutAssumption ==
    /\ Name \in Seq(STRING)
    /\ \A k \in Kinds : \A q \in Requests[k] : q.spec \in RolloutSpecs
    /\ \A k \in Kinds : None \notin CustomResources(k)
    /\ Reverts \in BOOLEAN
    /\ MaxEdits \in Nat /\ MaxFaults \in Nat /\ MaxPods \in Nat

VARIABLES
    kind,      \* the kind of the custom resource
    webhooks,  \* whether the webhooks are registered
    cr,        \* the stored custom resource
    pc,        \* the step of Reconcile(kind) the worker is at, 0: none
    hand,      \* the copy the worker has in hand
    queued,    \* whether the workqueue holds the custom resource
    store,     \* the stored objects, by component
    pods,      \* the pods, as [template, config]: what they were made from
    past,      \* history: the configurations the custom resource has had
    faults     \* number of reconciles cut short

setting == <<kind, webhooks>>
worker  == <<pc, hand, queued>>
vars    == <<setting, cr, worker, store, pods, past, faults>>

Init ==
    /\ kind \in Kinds /\ webhooks \in BOOLEAN
    /\ cr = None
    /\ pc = 0 /\ hand = None /\ queued = FALSE
    /\ store = << >>
    /\ pods = {}
    /\ past = {} /\ faults = 0

Stored(c) == c \in DOMAIN store

Put(c, object) == store' = [d \in DOMAIN store \cup {c} |-> IF d = c THEN object ELSE store[d]]

-----------------------------------------------------------------------------
(***************************************************************************)
(* Users.  The version counts the changes of the custom resource.          *)
(***************************************************************************)
Store(q, version, fin) ==
    /\ cr' = [name |-> Name, labels |-> q.labels, version |-> version, fin |-> fin,
              spec |-> Admit(webhooks, kind, q.spec)]
    /\ queued' = TRUE

Create(q) ==
    /\ cr = None
    /\ Store(q, 1, FALSE)
    /\ past' = {q.spec.app}
    /\ UNCHANGED <<setting, pc, hand, store, pods, faults>>

Edit(q) ==
    /\ cr # None /\ cr.version < MaxEdits
    /\ Reverts \/ q.spec.app = cr.spec.app \/ q.spec.app \notin past
    /\ Store(q, cr.version + 1, cr.fin)
    /\ past' = past \cup {q.spec.app}
    /\ UNCHANGED <<setting, pc, hand, store, pods, faults>>

-----------------------------------------------------------------------------
(***************************************************************************)
(* The API server.                                                         *)
(***************************************************************************)
Ports == 1..MaxPort

Ingresses == {"ingressGrpc", "ingressHttp", "ingressProfiling"}

PortsUsable(ports) ==
    /\ \A p \in DOMAIN ports : ports[p] \in Ports
    /\ \A p, q \in DOMAIN ports : ports[p] = ports[q] => p = q

\* Every mount has its volume.
MountsHaveVolumes(pod) == pod.mounts \subseteq pod.volumes

ValidDeployment(object) ==
    /\ \A p \in DOMAIN object.template.ports : object.template.ports[p] \in Ports
    /\ MountsHaveVolumes(object.template.pod) /\ MountsHaveVolumes(object.template.pulsar)
    /\ Selects(object.selector, object.template.pod.labels)

Valid(c, object) ==
    /\ c \in {"service", "serviceProfiling"} => PortsUsable(object.ports)
    /\ c \in Ingresses => object.port \in Ports
    /\ c = "deployment" => ValidDeployment(object)
    /\ c \in Jobs \cup {"cronJob"} => MountsHaveVolumes(object.pod)
    /\ c = "cronJob" => object.schedule # "nil"

\* What an update may not change.
Immutable(c, object) ==
    CASE c \in {"binding", "extraBinding"} -> <<object.roleRef>>
      [] c = "deployment" -> <<object.selector>>
      [] c \in Jobs -> <<object.pod>>
      [] OTHER -> << >>

\* What CreateOrUpdate sends: a new object, or the stored one with the fields
\* that ReconcileComponents copies.
Sent(c) ==
    LET new == Manifest(kind, hand, c)
    IN  IF Stored(c) /\ c \notin Mutable THEN store[c] ELSE new

\* An object that is there and that nothing is copied onto is not sent.
Accepted(c) ==
    \/ Stored(c) /\ c \notin Mutable
    \/ /\ Valid(c, Sent(c))
       /\ Stored(c) => Immutable(c, Sent(c)) = Immutable(c, store[c])

-----------------------------------------------------------------------------
(***************************************************************************)
(* The worker.                                                             *)
(***************************************************************************)
Plan == Reconcile(kind)

At(op) == pc # 0 /\ Plan[pc].op = op

This == Plan[pc].c

Wanted(c) == c \in Generated(kind, hand.spec)

Onward ==
    /\ IF pc = Len(Plan) THEN pc' = 0 /\ hand' = None ELSE pc' = pc + 1 /\ UNCHANGED hand
    /\ UNCHANGED queued

\* The copy is still in hand when the worker has let it go.
Retry_KeepsHand == pc' = 0 /\ queued' = TRUE /\ UNCHANGED hand

Retry == pc' = 0 /\ hand' = None /\ queued' = TRUE

Dequeue ==
    /\ pc = 0 /\ queued
    /\ pc' = 1 /\ hand' = cr /\ queued' = FALSE
    /\ UNCHANGED <<setting, cr, store, pods, past, faults>>

\* The finalizer is written with the whole of the copy, which passes the
\* webhook once more; the answer becomes the copy.
FinalizeStep ==
    /\ At("finalize")
    /\ \/ hand.fin /\ Onward /\ UNCHANGED cr
       \/ /\ ~hand.fin /\ hand.version = cr.version
          /\ Store(hand, hand.version, TRUE)
          /\ hand' = cr' /\ pc' = pc + 1
       \/ ~hand.fin /\ hand.version # cr.version /\ Retry /\ UNCHANGED cr
    /\ UNCHANGED <<setting, store, pods, past, faults>>

CanGenerate ==
    /\ Generates(kind, hand.spec)
    /\ ~NilDereference(kind, hand.spec)
    /\ IngressesHavePorts(kind, hand)

ParseStep ==
    /\ At("parse")
    /\ IF CanGenerate THEN Onward ELSE Retry
    /\ UNCHANGED <<setting, cr, store, pods, past, faults>>

\* A refused write is logged and the reconcile goes on.
Write_ErrorDropped(c) ==
    IF Accepted(c) THEN Put(c, Sent(c)) /\ Onward
    ELSE Onward /\ UNCHANGED store

\* CreateOrUpdate, with an answer from the API server.
Write(c) ==
    IF Accepted(c) THEN Put(c, Sent(c)) /\ Onward
    ELSE Retry /\ UNCHANGED store

UpsertStep ==
    /\ At("upsert")
    /\ IF Wanted(This) THEN Write(This) ELSE Onward /\ UNCHANGED store
    /\ UNCHANGED <<setting, cr, pods, past, faults>>

PruneStep ==
    /\ At("prune")
    /\ IF "pruning" \in hand.spec.on THEN Write(This)
       ELSE /\ store' = [d \in DOMAIN store \ {This} |-> store[d]]
            /\ Onward
    /\ UNCHANGED <<setting, cr, pods, past, faults>>

\* Created once, after a migration that succeeded; skipped after one that did
\* not.
PartitionStep ==
    /\ At("partition")
    /\ \/ Wanted(This) /\ ~Stored(This) /\ Write(This)
       \/ Onward /\ UNCHANGED store
    /\ UNCHANGED <<setting, cr, pods, past, faults>>

\* A wait that ends, a condition that is reported.
OtherStep ==
    /\ At("wait") \/ At("status")
    /\ Onward
    /\ UNCHANGED <<setting, cr, store, pods, past, faults>>

\* A call fails, a wait times out or the operator restarts.
CutShort ==
    /\ pc # 0 /\ faults < MaxFaults
    /\ Retry
    /\ faults' = faults + 1
    /\ UNCHANGED <<setting, cr, store, pods, past>>

Resync ==
    /\ cr # None /\ queued' = TRUE
    /\ UNCHANGED <<setting, cr, pc, hand, store, pods, past, faults>>

-----------------------------------------------------------------------------
(***************************************************************************)
(* Pods.  A file mounted over a path is read when the pod starts and not   *)
(* again, whatever becomes of the Secret.                                  *)
(***************************************************************************)
StartedFrom(template) == [template |-> template, config |-> store["secret"].config]

Mountable(template) ==
    /\ Stored("secret")
    /\ template.pod.secret = store["secret"].name
    /\ template.pod.subPath = store["secret"].filename

StartPod ==
    /\ Stored("deployment") /\ Mountable(store["deployment"].template)
    /\ pods' = pods \cup {StartedFrom(store["deployment"].template)}
    /\ Cardinality(pods') <= MaxPods
    /\ UNCHANGED <<setting, cr, worker, store, past, faults>>

\* Evicted and replaced, by the ReplicaSet it belongs to.
ReplacePod(p) ==
    /\ Mountable(p.template)
    /\ pods' = (pods \ {p}) \cup {StartedFrom(p.template)}
    /\ UNCHANGED <<setting, cr, worker, store, past, faults>>

StopPod(p) ==
    /\ pods' = pods \ {p}
    /\ UNCHANGED <<setting, cr, worker, store, past, faults>>

-----------------------------------------------------------------------------
Operator ==
    \/ Dequeue \/ FinalizeStep \/ ParseStep \/ UpsertStep \/ PruneStep
    \/ PartitionStep \/ OtherStep

Next ==
    \/ \E q \in Requests[kind] : Create(q) \/ Edit(q)
    \/ Operator
    \/ CutShort
    \/ Resync
    \/ StartPod
    \/ \E p \in pods : ReplacePod(p) \/ StopPod(p)

Spec == Init /\ [][Next]_vars

=============================================================================
