------------------------------ MODULE PodsProofs ------------------------------
(***************************************************************************)
(* Every pod runs the configuration of the spec, once it is rolled out and *)
(* as long as users do not go back to a configuration they had before: for *)
(* every kind, every set of requests, every configuration and every bound. *)
(***************************************************************************)
EXTENDS RolloutProofs

-----------------------------------------------------------------------------
(***************************************************************************)
(* The invariant.                                                          *)
(***************************************************************************)
\* The pod templates there are: of pods, and of the Deployment.
Templates == {p.template : p \in pods} \cup
             (IF Stored("deployment") THEN {store["deployment"].template} ELSE {})

Shown(app) == \E t \in Templates : t.checksum = app

\* A configuration that is nowhere in past is nowhere else either.
Known ==
    /\ cr # None => cr.spec.app \in past
    /\ hand # None => hand.spec.app \in past
    /\ \A t \in Templates : t.checksum \in past
    /\ cr = None => Templates = {}

\* The configuration of the spec is in no template before a reconcile with it
\* has begun.
NotAhead ==
    hand # None /\ hand.spec.app # cr.spec.app => ~Shown(cr.spec.app)

\* When it is in a template, the Secret has it, and so have the pods that show
\* it.
Backed ==
    cr # None /\ Shown(cr.spec.app) =>
        /\ Stored("secret") /\ store["secret"].config = cr.spec.app
        /\ \A p \in pods : p.template.checksum = cr.spec.app => p.config = cr.spec.app

Passed(c) == \E i \in 1..Len(Plan) : i < pc /\ Plan[i] = Upsert(c)

SecretIs(app) == Stored("secret") /\ store["secret"].config = app
DeploymentIs(app) == Stored("deployment") /\ store["deployment"].template.checksum = app

\* What the reconcile in hand has written so far is there.
InPlace ==
    hand # None =>
        /\ Passed("secret") => SecretIs(hand.spec.app)
        /\ Passed("deployment") => DeploymentIs(hand.spec.app)

\* An edit that the worker has not seen is in the workqueue.
Abreast ==
    /\ hand # None /\ ~queued => hand.spec.app = cr.spec.app
    /\ AtRest => DeploymentIs(cr.spec.app)

PInv == Known /\ NotAhead /\ Backed /\ InPlace /\ Abreast

-----------------------------------------------------------------------------
(***************************************************************************)
(* The order of the tables.                                                *)
(***************************************************************************)
HasSecret(p) == \E i \in 1..Len(p) : p[i] = Upsert("secret")

NoDeployment(p) == \A i \in 1..Len(p) : p[i] # Upsert("deployment")

Ordered(p) ==
    /\ \E i \in 1..Len(p) : p[i] = Upsert("deployment")
    /\ \A i \in 1..Len(p) : p[i] = Upsert("deployment") =>
          \E j \in 1..Len(p) : j < i /\ p[j] = Upsert("secret")

LEMMA OrderedAppend ==
    ASSUME NEW S, NEW u \in Seq(S), NEW v \in Seq(S)
    PROVE  /\ NoDeployment(u) /\ NoDeployment(v) => NoDeployment(u \o v)
           /\ HasSecret(u) => HasSecret(u \o v)
           /\ HasSecret(u) /\ NoDeployment(u) /\ v[1] = Upsert("deployment") /\ Len(v) > 0
                => Ordered(u \o v)
<1>1. /\ u \o v \in Seq(S) /\ Len(u) \in Nat /\ Len(v) \in Nat
      /\ Len(u \o v) = Len(u) + Len(v)
      /\ \A i \in 1..Len(u) : (u \o v)[i] = u[i]
      /\ \A i \in 1..Len(v) : (u \o v)[Len(u) + i] = v[i]
  OBVIOUS
<1> DEFINE w == u \o v
<1>2. \A i \in 1..Len(w) : i \in 1..Len(u) \/ \E j \in 1..Len(v) : i = Len(u) + j
  <2> SUFFICES ASSUME NEW i \in 1..Len(w), i \notin 1..Len(u)
               PROVE  \E j \in 1..Len(v) : i = Len(u) + j
    OBVIOUS
  <2>1. i - Len(u) \in 1..Len(v) /\ i = Len(u) + (i - Len(u))
    BY <1>1
  <2> QED
    BY <2>1
<1>3. \A i \in 1..Len(u) : i \in 1..Len(w)
  BY <1>1
<1>4. Len(v) > 0 => Len(u) + 1 \in 1..Len(w) /\ 1 \in 1..Len(v)
  BY <1>1
<1> HIDE DEF w
<1>5. NoDeployment(u) /\ NoDeployment(v) => NoDeployment(w)
  BY <1>1, <1>2 DEF NoDeployment, w
<1>6. HasSecret(u) => HasSecret(w)
  BY <1>1, <1>3 DEF HasSecret, w
<1>7. ASSUME HasSecret(u), NoDeployment(u), v[1] = Upsert("deployment"), Len(v) > 0
      PROVE  Ordered(w)
  <2>1. w[Len(u) + 1] = Upsert("deployment")
    BY <1>1, <1>4, <1>7 DEF w
  <2>2. PICK j \in 1..Len(u) : u[j] = Upsert("secret")
    BY <1>7 DEF HasSecret
  <2>3. j \in 1..Len(w) /\ w[j] = Upsert("secret")
    BY <1>1, <1>3, <2>2 DEF w
  <2>4. ASSUME NEW i \in 1..Len(w), w[i] = Upsert("deployment")
        PROVE  j < i
    <3>1. i \notin 1..Len(u)
      BY <1>1, <1>7, <2>4 DEF NoDeployment, w
    <3> QED
      BY <1>1, <3>1, <2>2
  <2> QED
    BY <1>4, <1>7, <2>1, <2>3, <2>4 DEF Ordered
<1> QED
  BY <1>5, <1>6, <1>7 DEF w

LEMMA StillNoDeployment ==
    ASSUME NEW S, NEW u \in Seq(S), NEW v \in Seq(S),
           HasSecret(u), NoDeployment(u), NoDeployment(v)
    PROVE  u \o v \in Seq(S) /\ HasSecret(u \o v) /\ NoDeployment(u \o v)
<1>1. u \o v \in Seq(S)
  OBVIOUS
<1> QED
  BY <1>1, OrderedAppend

\* In all eight tables the Deployment comes after the Secret.
LEMMA PlansAreOrdered ==
    ASSUME NEW k \in Kinds
    PROVE  Ordered(Reconcile(k))
<1> USE StepsOfTables
<1>1. /\ Upsert("deployment") # Upsert("secret")
      /\ \A c : c # "deployment" => Upsert(c) # Upsert("deployment")
      /\ Finalize # Upsert("deployment") /\ Parse # Upsert("deployment")
      /\ \A c : Step("wait", c) # Upsert("deployment")
  BY DEF Upsert, Step, Finalize, Parse
<1>2. \A c : c # "deployment" => NoDeployment(JobRun(c))
  BY <1>1 DEF NoDeployment, JobRun
<1>3. ASSUME NEW u \in Seq(StepsOf(k)), HasSecret(u), NoDeployment(u),
             NEW c \in {"migration", "waitForPulsar", "initPulsar"}
      PROVE  /\ u \o JobRun(c) \in Seq(StepsOf(k))
             /\ HasSecret(u \o JobRun(c)) /\ NoDeployment(u \o JobRun(c))
  <2>1. JobRun(c) \in Seq(StepsOf(k)) /\ NoDeployment(JobRun(c))
    BY <1>2, <1>3
  <2> QED
    BY <1>3, <2>1, StillNoDeployment
<1> DEFINE FinalizeFirst == <<Finalize, Parse, Upsert("serviceAccount"), Upsert("secret")>>
           ParseFirst == <<Parse, Finalize, Upsert("serviceAccount"), Upsert("secret")>>
<1>4. FinalizeFirst \in Seq(StepsOf(k)) /\ HasSecret(FinalizeFirst) /\ NoDeployment(FinalizeFirst)
  BY <1>1 DEF HasSecret, NoDeployment
<1>5. ParseFirst \in Seq(StepsOf(k)) /\ HasSecret(ParseFirst) /\ NoDeployment(ParseFirst)
  BY <1>1 DEF HasSecret, NoDeployment
<1>6. CASE k = "Lookout"
  <2> DEFINE rest == <<Upsert("deployment"), Upsert("service"), Upsert("ingressHttp"),
                       Step("prune", "cronJob"), Upsert("serviceMonitor"),
                       Step("partition", "partition"), Step("status", "partition")>>
  <2>1. rest \in Seq(StepsOf(k)) /\ Len(rest) > 0 /\ rest[1] = Upsert("deployment")
    BY <1>6
  <2> HIDE DEF rest, FinalizeFirst
  <2>2. Ordered((FinalizeFirst \o JobRun("migration")) \o rest)
    BY <1>3, <1>4, <2>1, OrderedAppend
  <2> QED
    BY <1>6, <2>2 DEF Reconcile, LookoutReconcile, rest, FinalizeFirst
<1>7. CASE k = "Scheduler"
  <2> DEFINE rest == <<Upsert("deployment"), Upsert("service"), Upsert("serviceProfiling"),
                       Upsert("ingressGrpc"), Upsert("ingressProfiling"),
                       Upsert("serviceMonitor"), Upsert("prometheusRule"),
                       Step("prune", "cronJob")>>
  <2>1. rest \in Seq(StepsOf(k)) /\ Len(rest) > 0 /\ rest[1] = Upsert("deployment")
    BY <1>7
  <2> HIDE DEF rest, FinalizeFirst
  <2>2. Ordered((FinalizeFirst \o JobRun("migration")) \o rest)
    BY <1>3, <1>4, <2>1, OrderedAppend
  <2> QED
    BY <1>7, <2>2 DEF Reconcile, SchedulerReconcile, rest, FinalizeFirst
<1>8. CASE k = "ArmadaServer"
  <2> DEFINE rest == <<Upsert("deployment"), Upsert("service"), Upsert("ingressGrpc"),
                       Upsert("ingressHttp"), Upsert("podDisruptionBudget"),
                       Upsert("prometheusRule"), Upsert("serviceMonitor")>>
             jobs == (ParseFirst \o JobRun("waitForPulsar")) \o JobRun("initPulsar")
  <2>1. rest \in Seq(StepsOf(k)) /\ Len(rest) > 0 /\ rest[1] = Upsert("deployment")
    OBVIOUS
  <2>2. jobs \in Seq(StepsOf(k)) /\ HasSecret(jobs) /\ NoDeployment(jobs)
    <3> HIDE DEF ParseFirst
    <3>1. LET u == ParseFirst \o JobRun("waitForPulsar")
          IN  u \in Seq(StepsOf(k)) /\ HasSecret(u) /\ NoDeployment(u)
      BY <1>3, <1>5
    <3> QED
      BY <1>3, <3>1
  <2> HIDE DEF rest, jobs
  <2>3. Ordered(jobs \o rest)
    BY <2>1, <2>2, OrderedAppend
  <2> QED
    BY <1>8, <2>3 DEF Reconcile, ArmadaServerReconcile, rest, jobs, ParseFirst
<1>9. Ordered(ExecutorReconcile)
  BY <1>1 DEF Ordered, ExecutorReconcile
<1>10. Ordered(BinocularsReconcile)
  BY <1>1 DEF Ordered, BinocularsReconcile
<1>11. Ordered(EventIngesterReconcile)
  BY <1>1 DEF Ordered, EventIngesterReconcile
<1>12. Ordered(LookoutIngesterReconcile)
  BY <1>1 DEF Ordered, LookoutIngesterReconcile
<1>13. Ordered(SchedulerIngesterReconcile)
  BY <1>1 DEF Ordered, SchedulerIngesterReconcile
<1> QED
  BY <1>6, <1>7, <1>8, <1>9, <1>10, <1>11, <1>12, <1>13 DEF Reconcile, Kinds

-----------------------------------------------------------------------------
(***************************************************************************)
(* What the worker writes.                                                 *)
(***************************************************************************)
LEMMA WritesTheSpec ==
    ASSUME NEW k \in Kinds, NEW r
    PROVE  /\ Manifest(k, r, "secret").config = r.spec.app
           /\ Manifest(k, r, "deployment").template.checksum = r.spec.app
           /\ "secret" \in Generated(k, r.spec) /\ "deployment" \in Generated(k, r.spec)
<1>1. Manifest(k, r, "secret") = CreateSecret(r)
  BY DEF Manifest, ArmadaServerManifest, BinocularsManifest, ExecutorManifest,
         LookoutManifest, SchedulerManifest, CommonManifest
<1>2. CreateSecret(r).config = r.spec.app
  BY DEF CreateSecret
<1>3. PICK ports, probe, pulsar : Manifest(k, r, "deployment") = Deployment(r, ports, probe, pulsar)
  BY DeploymentManifest
<1>4. Deployment(r, ports, probe, pulsar).template.checksum = r.spec.app
  BY DEF Deployment
<1>5. "secret" \in Generated(k, r.spec) /\ "deployment" \in Generated(k, r.spec)
  BY DEF Generated, Kinds, generateLookoutInstallComponents, generateArmadaServerInstallComponents,
         generateExecutorInstallComponents, generateBinocularsInstallComponents,
         generateSchedulerInstallComponents, generateEventIngesterComponents,
         generateLookoutIngesterComponents, generateSchedulerIngesterComponents,
         IngesterComponents
<1> QED
  BY <1>1, <1>2, <1>3, <1>4, <1>5

Same(c) ==
    /\ c \in DOMAIN store' <=> c \in DOMAIN store
    /\ c \in DOMAIN store => store'[c] = store[c]

\* The worker goes on, and has written what its step of the table is about.
Advances ==
    /\ Onward
    /\ IF Plan[pc] = Upsert("secret")
       THEN "secret" \in DOMAIN store' /\ store'["secret"].config = hand.spec.app
       ELSE Same("secret")
    /\ IF Plan[pc] = Upsert("deployment")
       THEN /\ "deployment" \in DOMAIN store'
            /\ store'["deployment"].template.checksum = hand.spec.app
       ELSE Same("deployment")

\* The worker gives up and has written neither.
GivesUp == Retry /\ Same("secret") /\ Same("deployment")

\* A step of the worker on the copy it has.
WorkerMoves ==
    pc # 0 /\ UNCHANGED <<setting, cr, past, pods>> /\ (Advances \/ GivesUp)

LEMMA WorkerStepsMove ==
    ASSUME WInv, ParseStep \/ UpsertStep \/ PruneStep \/ PartitionStep \/ OtherStep \/ CutShort
                   \/ (FinalizeStep /\ (Onward \/ Retry) /\ UNCHANGED cr)
    PROVE  WorkerMoves
<1> DEFINE SD == {"secret", "deployment"}
<1>1. pc # 0 /\ UNCHANGED <<setting, cr, past, pods>>
  BY DEF ParseStep, UpsertStep, PruneStep, PartitionStep, OtherStep, CutShort, FinalizeStep, At
<1>2. /\ pc \in 1..Len(Plan) /\ kind \in Kinds /\ hand \in CustomResources(kind)
      /\ Plan[pc] \in StepsOf(kind)
  BY <1>1, PlansAreGood DEF WInv, WorkType, GoodPlan, Plan
<1>3. \A c : Plan[pc] = Upsert(c) <=> Plan[pc].op = "upsert" /\ This = c
  BY <1>2 DEF StepsOf, Upsert, Step, This
<1>4. CASE (Onward \/ Retry) /\ store' = store /\ Plan[pc].op # "upsert"
  BY <1>1, <1>3, <1>4 DEF WorkerMoves, Advances, GivesUp, Same, Stored
<1>5. CASE ParseStep \/ OtherStep \/ (FinalizeStep /\ (Onward \/ Retry))
  <2>1. (Onward \/ Retry) /\ store' = store /\ Plan[pc].op # "upsert"
    BY <1>5 DEF ParseStep, OtherStep, FinalizeStep, At
  <2> QED
    BY <1>4, <2>1
<1>6. CASE CutShort
  BY <1>1, <1>6 DEF CutShort, WorkerMoves, GivesUp, Same, Stored
<1>7. ASSUME NEW c, c \notin SD, Put(c, Sent(c)) \/ store' = [d \in DOMAIN store \ {c} |-> store[d]]
      PROVE  \A d \in SD : Same(d)
  <2>1. \A d \in SD : d # c
    BY <1>7
  <2>2. CASE Put(c, Sent(c))
    BY <2>1, <2>2 DEF Put, Same, Stored
  <2>3. CASE store' = [d \in DOMAIN store \ {c} |-> store[d]]
    BY <2>1, <2>3 DEF Same, Stored
  <2> QED
    BY <1>7, <2>2, <2>3
<1>8. CASE UpsertStep
  <2>1. Plan[pc].op = "upsert"
    BY <1>8 DEF UpsertStep, At
  <2>2. CASE This \in SD
    <3>1. Wanted(This)
      BY <1>2, <2>2, WritesTheSpec DEF Wanted
    <3>2. Sent(This) = Manifest(kind, hand, This)
      BY <2>2 DEF Sent, Mutable, Components, Jobs
    <3>3. CASE Put(This, Sent(This)) /\ Onward
      <4> DEFINE other == IF This = "secret" THEN "deployment" ELSE "secret"
      <4>1. This \in DOMAIN store' /\ store'[This] = Manifest(kind, hand, This)
        BY <3>2, <3>3 DEF Put
      <4>2. Same(other)
        <5>1. other # This
          BY <2>2
        <5> HIDE DEF other
        <5> QED
          BY <3>3, <5>1 DEF Put, Same, Stored
      <4>3. Plan[pc] = Upsert(This) /\ Plan[pc] # Upsert(other)
        BY <1>3, <2>1, <2>2
      <4>4. CASE This = "secret"
        BY <1>1, <1>2, <3>3, <4>1, <4>2, <4>3, <4>4, WritesTheSpec DEF WorkerMoves, Advances, GivesUp
      <4>5. CASE This = "deployment"
        BY <1>1, <1>2, <3>3, <4>1, <4>2, <4>3, <4>5, WritesTheSpec DEF WorkerMoves, Advances, GivesUp
      <4> QED
        BY <2>2, <4>4, <4>5
    <3>4. CASE Retry /\ store' = store
      BY <1>1, <3>4 DEF WorkerMoves, Advances, GivesUp, Same, Stored
    <3> QED
      BY <1>8, <3>1, <3>3, <3>4 DEF UpsertStep, Write
  <2>3. CASE This \notin SD
    <3>1. Plan[pc] # Upsert("secret") /\ Plan[pc] # Upsert("deployment")
      BY <1>3, <2>3
    <3>2. \/ (Onward \/ Retry) /\ store' = store
          \/ Onward /\ Put(This, Sent(This))
      BY <1>8 DEF UpsertStep, Write
    <3>3. (Onward \/ Retry) /\ Same("secret") /\ Same("deployment")
      BY <1>7, <2>3, <3>2 DEF Same, Stored
    <3> QED
      BY <1>1, <3>1, <3>3 DEF WorkerMoves, Advances, GivesUp
  <2> QED
    BY <2>2, <2>3
<1>9. CASE PruneStep \/ PartitionStep
  <2>1. /\ Plan[pc].op \in {"prune", "partition"} /\ This \notin SD
        /\ Plan[pc] # Upsert("secret") /\ Plan[pc] # Upsert("deployment")
    BY <1>2, <1>3, <1>9 DEF PruneStep, PartitionStep, At, StepsOf, This
  <2>2. \/ (Onward \/ Retry) /\ store' = store
        \/ Onward /\ (Put(This, Sent(This)) \/ store' = [d \in DOMAIN store \ {This} |-> store[d]])
    BY <1>9 DEF PruneStep, PartitionStep, Write
  <2>3. (Onward \/ Retry) /\ Same("secret") /\ Same("deployment")
    BY <1>7, <2>1, <2>2 DEF Same, Stored
  <2> QED
    BY <1>1, <2>1, <2>3 DEF WorkerMoves, Advances, GivesUp
<1> QED
  BY <1>5, <1>6, <1>8, <1>9

-----------------------------------------------------------------------------
(***************************************************************************)
(* The invariant holds.                                                    *)
(***************************************************************************)
\* The Deployment is never written before the Secret of the same reconcile.
LEMMA SecretIsPassed ==
    ASSUME WInv, pc # 0, Plan[pc] = Upsert("deployment")
    PROVE  Passed("secret")
<1>1. pc \in 1..Len(Plan) /\ Ordered(Plan)
  BY PlansAreOrdered DEF WInv, WorkType, Plan
<1> QED
  BY <1>1 DEF Ordered, Passed

\* What a step that goes on leaves behind.
LEMMA AdvancesKeepsPlace ==
    ASSUME WInv, PInv, WorkerMoves, Advances, NEW i \in 1..Len(Plan), i <= pc
    PROVE  /\ Plan[i] = Upsert("secret") =>
                "secret" \in DOMAIN store' /\ store'["secret"].config = hand.spec.app
           /\ Plan[i] = Upsert("deployment") =>
                /\ "deployment" \in DOMAIN store'
                /\ store'["deployment"].template.checksum = hand.spec.app
<1>1. pc \in 1..Len(Plan) /\ hand # None
  BY DEF WorkerMoves, WInv, WorkType
<1>2. ASSUME NEW c, Plan[i] = Upsert(c), Plan[pc] # Upsert(c)
      PROVE  Passed(c)
  <2>1. i < pc
    BY <1>1, <1>2
  <2> QED
    BY <1>2, <2>1 DEF Passed
<1>3. /\ Passed("secret") => "secret" \in DOMAIN store /\ store["secret"].config = hand.spec.app
      /\ Passed("deployment") =>
            /\ "deployment" \in DOMAIN store
            /\ store["deployment"].template.checksum = hand.spec.app
  BY <1>1 DEF PInv, InPlace, SecretIs, DeploymentIs, Stored
<1> QED
  BY <1>2, <1>3 DEF Advances, Same

\* Configurations known, and those in templates, after a step of the worker.
LEMMA MovesShow ==
    ASSUME WInv, PInv, WorkerMoves, NEW app
    PROVE  Shown(app)' => \/ Shown(app)
                          \/ Advances /\ Plan[pc] = Upsert("deployment") /\ app = hand.spec.app
<1> SUFFICES ASSUME NEW t \in Templates', t.checksum = app, t \notin Templates
             PROVE  Advances /\ Plan[pc] = Upsert("deployment") /\ app = hand.spec.app
  BY DEF Shown
<1>1. "deployment" \in DOMAIN store' /\ t = store'["deployment"].template
  BY DEF Templates, Stored, WorkerMoves
<1>2. ~Same("deployment")
  BY <1>1 DEF Templates, Stored, Same
<1> QED
  BY <1>1, <1>2 DEF WorkerMoves, Advances, GivesUp

LEMMA MovesKeepPInv ==
    ASSUME WInv, PInv, WorkerMoves
    PROVE  PInv'
<1>1. /\ pc \in 1..Len(Plan) /\ hand # None /\ cr # None /\ Len(Plan) \in Nat
      /\ cr' = cr /\ past' = past /\ pods' = pods /\ Plan' = Plan
      /\ queued \in BOOLEAN
  BY PlansAreGood DEF WorkerMoves, WInv, WorkType, HandSeen, setting, Plan, GoodPlan
<1>2. \/ hand' = None /\ pc' = 0
      \/ hand' = hand /\ pc' = pc + 1 /\ Advances /\ queued' = queued
  BY <1>1 DEF WorkerMoves, Advances, GivesUp, Onward, Retry
<1>3. Known'
  <2>1. ASSUME NEW t \in Templates' PROVE t.checksum \in past
    <3>1. Shown(t.checksum)'
      BY DEF Shown
    <3>2. CASE Shown(t.checksum)
      BY <3>2 DEF PInv, Known, Shown
    <3>3. CASE t.checksum = hand.spec.app
      BY <1>1, <3>3 DEF PInv, Known
    <3> QED
      BY <3>1, <3>2, <3>3, MovesShow
  <2> QED
    BY <1>1, <1>2, <2>1 DEF PInv, Known
<1>4. NotAhead'
  <2> SUFFICES ASSUME hand' = hand, hand.spec.app # cr.spec.app
               PROVE  ~Shown(cr.spec.app)'
    BY <1>1, <1>2 DEF NotAhead
  <2>1. PICK app : app = cr.spec.app
    OBVIOUS
  <2>2. ~Shown(app)
    BY <1>1, <2>1 DEF PInv, NotAhead
  <2>3. ~Shown(app)'
    BY <2>1, <2>2, MovesShow
  <2> QED
    BY <1>1, <2>1, <2>3 DEF Shown
<1>5. Backed'
  <2> SUFFICES ASSUME Shown(cr.spec.app)'
               PROVE  /\ "secret" \in DOMAIN store' /\ store'["secret"].config = cr.spec.app
                      /\ \A p \in pods : p.template.checksum = cr.spec.app => p.config = cr.spec.app
    BY <1>1 DEF Backed, Stored
  <2>1. CASE Shown(cr.spec.app)
    <3>1. hand.spec.app = cr.spec.app
      BY <1>1, <2>1 DEF PInv, NotAhead
    <3>2. "secret" \in DOMAIN store' /\ store'["secret"].config = cr.spec.app
      BY <1>1, <2>1, <3>1 DEF PInv, Backed, WorkerMoves, Advances, GivesUp, Same, Stored
    <3> QED
      BY <1>1, <2>1, <3>2 DEF PInv, Backed
  <2>2. CASE ~Shown(cr.spec.app)
    <3>1. Advances /\ Plan[pc] = Upsert("deployment") /\ cr.spec.app = hand.spec.app
      <4>1. PICK app : app = cr.spec.app
        OBVIOUS
      <4>2. ~Shown(app) /\ Shown(app)'
        BY <1>1, <2>2, <4>1 DEF Shown
      <4> QED
        BY <4>1, <4>2, MovesShow
    <3>2. "secret" \in DOMAIN store /\ store["secret"].config = hand.spec.app
      BY <1>1, <3>1, SecretIsPassed DEF PInv, InPlace, SecretIs, Stored
    <3>3. Same("secret")
      BY <3>1 DEF Advances, Upsert, Step
    <3>4. \A p \in pods : p.template.checksum # cr.spec.app
      BY <2>2 DEF Shown, Templates
    <3> QED
      BY <3>1, <3>2, <3>3, <3>4 DEF Same
  <2> QED
    BY <2>1, <2>2
<1>6. InPlace'
  <2> SUFFICES ASSUME hand' = hand, pc' = pc + 1, Advances,
                      NEW i \in 1..Len(Plan), i < pc + 1
               PROVE  /\ Plan[i] = Upsert("secret") =>
                            "secret" \in DOMAIN store' /\ store'["secret"].config = hand.spec.app
                      /\ Plan[i] = Upsert("deployment") =>
                            /\ "deployment" \in DOMAIN store'
                            /\ store'["deployment"].template.checksum = hand.spec.app
    BY <1>1, <1>2 DEF InPlace, Passed, SecretIs, DeploymentIs, Stored
  <2>1. i <= pc
    BY <1>1
  <2> QED
    BY <2>1, AdvancesKeepsPlace
<1>7. Abreast'
  <2>1. hand' # None /\ ~queued' => hand'.spec.app = cr'.spec.app
    BY <1>1, <1>2 DEF PInv, Abreast
  <2>2. ASSUME pc' = 0, ~queued'
        PROVE  /\ "deployment" \in DOMAIN store'
               /\ store'["deployment"].template.checksum = cr.spec.app
    <3>1. Advances /\ pc = Len(Plan) /\ ~queued
      BY <1>1, <2>2 DEF WorkerMoves, Advances, GivesUp, Onward, Retry
    <3>2. PICK i \in 1..Len(Plan) : Plan[i] = Upsert("deployment")
      BY PlansAreOrdered DEF WInv, WorkType, Plan, Ordered
    <3>3. i <= pc
      BY <1>1, <3>1
    <3>4. hand.spec.app = cr.spec.app
      BY <1>1, <3>1 DEF PInv, Abreast
    <3> QED
      BY <3>1, <3>2, <3>3, <3>4, AdvancesKeepsPlace
  <2> QED
    BY <1>1, <2>1, <2>2 DEF Abreast, AtRest, DeploymentIs, Stored
<1> QED
  BY <1>3, <1>4, <1>5, <1>6, <1>7 DEF PInv

\* Admission leaves the configuration alone.
LEMMA AdmitsTheConfiguration ==
    ASSUME NEW k \in Kinds, NEW spec \in RolloutSpecs, NEW registered
    PROVE  Admit(registered, k, spec).app = spec.app
<1>1. \A F : Fill(spec, F).app = spec.app
  <2> SUFFICES ASSUME NEW F PROVE Fill(spec, F).app = spec.app
    OBVIOUS
  <2> DEFINE opt == [f \in Optional |->
                IF f \in F /\ spec.opt[f] = "nil" THEN "default" ELSE spec.opt[f]]
  <2>1. Fill(spec, F) = [spec EXCEPT !.opt = opt]
    BY DEF Fill
  <2> HIDE DEF opt
  <2> QED
    BY <2>1 DEF RolloutSpecs
<1>2. PICK F : applyDefaults(k, spec) = Fill(spec, F)
  BY DefaultsAreFilled
<1> QED
  BY <1>1, <1>2 DEF Admit

\* A new configuration is in no template; one that stays changes nothing.
LEMMA UsersKeepPInv ==
    ASSUME ~Reverts, WInv, PInv, NEW q \in Requests[kind], Create(q) \/ Edit(q)
    PROVE  PInv'
<1>1. /\ hand' = hand /\ pc' = pc /\ store' = store /\ pods' = pods /\ Plan' = Plan
      /\ Templates' = Templates /\ kind \in Kinds /\ q.spec \in RolloutSpecs
  BY RolloutAssumption DEF Create, Edit, setting, Plan, Templates, Stored, WInv, WorkType
<1>2. queued' = TRUE /\ cr'.spec.app = q.spec.app
  BY <1>1, AdmitsTheConfiguration DEF Create, Edit, Store
<1>3. past' = (IF cr = None THEN {} ELSE past) \cup {q.spec.app}
  BY DEF Create, Edit
<1>4. cr = None => hand = None /\ Templates = {}
  BY DEF PInv, Known, WInv, HandSeen
<1>5. cr # None /\ q.spec.app # cr.spec.app => q.spec.app \notin past
  BY DEF Create, Edit
<1>6. \A t \in Templates : t.checksum \in past
  BY DEF PInv, Known
<1>7. Known'
  <2>1. WInv'
    BY WInvStep DEF Next
  <2>2. cr' # None
    BY <1>2, <2>1 DEF WInv, HandSeen
  <2>3. (cr # None => past \subseteq past') /\ q.spec.app \in past'
    BY <1>3
  <2>4. hand # None => cr # None /\ hand.spec.app \in past
    BY <1>4 DEF PInv, Known
  <2>5. cr'.spec.app \in past'
    BY <1>2, <2>3
  <2>6. hand' # None => hand'.spec.app \in past'
    BY <1>1, <2>3, <2>4
  <2>7. \A t \in Templates' : t.checksum \in past'
    BY <1>1, <1>4, <1>6, <2>3
  <2> QED
    BY <2>2, <2>5, <2>6, <2>7 DEF Known
<1>8. InPlace' /\ Abreast'
  BY <1>1, <1>2 DEF PInv, InPlace, Abreast, AtRest, Passed, SecretIs, DeploymentIs, Stored
<1>9. CASE cr = None \/ q.spec.app # cr.spec.app
  <2>1. ~ \E t \in Templates : t.checksum = q.spec.app
    BY <1>4, <1>5, <1>6, <1>9
  <2>2. NotAhead' /\ Backed'
    BY <1>1, <1>2, <2>1 DEF NotAhead, Backed, Shown
  <2> QED
    BY <1>7, <1>8, <2>2 DEF PInv
<1>10. CASE cr # None /\ q.spec.app = cr.spec.app
  <2>1. NotAhead' /\ Backed'
    BY <1>1, <1>2, <1>10 DEF PInv, NotAhead, Backed, Shown, Stored
  <2> QED
    BY <1>7, <1>8, <2>1 DEF PInv
<1> QED
  BY <1>9, <1>10

LEMMA DequeueKeepsPInv ==
    ASSUME WInv, PInv, Dequeue
    PROVE  PInv'
<1>1. /\ cr' = cr /\ hand' = cr /\ pc' = 1 /\ cr # None
      /\ UNCHANGED <<store, pods, past>> /\ Plan' = Plan /\ Templates' = Templates
  BY DEF Dequeue, setting, Plan, Templates, Stored, WInv, HandSeen
<1>2. Known' /\ NotAhead' /\ Backed'
  BY <1>1 DEF PInv, Known, NotAhead, Backed, Shown, Stored
<1>3. InPlace' /\ Abreast'
  BY <1>1 DEF InPlace, Passed, Abreast, AtRest
<1> QED
  BY <1>2, <1>3 DEF PInv

\* The finalizer: the copy in hand becomes what is stored, which it was.
LEMMA FinalizerKeepsPInv ==
    ASSUME WInv, PInv, FinalizeStep
    PROVE  PInv'
<1>1. CASE (Onward \/ Retry) /\ UNCHANGED cr
  BY <1>1, WorkerStepsMove, MovesKeepPInv
<1>2. CASE ~hand.fin /\ hand.version = cr.version /\ Store(hand, hand.version, TRUE)
             /\ hand' = cr' /\ pc' = pc + 1
  <2>1. /\ At("finalize") /\ pc \in 1..Len(Plan) /\ Len(Plan) \in Nat /\ kind \in Kinds
        /\ hand \in CustomResources(kind) /\ hand # None /\ cr # None
        /\ UNCHANGED <<store, pods, past>> /\ Plan' = Plan /\ Templates' = Templates
    BY PlansAreGood DEF FinalizeStep, At, WInv, WorkType, HandSeen, GoodPlan, Plan, setting,
                        Templates, Stored
  <2>2. hand.spec.app = cr.spec.app /\ hand.spec \in RolloutSpecs
    BY <1>2, <2>1 DEF WInv, HandSeen, CustomResources
  <2>3. cr'.spec.app = cr.spec.app /\ hand'.spec.app = cr.spec.app /\ queued' = TRUE
    BY <1>2, <2>1, <2>2, AdmitsTheConfiguration DEF Store
  <2>4. Known'
    <3>1. WInv'
      BY WInvStep DEF Next, Operator
    <3>2. cr' # None
      BY <2>3, <3>1 DEF WInv, HandSeen
    <3> QED
      BY <2>1, <2>3, <3>2 DEF PInv, Known
  <2>5. NotAhead' /\ Backed'
    BY <2>1, <2>3 DEF PInv, NotAhead, Backed, Shown, Stored
  <2>6. InPlace'
    <3>1. \A c : Plan[pc] # Upsert(c)
      BY <2>1 DEF At, Upsert, Step
    <3>2. ASSUME NEW c, Passed(c)' PROVE Passed(c)
      <4>1. PICK i \in 1..Len(Plan) : i < pc + 1 /\ Plan[i] = Upsert(c)
        BY <1>2, <2>1, <3>2 DEF Passed
      <4>2. i # pc
        BY <3>1, <4>1
      <4>3. i < pc
        BY <2>1, <4>1, <4>2
      <4> QED
        BY <4>1, <4>3 DEF Passed
    <3> QED
      BY <2>1, <2>2, <2>3, <3>2 DEF PInv, InPlace, SecretIs, DeploymentIs, Stored
  <2>7. Abreast'
    BY <2>3 DEF Abreast, AtRest
  <2> QED
    BY <2>4, <2>5, <2>6, <2>7 DEF PInv
<1> QED
  BY <1>1, <1>2 DEF FinalizeStep

\* A pod starts from what the Deployment, or its own ReplicaSet, shows already.
LEMMA PodsKeepPInv ==
    ASSUME PInv, StartPod \/ (\E p \in pods : ReplacePod(p) \/ StopPod(p))
    PROVE  PInv'
<1>1. /\ UNCHANGED <<cr, pc, hand, queued, store, past>> /\ Plan' = Plan
  BY DEF StartPod, ReplacePod, StopPod, setting, worker, Plan
<1>2. \A p \in pods' : p \in pods \/ \E t \in Templates : p = StartedFrom(t) /\ Stored("secret")
  BY DEF StartPod, ReplacePod, StopPod, Templates, Mountable
<1>3. Templates' \subseteq Templates
  <2>1. \A p \in pods' : p.template \in Templates
    BY <1>2 DEF StartedFrom, Templates
  <2> QED
    BY <1>1, <2>1 DEF Templates, Stored
<1>4. Known' /\ NotAhead'
  BY <1>1, <1>3 DEF PInv, Known, NotAhead, Shown
<1>5. Backed'
  <2> SUFFICES ASSUME cr # None, Shown(cr.spec.app)'
               PROVE  /\ Stored("secret") /\ store["secret"].config = cr.spec.app
                      /\ \A p \in pods' : p.template.checksum = cr.spec.app => p.config = cr.spec.app
    BY <1>1 DEF Backed, Stored
  <2>1. Shown(cr.spec.app)
    BY <1>1, <1>3 DEF Shown
  <2> QED
    BY <1>2, <2>1 DEF PInv, Backed, StartedFrom
<1>6. InPlace' /\ Abreast'
  BY <1>1 DEF PInv, InPlace, Abreast, AtRest, Passed, SecretIs, DeploymentIs, Stored
<1> QED
  BY <1>4, <1>5, <1>6 DEF PInv

LEMMA ResyncKeepsPInv ==
    ASSUME PInv, Resync \/ UNCHANGED vars
    PROVE  PInv'
<1>1. /\ UNCHANGED <<cr, pc, hand, store, pods, past>> /\ Plan' = Plan /\ Templates' = Templates
      /\ queued' = queued \/ queued' = TRUE
  BY DEF Resync, vars, setting, worker, Plan, Templates, Stored
<1>2. Known' /\ NotAhead' /\ Backed'
  BY <1>1 DEF PInv, Known, NotAhead, Backed, Shown, Stored
<1>3. InPlace' /\ Abreast'
  BY <1>1 DEF PInv, InPlace, Abreast, AtRest, Passed, SecretIs, DeploymentIs, Stored
<1> QED
  BY <1>2, <1>3 DEF PInv

LEMMA PInvStep ==
    ASSUME ~Reverts, WInv, PInv, [Next]_vars
    PROVE  PInv'
<1>1. CASE \E q \in Requests[kind] : Create(q) \/ Edit(q)
  BY <1>1, UsersKeepPInv
<1>2. CASE Dequeue \/ FinalizeStep
  BY <1>2, DequeueKeepsPInv, FinalizerKeepsPInv
<1>3. CASE ParseStep \/ UpsertStep \/ PruneStep \/ PartitionStep \/ OtherStep \/ CutShort
  BY <1>3, WorkerStepsMove, MovesKeepPInv
<1>4. CASE StartPod \/ (\E p \in pods : ReplacePod(p) \/ StopPod(p))
  BY <1>4, PodsKeepPInv
<1>5. CASE Resync \/ UNCHANGED vars
  BY <1>5, ResyncKeepsPInv
<1> QED
  BY <1>1, <1>2, <1>3, <1>4, <1>5 DEF Next, Operator

\* For users who do not go back to a configuration they had before: whatever
\* edits, evictions, refused writes and reconciles cut short there are between
\* the writes of the Secret and of the Deployment, once the last change is
\* reconciled and rolled out every pod runs the configuration of the spec (the
\* checksum/config annotation, the order of the eight Reconcile functions).
THEOREM PodsCurrent ==
    ASSUME ~Reverts
    PROVE  Spec => []PodsRunConfig
<1>1. Init => PInv
  <2> SUFFICES ASSUME Init PROVE PInv
    OBVIOUS
  <2>1. Templates = {}
    BY DEF Init, Templates, Stored
  <2> QED
    BY <2>1 DEF Init, PInv, Known, NotAhead, Backed, InPlace, Abreast, AtRest
<1>2. WInv /\ PInv /\ [Next]_vars => PInv'
  BY PInvStep
<1>3. PInv => PodsRunConfig
  <2> SUFFICES ASSUME PInv, AtRest, RolledOut, NEW p \in pods
               PROVE  p.config = cr.spec.app
    BY DEF PodsRunConfig
  <2>1. p.template \in Templates /\ p.template.checksum = cr.spec.app /\ cr # None
    BY DEF PInv, Abreast, DeploymentIs, RolledOut, Templates, AtRest
  <2> QED
    BY <2>1 DEF PInv, Backed, Shown
<1> QED
  BY <1>1, <1>2, <1>3, WInvHolds, PTL DEF Spec

=============================================================================
