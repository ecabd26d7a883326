# A verification of the Armada operator

The Armada operator installs the parts of Armada on Kubernetes. A user writes a
custom resource (an ArmadaServer, a Lookout, ...); the controller of its kind
creates the objects it stands for, keeps them in step with its spec and removes
what Kubernetes would not remove when it is deleted. This directory models the
controllers in TLA+, checks small instances with TLC and proves theorems about
every instance with TLAPS.

## The system

| Part | State | Operations | Interacts with |
|---|---|---|---|
| reconcile engine, `internal/controller/install/common_helpers.go` | none of its own: works on the stored objects and the informer caches | `getObject`, `checkAndHandleObjectDeletion`, `upsertObjectIfNeeded`, `deleteObjectIfNeeded`, `waitForJob` | called by the eight controllers; calls the API server |
| eight install controllers, `internal/controller/install/*_controller.go` | a workqueue, one worker, caches; the custom resource with its finalizer and, for Lookout, its condition | `Reconcile`, `generate...InstallComponents`, `deleteExternalResources` | users, Job controller, garbage collector, other custom resources that share a name |
| builders, `internal/controller/builders` | none | pure functions from a spec to objects; `ParseCommonApplicationConfig` may fail | controllers |
| defaulting webhooks, `api/install/v1alpha1/*_webhook.go` | none | fill in a spec at admission | users |
| manager, `cmd/main.go` | leader election, the caches shared by the controllers | start, stop | all controllers |
| Queue controller, `internal/controller/core` | none | `Reconcile`, which does nothing | - |

What is hard here is not the walk through a `Reconcile` function but what
happens between its lines:

- Every read is from a cache that may lag; only a write with a resource version
  notices. Secrets, Deployments and so on are not watched, so a reconcile that
  was misled is not woken up by the object it got wrong.
- Users edit, delete and recreate a custom resource, and delete its components,
  while the worker is in the middle of it.
- A call may fail, the operator may restart, between any two API calls. Cleanup
  is several calls, then the finalizer.
- Jobs end in their own time, either way, or never; `waitForJob` holds the only
  worker of a kind for up to two minutes (`jobTimeout`).
- The Secret, the Deployment and the Service are written one after the other,
  and a pod reads the Secret once, when it starts: a reconcile cut short leaves
  objects of two versions of the spec, and pods of either.
- Builders choose ports, labels and names in many places, and follow pointers
  that only the webhooks fill, or nobody; each piece is right or wrong only
  together with the others.
- What users write is not checked before the API server sees the objects made of
  it: a port, a mount or a schedule that cannot be stops every reconcile from there
  on, with what was written before it in place.
- Names clash: cluster-scoped objects leave out the namespace, the Pulsar Jobs
  leave out the name of the ArmadaServer, a recreated custom resource finds the
  objects of its predecessor before the garbage collector does.

`hazards` in `PROJECT.json` lists these at their lines.

What makes the parts correct, in the order of importance:

1. Deletion: nothing is created that the deletion of its owner misses; what no
   owner reference removes is removed before the finalizer; a deletion is
   completed.
2. Jobs: no workload before the migration; partitioning only after a migration
   that succeeded; a condition that tells the truth.
3. At rest: when the workqueue is empty, what the operator has seen is what is
   installed.
4. Contents: the objects refer to each other as they should, the API server
   accepts them, the pods run the configuration of the spec.
5. Progress: once users and faults stop, every live custom resource is installed
   in full, and one bad custom resource does not starve the others.

## The modules

Two machines share the tables of `Controllers`. `Install` is about *when*
objects are there: caches, interleavings, Jobs, deletion. `Rollout` is about
*what is in them*: webhooks, builders, the API server's validation, pods. To put
both into one would multiply the states and add few: what is in an object does
not decide the course of a reconcile, but for the refusals of the API server,
which `Install` has as calls that fail, as often as `MaxFaults` says. So the
specs of `Install` are ones whose objects the API server takes; one that is refused
for ever (`RefusedForGood`) never converges.

| Module | What it is |
|---|---|
| `Controllers` | The differences between the eight controllers, as tables: the components generated for a spec, the order of `Reconcile`, the cleanup, the scope of names, what `ReconcileComponents` copies. Pure operators. |
| `Install` | The machine that walks a table: one controller, its workqueue, worker and caches, with the API server, the garbage collector, the Job controller, users and faults around it. |
| `InstallProperties` | The type invariant, the safety, action and liveness properties. |
| `InstallInvariant` | The inductive invariant, part by part. |
| `Lifecycle` | What a controller promises, seen from outside: no caches, no workqueue, no worker, no table. |
| `InstallLifecycle` | `Install` seen as `Lifecycle`: the refinement mapping, and what has to be known for it beside `IInv`. |
| `InstallClaims` | Two sentences of the repository that the code does not live up to, each refuted by a run. |
| `MCInstall` | The instances of `Install`: custom resources and specs. |
| `InstallProofs`, `LifecycleProofs`, `GatesProofs`, `RestProofs` | The theorems about `Install`. |
| `Admission` | The defaulting webhooks: one function on specs for each kind, and where a builder follows a pointer that is nil. |
| `Manifests` | The builders: every object as far as it refers to others. Pure operators. |
| `Rollout` | The machine that takes one custom resource from the user through the webhook, the reconcile and the API server to pods. |
| `RolloutProperties` | Its type invariant, invariants and action property. |
| `MCRollout` | Its instances: configurations and requests. |
| `RolloutProofs`, `PodsProofs`, `WritesProofs`, `ObjectsProofs` | The theorems about `Admission`, `Manifests` and `Rollout`. |

### Install: state

| Variable | In the code |
|---|---|
| `cr`, `crCache`, `crFresh` | the custom resources in the API server, the informer's copies, and which copies are up to date. A record has the uid, the spec, the deletion timestamp, the finalizer and the JobTablePartitioned condition. |
| `obj`, `objCache`, `objFresh` | the same for components. An object has its owner's uid (0: none), what distinguishes one generated version from another, and a Job's status. |
| `queue` | the workqueue. |
| `wk` | the worker: the position in the table, the custom resource in hand and its copy (`mem`), whether the copy still is the stored version (the resource version would be accepted), the deletions of the cleanup done, the last Job status read. |
| `ended`, `lost` | history, read by properties only: the Jobs that ended, the objects removed by others than the worker. |
| `changes`, `faults` | the counters of what users and faults may still do; a uid is the number of the change that created the custom resource. |

A component of two custom resources is one object exactly when the code gives it
one name (`Key`). Where an instance does not follow a component (`Tracked`), the
table's steps on it are skipped.

### Install: actions

`Dequeue` is `getObject`; then there is one action for each kind of step:
`ParseConfig`, `addFinalizerIfNeeded`, `deleteExternalResources` (one call each),
`handleObjectDeletion`, `upsertObjectIfNeeded`, `PruneStep`, `PollJob` and
`JobTimeout` (`waitForJob`), `PartitionStep`, `StatusStep`. `CreateOrUpdate`
has an outcome for each combination of what the cache says and what is stored:
created, already exists, nothing to send, updated, conflict. `CallFails` ends a
reconcile with an error anywhere; `Restart` loses the worker and lists the caches
anew. Around these: `ObserveCR` and `ObserveObj` (the watches), `Resync`,
`CollectGarbage`, `EndJob`, and users, who create, edit and delete custom
resources and delete components.

A cached read and the write that follows are one step. A change between the two
has the outcome of a cache that lags behind it: the write is refused.

Abstractions: a cache holds the stored version or the one it held before, so
versions in between are skipped when the cache catches up, as an informer that
relists does. The condition's ObservedGeneration is left out: a later generation
rewrites the condition with the same reason. Deletion is background deletion.

### Lifecycle and the mapping

For `Lifecycle` a custom resource is absent, open (accepted, without the
finalizer), guarded, or dying, and an object is its owner or nothing. `Appear`
needs a custom resource under the finalizer; an object goes by `Prune`,
`CleanUp`, `Collect` or by hand, each with its condition; `Release`, the end of
the finalizer, needs everything the custom resource guards to be gone. Under the
mapping of `InstallLifecycle`:

| `Lifecycle` | in `Install` |
|---|---|
| `stage[n]` | read off `cr[n]`: no record, no finalizer, finalizer, deletion timestamp |
| `uid[n]`, `child[k]`, `clock` | the uid of `cr[n]`, the owner of `obj[k]`, `changes` |
| `Holds[n]` | the keys of the components the instance follows |
| `Guards[n]` | those of the components the cleanup deletes whatever the spec |
| `Prunable`, `Removable` | the keys of the table's prune steps, of `Deletable` |
| `Protect`, `Release` | `addFinalizerIfNeeded`, `handleObjectDeletion` |
| `Appear` | `upsertObjectIfNeeded`, `PruneStep`, `PartitionStep` where they create |
| `Prune`, `CleanUp` | `PruneStep` where it deletes, `deleteExternalResources` |
| stutter | every read, update, wait, watch, retry, failure and restart |

A dying custom resource may still get an object: a reconcile begun before the
deletion goes on with its copy. That the promise cannot forbid this is the
reason why cleanup alone would not do and `Release` has its condition. An
additional binding is not in `Guards`, since the cleanup forgets it when it has
left the spec (`executor_bindings`).

### Rollout: state and actions

| Variable | In the code |
|---|---|
| `kind`, `webhooks` | which controller, and whether `main` registers the webhooks; chosen at the start |
| `cr` | the stored custom resource: name, labels, spec, finalizer, and the number of changes it has seen |
| `pc`, `hand`, `queued` | the step of the table, the copy in hand, whether the workqueue holds the custom resource |
| `store` | the stored objects |
| `pods` | the pods that differ, each with the template it is of and the configuration it read |
| `past`, `faults` | the configurations there have been; reconciles cut short |

A spec is a configuration, the features of `Controllers`, for each optional field
whether it is nil, given or filled in, and the role of an additional binding. A
configuration is which ports it sets, to any number, and which flags it has on
(`Written`); a name is a sequence, of which each suffix is an element; the checksum
of a configuration stands for its hash, so equal configurations have equal ones and
different ones have not. The user's additional volumes are one volume, and the
additional mounts are of that one.

`Create` and `Edit` go through the webhook (`Store`), and so does the write of
the finalizer. `UpsertStep` sends what `CreateOrUpdate` sends - a new object, or
the stored one with the fields `ReconcileComponents` copies - and the API server
answers (`Accepted`): a port is a number from 1 to 65535, in Services, containers
and ingresses, and no Service has it twice; a Pod mounts volumes it has; a
Deployment's selector matches its template; a CronJob has a schedule; RoleRef,
selector and a Job's template do not change. What else the API server looks at is
outside the model: node ports, names and labels that are malformed (of custom
resource, hosts, volumes, users' labels), volumes of one name, amounts of
resources, the syntax of a schedule that is there. So are two additional bindings
with one `nameSuffix` and different roles (`executor_controller.go:416-431`), which
are one object written twice and refused the second time, for ever; the model has
one additional binding. `StartPod` and `ReplacePod` are the Deployment and
ReplicaSet controllers and the kubelet: a pod needs the Secret and the file it
mounts by subPath, and keeps what it read.

Left to `Install`: caches (a read here is of the stored version), Jobs (a wait
ends or is cut short), deletion and other custom resources. `Reverts` says
whether users go back to a configuration the custom resource had before.

## The runs

Fairness, in `Install` (`Rollout` has no liveness property and no fairness): the
worker's steps and every watch, resync and the garbage collector are weakly fair,
because each is a loop that goes on while it has something to do; `Dequeue` is
strongly fair for each custom resource because the workqueue hands out items in
order. Users and faults have none. That Jobs end (`JobsEnd`) is assumed only where a
run says so: it is the workload's doing, not the operator's.

| Run | Instance | Shows |
|---|---|---|
| `lookout` | one Lookout, its configuration and partitioning switched, Jobs deleted by hand, 3 changes, 1 fault | `TypeOK`, `JobsGate`, `PartitionGate`, `VerdictHonest`, `InstalledAtRest`, `GuardedAtRest`, `VerdictReported`, `NoOrphanIsBorn`, `VerdictStable`, `EditsStand` |
| `lookout_live` | delete and recreate, 1 fault; Jobs end | `Converges`, `VerdictComes` |
| `lookout_deletion` | two Lookouts and one worker, malformed configurations; Jobs need not end | `DeletionCompletes` |
| `scheduler` | pruning switched, 2 changes, 1 fault | `NoPrunerAtRest`, `IInv`, `KeepsPromise` |
| `executor` | two namesakes in two namespaces, 4 changes, 1 fault | `NoClusterLeak`, `LInv`, `KeepsPromise` |
| `armadaserver` | two ArmadaServers of one namespace sharing the Pulsar Job, 3 changes, 1 fault; Jobs end | `InstalledAtRest`, `JobsGate`, `Converges` |
| `ingester` | two ingesters, good and malformed configurations, 3 changes, 1 fault | `Converges` |
| `rollout` | each of the eight kinds, with and without webhooks; five or six requests a kind, five configurations; 1 creation and 2 edits, 1 reconcile cut short, 2 pods | `TypeOK`, `ObjectsCurrent`, `PodsRunConfig`, `WritesAccepted`, `Routing`, `Connected`, `NilSafe`, `OperatorKeepsSpec` |
| `binoculars_deletion` | one Binoculars, edited to a malformed configuration and deleted | `DeletionCompletes` is violated |
| `executor_bindings` | an additional binding given and taken back | `NoBindingLeak` is violated |
| `lookout_condition` | partitioning switched off while the Job runs | `RunningMeansUnfinished` is violated |
| `rollout_revert` | as `rollout`, with two requests, going back and forth | `PodsRunConfig` is violated |

Bounds. Three user changes are a creation and any two of edit, deletion,
recreation and removal of a component, which is what it takes to have a stale
cache, a deletion under way and a successor; four let both of two namesakes be
created and deleted. One fault at any point is enough for a cleanup or a
reconcile cut short; a second one would cut short the retry, which starts from
the same states. Two custom resources are enough for one to hold, or to take
away, what the other needs. An instance follows the components its question is
about: a component that is one more upsert adds states and no case.

For `rollout`: every kind has the least a user can send, everything, a change of
everything that can change while things run (another configuration and role,
fields taken out again), and a configuration with no profiling and no metrics
port. To these come the requests that cannot be met, each at kinds it can be asked
of: host names without an ingress (ArmadaServer, Binoculars, Scheduler), ports of
65536 and -1 (Executor), one port twice (Binoculars), a mount without a volume
(ArmadaServer, Lookout, the ingesters), a pruner without a schedule (Scheduler).
Two edits are what leaves objects of one version beside those of
another when the first is cut short; two pods are an old one and a new one. All
labels that are given clash with the identity. `PodsRunConfig` is checked
there for users who do not go back; `rollout_revert` shows why.

`KeepsPromise` is checked where it has most to lose: with two namesakes and the
longest cleanup (`executor`), and where an object goes while its custom resource
lives (`scheduler`).

`WritesAccepted` is an equivalence: where the worker is about to write, the API
server refuses it if and only if `RefusedForGood` says so, in terms of the spec in hand and, for a Job
and an additional binding, of what is stored. One half is that a reconcile is stopped by no
refusal but these; the other, that each of them is one, and where it is met: ports
out of range and an Executor without a metrics port at the Deployment, a port that
is in use twice at the Service, and nothing of the kind at an ingress or behind
it. `NilSafe` says the same of panics: with the webhooks on the only nil pointer
is the ingress (`NilIngress`), and a panic, with or without webhooks, leaves all
objects as they were.

`InstalledAtRest` and `JobsGate` are checked twice: for a Lookout, whose Job is its
own and whose end is watched (`lookout`), and for ArmadaServers, whose Job may be
somebody else's and may go with its owner (`armadaserver`). `EditsStand` and
`GuardedAtRest` are checked where all three writes of a custom resource occur, the
finalizer, its removal and the condition (`lookout`).

`NoClusterLeak` and `NoBindingLeak` ask whether any custom resource that shares
the name is left, since the object serves both.

## What disagrees with the repository's own words

- Binoculars, Executor, ArmadaServer and EventIngester parse the configuration
  before they look at the deletion timestamp. One with a configuration that has
  become malformed keeps its finalizer for ever (`binoculars_deletion`); for
  Lookout, where the order is the other one, `lookout_deletion` shows that it goes.
- A binding taken out of `additionalClusterRoleBindings` stays in the cluster for
  good (`executor_bindings`).
- The condition of a Lookout stays Running when partitioning is switched off
  while the Job runs (`lookout_condition`).

- A configuration changed from A to B and back, with the reconcile of B cut short
  between the Secret and the Deployment, leaves a pod that read B under a
  template that says A. Nothing changes any more, nothing shows it
  (`rollout_revert`).

Seen while modelling, and without a run:

- Two Executors, or Binoculars, of one name in two namespaces share ClusterRole
  and bindings; deleting one leaves the other without them until its next
  reconcile. This is one reason why `InstalledAtRest` leaves out what a cleanup may
  remove (`CleanedUp`).
- The other one: an Executor, Binoculars or ArmadaServer created in place of a
  deleted one may be reconciled while the cache still shows the ClusterRole,
  binding or PrometheusRule that the cleanup has removed. The upsert finds nothing
  to change, and as these are not watched the object is missing until the resync.
- CreateOrUpdate compares with the cache: a configuration switched from A to B
  and back before the cache of the Secret has caught up leaves B in the Secret
  until the resync.
- Binoculars without host names panics (recovered) in every reconcile: the
  ingress builders return nil and `SetOwnerReference` is called on it
  (`binoculars_controller.go:190`).
- So does an ArmadaServer, Binoculars, Lookout or Scheduler with `hostNames` and no
  `ingress`, webhooks or not: the builders read `Spec.Ingress.Labels`
  (`armadaserver_controller.go:512`, `binoculars_controller.go:333` and the like),
  and no webhook fills `Ingress`. `NilIngress` is these two, and `NilSafe` names it
  as the exception.
- The migration Jobs of Lookout and Scheduler run whatever `migrate` says;
  Lookout creates no PrometheusRule; profiling Services and Ingresses are
  generated by all and upserted by the Scheduler only. `Migrate` of Lookout
  (`lookout_types.go:62`) is defaulted and never read.
- The ClusterRole of an additional binding cannot be edited: `ReconcileComponents`
  copies the RoleRef, the API server refuses it, and the Executor fails at that
  point from then on. `RefusedForGood` names this and the next five.
- A Scheduler whose configuration sets the profiling port to 0, or below, gets a
  profiling Service with that port, which is refused, and nothing after it, though
  profiling is optional elsewhere. (One that sets none has the default, 1337,
  `config.go:13`.)
- An Executor without `metric.port` gets a container with port 0, which is refused.
- The ports of a configuration are plain `int32` (`config.go:17-36`): one above 65535
  goes as far as the Deployment, two alike as far as the Service.
- A pruner the user enables without a schedule is not defaulted
  (`scheduler_webhook.go:93`), and the CronJob is sent with an empty one
  (`scheduler_controller.go:531`).
- `additionalVolumeMounts` are taken over without a look at `additionalVolumes`: with
  a mount that has no volume no new Job, Deployment or CronJob gets through.
- Without the webhooks a Scheduler with no pruner and a Binoculars with no
  resources panic (recovered) in every reconcile: the first half of `NilSafe` is
  stated for webhooks that are on. All other pointers of a spec are looked at before
  they are followed.
- The binding of Binoculars names the account of its own name and ignores
  `customServiceAccount`; `Connected` asks it of the Executor only.
- The ServiceMonitors of ArmadaServer, Lookout and Scheduler have an interval of 15 s
  whatever `scrapeInterval` says, the Executor's follows it
  (`executor_controller.go:465-468`). All of them are, as PrometheusRules and Jobs,
  created and never updated; all but the Executor's have no selector and so select
  every Service of the namespace.
- The backend protocol of ingresses follows `grpc.enabled`, that of the probes
  `grpc.tls`.
- The pods of the Lookout and Scheduler migration and of the Pulsar Jobs have the
  service's identity label, so the Service selects them while they run; `Routing`
  says it of the pruning and partitioning Jobs, for which the code takes care of
  it. The Pulsar Jobs mount the configuration under a file name that the
  Secret does not have.
- The PodDisruptionBudget of ArmadaServer has an empty spec.

## The proofs

### Install

`InstallProofs`, `LifecycleProofs`, `GatesProofs` and `RestProofs` prove, for every
kind unless a line says otherwise, every set of custom resources, specs and
components, and every bound, from the assumptions `InstallAssumption` and
`MalformedAssumption` on the constants:

- `TypeCorrectness`: `Spec => []TypeOK`.
- `Invariance`: `Spec => []IInv`, the inductive invariant.
- `NoOrphans`: `Spec => NoOrphanIsBorn`.
- `EditsAreKept`: `Spec => EditsStand`.
- `LifecycleInvariance`: `Spec => []LInv`.
- `Refinement`: `Spec => KeepsPromise`, that is, `Install` implements `Lifecycle`.
- `NoLeak`: for Executor and Binoculars, `Spec => []NoClusterLeak`.
- `JobsAreAwaited`: `Spec => []JobsGate`.
- `PartitionAwaited`: where the partition Job is among the components followed,
  `Spec => []PartitionGate`.
- `VerdictsAreEarned`: `Spec => []VerdictHonest`.
- `VerdictsStand`: `Spec => VerdictStable`.
- `InstalledOnceAtRest`: where namespace and name tell custom resources apart
  (`NamesApart`, true of every `<<namespace, name>>`), `Spec => []InstalledAtRest`.
- `FinalizerAtRest`: `Spec => []GuardedAtRest`.
- `UnprunedAtRest`: under `NamesApart`, for Lookout and Scheduler where the
  CronJob is followed, `Spec => []NoPrunerAtRest`.
- `VerdictShown`: under the same condition, for Lookout where the two Jobs are
  followed, `Spec => []VerdictReported`.

`NoOrphanIsBorn` is a property of a step and says nothing of what the worker
read earlier, so by itself it is not inductive. The argument is: an object is
created only past the first two steps of a table, one of which is the
finalizer's in all eight tables (`StepsStart`, `Finalized`); past it the
worker's copy has the finalizer and no deletion timestamp (`FinalizedFirst`); a
copy, however old, that has the finalizer and no deletion timestamp stands for a
custom resource that still is there with the finalizer (`SeenProtected`). The
last is the heart. It holds because only the worker takes a finalizer away, and
only when its copy is the stored version (`WorkFresh`) and is being deleted; and
a version seen with a deletion timestamp is never followed by one without
(`DeletionsStand`), so no other copy of the same uid claims protection any more.
`UidsNumbered` keeps a recreated custom resource apart from its predecessor,
`CacheFresh` and `ObjFresh` say what a fresh copy means.

`EditsStand` follows from one conjunct of it. The three writes of a custom resource
send a copy back whole, but `WorkFresh` says that the copy which passes the API
server's check is the stored version, so all that changes is the finalizer or the
condition (`WriteBackStands`); and a copy is stored as absent only if it was marked
for deletion.

For the refinement `IInv` is not enough, because a deletion is handled on a copy
whose name may have gone to a successor. `LInv` adds: uids seen are not ahead of
what is stored (`UidsForward`); a copy seen being deleted never meets its name
alive under the finalizer (`CleanupStands`) - a successor that is not yet under
it is what the cleanup may find, and only the one worker of the kind, which is
busy with the cleanup, could put it there; what the cleanup in hand has deleted
is gone (`CleanupDone`), namesakes in other namespaces included, since whoever
would create it again is that same worker; and the worker is on its plan
(`OnPlan`). Then `CleanUp` never hits a guarded custom resource, `Release` finds
what it guards gone, and one lemma for each kind of write maps it to its step
(`UpsertRefines`, `FinalizerRefines`, `CleanupRefines`, `ClusterRefines`,
`UsersRefine`).

`NoLeak` is then a fact about `Lifecycle` alone (`NothingLeft` is inductive
there, given that what one guards all its holders guard), carried over by
`Refinement`: the reason for having the abstract specification.

The first three theorems of `GatesProofs` say that something was seen before something
was written, with a cache, a worker and a custom resource in between, each of
which passes on what it has read. So `GInv` follows the news: whatever an object,
or its cached copy, says of the end of a Job has happened (`ObjTold`), and so has
what the status in hand (`JobRead`) and the condition of a custom resource, stored,
cached or in hand, (`CRsTold`) say; every wait the worker has passed, which every
spec makes it take, was for a Job that has ended (`WaitsPassed`). `Moves` says how
the worker can get from one step to another, `Written` and `CRWritten` what can
become of an object and of a custom resource. The tables enter through two facts:
a wait parts what is written before it from what is written after it, and what
comes after it belongs to no other custom resource than the Job does
(`WaitsPart`; were it cluster-scoped, a namesake in another namespace could create
it having waited for a Job of its own only); and Lookout reports in the step after
the one that partitions (`LookoutEnds`), so the status it reports is the partition
Job's and not the migration's (`OnlyFromPartition`).

`VerdictStable` needs to know that the operator does not forget. A Job that has
ended and was not removed is there with its outcome, which nothing takes off it
again (`EndsStand`); what a condition reports the cache shows (`CondSeen`), and goes
on showing (`StillSeen`), since a cache only ever shows what was or what is; so a
worker that holds a fresh copy with a verdict reads that verdict off the cache
(`ReportSeen`), and one whose copy is not fresh cannot write.

The first three theorems of `RestProofs` are about a state in which nothing goes on,
and about everything that may have gone on before. `RInv` says it of every custom
resource that is not queued, at rest or in hand: what the worker has in hand is what
the cache has of it (`InStep`; any change the cache learns of queues it); what it
has passed is in place with that spec's content (`Placed`); an object the cache
shows is there, unless somebody removed it or a cleanup may have (`StillThere`),
which is what allows an upsert to send nothing. A step without a retry either leaves
a component in place (`PutsLay`, `ClearsAway`) or the worker was on its way out
(`ComesToRest`), and what another custom resource is served leaves it alone
(`SeenTo`, by `NamesApart` and `OwnTable`). The components a cleanup removes are
left out (`CleanedUp`), since for them all of this is false, as said above: the
worker itself makes the cache wrong, and a namesake in another namespace takes them
away. Once they are out, no component that is left is cluster-scoped
(`ClusterScopedCleanedUp`, from the tables) and so none is shared but the Pulsar
Jobs, which two ArmadaServers make alike; the argument is the same for all eight
kinds. `Reported` adds for the condition that the worker past the migration has its
status in hand, and in the last step that of the partition Job, and that neither
changes without queueing the Lookout (`JobCacheWakes`, which is what `Owns` in
SetupWithManager is for).

`GuardedAtRest` needs less: whatever is marked for deletion has a finalizer
(`AllMarked`), of stored, cached and held copies alike, so a worker that meets a
deletion does not let it pass; and a custom resource which the operator is up to date
with is either in hand just as it is stored, or guarded (`Guarded`). Every change of
it makes the cache stale, and the cache queues it when it catches up; the worker
goes past the finalizer's step only with the finalizer stored (`GuardedRests`), or
with a retry.

The proofs of `IInv` and `LInv` have one lemma for each action, or group of actions
alike, that a part of the invariant notices; `OnwardKeeps` does all those that leave
the custom resources alone.

### Rollout

`RolloutProofs`, `PodsProofs`, `WritesProofs` and `ObjectsProofs` prove, for every
kind, every finite or infinite set of requests and configurations, and every bound,
from `RolloutAssumption`, `WrittenAssumption` and `MalformedAssumption`:

- `DefaultsIdempotent`: defaulting twice is defaulting once, for each kind.
- `RolloutTypes`: `Spec => []TypeOK`.
- `SpecKept`: `Spec => OperatorKeepsSpec`.
- `PodsRouted`: `Spec => []Routing`.
- `PodsCurrent`: assuming `~Reverts`, `Spec => []PodsRunConfig`.
- `NoWriteRefused`: `Spec => []WritesAccepted`.
- `NilSafety`: `Spec => []NilSafe`.
- `ObjectsAreCurrent`: `Spec => []ObjectsCurrent`.
- `ConnectedAtRest`: `Spec => []Connected`.

The invariant `WInv` says that a stored spec, and the copy in hand, were filled in
when the webhooks are on (`Filled`), and that a copy with the version number of
the stored one is that one but for the finalizer (`HandSeen`). `OperatorKeepsSpec` follows from `Filled`, `HandSeen` and
`DefaultsIdempotent`. `Routing` relates pods and Services written at different
times from different specs, so it needs to know what every object that was ever
written has in common (`StoreFits`): whatever labels users gave, the identity is
the one of the name it was built for (`LabelsIdentify`), and no suffixed name is
the name.

`PodsRunConfig` speaks of rest, where nothing is in progress; `PInv` says what is
true on the way there. A configuration not in `past` is in no template (`Known`);
the configuration of the spec is in none before a reconcile with it has begun
(`NotAhead`), and once it is, the Secret has it and every pod that shows it has read
it (`Backed`); what the worker has passed is in place (`InPlace`); an edit the
worker has not seen is in the workqueue, and at rest the Deployment shows the
configuration of the spec (`Abreast`). It rests on the Secret coming before the
Deployment in all eight tables (`PlansAreOrdered`), and it is where `~Reverts` is
used: a configuration that comes back would be shown already, by a template whose
pods may have read another (`rollout_revert`).

`WritesAccepted` and `NilSafe` follow from what a copy in hand has been through, which
is `AInv`. Every table parses before it writes, so a copy past the parse step has a
configuration that was parsed, follows no nil pointer and has a port wherever an
ingress needs one (`Parsed`). In every table Services and ingresses come after the
Deployment, and one that has passed the Deployment has its ports in range, for the
API server would have stopped it (`Deployed`). `WritesAreOrdered` states both orders,
proved of the eight tables step by step (`PlansParseFirst`, `PlansServeLater`). And
what may not be changed, the selector of the Deployment and the RoleRef of the
binding, is a function of the name alone (`Named`). With that, `ValidJudged` goes
through the components one by one: what the builders make of the copy is valid if
and only if none of the reasons of `RefusedForGood` holds (`DeploymentValid`,
`ServiceValid`, `ProfilingValid`, `IngressValid`, `JobValid`), and `ImmutableJudged`
finds the additional binding to be the only one whose role can differ. For `NilSafe`
the first half is that a spec which went through the webhook has no nil pointer but
the ingress (`Filled`, `DefaultsLeaveIngress`), the second is `Parsed`.

`ObjectsCurrent` is about rest as well, and `OInv` says what leads there: every
component the worker has passed is what the builders make of the copy in hand
(`Placed`), and that copy is the stored custom resource unless the workqueue holds a
change (`Kept`). The write of the finalizer puts a new copy into the hand, which is
why it matters that builders read name, labels and spec and nothing else
(`ManifestReads`), and that defaulting it again changes nothing. What comes to rest
has gone through the whole table (`LastPlaces`).

`Connected` then is a fact about the builders, and only about them: `PodSays`,
`ServicesSay` and `ConnectionsOf` say of each kind which ports pod, Service and
ingress get from one and the same custom resource, which is not so while a
reconcile is under way. Two things do not follow from the last spec alone.
ServiceMonitors are written once, and fit because all versions of them are alike
(`Monitored`). And an ingress for profiling has a port because the reconcile stops
at the parse step where it would have none (`Profile`; `IngressesHavePorts` in
`Manifests`).

### Only model-checked

Everything under fairness (`Converges`, `VerdictComes`, `DeletionCompletes`), which
the prover does not reach. Every invariant and every action property of the passing
runs is proved.

## Not modelled

- In objects: images, amounts of resources, environments, arguments, probes'
  delays, affinities, the rules' expressions and ingress hosts and TLS names.
  No property here could tell them apart, and tests of the builders compare them
  field by field.
- `builders.CreateClusterRole` (`roles.go`), which nothing but its test calls.
- Objects of different kinds under one name: the machines have one kind each.
- Caches that lag and contents of objects in one state: see "The modules".
- Deletion propagation other than background; finalizers of others.
- Leader election, TLS, metrics, the no-op Queue controller, generated code,
  charts and manifests.

## Plan

Done: `Controllers`, `Install` and its runs; `InstallClaims`; `InstallInvariant`
and `InstallProofs`; `Lifecycle`, `InstallLifecycle` and `LifecycleProofs`;
`GatesProofs` and `RestProofs`; `Admission`, `Manifests`, `Rollout`, `RolloutProofs`,
`PodsProofs`, `WritesProofs` and `ObjectsProofs`. Open, in order:

1. An abstract specification of `Rollout`, a configuration delivered to pods without
   worker and workqueue, and `Rollout` shown to implement it; and that a reconcile of
   a custom resource at rest changes nothing.
2. Two kinds in one namespace under one name, as a composition over shared
   objects.
3. A refinement of the workqueue: rate limits, and the wait of `waitForJob` in
   polls.
