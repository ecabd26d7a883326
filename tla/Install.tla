------------------------------- MODULE Install -------------------------------
(***************************************************************************)
(* One install controller of the operator at work: its workqueue, its      *)
(* single reconcile worker, the informer caches it reads from, and around  *)
(* it the API server, the garbage collector, the Job controller and the    *)
(* users, who act between any two of its API calls.                        *)
(*                                                                         *)
(* The worker walks the table Reconcile(Kind) of module Controllers.  A    *)
(* read is always from a cache; a write names the version that was read    *)
(* and the API server refuses it when the object has changed since.  A     *)
(* cached read and the write that follows it form one step: a change that  *)
(* comes between the two has the outcome of a cache that lags behind it.   *)
(***************************************************************************)
EXTENDS Controllers, FiniteSets

CONSTANTS
    Kind,        \* the controller
    CRs,         \* its custom resources, as <<namespace, name>>
    SpecChoices, \* the specs users give them
    Tracked,     \* the components the instance follows; the others are left out
    Deletable,   \* the components a user may delete by hand
    MaxChanges,  \* bound on the number of changes users make
    MaxFaults,   \* bound on the number of failed API calls and operator restarts
    NoCR, NoObj  \* the absence of a custom resource, of an object

Verdicts  == {"none", "running", "complete", "failed"}
CRRecords == [uid : Nat, spec : Specs, deleting : BOOLEAN, fin : BOOLEAN, cond : Verdicts]
Namespaces == {n[1] : n \in CRs}
Objects   == [owner : Nat, content : SUBSET (Apps \cup Namespaces), status : Verdicts]

ASSUME InstallAssumption ==
    /\ Kind \in Kinds
    /\ SpecChoices \subseteq Specs
    /\ Tracked \subseteq Components
    /\ Deletable \subseteq Tracked
    /\ MaxChanges \in Nat
    /\ MaxFaults \in Nat
    /\ NoCR \notin CRRecords
    /\ NoCR \notin CRs
    /\ NoObj \notin Objects

\* The object a component of a custom resource is stored as.  Cluster-scoped
\* names leave the namespace out, the names of the Pulsar Jobs leave out the
\* name of the ArmadaServer.
Key(n, c) ==
    CASE c \in ClusterScoped -> <<"", n[2], c>>
      [] c \in {"waitForPulsar", "initPulsar"} -> <<n[1], "", c>>
      [] OTHER -> <<n[1], n[2], c>>

Keys == {Key(n, c) : n \in CRs, c \in Tracked}

\* What tells one generated version of a component from another: the namespace
\* of the service account it binds, or the configuration it was built from.
Content(n, c, spec) ==
    CASE c \in {"binding", "extraBinding"} -> {n[1]}
      [] c \in ConfigFree -> {}
      [] OTHER -> {spec.app}

\* SetOwnerReference is called for all but the cluster-scoped components.
NewObject(n, c, r) ==
    [owner   |-> IF c \in ClusterScoped THEN 0 ELSE r.uid,
     content |-> Content(n, c, r.spec),
     status  |-> IF c \in Jobs THEN "running" ELSE "none"]

\* A mutate function that copies nothing.
ReconcileComponents_Nothing(n, c, r, object) == object

\* The mutate function: ReconcileComponents for the object CreateOrUpdate read.
ReconcileComponents(n, c, r, object) ==
    IF c \in Mutable THEN [object EXCEPT !.content = Content(n, c, r.spec)] ELSE object

Steps == Reconcile(Kind)

\* The steps the worker still has to take after step i.
StepsAfter(i) == {j \in 1..Len(Steps) : j > i /\ Steps[j].c \in Tracked \cup {"none"}}

\* A controller that watches nothing but its custom resources.
Owned_Nothing == {}

\* Components whose events wake the owner up: the Owns of SetupWithManager.
Owned == IF Kind = "Lookout" THEN Jobs ELSE {}

VARIABLES
    cr,        \* the stored custom resources
    crCache,   \* the controller's cached copies of them
    crFresh,   \* the custom resources whose cached copy is the stored version
    obj,       \* the stored objects
    objCache,  \* the cached copies
    objFresh,  \* the objects whose cached copy is the stored version
    queue,     \* the workqueue: the custom resources waiting for the worker
    wk,        \* the worker
    ended,     \* history: the Jobs that have ended, with their outcome
    lost,      \* history: the objects removed by anyone but the worker
    changes,   \* number of changes users have made; numbers the uids too
    faults     \* number of failed API calls and restarts

crVars  == <<cr, crCache, crFresh>>
objVars == <<obj, objCache, objFresh>>
world   == <<ended, lost, changes, faults>>
vars    == <<crVars, objVars, queue, wk, world>>

\* The worker: pc is the step of the plan it is at (0: none), n the custom
\* resource in hand, mem the copy it works on, fresh whether that copy still is
\* the stored version, del the number of cleanup deletions done, job the status
\* last read from a Job.
Idle == [pc |-> 0, n |-> NoCR, mem |-> NoCR, fresh |-> FALSE, del |-> 0, job |-> "none"]

Init ==
    /\ cr = [n \in CRs |-> NoCR] /\ crCache = cr /\ crFresh = CRs
    /\ obj = [k \in Keys |-> NoObj] /\ objCache = obj /\ objFresh = Keys
    /\ queue = {} /\ wk = Idle
    /\ ended = {} /\ lost = {} /\ changes = 0 /\ faults = 0

-----------------------------------------------------------------------------
(***************************************************************************)
(* Writes to the store make the cached copy lag behind; a write to the     *)
(* custom resource by anyone but the worker makes its copy lag as well.    *)
(***************************************************************************)
StoreCR(n, r) ==
    /\ cr' = [cr EXCEPT ![n] = r]
    /\ crFresh' = crFresh \ {n}
    /\ UNCHANGED crCache

OvertakeWorker(n) ==
    wk' = IF wk.n = n THEN [wk EXCEPT !.fresh = FALSE] ELSE wk

StoreObj(k, o) ==
    /\ obj' = [obj EXCEPT ![k] = o]
    /\ objFresh' = objFresh \ {k}
    /\ UNCHANGED objCache

\* The worker is reset before the resource it had in hand is queued again.
Retry_ResetFirst == /\ wk' = Idle
                    /\ queue' = queue \cup {wk'.n}

\* An error makes the workqueue hand the resource out again.
Retry == /\ queue' = queue \cup {wk.n}
         /\ wk' = Idle

\* Where the worker w goes when its step is done: to the next step, or to rest.
Advance(w) ==
    IF StepsAfter(w.pc) = {} THEN {Idle}
    ELSE {[w EXCEPT !.pc = j] : j \in {j \in StepsAfter(w.pc) : \A i \in StepsAfter(w.pc) : j <= i}}

Continue == /\ wk' \in Advance(wk)
            /\ UNCHANGED queue

At(op, c) == wk.pc # 0 /\ Steps[wk.pc] = Step(op, c)

-----------------------------------------------------------------------------
(***************************************************************************)
(* The worker.                                                             *)
(***************************************************************************)
\* getObject: a miss in the cache ends the reconcile.
Dequeue(n) ==
    /\ wk.pc = 0
    /\ n \in queue
    /\ queue' = queue \ {n}
    /\ wk' = IF crCache[n] = NoCR THEN Idle
             ELSE [Idle EXCEPT !.pc = 1, !.n = n, !.mem = crCache[n],
                               !.fresh = n \in crFresh]
    /\ UNCHANGED <<crVars, objVars, world>>

ParseConfig ==
    /\ At("parse", "none")
    /\ IF Generates(Kind, wk.mem.spec) THEN Continue ELSE Retry
    /\ UNCHANGED <<crVars, objVars, world>>

\* An Update of the custom resource with the version in hand is refused when
\* that version is no longer the stored one.
WriteInHand(r, next) ==
    IF wk.fresh
    THEN StoreCR(wk.n, r) /\ wk' \in next /\ UNCHANGED queue
    ELSE Retry /\ UNCHANGED crVars

\* The finalizer is patched onto whatever has the name now, without a version.
addFinalizerIfNeeded_Patched ==
    /\ At("finalize", "none") /\ ~wk.mem.deleting
    /\ IF wk.mem.fin THEN Continue /\ UNCHANGED crVars
       ELSE IF cr[wk.n] = NoCR THEN Retry /\ UNCHANGED crVars
       ELSE /\ StoreCR(wk.n, [cr[wk.n] EXCEPT !.fin = TRUE])
            /\ wk' \in Advance([wk EXCEPT !.mem.fin = TRUE]) /\ UNCHANGED queue
    /\ UNCHANGED <<objVars, world>>

\* The copy in hand is stored whatever has become of the custom resource since.
addFinalizerIfNeeded_Forced ==
    /\ At("finalize", "none") /\ ~wk.mem.deleting
    /\ LET r == [wk.mem EXCEPT !.fin = TRUE]
       IN IF wk.mem.fin THEN Continue /\ UNCHANGED crVars
          ELSE IF cr[wk.n] = NoCR THEN Retry /\ UNCHANGED crVars
          ELSE StoreCR(wk.n, r) /\ wk' \in Advance([wk EXCEPT !.mem = r]) /\ UNCHANGED queue
    /\ UNCHANGED <<objVars, world>>

\* No finalizer where there is nothing to clean up.
addFinalizerIfNeeded_WithCleanup ==
    /\ At("finalize", "none") /\ ~wk.mem.deleting
    /\ LET r == [wk.mem EXCEPT !.fin = TRUE]
       IN IF wk.mem.fin \/ Cleanup(Kind, wk.mem.spec) = << >>
          THEN Continue /\ UNCHANGED crVars
          ELSE WriteInHand(r, Advance([wk EXCEPT !.mem = r]))
    /\ UNCHANGED <<objVars, world>>

\* A live custom resource: make sure our finalizer is on it.
addFinalizerIfNeeded ==
    /\ At("finalize", "none") /\ ~wk.mem.deleting
    /\ LET r == [wk.mem EXCEPT !.fin = TRUE]
       IN IF wk.mem.fin THEN Continue /\ UNCHANGED crVars
          ELSE WriteInHand(r, Advance([wk EXCEPT !.mem = r]))
    /\ UNCHANGED <<objVars, world>>

\* The next component the cleanup function has to delete, one call a step.
deleteExternalResources ==
    /\ At("finalize", "none") /\ wk.mem.deleting /\ wk.mem.fin
    /\ wk.del < Len(Cleanup(Kind, wk.mem.spec))
    /\ LET c == Cleanup(Kind, wk.mem.spec)[wk.del + 1]
           k == Key(wk.n, c)
       IN IF k \in Keys /\ obj[k] # NoObj THEN StoreObj(k, NoObj)
          ELSE UNCHANGED objVars
    /\ wk' = [wk EXCEPT !.del = @ + 1]
    /\ UNCHANGED <<crVars, queue, world>>

\* The finalizer may go while the cleanup is under way.
handleObjectDeletion_Early ==
    /\ At("finalize", "none") /\ wk.mem.deleting
    /\ wk.mem.fin => wk.del > 0 \/ Cleanup(Kind, wk.mem.spec) = << >>
    /\ IF wk.mem.fin THEN WriteInHand(NoCR, {Idle})
       ELSE wk' = Idle /\ UNCHANGED <<crVars, queue>>
    /\ UNCHANGED <<objVars, world>>

\* The cleanup is done: remove the finalizer, with which the API server removes
\* the custom resource, and finish.
handleObjectDeletion ==
    /\ At("finalize", "none") /\ wk.mem.deleting
    /\ wk.mem.fin => wk.del = Len(Cleanup(Kind, wk.mem.spec))
    /\ IF wk.mem.fin THEN WriteInHand(NoCR, {Idle})
       ELSE wk' = Idle /\ UNCHANGED <<crVars, queue>>
    /\ UNCHANGED <<objVars, world>>

\* CreateOrUpdate of a component that is not nil.
CreateOrUpdate(c) ==
    LET k == Key(wk.n, c)
        read == objCache[k]
        want == ReconcileComponents(wk.n, c, wk.mem, read)
        sends == want # read \/ c \in Defaulted
    IN  \/ /\ read = NoObj /\ obj[k] = NoObj
           /\ StoreObj(k, NewObject(wk.n, c, wk.mem)) /\ Continue
        \/ /\ read = NoObj /\ obj[k] # NoObj          \* already exists
           /\ Retry /\ UNCHANGED objVars
        \/ /\ read # NoObj /\ ~sends
           /\ Continue /\ UNCHANGED objVars
        \/ /\ read # NoObj /\ sends /\ k \in objFresh
           /\ IF want # read THEN StoreObj(k, want) ELSE UNCHANGED objVars
           /\ Continue
        \/ /\ read # NoObj /\ sends /\ k \notin objFresh  \* conflict, or not found
           /\ Retry /\ UNCHANGED objVars

\* A failed upsert is logged and the reconcile goes on.
upsertObjectIfNeeded_ErrorDropped(c) ==
    /\ At("upsert", c)
    /\ UNCHANGED <<crVars, ended, lost, changes>>
    /\ \/ /\ c \in Generated(Kind, wk.mem.spec) /\ CreateOrUpdate(c)
          /\ UNCHANGED faults
       \/ /\ c \notin Generated(Kind, wk.mem.spec) \/ faults < MaxFaults
          /\ Continue /\ UNCHANGED objVars
          /\ faults' = IF c \in Generated(Kind, wk.mem.spec) THEN faults + 1 ELSE faults

upsertObjectIfNeeded(c) ==
    /\ At("upsert", c)
    /\ IF c \in Generated(Kind, wk.mem.spec) THEN CreateOrUpdate(c)
       ELSE Continue /\ UNCHANGED objVars
    /\ UNCHANGED <<crVars, world>>

\* Turning a feature off removes nothing.
deleteObjectIfNeeded_Nothing(c) == Continue /\ UNCHANGED objVars

deleteObjectIfNeeded(c) ==
    LET k == Key(wk.n, c)
    IN  /\ IF obj[k] # NoObj THEN StoreObj(k, NoObj) ELSE UNCHANGED objVars
        /\ Continue

PruneStep(c) ==
    /\ At("prune", c)
    /\ IF "pruning" \in wk.mem.spec.on THEN CreateOrUpdate(c) ELSE deleteObjectIfNeeded(c)
    /\ UNCHANGED <<crVars, world>>

\* A Job that has not failed is taken for a complete one.
ReadBack_Optimistic(status) ==
    /\ wk' \in Advance([wk EXCEPT !.job = IF status = "failed" THEN "failed" ELSE "complete"])
    /\ UNCHANGED queue

\* The status of the Job just read is kept, to decide on the partition Job and
\* for the condition.
ReadBack(status) ==
    /\ wk' \in Advance([wk EXCEPT !.job = status])
    /\ UNCHANGED queue

\* waitForJob without the wait, with a failed Job for an error, and with a Job
\* that is gone for one that is still running.
PollJob_NoWait(c) ==
    /\ At("wait", c) /\ Continue
    /\ UNCHANGED <<crVars, objVars, world>>

PollJob_FailureIsError(c) ==
    /\ At("wait", c)
    /\ LET read == objCache[Key(wk.n, c)]
       IN  /\ read # NoObj => read.status # "running"
           /\ IF read = NoObj \/ read.status = "failed" THEN Retry
              ELSE ReadBack(read.status)
    /\ UNCHANGED <<crVars, objVars, world>>

PollJob_AwaitsAbsent(c) ==
    /\ At("wait", c)
    /\ LET read == objCache[Key(wk.n, c)]
       IN  /\ read # NoObj /\ read.status # "running"
           /\ ReadBack(read.status)
    /\ UNCHANGED <<crVars, objVars, world>>

\* One poll of waitForJob: done when the Job is complete or failed, an error
\* when it is not there.
PollJob(c) ==
    /\ At("wait", c)
    /\ IF c \notin Generated(Kind, wk.mem.spec) THEN Continue
       ELSE LET read == objCache[Key(wk.n, c)]
            IN  /\ read # NoObj => read.status # "running"
                /\ IF read = NoObj THEN Retry
                   ELSE ReadBack(read.status)
    /\ UNCHANGED <<crVars, objVars, world>>

\* jobTimeout passes before a poll has seen the Job finished.
JobTimeout(c) ==
    /\ At("wait", c) /\ c \in Generated(Kind, wk.mem.spec)
    /\ LET read == objCache[Key(wk.n, c)]
       IN read # NoObj /\ read.status = "running"
    /\ Retry
    /\ UNCHANGED <<crVars, objVars, world>>

\* Any migration that has ended will do.
MayPartition_AnyOutcome(c) == c \in Generated(Kind, wk.mem.spec)

\* The Job that partitions the job table is wanted, and the migration that was
\* waited for is complete.
MayPartition(c) == c \in Generated(Kind, wk.mem.spec) /\ wk.job = "complete"

\* The condition is written, as running, whether there is a Job or not.
SkipPartition_Reported ==
    /\ wk' \in Advance([wk EXCEPT !.job = "running"])
    /\ UNCHANGED <<objVars, queue>>

\* No Job, no condition.
SkipPartition ==
    /\ wk' = Idle
    /\ UNCHANGED <<objVars, queue>>

\* The Job that partitions the job table: created when it is not there, left as
\* it is when it is.
PartitionStep(c) ==
    LET k == Key(wk.n, c)
        read == objCache[k]
    IN  /\ At("partition", c)
        /\ \/ /\ ~MayPartition(c)
              /\ SkipPartition
           \/ /\ MayPartition(c) /\ read # NoObj
              /\ ReadBack(read.status) /\ UNCHANGED objVars
           \/ /\ MayPartition(c) /\ read = NoObj /\ obj[k] = NoObj
              /\ StoreObj(k, NewObject(wk.n, c, wk.mem)) /\ ReadBack("running")
           \/ /\ MayPartition(c) /\ read = NoObj /\ obj[k] # NoObj
              /\ Retry /\ UNCHANGED objVars
        /\ UNCHANGED <<crVars, world>>

\* A condition that is there already is kept.
StatusStep_Once(c) ==
    /\ At("status", c)
    /\ IF wk.mem.cond # "none" THEN wk' = Idle /\ UNCHANGED <<crVars, queue>>
       ELSE WriteInHand([wk.mem EXCEPT !.cond = wk.job], {Idle})
    /\ UNCHANGED <<objVars, world>>

\* The condition computed from the status just read, written when it differs.
StatusStep(c) ==
    /\ At("status", c)
    /\ IF wk.mem.cond = wk.job THEN wk' = Idle /\ UNCHANGED <<crVars, queue>>
       ELSE WriteInHand([wk.mem EXCEPT !.cond = wk.job], {Idle})
    /\ UNCHANGED <<objVars, world>>

\* A failed call ends the reconcile, and nothing asks for another.
CallFails_Dropped ==
    /\ wk.pc > 0 /\ faults < MaxFaults
    /\ wk' = Idle
    /\ faults' = faults + 1
    /\ UNCHANGED <<crVars, objVars, queue, ended, lost, changes>>

\* An API call of the reconcile in hand fails.  One that fails after the server
\* has carried it out is the step itself followed by this one.
CallFails ==
    /\ wk.pc > 0 /\ faults < MaxFaults
    /\ Retry
    /\ faults' = faults + 1
    /\ UNCHANGED <<crVars, objVars, ended, lost, changes>>

\* The operator restarts: the worker's state is lost, the caches are listed
\* anew and every custom resource found is enqueued.
Restart ==
    /\ faults < MaxFaults
    /\ wk' = Idle
    /\ crCache' = cr /\ crFresh' = CRs
    /\ objCache' = obj /\ objFresh' = Keys
    /\ queue' = {n \in CRs : cr[n] # NoCR}
    /\ faults' = faults + 1
    /\ UNCHANGED <<cr, obj, ended, lost, changes>>

-----------------------------------------------------------------------------
(***************************************************************************)
(* The watches.                                                            *)
(***************************************************************************)
ObserveCR(n) ==
    /\ n \notin crFresh
    /\ crCache' = [crCache EXCEPT ![n] = cr[n]]
    /\ crFresh' = crFresh \cup {n}
    /\ queue' = queue \cup {n}
    /\ UNCHANGED <<cr, objVars, wk, world>>

ObserveObj(k) ==
    /\ k \notin objFresh
    /\ objCache' = [objCache EXCEPT ![k] = obj[k]]
    /\ objFresh' = objFresh \cup {k}
    /\ queue' = queue \cup {n \in CRs : k[3] \in Owned /\ Key(n, k[3]) = k}
    /\ UNCHANGED <<crVars, obj, wk, world>>

\* The periodic resync of the informer on the custom resources.
Resync ==
    /\ queue' = queue \cup {n \in CRs : crCache[n] # NoCR}
    /\ UNCHANGED <<crVars, objVars, wk, world>>

-----------------------------------------------------------------------------
(***************************************************************************)
(* The rest of the cluster, and its users.                                 *)
(***************************************************************************)
\* The garbage collector removes an object whose owner is gone.
CollectGarbage(k) ==
    /\ obj[k] # NoObj /\ obj[k].owner # 0
    /\ \A n \in CRs : cr[n] # NoCR => cr[n].uid # obj[k].owner
    /\ StoreObj(k, NoObj)
    /\ lost' = lost \cup {k}
    /\ UNCHANGED <<crVars, queue, wk, ended, changes, faults>>

EndJob(k, outcome) ==
    /\ obj[k] # NoObj /\ obj[k].status = "running"
    /\ StoreObj(k, [obj[k] EXCEPT !.status = outcome])
    /\ ended' = ended \cup {<<k, outcome>>}
    /\ UNCHANGED <<crVars, queue, wk, lost, changes, faults>>

UserChange(n) ==
    /\ changes < MaxChanges
    /\ changes' = changes + 1
    /\ UNCHANGED <<queue, ended, faults>>

CreateCR(n, spec) ==
    /\ cr[n] = NoCR
    /\ UserChange(n)
    /\ StoreCR(n, [uid |-> changes', spec |-> spec, deleting |-> FALSE,
                   fin |-> FALSE, cond |-> "none"])
    /\ UNCHANGED <<objVars, wk, lost>>

EditCR(n, spec) ==
    /\ cr[n] # NoCR /\ cr[n].spec # spec
    /\ UserChange(n)
    /\ StoreCR(n, [cr[n] EXCEPT !.spec = spec])
    /\ OvertakeWorker(n)
    /\ UNCHANGED <<objVars, lost>>

\* With a finalizer on it the custom resource stays, marked as being deleted.
DeleteCR(n) ==
    /\ cr[n] # NoCR /\ ~cr[n].deleting
    /\ UserChange(n)
    /\ StoreCR(n, IF cr[n].fin THEN [cr[n] EXCEPT !.deleting = TRUE] ELSE NoCR)
    /\ OvertakeWorker(n)
    /\ UNCHANGED <<objVars, lost>>

DeleteChild(n, c) ==
    /\ obj[Key(n, c)] # NoObj
    /\ UserChange(n)
    /\ StoreObj(Key(n, c), NoObj)
    /\ lost' = lost \cup {Key(n, c)}
    /\ UNCHANGED <<crVars, wk>>

-----------------------------------------------------------------------------
ReconcileStep ==
    \/ ParseConfig
    \/ addFinalizerIfNeeded
    \/ deleteExternalResources
    \/ handleObjectDeletion
    \/ \E c \in Tracked : \/ upsertObjectIfNeeded(c)
                          \/ PruneStep(c)
                          \/ PollJob(c)
                          \/ JobTimeout(c)
                          \/ PartitionStep(c)
                          \/ StatusStep(c)

Worker == ReconcileStep \/ \E n \in CRs : Dequeue(n)

Faults == CallFails \/ Restart

Watches ==
    \/ \E n \in CRs : ObserveCR(n)
    \/ \E k \in Keys : ObserveObj(k)
    \/ Resync

ClusterSteps ==
    \E k \in Keys : \/ CollectGarbage(k)
                    \/ \E outcome \in {"complete", "failed"} : EndJob(k, outcome)

Users ==
    \E n \in CRs : \/ \E spec \in SpecChoices : CreateCR(n, spec) \/ EditCR(n, spec)
                   \/ DeleteCR(n)
                   \/ \E c \in Deletable : DeleteChild(n, c)

Next == Worker \/ Faults \/ Watches \/ ClusterSteps \/ Users

Spec == Init /\ [][Next]_vars

(***************************************************************************)
(* Fairness.  The workqueue is served in order, so no custom resource is   *)
(* passed over for ever; the worker, the watches, the resync and the       *)
(* garbage collector keep going.  Users and faults owe nothing.  That Jobs *)
(* end is an assumption of its own: waitForJob does not rely on it.        *)
(***************************************************************************)
Fairness ==
    /\ \A n \in CRs : SF_vars(Dequeue(n)) /\ WF_vars(ObserveCR(n))
    /\ WF_vars(ReconcileStep)
    /\ \A k \in Keys : WF_vars(ObserveObj(k)) /\ WF_vars(CollectGarbage(k))
    /\ WF_vars(Resync)

JobsEnd == \A k \in Keys : WF_vars(\E outcome \in {"complete", "failed"} : EndJob(k, outcome))

FairSpec == Spec /\ Fairness
FairSpecWithJobs == FairSpec /\ JobsEnd

=============================================================================
