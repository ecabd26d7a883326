---------------------------- MODULE LifecycleProofs ----------------------------
(***************************************************************************)
(* Install implements Lifecycle, for every controller, every set of custom *)
(* resources and every bound; and what follows for the objects that no     *)
(* owner reference removes.                                                *)
(***************************************************************************)
EXTENDS InstallLifecycle, InstallProofs

-----------------------------------------------------------------------------
(***************************************************************************)
(* The worker stays on its plan, and goes on with what it has cleaned up.  *)
(***************************************************************************)
\* A move of the worker that starts nothing: to rest, or on with the same
\* custom resource.
GoesOn ==
    \/ ~Busy'
    \/ /\ Busy /\ wk'.n = wk.n /\ wk'.mem = wk.mem /\ wk'.del = wk.del
       /\ OnPlan => OnPlan'

LEMMA AdvanceGoesOn ==
    ASSUME NEW w \in Workers, NEW v \in Advance(w)
    PROVE  \/ v = Idle
           \/ v.n = w.n /\ v.mem = w.mem /\ v.del = w.del /\ v.pc <= Len(Steps)
<1>1. CASE StepsAfter(w.pc) = {}
  BY <1>1 DEF Advance
<1>2. CASE StepsAfter(w.pc) # {}
  <2>1. PICK j \in StepsAfter(w.pc) : v = [w EXCEPT !.pc = j]
    BY <1>2 DEF Advance
  <2>2. j <= Len(Steps)
    BY <2>1, StepsStart DEF StepsAfter, FinalizeEarly
  <2> QED
    BY <2>1, <2>2 DEF Workers
<1> QED
  BY <1>1, <1>2

LEMMA WorkerGoesOn ==
    ASSUME TInv, Busy, \/ Continue \/ Retry \/ \E v \in Verdicts : ReadBack(v)
    PROVE  GoesOn
<1>1. wk \in Workers
  BY DEF TInv, WorkType
<1>2. CASE Retry
  BY <1>2, IdleType DEF Retry, GoesOn, Busy
<1>3. CASE Continue
  BY <1>1, <1>3, AdvanceGoesOn, IdleType DEF Continue, GoesOn, OnPlan, Busy
<1>4. ASSUME NEW u \in Verdicts, ReadBack(u)
      PROVE  GoesOn
  <2> DEFINE w == [wk EXCEPT !.job = u]
  <2>1. w \in Workers /\ w.n = wk.n /\ w.mem = wk.mem /\ w.del = wk.del
    BY <1>1 DEF Workers
  <2>2. wk' \in Advance(w)
    BY <1>4 DEF ReadBack
  <2> HIDE DEF w
  <2> QED
    BY <2>1, <2>2, AdvanceGoesOn, IdleType DEF GoesOn, OnPlan, Busy
<1> QED
  BY <1>2, <1>3, <1>4

\* A step on a component.
LEMMA ComponentStepsGoOn ==
    ASSUME TInv, NEW c \in Tracked,
           \/ upsertObjectIfNeeded(c) \/ PruneStep(c) \/ PollJob(c)
           \/ JobTimeout(c) \/ PartitionStep(c)
    PROVE  GoesOn
<1>1. Busy
  BY DEF upsertObjectIfNeeded, PruneStep, PollJob, JobTimeout, PartitionStep, At, Busy
<1>2. Key(wk.n, c) \in Keys
  BY <1>1, KeyType DEF TInv, WorkType, WorkerHolds
<1>3. objCache[Key(wk.n, c)] # NoObj => objCache[Key(wk.n, c)].status \in Verdicts
  BY <1>2 DEF TInv, ObjType, Objects
<1>4. "running" \in Verdicts
  BY DEF Verdicts
<1>5. Continue \/ Retry \/ wk' = Idle \/ \E v \in Verdicts : ReadBack(v)
  <2>1. CASE upsertObjectIfNeeded(c)
    BY <2>1 DEF upsertObjectIfNeeded, CreateOrUpdate
  <2>2. CASE PruneStep(c)
    BY <2>2 DEF PruneStep, CreateOrUpdate, deleteObjectIfNeeded
  <2>3. CASE PollJob(c)
    BY <1>3, <2>3 DEF PollJob
  <2>4. CASE JobTimeout(c)
    BY <2>4 DEF JobTimeout
  <2>5. CASE PartitionStep(c)
    BY <1>3, <1>4, <2>5 DEF PartitionStep, SkipPartition
  <2> QED
    BY <2>1, <2>2, <2>3, <2>4, <2>5
<1> QED
  BY <1>1, <1>5, WorkerGoesOn, IdleType DEF GoesOn, Busy

\* Every step starts the worker on something new or moves it on, but for the two
\* that add to what it has in hand.
LEMMA StepsGoOn ==
    ASSUME TInv, [Next]_vars
    PROVE  \/ \E n \in CRs : Dequeue(n)
           \/ addFinalizerIfNeeded
           \/ deleteExternalResources
           \/ GoesOn
<1>1. wk \in Workers
  BY DEF TInv, WorkType
<1>2. wk' = Idle \/ UNCHANGED wk => GoesOn
  BY IdleType DEF GoesOn, Busy, OnPlan
<1>3. CASE ParseConfig
  <2>1. Busy /\ (Continue \/ Retry)
    BY <1>3 DEF ParseConfig, At, Busy
  <2> QED
    BY <2>1, WorkerGoesOn
<1>4. CASE handleObjectDeletion \/ \E c \in Tracked : StatusStep(c)
  BY <1>2, <1>4 DEF handleObjectDeletion, StatusStep, WriteInHand, Retry
<1>5. ASSUME NEW n \in CRs, OvertakeWorker(n)
      PROVE  GoesOn
  BY <1>1, <1>5 DEF OvertakeWorker, GoesOn, Busy, OnPlan, Workers
<1>6. CASE Worker
  BY <1>3, <1>4, <1>6, ComponentStepsGoOn DEF Worker, ReconcileStep
<1>7. CASE Faults \/ Watches \/ ClusterSteps
  BY <1>2, <1>7 DEF Faults, Watches, ClusterSteps, CallFails, Retry, Restart, ObserveCR,
                    ObserveObj, Resync, CollectGarbage, EndJob
<1>8. CASE Users
  BY <1>2, <1>5, <1>8 DEF Users, CreateCR, EditCR, DeleteCR, DeleteChild
<1>9. CASE UNCHANGED vars
  BY <1>2, <1>9 DEF vars
<1> QED
  BY <1>6, <1>7, <1>8, <1>9 DEF Next

\* What adding the finalizer leaves the worker with is alive.
LEMMA FinalizerGoesOn ==
    ASSUME TInv, addFinalizerIfNeeded
    PROVE  Busy' => /\ ~wk'.mem.deleting /\ wk'.n = wk.n /\ wk'.mem.uid = wk.mem.uid
                    /\ wk'.pc <= Len(Steps)
<1>1. wk \in Workers /\ wk.mem \in CRRecords /\ ~wk.mem.deleting
  BY DEF TInv, WorkType, WorkerHolds, Busy, At, addFinalizerIfNeeded
<1> DEFINE r == [wk.mem EXCEPT !.fin = TRUE]
           w == [wk EXCEPT !.mem = r]
<1>2. r \in CRRecords /\ r.uid = wk.mem.uid /\ ~r.deleting
  BY <1>1 DEF CRRecords
<1>3. w \in Workers /\ w.n = wk.n /\ w.mem = r
  BY <1>1, <1>2 DEF Workers
<1>4. wk' \in Advance(wk) \/ wk' \in Advance(w) \/ wk' = Idle
  BY DEF addFinalizerIfNeeded, WriteInHand, Continue, Retry
<1> HIDE DEF r, w
<1> QED
  BY <1>1, <1>2, <1>3, <1>4, AdvanceGoesOn, IdleType DEF Busy

LEMMA OnPlanStep ==
    ASSUME TInv, OnPlan, [Next]_vars
    PROVE  OnPlan'
<1>1. wk \in Workers /\ Len(Steps) \in Nat /\ Len(Steps) >= 2
  BY StepsStart DEF TInv, WorkType, FinalizeEarly
<1>2. ASSUME ~Busy' PROVE OnPlan'
  BY <1>1, <1>2 DEF Busy, OnPlan
<1>3. CASE \E n \in CRs : Dequeue(n)
  BY <1>1, <1>3 DEF Dequeue, Idle, OnPlan
<1>4. CASE deleteExternalResources
  BY <1>1, <1>4 DEF deleteExternalResources, OnPlan, Workers
<1>5. CASE addFinalizerIfNeeded
  BY <1>2, <1>5, FinalizerGoesOn DEF OnPlan
<1> QED
  BY <1>2, <1>3, <1>4, <1>5, StepsGoOn DEF GoesOn

\* An object that is not there stays so while the worker has a deletion in hand.
LEMMA NothingReappears ==
    ASSUME TInv, ObjFresh, FinalizedFirst, [Next]_vars, Busy => wk.mem.deleting,
           NEW k \in Keys, obj[k] = NoObj
    PROVE  obj'[k] = NoObj
<1>1. obj \in [Keys -> Objects \cup {NoObj}]
  BY DEF TInv, ObjType
<1>2. CASE Changes
  BY <1>1, <1>2 DEF Changes, StoreObj
<1>3. ASSUME NEW c \in Tracked, Creates(c)
      PROVE  FALSE
  <2>1. wk.pc \in Nat /\ wk.pc # 0 /\ wk.pc # 1 /\ wk.pc # 2
    BY <1>3, StepsStart DEF Creates, FinalizeEarly, TInv, WorkType, Workers, Busy
  <2> QED
    BY <1>3, <2>1 DEF Creates, FinalizedFirst, Finalized
<1> QED
  BY <1>2, <1>3, WorkerStores, OthersStore DEF Next, vars, objVars

LEMMA CleanupDoneStep ==
    ASSUME TInv, ObjFresh, FinalizedFirst, CleanupDone, [Next]_vars
    PROVE  CleanupDone'
<1> SUFFICES ASSUME Busy', wk'.mem.deleting,
                    NEW i \in 1..Len(Cleanup(Kind, wk'.mem.spec)), i <= wk'.del,
                    Key(wk'.n, Cleanup(Kind, wk'.mem.spec)[i]) \in Keys
             PROVE  obj'[Key(wk'.n, Cleanup(Kind, wk'.mem.spec)[i])] = NoObj
  BY DEF CleanupDone
<1>1. wk \in Workers /\ wk.del \in Nat /\ i \in Nat
  BY DEF TInv, WorkType, Workers
<1>2. ASSUME NEW n \in CRs, Dequeue(n) PROVE FALSE
  <2>1. \/ wk' = Idle
        \/ wk' = [pc |-> 1, n |-> n, mem |-> crCache[n], fresh |-> n \in crFresh,
                  del |-> 0, job |-> "none"]
    BY <1>2 DEF Dequeue, Idle
  <2>2. wk'.del = 0
    BY <2>1, IdleType DEF Busy
  <2>3. i >= 1
    OBVIOUS
  <2> QED
    BY <1>1, <2>2, <2>3
<1>3. ~ addFinalizerIfNeeded
  BY FinalizerGoesOn
<1>4. CASE GoesOn
  <2>1. Busy /\ wk'.n = wk.n /\ wk'.mem = wk.mem /\ wk'.del = wk.del
    BY <1>4 DEF GoesOn
  <2>2. obj[Key(wk.n, Cleanup(Kind, wk.mem.spec)[i])] = NoObj
    BY <2>1 DEF CleanupDone
  <2> QED
    BY <2>1, <2>2, NothingReappears
<1>5. CASE deleteExternalResources
  <2> DEFINE k(j) == Key(wk.n, Cleanup(Kind, wk.mem.spec)[j])
  <2>1. Busy /\ wk'.n = wk.n /\ wk'.mem = wk.mem /\ wk'.del = wk.del + 1
    BY <1>1, <1>5 DEF deleteExternalResources, At, Busy, Workers
  <2>2. CASE i = wk.del + 1
    <3>1. obj'[k(i)] = NoObj
      BY <1>5, <2>1, <2>2 DEF deleteExternalResources, StoreObj, objVars, TInv, ObjType
    <3> QED
      BY <2>1, <3>1
  <2>3. CASE i <= wk.del
    <3>1. obj[k(i)] = NoObj
      BY <2>1, <2>3 DEF CleanupDone
    <3> QED
      BY <2>1, <3>1, NothingReappears
  <2> QED
    BY <1>1, <2>1, <2>2, <2>3
<1> QED
  BY <1>2, <1>3, <1>4, <1>5, StepsGoOn

-----------------------------------------------------------------------------
(***************************************************************************)
(* What was seen, against what is.                                         *)
(***************************************************************************)
Sightings == UidsForward /\ CleanupStands

LEMMA UidsAreNumbers ==
    ASSUME TInv
    PROVE  /\ \A n \in CRs : /\ cr[n] # NoCR => cr[n].uid \in Nat
                             /\ crCache[n] # NoCR => crCache[n].uid \in Nat
           /\ Busy => wk.n \in CRs /\ wk.mem.uid \in Nat
  BY DEF TInv, CRType, WorkType, WorkerHolds, CRRecords

\* A step that leaves the custom resources alone, and lets the worker keep or
\* drop the one it has in hand.
LEMMA SightingsKept ==
    ASSUME Sightings, UNCHANGED crVars,
           ~Busy' \/ (Busy /\ wk'.n = wk.n /\ wk'.mem = wk.mem)
    PROVE  Sightings'
  BY DEF Sightings, UidsForward, CleanupStands, Earlier, SeenDying, crVars

\* A write of a custom resource that keeps its uid and brings back no deletion,
\* or removes it.
LEMMA SightingsStored ==
    ASSUME TInv, Sightings, NEW n \in CRs, cr[n] # NoCR,
           NEW r \in CRRecords \cup {NoCR}, StoreCR(n, r),
           r # NoCR => r.uid = cr[n].uid /\ (Stage(r) = "guarded" => Stage(cr[n]) = "guarded"),
           ~Busy' \/ (Busy /\ wk'.n = wk.n /\ wk'.mem = wk.mem)
    PROVE  Sightings'
<1>1. /\ cr' = [cr EXCEPT ![n] = r] /\ crCache' = crCache
      /\ cr \in [CRs -> CRRecords \cup {NoCR}]
  BY DEF StoreCR, TInv, CRType
<1>2. UidsForward'
  BY <1>1 DEF Sightings, UidsForward, Earlier
<1>3. Stage(NoCR) # "guarded"
  BY DEF Stage
<1>4. \A m \in CRs : Stage(cr'[m]) = "guarded" => Stage(cr[m]) = "guarded"
  BY <1>1, <1>3
<1>5. CleanupStands'
  BY <1>1, <1>4, UidsAreNumbers DEF Sightings, CleanupStands, SeenDying
<1> QED
  BY <1>2, <1>5 DEF Sightings

\* The finalizer goes onto the version in hand, which is the stored one: a
\* cached version that is being deleted would be of the same custom resource.
LEMMA SightingsFinalized ==
    ASSUME TInv, CRInv, Sightings, addFinalizerIfNeeded
    PROVE  Sightings'
<1> DEFINE r == [wk.mem EXCEPT !.fin = TRUE]
           w == [wk EXCEPT !.mem = r]
<1>1. /\ Busy /\ wk.n \in CRs /\ wk.mem \in CRRecords /\ wk \in Workers /\ ~wk.mem.deleting
  BY DEF TInv, WorkType, WorkerHolds, Busy, At, addFinalizerIfNeeded
<1>2. CASE UNCHANGED crVars /\ (Continue \/ Retry)
  BY <1>1, <1>2, WorkerGoesOn, SightingsKept DEF GoesOn
<1>3. CASE ~wk.mem.fin /\ wk.fresh
  <2>1. r \in CRRecords /\ r.uid = wk.mem.uid /\ ~r.deleting /\ r # NoCR
    BY <1>1, InstallAssumption DEF CRRecords
  <2>2. w \in Workers /\ w.n = wk.n /\ w.mem = r
    BY <1>1, <2>1 DEF Workers
  <2>3. StoreCR(wk.n, r) /\ wk' \in Advance(w)
    BY <1>3 DEF addFinalizerIfNeeded, WriteInHand
  <2>4. cr[wk.n] = wk.mem /\ wk.mem # NoCR
    BY <1>1, <1>3, InstallAssumption DEF CRInv, WorkFresh
  <2>5. /\ cr' = [cr EXCEPT ![wk.n] = r] /\ crCache' = crCache
        /\ cr \in [CRs -> CRRecords \cup {NoCR}]
    BY <2>3 DEF StoreCR, TInv, CRType
  <2>6. Busy' => wk'.n = wk.n /\ wk'.mem = r
    BY <2>2, <2>3, AdvanceGoesOn, IdleType DEF Busy
  <2> HIDE DEF r, w
  <2>7. UidsForward'
    BY <1>1, <2>1, <2>4, <2>5, <2>6 DEF Sightings, UidsForward, Earlier
  <2>8. crCache[wk.n] # NoCR => ~crCache[wk.n].deleting
    <3>1. SUFFICES ASSUME crCache[wk.n] # NoCR, crCache[wk.n].deleting PROVE FALSE
      OBVIOUS
    <3>2. crCache[wk.n].uid \in Nat /\ cr[wk.n].uid \in Nat
      BY <1>1, <2>4, <3>1, UidsAreNumbers
    <3>3. crCache[wk.n].uid = cr[wk.n].uid
      BY <1>1, <2>4, <3>1, <3>2 DEF Sightings, UidsForward, Earlier
    <3> QED
      BY <1>1, <2>4, <3>1, <3>3 DEF CRInv, DeletionsStand, StillDeleting
  <2>9. CleanupStands'
    BY <1>1, <2>1, <2>5, <2>6, <2>8 DEF Sightings, CleanupStands, SeenDying
  <2> QED
    BY <2>7, <2>9 DEF Sightings
<1> QED
  BY <1>2, <1>3 DEF addFinalizerIfNeeded, WriteInHand

LEMMA SightingsOfUsers ==
    ASSUME TInv, CRInv, Sightings, NEW n \in CRs,
           \/ \E spec \in SpecChoices : CreateCR(n, spec) \/ EditCR(n, spec)
           \/ DeleteCR(n)
    PROVE  Sightings'
<1>1. cr \in [CRs -> CRRecords \cup {NoCR}] /\ changes \in Nat
  BY DEF TInv, CRType, WorldType
<1>2. ASSUME NEW spec \in SpecChoices, CreateCR(n, spec)
      PROVE  Sightings'
  <2> DEFINE r == [uid |-> changes', spec |-> spec, deleting |-> FALSE, fin |-> FALSE,
                   cond |-> "none"]
  <2>1. /\ cr' = [cr EXCEPT ![n] = r] /\ crCache' = crCache /\ wk' = wk
        /\ changes' = changes + 1
    BY <1>2 DEF CreateCR, UserChange, StoreCR
  <2>2. r.uid = changes + 1 /\ Stage(r) # "guarded"
    BY <2>1 DEF Stage
  <2> HIDE DEF r
  <2>3. /\ \A m \in CRs : crCache[m] # NoCR => crCache[m].uid \in Nat /\ crCache[m].uid <= changes
        /\ Busy => wk.n \in CRs /\ wk.mem.uid \in Nat /\ wk.mem.uid <= changes
    <3>1. UidsNumbered
      BY DEF CRInv
    <3>2. /\ \A m \in CRs : crCache[m] # NoCR => crCache[m].uid \in Nat
          /\ Busy => wk.n \in CRs /\ wk.mem.uid \in Nat
      BY UidsAreNumbers
    <3> QED
      BY <3>1, <3>2 DEF UidsNumbered
  <2>4. cr'[n] = r /\ \A m \in CRs : m # n => cr'[m] = cr[m]
    BY <1>1, <2>1
  <2>5. UidsForward'
    <3>1. \A m \in CRs : crCache[m] # NoCR => Earlier(crCache[m], cr'[m])
      <4> SUFFICES ASSUME NEW m \in CRs, crCache[m] # NoCR, cr'[m] # NoCR
                   PROVE  crCache[m].uid <= cr'[m].uid
        BY DEF Earlier
      <4>1. CASE m = n
        BY <1>1, <2>2, <2>3, <2>4, <4>1
      <4>2. CASE m # n
        BY <2>4, <4>2 DEF Sightings, UidsForward, Earlier
      <4> QED
        BY <4>1, <4>2
    <3>2. Busy => Earlier(wk.mem, cr'[wk.n])
      <4> SUFFICES ASSUME Busy, cr'[wk.n] # NoCR
                   PROVE  wk.mem.uid <= cr'[wk.n].uid
        BY DEF Earlier
      <4>1. CASE wk.n = n
        BY <1>1, <2>2, <2>3, <2>4, <4>1
      <4>2. CASE wk.n # n
        BY <2>3, <2>4, <4>2 DEF Sightings, UidsForward, Earlier
      <4> QED
        BY <4>1, <4>2
    <3> QED
      BY <2>1, <3>1, <3>2 DEF Sightings, UidsForward, Busy, Earlier
  <2>6. CleanupStands'
    BY <1>1, <2>1, <2>2, UidsAreNumbers DEF Sightings, CleanupStands, SeenDying, Busy
  <2> QED
    BY <2>5, <2>6 DEF Sightings
<1>3. ASSUME NEW m \in CRs, OvertakeWorker(m)
      PROVE  ~Busy' \/ (Busy /\ wk'.n = wk.n /\ wk'.mem = wk.mem)
  BY <1>3 DEF OvertakeWorker, TInv, WorkType, Workers, Busy
<1>4. ASSUME NEW spec \in SpecChoices, EditCR(n, spec)
      PROVE  Sightings'
  <2>1. cr[n] \in CRRecords /\ cr[n] # NoCR /\ spec \in Specs
    BY <1>1, <1>4, InstallAssumption DEF EditCR
  <2>2. /\ [cr[n] EXCEPT !.spec = spec] \in CRRecords
        /\ [cr[n] EXCEPT !.spec = spec].uid = cr[n].uid
        /\ [cr[n] EXCEPT !.spec = spec].fin = cr[n].fin
        /\ [cr[n] EXCEPT !.spec = spec].deleting = cr[n].deleting
    BY <2>1 DEF CRRecords
  <2>3. Stage([cr[n] EXCEPT !.spec = spec]) = "guarded" => Stage(cr[n]) = "guarded"
    BY <2>1, <2>2, InstallAssumption DEF Stage
  <2> QED
    BY <1>3, <1>4, <2>1, <2>2, <2>3, SightingsStored DEF EditCR
<1>5. CASE DeleteCR(n)
  <2>1. cr[n] \in CRRecords /\ cr[n] # NoCR
    BY <1>1, <1>5 DEF DeleteCR
  <2>2. /\ [cr[n] EXCEPT !.deleting = TRUE] \in CRRecords
        /\ [cr[n] EXCEPT !.deleting = TRUE].uid = cr[n].uid
        /\ [cr[n] EXCEPT !.deleting = TRUE].deleting
    BY <2>1 DEF CRRecords
  <2>3. Stage([cr[n] EXCEPT !.deleting = TRUE]) # "guarded"
    BY <2>2 DEF Stage
  <2>4. \/ StoreCR(n, NoCR)
        \/ StoreCR(n, [cr[n] EXCEPT !.deleting = TRUE])
    BY <1>5 DEF DeleteCR
  <2> QED
    BY <1>3, <1>5, <2>1, <2>2, <2>3, <2>4, SightingsStored DEF DeleteCR
<1> QED
  BY <1>2, <1>4, <1>5

LEMMA SightingsStep ==
    ASSUME TInv, CRInv, Sightings, [Next]_vars
    PROVE  Sightings'
<1>1. cr \in [CRs -> CRRecords \cup {NoCR}] /\ crCache \in [CRs -> CRRecords \cup {NoCR}]
  BY DEF TInv, CRType
<1>2. ASSUME UNCHANGED crVars, ~Busy' \/ UNCHANGED wk PROVE Sightings'
  BY <1>2, SightingsKept DEF Busy
<1>3. ASSUME UNCHANGED crVars, GoesOn PROVE Sightings'
  BY <1>3, SightingsKept DEF GoesOn
<1>4. CASE UNCHANGED vars
  BY <1>2, <1>4 DEF vars
<1>5. CASE \E n \in CRs : Dequeue(n)
  <2>1. PICK n \in CRs : Dequeue(n)
    BY <1>5
  <2>2. UNCHANGED crVars
    BY <2>1 DEF Dequeue
  <2>3. CASE crCache[n] = NoCR
    BY <1>2, <2>1, <2>2, <2>3, IdleType DEF Dequeue, Busy
  <2>4. CASE crCache[n] # NoCR
    <3>1. wk' = [pc |-> 1, n |-> n, mem |-> crCache[n], fresh |-> n \in crFresh,
                 del |-> 0, job |-> "none"]
      BY <2>1, <2>4 DEF Dequeue, Idle
    <3>2. wk'.n = n /\ wk'.mem = crCache[n]
      BY <3>1
    <3>3. crCache[n].uid \in Nat
      BY <2>4, UidsAreNumbers
    <3> QED
      BY <2>2, <2>4, <3>2, <3>3
      DEF Sightings, UidsForward, CleanupStands, Earlier, SeenDying, crVars
  <2> QED
    BY <2>3, <2>4
<1>6. CASE handleObjectDeletion \/ \E c \in Tracked : StatusStep(c)
  <2>1. Busy /\ wk.n \in CRs /\ wk.mem \in CRRecords /\ wk \in Workers
    BY <1>6 DEF TInv, WorkType, WorkerHolds, Busy, At, handleObjectDeletion, StatusStep
  <2> DEFINE r == [wk.mem EXCEPT !.cond = wk.job]
  <2>2. /\ r \in CRRecords /\ r.uid = wk.mem.uid
        /\ r.fin = wk.mem.fin /\ r.deleting = wk.mem.deleting
    BY <2>1 DEF CRRecords, Workers
  <2> HIDE DEF r
  <2>3. Stage(r) = Stage(wk.mem)
    BY <2>1, <2>2, InstallAssumption DEF Stage
  <2>4. \/ UNCHANGED crVars /\ wk' = Idle
        \/ wk.fresh /\ wk' = Idle /\ (StoreCR(wk.n, NoCR) \/ StoreCR(wk.n, r))
    BY <1>6 DEF handleObjectDeletion, StatusStep, WriteInHand, Retry, r
  <2>5. wk.fresh => cr[wk.n] = wk.mem /\ wk.mem # NoCR
    BY <2>1, InstallAssumption DEF CRInv, WorkFresh
  <2> QED
    BY <1>2, <2>1, <2>2, <2>3, <2>4, <2>5, IdleType, SightingsStored DEF Busy
<1>7. CASE ParseConfig \/ deleteExternalResources
  <2>1. Busy /\ UNCHANGED crVars /\ wk \in Workers
    BY <1>7 DEF ParseConfig, deleteExternalResources, At, Busy, TInv, WorkType
  <2>2. CASE ParseConfig
    BY <1>3, <2>1, <2>2, WorkerGoesOn DEF ParseConfig
  <2>3. CASE deleteExternalResources
    <3>1. wk'.n = wk.n /\ wk'.mem = wk.mem
      BY <2>1, <2>3 DEF deleteExternalResources, Workers
    <3> QED
      BY <2>1, <3>1, SightingsKept
  <2> QED
    BY <1>7, <2>2, <2>3
<1>8. CASE Worker
  BY <1>3, <1>5, <1>6, <1>7, <1>8, SightingsFinalized, ComponentStepsGoOn, ComponentStepsGoOnward
  DEF Worker, ReconcileStep
<1>9. ASSUME NEW n \in CRs, ObserveCR(n) PROVE Sightings'
  <2>1. /\ cr' = cr /\ wk' = wk /\ crCache' = [crCache EXCEPT ![n] = cr[n]]
    BY <1>9 DEF ObserveCR
  <2>2. \A m \in CRs : crCache'[m] = IF m = n THEN cr[n] ELSE crCache[m]
    BY <1>1, <2>1
  <2>3. cr[n] # NoCR => cr[n] \in CRRecords /\ Earlier(cr[n], cr[n]) /\ SeenDying(n, cr[n])
    BY <1>1, UidsAreNumbers DEF Earlier, SeenDying, Stage
  <2>4. Busy => wk.n \in CRs
    BY UidsAreNumbers
  <2> QED
    BY <2>1, <2>2, <2>3, <2>4
    DEF Sightings, UidsForward, CleanupStands, Busy, SeenDying, Earlier
<1>10. CASE Restart
  <2>1. cr' = cr /\ crCache' = cr /\ ~Busy'
    BY <1>10, IdleType DEF Restart, Busy
  <2>2. \A n \in CRs : cr[n] # NoCR => Earlier(cr[n], cr[n]) /\ SeenDying(n, cr[n])
    BY <1>1, UidsAreNumbers DEF Earlier, SeenDying, Stage
  <2> QED
    BY <2>1, <2>2 DEF Sightings, UidsForward, CleanupStands, SeenDying, Earlier
<1>11. CASE Faults \/ Watches \/ ClusterSteps
  BY <1>2, <1>9, <1>10, <1>11, IdleType
  DEF Faults, Watches, ClusterSteps, CallFails, Retry, ObserveObj, Resync, CollectGarbage,
      EndJob, Busy
<1>12. CASE Users
  BY <1>2, <1>12, SightingsOfUsers DEF Users, DeleteChild
<1> QED
  BY <1>4, <1>8, <1>11, <1>12 DEF Next

\* What has to be known holds in every reachable state.
THEOREM LifecycleInvariance == Spec => []LInv
<1>1. Init => Sightings /\ CleanupDone /\ OnPlan
  <2>1. Init => ~Busy /\ \A n \in CRs : crCache[n] = NoCR
    BY IdleType DEF Init, Busy
  <2>2. Init => wk.pc = 0
    BY IdleType DEF Init
  <2> QED
    BY <2>1, <2>2, StepsStart
    DEF Sightings, UidsForward, CleanupStands, CleanupDone, OnPlan, FinalizeEarly
<1>2. IInv => TInv /\ ObjFresh /\ CRInv /\ FinalizedFirst
  BY TypesSplit DEF IInv, CRInv
<1>3. IInv /\ Sightings /\ CleanupDone /\ OnPlan /\ [Next]_vars
        => (Sightings /\ CleanupDone /\ OnPlan)'
  BY <1>2, SightingsStep, CleanupDoneStep, OnPlanStep
<1>4. IInv /\ Sightings /\ CleanupDone /\ OnPlan => LInv
  BY DEF LInv, Sightings
<1> QED
  BY <1>1, <1>3, <1>4, Invariance, PTL DEF Spec

-----------------------------------------------------------------------------
(***************************************************************************)
(* The refinement: what each write is in Lifecycle.                        *)
(***************************************************************************)
Unseen == UNCHANGED <<stageBar, uidBar, childBar>>

LEMMA NothingSeen ==
    ASSUME cr' = cr, obj' = obj
    PROVE  Unseen
  BY DEF Unseen, stageBar, uidBar, childBar

LEMMA BarsOfCR ==
    ASSUME TInv, NEW n \in CRs, NEW r \in CRRecords \cup {NoCR}, StoreCR(n, r)
    PROVE  /\ stageBar' = [stageBar EXCEPT ![n] = Stage(r)]
           /\ uidBar' = [uidBar EXCEPT ![n] = IF r = NoCR THEN 0 ELSE r.uid]
           /\ obj' = obj => UNCHANGED childBar
<1>1. cr' = [cr EXCEPT ![n] = r] /\ cr \in [CRs -> CRRecords \cup {NoCR}]
  BY DEF StoreCR, TInv, CRType
<1>2. stageBar' = [stageBar EXCEPT ![n] = Stage(r)]
  BY <1>1 DEF stageBar
<1>3. uidBar' = [uidBar EXCEPT ![n] = IF r = NoCR THEN 0 ELSE r.uid]
  BY <1>1 DEF uidBar
<1> QED
  BY <1>2, <1>3 DEF childBar

LEMMA BarsOfObj ==
    ASSUME TInv, NEW k \in Keys, NEW o \in Objects \cup {NoObj}, StoreObj(k, o)
    PROVE  /\ childBar' = [childBar EXCEPT ![k] = IF o = NoObj THEN {} ELSE {o.owner}]
           /\ cr' = cr => UNCHANGED <<stageBar, uidBar>>
<1>1. obj' = [obj EXCEPT ![k] = o]
  BY DEF StoreObj
<1>2. obj \in [Keys -> Objects \cup {NoObj}]
  BY DEF TInv, ObjType
<1>3. childBar' = [childBar EXCEPT ![k] = IF o = NoObj THEN {} ELSE {o.owner}]
  BY <1>1, <1>2 DEF childBar
<1> QED
  BY <1>3 DEF stageBar, uidBar

LEMMA BarsThere ==
    ASSUME NEW k \in Keys
    PROVE  /\ childBar[k] = IF obj[k] = NoObj THEN {} ELSE {obj[k].owner}
           /\ childBar = [childBar EXCEPT ![k] = childBar[k]]
  BY DEF childBar

\* An object that goes.
LEMMA ObjectVanishes ==
    ASSUME TInv, NEW k \in Keys, obj[k] # NoObj, StoreObj(k, NoObj), cr' = cr
    PROVE  Life!Vanish(k)
<1>1. childBar[k] # {}
  BY BarsThere
<1>2. childBar' = [childBar EXCEPT ![k] = {}] /\ UNCHANGED <<stageBar, uidBar>>
  BY BarsOfObj
<1> QED
  BY <1>1, <1>2 DEF Life!Vanish

\* An object that is written anew, for the owner it has.
LEMMA ObjectUpdated ==
    ASSUME TInv, NEW k \in Keys, obj[k] # NoObj, NEW o \in Objects, StoreObj(k, o),
           o.owner = obj[k].owner, cr' = cr
    PROVE  Unseen
<1>1. o # NoObj
  BY InstallAssumption
<1>2. childBar' = [childBar EXCEPT ![k] = {o.owner}] /\ UNCHANGED <<stageBar, uidBar>>
  BY <1>1, BarsOfObj
<1>3. childBar[k] = {obj[k].owner} /\ childBar = [childBar EXCEPT ![k] = childBar[k]]
  BY BarsThere
<1> QED
  BY <1>2, <1>3 DEF Unseen

\* A key names its component.
LEMMA KeyOfComponent ==
    ASSUME NEW n \in CRs, NEW c, Key(n, c) \in Keys
    PROVE  c \in Tracked
<1>1. \A m, d : Key(m, d)[3] = d
  BY DEF Key
<1> QED
  BY <1>1 DEF Keys

\* Past the finalizer the worker serves a custom resource that is under it.
LEMMA PastIsGuarded ==
    ASSUME TInv, CRInv, Busy, Steps[wk.pc] \notin {Finalize, Parse}
    PROVE  /\ wk.n \in CRs /\ cr[wk.n] # NoCR /\ cr[wk.n].uid = wk.mem.uid
           /\ Life!UnderFinalizer(wk.n)
<1>1. wk.pc \in Nat /\ wk.pc # 0 /\ wk.pc # 1 /\ wk.pc # 2
  BY StepsStart DEF FinalizeEarly, TInv, WorkType, Workers, Busy
<1>2. wk.mem.fin /\ ~wk.mem.deleting
  BY <1>1 DEF CRInv, FinalizedFirst, Finalized
<1>3. cr[wk.n] # NoCR /\ cr[wk.n].uid = wk.mem.uid /\ cr[wk.n].fin /\ wk.n \in CRs
  BY <1>2 DEF CRInv, SeenProtected, Protected, TInv, WorkType, WorkerHolds
<1>4. stageBar[wk.n] \in {"guarded", "dying"}
  BY <1>3 DEF stageBar, Stage
<1> QED
  BY <1>3, <1>4 DEF Life!UnderFinalizer

-----------------------------------------------------------------------------
(***************************************************************************)
(* The refinement: the steps.                                              *)
(***************************************************************************)
LifeStep ==
    \/ Life!Next
    \/ Unseen /\ UNCHANGED changes

LEMMA ObjectAppears ==
    ASSUME TInv, CRInv, NEW c \in Tracked, Creates(c), cr' = cr, changes' = changes
    PROVE  LifeStep
<1> DEFINE k == Key(wk.n, c)
           o == NewObject(wk.n, c, wk.mem)
<1>1. /\ wk.n \in CRs /\ cr[wk.n] # NoCR /\ cr[wk.n].uid = wk.mem.uid
      /\ Life!UnderFinalizer(wk.n)
  BY PastIsGuarded DEF Creates
<1>2. k \in Keys /\ o \in Objects /\ k \in holdsBar[wk.n]
  BY <1>1, KeyType, ObjectType DEF Creates, TInv, WorkType, WorkerHolds, holdsBar, KeysOf
<1>3. o.owner \in {0, uidBar[wk.n]}
  BY <1>1 DEF NewObject, uidBar
<1>4. obj[k] = NoObj /\ StoreObj(k, o) /\ o # NoObj
  BY <1>2, InstallAssumption DEF Creates
<1> HIDE DEF k, o
<1>5. childBar[k] = {} /\ childBar' = [childBar EXCEPT ![k] = {o.owner}]
  BY <1>2, <1>4, BarsOfObj, BarsThere
<1>6. UNCHANGED <<stageBar, uidBar>>
  BY <1>2, <1>4, BarsOfObj
<1>7. Life!Appear(wk.n, k)
  BY <1>1, <1>2, <1>3, <1>5, <1>6 DEF Life!Appear
<1> QED
  BY <1>1, <1>2, <1>7 DEF LifeStep, Life!Next

LEMMA UpsertRefines ==
    ASSUME TInv, CRInv, ObjFresh, OnPlan, NEW c \in Tracked,
           upsertObjectIfNeeded(c) \/ PruneStep(c) \/ PartitionStep(c)
    PROVE  LifeStep
<1> DEFINE k == Key(wk.n, c)
           want == ReconcileComponents(wk.n, c, wk.mem, objCache[k])
<1>1. /\ Busy /\ Steps[wk.pc] \notin {Finalize, Parse} /\ cr' = cr /\ changes' = changes
  BY DEF upsertObjectIfNeeded, PruneStep, PartitionStep, At, Busy, Step, Finalize, Parse,
         crVars, world
<1>2. wk.n \in CRs /\ wk.mem \in CRRecords /\ k \in Keys
  BY <1>1, KeyType DEF TInv, WorkType, WorkerHolds
<1>3. ASSUME obj' = obj PROVE LifeStep
  BY <1>1, <1>3, NothingSeen DEF LifeStep
<1>4. ASSUME CreateOrUpdate(c) PROVE LifeStep
  <2>1. \/ Creates(c)
        \/ obj[k] # NoObj /\ objCache[k] = obj[k] /\ StoreObj(k, want)
        \/ obj' = obj
    BY <1>1, <1>4 DEF CreateOrUpdate, Creates, ObjFresh, objVars
  <2>2. ASSUME obj[k] # NoObj, objCache[k] = obj[k], StoreObj(k, want) PROVE LifeStep
    <3>1. obj[k] \in Objects
      BY <1>2, <2>2 DEF TInv, ObjType
    <3>2. want \in Objects /\ want.owner = obj[k].owner
      BY <1>2, <2>2, <3>1, ObjectType DEF ReconcileComponents, Objects
    <3> HIDE DEF want, k
    <3>3. Unseen
      BY <1>1, <1>2, <2>2, <3>2, ObjectUpdated
    <3> QED
      BY <1>1, <3>3 DEF LifeStep
  <2> QED
    BY <1>1, <1>3, <2>1, <2>2, ObjectAppears
<1>5. ASSUME PruneStep(c), deleteObjectIfNeeded(c) PROVE LifeStep
  <2>1. \/ obj[k] # NoObj /\ StoreObj(k, NoObj)
        \/ obj' = obj
    BY <1>5 DEF deleteObjectIfNeeded, objVars
  <2>2. ASSUME obj[k] # NoObj, StoreObj(k, NoObj) PROVE LifeStep
    <3>1. Steps[wk.pc] = Step("prune", c) /\ wk.pc \in 1..Len(Steps)
      BY <1>5, StepsStart
      DEF PruneStep, At, OnPlan, TInv, WorkType, Workers, FinalizeEarly
    <3>2. k \in prunableBar /\ k \in holdsBar[wk.n]
      BY <1>2, <3>1 DEF prunableBar, holdsBar, KeysOf, Pruned
    <3>3. Life!UnderFinalizer(wk.n)
      BY <1>1, PastIsGuarded
    <3> HIDE DEF k
    <3>4. Life!Vanish(k)
      BY <1>1, <1>2, <2>2, ObjectVanishes
    <3>5. Life!Prune(wk.n, k)
      BY <1>1, <3>2, <3>3, <3>4 DEF Life!Prune
    <3> QED
      BY <1>2, <3>5 DEF LifeStep, Life!Next
  <2> QED
    BY <1>3, <2>1, <2>2
<1>6. ASSUME PartitionStep(c) PROVE obj' = obj \/ Creates(c)
  BY <1>1, <1>6 DEF PartitionStep, SkipPartition, Creates, objVars
<1> QED
  BY <1>1, <1>3, <1>4, <1>5, <1>6, ObjectAppears DEF upsertObjectIfNeeded, PruneStep, objVars

\* The finalizer goes on and comes off.
LEMMA FinalizerRefines ==
    ASSUME TInv, CRInv, CleanupDone, NEW c,
           addFinalizerIfNeeded \/ handleObjectDeletion \/ StatusStep(c)
    PROVE  LifeStep
<1>1. /\ Busy /\ wk.n \in CRs /\ wk.mem \in CRRecords /\ wk \in Workers
      /\ wk.mem # NoCR /\ obj' = obj /\ changes' = changes
  BY InstallAssumption
  DEF TInv, WorkType, WorkerHolds, Busy, At, addFinalizerIfNeeded, handleObjectDeletion,
      StatusStep, world, objVars
<1>2. wk.fresh => cr[wk.n] = wk.mem
  BY <1>1 DEF CRInv, WorkFresh
<1>3. wk.fresh => stageBar[wk.n] = Stage(wk.mem) /\ uidBar[wk.n] = wk.mem.uid
  BY <1>1, <1>2 DEF stageBar, uidBar
<1>4. ASSUME UNCHANGED crVars PROVE LifeStep
  BY <1>1, <1>4, NothingSeen DEF LifeStep, crVars
<1>5. CASE addFinalizerIfNeeded /\ ~wk.mem.fin /\ wk.fresh
  <2> DEFINE r == [wk.mem EXCEPT !.fin = TRUE]
  <2>1. r \in CRRecords /\ r.uid = wk.mem.uid /\ r # NoCR /\ r.fin /\ ~r.deleting
    BY <1>1, <1>5, InstallAssumption DEF CRRecords, addFinalizerIfNeeded
  <2>2. StoreCR(wk.n, r)
    BY <1>5 DEF addFinalizerIfNeeded, WriteInHand
  <2> HIDE DEF r
  <2>3. Stage(r) = "guarded" /\ Stage(wk.mem) = "open"
    BY <1>1, <1>5, <2>1 DEF Stage
  <2>4. /\ stageBar' = [stageBar EXCEPT ![wk.n] = "guarded"]
        /\ uidBar' = [uidBar EXCEPT ![wk.n] = wk.mem.uid]
        /\ UNCHANGED childBar
    BY <1>1, <2>1, <2>2, <2>3, BarsOfCR
  <2>5. UNCHANGED uidBar
    BY <1>3, <1>5, <2>4 DEF uidBar
  <2>6. Life!Protect(wk.n)
    BY <1>1, <1>3, <1>5, <2>3, <2>4, <2>5 DEF Life!Protect
  <2> QED
    BY <1>1, <2>6 DEF LifeStep, Life!Next
<1>6. CASE handleObjectDeletion /\ wk.mem.fin /\ wk.fresh
  <2>1. /\ StoreCR(wk.n, NoCR) /\ wk.mem.deleting
        /\ wk.del = Len(Cleanup(Kind, wk.mem.spec))
    BY <1>6 DEF handleObjectDeletion, WriteInHand
  <2>2. Stage(wk.mem) = "dying" /\ Stage(NoCR) = "absent"
    BY <1>1, <1>6, <2>1 DEF Stage
  <2>3. /\ stageBar' = [stageBar EXCEPT ![wk.n] = "absent"]
        /\ uidBar' = [uidBar EXCEPT ![wk.n] = 0]
        /\ UNCHANGED childBar
    BY <1>1, <2>1, <2>2, BarsOfCR
  <2>4. ASSUME NEW k \in guardsBar[wk.n] PROVE childBar[k] = {}
    <3>1. PICK d \in AlwaysCleaned : k = Key(wk.n, d)
      BY <1>1 DEF guardsBar, KeysOf
    <3>2. wk.mem.spec \in Specs
      BY <1>1 DEF CRRecords
    <3>3. PICK i \in 1..Len(Cleanup(Kind, wk.mem.spec)) : Cleanup(Kind, wk.mem.spec)[i] = d
      BY <3>1, <3>2 DEF AlwaysCleaned
    <3>4. k \in Keys
      BY <1>1, <3>1, KeyType DEF AlwaysCleaned
    <3>5. i <= wk.del
      BY <1>1, <2>1, <3>3 DEF Workers
    <3>6. obj[k] = NoObj
      BY <1>1, <2>1, <3>1, <3>3, <3>4, <3>5 DEF CleanupDone
    <3> QED
      BY <3>4, <3>6, BarsThere
  <2>5. Life!Release(wk.n)
    BY <1>1, <1>3, <1>6, <2>2, <2>3, <2>4 DEF Life!Release
  <2> QED
    BY <1>1, <2>5 DEF LifeStep, Life!Next
<1>7. CASE StatusStep(c) /\ wk.mem.cond # wk.job /\ wk.fresh
  <2> DEFINE r == [wk.mem EXCEPT !.cond = wk.job]
  <2>1. /\ r \in CRRecords /\ r.uid = wk.mem.uid /\ r # NoCR
        /\ r.fin = wk.mem.fin /\ r.deleting = wk.mem.deleting
    BY <1>1, InstallAssumption DEF CRRecords, Workers
  <2>2. StoreCR(wk.n, r)
    BY <1>7 DEF StatusStep, WriteInHand
  <2> HIDE DEF r
  <2>3. Stage(r) = Stage(wk.mem)
    BY <1>1, <2>1 DEF Stage
  <2>4. /\ stageBar' = [stageBar EXCEPT ![wk.n] = Stage(wk.mem)]
        /\ uidBar' = [uidBar EXCEPT ![wk.n] = wk.mem.uid]
        /\ UNCHANGED childBar
    BY <1>1, <2>1, <2>2, <2>3, BarsOfCR
  <2>5. Unseen
    BY <1>3, <1>7, <2>4 DEF Unseen, stageBar, uidBar
  <2> QED
    BY <1>1, <2>5 DEF LifeStep
<1> QED
  BY <1>1, <1>4, <1>5, <1>6, <1>7
  DEF addFinalizerIfNeeded, handleObjectDeletion, StatusStep, WriteInHand

LEMMA CleanupRefines ==
    ASSUME TInv, CleanupStands, deleteExternalResources
    PROVE  LifeStep
<1> DEFINE c == Cleanup(Kind, wk.mem.spec)[wk.del + 1]
           k == Key(wk.n, c)
<1>1. /\ Busy /\ wk.n \in CRs /\ wk.mem.deleting /\ cr' = cr /\ changes' = changes
  BY DEF TInv, WorkType, WorkerHolds, Busy, At, deleteExternalResources, crVars, world
<1>2. CASE obj' = obj
  BY <1>1, <1>2, NothingSeen DEF LifeStep
<1>3. CASE k \in Keys /\ obj[k] # NoObj /\ StoreObj(k, NoObj)
  <2>1. c \in Tracked
    BY <1>1, <1>3, KeyOfComponent
  <2>2. k \in holdsBar[wk.n]
    BY <1>1, <2>1 DEF holdsBar, KeysOf
  <2>3. stageBar[wk.n] # "guarded"
    BY <1>1 DEF CleanupStands, SeenDying, stageBar
  <2> HIDE DEF k
  <2>4. Life!Vanish(k)
    BY <1>1, <1>3, ObjectVanishes
  <2>5. Life!CleanUp(wk.n, k)
    BY <1>1, <2>2, <2>3, <2>4 DEF Life!CleanUp
  <2> QED
    BY <1>1, <1>3, <2>5 DEF LifeStep, Life!Next
<1> QED
  BY <1>2, <1>3 DEF deleteExternalResources, objVars

LEMMA ClusterRefines ==
    ASSUME TInv, ClusterSteps
    PROVE  LifeStep
<1>1. PICK k \in Keys : CollectGarbage(k) \/ \E outcome \in {"complete", "failed"} : EndJob(k, outcome)
  BY DEF ClusterSteps
<1>2. cr' = cr /\ changes' = changes
  BY <1>1 DEF CollectGarbage, EndJob, crVars
<1>3. CASE CollectGarbage(k)
  <2>1. obj[k] # NoObj /\ StoreObj(k, NoObj) /\ childBar[k] = {obj[k].owner} /\ obj[k].owner # 0
    BY <1>1, <1>3, BarsThere DEF CollectGarbage
  <2>2. \A n \in CRs : uidBar[n] # obj[k].owner
    BY <1>3, <2>1 DEF CollectGarbage, uidBar
  <2>3. Life!Vanish(k)
    BY <1>2, <2>1, ObjectVanishes
  <2>4. Life!Collect(k)
    BY <1>2, <2>1, <2>2, <2>3 DEF Life!Collect
  <2> QED
    BY <2>4 DEF LifeStep, Life!Next
<1>4. ASSUME NEW outcome \in {"complete", "failed"}, EndJob(k, outcome)
      PROVE  LifeStep
  <2> DEFINE o == [obj[k] EXCEPT !.status = outcome]
  <2>1. obj[k] \in Objects /\ obj[k] # NoObj
    BY <1>4 DEF EndJob, TInv, ObjType
  <2>2. o \in Objects /\ o.owner = obj[k].owner
    BY <2>1 DEF Objects, Verdicts
  <2>3. StoreObj(k, o)
    BY <1>4 DEF EndJob
  <2> HIDE DEF o
  <2>4. Unseen
    BY <1>2, <2>1, <2>2, <2>3, ObjectUpdated
  <2> QED
    BY <1>2, <2>4 DEF LifeStep
<1> QED
  BY <1>1, <1>3, <1>4

LEMMA UsersRefine ==
    ASSUME TInv, Users
    PROVE  LifeStep
<1>1. cr \in [CRs -> CRRecords \cup {NoCR}] /\ changes \in Nat
  BY DEF TInv, CRType, WorldType
<1>2. PICK n \in CRs : \/ \E spec \in SpecChoices : CreateCR(n, spec) \/ EditCR(n, spec)
                      \/ DeleteCR(n)
                      \/ \E c \in Deletable : DeleteChild(n, c)
  BY DEF Users
<1>3. changes' = changes + 1
  BY <1>2 DEF CreateCR, EditCR, DeleteCR, DeleteChild, UserChange
<1>4. ASSUME NEW spec \in SpecChoices, CreateCR(n, spec)
      PROVE  Life!Next
  <2> DEFINE r == [uid |-> changes', spec |-> spec, deleting |-> FALSE, fin |-> FALSE,
                   cond |-> "none"]
  <2>1. StoreCR(n, r) /\ cr[n] = NoCR /\ obj' = obj
    BY <1>4 DEF CreateCR, objVars
  <2>2. r \in CRRecords /\ r # NoCR /\ Stage(r) = "open" /\ r.uid = changes'
    <3>1. r \in CRRecords
      BY <1>1, <1>3, InstallAssumption DEF CRRecords, Verdicts
    <3>2. ~r.fin /\ r.uid = changes'
      OBVIOUS
    <3> QED
      BY <3>1, <3>2, InstallAssumption DEF Stage
  <2> HIDE DEF r
  <2>3. stageBar[n] = "absent"
    BY <2>1 DEF stageBar, Stage
  <2>4. Life!Request(n)
    BY <1>3, <2>1, <2>2, <2>3, BarsOfCR DEF Life!Request, Life!Tick
  <2> QED
    BY <2>4 DEF Life!Next
<1>5. ASSUME NEW spec \in SpecChoices, EditCR(n, spec)
      PROVE  Life!Next
  <2> DEFINE r == [cr[n] EXCEPT !.spec = spec]
  <2>1. cr[n] \in CRRecords /\ cr[n] # NoCR /\ obj' = obj /\ StoreCR(n, r) /\ spec \in Specs
    BY <1>1, <1>5, InstallAssumption DEF EditCR, objVars
  <2>2. /\ r \in CRRecords /\ r # NoCR /\ r.uid = cr[n].uid
        /\ r.fin = cr[n].fin /\ r.deleting = cr[n].deleting
    BY <2>1, InstallAssumption DEF CRRecords
  <2> HIDE DEF r
  <2>3. Stage(r) = Stage(cr[n]) /\ Stage(r) # "absent"
    BY <2>1, <2>2 DEF Stage
  <2>4. stageBar[n] = Stage(r) /\ uidBar[n] = r.uid
    BY <2>1, <2>2, <2>3 DEF stageBar, uidBar
  <2>5. /\ stageBar' = [stageBar EXCEPT ![n] = Stage(r)]
        /\ uidBar' = [uidBar EXCEPT ![n] = r.uid] /\ UNCHANGED childBar
    BY <2>1, <2>2, BarsOfCR
  <2>6. UNCHANGED <<stageBar, uidBar>>
    BY <2>4, <2>5 DEF stageBar, uidBar
  <2>7. Life!Edit(n)
    BY <1>3, <2>3, <2>4, <2>5, <2>6 DEF Life!Edit, Life!Tick
  <2> QED
    BY <2>7 DEF Life!Next
<1>6. CASE DeleteCR(n)
  <2> DEFINE r == [cr[n] EXCEPT !.deleting = TRUE]
  <2>1. cr[n] \in CRRecords /\ cr[n] # NoCR /\ ~cr[n].deleting /\ obj' = obj
    BY <1>1, <1>6 DEF DeleteCR, objVars
  <2>2. stageBar[n] = Stage(cr[n]) /\ uidBar[n] = cr[n].uid
    BY <2>1 DEF stageBar, uidBar
  <2>3. CASE ~cr[n].fin
    <3>1. StoreCR(n, NoCR) /\ Stage(cr[n]) = "open" /\ Stage(NoCR) = "absent"
      BY <1>6, <2>1, <2>3 DEF DeleteCR, Stage
    <3>2. Life!Delete(n)
      BY <1>3, <2>1, <2>2, <3>1, BarsOfCR DEF Life!Delete, Life!Tick
    <3> QED
      BY <3>2 DEF Life!Next, LifeStep
  <2>4. CASE cr[n].fin
    <3>1. StoreCR(n, r) /\ r \in CRRecords /\ r # NoCR /\ r.uid = cr[n].uid
          /\ r.fin /\ r.deleting
      BY <1>6, <2>1, <2>4, InstallAssumption DEF DeleteCR, CRRecords
    <3> HIDE DEF r
    <3>2. Stage(r) = "dying" /\ stageBar[n] = "guarded"
      BY <2>1, <2>2, <2>4, <3>1 DEF Stage
    <3>3. /\ stageBar' = [stageBar EXCEPT ![n] = "dying"]
          /\ uidBar' = [uidBar EXCEPT ![n] = cr[n].uid] /\ UNCHANGED childBar
      BY <2>1, <3>1, <3>2, BarsOfCR
    <3>4. UNCHANGED uidBar
      BY <2>2, <3>3 DEF uidBar
    <3>5. Life!Delete(n)
      BY <1>3, <3>2, <3>3, <3>4 DEF Life!Delete, Life!Tick
    <3> QED
      BY <3>5 DEF Life!Next, LifeStep
  <2> QED
    BY <2>3, <2>4
<1>7. ASSUME NEW c \in Deletable, DeleteChild(n, c)
      PROVE  Life!Next
  <2> DEFINE k == Key(n, c)
  <2>1. k \in Keys /\ k \in removableBar
    BY KeyType, InstallAssumption DEF removableBar, KeysOf
  <2>2. obj[k] # NoObj /\ StoreObj(k, NoObj) /\ cr' = cr
    BY <1>7 DEF DeleteChild, crVars
  <2> HIDE DEF k
  <2>3. Life!Vanish(k)
    BY <2>1, <2>2, ObjectVanishes
  <2>4. Life!RemoveByHand(k)
    BY <1>3, <2>1, <2>3 DEF Life!RemoveByHand, Life!Tick
  <2> QED
    BY <2>1, <2>4 DEF Life!Next
<1> QED
  BY <1>2, <1>4, <1>5, <1>6, <1>7 DEF LifeStep

LEMMA StepsRefine ==
    ASSUME LInv, [Next]_vars
    PROVE  [Life!Next]_(Life!lifeVars)
<1> USE TypesSplit
<1>1. TInv /\ CRInv /\ ObjFresh /\ OnPlan /\ CleanupDone /\ CleanupStands
  BY DEF LInv, IInv
<1>2. SUFFICES LifeStep
  BY DEF LifeStep, Unseen, Life!lifeVars
<1>3. ASSUME cr' = cr, obj' = obj, changes' = changes PROVE LifeStep
  BY <1>3, NothingSeen DEF LifeStep
<1>4. CASE UNCHANGED vars
  BY <1>3, <1>4 DEF vars, crVars, objVars, world
<1>5. CASE Faults \/ Watches
  BY <1>3, <1>5 DEF Faults, Watches, CallFails, Restart, ObserveCR, ObserveObj, Resync,
                    crVars, objVars, world
<1>6. CASE ParseConfig \/ \E n \in CRs : Dequeue(n)
  BY <1>3, <1>6 DEF ParseConfig, Dequeue, crVars, objVars, world
<1>7. CASE \E c \in Tracked : PollJob(c) \/ JobTimeout(c)
  BY <1>3, <1>7 DEF PollJob, JobTimeout, crVars, objVars, world
<1>8. CASE Worker
  BY <1>1, <1>6, <1>7, <1>8, UpsertRefines, FinalizerRefines, CleanupRefines
  DEF Worker, ReconcileStep
<1> QED
  BY <1>1, <1>4, <1>5, <1>8, ClusterRefines, UsersRefine DEF Next

\* Whatever the caches and the delays, the faults and the restarts, an install
\* controller keeps the promise of Lifecycle.
THEOREM Refinement == Spec => KeepsPromise
<1>1. Init => Life!Init
  BY DEF Init, Life!Init, stageBar, uidBar, childBar, Stage
<1>2. LInv /\ [Next]_vars => [Life!Next]_(Life!lifeVars)
  BY StepsRefine
<1> QED
  BY <1>1, <1>2, LifecycleInvariance, PTL DEF Spec, Life!Spec, KeepsPromise

-----------------------------------------------------------------------------
(***************************************************************************)
(* What the promise is good for.                                           *)
(***************************************************************************)
LEMMA GuardsAreShared == Life!GuardsShared
<1> SUFFICES ASSUME NEW n \in CRs, NEW m \in CRs, NEW k \in guardsBar[n], k \in holdsBar[m]
             PROVE  k \in guardsBar[m]
  BY DEF Life!GuardsShared
<1>1. PICK c \in AlwaysCleaned : k = Key(n, c)
  BY DEF guardsBar, KeysOf
<1>2. PICK d \in Tracked : k = Key(m, d)
  BY DEF holdsBar, KeysOf
<1>3. Key(n, c)[3] = c /\ Key(m, d)[3] = d
  BY DEF Key
<1> QED
  BY <1>1, <1>2, <1>3 DEF guardsBar, KeysOf

LEMMA NothingLeftStep ==
    ASSUME Life!NothingLeft, [Life!Next]_(Life!lifeVars)
    PROVE  Life!NothingLeft'
<1> USE DEF Life!NothingLeft, Life!UnderFinalizer
<1>0. /\ DOMAIN stageBar = CRs /\ DOMAIN childBar = Keys
  BY DEF stageBar, childBar
<1>1. ASSUME UNCHANGED <<stageBar, childBar>> PROVE Life!NothingLeft'
  BY <1>1
<1>2. ASSUME NEW n \in CRs, Life!Request(n) \/ Life!Edit(n) \/ Life!Delete(n) \/ Life!Protect(n)
      PROVE  Life!NothingLeft'
  <2>1. /\ UNCHANGED childBar
        /\ \A m \in CRs : stageBar[m] \in {"guarded", "dying"} => stageBar'[m] \in {"guarded", "dying"}
    BY <1>0, <1>2 DEF Life!Request, Life!Edit, Life!Delete, Life!Protect
  <2> QED
    BY <2>1
<1>3. ASSUME NEW n \in CRs, Life!Release(n) PROVE Life!NothingLeft'
  <2>1. /\ UNCHANGED childBar /\ \A k \in guardsBar[n] : childBar[k] = {}
        /\ \A m \in CRs : m # n => stageBar'[m] = stageBar[m]
    BY <1>0, <1>3 DEF Life!Release
  <2> QED
    BY <2>1
<1>4. ASSUME NEW k \in Keys, Life!Vanish(k) PROVE Life!NothingLeft'
  <2>1. UNCHANGED stageBar /\ \A j \in Keys : childBar'[j] # {} => childBar[j] # {}
    BY <1>0, <1>4 DEF Life!Vanish
  <2> QED
    BY <2>1
<1>5. ASSUME NEW n \in CRs, NEW k \in Keys, Life!Appear(n, k) PROVE Life!NothingLeft'
  <2>1. /\ UNCHANGED stageBar /\ stageBar[n] \in {"guarded", "dying"} /\ k \in holdsBar[n]
        /\ \A j \in Keys : j # k => childBar'[j] = childBar[j]
    BY <1>0, <1>5 DEF Life!Appear
  <2>2. \A m \in CRs : k \in guardsBar[m] => k \in guardsBar[n]
    BY <2>1, GuardsAreShared DEF Life!GuardsShared
  <2> QED
    BY <2>1, <2>2
<1> QED
  BY <1>1, <1>2, <1>3, <1>4, <1>5
  DEF Life!Next, Life!lifeVars, Life!Prune, Life!CleanUp, Life!RemoveByHand, Life!Collect

LEMMA WhenSeq ==
    ASSUME NEW S, NEW c \in S, NEW kind, NEW spec
    PROVE  When(c, kind, spec) \in Seq(S)
<1>1. <<c>> \in Seq(S) /\ << >> \in Seq(S)
  OBVIOUS
<1> QED
  BY <1>1 DEF When

\* The cleanup of these two removes both whatever the spec has become.
LEMMA CleanedAlways ==
    ASSUME Kind \in {"Executor", "Binoculars"}
    PROVE  {"clusterRole", "binding"} \cap Tracked \subseteq AlwaysCleaned
<1>1. ASSUME NEW spec \in Specs
      PROVE  \A c \in {"clusterRole", "binding"} :
               \E i \in 1..Len(Cleanup(Kind, spec)) : Cleanup(Kind, spec)[i] = c
  <2>1. CASE Kind = "Executor"
    <3> DEFINE A == When("prometheusRule", "Executor", spec)
               B == When("extraBinding", "Executor", spec)
               S == {"clusterRole", "prometheusRule", "binding", "extraBinding"}
               s == <<"clusterRole">> \o A \o <<"binding">> \o B
    <3>1. A \in Seq(S) /\ B \in Seq(S)
      BY WhenSeq
    <3>2. Cleanup(Kind, spec) = s
      BY <2>1 DEF Cleanup, ExecutorDeleteExternalResources
    <3> HIDE DEF A, B
    <3>3. /\ Len(s) = Len(A) + Len(B) + 2 /\ s[1] = "clusterRole" /\ s[Len(A) + 2] = "binding"
          /\ Len(A) \in Nat /\ Len(B) \in Nat
      BY <3>1
    <3>4. 1 \in 1..Len(s) /\ Len(A) + 2 \in 1..Len(s)
      BY <3>3
    <3> HIDE DEF s
    <3> QED
      BY <3>2, <3>3, <3>4
  <2>2. CASE Kind = "Binoculars"
    <3>1. Cleanup(Kind, spec) = <<"clusterRole", "binding">>
      BY <2>2 DEF Cleanup, BinocularsDeleteExternalResources
    <3> QED
      BY <3>1
  <2> QED
    BY <2>1, <2>2
<1> QED
  BY <1>1 DEF AlwaysCleaned

\* For the two controllers that create cluster-scoped objects: the ClusterRole
\* and its binding never outlive the last custom resource of that name.
THEOREM NoLeak ==
    ASSUME Kind \in {"Executor", "Binoculars"}
    PROVE  Spec => []NoClusterLeak
<1>1. Life!Init => Life!NothingLeft
  BY DEF Life!Init, Life!NothingLeft
<1>2. Life!Spec => []Life!NothingLeft
  BY <1>1, NothingLeftStep, PTL DEF Life!Spec
<1>3. Life!NothingLeft => NoClusterLeak
  <2> SUFFICES ASSUME Life!NothingLeft, NEW n \in CRs, NEW c \in {"clusterRole", "binding"} \cap Tracked,
                      obj[Key(n, c)] # NoObj
               PROVE  \E m \in CRs : Key(m, c) = Key(n, c) /\ cr[m] # NoCR /\ cr[m].fin
    BY DEF NoClusterLeak
  <2>1. Key(n, c) \in Keys /\ Key(n, c) \in guardsBar[n]
    BY KeyType, CleanedAlways DEF guardsBar, KeysOf
  <2>2. childBar[Key(n, c)] # {}
    BY <2>1, BarsThere
  <2>3. PICK m \in CRs : Key(n, c) \in guardsBar[m] /\ stageBar[m] \in {"guarded", "dying"}
    BY <2>1, <2>2 DEF Life!NothingLeft, Life!UnderFinalizer
  <2>4. PICK d \in AlwaysCleaned : Key(n, c) = Key(m, d)
    BY <2>3 DEF guardsBar, KeysOf
  <2>5. \A i, e : Key(i, e)[3] = e
    BY DEF Key
  <2>6. d = c
    BY <2>4, <2>5
  <2>7. cr[m] # NoCR /\ cr[m].fin
    BY <2>3 DEF stageBar, Stage
  <2> QED
    BY <2>4, <2>6, <2>7
<1> QED
  BY <1>2, <1>3, Refinement, PTL DEF KeepsPromise

=============================================================================
