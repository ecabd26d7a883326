--------------------------- MODULE InstallLifecycle ---------------------------
(***************************************************************************)
(* Install, seen as Lifecycle: the refinement mapping.                     *)
(***************************************************************************)
EXTENDS InstallInvariant

\* The components the cleanup removes whatever the spec has become.
AlwaysCleaned ==
    {c \in Tracked : \A spec \in Specs :
        \E i \in 1..Len(Cleanup(Kind, spec)) : Cleanup(Kind, spec)[i] = c}

Stage(r) ==
    IF r = NoCR THEN "absent"
    ELSE IF ~r.fin THEN "open"
    ELSE IF r.deleting THEN "dying" ELSE "guarded"

KeysOf(n, components) == {Key(n, c) : c \in components}

Pruned == {c \in Tracked : \E i \in 1..Len(Steps) : Steps[i] = Step("prune", c)}

holdsBar  == [n \in CRs |-> KeysOf(n, Tracked)]
guardsBar == [n \in CRs |-> KeysOf(n, AlwaysCleaned)]
prunableBar  == UNION {KeysOf(n, Pruned) : n \in CRs}
removableBar == UNION {KeysOf(n, Deletable) : n \in CRs}
stageBar == [n \in CRs |-> Stage(cr[n])]
uidBar   == [n \in CRs |-> IF cr[n] = NoCR THEN 0 ELSE cr[n].uid]
childBar == [k \in Keys |-> IF obj[k] = NoObj THEN {} ELSE {obj[k].owner}]

Life == INSTANCE Lifecycle WITH
    Holds     <- holdsBar,
    Guards    <- guardsBar,
    Prunable  <- prunableBar,
    Removable <- removableBar,
    stage     <- stageBar,
    uid       <- uidBar,
    child     <- childBar,
    clock     <- changes

\* Whatever the worker, its caches and their delays, faults and restarts: seen
\* from outside the controller keeps to Lifecycle.  An object comes to life only
\* under the finalizer, goes only for a reason that can be named, and the
\* finalizer goes only after what it guards (checkAndHandleObjectDeletion,
\* deleteExternalResources, deleteObjectIfNeeded).
KeepsPromise == Life!Spec

-----------------------------------------------------------------------------
(***************************************************************************)
(* What has to be known, beside IInv, to see a step of Install as one of   *)
(* Lifecycle.                                                              *)
(***************************************************************************)
\* The uid of a version seen some time ago is not ahead of a later one's.
Earlier(r, later) == later # NoCR => r.uid <= later.uid

UidsForward ==
    /\ \A n \in CRs : crCache[n] # NoCR => Earlier(crCache[n], cr[n])
    /\ Busy => Earlier(wk.mem, cr[wk.n]) /\ Earlier(wk.mem, crCache[wk.n])

\* A custom resource that was seen being deleted is not back under the
\* finalizer, alive, while that version is still around.
SeenDying(n, r) == r.deleting => Stage(cr[n]) # "guarded"

CleanupStands ==
    /\ \A n \in CRs : crCache[n] # NoCR => SeenDying(n, crCache[n])
    /\ Busy => SeenDying(wk.n, wk.mem)

\* What the cleanup in hand has deleted so far is gone.
CleanupDone ==
    Busy /\ wk.mem.deleting =>
        \A i \in 1..Len(Cleanup(Kind, wk.mem.spec)) :
            LET k == Key(wk.n, Cleanup(Kind, wk.mem.spec)[i])
            IN i <= wk.del /\ k \in Keys => obj[k] = NoObj

\* The worker is on its plan.
OnPlan == wk.pc <= Len(Steps)

LInv == IInv /\ UidsForward /\ CleanupStands /\ CleanupDone /\ OnPlan

=============================================================================
