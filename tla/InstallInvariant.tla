--------------------------- MODULE InstallInvariant ---------------------------
(***************************************************************************)
(* The inductive invariant behind NoOrphanIsBorn: what the worker and the  *)
(* caches still know about a custom resource that has moved on.            *)
(***************************************************************************)
EXTENDS InstallProperties

Busy == wk.pc # 0

\* What the worker has in hand is a custom resource.
WorkerHolds == Busy => wk.n \in CRs /\ wk.mem \in CRRecords

\* A copy that counts as fresh is the stored version.
CacheFresh == \A n \in crFresh : crCache[n] = cr[n]
ObjFresh   == \A k \in objFresh : objCache[k] = obj[k]
WorkFresh  == Busy /\ wk.fresh => cr[wk.n] = wk.mem

\* A uid is the number of the change that created its custom resource.
UidsNumbered ==
    /\ \A n \in CRs : /\ cr[n] # NoCR => cr[n].uid <= changes
                      /\ crCache[n] # NoCR => crCache[n].uid <= changes
    /\ Busy => wk.mem.uid <= changes

\* r, a version of custom resource n seen some time ago, is protected: the
\* finalizer it had still is in place on the same custom resource.
Protected(n, r) ==
    r.fin /\ ~r.deleting => cr[n] # NoCR /\ cr[n].uid = r.uid /\ cr[n].fin

SeenProtected ==
    /\ \A n \in CRs : crCache[n] # NoCR => Protected(n, crCache[n])
    /\ Busy => Protected(wk.n, wk.mem)

\* A deletion is never taken back: a version later than r is being deleted too
\* if r is.
StillDeleting(r, later) ==
    r.deleting /\ later # NoCR /\ later.uid = r.uid => later.deleting

DeletionsStand ==
    /\ \A n \in CRs : crCache[n] # NoCR => StillDeleting(crCache[n], cr[n])
    /\ Busy => /\ StillDeleting(wk.mem, cr[wk.n])
               /\ StillDeleting(wk.mem, crCache[wk.n])

\* The worker is past checkAndHandleObjectDeletion.
Finalized(pc) == pc > 2 \/ (pc = 2 /\ Steps[1] = Finalize)
FinalizedFirst == Finalized(wk.pc) => wk.mem.fin /\ ~wk.mem.deleting

CRInv ==
    /\ CacheFresh /\ WorkFresh
    /\ UidsNumbered
    /\ SeenProtected
    /\ DeletionsStand
    /\ FinalizedFirst

IInv == TypeOK /\ WorkerHolds /\ ObjFresh /\ CRInv

=============================================================================
