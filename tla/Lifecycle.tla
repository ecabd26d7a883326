------------------------------ MODULE Lifecycle ------------------------------
(***************************************************************************)
(* What an install controller promises its users, with nothing of how it   *)
(* keeps the promise: no caches, no workqueue, no worker, no table.        *)
(*                                                                         *)
(* A custom resource is absent, open (accepted, not yet under the          *)
(* operator's finalizer), guarded, or dying.  An object appears only for a *)
(* custom resource under the finalizer, and disappears only for a reason   *)
(* that can be named; and the finalizer goes only when what it guards is   *)
(* gone.                                                                   *)
(***************************************************************************)
EXTENDS Naturals

CONSTANTS
    CRs,        \* the custom resources
    Keys,       \* the objects
    Holds,      \* Holds[n]: the objects custom resource n stands for
    Guards,     \* Guards[n]: those of them that its finalizer guards
    Prunable,   \* the objects the operator may remove while their holder lives
    Removable   \* the objects users may remove by hand

VARIABLES
    stage,  \* where each custom resource is in its life
    uid,    \* which custom resource has the name now, 0 when none has
    child,  \* for each object the set of the uid it names as its owner, 0 for
            \* none; the empty set when it is not there
    clock   \* the number of changes users have made

lifeVars == <<stage, uid, child, clock>>

Init ==
    /\ stage = [n \in CRs |-> "absent"]
    /\ uid = [n \in CRs |-> 0]
    /\ child = [k \in Keys |-> {}]
    /\ clock = 0

UnderFinalizer(n) == stage[n] \in {"guarded", "dying"}

Tick == clock' = clock + 1

-----------------------------------------------------------------------------
(***************************************************************************)
(* Users.                                                                  *)
(***************************************************************************)
Request(n) ==
    /\ stage[n] = "absent"
    /\ Tick
    /\ stage' = [stage EXCEPT ![n] = "open"]
    /\ uid' = [uid EXCEPT ![n] = clock']
    /\ UNCHANGED child

Edit(n) ==
    /\ stage[n] # "absent"
    /\ Tick
    /\ UNCHANGED <<stage, uid, child>>

Delete(n) ==
    /\ Tick
    /\ \/ /\ stage[n] = "open"
          /\ stage' = [stage EXCEPT ![n] = "absent"]
          /\ uid' = [uid EXCEPT ![n] = 0]
       \/ /\ stage[n] = "guarded"
          /\ stage' = [stage EXCEPT ![n] = "dying"]
          /\ UNCHANGED uid
    /\ UNCHANGED child

Vanish(k) ==
    /\ child[k] # {}
    /\ child' = [child EXCEPT ![k] = {}]
    /\ UNCHANGED <<stage, uid>>

RemoveByHand(k) == k \in Removable /\ Vanish(k) /\ Tick

-----------------------------------------------------------------------------
(***************************************************************************)
(* The operator.                                                           *)
(***************************************************************************)
Protect(n) ==
    /\ stage[n] = "open"
    /\ stage' = [stage EXCEPT ![n] = "guarded"]
    /\ UNCHANGED <<uid, child, clock>>

\* An object appears for a custom resource under the finalizer that owns it, if
\* anybody does.  One that is dying may still get what a reconcile begun in time
\* has not finished.
Appear(n, k) ==
    /\ UnderFinalizer(n)
    /\ k \in Holds[n]
    /\ child[k] = {}
    /\ \E owner \in {0, uid[n]} : child' = [child EXCEPT ![k] = {owner}]
    /\ UNCHANGED <<stage, uid, clock>>

Prune(n, k) ==
    /\ UnderFinalizer(n)
    /\ k \in Holds[n] \cap Prunable
    /\ Vanish(k)
    /\ UNCHANGED clock

\* Never for a custom resource that lives under the finalizer.
CleanUp(n, k) ==
    /\ stage[n] # "guarded"
    /\ k \in Holds[n]
    /\ Vanish(k)
    /\ UNCHANGED clock

Release(n) ==
    /\ stage[n] = "dying"
    /\ \A k \in Guards[n] : child[k] = {}
    /\ stage' = [stage EXCEPT ![n] = "absent"]
    /\ uid' = [uid EXCEPT ![n] = 0]
    /\ UNCHANGED <<child, clock>>

-----------------------------------------------------------------------------
(***************************************************************************)
(* The garbage collector.                                                  *)
(***************************************************************************)
Collect(k) ==
    /\ 0 \notin child[k]
    /\ \A n \in CRs : uid[n] \notin child[k]
    /\ Vanish(k)
    /\ UNCHANGED clock

Next ==
    \/ \E n \in CRs : \/ Request(n) \/ Edit(n) \/ Delete(n)
                      \/ Protect(n) \/ Release(n)
                      \/ \E k \in Keys : Appear(n, k) \/ Prune(n, k) \/ CleanUp(n, k)
    \/ \E k \in Keys : RemoveByHand(k) \/ Collect(k)

Spec == Init /\ [][Next]_lifeVars

-----------------------------------------------------------------------------
\* What is guarded by one is guarded by all who hold it.
GuardsShared ==
    \A n, m \in CRs : Guards[n] \cap Holds[m] \subseteq Guards[m]

\* A guarded object is there only as long as a custom resource that guards it
\* is under the finalizer.
NothingLeft ==
    \A n \in CRs, k \in Keys :
        k \in Guards[n] /\ child[k] # {} =>
            \E m \in CRs : k \in Guards[m] /\ UnderFinalizer(m)

=============================================================================
