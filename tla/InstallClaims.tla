----------------------------- MODULE InstallClaims -----------------------------
(***************************************************************************)
(* What the documentation and the comments of the repository say of the    *)
(* operator and the code does not do.  Each claim is stated as its text    *)
(* reads and refuted by a run of its own.                                  *)
(***************************************************************************)
EXTENDS InstallLifecycle

\* A binding the Executor was given never outlives the last Executor it serves
\* ("CleanupFunc is a function that will clean up additional resources which
\* are not deleted by owner references", common_helpers.go).
NoBindingLeak ==
    \A n \in CRs : obj[Key(n, "extraBinding")] # NoObj =>
        \E m \in CRs : /\ Key(m, "extraBinding") = Key(n, "extraBinding")
                       /\ cr[m] # NoCR /\ cr[m].fin

\* At rest the condition of a Lookout is Running only if its Job has not
\* finished ("ReasonPartitionJobTableRunning means the Job which partitions the
\* Lookout job table has not finished yet", lookout_types.go).
RunningMeansUnfinished ==
    \A n \in CRs :
        (/\ Settled(n) /\ Live(cr[n]) /\ crFresh = CRs /\ objFresh = Keys
         /\ cr[n].cond = "running" /\ obj[Key(n, "partition")] # NoObj)
            => obj[Key(n, "partition")].status = "running"

=============================================================================
