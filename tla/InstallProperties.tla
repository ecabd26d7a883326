-------------------------- MODULE InstallProperties --------------------------
(***************************************************************************)
(* What an install controller promises, whichever its table.               *)
(***************************************************************************)
EXTENDS Install

\* Every variable stays in its type.
TypeOK ==
    /\ cr \in [CRs -> CRRecords \cup {NoCR}]
    /\ crCache \in [CRs -> CRRecords \cup {NoCR}]
    /\ crFresh \subseteq CRs
    /\ obj \in [Keys -> Objects \cup {NoObj}]
    /\ objCache \in [Keys -> Objects \cup {NoObj}]
    /\ objFresh \subseteq Keys
    /\ queue \subseteq CRs
    /\ wk \in [pc : Nat, n : CRs \cup {NoCR}, mem : CRRecords \cup {NoCR},
               fresh : BOOLEAN, del : Nat, job : Verdicts]
    /\ ended \subseteq Keys \X {"complete", "failed"}
    /\ lost \subseteq Keys
    /\ changes \in Nat
    /\ faults \in Nat

-----------------------------------------------------------------------------
(***************************************************************************)
(* Deletion.                                                               *)
(***************************************************************************)
\* An object is created only for a custom resource that is there at that very
\* moment, with the operator's finalizer on it, and that the object names as
\* its owner if it names one: no reconcile, however stale what it read, brings
\* an object to life that the deletion of its owner would miss
\* (checkAndHandleObjectDeletion ahead of every upsert).
NoOrphanIsBorn ==
    [][\A k \in Keys : obj[k] = NoObj /\ obj'[k] # NoObj =>
          \E n \in CRs : /\ \E c \in Tracked : Key(n, c) = k
                         /\ cr[n] # NoCR
                         /\ cr[n].fin
                         /\ obj'[k].owner \in {0, cr[n].uid}]_vars

\* The ClusterRole and the ClusterRoleBinding of the same name, which no owner
\* reference removes, never outlive the last custom resource they serve
\* (deleteExternalResources before the finalizer goes).
NoClusterLeak ==
    \A n \in CRs, c \in {"clusterRole", "binding"} \cap Tracked :
        obj[Key(n, c)] # NoObj =>
            \E m \in CRs : Key(m, c) = Key(n, c) /\ cr[m] # NoCR /\ cr[m].fin

-----------------------------------------------------------------------------
(***************************************************************************)
(* Jobs.                                                                   *)
(***************************************************************************)
HasEnded(n, job) == \E outcome \in {"complete", "failed"} : <<Key(n, job), outcome>> \in ended

\* What Reconcile upserts after it has waited for a Job exists only once a Job
\* of that name has ended: no Deployment before the database migration or the
\* Pulsar initialisation has run.
JobsGate ==
    \A n \in CRs, i, j \in DOMAIN Steps :
        (/\ i < j /\ Steps[i].op = "wait" /\ Steps[i].c \in Tracked
         /\ Steps[j].op \in {"upsert", "prune", "partition"} /\ Steps[j].c \in Tracked
         /\ \A spec \in SpecChoices : Steps[i].c \in Generated(Kind, spec)
         /\ obj[Key(n, Steps[j].c)] # NoObj)
            => HasEnded(n, Steps[i].c)

\* The job table is partitioned only after a migration has succeeded; one that
\* failed, which lets the Deployment through, does not start the Job.
PartitionGate ==
    \A n \in CRs : obj[Key(n, "partition")] # NoObj =>
        <<Key(n, "migration"), "complete">> \in ended

\* The JobTablePartitioned condition says succeeded, or failed, only when a
\* partition Job has.
VerdictHonest ==
    \A n \in CRs : cr[n] # NoCR /\ cr[n].cond \in {"complete", "failed"} =>
        <<Key(n, "partition"), cr[n].cond>> \in ended

\* A verdict is not taken back while the Job that earned it was never removed,
\* in whatever order events, reconciles and edits come.
VerdictStable ==
    [][\A n \in CRs :
          (/\ cr[n] # NoCR /\ cr[n].cond \in {"complete", "failed"}
           /\ cr'[n] # NoCR /\ cr'[n].uid = cr[n].uid
           /\ Key(n, "partition") \notin lost)
              => cr'[n].cond = cr[n].cond]_vars

-----------------------------------------------------------------------------
(***************************************************************************)
(* The operator at rest.                                                   *)
(***************************************************************************)
\* Nothing is waiting for, or at work on, this custom resource.
Settled(n) == n \notin queue /\ wk.n # n

Live(r) == r # NoCR /\ ~r.deleting /\ Generates(Kind, r.spec)

\* The components a complete reconcile of a spec leaves in the cluster.
Installed(spec) ==
    {c \in Tracked \cap Generated(Kind, spec) :
        \/ \E i \in DOMAIN Steps : Steps[i] = Upsert(c)
        \/ c = "cronJob" /\ "pruning" \in spec.on}

\* What the cleanup function may remove, whatever the spec.
CleanedUp ==
    {c \in Components :
        \E spec \in Specs : \E i \in DOMAIN Cleanup(Kind, spec) : Cleanup(Kind, spec)[i] = c}

\* At rest every component of the spec the operator has seen is there, unless
\* it was removed behind the operator's back, and the workloads carry its
\* configuration: no event is lost, whenever it comes.  Not so for a component
\* that the cleanup removes: a custom resource that takes the place of a deleted
\* one may find that component in a cache that still shows what the cleanup has
\* removed, and nothing tells the operator when the cache catches up.
InstalledAtRest ==
    \A n \in CRs : Settled(n) /\ Live(crCache[n]) =>
        \A c \in Installed(crCache[n].spec) \ CleanedUp :
            Key(n, c) \notin lost =>
                /\ obj[Key(n, c)] # NoObj
                /\ c \in Defaulted =>
                      obj[Key(n, c)].content = Content(n, c, crCache[n].spec)

\* At rest there is no pruning CronJob when pruning is off.
NoPrunerAtRest ==
    \A n \in CRs : Settled(n) /\ Live(crCache[n]) /\ "pruning" \notin crCache[n].spec.on
        => obj[Key(n, "cronJob")] = NoObj

\* At rest the condition shows the outcome of the partition Job the operator
\* has seen end: its end wakes the Lookout up (Owns in SetupWithManager).
VerdictReported ==
    \A n \in CRs :
        LET job(c) == objCache[Key(n, c)]
        IN (/\ Settled(n) /\ n \in crFresh /\ Live(cr[n])
            /\ "partitionJobTable" \in cr[n].spec.on
            /\ job("migration") # NoObj /\ job("migration").status = "complete"
            /\ job("partition") # NoObj)
               => cr[n].cond = job("partition").status

\* At rest a custom resource carries the operator's finalizer and is not
\* waiting to be deleted: whatever call failed or came too late, no deletion is
\* forgotten halfway, and none can come that the operator would not get to see
\* (addFinalizerIfNeeded and handleObjectDeletion in common_helpers.go).
GuardedAtRest ==
    \A n \in CRs : Settled(n) /\ n \in crFresh /\ cr[n] # NoCR =>
        cr[n].fin /\ ~cr[n].deleting

\* The operator writes a custom resource back whole, spec and all, yet only
\* users change what they asked for: no write of the finalizer, of its removal
\* or of the condition, from however old a copy, takes back an edit or a request
\* for deletion, brings a custom resource back, or removes one nobody deleted
\* (r.Update in addFinalizerIfNeeded and handleObjectDeletion).
EditsStand ==
    [][\A n \in CRs : cr[n] # NoCR /\ changes' = changes =>
          IF cr'[n] = NoCR THEN cr[n].deleting
          ELSE /\ cr'[n].uid = cr[n].uid /\ cr'[n].spec = cr[n].spec
               /\ cr'[n].deleting = cr[n].deleting]_vars

-----------------------------------------------------------------------------
(***************************************************************************)
(* Progress, once users and faults have come to an end.                    *)
(***************************************************************************)
\* A custom resource marked for deletion goes, whatever its spec has become
\* and even when its Jobs never end ("If the resource is being deleted, it will
\* remove the finalizer", common_helpers.go).
DeletionCompletes ==
    \A n \in CRs : (cr[n] # NoCR /\ cr[n].deleting) ~> (cr[n] = NoCR)

OwnerIsThere(o) == o.owner = 0 \/ \E n \in CRs : cr[n] # NoCR /\ cr[n].uid = o.owner

\* Every live custom resource ends up with all its components, owned by a custom
\* resource that is there, those that are kept in step with the configuration
\* carrying it: whatever was lost on the way, whatever a deleted predecessor
\* left behind for the garbage collector, whichever other custom resource has
\* a configuration that cannot be parsed or shares the Jobs.
Converges ==
    <>[](\A n \in CRs : Live(cr[n]) =>
            \A c \in Installed(cr[n].spec) :
                LET o == obj[Key(n, c)]
                IN /\ o # NoObj
                   /\ OwnerIsThere(o)
                   /\ c \in Mutable => o.content = Content(n, c, cr[n].spec))

\* The condition ends up with the outcome of the partition Job.
VerdictComes ==
    <>[](\A n \in CRs :
            Live(cr[n]) /\ "partitionJobTable" \in cr[n].spec.on
                /\ obj[Key(n, "migration")] # NoObj
                /\ obj[Key(n, "migration")].status = "complete" =>
                    /\ cr[n].cond \in {"complete", "failed"}
                    /\ cr[n].cond = obj[Key(n, "partition")].status)

=============================================================================
