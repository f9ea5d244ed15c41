------------------------------ MODULE Replication ------------------------------
(***************************************************************************)
(* Cross-cluster replication of guests (_execute_replication in            *)
(* pegaprox/api/vms.py, the scheduler in                                   *)
(* pegaprox/background/cross_cluster_replication.py).  Each guest has one  *)
(* enabled job.  A run of the job snapshots the guest on the source        *)
(* cluster, clones the snapshot, removes the old replica from the target   *)
(* cluster and migrates the clone there under the guest's own id.          *)
(*                                                                         *)
(* Every call to a cluster is a step; the runs of all jobs interleave, and *)
(* nothing keeps two runs of one job apart.                                *)
(***************************************************************************)
EXTENDS Naturals

CONSTANTS
    Guest,     \* guests with a replication job
    Run,       \* pool of run threads: bounds those alive at once
    MaxId,     \* free VM ids on the source: bounds the clones there
    Stray,     \* owner of a clone or snapshot whose run has ended
    Asked,     \* owner of a snapshot that is still there after its removal was asked for
    Free,      \* an id without a VM
    \* The environment of a run of the model:
    Outages,   \* sites that may become unreachable
    Losses,    \* TRUE if a call or a write to the database may raise, or a task
               \* outlast its time-out
    Restarts   \* TRUE if PegaProx may be restarted

ASSUME ReplicationAssumption ==
    /\ Guest # {}
    /\ MaxId \in Nat \ {0}
    /\ {Stray, Asked, Free} \cap Run = {}
    /\ Stray # Free /\ Stray # Asked
    /\ Outages \subseteq {"source", "target"}
    /\ Losses \in BOOLEAN /\ Restarts \in BOOLEAN

VARIABLES
    \* rows of the database
    repl,    \* last_status: "ok" or "error", the latter also before the first run
    due,     \* the interval has passed since last_run
    latest,  \* history, of the job's latest run: "alone" if it began with no other at
             \* work, else "shared"; "lost" once a report is lost or the run is cut off
    \* runs
    pc, job, \* next step and guest of a run
    id,      \* clone_vmid
    \* the clusters
    up,      \* is_connected of the two managers
    snaps,   \* owners of the xcrepl snapshots on the source
    clone,   \* [Ids -> owner of the VM with this id on the source, or Free]
    guest    \* the guest's id on the target, see SiteRecovery; the jobs put a
             \* "replica" there and remove it again

runVars == <<pc, job, id>>
rowVars == <<repl, due, latest>>
vars == <<rowVars, runVars, up, snaps, clone, guest>>

Site == {"source", "target"}
Ids == 1 .. MaxId
AnyGuest == CHOOSE g \in Guest : TRUE

PCs == {"idle", "begin", "snapshot", "nextid", "clone", "remove", "migrate",
        "report", "dropclone", "dropsnap", "tidyclone", "tidy"}

OnTarget == {"none", "replica", "starting", "running", "down"}

TypeOK ==
    /\ repl \in [Guest -> {"ok", "error"}]
    /\ due \in [Guest -> BOOLEAN]
    /\ pc \in [Run -> PCs]
    /\ job \in [Run -> Guest]
    /\ id \in [Run -> Ids]
    /\ up \in [Site -> BOOLEAN]
    /\ latest \in [Guest -> {"alone", "shared", "lost"}]
    /\ snaps \subseteq Run \cup {Stray, Asked}
    /\ clone \in [Ids -> Run \cup {Stray, Free}]
    /\ guest \in [Guest -> OnTarget]

Init ==
    /\ repl = [g \in Guest |-> "error"]
    /\ due = [g \in Guest |-> TRUE]
    /\ latest = [g \in Guest |-> "alone"]
    /\ pc = [r \in Run |-> "idle"]
    /\ job = [r \in Run |-> AnyGuest]
    /\ id = [r \in Run |-> 1]
    /\ up = [s \in Site |-> TRUE]
    /\ snaps = {}
    /\ clone = [i \in Ids |-> Free]
    /\ guest = [g \in Guest |-> "none"]

(***************************************************************************)
(* Time and connections.                                                   *)
(***************************************************************************)
IntervalPasses(g) ==
    /\ ~due[g]
    /\ due' = [due EXCEPT ![g] = TRUE]
    /\ UNCHANGED <<repl, latest, runVars, up, snaps, clone, guest>>

ConnectionChanges(s) ==
    /\ s \in Outages
    /\ up' = [up EXCEPT ![s] = ~@]
    /\ UNCHANGED <<rowVars, runVars, snaps, clone, guest>>

(***************************************************************************)
(* The scheduler starts a job that is due; what makes it due is last_run,  *)
(* which the run writes when it ends: a run that takes longer than the     *)
(* scheduler's period of 60 seconds gets a second one beside it.           *)
(***************************************************************************)
AtWork(g) == \E r \in Run : pc[r] # "idle" /\ job[r] = g

Schedule(r, g) ==
    /\ pc[r] = "idle"
    /\ due[g]
    /\ pc' = [pc EXCEPT ![r] = "begin"]
    /\ job' = [job EXCEPT ![r] = g]
    /\ latest' = [latest EXCEPT ![g] = IF AtWork(g) THEN "shared" ELSE "alone"]
    /\ UNCHANGED <<repl, due, id, up, snaps, clone, guest>>

(***************************************************************************)
(* One run.                                                                *)
(***************************************************************************)
Goto(r, l) == pc' = [pc EXCEPT ![r] = l]

Written(r, s) ==
    /\ repl' = [repl EXCEPT ![job[r]] = s]
    /\ due' = [due EXCEPT ![job[r]] = FALSE]
    /\ UNCHANGED latest

\* The database refuses, which is logged and forgotten.
NotWritten(r) ==
    /\ Losses
    /\ latest' = [latest EXCEPT ![job[r]] = "lost"]
    /\ UNCHANGED <<repl, due>>

\* Mutant: the status is written in other words than the heartbeat reads.
ReportSuccess(r, s) == Written(r, IF s = "ok" THEN "success" ELSE s) \/ NotWritten(r)

\* Mutant: last_run is not written.
ReportKeepsDue(r, s) ==
    /\ repl' = [repl EXCEPT ![job[r]] = s]
    /\ UNCHANGED <<due, latest>>

\* _update_repl_status
Report(r, s) == Written(r, s) \/ NotWritten(r)

\* The thread ends; what it leaves on the source has no owner any more.
Disowned(c, r) == [i \in Ids |-> IF c[i] = r THEN Stray ELSE c[i]]

Ends(r, s) ==
    /\ Goto(r, "idle")
    /\ snaps' = IF r \in s THEN (s \ {r}) \cup {Stray} ELSE s
    /\ clone' = Disowned(clone, r)

Begin(r) ==
    /\ pc[r] = "begin"
    /\ IF up["source"] /\ up["target"]
       THEN Goto(r, "snapshot") /\ UNCHANGED rowVars
       ELSE Goto(r, "idle") /\ Report(r, "error")
    /\ UNCHANGED <<job, id, up, snaps, clone, guest>>

TakeSnapshot(r) ==
    /\ pc[r] = "snapshot"
    /\ up["source"]
    /\ snaps' = snaps \cup {r}
    /\ Goto(r, "nextid")
    /\ UNCHANGED <<rowVars, job, id, up, clone, guest>>

\* No way out of this step removes the snapshot.
SnapshotFails(r) ==
    /\ pc[r] = "snapshot"
    /\ \E s \in {snaps} \cup (IF Losses THEN {snaps \cup {r}} ELSE {}) : Ends(r, s)
    /\ Report(r, "error")
    /\ UNCHANGED <<job, id, up, guest>>

\* /cluster/nextid: the lowest id without a VM; it is not reserved.
NextId(r) ==
    /\ pc[r] = "nextid"
    /\ up["source"]
    /\ \E i \in Ids :
         /\ clone[i] = Free
         /\ \A k \in 1 .. i - 1 : clone[k] # Free
         /\ id' = [id EXCEPT ![r] = i]
    /\ Goto(r, "clone")
    /\ UNCHANGED <<rowVars, job, up, snaps, clone, guest>>

\* Mutant: this error path forgets the snapshot.
NextIdFailsDirty(r) ==
    /\ pc[r] = "nextid"
    /\ Ends(r, snaps) /\ Report(r, "error")
    /\ UNCHANGED <<job, id, up, guest>>

NextIdFails(r) ==
    /\ pc[r] = "nextid"
    /\ \/ Goto(r, "dropsnap") /\ UNCHANGED <<rowVars, snaps, clone>>
       \/ Losses /\ Ends(r, snaps) /\ Report(r, "error")
    /\ UNCHANGED <<job, id, up, guest>>

Clone(r) ==
    /\ pc[r] = "clone"
    /\ up["source"]
    /\ clone[id[r]] = Free
    /\ clone' = [clone EXCEPT ![id[r]] = r]
    /\ Goto(r, "remove")
    /\ UNCHANGED <<rowVars, job, id, up, snaps, guest>>

\* Mutant: a refused clone is cleaned up like one that exists.
CloneFailsThorough(r) ==
    /\ pc[r] = "clone"
    /\ Goto(r, "dropclone")
    /\ UNCHANGED <<rowVars, job, id, up, snaps, clone, guest>>

\* A refused or failed clone; when the task outlasts its time-out the clone may
\* come into being, and when the call raises the handler of exceptions takes
\* over: it reports, then deletes the VM with the clone's id.
CloneFails(r) ==
    /\ pc[r] = "clone"
    /\ \/ UNCHANGED clone
       \/ /\ Losses /\ clone[id[r]] = Free
          /\ clone' = [clone EXCEPT ![id[r]] = r]
    /\ \/ Goto(r, "dropsnap") /\ UNCHANGED rowVars
       \/ Losses /\ Goto(r, "tidyclone") /\ Report(r, "error")
    /\ UNCHANGED <<job, id, up, snaps, guest>>

\* API token and fingerprint of the target.
TokenFails(r) ==
    /\ pc[r] = "remove"
    /\ \/ Goto(r, "dropclone") /\ UNCHANGED rowVars
       \/ Losses /\ Report(r, "error") /\ (Goto(r, "tidyclone") \/ Goto(r, "tidy"))
    /\ UNCHANGED <<job, id, up, snaps, clone, guest>>

\* Whatever has the guest's id on the target is stopped and deleted.
RemoveReplica(r) ==
    /\ pc[r] = "remove"
    /\ up["target"]
    /\ guest' = [guest EXCEPT ![job[r]] = "none"]
    /\ Goto(r, "migrate")
    /\ UNCHANGED <<rowVars, job, id, up, snaps, clone>>

\* The stop comes first and may succeed alone.
RemoveFails(r) ==
    /\ pc[r] = "remove"
    /\ up["target"] /\ guest[job[r]] # "none"
    /\ guest' \in {[guest EXCEPT ![job[r]] = "replica"]} \cup
                  (IF Losses THEN {[guest EXCEPT ![job[r]] = "none"]} ELSE {})
    /\ Goto(r, "dropclone")
    /\ UNCHANGED <<rowVars, job, id, up, snaps, clone>>

\* The search for an old replica raised, and the run goes on.
OverlooksReplica(r) ==
    /\ pc[r] = "remove"
    /\ Losses \/ ~up["target"]
    /\ Goto(r, "migrate")
    /\ UNCHANGED <<rowVars, job, id, up, snaps, clone, guest>>

CanMigrate(r) ==
    /\ up["source"] /\ up["target"]
    /\ clone[id[r]] = r
    /\ guest[job[r]] = "none"

Arrives(r) ==
    /\ guest' = [guest EXCEPT ![job[r]] = "replica"]
    /\ clone' = [clone EXCEPT ![id[r]] = Free]

Migrate(r) ==
    /\ pc[r] = "migrate"
    /\ CanMigrate(r)
    /\ Arrives(r)
    /\ Goto(r, "report")
    /\ UNCHANGED <<rowVars, job, id, up, snaps>>

\* Mutant: a migration counts as done when its task has been accepted.
MigrateFailsUnseen(r) ==
    /\ pc[r] = "migrate"
    /\ Report(r, "ok")
    /\ Goto(r, "tidy")
    /\ UNCHANGED <<job, id, up, snaps, clone, guest>>

\* The clone is left to delete_source, although the migration did not happen.
MigrateFails(r) ==
    /\ pc[r] = "migrate"
    /\ UNCHANGED <<guest, clone>> \/ (Losses /\ CanMigrate(r) /\ Arrives(r))
    /\ Report(r, "error")
    /\ Goto(r, "tidy")
    /\ UNCHANGED <<job, id, up, snaps>>

\* _wait_for_task polls every five seconds, so other runs may come in between.
ReportOk(r) ==
    /\ pc[r] = "report"
    /\ Report(r, "ok")
    /\ Goto(r, "tidy")
    /\ UNCHANGED <<job, id, up, snaps, clone, guest>>

\* The error paths delete first and report then; the handler of exceptions
\* reports first.
DeleteClone(r) ==
    /\ pc[r] \in {"dropclone", "tidyclone"}
    /\ \/ up["source"] /\ clone' = [clone EXCEPT ![id[r]] = Free]
       \/ (Losses \/ ~up["source"]) /\ UNCHANGED clone
    /\ Goto(r, IF pc[r] = "dropclone" THEN "dropsnap" ELSE "tidy")
    /\ UNCHANGED <<rowVars, job, id, up, snaps, guest>>

\* _cleanup_snapshot, the last call of every run that got this far: it does not
\* look at the answer, nor wait for the task.
DeleteSnapshot(r) ==
    /\ pc[r] \in {"dropsnap", "tidy"}
    /\ \/ up["source"] /\ Ends(r, snaps \ {r})
       \/ Ends(r, IF r \in snaps THEN (snaps \ {r}) \cup {Asked} ELSE snaps)
    /\ IF pc[r] = "dropsnap" THEN Report(r, "error") ELSE UNCHANGED rowVars
    /\ UNCHANGED <<job, id, up, guest>>

RunStep(r) ==
    \/ Begin(r) \/ TakeSnapshot(r) \/ SnapshotFails(r) \/ NextId(r) \/ NextIdFails(r)
    \/ Clone(r) \/ CloneFails(r) \/ TokenFails(r) \/ RemoveReplica(r) \/ RemoveFails(r)
    \/ OverlooksReplica(r) \/ Migrate(r) \/ MigrateFails(r) \/ ReportOk(r)
    \/ DeleteClone(r) \/ DeleteSnapshot(r)

\* The runs are daemon threads: they end with the process, and last_run stays.
Restart ==
    /\ Restarts
    /\ pc' = [r \in Run |-> "idle"]
    /\ latest' = [g \in Guest |-> IF AtWork(g) THEN "lost" ELSE latest[g]]
    /\ snaps' = (snaps \ Run) \cup (IF snaps \cap Run = {} THEN {} ELSE {Stray})
    /\ clone' = [i \in Ids |-> IF clone[i] = Free THEN Free ELSE Stray]
    /\ UNCHANGED <<repl, due, job, id, up, guest>>

JobStep ==
    \/ \E r \in Run : RunStep(r) \/ \E g \in Guest : Schedule(r, g)
    \/ \E g \in Guest : IntervalPasses(g)

Next ==
    \/ JobStep
    \/ Restart
    \/ \E s \in Site : ConnectionChanges(s)

\* The scheduler looks at every job once a minute and starts every one that is
\* due: only the pool of this model makes a job wait for another's thread, hence
\* SF.  A call to a cluster and the wait for a task have time-outs.
Fairness ==
    /\ \A r \in Run : WF_vars(RunStep(r))
    /\ \A g \in Guest : SF_vars(\E r \in Run : Schedule(r, g))

Spec == Init /\ [][Next]_vars /\ Fairness

(***************************************************************************)
(* Properties.                                                             *)
(***************************************************************************)
\* When no run of a job is at work, and the latest one began with no other at
\* work and got its report written, 'ok' means that the replica is on the target
\* (what the heartbeat of site recovery concludes from last_status): whatever
\* runs, overlaps and restarts came before it.
OkMeansReplica ==
    \A g \in Guest :
        repl[g] = "ok" /\ ~AtWork(g) /\ latest[g] = "alone" => guest[g] # "none"

\* The same of every 'ok' ("Otherwise we'd start VMs that were never copied").
OkAlwaysMeansReplica == \A g \in Guest : repl[g] = "ok" => guest[g] # "none"

\* A run that has taken its snapshot does not end without having asked the source
\* to remove it, unless the request for the snapshot or for the next id raised.
\* (A restart ends runs without a step of theirs.)
SnapshotAskedFor ==
    [][\A r \in Run : RunStep(r) /\ Stray \in snaps' \ snaps
          => Losses /\ pc[r] \in {"snapshot", "nextid"}]_vars

\* No snapshot stays that a run asked to be removed ("Deleted snapshot").
RemovalSucceeds == Asked \notin snaps

\* The clean-up of a run deletes no clone of another run, although the id it
\* got from /cluster/nextid was not reserved and may have been given twice.
DeletesOwnClone ==
    [][\A r \in Run : DeleteClone(r) /\ clone' # clone => clone[id[r]] = r]_vars

\* No clone is left on the source by a run that has ended ("clone auto-deleted
\* by delete_source=True").
CloneHasRun == \A i \in Ids : clone[i] # Stray

\* A job that is due gets a run that reports, and one whose report the database
\* refused gets another run.
DueIsReported ==
    \A g \in Guest : /\ due[g] ~> ~due[g] \/ latest[g] = "lost"
                     /\ due[g] /\ latest[g] = "lost" ~> ~due[g] \/ latest[g] # "lost"
================================================================================
