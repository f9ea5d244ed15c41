----------------------------- MODULE SiteRecovery -----------------------------
(***************************************************************************)
(* The life of one site-recovery plan (pegaprox/api/site_recovery.py and   *)
(* pegaprox/background/site_recovery.py): request handlers and the         *)
(* heartbeat loop claim the plan by writing its status, and spawn workers  *)
(* (greenlets) that recover the plan's guests and write the status again   *)
(* when they end.                                                          *)
(*                                                                         *)
(* PegaProx runs on gevent: a handler reads the plan, checks it, updates   *)
(* it and spawns its worker without waiting for anything, so it is one     *)
(* action.  A worker waits at every call to a cluster, so each guest is a  *)
(* step of its own.                                                        *)
(***************************************************************************)
EXTENDS Naturals, Sequences

CONSTANTS
    Guest,      \* virtual machines
    Order,      \* the plan's guests by boot group and vmid (_get_plan_vms)
    Worker,     \* pool of greenlets: bounds those alive at once
    Kind,       \* [Site -> {"proxmox", "xcpng"}], the managers' classes
    Timeout,    \* failover_timeout, in heartbeat periods of 30 seconds
    LongPause,  \* cooldown after an automatic failover (3600 s), in periods
    ShortPause, \* cooldown after a blocked one (600 s), in periods
    Ops,        \* what operators use, see AllOps
    \* The environment of a run:
    Outages,    \* sites that may become unreachable
    Refusals,   \* TRUE if a cluster may refuse a request, or fail the task it accepted
    Crashes,    \* TRUE if a worker may die of an exception
    Restarts    \* TRUE if PegaProx may be restarted

Site == {"source", "target"}

AllOps == {"planned", "emergency", "failback", "test", "cleanup",
           "cancel", "delete", "force", "auto", "toggle"}

ASSUME SRAssumption ==
    /\ Order \in Seq(Guest)
    /\ Kind \in [Site -> {"proxmox", "xcpng"}]
    /\ Timeout \in Nat \ {0}
    /\ LongPause \in Nat /\ ShortPause \in Nat
    /\ Ops \subseteq AllOps
    /\ Outages \subseteq Site
    /\ Refusals \in BOOLEAN /\ Crashes \in BOOLEAN /\ Restarts \in BOOLEAN

VARIABLES
    \* rows of the database
    status,    \* site_recovery_plans.status, "deleted" without the row
    auto,      \* site_recovery_plans.auto_failover
    tested,    \* the plan has a test event
    repl,      \* last_status of the guest's replication; "error" also if it has none
    \* workers
    kind,      \* what the worker does, "idle" if there is no such worker
    at,        \* index in Order of the guest in hand, 0 before it begins
    failed,    \* execute_failover's failed
    \* the heartbeat loop
    since,     \* periods since _last_fail_times was set, plus 1; 0: not set
    pause,     \* periods left of _cooldowns
    unseen,    \* history: consecutive heartbeats with the source unreachable
    \* the clusters
    up,        \* is_connected of the two managers
    guest,     \* each guest on the target: "none", "replica" (there, not started),
               \* "starting" (its start was accepted), "running", or "down" (the
               \* start was accepted and failed)
    clones     \* guests with a test clone on the target

rowVars  == <<status, auto, tested>>
workVars == <<kind, at, failed>>
beatVars == <<since, pause, unseen>>
siteVars == <<up, guest, clones>>
vars == <<rowVars, repl, workVars, beatVars, siteVars>>

FailoverKinds == {"planned", "emergency", "failback", "auto"}
Kinds == FailoverKinds \cup {"idle", "test", "cleanup"}

\* A guest whose start the target has accepted at some time.
Accepted == {"starting", "running", "down"}
OnTarget == {"none", "replica"} \cup Accepted

TypeOK ==
    /\ status \in {"ready", "running", "testing", "completed", "failed", "deleted"}
    /\ auto \in BOOLEAN
    /\ tested \in BOOLEAN
    /\ repl \in [Guest -> {"ok", "error"}]
    /\ kind \in [Worker -> Kinds]
    /\ at \in [Worker -> 0 .. Len(Order) + 1]
    /\ failed \in [Worker -> BOOLEAN]
    /\ since \in 0 .. Timeout + 1
    /\ pause \in Nat
    /\ unseen \in 0 .. Timeout + 1
    /\ up \in [Site -> BOOLEAN]
    /\ guest \in [Guest -> OnTarget]
    /\ clones \subseteq Guest

PlanInit ==
    /\ status = "ready"
    /\ auto = ("auto" \in Ops)
    /\ tested = FALSE
    /\ kind = [w \in Worker |-> "idle"]
    /\ at = [w \in Worker |-> 0]
    /\ failed = [w \in Worker |-> FALSE]
    /\ since = 0 /\ pause = 0 /\ unseen = 0
    /\ clones = {}

Init ==
    /\ PlanInit
    /\ repl = [g \in Guest |-> "ok"]
    /\ up = [s \in Site |-> TRUE]
    /\ guest \in [Guest -> {"none", "replica"}]

(***************************************************************************)
(* The clusters and the replication jobs, as far as the plan sees them.    *)
(***************************************************************************)
ConnectionChanges(s) ==
    /\ s \in Outages
    /\ up' = [up EXCEPT ![s] = ~@]
    /\ UNCHANGED <<rowVars, repl, workVars, beatVars, guest, clones>>

ReplicationReports(g) ==
    /\ \E s \in {"ok", "error"} : repl' = [repl EXCEPT ![g] = s]
    /\ UNCHANGED <<rowVars, workVars, beatVars, siteVars>>

(***************************************************************************)
(* Request handlers.                                                       *)
(***************************************************************************)
Spawn(w, k) ==
    /\ kind[w] = "idle"
    /\ kind' = [kind EXCEPT ![w] = k]
    /\ at' = [at EXCEPT ![w] = 0]
    /\ failed' = [failed EXCEPT ![w] = FALSE]

\* Mutant: the UPDATE without its WHERE status = 'ready'.
ClaimBlindly == status' = "running"

\* UPDATE ... SET status = 'running' ... WHERE status = 'ready', one row changed
Claim == status = "ready" /\ status' = "running"

PlannedFailover(w) ==
    /\ "planned" \in Ops
    /\ up["source"] /\ up["target"]
    /\ Order # <<>>
    /\ Claim
    /\ Spawn(w, "planned")
    /\ UNCHANGED <<auto, tested, repl, beatVars, siteVars>>

EmergencyFailover(w) ==
    /\ "emergency" \in Ops
    /\ up["target"]
    /\ Order # <<>>
    /\ Claim
    /\ Spawn(w, "emergency")
    /\ UNCHANGED <<auto, tested, repl, beatVars, siteVars>>

Failback(w) ==
    /\ "failback" \in Ops
    /\ status \notin {"running", "deleted"}
    /\ up["source"] /\ up["target"]
    /\ status' = "running"
    /\ Spawn(w, "failback")
    /\ UNCHANGED <<auto, tested, repl, beatVars, siteVars>>

TestFailover(w) ==
    /\ "test" \in Ops
    /\ status \notin {"running", "testing", "deleted"}
    /\ up["target"]
    /\ status' = "testing"
    /\ Spawn(w, "test")
    /\ UNCHANGED <<auto, tested, repl, beatVars, siteVars>>

CleanupTest(w) ==
    /\ "cleanup" \in Ops
    /\ status # "deleted"
    /\ Spawn(w, "cleanup")
    /\ UNCHANGED <<rowVars, repl, beatVars, siteVars>>

\* The worker is not told.
Cancel ==
    /\ "cancel" \in Ops
    /\ status \in {"running", "testing"}
    /\ status' = "ready"
    /\ UNCHANGED <<auto, tested, repl, workVars, beatVars, siteVars>>

Delete ==
    /\ status # "deleted"
    /\ \/ "force" \in Ops
       \/ "delete" \in Ops /\ status \notin {"running", "testing"}
    /\ status' = "deleted"
    /\ tested' = FALSE
    /\ UNCHANGED <<auto, repl, workVars, beatVars, siteVars>>

ToggleAuto ==
    /\ "toggle" \in Ops
    /\ status # "deleted"
    /\ auto' = ~auto
    /\ UNCHANGED <<status, tested, repl, workVars, beatVars, siteVars>>

Handlers ==
    \/ \E w \in Worker :
         \/ PlannedFailover(w) \/ EmergencyFailover(w) \/ Failback(w)
         \/ TestFailover(w) \/ CleanupTest(w)
    \/ Cancel \/ Delete \/ ToggleAuto

(***************************************************************************)
(* Workers.                                                                *)
(***************************************************************************)
\* UPDATE site_recovery_plans SET status = s WHERE id = plan_id
SetStatus(s) == status' = IF status = "deleted" THEN status ELSE s

Ends(w) ==
    /\ kind' = [kind EXCEPT ![w] = "idle"]
    /\ at' = [at EXCEPT ![w] = 0]
    /\ failed' = [failed EXCEPT ![w] = FALSE]

\* The worker reads the plan; a failover or a test then records its event.
Begin(w) ==
    /\ kind[w] \notin {"idle", "cleanup"}
    /\ at[w] = 0
    /\ IF status = "deleted"
       THEN Ends(w) /\ UNCHANGED tested
       ELSE /\ at' = [at EXCEPT ![w] = 1]
            /\ tested' = (tested \/ kind[w] = "test")
            /\ UNCHANGED <<kind, failed>>
    /\ UNCHANGED <<status, auto, repl, beatVars, siteVars>>

\* cleanup_test deletes the clones the last test event lists.  With a Proxmox
\* target there are none (see CloneForTest); with an XCP-ng target the search
\* for a clone needs _api_get, and a failed search counts as "not found".
RunCleanup(w) ==
    /\ kind[w] = "cleanup"
    /\ IF tested THEN SetStatus("ready") ELSE UNCHANGED status
    /\ Ends(w)
    /\ UNCHANGED <<auto, tested, repl, beatVars, siteVars>>

InHand(w) == at[w] \in 1 .. Len(Order)

\* Mutant: a guest that failed is forgotten when the next one succeeds.
HandledLast(w, ok) ==
    /\ at' = [at EXCEPT ![w] = @ + 1]
    /\ failed' = [failed EXCEPT ![w] = ~ok]

\* Mutant: a guest that failed is tried again, for ever.
HandledInsisting(w, ok) ==
    /\ at' = [at EXCEPT ![w] = IF ok THEN @ + 1 ELSE @]
    /\ UNCHANGED failed

Handled(w, ok) ==
    /\ at' = [at EXCEPT ![w] = @ + 1]
    /\ failed' = [failed EXCEPT ![w] = @ \/ ~ok]

\* What the two manager classes offer: only the Proxmox manager has _api_get,
\* gives API tokens and takes the address of another cluster in the form the
\* workers build it; only the XCP-ng manager has get_vms.
HasApiGet(s)    == Kind[s] = "proxmox"
GivesTokens(s)  == Kind[s] = "proxmox"
TakesAddress(s) == Kind[s] = "proxmox"
HasGetVMs(s)    == Kind[s] = "xcpng"

\* _start_replicated_vm looks for the guest on the target.
Startable(g) == up["target"] /\ HasApiGet("target") /\ guest[g] # "none"

\* A guest that is running already is a success, and so is a start that the
\* target has accepted: nobody waits for its task.
StartReplica(w) ==
    /\ kind[w] \in {"emergency", "auto"} /\ InHand(w)
    /\ Startable(Order[at[w]])
    /\ guest' = [guest EXCEPT ![Order[at[w]]] = IF @ = "running" THEN @ ELSE "starting"]
    /\ Handled(w, TRUE)
    /\ UNCHANGED <<rowVars, repl, kind, beatVars, up, clones>>

CannotStart(w) ==
    /\ kind[w] \in {"emergency", "auto"} /\ InHand(w)
    /\ Refusals \/ ~Startable(Order[at[w]])
    /\ Handled(w, FALSE)
    /\ UNCHANGED <<rowVars, repl, kind, beatVars, siteVars>>

\* _migrate_vm_cross_cluster: no pair of manager classes offers all it needs.
Migratable(src, dst) ==
    up[src] /\ HasGetVMs(src) /\ GivesTokens(dst) /\ TakesAddress(src)

Migrate(w) ==
    /\ kind[w] \in {"planned", "failback"} /\ InHand(w)
    /\ \E ok \in BOOLEAN :
         /\ ok => IF kind[w] = "failback" THEN Migratable("target", "source")
                                         ELSE Migratable("source", "target")
         /\ Handled(w, ok)
    /\ UNCHANGED <<rowVars, repl, kind, beatVars, siteVars>>

\* execute_test_failover starts the clone under the id it asked for.  XCP-ng
\* gives the clone another id, so the start fails, and the guest's test with it.
Clonable(g) == up["target"] /\ HasGetVMs("target") /\ guest[g] # "none"

CloneForTest(w) ==
    /\ kind[w] = "test" /\ InHand(w)
    /\ Handled(w, FALSE)
    /\ \/ UNCHANGED clones
       \/ Clonable(Order[at[w]]) /\ clones' = clones \cup {Order[at[w]]}
    /\ UNCHANGED <<rowVars, repl, kind, beatVars, up, guest>>

\* Mutant: a failover of which some guests failed gets a status of its own.
FinishWorkPartly(w) ==
    /\ kind[w] \notin {"idle", "cleanup"}
    /\ at[w] = Len(Order) + 1
    /\ SetStatus(IF failed[w] THEN "partial" ELSE "completed")
    /\ Ends(w)
    /\ UNCHANGED <<auto, tested, repl, beatVars, siteVars>>

\* A test whose guests all failed ends as a failed one; see CloneForTest.
FinishWork(w) ==
    /\ kind[w] \notin {"idle", "cleanup"}
    /\ at[w] = Len(Order) + 1
    /\ SetStatus(IF failed[w] \/ kind[w] = "test" THEN "failed" ELSE "completed")
    /\ Ends(w)
    /\ UNCHANGED <<auto, tested, repl, beatVars, siteVars>>

\* _safe_spawn_failover
WorkerDies(w) ==
    /\ Crashes
    /\ kind[w] # "idle"
    /\ SetStatus("failed")
    /\ Ends(w)
    /\ UNCHANGED <<auto, tested, repl, beatVars, siteVars>>

WorkerStep(w) ==
    \/ Begin(w) \/ RunCleanup(w) \/ StartReplica(w) \/ CannotStart(w)
    \/ Migrate(w) \/ CloneForTest(w) \/ FinishWork(w)

\* The task of an accepted start ends on the target.
StartEnds(g) ==
    /\ guest[g] = "starting"
    /\ \E s \in {"running"} \cup (IF Refusals THEN {"down"} ELSE {}) :
         guest' = [guest EXCEPT ![g] = s]
    /\ UNCHANGED <<rowVars, repl, workVars, beatVars, up, clones>>

(***************************************************************************)
(* The heartbeat loop: one action per period, by what _heartbeat_check     *)
(* does with the plan.                                                     *)
(***************************************************************************)
\* Mutant: every failed check writes the first-fail time.
AgedNever == since

Aged == IF since \in {0, Timeout + 1} THEN since ELSE since + 1

Cooled == IF pause = 0 THEN 0 ELSE pause - 1

Watched == auto /\ status = "ready" /\ Cooled = 0

Period ==
    unseen' = IF up["source"] THEN 0
              ELSE IF unseen = Timeout + 1 THEN unseen ELSE unseen + 1

HeartbeatSkips ==
    /\ ~Watched
    /\ since' = Aged /\ pause' = Cooled
    /\ Period
    /\ UNCHANGED <<rowVars, repl, workVars, siteVars>>

HeartbeatSeesSource ==
    /\ Watched /\ up["source"]
    /\ since' = 0 /\ pause' = 0
    /\ Period
    /\ UNCHANGED <<rowVars, repl, workVars, siteVars>>

\* Mutant: one period too early.
ExpiredEarly == since # 0 /\ Aged >= Timeout

\* elapsed >= timeout
Expired == since # 0 /\ Aged > Timeout

HeartbeatWaits ==
    /\ Watched /\ ~up["source"] /\ ~Expired
    /\ since' = IF since = 0 THEN 1 ELSE Aged
    /\ pause' = 0
    /\ Period
    /\ UNCHANGED <<rowVars, repl, workVars, siteVars>>

\* Mutant: no look at the replication jobs.
ReplicatedUnchecked == TRUE

Replicated == \A i \in 1 .. Len(Order) : repl[Order[i]] = "ok"

HeartbeatBlocks ==
    /\ Watched /\ ~up["source"] /\ Expired
    /\ ~Replicated
    /\ since' = 0 /\ pause' = ShortPause
    /\ Period
    /\ UNCHANGED <<rowVars, repl, workVars, siteVars>>

AutoFailover(w) ==
    /\ Watched /\ ~up["source"] /\ Expired
    /\ Replicated
    /\ since' = 0 /\ pause' = LongPause
    /\ Period
    /\ Claim
    /\ Spawn(w, "auto")
    /\ UNCHANGED <<auto, tested, repl, siteVars>>

Heartbeat ==
    \/ HeartbeatSkips \/ HeartbeatSeesSource \/ HeartbeatWaits \/ HeartbeatBlocks
    \/ \E w \in Worker : AutoFailover(w)

(***************************************************************************)
(* A restart ends the workers and the heartbeat's memory; app.py then      *)
(* resets a plan that was left running or testing.                         *)
(***************************************************************************)
\* Mutant: the plans are left as they are.
NoReset == status

Reset == IF status \in {"running", "testing"} THEN "failed" ELSE status

Restart ==
    /\ Restarts
    /\ status' = Reset
    /\ kind' = [w \in Worker |-> "idle"]
    /\ at' = [w \in Worker |-> 0]
    /\ failed' = [w \in Worker |-> FALSE]
    /\ since' = 0 /\ pause' = 0
    /\ UNCHANGED <<auto, tested, repl, unseen, siteVars>>

PlanStep ==
    \/ Handlers
    \/ \E w \in Worker : WorkerStep(w) \/ WorkerDies(w)
    \/ \E g \in Guest : StartEnds(g)
    \/ Heartbeat

Next ==
    \/ PlanStep
    \/ Restart
    \/ \E s \in Site : ConnectionChanges(s)
    \/ \E g \in Guest : ReplicationReports(g)

\* A greenlet that can go on is scheduled: its calls to clusters and webhooks
\* time out, and it waits for nothing else.  The heartbeat loop survives every
\* exception and sleeps 30 seconds.
Fairness ==
    /\ \A w \in Worker : WF_vars(WorkerStep(w))
    /\ WF_vars(Heartbeat)

Spec == Init /\ [][Next]_vars /\ Fairness

(***************************************************************************)
(* Properties.                                                             *)
(***************************************************************************)
InFailover(w) == kind[w] \in FailoverKinds

\* A failover is at work only while the plan's status says 'running', and no
\* two are at work at once: what the atomic claim of both failover handlers and
\* of the heartbeat is for, and the handlers' 'Failover already in progress'.
OneFailover ==
    \A w \in Worker : InFailover(w) =>
        /\ status = "running"
        /\ \A v \in Worker : InFailover(v) => v = w

\* A plan that reads 'ready' has no failover or test under way: the claims,
\* and the operator who was told 'Action cancelled', rely on it.
ReadyIsIdle ==
    status = "ready" => \A w \in Worker : kind[w] \in {"idle", "cleanup"}

\* A plan is never stuck in 'running': some failover is at work that will write
\* the status when it ends (issues #225 and #238 in the comments of
\* _safe_spawn_failover and of app.py).
RunningHasWorker == status = "running" => \E w \in Worker : InFailover(w)

\* A failover that completed has had the start of every guest of the plan
\* accepted by the target: none was passed over, by whatever worker.
CompletedMeansAccepted ==
    status = "completed" => \A i \in 1 .. Len(Order) : guest[Order[i]] \in Accepted

\* A plan that completed has its guests running ("Failover completed ...
\* succeeded").
CompletedMeansRunning ==
    status = "completed" => \A i \in 1 .. Len(Order) : guest[Order[i]] = "running"

\* The heartbeat fails over only if it has seen the source unreachable at every
\* check for failover_timeout ("If source cluster unreachable for
\* failover_timeout seconds").
AutoAfterTimeout ==
    [][\A w \in Worker : AutoFailover(w) => unseen' > Timeout]_vars

\* Every failover ends.
RunningEnds == status = "running" ~> status # "running"

\* With auto_failover on, replications in order and the source gone for good,
\* the plan does not stay 'ready': the heartbeat fails over.
AutoFailoverHappens ==
    <>[](auto /\ ~up["source"] /\ Replicated) => []<>(status # "ready")

\* A test that failed has left no clone on the target ("no clones created,
\* nothing to cleanup").
FailedTestLeavesNoClone ==
    status = "failed" /\ (\A w \in Worker : kind[w] = "idle") => clones = {}

\* Where nothing fails, no planned failover does.
PlannedSucceeds == status # "failed"

\* The plan goes through the life of the abstract failover.
Active == \E w \in Worker : InFailover(w)
HandledSoFar ==
    IF ~Active THEN 0
    ELSE LET w == CHOOSE v \in Worker : InFailover(v)
         IN  IF at[w] = 0 THEN 0 ELSE at[w] - 1

F == INSTANCE Failover WITH Guests <- Len(Order), active <- Active,
                            handled <- HandledSoFar
FailsOverInOrder == F!Spec
================================================================================
