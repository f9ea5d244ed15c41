# PegaProx in TLA+

PegaProx (`pegaprox/`, Python, Flask on gevent) manages clusters of Proxmox VE
and XCP-ng hosts: it shows them, operates them, and acts on its own through
background threads.  Its page (`web/src`, React) follows what the server
does by polling and by live events.  This directory models the parts that act on
their own, where several threads, several PegaProx processes and failing nodes meet,
and the parts of the page that have to make sense of answers and events that come
late, out of order or not at all.

Line numbers in sections 1 to 3 are in `pegaprox/core/manager.py` unless a file is named.

## 1. Inventory

| component | state it keeps | operations | hard behaviour |
|---|---|---|---|
| High availability: monitor thread and recovery workers | `ha_enabled`, `ha_thread`, `ha_node_status`, `ha_recovery_in_progress`, lock files on shared storage; the guests' configurations and running states in the cluster | start/stop (2640, 2726), poll (2769), recovery worker (2886), recovery lock (5205, 5252), forced quorum (5268, 5323), fencing (3672) | nodes that return in the middle of a recovery; several instances; lost locks; flags that outlive their worker; split brain |
| Node agent and poison pill | heartbeat, poison and ack files on shared storage | agent loop (4653), heartbeat check (4819), pill (5075), wait for ack (5149) | stale files, a pill that outlives the outage, ordering of heartbeat and stop |
| Self-fence agent | script on each node, lock directory in `/tmp` (3978) | isolation rounds, stop of all guests | several isolated nodes deciding at once |
| Maintenance and evacuation | `nodes_in_maintenance`, `nodes_updating`, one `MaintenanceTask` per node | enter (2164), refresh (2245), evacuate (2358), exit (2480), node update (6890) | operator leaves while the evacuation runs; HA and balancer read the same dictionary |
| Load balancer and affinity | `last_run`, `_vm_migration_cooldown`, migration log | `run_balance_check` (11913), best target (1272-1900) | ping-pong, migration of what has moved meanwhile |
| Site recovery | `site_recovery_plans.status`, events, in SQLite | failover, test failover, cleanup, failback, cancel (`background/site_recovery.py`, `api/site_recovery.py`), heartbeat loop | status written by workers and by handlers without coordination; crash in mid-failover; a start-up that resets what was left `running` (app.py 645) |
| Cross-cluster replication | `cross_cluster_replications` rows, last status | replication loop and manual run (`background/cross_cluster_replication.py`) | a run started twice, crash in a run |
| Cross-cluster balancing | per-group settings, `last_run` (`background/cross_cluster_lb.py`) | check loop | stale metrics, two groups sharing a cluster |
| Rolling updates | one dictionary per cluster, `_rolling_update`; per node a `MaintenanceTask` and an `UpdateTask` (`api/settings.py` 3241-3735); the status the page shows (`web/src/security.js`) | start, worker, pause and resume, cancel, clear; polling | a worker that reads the dictionary of the next update; a second node taken out while the first is down; a node left in maintenance |
| Scheduler | schedules and update schedules in JSON/SQLite (`background/scheduler.py`, `api/schedules.py`) | minute loop, execute, scheduled update, CRUD | a run lost or repeated by a slow loop, edits during a run |
| Alerts, metrics, syslog, password expiry | last alert per rule, in memory (`background/alerts.py`, ...) | loops | repeated or lost alerts |
| Sessions, login, rate limits, RBAC | `active_sessions`, attempt counters (`utils/auth.py`, `api/auth.py`, `utils/rbac.py`) | login, expiry, lock-out | counters shared by threads |
| Live updates | tokens and clients of the event stream (`utils/realtime.py`, `api/realtime.py`, `background/broadcast.py`); in the page the closure of one effect (`web/src/dashboard.js` 4428-4868) | token, connect, error and retry, token refresh, health check, subscription, clean-up; broadcast | callbacks of an effect that has been cleaned up; a connection nobody holds; a subscription sent to a client that is gone |
| Dashboard | `selectedCluster`, `clusterResources`, `sidebarClusterData` (`web/src/dashboard.js`) | selection, polling, sidebar, guest actions, events | an answer for a cluster the user has left; events of another cluster; an optimistic update that was wrong |
| Guest console | effect of `ConsoleModal` (`web/src/node_modals.js` 2791-3004), noVNC's RFB object, one token per connection | request ticket and token, load the library, connect, retry, clean up | an await that ends after the console was closed; a connection left open on the hypervisor |
| Guest settings | what was loaded, what was edited (`web/src/vm_config.js`) | load, edit, save | an answer that arrives over later edits |
| Sessions in the page | user, session (`web/src/contexts.js`) | login, refresh, logout | |
| Other views and dialogs | forms and lists (`web/src/*.js`) | one call each, then the list again | |
| Persistence | SQLite (`core/db.py`), cluster config (`core/config.py`), caches (`core/cache.py`) | CRUD | concurrent writers |
| Migrations from other hypervisors | job records (`core/v2p.py`, `core/xhm.py`, `core/vmware.py`, `core/esxi_cluster.py`) | phases of a migration job | cancellation, failure between phases |
| XCP-ng manager | XenAPI session (`core/xcpng.py`) | the same operations as the Proxmox manager | |
| Backup verification, PBS, ACME, Ceph, storage | job records (`core/backup_verify.py`, `core/pbs.py`, `core/acme.py`, ...) | restore, boot, check, clean up | clean-up after failure |
| HTTP handlers | none of their own (`api/*.py`) | validation, permission, call, audit | mostly single calls to Proxmox |
| Plugins, translations, noVNC's protocol code, packaging | `plugins/`, `web/src/translations.js`, `static/`, `debian/`, ... | | not part of the managed behaviour |

Components meet in four ways: calls (a handler calls the manager of a cluster
in its own thread), shared dictionaries of the manager (`nodes_in_maintenance`
is read by HA and by the balancer, `ha_node_status` by the monitor and the
workers, `_rolling_update` by a worker and the handlers), the outside world (the
Proxmox cluster and the files on shared storage, which all instances of PegaProx see),
and requests and events between page and server, which take their time.

What makes each correct:

* HA: no guest runs on two nodes; an outage is recovered once; no flag or lock
  file is left behind; in the end the guests run.
* Node agent: a pill stops guests only during the recovery that wrote it, and
  "the pill worked" means the guests are stopped.
* Maintenance: a node is released only by the operator; its guests are off it
  when the task says so.
* Balancer: a guest is not sent back and forth; nothing goes to a node in maintenance.
* Site recovery: one failover of a plan at a time; the status tells what is going on.
* Replication, scheduler: one run at a time, no run lost.
* Rolling update: one node out of service at a time unless an operator goes on; no
  node left in maintenance; cancelled means that no other node is taken; no worker
  waits for something nobody can see.
* Live updates: a page that lost its stream is trying to get it back, and gets it, with
  the events it wants; a run of the effect that was cleaned up does nothing any more.
* Dashboard: the list is the selected cluster's and ends up true.
* Console: no connection outlives the console; "connected" is true; retries end.

## 2. Plan

Order of the modules, most important first:

1. `HARecovery` with `MCHARecovery` and the abstract `GuestPlacement` it implements,
   proofs in `HARecoveryProofs` -- done (section 3).
2. Disaster recovery -- done (section 4): `SiteRecovery`, the abstract `Failover`
   it implements, `Replication`, and `DisasterRecovery`, which composes the two;
   proofs in `SiteRecoveryProofs`, `ReplicationProofs` and `DisasterRecoveryProofs`.
3. The page -- done for the three parts that are state machines (section 5):
   `LiveUpdates`, `ClusterView`, `Console`, each with a module of proofs.
4. Rolling updates -- done (section 6): `RollingUpdate` with `MCRollingUpdate` and the
   abstract `Rollout` it implements, proofs in `RollingUpdateProofs`.
5. Node agent and poison pill: the detail behind the "check" step of
   `HARecovery`, with an abstract "stopped means stopped" specification; then the
   self-fence agent.
6. Evacuation as it places and moves guests, maintenance by hand, composed with the
   HA flag check.
7. Tasks, migration logs and cluster settings in the page, and `ConfigEditor`.
8. Scheduler and scheduled updates; local replication.
9. Load balancer cool-down and the cross-cluster balancer.
10. Sessions, rate limits; migration jobs; backup verification.

Each component has one run, two or three where its liveness or its failures need an
instance of their own.  The project keeps to a dozen runs, so that a check of it stays
short; a property that refutes a comment is not a run but a row of section 7, with the
instance on which anybody can repeat it.

Every invariant and every action property that a run checks is a theorem, as are the
three refinements, but for the liveness part of `Failover!Spec`.  Liveness stays with TLC:
the prover can neither instantiate an induction over data nor reason about ENABLED, on
which every fairness argument rests.

## 3. High availability

### Modules

`HARecovery` models `_ha_*` of `PegaProxManager`; `MCHARecovery` instantiates it
for TLC; `HARecoveryProofs` holds the proofs.  `GuestPlacement` is what all of it is
for, with no monitor, worker, lock file or instance in it: a guest's configuration leaves
a node only after the node has failed and while the guest runs nowhere, and a guest starts
only where its configuration is; only a guest that has been given up on, running on a
failed node, is exempt.  `PlacesGuests` says that `HARecovery` implements it,
the nodes that have failed being those not `"up"`, the guests given up on `unstopped`.

State: per instance the switch (`wanted` is the saved `config.ha_enabled`,
`enabled` the loop condition, `thread` whether the old thread is alive), the
report in hand (`pending`, `seen`) and what the monitor knows (`status`,
`failures`, `recovering`, `maint`); per worker a program counter and its local
variables; shared by everybody the lock files (`lockFile`, `lockFresh`), the
nodes (`state`), where each guest is configured (`conf`) and runs (`runs`), and
whether quorum is forced (`forced`).  Two history variables: `outlived`, the
monitor has seen the node online since this worker was spawned; `unstopped`, the guests
with which a worker went on past the check although they were running on its node.

A worker goes on with guests running in three ways (`FoundNothingRunning`, `CouldNotStop`):
no check saw the node alive; fencing is not strict; or the heartbeat read 30 seconds
after the poison pill (2993-3002) listed no guest.  The last is what the code takes for
"VMs stopped" under strict fencing too, and a heartbeat file that is missing, or cannot be
read, lists no guest either (4819-4858).  `PillTrue = FALSE` lets that happen wherever there
is an agent (`DualNetwork` or `UseLock`); nothing in section 3 is checked or proved on the
assumption that it does not, but `NoSplitBrainIfStopped`.

| actions | code |
|---|---|
| `BeginPoll`, `SeenOnline`, `CountMiss`, `DeclareOnly`, `TriggerRecovery`, `LoopEnds` | `_ha_monitor_loop`, `_ha_check_nodes`, `_ha_trigger_recovery` (2743-2884); `ha_lock` is held from the first node of a report to the last |
| `StartHA`, `StartMonitor`, `StopHA` | `enable_ha`, `disable_ha` (api/clusters.py 1141-1181), `start_ha_monitor` (the test of the thread, 2642, and its start, 2678, with requests to the cluster in between), `stop_ha_monitor` |
| `LockRefused`, `LockFree`, `LockWrite` | `_ha_acquire_recovery_lock` (5205-5250): test and write are two steps |
| `CancelRecovery`, `DelayOver` | delay and re-check under `ha_lock` (2897-2910) |
| `FoundNothingRunning`, `StoppedGuests`, `CouldNotStop` | SSH and heartbeat checks, stopping guests by SSH or pill (2912-3026) |
| `GiveUp` | no connection, quorum or network (3028-3064) |
| `NoGuests`, `NoTargets`, `ListGuests` | fencing and the two lists (3066-3097) |
| `SkipLocal`, `PickGuest`, `MoveConfig`, `StartGuest`, `RecoveryDone` | the loop over the guests (3099-3147) and `_ha_start_vm_on_node` (3429-3534) |
| `Raises`, `Finally`, `CooldownOver` | `except`, `finally`, cool-down (3149-3157) |
| `Crash` | the process dies and starts again |
| `NodeFails`, `NodeReturns`, `LockAges`, `ToggleMaintenance` | the world outside the HA code |

### What is assumed of the outside world

* A node that boots starts the guests whose configuration it holds (`onboot`);
  a node that was cut off kept its guests running.
* The cluster still lists the guests of a node that is gone as running; for a
  node that is online the list is right.
* Moving a configuration below `/etc/pve` is atomic and succeeds only if it is
  still where the worker expects it; a start succeeds only on the node that
  holds the configuration.
* `Reliable = FALSE` lets every SSH, file and API operation of PegaProx fail
  at every step; `AliveSeen = FALSE` lets a node that is alive answer no check, or answer
  without its guests.
* Of two requests to enable HA the second finds the thread of the first: two that pass
  the test together, and then start two threads, are not modelled.

### Runs

| run | shows |
|---|---|
| `HARecovery_lifecycle` | one instance, unreliable operations, crashes, toggling, maintenance, returns: `FlagHasWorker`, `OneRecoveryPerOutage` |
| `HARecovery_two` | two instances, three nodes, both ways to fail, strict fencing, checks that miss a live node and heartbeats that mislead: `LockHasOwner`, `OnlyUnstoppedRunTwice`, `MovesOnlyOffFailedNode`, `PlacesGuests` |
| `HARecovery_live` | two instances under fairness: `FlagDropped`, `GuestsRestarted` |

What the lock's docstring says does not hold: two instances that test before either
has written the lock file both recover the node.  Section 7 has this
(`OneInstanceRecovers`) and what else the code does not keep; a node that comes back
while it is being recovered is there too (`NoDoubleRun`), since the runs of the placement of
guests let none.

Bounds: two nodes suffice for everything but a second move, which needs three;
one guest for safety (guests do not interact, except that the worker handles
one after the other: the live run has two, one of them local); two workers let a
second recovery start before the first has ended; a `Threshold` of 2 or 3 shows
that misses are counted and reset.  `failures` is capped at `Threshold`, above
which the code only compares.  All three runs switch the deadlock check off: when
nothing fails any more and the workers have ended, the system may rest.

Fairness: monitor threads keep polling (`WF`), and a worker's next step is taken
if it is possible again and again (`SF`): the one step that can be disabled for
a while is the wait for `ha_lock`, which the monitor gives back after every report.

### Proofs

`HARecoveryProofs`: `Typing` by the invariant `TypeInv`, which adds to `TypeOK`
that a worker about to move or start a guest has one in hand.  `FlagsHaveWorkers`:
the flag is set together with the worker and taken away by the worker's last
step; the proof shows that every other step keeps the pair, also when a node
returns or the process restarts.  `OneRecovery`: a worker that has not been
outlived works on a node its instance holds for offline; a spawn needs a node
held for online; hence two such workers cannot exist.  `LocksHaveOwners`: without
restarts a lock file belongs to a worker that is at work on that node (`LockHasOwner`);
only its writer's own last step removes it, since no other worker takes a node whose
file is there.  A restart kills the worker and leaves the file, hence the assumption.

`MovesOffFailedNode` (`MovesOnlyOffFailedNode`) needs no assumption: no operation of the
code but `_ha_move_vm_config` writes a configuration, and it succeeds only if the guest's
is still on the node the worker recovers.  What the step rests on is that the target in
hand is one of those listed (`TargetListed`), across restarts and late workers.

`NoSplitBrain` states `OnlyUnstoppedRunTwice` where no node comes back, whatever is
configured, seen or believed: a guest runs twice only after a worker went on while it ran.
The invariant `SafeInv` says that a powered-off node runs nothing, that what the monitor
takes for gone is gone, that what runs on the node of a worker past the check is
`unstopped`, and that any other guest runs at most where its configuration is.
`NoSplitBrainIfStopped` adds what it takes that `unstopped` stays empty (`StopsAreTrue`:
strict fencing, checks that see every live node with its guests, and no poison pill that
is believed wrongly): then no guest at all runs twice (`NoDoubleRun`).

`ImplementsPlacement` proves `PlacesGuests` from the one assumption of `NoSplitBrain`:
under `SafeInv` every step of every worker is a step of `GuestPlacement` or leaves it
alone.  The checks and the fencing map to `Stop` (`StopsOrFails`, `FencePlaces`),
`MoveConfig` to `Move`, since the node it leaves has failed and the guest runs nowhere or was
given up on, `StartGuest` to `Start`; all else writes none of its variables (`Rests`,
`OtherPlaces`).  It says more than `NoSplitBrain`: in what order a guest gets from one node to
the next, not only that it is never on two.  Each assumption is needed: the instances of
`NoDoubleRun` in section 7 show it.

The proofs hold for every number of instances, nodes, guests and workers, every
threshold and every setting but those the theorems name.  Liveness is model-checked only.

## 4. Disaster recovery

Line numbers are in `background/site_recovery.py` (B), `api/site_recovery.py` (A),
`api/vms.py` (V) and `background/cross_cluster_replication.py` (X).

### Modules

`SiteRecovery` is the life of one recovery plan, `Failover` the promise it has to
keep (one failover at a time, its guests one after another, an end), `Replication`
the jobs that keep replicas on the target, and `DisasterRecovery` both together: it
extends `Replication`, whose invariant its own proof needs, and instantiates `SiteRecovery`
as `P`.  `MCSiteRecovery`, `MCReplication` and `MCDisasterRecovery` instantiate them.

A handler reads the plan, writes it and spawns its worker without waiting for
anything: gevent switches only at I/O and the database is SQLite in the same
process, so a handler is one action.  A worker waits at every call to a cluster: each
guest is a step.  A run of a replication job is a thread: each call is a step.

| state | code |
|---|---|
| `status`, `auto`, `tested` | the row of `site_recovery_plans`; whether `site_recovery_events` has a test |
| `repl`, `due` | `last_status` of the guest's job; whether its interval has passed since `last_run` |
| `kind`, `at`, `failed` | a worker: what it does, the guest in hand, `failed` of `execute_failover` |
| `since`, `pause` | `_last_fail_times`, `_cooldowns`, counted in heartbeat periods |
| `unseen`, `latest` | history: consecutive checks that found the source unreachable; whether the latest run of a job began with no other at work and got its report written |
| `pc`, `job`, `id` | a run of a job: its next call, its guest, `clone_vmid` |
| `up`, `guest`, `clones`, `snaps`, `clone` | the clusters: connections, guests (replica, start accepted, running, start failed) and test clones on the target, snapshots and clones on the source |

| actions | code |
|---|---|
| `PlannedFailover`, `EmergencyFailover`, `Failback`, `TestFailover`, `CleanupTest`, `Cancel`, `Delete`, `ToggleAuto` | the handlers, A 148-209 and 381-552 |
| `Begin`, `StartReplica`, `CannotStart`, `Migrate`, `FinishWork` | `execute_failover`, B 216-311, with `_start_replicated_vm` and `_migrate_vm_cross_cluster` |
| `CloneForTest`, `RunCleanup` | `execute_test_failover`, `cleanup_test`, B 314-469 |
| `StartEnds` | outside: the task of a start that the target accepted; no code waits for it (`core/manager.py` 7193) |
| `WorkerDies` | the wrapper of issue #225, A 21-35 |
| `HeartbeatSkips`, `HeartbeatSeesSource`, `HeartbeatWaits`, `HeartbeatBlocks`, `AutoFailover` | `_heartbeat_check`, B 478-567, one action per way through it |
| `Restart` | the process ends; `app.py` 645-656 resets the plan (issue #238) |
| `Schedule` | `_xcrepl_loop`, X 66-114; nothing there looks whether a run is at work, and a run longer than 60 seconds gets another beside it |
| `Report` | `_update_repl_status`, V 5165-5172, which swallows the error of a database that refuses |
| `Begin` ... `DeleteSnapshot` | `_execute_replication`, V 4865-5162, one action per call and one per way to fail |

What the two classes of managers offer is in four operators (`HasApiGet`,
`GivesTokens`, `TakesAddress`, `HasGetVMs`).  The workers ask for a combination that
neither class has: `_migrate_vm_cross_cluster` needs `get_vms` of the source, which
only the XCP-ng manager has, and an address only the Proxmox manager takes.  So
`Migrate` never succeeds, and a test failover always ends as failed; the model says
so because the code does (`PlannedSucceeds` in section 7).

In `DisasterRecovery` (`JointSpec`) the actions of the two modules share `repl` (written by a run,
read by the heartbeat), `up` and `guest`; `ReplicationReports`, which lets `repl`
change at will in `SiteRecovery`, is replaced by the runs.  A restart hits both.

### Runs

| run | shows |
|---|---|
| `SiteRecovery_failover` | two guests, all failovers, failback, deletion; outages, refusals, crashes: `TypeOK`, `OneFailover`, `CompletedMeansAccepted`, `AutoAfterTimeout`, `FailsOverInOrder` (the plan implements `Failover!Spec`, its liveness included), `AutoFailoverHappens` |
| `SiteRecovery_all` | every operation, crashes and restarts: `RunningHasWorker`, `RunningEnds` |
| `Replication_jobs` | two guests, overlapping runs, restarts: `TypeOK`, `DeletesOwnClone`, `SnapshotAskedFor` |
| `Replication_losses` | overlapping runs of one guest; calls and reports that are lost, tasks that outlast their time-out, outages: `OkMeansReplica`, `DueIsReported` |
| `DisasterRecovery_replicas` | plan and overlapping runs together, losses, an outage and restarts: `AutoFindsReplicas`: between runs, after one that was alone, `last_status` can be relied on |

What "completed" and "ok" say is less than their words.  A start or a removal of a snapshot
is a task that the cluster accepts; nobody waits for it, so `CompletedMeansAccepted` and
`SnapshotAskedFor` speak of the request.  And since runs of a job may overlap, 'ok' says
something of the replica only when the latest run had the job for itself, which is the
premise of `OkMeansReplica` and `AutoFindsReplicas` (`latest = "alone"`); what happens
without it is in section 7.

Section 7 lists what the code does not keep: among it that no planned failover between
Proxmox clusters can succeed, that a replication run deletes the recovered guest, and
that a job that runs into the outage blocks the failover for good.

Bounds: two workers are what two failovers at once take; two guests show the order
and a failure of one of them (one guest in runs about the plan's status only).  A
time-out of two periods has a check before, at and after it; with one period in
`SiteRecovery_all`, which is not about time.  Cool-downs are one and two periods: long
enough to be skipped in.  Two runs and two ids let two runs meet at one id, or each
have its own; in `Replication_losses` both runs are of one guest.  In
`DisasterRecovery_replicas` one worker suffices, as the question is what a failover finds,
and the source alone fails, calls to the target being lost in any case.  `since` and `unseen` are capped above the
time-out, where the code only compares.  `SiteRecovery_failover` has no restarts:
they are in `SiteRecovery_all`, and the proofs below cover them.
`Replication_jobs` and `DisasterRecovery_replicas` take the runs for symmetric; no check
of liveness uses symmetry.

Fairness: a worker and a run go on, for their calls to clusters have time-outs and
they wait for nothing else; the heartbeat loop catches every exception and comes
round every 30 seconds; the scheduler looks at every job each minute and starts each that
is due (strong fairness, since the pool of runs is the model's: in the code no job waits for
another's thread).  No fairness for operators, clusters, crashes or restarts.  `DueIsReported` is checked without
restarts, which could end every run; a database that refuses every report makes a job
run again and again, which is what it says.

### Proofs

`SiteRecoveryProofs`: `Typing`, and `NeverStuck` (`RunningHasWorker` for all
operations, with crashes and restarts): every step that writes 'running' spawns a
failover, and every step that ends one writes another status.

Under `NoParting` (nobody tests, cleans up, cancels or forces a deletion)
`OneFailoverAtATime` proves `OneFailover`; the invariant `OneInv` adds that there is no
worker of a test, so that whoever ends is the one failover and its status is 'running'
until then.  Section 7 has what happens without the assumption.  From `OneInv` follows
`ImplementsFailover`: each step of the plan is a step of `Failover` or leaves it
unchanged. `CompletedIsAccepted` holds for all operations: a worker that has not failed has
had every guest it has handled accepted (`AllStarted`), and nothing here takes a guest away.
`FailsOverAfterTimeout`: while the plan is 'ready' the first-fail time is never older than
the outage (`Patient`: `since <= unseen`); it needs that nobody makes a plan 'ready' again
or switches `auto_failover`, see section 7.

`ReplicationProofs`: `Typing`, and `OkIsReplica` (`OkMeansReplica`) with no assumption at
all: whatever overlapped, was lost or cut off before.  The invariant: of a job whose latest
run began alone no other run is at work (`OneRun`), and that run comes to report 'ok' only
with the guest on the target and ends only after a report (`Keeping`).
`OthersClonesStay` (`DeletesOwnClone`) needs that calls do not get lost
(`Losses = FALSE`): from the end of the clone's
task to its migration or deletion the id is the run's, and the clean-up after an
exception, which does not look, is not reached.
`SnapshotsAskedFor` (`SnapshotAskedFor`) holds under any overlap, loss and restart: a run has
a snapshot only between the step that takes it and its last (`Snapped`), and all ways there
but the two that the property names lead through the request to remove it.

`DisasterRecoveryProofs`: `FindsReplicas` (`AutoFindsReplicas`), again without assumption.
A step of the plan takes nothing from the target and writes nothing of the jobs
(`PlanStepEffect`), hence keeps the invariant of `OkIsReplica` (`PlanKeepsOk`); the jobs'
and a restart's steps keep it by the lemmas of `ReplicationProofs` (`OkHolds`), so that `OkMeansReplica`
holds of the two together (`OkOfBoth`).  Then the 'ok' the heartbeat reads for
each guest of the plan, if its latest run was alone and has ended, is a replica.  A module's theorems are cited
through `EXTENDS` only: those of an instance are out of the prover's sight, which is why
`DisasterRecovery` extends the module whose invariant it relies on.

Constants are constrained only by `SRAssumption` (`PlanAssumption` in `DisasterRecovery`)
and `ReplicationAssumption`: any plan, any pool, any time-out.  Liveness, and with it the fair part of `Failover!Spec`, is
model-checked only.

## 5. The page

Line numbers are in `web/src/dashboard.js` unless a file is named.  JavaScript runs one
callback at a time: an action is the code from a callback's start to its next `await`,
and what is under way in between (a request, a timer, an event) is in the state.

### Live updates: `LiveUpdates`

A run of the effect that keeps the EventSource is a *life* with a closure of its own; it
runs again whenever the user object or the session changes, and callbacks of earlier
lives still come.

| state | code |
|---|---|
| `isClosing`, `eventSource`, `sseToken`, `tokenRefreshInterval` | variables of the closure (4428-4440) |
| `calls`, `reconnectTimeout`, `delayed` | what a life has under way: `connectSSE` awaiting its token, retries of `onerror`, connects scheduled by the token refresh; counted, since the variables hold only the last |
| `conn` | the EventSource objects that are not closed: connecting or open, whose, with which token, and the server's filter for them (`utils/realtime.py`) |
| `view`, `sseClientIdRef`, `sseSubTimer` | the clusters the page wants, the connection it takes for its own, the debounced subscription (6257-6279) |
| `up` | the server answers |

| actions | code |
|---|---|
| `ConnectSSE`, `OnOpen`, `OnError`, `Reconnect`, `RefreshToken`, `RefreshConnect`, `HealthCheck` | 4457-4856, with `validate_sse_token` and `sse_updates` of the server |
| `UserChanged`, `Logout` | clean-up (4861) and the next life; `contexts.js` 281-344 |
| `ChangeView`, `UpdateSubscription` | 6257-6279 and `api/realtime.py` 113-221 |
| `Down`, `Up` | an outage; after a restart the server knows neither tokens nor clients |

Abstractions: a tick of the token refresh and its answer are one step, and after one that
closed the stream the next comes once it has opened again (5 minutes against seconds);
sending and handling a subscription are one step; the set of wanted clusters is one value.

### What the page shows: `ClusterView`

A cluster has one guest and its data is the guest's status; `Twins` gives guests of
different clusters the same id and node name, by which the page looks rows up.  State:
the guests (`truth`), the selection, the list (`view`: whose, and what it says), the sidebar's
cache, answers (`fetches`) and events (`stream`) under way.

| actions | code |
|---|---|
| `Select`, `Poll`, `ToggleSidebarCluster` | selection and its effects 5946-6002, polling and fetches 6130-6199, 6241 |
| `Receive` | the answers, with the guards of `fetchClusterResources` and `fetchSidebarClusterData` |
| `HandleVmAction` | 6600-6661, optimistic update included |
| `GuestChanges`, `Broadcast`, `OnMessage`, `Lost` | `background/broadcast.py` 117-195, `utils/realtime.py` 194-246, the event handlers 4608-4666; the server drops what a slow client has no room for |

Abstractions: selection and effects are one step (React runs them before another callback
can see the selection); a request enters the state when the server has read what it will
answer; which clusters are expanded is not kept, so any may be asked for at any time.

### The console: `Console`

A *run* of `ConsoleModal`'s effect has its own `cancelled`; the reference to the RFB
object, the retry count, the shown status and the library are shared.  `at` is the await
`startVNC` is at, `rfb` the connection state of the run's latest object
(`static/js/novnc/core/rfb.js` 833-954), `token` its single-use token.

| actions | code |
|---|---|
| `TicketAnswered`, `TokenAnswered`, `Loaded`, `LoadFails`, `Retry` | the awaits of `startVNC` and its retry (`node_modals.js` 2791-2990) |
| `Connected`, `Unclean`, `Fail`, `SocketClosed`, `Disconnected` | the RFB object and the listeners on its events |
| `Unmount`, `Rerun` | the clean-up (2995-3004); the console's cluster changes |

### Runs

| run | shows |
|---|---|
| `LiveUpdates` | `ClosedMeansRetry`: a life whose EventSource was closed has something under way that connects again; `ClosedLifeIsQuiet`: after its clean-up a life starts no connect and no retry, and opens at most the EventSources of the calls that then awaited a token; `Reconnects` and `Covered`: when the server stays up the stream is open again and again, and the page ends up subscribed to what it wants |
| `ClusterView` | `OwnData`: the list is the selected cluster's; `ShowsTruth`: polling alone makes it true in the end; `SidebarFollows`: an expanded cluster, which is not polled, follows its events |
| `Console` | `TypeOK`; `NoZombies`: a live connection belongs to the run that is not cancelled and its clean-up will find it; `ConnectedIsTrue`; `Rests`: retries end; `Closes`: what was cancelled comes to an end |

Bounds: two lives let callbacks of one meet the other, three EventSources a stray, a closing
and a new one, one outage, with or without restart, one change of view. One call of
`connectSSE` and one delayed one per life, but two retries: two EventSources of a life
(section 7) may both fail, and its clean-up, which knows the last timer only, leaves a retry
behind. Two clusters, two answers and one event under way: answers overtake each other and
events. Events overtake each other only with `MaxEvents = 2`, where the same properties hold
(a million states, three and a half minutes: too long to keep as the run); one action that
may fail. Three runs of the console: one ending, one cancelled in an await, one current;
three retries as in the code. `LiveUpdates` and `Console` may rest and switch the deadlock
check off.

Fairness: timers fire, requests end (the browser's own time-outs), a handshake ends, the
polling interval ticks.  `Poll` has strong fairness because the bound on answers under way
may disable it. Users, outages and live events owe nothing: `SidebarFollows` says under
which events it holds, and `Stable`, the premise of `Reconnects` and `Covered`, excludes
that the bound on EventSource objects keeps the page from connecting, and a life whose
first token request failed (section 7).

### Proofs

`LiveUpdatesProofs`: `Typing` (the types are proved only, no run checks them);
`QuietAfterCleanUp` (`ClosedLifeIsQuiet`): only the current life's clean-up is ever run
(`Later`), a closed life starts nothing, and a step opens one EventSource at most; `AlwaysTrying` (`ClosedMeansRetry`)
needs that an EventSource held by a life is its own (`Owned`), for an error closes what
the closure holds and retries in the life of the EventSource that failed, and that a life
that ever had an EventSource has a token (`HasToken`), for without one `connectSSE` gives
up. `ClusterViewProofs`: `AlwaysOwnData`, inductive with the types alone. `ConsoleProofs`:
`Typing`, `Zombies` and `TrulyConnected` from one invariant: what is live is the current
run's (`Current`), found by the reference, and its run awaits nothing. The proofs hold for
any number of lives, EventSources, clusters, answers, events, runs and retries.

## 6. Rolling updates

Line numbers are in `api/settings.py` unless a file is named.

`RollingUpdate` is one cluster's rolling update: the worker thread, the evacuations and
node updates it starts (`core/manager.py` 2164-2197, 2358-2496, 6890-7144), the handlers, and
the page, whose buttons depend on the status it last polled (`web/src/security.js` 1945,
2204-2226, 3009-3027).  A worker reads and writes whichever dictionary is there, so `status`,
`current` and `failed` are shared by all workers; each has its options, its place in the list
and a point it waits at.

| actions | code |
|---|---|
| `NextNode`, `Skip`, `EnterMaintenance`, `Evacuated`, `StartNodeUpdate`, `Updated`, `Rebooted`, `GoOn` | `run_rolling_update` (3334-3654), from one wait to the next |
| `Die` | the dictionary was cleared under the worker |
| `RequestStart`, `RefuseStart`, `StartRollingUpdate` | the check of the status (3284), then the question for the nodes (3289), which may fail, and the new dictionary (3308): `starting` counts the requests in between |
| `CancelRollingUpdate`, `ResumeRollingUpdate`, `Dismiss` | 3672-3713, as far as the page offers them |
| `GetRollingStatus` | the poll, with the automatic clearing of what has ended |
| `EvacuationEnds`, `UpdateEnds`, `ClearUpdate` | the threads of `core/manager.py`; a page that clears a finished update (`tables.js` 29-42) |

`acked`, `stopped` and `cancelledAt` are history: the nodes that were out when an operator went
on, whether the last word was a cancel, and which nodes were current when one came.

`Rollout` is the promise, without workers, tasks, options or page: the turn passes through
the list, and to the next node only when every node is in service but for those that were out
when an operator went on.  Its `out` is `Out` of `RollingUpdate`: what is in maintenance,
updating, rebooting or has failed.

Abstractions: how long a wait lasts is open, every time-out may strike at any time; the
poll's request and answer are one step; Ceph flags belong to entering and leaving
maintenance; a finished update task is not cleared while a worker waits for it; a rolling
update that has ended leaves `index` at 1. `refresh_maintenance_status` (3390,
`core/manager.py` 2245) adds and removes only nodes that something else, by native HA, has
in maintenance; there is no such node in the model.

`Overlaps = FALSE` keeps a new dictionary from being written while a worker lives.  The code
has no such guard: the check (3284) lets a start pass while a paused or cancelled
update's worker lives, or one whose status was cleared, and two starts that both passed it
before either wrote.  With `Overlaps = TRUE` all this happens, and the safety properties fail
(section 7); the run and the theorems are about updates one after another, with starts that
were checked at any time before.

The run `RollingUpdate` shows, for two nodes, two updates one after the other and three sets
of options (the form's defaults; no pause and no evacuation; no pause and no reboot):
`OneNodeOut`: at most one node is out of service unless an operator went on knowing of the
others; `OneAfterAnother`: it implements `Rollout`; `NoneLeftBehind`: no node is left in
maintenance but the one a cancel was about; `CancelStops`: a cancelled update takes no other
node until an operator resumes it or starts another; `WorkersEnd`: every worker ends. Two
nodes are enough for "a second one", two updates for what the first leaves to the second
(and, with `Overlaps = TRUE`, for two workers). Deadlock is checked. Fairness: threads run
and their waits have time-outs; the page polls every few seconds; and an operator to whom
the page goes on offering "resume" presses it at last, since a pause lasts as long as nobody
does: what `WorkersEnd` shows is that the page does offer it.

`RollingUpdateProofs` proves `Typing` for all constants, and, when no update is started
while a worker lives (`~Overlaps`), `OneNodeAtATime`, `NothingForgotten` and
`CancelHolds`.  The invariant `Ind`: one worker is at work (`Alone`), and a cancelled
update's current node is known to be so (`Cancelled`); whatever is out is the current node or
has been acknowledged (`OutKnown`), whatever is in maintenance is in the worker's hand or was
cancelled at (`InHand`).

`ImplementsRollout` proves `OneAfterAnother` from `Ind` and `InTurn`: a worker about to go on
has just dealt with the current node, so that the one it takes next is the next of the
list.  Every step of a worker ends it, leaves the node for the next or stays with it
(`WorkerMoves`); it takes out of service nothing but the current node (`StayRolls`,
`FailRolls`), and only while nothing else is out unknown to an operator.  `WorkersEnd` is
model-checked only.

## 7. Departures

What follows is stated in the modules as a property in the words of the code, and TLC
finds it violated.  To see one, check its property on the instance given: a copy of the
named configuration with these values and this property alone.  *Quiet* stands for
`Reliable = TRUE`, `Crashes = FALSE`, `Toggles = FALSE`, `MaintNodes = {}`; a row
without a name has the configuration of the row above it.  A state predicate is checked
as an INVARIANT; A, B, V and X are the files of section 4.

| property | instance | what the code says | what it does |
|---|---|---|---|
| `OneInstanceRecovers` | `HARecovery_two`, `Node = {n1, n2}`, `Modes = {"down"}`, `Reliable = TRUE` | "Only one PegaProx instance should perform recovery at a time." (5208) | the lock is tested (5220) before it is written, by every instance |
| `NoDuplicateRecovery` | `HARecovery_lifecycle`, quiet, `Threshold = 3` | "Keep recovery flag for a while to prevent duplicate recovery" (3155) | the poll that sees the node return pops the flag (2816) while the worker is at work; when the node fails again a second worker starts |
| `EnableTakesEffect` | `HARecovery_lifecycle` as it is | 'High Availability aktiviert' (api/clusters.py 1157) | `disable_ha` does not wait for the old thread; `start_ha_monitor` returns while it lives (2642), and it then ends |
| `QuorumRestored` | `HARecovery_lifecycle`, quiet, `ForceQuorum = TRUE` | "When a failed node comes back online in a 2-node cluster, we need to restore the expected votes" (5326) | restored only in the poll that sees the return; a worker still at work forces it again (3446) |
| `GuestsRunWhenSettled` | `HARecovery_lifecycle`, quiet | "Auto-restart VMs on node failure" (README.md 86) | a node that is back and answers SSH has its guests stopped (2971), and the list of running guests (3376) is then empty |
| `NoDoubleRun` | quiet, `Strict = TRUE` | "Node is truly unreachable on ALL networks - safe to proceed" (3024) | the node is not looked at again before its guests are started elsewhere |
| `NoDoubleRun` | quiet, `Strict = TRUE`, `Modes = {"split"}`, `AliveSeen = FALSE`, `Returns = FALSE`, `DualNetwork = FALSE` | "This prevents split-brain" (3761) | without shared storage SSH is the only check |
| `NoDoubleRun` | `HARecovery_two`, `AliveSeen = TRUE` | "Poison pill worked - VMs stopped" (3000) | under strict fencing too, a heartbeat file that is missing or unreadable lists no guest (4819-4858), which is taken for stopped (2998) |
| `OfflineNodeIsRetried` | `HARecovery_live`, `Inst = {a}`, `Holder = {ha}`, `HolderOf <- OneInst`, `Reliable = FALSE` | "Auto-restart VMs on node failure" (README.md 86) | only the step from online to offline triggers a recovery (2840); one that gave up is not repeated |
| `PlannedSucceeds` | `SiteRecovery_failover`, `Guest = {g1}`, `Order <- OneGuest`, `Ops = {"planned"}`, `Outages = {}`, `Refusals = FALSE`, `Crashes = FALSE` | "This will migrate all protected VMs to the target cluster." (web/src/translations.js 4275) | `get_vms` (B 91) is no method of the Proxmox manager |
| `ReadyIsIdle` | `SiteRecovery_failover`, `Ops = {"emergency", "cancel"}` | 'Action cancelled' (A 552) | only the status is written (A 546); the worker goes on |
| `OneFailover` | `Ops = {"emergency", "test", "cleanup"}` | 'Failover already in progress' (A 432) | `cleanup_test` writes 'ready' (B 464) whatever the plan is doing |
| `OneFailover` | `Ops = {"failback", "test"}` | 'Action already in progress' (A 470, 513) | a failback refuses only 'running' (A 512), a test writes 'testing' |
| `AutoAfterTimeout` | `Ops = {"auto", "toggle"}`, `Outages = {"source"}` | "If source cluster unreachable for failover_timeout seconds" (B 480) | a first-fail time from before `auto_failover` was switched off is kept (B 482) |
| `FailedTestLeavesNoClone` | `Ops = {"test"}`, `Kind <- ToXcpng`, `Outages = {}`, `Refusals = FALSE`, `Crashes = FALSE` | 'no clones created, nothing to cleanup' (B 384) | the XCP-ng `clone_vm` ignores the id, the clone is not found and stays |
| `CompletedMeansRunning` | `SiteRecovery_failover` as it is | "Failover completed ... succeeded" (B 311) | the start is accepted (`core/manager.py` 7193) and its task never looked at (B 208): the guest may yet fail to start |
| `OkAlwaysMeansReplica` | `Replication_losses`, `Losses = FALSE`, `Outages = {}` | "a healthy recent replication. Otherwise we'd start VMs that were never copied" (B 514) | a run removes the old replica (V 5100) under the 'ok' of the run before; if a second run of the job, started by `last_run` alone (X 96), or a restart comes in between, 'ok' stays |
| `RemovalSucceeds` | as above | "Deleted snapshot" (V 5210) | neither the answer to the request nor its task is looked at |
| `CloneHasRun` | `Replication_losses`, `Losses = FALSE`, `Outages = {}` | 'clone auto-deleted by delete_source=True' (V 5147) | after a failed migration only the snapshot is removed |
| `DeletesOwnClone` | `Replication_jobs`, `Losses = TRUE` | "Remove leftover clone VM + snapshot after failure." (V 5216) | when the request to clone raises, the VM with that id is deleted, which may be another run's clone (V 5158) |
| `AutoAlwaysFindsReplicas` | `DisasterRecovery_replicas`, `Ops = {"auto"}` | "Otherwise we'd start VMs that were never copied" (B 515) | only `last_status` is read (B 532), while a run replaces the replica |
| `RecoveredGuestStays` | `DisasterRecovery_replicas`, `Ops = {"emergency"}`, `Outages = {}`, `Losses = FALSE` | 'removing old replica' (V 5079) | whatever has the guest's id on the target is stopped and deleted (V 5087) |
| `OutageFailsOver` | `DisasterRecovery_replicas`, `Run = {r1}`, `Ops = {"auto"}`, `Losses = FALSE`, `Restarts = FALSE`, no `SYMMETRY` | "Automatic emergency failover on cluster outage" (web/src/translations.js 4263) | a job due in the outage writes 'error' (V 4894), which blocks the failover from then on |
| `OneNodeOut` | `RollingUpdate`, `Overlaps = TRUE` | "continuing to the next node is dangerous for HCI (Ceph, etc.) because we'd pull a second node out while the first may still be down" (api/settings.py 3616) | a start is refused only while the status is 'running' (3284), not while a paused or cancelled worker lives; then two workers share the dictionary |
| `NoneLeftBehind` | as above | "always try to exit maintenance + clear ceph flags on failure" (api/settings.py 3605) | the older worker ends with the node of the newer one in its dictionary |
| `CancelStops` | as above | "Cancel a running rolling update" (api/settings.py 3675) | the worker that had not seen the cancel goes on under the new 'running' |

What follows was met while modelling and is left out of the properties: the definitions
have it where they model the line, the properties are stated so that it is an exception.

Live updates:

* When the first token request fails the life has no EventSource, and nothing tries
  again until the next life (`dashboard.js` 4476).
* `isClosing` is read before the token is awaited (4458) and not after: a clean-up in
  between leaves an EventSource that no code holds.
* `connectSSE` (4480) may be called while another call awaits its token: the variable
  keeps one EventSource, the other lives on, and each of its errors closes the good one
  and schedules a retry.
* A change of view before the first message with a client id is not sent, and one sent
  to a client id that is gone is lost; the next token refresh heals both (6263).

What the page shows:

* `fetchTasks` (4359) and `fetchMigrationLogs` (6281) take whatever answer comes, also one
  of a cluster the user has left, although "prevent cross-cluster data leaks" (2672) is the
  rule elsewhere.  Two initial fetches of the tasks skip the check for stale answers, and the
  later may bring a finished task back to running.
* The optimistic update (6623) looks the guest up by id and node, and may mark the same
  row of another cluster; a failed action with no cluster selected throws in its own handler.
* The sidebar ignores events of a cluster none of whose requests was answered, and shows
  an empty one where a request failed.
* Pending changes of the cluster settings (6411) are not kept per cluster: what was
  typed for one may be sent to another.
* The server gives its broadcast threads 8 seconds and then starts the next round: events
  of one cluster can be overtaken.

Console:

* What a cancelled run awaits may still write the shown status (never 'connected').
* A connection that was up and is lost ends 'clean' and is not retried; a ticket refused
  in a retry ends the retries; the retry count is not reset for the next run; the
  console's cluster follows the selection (14786).

Rolling updates:

* A cancel is overwritten: by 'completed' when the loop ends, or by 'paused' when the node
  at work fails, which can then be resumed.  A cancel during the package lookup (3401)
  leaves that node in maintenance; one during the update ends maintenance while apt and
  the reboot go on.
* Leaving maintenance does not stop the evacuation's thread.  After a time-out of the
  update a resume goes on to the next node while the first still updates.
* Clearing, by hand or by a poll, makes a worker that is alive fail at its next access.
* `start_node_update` (`core/manager.py` 6907) returns a node's earlier, finished task
  unless a page has cleared it, and the worker then takes the node for updated.

## 8. Not modelled

See the table in section 1 and the plan: items 5 to 10 are open.  What section 1 has as
data, single calls or third-party code (translations, most dialogs, noVNC's protocol and
decoders, most HTTP handlers) has no behaviour of its own for a model to say anything
about; by lines it is most of `web/` and `static/`.

Of the HA component the installation and supervision of agents, fallback hosts, SCSI
fencing, the removal of a node while it is recovered (`api/vms.py` 2743) and the
replacement of a manager, flags included, by a re-configuration (`api/clusters.py` 280)
are left out.

Of disaster recovery: editing a plan's guests and mappings, the readiness check, webhooks,
boot delays, a plan's status that cannot be written (`api/site_recovery.py` 33), a wall clock
that jumps or a time-out shorter than a period (`background/site_recovery.py` 513), the
reading of hourly cron patterns as intervals (`background/cross_cluster_replication.py`
42), creating and deleting jobs, the manual run of a job, several jobs for one guest, and the
retention of snapshots on the target.

Of the page: tasks, migration logs, cluster settings and alerts; the older WebSocket; the
shell console; the relay of consoles in the server, where a handler that blocks
(`api/vms.py` 5700) blocks the others of its loop; `ConfigEditor`, where a late load may
replace what was just saved (`web/src/vm_config.js` 293) and saving drops what was edited
meanwhile (1107).

Of rolling updates: the scheduled variant, updates of single nodes, native HA maintenance
and maintenance by hand, and how an evacuation places guests.
