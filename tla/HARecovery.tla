------------------------------ MODULE HARecovery ------------------------------
(***************************************************************************)
(* PegaProx's high-availability monitor and its recovery workers           *)
(* (pegaprox/core/manager.py, the _ha_ methods of PegaProxManager).        *)
(*                                                                         *)
(* Every PegaProx process that manages the cluster (an instance) runs one  *)
(* monitor thread, which polls the node list and declares a node offline   *)
(* after Threshold consecutive misses.  The declaration spawns a recovery  *)
(* worker: lock file on the shared storage, a delay, the split-brain       *)
(* check, quorum and network checks, then for every guest of the node:     *)
(* force quorum, fence, move the configuration, start.  Workers of one     *)
(* instance share its flags; workers of several instances share only the   *)
(* lock files and the cluster itself.                                      *)
(***************************************************************************)
EXTENDS Naturals, FiniteSets

CONSTANTS
    Inst,         \* PegaProx processes managing this cluster
    Node,         \* nodes of the Proxmox cluster
    VM,           \* guests (VMs and containers)
    Worker,       \* pool of recovery threads: bounds the threads alive at once
    Holder,       \* identities written into lock files: 'pegaprox_<id>'
    HolderOf,     \* [Inst -> Holder]
    NoHolder,     \* the lock file does not exist
    NoNode, NoVM, \* null values
    Threshold,    \* ha_failure_threshold
    UseLock,      \* ha_config['storage_heartbeat_enabled']
    DualNetwork,  \* ha_config['dual_network_mode']
    Strict,       \* ha_config['strict_fencing']
    ForceQuorum,  \* ha_config['two_node_mode'] or ['force_quorum_on_failure']
    Fencing,      \* nodes with hardware fencing configured
    HomeOf,       \* [VM -> Node], where each guest's configuration starts
    LocalVMs,     \* guests whose disks are on local storage
    \* The environment of a run:
    Failing,      \* nodes that may fail
    Modes,        \* subset of {"down", "split"}: how they fail
    Returns,      \* TRUE if a failed node may come back
    Crashes,      \* TRUE if a PegaProx process may crash and restart
    AliveSeen,    \* TRUE if a node that is alive is always seen alive, with
                  \* its guests, by the SSH or the heartbeat check
    PillTrue,     \* TRUE if a heartbeat file that lists no guest after a poison
                  \* pill means that none is running
    Reliable,     \* TRUE if no SSH, API or file operation of PegaProx fails
    Toggles,      \* TRUE if operators switch HA off and on
    MaintNodes    \* nodes that enter and leave maintenance

ASSUME HAAssumption ==
    /\ Threshold \in Nat \ {0}
    /\ HolderOf \in [Inst -> Holder]
    /\ NoHolder \notin Holder
    /\ NoNode \notin Node
    /\ NoVM \notin VM
    /\ Inst # {} /\ Node # {}
    /\ HomeOf \in [VM -> Node]
    /\ UseLock \in BOOLEAN /\ DualNetwork \in BOOLEAN /\ Strict \in BOOLEAN /\ ForceQuorum \in BOOLEAN
    /\ Modes \subseteq {"down", "split"}

VARIABLES
    \* per instance: the HA switch and the monitor thread
    wanted,      \* config.ha_enabled as the API saved it
    starting,    \* a start_ha_monitor is past its test of the thread
    enabled,     \* ha_enabled, the loop condition of the monitor
    thread,      \* ha_thread.is_alive()
    pending,     \* nodes of the current report still to be handled
    seen,        \* nodes the current report shows online
    \* per instance: what the monitor knows
    status,      \* ha_node_status[n]['status']
    failures,    \* ha_node_status[n]['consecutive_failures'], capped at Threshold
    recovering,  \* keys of ha_recovery_in_progress
    maint,       \* keys of nodes_in_maintenance
    \* recovery workers
    pc, on, of,  \* program counter, instance and failed node of a worker
    todo,        \* guests it still has to recover
    avail,       \* available_nodes, read once per recovery
    vm, dest,    \* guest in hand and its target node
    outlived,    \* history: the monitor saw the node online during the worker's life
    \* shared by all instances
    lockFile,    \* holder in recovery_lock_<node>, or NoHolder
    lockFresh,   \* the lock file is younger than 300 seconds
    state,       \* the node itself: "up", "down" or "split" (alive, not online)
    conf,        \* node whose /etc/pve directory holds the guest's configuration
    runs,        \* nodes on which the guest is running
    forced,      \* corosync runs with 'pvecm expected 1'
    unstopped    \* history: guests with which a worker went on although they
                 \* were running on the node it recovers

monVars  == <<wanted, starting, enabled, thread, pending, seen>>
knowVars == <<status, failures, recovering, maint>>
jobVars  == <<on, of, todo, avail, vm, dest>>
workVars == <<pc, jobVars, outlived>>
lockVars == <<lockFile, lockFresh>>
envVars  == <<state, conf, runs, forced, unstopped>>
vars == <<monVars, knowVars, workVars, lockVars, envVars>>

\* what the fields of an idle worker hold
AnyInst == CHOOSE i \in Inst : TRUE
AnyNode == CHOOSE n \in Node : TRUE

PCs == {"idle", "lock", "write", "delay", "check", "list",
        "pick", "move", "start", "final", "cooldown"}

TypeOK ==
    /\ wanted \in [Inst -> BOOLEAN]
    /\ starting \in [Inst -> BOOLEAN]
    /\ enabled \in [Inst -> BOOLEAN]
    /\ thread \in [Inst -> BOOLEAN]
    /\ pending \in [Inst -> SUBSET Node]
    /\ seen \in [Inst -> SUBSET Node]
    /\ status \in [Inst -> [Node -> {"untracked", "online", "offline"}]]
    /\ failures \in [Inst -> [Node -> 0..Threshold]]
    /\ recovering \in [Inst -> SUBSET Node]
    /\ maint \in [Inst -> SUBSET Node]
    /\ pc \in [Worker -> PCs]
    /\ on \in [Worker -> Inst]
    /\ of \in [Worker -> Node]
    /\ todo \in [Worker -> SUBSET VM]
    /\ avail \in [Worker -> SUBSET Node]
    /\ vm \in [Worker -> VM \cup {NoVM}]
    /\ dest \in [Worker -> Node \cup {NoNode}]
    /\ outlived \in [Worker -> BOOLEAN]
    /\ lockFile \in [Node -> Holder \cup {NoHolder}]
    /\ lockFresh \in [Node -> BOOLEAN]
    /\ state \in [Node -> {"up", "down", "split"}]
    /\ conf \in [VM -> Node]
    /\ runs \in [VM -> SUBSET Node]
    /\ forced \in BOOLEAN
    /\ unstopped \subseteq VM

Init ==
    /\ wanted = [i \in Inst |-> TRUE]
    /\ starting = [i \in Inst |-> FALSE]
    /\ enabled = [i \in Inst |-> TRUE]
    /\ thread = [i \in Inst |-> TRUE]
    /\ pending = [i \in Inst |-> {}]
    /\ seen = [i \in Inst |-> {}]
    /\ status = [i \in Inst |-> [n \in Node |-> "untracked"]]
    /\ failures = [i \in Inst |-> [n \in Node |-> 0]]
    /\ recovering = [i \in Inst |-> {}]
    /\ maint = [i \in Inst |-> {}]
    /\ pc = [w \in Worker |-> "idle"]
    /\ on = [w \in Worker |-> AnyInst]
    /\ of = [w \in Worker |-> AnyNode]
    /\ todo = [w \in Worker |-> {}]
    /\ avail = [w \in Worker |-> {}]
    /\ vm = [w \in Worker |-> NoVM]
    /\ dest = [w \in Worker |-> NoNode]
    /\ outlived = [w \in Worker |-> FALSE]
    /\ lockFile = [n \in Node |-> NoHolder]
    /\ lockFresh = [n \in Node |-> FALSE]
    /\ state = [n \in Node |-> "up"]
    /\ conf = HomeOf
    /\ runs = [v \in VM |-> {HomeOf[v]}]
    /\ forced = FALSE
    /\ unstopped = {}

--------------------------------------------------------------------------------
(* The cluster and its nodes (outside PegaProx).                              *)

Running(n) == {v \in VM : n \in runs[v]}

\* A powered-off node runs nothing.
PowerOff(n) ==
    /\ state' = [state EXCEPT ![n] = "down"]
    /\ runs' = [v \in VM |-> runs[v] \ {n}]

\* A node crashes, or is cut off from the cluster with its guests running.
NodeFails(n) ==
    /\ n \in Failing
    /\ state[n] = "up"
    /\ \/ /\ "down" \in Modes
          /\ PowerOff(n)
       \/ /\ "split" \in Modes
          /\ state' = [state EXCEPT ![n] = "split"]
          /\ UNCHANGED runs
    /\ UNCHANGED <<monVars, knowVars, workVars, lockVars, conf, forced, unstopped>>

\* A failed node comes back.  A node that boots starts the guests whose
\* configuration it still has; one that was cut off kept its guests running.
NodeReturns(n) ==
    /\ Returns
    /\ state[n] # "up"
    /\ state' = [state EXCEPT ![n] = "up"]
    /\ runs' = [v \in VM |-> IF state[n] = "down" /\ conf[v] = n
                             THEN runs[v] \cup {n}
                             ELSE runs[v]]
    /\ UNCHANGED <<monVars, knowVars, workVars, lockVars, conf, forced, unstopped>>

\* Five minutes pass over a lock file.
LockAges(n) ==
    /\ lockFile[n] # NoHolder /\ lockFresh[n]
    /\ lockFresh' = [lockFresh EXCEPT ![n] = FALSE]
    /\ UNCHANGED <<monVars, knowVars, workVars, lockFile, envVars>>

--------------------------------------------------------------------------------
(* The HA switch and the monitor thread.                                      *)

\* enable_ha: start_ha_monitor returns at once while the old thread is alive,
\* before it sets ha_enabled; the API saves config.ha_enabled all the same.
\* (One request at a time is past the test.)
StartHA(i) ==
    /\ Toggles
    /\ ~starting[i]
    /\ \/ /\ thread[i]
          /\ wanted' = [wanted EXCEPT ![i] = TRUE]
          /\ UNCHANGED starting
       \/ /\ ~thread[i]
          /\ starting' = [starting EXCEPT ![i] = TRUE]
          /\ UNCHANGED wanted
    /\ UNCHANGED <<enabled, thread, pending, seen, knowVars, workVars, lockVars, envVars>>

\* It has looked for fallback hosts and at the size of the cluster, and starts
\* the thread.
StartMonitor(i) ==
    /\ starting[i]
    /\ starting' = [starting EXCEPT ![i] = FALSE]
    /\ wanted' = [wanted EXCEPT ![i] = TRUE]
    /\ enabled' = [enabled EXCEPT ![i] = TRUE]
    /\ thread' = [thread EXCEPT ![i] = TRUE]
    /\ UNCHANGED <<pending, seen, knowVars, workVars, lockVars, envVars>>

\* disable_ha: the thread is told to stop, not joined; workers go on.
StopHA(i) ==
    /\ Toggles
    /\ wanted' = [wanted EXCEPT ![i] = FALSE]
    /\ enabled' = [enabled EXCEPT ![i] = FALSE]
    /\ UNCHANGED <<starting, thread, pending, seen, knowVars, workVars, lockVars, envVars>>

\* The monitor loop sees ha_enabled FALSE and ends.
LoopEnds(i) ==
    /\ thread[i] /\ ~enabled[i] /\ pending[i] = {}
    /\ thread' = [thread EXCEPT ![i] = FALSE]
    /\ UNCHANGED <<wanted, starting, enabled, pending, seen, knowVars, workVars, lockVars, envVars>>

\* The monitor fetches the node list; it takes ha_lock for the loop over it.
BeginPoll(i) ==
    /\ thread[i] /\ enabled[i] /\ pending[i] = {}
    /\ pending' = [pending EXCEPT ![i] = Node]
    /\ seen' = [seen EXCEPT ![i] = {n \in Node : state[n] = "up"}]
    /\ UNCHANGED <<wanted, starting, enabled, thread, knowVars, workVars, lockVars, envVars>>

\* ha_lock is held from the first node of the report to the last.
MonitorHoldsLock(i) == pending[i] \notin {{}, Node}

Handled(i, n) ==
    /\ n \in pending[i]
    /\ pending' = [pending EXCEPT ![i] = @ \ {n}]
    /\ UNCHANGED <<wanted, starting, enabled, thread, seen>>

\* A node is tracked as online from the first report that lists it.
Prev(i, n) == IF status[i][n] = "untracked" THEN "online" ELSE status[i][n]

Active(w) == pc[w] # "idle"
WorkersOf(i, n) == {w \in Worker : Active(w) /\ on[w] = i /\ of[w] = n}

\* _ha_check_restore_quorum: back to normal votes once every tracked node is online
RestoreQuorum(i, n) ==
    LET allOnline == \A m \in Node \ {n} : status[i][m] # "offline"
        tracked   == {n} \cup {m \in Node : status[i][m] # "untracked"}
        mustRun   == ForceQuorum /\ allOnline /\ Cardinality(tracked) >= 2
    IN  forced' \in IF ~mustRun THEN {forced}
                    ELSE IF Reliable THEN {FALSE} ELSE {FALSE, forced}

\* The report shows the node online.
SeenOnline(i, n) ==
    /\ Handled(i, n)
    /\ n \in seen[i]
    /\ failures' = [failures EXCEPT ![i][n] = 0]
    /\ status' = [status EXCEPT ![i][n] = "online"]
    /\ IF Prev(i, n) = "offline"
       THEN /\ recovering' = [recovering EXCEPT ![i] = @ \ {n}]
            /\ outlived' = [w \in Worker |-> outlived[w] \/ w \in WorkersOf(i, n)]
            /\ RestoreQuorum(i, n)
       ELSE UNCHANGED <<recovering, outlived, forced>>
    /\ UNCHANGED <<maint, pc, jobVars, lockVars, state, conf, runs, unstopped>>

Missed(i, n) ==
    /\ Handled(i, n)
    /\ n \notin seen[i]
    /\ failures' = [failures EXCEPT ![i][n] =
                       IF @ < Threshold THEN @ + 1 ELSE Threshold]

\* One more miss, below the threshold or of a node known to be offline.
CountMiss(i, n) ==
    /\ Missed(i, n)
    /\ failures'[i][n] < Threshold \/ Prev(i, n) = "offline"
    /\ status' = [status EXCEPT ![i][n] = Prev(i, n)]
    /\ UNCHANGED <<recovering, maint, workVars, lockVars, envVars>>

\* Mutant: a node known to be offline is declared offline again.
DeclareAgain(i, n) ==
    /\ Missed(i, n)
    /\ failures'[i][n] >= Threshold
    /\ status' = [status EXCEPT ![i][n] = "offline"]

Declare(i, n) ==
    /\ Missed(i, n)
    /\ failures'[i][n] >= Threshold /\ Prev(i, n) = "online"
    /\ status' = [status EXCEPT ![i][n] = "offline"]

\* Declared offline, but in maintenance or flagged as being recovered.
DeclareOnly(i, n) ==
    /\ Declare(i, n)
    /\ n \in maint[i] \cup recovering[i]
    /\ UNCHANGED <<recovering, maint, workVars, lockVars, envVars>>

\* Declared offline: _ha_trigger_recovery sets the flag and spawns a worker.
TriggerRecovery(i, n, w) ==
    /\ Declare(i, n)
    /\ n \notin maint[i] \cup recovering[i]
    /\ ~Active(w)
    /\ recovering' = [recovering EXCEPT ![i] = @ \cup {n}]
    /\ pc' = [pc EXCEPT ![w] = IF UseLock THEN "lock" ELSE "delay"]
    /\ on' = [on EXCEPT ![w] = i]
    /\ of' = [of EXCEPT ![w] = n]
    /\ outlived' = [outlived EXCEPT ![w] = FALSE]
    /\ UNCHANGED <<maint, todo, avail, vm, dest, lockVars, envVars>>

\* An operator puts a node into maintenance or takes it out.
ToggleMaintenance(i, n) ==
    /\ n \in MaintNodes
    /\ maint' = [maint EXCEPT ![i] = IF n \in @ THEN @ \ {n} ELSE @ \cup {n}]
    /\ UNCHANGED <<monVars, status, failures, recovering, workVars, lockVars, envVars>>

--------------------------------------------------------------------------------
(* The recovery worker.                                                       *)

GoTo(w, from, to) ==
    /\ pc[w] = from
    /\ pc' = [pc EXCEPT ![w] = to]

\* _ha_release_recovery_lock removes the file, whoever holds it.
Release(n) ==
    /\ lockFile' = IF UseLock THEN [lockFile EXCEPT ![n] = NoHolder] ELSE lockFile
    /\ lockFresh' = IF UseLock THEN [lockFresh EXCEPT ![n] = FALSE] ELSE lockFresh

HeldByOther(w) ==
    /\ lockFresh[of[w]]
    /\ lockFile[of[w]] \notin {NoHolder, HolderOf[on[w]]}

\* _ha_acquire_recovery_lock reads the file first ...
LockRefused(w) ==
    /\ GoTo(w, "lock", "final")
    /\ HeldByOther(w)
    /\ UNCHANGED <<monVars, knowVars, jobVars, outlived, lockVars, envVars>>

LockFree(w) ==
    /\ GoTo(w, "lock", "write")
    /\ ~HeldByOther(w)
    /\ UNCHANGED <<monVars, knowVars, jobVars, outlived, lockVars, envVars>>

\* ... and then writes it.
LockWrite(w) ==
    /\ GoTo(w, "write", "delay")
    /\ lockFile' = [lockFile EXCEPT ![of[w]] = HolderOf[on[w]]]
    /\ lockFresh' = [lockFresh EXCEPT ![of[w]] = TRUE]
    /\ UNCHANGED <<monVars, knowVars, jobVars, outlived, envVars>>

\* After recovery_delay: has the monitor seen the node online again?
CancelRecovery(w) ==
    /\ GoTo(w, "delay", "final")
    /\ ~MonitorHoldsLock(on[w])
    /\ status[on[w]][of[w]] = "online"
    /\ Release(of[w])
    /\ UNCHANGED <<monVars, knowVars, jobVars, outlived, envVars>>

\* Mutant: the node is not checked.
DelayOverUnchecked(w) ==
    /\ GoTo(w, "delay", "list")
    /\ ~MonitorHoldsLock(on[w])
    /\ status[on[w]][of[w]] # "online"
    /\ UNCHANGED <<monVars, knowVars, jobVars, outlived, lockVars, envVars>>

DelayOver(w) ==
    /\ GoTo(w, "delay", "check")
    /\ ~MonitorHoldsLock(on[w])
    /\ status[on[w]][of[w]] # "online"
    /\ UNCHANGED <<monVars, knowVars, jobVars, outlived, lockVars, envVars>>

\* The node answers no check, or answers and has nothing running.
FoundNothingRunning(w) ==
    /\ GoTo(w, "check", "list")
    /\ \/ state[of[w]] = "down"
       \/ ~AliveSeen
       \/ Running(of[w]) = {}
    /\ unstopped' = unstopped \cup Running(of[w])
    /\ UNCHANGED <<monVars, knowVars, jobVars, outlived, lockVars, state, conf, runs, forced>>

\* The node is alive: its guests were stopped, by SSH or by the poison pill.
StoppedGuests(w) ==
    /\ GoTo(w, "check", "list")
    /\ state[of[w]] # "down" /\ Running(of[w]) # {}
    /\ runs' = [v \in VM |-> runs[v] \ {of[w]}]
    /\ UNCHANGED <<monVars, knowVars, jobVars, outlived, lockVars, state, conf, forced, unstopped>>

\* 30 seconds after the poison pill the heartbeat file is read once more.  No
\* guest in it is "VMs stopped": so is a file that is missing or unreadable.
TakenForStopped == (DualNetwork \/ UseLock) /\ ~PillTrue

\* The node is alive and some guests go on running.  If they were not taken for
\* stopped, strict fencing aborts; otherwise the worker goes on.
CouldNotStop(w) ==
    /\ ~Reliable
    /\ state[of[w]] # "down"
    /\ \E left \in SUBSET Running(of[w]) :
         /\ left # {}
         /\ runs' = [v \in VM |-> IF v \in left THEN runs[v] ELSE runs[v] \ {of[w]}]
         /\ \/ /\ Strict
               /\ GoTo(w, "check", "final") /\ Release(of[w])
               /\ UNCHANGED unstopped
            \/ /\ ~Strict \/ TakenForStopped
               /\ GoTo(w, "check", "list")
               /\ unstopped' = unstopped \cup left
               /\ UNCHANGED lockVars
    /\ UNCHANGED <<monVars, knowVars, jobVars, outlived, state, conf, forced>>

\* No connection, no quorum or no network: the worker gives up.
GiveUp(w) ==
    /\ ~Reliable
    /\ GoTo(w, "list", "final")
    /\ Release(of[w])
    /\ UNCHANGED <<monVars, knowVars, jobVars, outlived, envVars>>

\* _ha_fence_node powers the node off, whatever its state is by now.
Fence(n) ==
    \/ /\ n \in Fencing
       /\ PowerOff(n)
    \/ /\ n \notin Fencing \/ ~Reliable
       /\ UNCHANGED <<state, runs>>

\* _ha_get_vms_on_node, after the fencing: the guests reported as running on
\* the node; of a node that is not online the last report is all there is.
Listed(n) == {v \in VM : conf[v] = n /\ (state'[n] = "up" => n \in runs'[v])}

\* _ha_get_available_nodes
Targets(w) == {m \in Node \ {of[w]} : state'[m] = "up" /\ m \notin maint[on[w]]}

\* The checks passed; fence, and find nothing to recover.
NoGuests(w) ==
    /\ GoTo(w, "list", "final")
    /\ Fence(of[w])
    /\ Listed(of[w]) = {}
    /\ Release(of[w])
    /\ UNCHANGED <<monVars, knowVars, jobVars, outlived, conf, forced, unstopped>>

\* The checks passed; fence, and find no node to recover to.
NoTargets(w) ==
    /\ GoTo(w, "list", "final")
    /\ Fence(of[w])
    /\ Listed(of[w]) # {} /\ Targets(w) = {}
    /\ UNCHANGED <<monVars, knowVars, jobVars, outlived, lockVars, conf, forced, unstopped>>

\* The checks passed; fence, and take the lists the rest of the work uses.
ListGuests(w) ==
    /\ GoTo(w, "list", "pick")
    /\ Fence(of[w])
    /\ Listed(of[w]) # {} /\ Targets(w) # {}
    /\ todo' = [todo EXCEPT ![w] = Listed(of[w])]
    /\ avail' = [avail EXCEPT ![w] = Targets(w)]
    /\ UNCHANGED <<monVars, knowVars, on, of, vm, dest, outlived, lockVars, conf, forced, unstopped>>

\* A guest on local storage is skipped.
SkipLocal(w) ==
    /\ pc[w] = "pick"
    /\ \E v \in todo[w] \cap LocalVMs : todo' = [todo EXCEPT ![w] = @ \ {v}]
    /\ UNCHANGED <<monVars, knowVars, pc, on, of, avail, vm, dest, outlived, lockVars, envVars>>

\* The next guest and the least loaded target; then force quorum and fence again.
PickGuest(w) ==
    /\ GoTo(w, "pick", "move")
    /\ \E v \in todo[w] \ LocalVMs, t \in avail[w] :
         /\ vm' = [vm EXCEPT ![w] = v]
         /\ dest' = [dest EXCEPT ![w] = t]
         /\ todo' = [todo EXCEPT ![w] = @ \ {v}]
         /\ forced' \in IF ~ForceQuorum \/ state[t] # "up" THEN {forced}
                         ELSE IF Reliable THEN {TRUE} ELSE {TRUE, forced}
    /\ Fence(of[w])
    /\ UNCHANGED <<monVars, knowVars, on, of, avail, outlived, lockVars, conf, unstopped>>

\* Mutant: the configuration is moved from wherever it is.
CanMoveFromAnywhere(w) == state[dest[w]] = "up"

\* mv /etc/pve/nodes/<failed>/... /etc/pve/nodes/<target>/..., run on the target
CanMove(w) == conf[vm[w]] = of[w] /\ state[dest[w]] = "up"

MoveConfig(w) ==
    /\ GoTo(w, "move", "start")
    /\ \/ /\ CanMove(w)
          /\ conf' = [conf EXCEPT ![vm[w]] = dest[w]]
       \/ /\ ~CanMove(w) \/ ~Reliable
          /\ UNCHANGED conf
    /\ UNCHANGED <<monVars, knowVars, jobVars, outlived, lockVars, state, runs, forced, unstopped>>

\* The start request: the target must have the configuration, and must not be
\* running the guest already.
CanStart(w) == conf[vm[w]] = dest[w] /\ state[dest[w]] = "up"

StartGuest(w) ==
    /\ GoTo(w, "start", "pick")
    /\ \/ /\ CanStart(w)
          /\ runs' = [runs EXCEPT ![vm[w]] = @ \cup {dest[w]}]
       \/ /\ ~CanStart(w) \/ ~Reliable
          /\ UNCHANGED runs
    /\ vm' = [vm EXCEPT ![w] = NoVM]
    /\ dest' = [dest EXCEPT ![w] = NoNode]
    /\ UNCHANGED <<monVars, knowVars, on, of, todo, avail, outlived, lockVars, state, conf, forced, unstopped>>

\* Mutant: the recovery ends before the last guest.
RecoveryDoneEarly(w) ==
    /\ GoTo(w, "pick", "final")
    /\ UNCHANGED <<monVars, knowVars, jobVars, outlived, lockVars, envVars>>

RecoveryDone(w) ==
    /\ GoTo(w, "pick", "final")
    /\ todo[w] = {}
    /\ UNCHANGED <<monVars, knowVars, jobVars, outlived, lockVars, envVars>>

\* An exception ends the recovery.
Raises(w) ==
    /\ ~Reliable
    /\ \E p \in {"write", "check", "list", "pick", "move", "start"} : GoTo(w, p, "final")
    /\ UNCHANGED <<monVars, knowVars, jobVars, outlived, lockVars, envVars>>

\* Mutant: the lock file stays.
FinallyKeepsLock(w) ==
    /\ GoTo(w, "final", "cooldown")
    /\ UNCHANGED <<monVars, knowVars, jobVars, outlived, lockVars, envVars>>

\* finally: remove the lock file, keep the flag for another 60 seconds ...
Finally(w) ==
    /\ GoTo(w, "final", "cooldown")
    /\ Release(of[w])
    /\ UNCHANGED <<monVars, knowVars, jobVars, outlived, envVars>>

Forget(w) ==
    /\ todo' = [todo EXCEPT ![w] = {}]
    /\ avail' = [avail EXCEPT ![w] = {}]
    /\ vm' = [vm EXCEPT ![w] = NoVM]
    /\ dest' = [dest EXCEPT ![w] = NoNode]
    /\ on' = [on EXCEPT ![w] = AnyInst]
    /\ of' = [of EXCEPT ![w] = AnyNode]

\* Mutant: the flag stays.
CooldownKeepsFlag(w) ==
    /\ GoTo(w, "cooldown", "idle")
    /\ outlived' = [outlived EXCEPT ![w] = FALSE]
    /\ Forget(w)
    /\ UNCHANGED <<monVars, knowVars, lockVars, envVars>>

\* ... and drop it, whichever worker it stands for by now.
CooldownOver(w) ==
    /\ GoTo(w, "cooldown", "idle")
    /\ recovering' = [recovering EXCEPT ![on[w]] = @ \ {of[w]}]
    /\ outlived' = [outlived EXCEPT ![w] = FALSE]
    /\ Forget(w)
    /\ UNCHANGED <<monVars, status, failures, maint, lockVars, envVars>>

\* The PegaProx process dies and is started again: threads, flags and node
\* tracking are gone; the saved HA switch and the lock files are not.
Crash(i) ==
    /\ Crashes
    /\ starting' = [starting EXCEPT ![i] = FALSE]
    /\ enabled' = [enabled EXCEPT ![i] = wanted[i]]
    /\ thread' = [thread EXCEPT ![i] = wanted[i]]
    /\ pending' = [pending EXCEPT ![i] = {}]
    /\ status' = [status EXCEPT ![i] = [n \in Node |-> "untracked"]]
    /\ failures' = [failures EXCEPT ![i] = [n \in Node |-> 0]]
    /\ recovering' = [recovering EXCEPT ![i] = {}]
    /\ maint' = [maint EXCEPT ![i] = {}]
    /\ pc' = [w \in Worker |-> IF on[w] = i THEN "idle" ELSE pc[w]]
    /\ outlived' = [w \in Worker |-> IF on[w] = i THEN FALSE ELSE outlived[w]]
    /\ todo' = [w \in Worker |-> IF on[w] = i THEN {} ELSE todo[w]]
    /\ avail' = [w \in Worker |-> IF on[w] = i THEN {} ELSE avail[w]]
    /\ vm' = [w \in Worker |-> IF on[w] = i THEN NoVM ELSE vm[w]]
    /\ dest' = [w \in Worker |-> IF on[w] = i THEN NoNode ELSE dest[w]]
    /\ on' = [w \in Worker |-> IF on[w] = i THEN AnyInst ELSE on[w]]
    /\ of' = [w \in Worker |-> IF on[w] = i THEN AnyNode ELSE of[w]]
    /\ UNCHANGED <<wanted, seen, lockVars, envVars>>

--------------------------------------------------------------------------------

EnvStep == \E n \in Node : NodeFails(n) \/ NodeReturns(n) \/ LockAges(n)

MonitorStep(i) ==
    \/ LoopEnds(i)
    \/ BeginPoll(i)
    \/ \E n \in Node :
         \/ SeenOnline(i, n)
         \/ CountMiss(i, n)
         \/ DeclareOnly(i, n)
         \/ \E w \in Worker : TriggerRecovery(i, n, w)

OperatorStep(i) ==
    \/ StartHA(i)
    \/ StartMonitor(i)
    \/ StopHA(i)
    \/ \E n \in Node : ToggleMaintenance(i, n)

LockStep(w) == LockRefused(w) \/ LockFree(w) \/ LockWrite(w)

CheckStep(w) ==
    \/ FoundNothingRunning(w) \/ StoppedGuests(w) \/ CouldNotStop(w)
    \/ GiveUp(w) \/ NoGuests(w) \/ NoTargets(w) \/ ListGuests(w)

GuestStep(w) ==
    SkipLocal(w) \/ PickGuest(w) \/ MoveConfig(w) \/ StartGuest(w) \/ RecoveryDone(w)

EndStep(w) == Raises(w) \/ Finally(w) \/ CooldownOver(w)

WorkerStep(w) ==
    \/ LockStep(w) \/ CancelRecovery(w) \/ DelayOver(w)
    \/ CheckStep(w) \/ GuestStep(w) \/ EndStep(w)

Next ==
    \/ EnvStep
    \/ \E i \in Inst : MonitorStep(i) \/ OperatorStep(i) \/ Crash(i)
    \/ \E w \in Worker : WorkerStep(w)

Spec == Init /\ [][Next]_vars

\* Threads keep running; a worker that waits for ha_lock gets it eventually,
\* because the monitor releases it after every report.
Fairness ==
    /\ \A i \in Inst : WF_vars(MonitorStep(i))
    /\ \A w \in Worker : SF_vars(WorkerStep(w))

FairSpec == Spec /\ Fairness

--------------------------------------------------------------------------------
(* Safety.                                                                    *)

\* A node flagged as being recovered has a recovery worker: no early return,
\* exception, duplicate worker or restart leaves behind a flag that would make
\* the monitor skip the node for ever ("Recovery already in progress").
FlagHasWorker ==
    \A i \in Inst : \A n \in recovering[i] : WorkersOf(i, n) # {}

\* A worker that has not been overtaken by the node's return works on a node its
\* instance still holds for offline ...
CurrentWorkerNodeOffline ==
    \A w \in Worker : Active(w) /\ ~outlived[w] => status[on[w]][of[w]] = "offline"

\* ... and there is at most one such worker per instance and node: a second
\* recovery of the same outage cannot start.
OneCurrentWorker ==
    \A u, w \in Worker :
        /\ u # w /\ Active(u) /\ Active(w)
        /\ on[u] = on[w] /\ of[u] = of[w]
        => outlived[u] \/ outlived[w]

OneRecoveryPerOutage == CurrentWorkerNodeOffline /\ OneCurrentWorker

\* A lock file names an instance that has a worker on the node, which will
\* remove it.  (A crash of that instance breaks this: only the age helps then.)
LockHasOwner ==
    \A n \in Node : lockFile[n] # NoHolder =>
        \E w \in Worker :
            /\ of[w] = n /\ HolderOf[on[w]] = lockFile[n]
            /\ pc[w] \notin {"idle", "lock", "write", "cooldown"}

\* Where no node comes back, only guests that a worker left running run on two
\* nodes: because nobody saw them, because fencing is not strict, or because the
\* poison pill was believed to have stopped them.  All other ways to a split
\* brain are closed by the delay, the checks and the fencing of
\* _ha_recovery_worker, however the workers of all instances interleave.
OnlyUnstoppedRunTwice == \A v \in VM \ unstopped : Cardinality(runs[v]) <= 1

\* A guest is moved only while its own node is the one being recovered, and only
\* to a node that was online and in service when the recovery listed its targets;
\* once another worker has moved it, the late one cannot move it again.
MovesOnlyOffFailedNode ==
    [][\A v \in VM : conf'[v] # conf[v] =>
          \E w \in Worker :
             /\ pc[w] = "move" /\ vm[w] = v
             /\ conf[v] = of[w] /\ conf'[v] \in avail[w]]_vars

\* Where no node comes back, the recovery code keeps the promise of
\* GuestPlacement: however the workers of all instances interleave, none moves a
\* guest off a node that has not failed, and none moves or starts a guest that
\* runs, but for guests that were given up on with the worker going on.
G == INSTANCE GuestPlacement WITH failed <- {n \in Node : state[n] # "up"}, lost <- unstopped
PlacesGuests == G!Spec

--------------------------------------------------------------------------------
(* What comments of the code say and the code does not keep: the departures    *)
(* in the README.                                                              *)

\* "Poison pill worked - VMs stopped", "This prevents split-brain": no guest ever
\* runs on two nodes
NoDoubleRun == \A v \in VM : Cardinality(runs[v]) <= 1

\* "Keep recovery flag for a while to prevent duplicate recovery"
NoDuplicateRecovery ==
    \A i \in Inst, n \in Node : Cardinality(WorkersOf(i, n)) <= 1

\* "Only one PegaProx instance should perform recovery at a time."
OneInstanceRecovers ==
    \A u, w \in Worker :
        /\ on[u] # on[w] /\ of[u] = of[w]
        => ~ {pc[u], pc[w]} \subseteq {"check", "list", "pick", "move", "start"}

\* enable_ha answers "High Availability aktiviert": it is on until it is disabled
EnableTakesEffect == \A i \in Inst : wanted[i] => enabled[i]

\* "When a failed node comes back online in a 2-node cluster, we need to restore
\* the expected votes from 1 back to 2."
Settled == /\ \A w \in Worker : ~Active(w)
           /\ \A i \in Inst : pending[i] = {} /\ \A n \in Node : status[i][n] = "online"
           /\ \A n \in Node : state[n] = "up"
QuorumRestored == Settled => ~forced

\* "Auto-restart VMs on node failure": when everything has settled, guests run.
GuestsRunWhenSettled == Settled => \A v \in VM : runs[v] # {}

--------------------------------------------------------------------------------
(* Liveness, under FairSpec.                                                  *)

\* A recovery flag is dropped eventually, whatever happens to the recovery.
FlagDropped ==
    \A i \in Inst, n \in Node : n \in recovering[i] ~> n \notin recovering[i]

\* A guest on shared storage whose node went down is running elsewhere eventually.
GuestsRestarted ==
    \A v \in VM \ LocalVMs : runs[v] = {} ~> runs[v] # {}

\* "Auto-restart VMs on node failure": while a node is held for offline with
\* guests on it, and HA is on, some worker is on it again and again.
Unrecovered(i, n) ==
    enabled[i] /\ status[i][n] = "offline" /\ \E v \in VM : conf[v] = n
OfflineNodeIsRetried ==
    \A i \in Inst, n \in Node :
        Unrecovered(i, n) ~> (WorkersOf(i, n) # {} \/ ~Unrecovered(i, n))
================================================================================
