---------------------------- MODULE RollingUpdate ----------------------------
(***************************************************************************)
(* The rolling update of a cluster's nodes: the worker thread of the       *)
(* server, the evacuations and node updates it starts, and the page's      *)
(* update manager, whose buttons depend on the status it last polled.      *)
(*                                                                         *)
(* The server keeps one dictionary, mgr._rolling_update.  Every worker     *)
(* reads and writes whichever dictionary is there, so a worker whose       *)
(* update was cancelled goes on reading the status of the next one.        *)
(* A step is the code between two sleeps or requests; how long a wait      *)
(* lasts is left open, and every time-out may strike at any time.          *)
(***************************************************************************)
EXTENDS FiniteSets, Naturals, Sequences

CONSTANTS
  Nodes,
  Order,     \* the nodes in the order they are updated
  OptionSet, \* the options a rolling update may be started with
  MaxStarts, \* bound: rolling updates started
  Overlaps   \* whether one may be started while a worker of another lives

Options == [skipUpToDate : BOOLEAN, evacuate : BOOLEAN, pauseOnErrors : BOOLEAN,
            reboot : BOOLEAN, waitForReboot : BOOLEAN]

ASSUME OrderAssumption ==
  /\ Order \in Seq(Nodes) /\ Order # <<>>
  /\ \A i, j \in 1 .. Len(Order) : Order[i] = Order[j] => i = j
ASSUME BoundsAssumption ==
  /\ MaxStarts \in Nat \ {0} /\ Overlaps \in BOOLEAN
  /\ OptionSet # {} /\ OptionSet \subseteq Options

Workers == 1 .. MaxStarts

VARIABLES
  status,      \* of the dictionary, "none" without one
  current,     \* its current_node
  failed,      \* its failed_nodes
  starts,      \* how many rolling updates have been started
  starting,    \* requests to start one that have passed the check of the status
  opt,         \* [Workers -> Options]: the options a worker was started with
  pc,          \* [Workers -> Points]
  index,       \* [Workers -> the place in Order]
  maintenance, \* [Nodes -> "out" or the status of its maintenance task]
  update,      \* [Nodes -> "none" or the status of its update task]
  view,        \* the status the page shows
  acked,       \* history: nodes that were out when an operator went on
  stopped,     \* history: cancelled, and neither resumed nor started since
  cancelledAt  \* history: the current nodes of cancelled updates

dictionary == <<status, current, failed>>
worker == <<opt, pc, index>>
history == <<acked, stopped, cancelledAt>>
vars == <<dictionary, starts, starting, worker, maintenance, update, view, history>>

Points == {"idle", "next", "checking", "evacuating", "pausedEvacuation", "update",
           "updating", "rebooting", "pausedReboot", "pausedFailure", "done"}
Statuses == {"none", "running", "paused", "cancelled", "completed"}

TypeOK ==
  /\ status \in Statuses /\ view \in Statuses
  /\ current \in Nodes /\ failed \subseteq Nodes
  /\ starts \in 0 .. MaxStarts /\ starting \in 0 .. MaxStarts - starts
  /\ opt \in [Workers -> Options] /\ pc \in [Workers -> Points]
  /\ index \in [Workers -> 1 .. Len(Order) + 1]
  /\ maintenance \in [Nodes -> {"out", "evacuating", "completed", "errors", "failed"}]
  /\ update \in [Nodes -> {"none", "running", "completed", "failed"}]
  /\ acked \subseteq Nodes /\ stopped \in BOOLEAN /\ cancelledAt \subseteq Nodes

Init ==
  /\ status = "none" /\ current = Order[1] /\ failed = {} /\ starts = 0 /\ starting = 0
  /\ opt = [w \in Workers |-> CHOOSE o \in OptionSet : TRUE]
  /\ pc = [w \in Workers |-> "idle"] /\ index = [w \in Workers |-> 1]
  /\ maintenance = [n \in Nodes |-> "out"] /\ update = [n \in Nodes |-> "none"]
  /\ view = "none"
  /\ acked = {} /\ stopped = FALSE /\ cancelledAt = {}

\* The nodes that are out of service, or may be.
Out ==
  {n \in Nodes : maintenance[n] # "out" \/ update[n] = "running"} \cup failed
    \cup {Order[index[w]] : w \in {v \in Workers : pc[v] \in {"rebooting", "pausedReboot"}}}

-----------------------------------------------------------------------------
(* The worker *)

Node(w) == Order[index[w]]
GoTo(w, point) == pc' = [pc EXCEPT ![w] = point]
Exit(n) == maintenance' = [maintenance EXCEPT ![n] = "out"]

\* The thread is gone, and its place in the list with it.
End(w) == GoTo(w, "done") /\ index' = [index EXCEPT ![w] = 1]

\* The loop is left, after which the status is "completed", cancelled or not.
Finish(w) ==
  /\ End(w) /\ status' = "completed"
  /\ UNCHANGED <<current, failed, maintenance, acked>>

\* The dictionary has gone: the thread dies of an exception in its handlers.
Die(w) ==
  /\ pc[w] \notin {"idle", "done"} /\ status = "none"
  /\ End(w)
  /\ UNCHANGED <<dictionary, starts, starting, opt, maintenance, update, view, history>>

\* Mutant: a node's failure does not stop the rolling update.
FailAndGoOn(w) ==
  /\ GoTo(w, "next") /\ index' = [index EXCEPT ![w] = @ + 1]
  /\ failed' = failed \cup {Node(w)} /\ Exit(Node(w))
  /\ acked' = acked \ {Node(w)}
  /\ UNCHANGED <<status, current>>

\* Mutant: a failed node is left in maintenance.
FailInside(w) ==
  /\ GoTo(w, "pausedFailure") /\ status' = "paused"
  /\ failed' = failed \cup {Node(w)}
  /\ acked' = acked \ {Node(w)}
  /\ UNCHANGED <<current, index, maintenance>>

\* An exception while a node is updated: the node leaves maintenance, and the
\* rolling update is paused, even if it was cancelled.
Fail(w) ==
  /\ GoTo(w, "pausedFailure") /\ status' = "paused"
  /\ failed' = failed \cup {Node(w)} /\ Exit(Node(w))
  /\ acked' = acked \ {Node(w)}
  /\ UNCHANGED <<current, index>>

\* The node has been updated: unless cancelled, it leaves maintenance.
Leave(w) ==
  IF status = "cancelled" THEN Finish(w)
  ELSE /\ GoTo(w, "next") /\ index' = [index EXCEPT ![w] = @ + 1]
       /\ Exit(Node(w))
       /\ UNCHANGED <<dictionary, acked>>

Pause(w, point) ==
  /\ GoTo(w, point) /\ status' = "paused"
  /\ UNCHANGED <<current, failed, index, maintenance, acked>>

On(w, point) == GoTo(w, point) /\ UNCHANGED <<dictionary, index, maintenance, acked>>

\* A worker with a dictionary to work with, and what its steps leave alone.
At(w, point) == pc[w] = point /\ status # "none"
Elsewhere == <<starts, starting, opt, view, stopped, cancelledAt>>

\* Mutant: only a pause keeps the worker from the next node.
NextUnlessPaused(w) ==
  /\ At(w, "next")
  /\ IF index[w] > Len(Order) \/ status = "paused" THEN Finish(w)
     ELSE /\ current' = Node(w) /\ GoTo(w, "checking")
          /\ UNCHANGED <<status, failed, index, maintenance, acked>>
  /\ UNCHANGED <<update, Elsewhere>>

NextNode(w) ==
  /\ At(w, "next")
  /\ IF index[w] > Len(Order) \/ status # "running" THEN Finish(w)
     ELSE /\ current' = Node(w) /\ GoTo(w, "checking")
          /\ UNCHANGED <<status, failed, index, maintenance, acked>>
  /\ UNCHANGED <<update, Elsewhere>>

\* There is nothing to install.
Skip(w) ==
  /\ At(w, "checking") /\ opt[w].skipUpToDate
  /\ GoTo(w, "next") /\ index' = [index EXCEPT ![w] = @ + 1]
  /\ UNCHANGED <<dictionary, maintenance, acked, update, Elsewhere>>

\* The node enters maintenance, unless it is there already; whether the update
\* was cancelled while its packages were looked up is not asked. (With native HA
\* what is there already follows the cluster's own list: left out, see the README.)
EnterMaintenance(w) ==
  /\ At(w, "checking")
  /\ GoTo(w, IF opt[w].evacuate THEN "evacuating" ELSE "update")
  /\ maintenance' = [maintenance EXCEPT ![Node(w)] =
       IF @ # "out" THEN @ ELSE IF opt[w].evacuate THEN "evacuating" ELSE "completed"]
  /\ UNCHANGED <<dictionary, index, acked, update, Elsewhere>>

\* A poll of the maintenance task, or the time-out of the wait.
Evacuated(w) ==
  LET m == maintenance[Node(w)] IN
  /\ At(w, "evacuating")
  /\ IF status \notin {"running", "paused"}
       THEN IF status = "cancelled" THEN Finish(w) ELSE Fail(w)
     ELSE IF m = "completed" \/ (m = "errors" /\ ~opt[w].pauseOnErrors)
       THEN On(w, "update")
     ELSE IF m = "errors" THEN Pause(w, "pausedEvacuation") ELSE Fail(w)
  /\ UNCHANGED <<update, Elsewhere>>

\* start_node_update: an earlier task of the node is taken for this one.
StartNodeUpdate(w) ==
  /\ At(w, "update")
  /\ IF maintenance[Node(w)] \in {"completed", "errors"}
     THEN /\ On(w, "updating")
          /\ update' = [update EXCEPT ![Node(w)] = IF @ = "none" THEN "running" ELSE @]
     ELSE Fail(w) /\ UNCHANGED update
  /\ UNCHANGED Elsewhere

\* The task has ended, or the wait for it has.
Updated(w) ==
  /\ At(w, "updating")
  /\ IF update[Node(w)] # "completed" THEN Fail(w)
     ELSE IF opt[w].reboot /\ opt[w].waitForReboot THEN On(w, "rebooting")
     ELSE Leave(w)
  /\ UNCHANGED <<update, Elsewhere>>

\* The node is online again, or is not in time.
Rebooted(w) ==
  /\ At(w, "rebooting")
  /\ \/ Leave(w)
     \/ status # "cancelled" /\ Pause(w, "pausedReboot")
  /\ UNCHANGED <<update, Elsewhere>>

\* A pause is over: cancelled, resumed, or neither if the dictionary is another.
GoOn(w) ==
  /\ status # "paused"
  /\ \/ /\ At(w, "pausedEvacuation")
        /\ IF status = "cancelled" THEN Finish(w)
           ELSE On(w, IF status = "running" THEN "update" ELSE "evacuating")
     \/ At(w, "pausedReboot") /\ Leave(w)
     \/ /\ At(w, "pausedFailure")
        /\ IF status = "cancelled" THEN Finish(w)
           ELSE /\ GoTo(w, "next") /\ index' = [index EXCEPT ![w] = @ + 1]
                /\ UNCHANGED <<dictionary, maintenance, acked>>
  /\ UNCHANGED <<update, Elsewhere>>

-----------------------------------------------------------------------------
(* The tasks of the nodes *)

\* An evacuation ends; one whose maintenance was ended has no task any more.
EvacuationEnds(n) ==
  /\ maintenance[n] = "evacuating"
  /\ \E s \in {"completed", "errors", "failed"} :
       maintenance' = [maintenance EXCEPT ![n] = s]
  /\ UNCHANGED <<dictionary, starts, starting, worker, update, view, history>>

\* A node's update succeeds, and the node leaves maintenance, or fails.
UpdateEnds(n) ==
  /\ update[n] = "running"
  /\ \/ update' = [update EXCEPT ![n] = "completed"] /\ Exit(n)
     \/ update' = [update EXCEPT ![n] = "failed"] /\ UNCHANGED maintenance
  /\ UNCHANGED <<dictionary, starts, starting, worker, view, history>>

\* A page clears the task some time after it has ended, if one is open; a worker
\* that still waits for the task keeps it.
ClearUpdate(n) ==
  /\ update[n] \in {"completed", "failed"}
  /\ \A w \in Workers : pc[w] = "updating" => Node(w) # n
  /\ update' = [update EXCEPT ![n] = "none"]
  /\ UNCHANGED <<dictionary, starts, starting, worker, maintenance, view, history>>

-----------------------------------------------------------------------------
(* The page *)

\* The button is there while the page shows no rolling update; the server
\* refuses only while one is running, and then asks the cluster for its nodes.
RequestStart ==
  /\ view = "none" /\ status # "running" /\ starts + starting < MaxStarts
  /\ starting' = starting + 1
  /\ UNCHANGED <<dictionary, starts, worker, maintenance, update, view, history>>

\* The cluster does not answer.
RefuseStart ==
  /\ starting > 0 /\ starting' = starting - 1
  /\ UNCHANGED <<dictionary, starts, worker, maintenance, update, view, history>>

\* The nodes are known: a new dictionary, whatever the status is by now, and its
\* worker.
StartRollingUpdate ==
  /\ starting > 0 /\ starting' = starting - 1
  /\ Overlaps \/ \A w \in Workers : pc[w] \in {"idle", "done"}
  /\ starts' = starts + 1
  /\ \E o \in OptionSet : opt' = [opt EXCEPT ![starts + 1] = o]
  /\ pc' = [pc EXCEPT ![starts + 1] = "next"]
  /\ status' = "running" /\ current' = Order[1] /\ failed' = {}
  /\ acked' = Out /\ stopped' = FALSE
  /\ UNCHANGED <<index, maintenance, update, view, cancelledAt>>

\* The server cancels whatever dictionary there is, and ends the maintenance of
\* its current node; the page forgets the rolling update.
CancelRollingUpdate ==
  /\ view \in {"running", "paused"} /\ status # "none"
  /\ status' = "cancelled" /\ view' = "none" /\ Exit(current)
  /\ stopped' = TRUE /\ cancelledAt' = cancelledAt \cup {current}
  /\ UNCHANGED <<current, failed, starts, starting, worker, update, acked>>

ResumeRollingUpdate ==
  /\ view = "paused" /\ status = "paused"
  /\ status' = "running"
  /\ acked' = Out /\ stopped' = FALSE
  /\ UNCHANGED <<current, failed, starts, starting, worker, maintenance, update, view, cancelledAt>>

\* Mutant: only a page that shows a rolling update polls for it.
PollWhileShown ==
  /\ view # "none"
  /\ \/ view' = status /\ UNCHANGED status
     \/ /\ status \in {"completed", "cancelled"}
        /\ status' = "none" /\ view' = "none"
  /\ UNCHANGED <<current, failed, starts, starting, worker, maintenance, update, history>>

\* getRollingStatus, every 3 s; the server drops what ended some minutes ago.
GetRollingStatus ==
  /\ \/ view' = status /\ UNCHANGED status
     \/ /\ status \in {"completed", "cancelled"}
        /\ status' = "none" /\ view' = "none"
  /\ UNCHANGED <<current, failed, starts, starting, worker, maintenance, update, history>>

\* The result is dismissed, or the page is opened anew.
Dismiss ==
  /\ view' = "none"
  /\ \/ UNCHANGED status
     \/ /\ view = "completed" /\ status \in {"completed", "cancelled"}
        /\ status' = "none"
  /\ UNCHANGED <<current, failed, starts, starting, worker, maintenance, update, history>>

-----------------------------------------------------------------------------

WorkerStep(w) ==
  \/ NextNode(w) \/ Skip(w) \/ EnterMaintenance(w) \/ Evacuated(w)
  \/ StartNodeUpdate(w) \/ Updated(w) \/ Rebooted(w) \/ GoOn(w) \/ Die(w)

Next ==
  \/ \E w \in Workers : WorkerStep(w)
  \/ \E n \in Nodes : EvacuationEnds(n) \/ UpdateEnds(n) \/ ClearUpdate(n)
  \/ RequestStart \/ RefuseStart \/ StartRollingUpdate \/ CancelRollingUpdate \/ ResumeRollingUpdate
  \/ GetRollingStatus \/ Dismiss

\* Threads run, waits time out, the page polls, and somebody answers a pause
\* the page goes on showing.
Fairness ==
  /\ \A w \in Workers : WF_vars(WorkerStep(w))
  /\ WF_vars(GetRollingStatus)
  /\ SF_vars(ResumeRollingUpdate)

Spec == Init /\ [][Next]_vars /\ Fairness

-----------------------------------------------------------------------------
(* Properties *)

\* At most one node is out of service unless an operator went on knowing of the
\* others: "continuing to the next node is dangerous for HCI (Ceph, etc.) because
\* we'd pull a second node out while the first may still be down".
OneNodeOut == Cardinality(Out \ acked) <= 1

\* The nodes are updated one after another, in the order of the list, and the next
\* one only when the last is back in service or an operator has gone on: every
\* worker, pause, failure and cancel of run_rolling_update is a step of Rollout.
R == INSTANCE Rollout WITH turn <- current, out <- Out
OneAfterAnother == R!Spec

\* A rolling update that has ended leaves no node in maintenance, but for the
\* one that was being looked at when it was cancelled.
NoneLeftBehind ==
  (\A w \in Workers : pc[w] \in {"idle", "done"}) =>
    {n \in Nodes : maintenance[n] # "out"} \subseteq cancelledAt

\* A cancelled rolling update takes no other node than the one that was its
\* current one, though a failure of that may turn it into a paused one, until an
\* operator resumes it or starts another.
CancelStops ==
  [][\A n \in Nodes :
       stopped /\ maintenance[n] = "out" /\ maintenance'[n] # "out" => n \in cancelledAt]_vars

\* Every worker ends: no pause is one nobody can see or answer.
WorkersEnd == \A w \in Workers : pc[w] # "idle" ~> pc[w] = "done"
=============================================================================
