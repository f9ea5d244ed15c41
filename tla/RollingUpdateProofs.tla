-------------------------- MODULE RollingUpdateProofs --------------------------
(* Theorems about RollingUpdate, for every cluster, every order of its nodes,   *)
(* all options and any number of rolling updates one after another: what two    *)
(* workers at once do is in the instance with Overlaps = TRUE.                  *)
EXTENDS RollingUpdate, FiniteSetTheorems, TLAPS

Active(w) == pc[w] \notin {"idle", "done"}

\* A worker at a node works on one of the list.
InRange == \A w \in Workers : Active(w) /\ pc[w] # "next" => index[w] <= Len(Order)

TypeInv == TypeOK /\ InRange

LEMMA OrderType ==
  /\ Len(Order) \in Nat \ {0}
  /\ \A i \in 1 .. Len(Order) : Order[i] \in Nodes
BY OrderAssumption

LEMMA NodeType ==
  ASSUME TypeInv, NEW w \in Workers, Active(w), pc[w] # "next"
  PROVE  index[w] \in 1 .. Len(Order) /\ Node(w) \in Nodes
BY OrderType DEF TypeInv, TypeOK, InRange, Node

\* What a step of a worker leaves alone: the other workers, and the variables of
\* Elsewhere.
OthersAlone(w) ==
  \A v \in Workers : v # w => pc'[v] = pc[v] /\ index'[v] = index[v]

LEMMA GoToType ==
  ASSUME TypeInv, NEW w \in Workers, NEW p \in Points, GoTo(w, p)
  PROVE  /\ pc' \in [Workers -> Points] /\ pc'[w] = p
         /\ \A v \in Workers : v # w => pc'[v] = pc[v]
BY DEF TypeInv, TypeOK, GoTo

\* the types of what the ways out of a step write
Written ==
  /\ status \in Statuses /\ current \in Nodes /\ failed \subseteq Nodes
  /\ pc \in [Workers -> Points] /\ index \in [Workers -> 1 .. Len(Order) + 1]
  /\ maintenance \in [Nodes -> {"out", "evacuating", "completed", "errors", "failed"}]
  /\ acked \subseteq Nodes
  /\ InRange

LEMMA EndType ==
  ASSUME TypeInv, NEW w \in Workers, End(w)
  PROVE  /\ pc' \in [Workers -> Points] /\ pc'[w] = "done"
         /\ index' \in [Workers -> 1 .. Len(Order) + 1]
         /\ OthersAlone(w) /\ InRange'
<1>1. /\ pc' \in [Workers -> Points] /\ pc'[w] = "done"
      /\ \A v \in Workers : v # w => pc'[v] = pc[v]
  BY GoToType DEF End, Points
<1>2. /\ index' \in [Workers -> 1 .. Len(Order) + 1]
      /\ \A v \in Workers : v # w => index'[v] = index[v]
  BY OrderType DEF End, TypeInv, TypeOK
<1> QED
  BY <1>1, <1>2 DEF OthersAlone, TypeInv, InRange, Active

LEMMA FinishType ==
  ASSUME TypeInv, NEW w \in Workers, Finish(w)
  PROVE  Written'
BY EndType DEF Finish, Written, TypeInv, TypeOK, Statuses

\* A worker goes to another place of the loop's body.
LEMMA MoveType ==
  ASSUME TypeInv, NEW w \in Workers, NEW p \in Points, GoTo(w, p), UNCHANGED index,
         \/ Active(w) /\ pc[w] # "next"
         \/ p \in {"idle", "next", "done"}
         \/ index[w] <= Len(Order)
  PROVE  pc' \in [Workers -> Points] /\ InRange' /\ OthersAlone(w) /\ pc'[w] = p
BY GoToType DEF TypeInv, InRange, Active, OthersAlone

LEMMA ExitType ==
  ASSUME TypeInv, NEW n \in Nodes, Exit(n)
  PROVE  /\ maintenance' \in [Nodes -> {"out", "evacuating", "completed", "errors", "failed"}]
         /\ maintenance'[n] = "out"
         /\ \A m \in Nodes : maintenance'[m] \in {maintenance[m], "out"}
BY DEF TypeInv, TypeOK, Exit

LEMMA FailType ==
  ASSUME TypeInv, NEW w \in Workers, Active(w), pc[w] # "next", Fail(w)
  PROVE  Written'
<1>1. pc' \in [Workers -> Points] /\ InRange'
  BY MoveType DEF Fail, Points
<1>2. /\ maintenance' \in [Nodes -> {"out", "evacuating", "completed", "errors", "failed"}]
      /\ failed' \subseteq Nodes
  BY NodeType, ExitType DEF Fail, TypeInv, TypeOK
<1> QED
  BY <1>1, <1>2 DEF Fail, Written, TypeInv, TypeOK, Statuses

\* The worker leaves a node behind.
LEMMA NextType ==
  ASSUME TypeInv, NEW w \in Workers, Active(w), pc[w] # "next",
         GoTo(w, "next"), index' = [index EXCEPT ![w] = @ + 1]
  PROVE  /\ pc' \in [Workers -> Points] /\ pc'[w] = "next"
         /\ index' \in [Workers -> 1 .. Len(Order) + 1]
         /\ OthersAlone(w) /\ InRange'
<1>1. index[w] + 1 \in 1 .. Len(Order) + 1
  BY NodeType, OrderType
<1>2. /\ index' \in [Workers -> 1 .. Len(Order) + 1]
      /\ \A v \in Workers : v # w => index'[v] = index[v]
  BY <1>1 DEF TypeInv, TypeOK
<1>3. /\ pc' \in [Workers -> Points] /\ pc'[w] = "next"
      /\ \A v \in Workers : v # w => pc'[v] = pc[v]
  BY GoToType DEF Points
<1> QED
  BY <1>2, <1>3 DEF OthersAlone, TypeInv, InRange, Active

LEMMA LeaveType ==
  ASSUME TypeInv, NEW w \in Workers, Active(w), pc[w] # "next", Leave(w)
  PROVE  Written'
<1>1. CASE status = "cancelled"
  BY <1>1, FinishType DEF Leave
<1>2. CASE status # "cancelled"
  <2>1. maintenance' \in [Nodes -> {"out", "evacuating", "completed", "errors", "failed"}]
    BY <1>2, NodeType, ExitType DEF Leave
  <2> QED
    BY <1>2, <2>1, NextType DEF Leave, Written, TypeInv, TypeOK, dictionary
<1> QED
  BY <1>1, <1>2

LEMMA PauseType ==
  ASSUME TypeInv, NEW w \in Workers, Active(w), pc[w] # "next", NEW p \in Points, Pause(w, p)
  PROVE  Written'
BY MoveType DEF Pause, Written, TypeInv, TypeOK, Statuses

LEMMA OnType ==
  ASSUME TypeInv, NEW w \in Workers, Active(w), pc[w] # "next", NEW p \in Points, On(w, p)
  PROVE  Written'
BY MoveType DEF On, Written, TypeInv, TypeOK, dictionary

\* Nothing else is written but, when a node's update starts, its task.
LEMMA WrittenType ==
  ASSUME TypeInv, Written', UNCHANGED Elsewhere,
         update' \in [Nodes -> {"none", "running", "completed", "failed"}]
  PROVE  TypeInv'
BY DEF TypeInv, TypeOK, Written, Elsewhere

LEMMA WorkerType == ASSUME TypeInv, NEW w \in Workers, WorkerStep(w) PROVE TypeInv'
<1> USE DEF Points
<1>0. update \in [Nodes -> {"none", "running", "completed", "failed"}]
  BY DEF TypeInv, TypeOK
<1>1. CASE NextNode(w)
  <2>1. CASE index[w] > Len(Order) \/ status # "running"
    BY <1>0, <1>1, <2>1, FinishType, WrittenType DEF NextNode
  <2>2. CASE ~(index[w] > Len(Order) \/ status # "running")
    <3>1. index[w] \in 1 .. Len(Order) /\ Node(w) \in Nodes
      BY <2>2, OrderType DEF TypeInv, TypeOK, Node
    <3>2. Written'
      BY <1>1, <2>2, <3>1, MoveType DEF NextNode, Written, TypeInv, TypeOK
    <3> QED
      BY <1>0, <1>1, <3>2, WrittenType DEF NextNode
  <2> QED
    BY <2>1, <2>2
<1>2. CASE Skip(w)
  <2>1. Written'
    BY <1>2, NextType DEF Skip, At, Active, Written, TypeInv, TypeOK, dictionary
  <2> QED
    BY <1>0, <1>2, <2>1, WrittenType DEF Skip
<1>3. CASE EnterMaintenance(w)
  <2>1. pc' \in [Workers -> Points] /\ InRange'
    <3>1. (IF opt[w].evacuate THEN "evacuating" ELSE "update") \in Points
      OBVIOUS
    <3> QED
      BY <1>3, <3>1, MoveType DEF EnterMaintenance, At, Active
  <2>2. maintenance' \in [Nodes -> {"out", "evacuating", "completed", "errors", "failed"}]
    BY <1>3 DEF EnterMaintenance, TypeInv, TypeOK
  <2>3. Written'
    BY <1>3, <2>1, <2>2 DEF EnterMaintenance, Written, TypeInv, TypeOK, dictionary
  <2> QED
    BY <1>0, <1>3, <2>3, WrittenType DEF EnterMaintenance
<1>4. CASE Evacuated(w)
  <2>1. Active(w) /\ pc[w] # "next"
    BY <1>4 DEF Evacuated, At, Active
  <2>2. Written'
    BY <1>4, <2>1, FinishType, FailType, OnType, PauseType DEF Evacuated
  <2> QED
    BY <1>0, <1>4, <2>2, WrittenType DEF Evacuated
<1>5. CASE StartNodeUpdate(w)
  <2>1. Active(w) /\ pc[w] # "next"
    BY <1>5 DEF StartNodeUpdate, At, Active
  <2>2. Written'
    BY <1>5, <2>1, FailType, OnType DEF StartNodeUpdate
  <2>3. update' \in [Nodes -> {"none", "running", "completed", "failed"}]
    BY <1>0, <1>5 DEF StartNodeUpdate
  <2> QED
    BY <1>5, <2>2, <2>3, WrittenType DEF StartNodeUpdate
<1>6. CASE Updated(w)
  <2>1. Active(w) /\ pc[w] # "next"
    BY <1>6 DEF Updated, At, Active
  <2>2. Written'
    BY <1>6, <2>1, FailType, OnType, LeaveType DEF Updated
  <2> QED
    BY <1>0, <1>6, <2>2, WrittenType DEF Updated
<1>7. CASE Rebooted(w)
  <2>1. Active(w) /\ pc[w] # "next"
    BY <1>7 DEF Rebooted, At, Active
  <2>2. Written'
    BY <1>7, <2>1, PauseType, LeaveType DEF Rebooted
  <2> QED
    BY <1>0, <1>7, <2>2, WrittenType DEF Rebooted
<1>8. CASE GoOn(w)
  <2>1. Active(w) /\ pc[w] # "next"
    BY <1>8 DEF GoOn, At, Active
  <2>2. Written'
    <3>1. CASE At(w, "pausedEvacuation") /\ status = "cancelled" /\ Finish(w)
      BY <3>1, FinishType
    <3>2. CASE On(w, IF status = "running" THEN "update" ELSE "evacuating")
      BY <2>1, <3>2, OnType
    <3>3. CASE Leave(w)
      BY <2>1, <3>3, LeaveType
    <3>4. CASE Finish(w)
      BY <3>4, FinishType
    <3>5. CASE /\ GoTo(w, "next") /\ index' = [index EXCEPT ![w] = @ + 1]
               /\ UNCHANGED <<dictionary, maintenance, acked>>
      BY <2>1, <3>5, NextType DEF Written, TypeInv, TypeOK, dictionary
    <3> QED
      BY <1>8, <3>1, <3>2, <3>3, <3>4, <3>5 DEF GoOn
  <2> QED
    BY <1>0, <1>8, <2>2, WrittenType DEF GoOn
<1>9. CASE Die(w)
  BY <1>9, EndType DEF Die, TypeInv, TypeOK, dictionary, history
<1> QED
  BY <1>1, <1>2, <1>3, <1>4, <1>5, <1>6, <1>7, <1>8, <1>9 DEF WorkerStep

LEMMA StepType == ASSUME TypeInv, [Next]_vars PROVE TypeInv'
<1> USE DEF Statuses
<1>1. CASE \E w \in Workers : WorkerStep(w)
  BY <1>1, WorkerType
<1>2. CASE \E n \in Nodes : EvacuationEnds(n) \/ UpdateEnds(n) \/ ClearUpdate(n)
  <2> PICK n \in Nodes : EvacuationEnds(n) \/ UpdateEnds(n) \/ ClearUpdate(n)
    BY <1>2
  <2>1. CASE EvacuationEnds(n)
    BY <2>1 DEF EvacuationEnds, TypeInv, TypeOK, InRange, Active, dictionary, worker, history
  <2>2. CASE UpdateEnds(n)
    BY <2>2, ExitType DEF UpdateEnds, TypeInv, TypeOK, InRange, Active, dictionary, worker, history
  <2>3. CASE ClearUpdate(n)
    BY <2>3 DEF ClearUpdate, TypeInv, TypeOK, InRange, Active, dictionary, worker, history
  <2> QED
    BY <2>1, <2>2, <2>3
<1>3. CASE StartRollingUpdate
  <2> DEFINE w == starts + 1
  <2>1. /\ w \in Workers /\ starts' \in 0 .. MaxStarts
        /\ starting' \in 0 .. MaxStarts - starts' /\ Order[1] \in Nodes
    BY <1>3, OrderType, BoundsAssumption DEF StartRollingUpdate, TypeInv, TypeOK, Workers
  <2>2. opt' \in [Workers -> Options]
    BY <1>3, <2>1, BoundsAssumption DEF StartRollingUpdate, TypeInv, TypeOK
  <2>3. pc' \in [Workers -> Points] /\ pc'[w] = "next" /\ \A v \in Workers : v # w => pc'[v] = pc[v]
    BY <1>3, <2>1 DEF StartRollingUpdate, TypeInv, TypeOK, Points
  <2>4. acked' \subseteq Nodes
    <3>1. \A v \in Workers : pc[v] \in {"rebooting", "pausedReboot"} => Node(v) \in Nodes
      BY NodeType DEF Active
    <3> QED
      BY <1>3, <3>1 DEF StartRollingUpdate, Out, Node, TypeInv, TypeOK
  <2> HIDE DEF w
  <2> QED
    BY <1>3, <2>1, <2>2, <2>3, <2>4 DEF StartRollingUpdate, TypeInv, TypeOK, InRange, Active
<1>4. CASE CancelRollingUpdate
  <2>1. current \in Nodes
    BY DEF TypeInv, TypeOK
  <2> QED
    BY <1>4, <2>1, ExitType DEF CancelRollingUpdate, TypeInv, TypeOK, InRange, Active, worker
<1>5. CASE ResumeRollingUpdate
  <2>1. \A v \in Workers : pc[v] \in {"rebooting", "pausedReboot"} => Node(v) \in Nodes
    BY NodeType DEF Active
  <2>2. acked' \subseteq Nodes
    BY <1>5, <2>1 DEF ResumeRollingUpdate, Out, Node, TypeInv, TypeOK
  <2> QED
    BY <1>5, <2>2 DEF ResumeRollingUpdate, TypeInv, TypeOK, InRange, Active, worker
<1>6. CASE GetRollingStatus
  BY <1>6 DEF GetRollingStatus, TypeInv, TypeOK, InRange, Active, worker, history
<1>7. CASE Dismiss
  BY <1>7 DEF Dismiss, TypeInv, TypeOK, InRange, Active, worker, history
<1>8. CASE UNCHANGED vars
  BY <1>8 DEF vars, TypeInv, TypeOK, InRange, Active, dictionary, worker, history
<1>9. CASE RequestStart \/ RefuseStart
  <2>1. starting' \in 0 .. MaxStarts - starts
    BY <1>9, BoundsAssumption DEF RequestStart, RefuseStart, TypeInv, TypeOK
  <2> QED
    BY <1>9, <2>1 DEF RequestStart, RefuseStart, TypeInv, TypeOK, InRange, Active,
                      dictionary, worker, history
<1> QED
  BY <1>1, <1>2, <1>3, <1>4, <1>5, <1>6, <1>7, <1>8, <1>9 DEF Next

LEMMA InitType == ASSUME Init PROVE TypeInv
<1>1. (CHOOSE o \in OptionSet : TRUE) \in Options
  BY BoundsAssumption
<1>2. /\ Order[1] \in Nodes /\ 1 \in 1 .. Len(Order) + 1
      /\ 0 \in 0 .. MaxStarts /\ 0 \in 0 .. MaxStarts - 0
  BY OrderType, BoundsAssumption
<1> QED
  BY <1>1, <1>2 DEF Init, TypeInv, TypeOK, InRange, Active, Points, Statuses

LEMMA TypeCorrect == Spec => []TypeInv
BY InitType, StepType, PTL DEF Spec

\* The state of a rolling update is of its types in every reachable state, however
\* often it is started, paused, cancelled and resumed.
THEOREM Typing == Spec => []TypeOK
<1>1. TypeInv => TypeOK
  BY DEF TypeInv
<1> QED
  BY <1>1, TypeCorrect, PTL

-----------------------------------------------------------------------------
(* One rolling update after another *)

\* The worker is between entering a node's maintenance and the node's end.
Busy == {"evacuating", "pausedEvacuation", "update", "updating", "rebooting", "pausedReboot"}

Alone == \A v, w \in Workers : Active(v) /\ Active(w) => v = w

\* A cancellation is remembered until the operator goes on, and the current node
\* does not change before.
Cancelled ==
  /\ status = "cancelled" => stopped
  /\ stopped => current \in cancelledAt /\ status # "running"

\* Whatever is out is known to the operator, or is the node at work.
OutKnown == Out \subseteq acked \cup {current}

\* Whatever is in maintenance has a worker that ends it, or was cancelled.
InHand ==
  \A n \in Nodes : maintenance[n] # "out" =>
    n \in cancelledAt \/ \E w \in Workers : pc[w] \in Busy /\ n = Node(w)

AtWork(w) ==
  /\ pc[w] # "next" => current = Node(w)
  /\ status # "completed"
  /\ status = "none" => stopped

\* Before a worker takes its next node every node is in service or known to be
\* out; the one it leaves is back.
Known(w) ==
  /\ pc[w] \in {"next", "checking", "pausedFailure"} /\ status = "running" =>
       Out \subseteq acked
  /\ pc[w] # "pausedFailure" => failed \subseteq acked
  /\ pc[w] \in {"rebooting", "pausedReboot"} => update[Node(w)] # "running"

Ind ==
  /\ TypeInv /\ Alone /\ Cancelled /\ OutKnown /\ InHand
  /\ \A w \in Workers : Active(w) => AtWork(w) /\ Known(w)

\* While w is the only worker, what is out is its node or a matter of record.
LEMMA OutAlone ==
  ASSUME TypeInv, NEW w \in Workers,
         \A v \in Workers : v # w => pc[v] \notin {"rebooting", "pausedReboot"}
  PROVE  Out = {n \in Nodes : maintenance[n] # "out" \/ update[n] = "running"} \cup failed
                 \cup (IF pc[w] \in {"rebooting", "pausedReboot"} THEN {Node(w)} ELSE {})
BY DEF Out, Node

\* What is left to show of a step of the only worker.
LEMMA WorkerInd ==
  ASSUME Ind, TypeInv', NEW w \in Workers, Active(w), OthersAlone(w),
         Cancelled', OutKnown',
         \A n \in Nodes : maintenance'[n] # "out" =>
           n \in cancelledAt' \/ (pc'[w] \in Busy /\ n = Order[index'[w]]),
         Active(w)' => AtWork(w)' /\ Known(w)'
  PROVE  Ind'
<1>1. \A v \in Workers : v # w => ~Active(v) /\ ~Active(v)'
  BY DEF Ind, Alone, OthersAlone, Active
<1>2. Alone'
  BY <1>1 DEF Alone
<1>3. InHand'
  BY DEF InHand, Node
<1> QED
  BY <1>1, <1>2, <1>3 DEF Ind

\* Out before and after a step of the only worker.
LEMMA OutStep ==
  ASSUME Ind, TypeInv', NEW w \in Workers, Active(w), OthersAlone(w)
  PROVE  /\ Out = {n \in Nodes : maintenance[n] # "out" \/ update[n] = "running"} \cup failed
                 \cup (IF pc[w] \in {"rebooting", "pausedReboot"} THEN {Node(w)} ELSE {})
         /\ Out' = {n \in Nodes : maintenance'[n] # "out" \/ update'[n] = "running"} \cup failed'
                 \cup (IF pc'[w] \in {"rebooting", "pausedReboot"} THEN {Node(w)'} ELSE {})
<1>1. \A v \in Workers : v # w => ~Active(v) /\ ~Active(v)'
  BY DEF Ind, Alone, OthersAlone, Active
<1>2. \A v \in Workers : v # w =>
        /\ pc[v] \notin {"rebooting", "pausedReboot"}
        /\ pc'[v] \notin {"rebooting", "pausedReboot"}
  BY <1>1 DEF Active
<1>3. TypeInv
  BY DEF Ind
<1> QED
  BY <1>2, <1>3, OutAlone DEF Out, Node

LEMMA FinishInd ==
  ASSUME Ind, TypeInv', NEW w \in Workers, Active(w), Finish(w),
         UNCHANGED <<update, Elsewhere>>, pc[w] \in Busy => stopped
  PROVE  Ind'
<1>1. TypeInv /\ pc'[w] = "done" /\ OthersAlone(w)
  BY EndType DEF Finish, Ind
<1>2. Out' \subseteq Out
  BY <1>1, OutStep DEF Finish
<1>3. Cancelled' /\ OutKnown'
  BY <1>2 DEF Ind, Cancelled, OutKnown, Finish, Elsewhere
<1>4. \A n \in Nodes : maintenance'[n] # "out" => n \in cancelledAt'
  <2>1. \A v \in Workers : pc[v] \in Busy => v = w
    BY DEF Ind, Alone, Active, Busy
  <2>2. pc[w] \in Busy => Node(w) \in cancelledAt
    BY DEF Ind, AtWork, Cancelled, Busy, Active
  <2> QED
    BY <2>1, <2>2 DEF Ind, InHand, Finish, Elsewhere
<1>5. ~Active(w)'
  BY <1>1 DEF Active
<1> QED
  BY <1>1, <1>3, <1>4, <1>5, WorkerInd

LEMMA FailInd ==
  ASSUME Ind, TypeInv', NEW w \in Workers, Active(w), pc[w] # "next", Fail(w),
         UNCHANGED <<update, Elsewhere>>
  PROVE  Ind'
<1>1. TypeInv /\ pc'[w] = "pausedFailure" /\ OthersAlone(w) /\ Node(w)' = Node(w)
  BY GoToType DEF Fail, Ind, Points, OthersAlone, Node
<1>2. current = Node(w) /\ Node(w) \in Nodes
  BY NodeType DEF Ind, AtWork
<1>3. maintenance'[Node(w)] = "out" /\ \A m \in Nodes : maintenance'[m] \in {maintenance[m], "out"}
  BY <1>1, <1>2, ExitType DEF Fail
<1>4. OutKnown'
  BY <1>1, <1>2, <1>3, OutStep DEF Ind, OutKnown, Fail, Elsewhere
<1>5. Cancelled'
  BY DEF Ind, Cancelled, Fail, Elsewhere
<1>6. \A n \in Nodes : maintenance'[n] # "out" => n \in cancelledAt'
  <2>1. \A v \in Workers : pc[v] \in Busy => v = w
    BY DEF Ind, Alone, Active, Busy
  <2> QED
    BY <1>3, <2>1 DEF Ind, InHand, Fail, Elsewhere
<1>7. AtWork(w)' /\ Known(w)'
  BY <1>1, <1>2 DEF AtWork, Known, Fail
<1> QED
  BY <1>1, <1>4, <1>5, <1>6, <1>7, WorkerInd

LEMMA LeaveInd ==
  ASSUME Ind, TypeInv', NEW w \in Workers, Leave(w), UNCHANGED <<update, Elsewhere>>,
         pc[w] \in Busy, status # "none", update[Node(w)] # "running"
  PROVE  Ind'
<1>1. TypeInv /\ Active(w) /\ pc[w] # "next" /\ current = Node(w) /\ Node(w) \in Nodes
  BY NodeType DEF Ind, AtWork, Busy, Active
<1>2. CASE status = "cancelled"
  BY <1>1, <1>2, FinishInd DEF Leave, Ind, Cancelled
<1>3. CASE status # "cancelled"
  <2>1. pc'[w] = "next" /\ OthersAlone(w)
    BY <1>1, <1>3, NextType DEF Leave
  <2>2. maintenance'[Node(w)] = "out" /\ \A m \in Nodes : maintenance'[m] \in {maintenance[m], "out"}
    BY <1>1, <1>3, ExitType DEF Leave
  <2>3. failed \subseteq acked
    BY <1>1 DEF Ind, Known, Busy
  <2>4. Out' \subseteq acked'
    BY <1>1, <1>3, <2>1, <2>2, <2>3, OutStep DEF Ind, OutKnown, Leave, Elsewhere, dictionary
  <2>5. Cancelled' /\ OutKnown'
    BY <1>3, <2>4 DEF Ind, Cancelled, OutKnown, Leave, Elsewhere, dictionary
  <2>6. \A n \in Nodes : maintenance'[n] # "out" => n \in cancelledAt'
    <3>1. \A v \in Workers : pc[v] \in Busy => v = w
      BY DEF Ind, Alone, Active, Busy
    <3> QED
      BY <1>3, <2>2, <3>1 DEF Ind, InHand, Leave, Elsewhere
  <2>7. AtWork(w)' /\ Known(w)'
    BY <1>1, <1>3, <2>1, <2>3, <2>4 DEF Ind, AtWork, Known, Leave, Elsewhere, dictionary
  <2> QED
    BY <1>1, <2>1, <2>5, <2>6, <2>7, WorkerInd
<1> QED
  BY <1>2, <1>3

\* From one point of a node's update to another, or to a pause.
LEMMA BusyInd ==
  ASSUME Ind, TypeInv', NEW w \in Workers, pc[w] \in Busy,
         NEW p \in Busy, GoTo(w, p),
         UNCHANGED <<current, failed, index, maintenance, acked, Elsewhere>>,
         status' = status \/ status' = "paused",
         \A n \in Nodes : n # Node(w) => update'[n] = update[n],
         p \in {"rebooting", "pausedReboot"} => update'[Node(w)] # "running"
  PROVE  Ind'
<1>1. TypeInv /\ Active(w) /\ pc[w] # "next" /\ current = Node(w) /\ Node(w)' = Node(w)
  BY DEF Ind, AtWork, Busy, Active, Node
<1>2. pc'[w] = p /\ OthersAlone(w)
  BY <1>1, GoToType DEF Busy, Points, OthersAlone
<1>3. Cancelled'
  BY DEF Ind, Cancelled, Elsewhere
<1>4. OutKnown'
  BY <1>1, <1>2, OutStep DEF Ind, OutKnown
<1>5. \A n \in Nodes : maintenance'[n] # "out" =>
        n \in cancelledAt' \/ (pc'[w] \in Busy /\ n = Order[index'[w]])
  <2>1. \A v \in Workers : pc[v] \in Busy => v = w
    BY DEF Ind, Alone, Active, Busy
  <2> QED
    BY <1>2, <2>1 DEF Ind, InHand, Elsewhere, Node
<1>6. AtWork(w)'
  BY <1>1 DEF Ind, AtWork, Elsewhere
<1>7. Known(w)'
  BY <1>1, <1>2 DEF Ind, Known, Busy
<1> QED
  BY <1>1, <1>2, <1>3, <1>4, <1>5, <1>6, <1>7, WorkerInd

\* A worker that is not in a node's update goes to the next node, or begins with one.
LEMMA IdleInd ==
  ASSUME Ind, TypeInv', NEW w \in Workers, Active(w), pc[w] \notin Busy,
         OthersAlone(w), pc'[w] \in {"next", "checking"},
         UNCHANGED <<status, failed, maintenance, acked, update, Elsewhere>>,
         \/ status = "running"
         \/ pc[w] = "checking" /\ pc'[w] = "next" /\ current' = current,
         pc'[w] = "checking" => current' = Node(w)'
  PROVE  Ind'
<1>1. /\ status = "running" => Out \subseteq acked
      /\ failed \subseteq acked /\ TypeInv
  BY DEF Ind, Known, Active, Busy, Points, TypeInv, TypeOK, Out
<1>2. Out' = Out
  BY OutStep DEF Active, Busy
<1>3. Cancelled' /\ OutKnown'
  BY <1>1, <1>2 DEF Ind, Cancelled, OutKnown, Elsewhere
<1>4. \A n \in Nodes : maintenance'[n] # "out" => n \in cancelledAt'
  <2>1. \A v \in Workers : pc[v] \notin Busy
    BY DEF Ind, Alone, Active, Busy
  <2> QED
    BY <2>1 DEF Ind, InHand, Elsewhere
<1>5. AtWork(w)' /\ Known(w)'
  BY <1>1, <1>2 DEF Ind, AtWork, Known, Elsewhere
<1> QED
  BY <1>3, <1>4, <1>5, WorkerInd

LEMMA EnterInd ==
  ASSUME Ind, TypeInv', NEW w \in Workers, EnterMaintenance(w)
  PROVE  Ind'
<1> DEFINE p == IF opt[w].evacuate THEN "evacuating" ELSE "update"
<1>1. TypeInv /\ Active(w) /\ current = Node(w) /\ Node(w) \in Nodes /\ Node(w)' = Node(w)
  BY NodeType DEF EnterMaintenance, At, Ind, AtWork, Active, Node
<1>2. pc'[w] = p /\ p \in Busy /\ OthersAlone(w)
  BY <1>1, GoToType DEF EnterMaintenance, Busy, Points, OthersAlone
<1>3. \A n \in Nodes : n # Node(w) => maintenance'[n] = maintenance[n]
  BY <1>1 DEF EnterMaintenance, TypeInv, TypeOK
<1>4. Out' \subseteq Out \cup {current}
  BY <1>1, <1>2, <1>3, OutStep DEF EnterMaintenance, At, dictionary
<1>5. Cancelled' /\ OutKnown'
  BY <1>4 DEF Ind, Cancelled, OutKnown, EnterMaintenance, Elsewhere, dictionary
<1>6. \A n \in Nodes : maintenance'[n] # "out" =>
        n \in cancelledAt' \/ (pc'[w] \in Busy /\ n = Order[index'[w]])
  <2>1. \A v \in Workers : pc[v] \notin Busy
    BY <1>1 DEF Ind, Alone, EnterMaintenance, At, Active, Busy
  <2> QED
    BY <1>1, <1>2, <1>3, <2>1 DEF Ind, InHand, EnterMaintenance, Elsewhere, Node
<1>7. AtWork(w)' /\ Known(w)'
  BY <1>1, <1>2 DEF Ind, AtWork, Known, EnterMaintenance, At, Elsewhere, dictionary
<1> QED
  BY <1>1, <1>2, <1>5, <1>6, <1>7, WorkerInd

LEMMA WorkerStepInd ==
  ASSUME Ind, TypeInv', NEW w \in Workers, WorkerStep(w)
  PROVE  Ind'
<1>0. TypeInv
  BY DEF Ind
<1>1. CASE NextNode(w)
  <2>1. Active(w) /\ pc[w] \notin Busy
    BY <1>1 DEF NextNode, At, Active, Busy
  <2>2. CASE index[w] > Len(Order) \/ status # "running"
    BY <1>1, <2>1, <2>2, FinishInd DEF NextNode
  <2>3. CASE ~(index[w] > Len(Order) \/ status # "running")
    <3>1. pc'[w] = "checking" /\ OthersAlone(w) /\ Node(w)' = Node(w)
      BY <1>0, <1>1, <2>3, GoToType DEF NextNode, Points, OthersAlone, Node
    <3> QED
      BY <1>1, <2>1, <2>3, <3>1, IdleInd DEF NextNode
  <2> QED
    BY <2>2, <2>3
<1>2. CASE Skip(w)
  <2>1. Active(w) /\ pc[w] \notin Busy /\ pc[w] = "checking"
    BY <1>2 DEF Skip, At, Active, Busy
  <2>2. pc'[w] = "next" /\ OthersAlone(w)
    BY <1>0, <1>2, <2>1, NextType DEF Skip
  <2> QED
    BY <1>2, <2>1, <2>2, IdleInd DEF Skip, dictionary
<1>3. CASE EnterMaintenance(w)
  BY <1>3, EnterInd
<1>4. CASE Evacuated(w)
  <2>1. Active(w) /\ pc[w] # "next" /\ pc[w] \in Busy
    BY <1>4 DEF Evacuated, At, Active, Busy
  <2>2. CASE status = "cancelled" /\ Finish(w)
    BY <1>4, <2>1, <2>2, FinishInd DEF Evacuated, Ind, Cancelled
  <2>3. CASE Fail(w)
    BY <1>4, <2>1, <2>3, FailInd DEF Evacuated
  <2>4. CASE On(w, "update")
    BY <1>4, <2>1, <2>4, BusyInd DEF Evacuated, On, Busy, dictionary
  <2>5. CASE Pause(w, "pausedEvacuation")
    BY <1>4, <2>1, <2>5, BusyInd DEF Evacuated, Pause, Busy
  <2> QED
    BY <1>4, <2>2, <2>3, <2>4, <2>5 DEF Evacuated
<1>5. CASE StartNodeUpdate(w)
  <2>1. Active(w) /\ pc[w] # "next" /\ pc[w] \in Busy
    BY <1>5 DEF StartNodeUpdate, At, Active, Busy
  <2>2. CASE maintenance[Node(w)] \in {"completed", "errors"}
    <3>1. \A n \in Nodes : n # Node(w) => update'[n] = update[n]
      BY <1>0, <1>5, <2>2 DEF StartNodeUpdate, TypeInv, TypeOK
    <3> QED
      BY <1>5, <2>1, <2>2, <3>1, BusyInd DEF StartNodeUpdate, On, Busy, dictionary
  <2>3. CASE maintenance[Node(w)] \notin {"completed", "errors"}
    BY <1>5, <2>1, <2>3, FailInd DEF StartNodeUpdate
  <2> QED
    BY <2>2, <2>3
<1>6. CASE Updated(w)
  <2>1. Active(w) /\ pc[w] # "next" /\ pc[w] \in Busy /\ status # "none"
    BY <1>6 DEF Updated, At, Active, Busy
  <2>2. CASE Fail(w)
    BY <1>6, <2>1, <2>2, FailInd DEF Updated
  <2>3. CASE update[Node(w)] = "completed" /\ On(w, "rebooting")
    BY <1>6, <2>1, <2>3, BusyInd DEF Updated, On, Busy, dictionary
  <2>4. CASE update[Node(w)] = "completed" /\ Leave(w)
    BY <1>6, <2>1, <2>4, LeaveInd DEF Updated
  <2> QED
    BY <1>6, <2>2, <2>3, <2>4 DEF Updated
<1>7. CASE Rebooted(w)
  <2>1. /\ Active(w) /\ pc[w] \in Busy /\ status # "none"
        /\ update[Node(w)] # "running"
    BY <1>7 DEF Rebooted, At, Active, Busy, Ind, Known
  <2>2. CASE Leave(w)
    BY <1>7, <2>1, <2>2, LeaveInd DEF Rebooted
  <2>3. CASE Pause(w, "pausedReboot")
    BY <1>7, <2>1, <2>3, BusyInd DEF Rebooted, Pause, Busy
  <2> QED
    BY <1>7, <2>2, <2>3 DEF Rebooted
<1>8. CASE GoOn(w)
  <2>1. Active(w) /\ status # "paused" /\ UNCHANGED <<update, Elsewhere>>
    BY <1>8 DEF GoOn, At, Active
  <2>2. CASE At(w, "pausedEvacuation") /\ status = "cancelled" /\ Finish(w)
    BY <2>1, <2>2, FinishInd DEF Ind, Cancelled
  <2>3. CASE At(w, "pausedEvacuation") /\ On(w, IF status = "running" THEN "update" ELSE "evacuating")
    BY <2>1, <2>3, BusyInd DEF At, On, Busy, dictionary
  <2>4. CASE At(w, "pausedReboot") /\ Leave(w)
    <3>1. pc[w] \in Busy /\ status # "none" /\ update[Node(w)] # "running"
      BY <2>1, <2>4 DEF At, Busy, Ind, Known
    <3> QED
      BY <2>1, <2>4, <3>1, LeaveInd
  <2>5. CASE At(w, "pausedFailure") /\ Finish(w)
    BY <2>1, <2>5, FinishInd DEF At, Busy
  <2>6. CASE /\ At(w, "pausedFailure") /\ status # "cancelled"
             /\ GoTo(w, "next") /\ index' = [index EXCEPT ![w] = @ + 1]
             /\ UNCHANGED <<dictionary, maintenance, acked>>
    <3>1. status = "running"
      BY <1>0, <2>1, <2>6 DEF At, Ind, AtWork, TypeInv, TypeOK, Statuses
    <3>2. pc'[w] = "next" /\ OthersAlone(w) /\ pc[w] \notin Busy
      BY <1>0, <2>1, <2>6, NextType DEF At, Busy
    <3> QED
      BY <2>1, <2>6, <3>1, <3>2, IdleInd DEF dictionary
  <2> QED
    BY <1>8, <2>2, <2>3, <2>4, <2>5, <2>6 DEF GoOn
<1>9. CASE Die(w)
  <2>1. Active(w) /\ pc'[w] = "done" /\ OthersAlone(w)
    BY <1>0, <1>9, EndType DEF Die, Active
  <2>2. Out' \subseteq Out
    BY <1>9, <2>1, OutStep DEF Die, dictionary
  <2>3. Cancelled' /\ OutKnown'
    BY <1>9, <2>2 DEF Ind, Cancelled, OutKnown, Die, dictionary, history
  <2>4. \A n \in Nodes : maintenance'[n] # "out" => n \in cancelledAt'
    <3>1. \A v \in Workers : pc[v] \in Busy => v = w
      BY <2>1 DEF Ind, Alone, Active, Busy
    <3>2. pc[w] \in Busy => Node(w) \in cancelledAt
      BY <1>9, <2>1 DEF Ind, AtWork, Cancelled, Die, Busy
    <3> QED
      BY <1>9, <3>1, <3>2 DEF Ind, InHand, Die, history
  <2>5. ~Active(w)'
    BY <2>1 DEF Active
  <2> QED
    BY <2>1, <2>3, <2>4, <2>5, WorkerInd
<1> QED
  BY <1>1, <1>2, <1>3, <1>4, <1>5, <1>6, <1>7, <1>8, <1>9 DEF WorkerStep

\* A step that moves no worker and takes no node out of service.
LEMMA AsideInd ==
  ASSUME Ind, TypeInv', UNCHANGED <<current, failed, worker, acked>>,
         \A n \in Nodes : /\ maintenance'[n] # "out" => maintenance[n] # "out"
                          /\ update'[n] = "running" => update[n] = "running",
         cancelledAt \subseteq cancelledAt',
         \/ UNCHANGED <<status, stopped>>
         \/ stopped' /\ status' = "cancelled" /\ current \in cancelledAt'
         \/ status = "cancelled" /\ status' = "none" /\ UNCHANGED stopped
         \/ status' = "none" /\ (\A w \in Workers : ~Active(w)) /\ UNCHANGED stopped
  PROVE  Ind'
<1> USE DEF worker
<1>1. \A w \in Workers : Node(w)' = Node(w) /\ (Active(w)' <=> Active(w))
  BY DEF Node, Active
<1>2. Out' \subseteq Out
  BY DEF Out
<1>3. Alone' /\ OutKnown'
  BY <1>1, <1>2 DEF Ind, Alone, OutKnown
<1>4. Cancelled'
  BY DEF Ind, Cancelled
<1>5. InHand'
  BY <1>1 DEF Ind, InHand
<1>6. ASSUME NEW w \in Workers, Active(w)' PROVE AtWork(w)' /\ Known(w)'
  <2>1. Active(w) /\ AtWork(w) /\ Known(w) /\ Node(w)' = Node(w)
    BY <1>1, <1>6 DEF Ind
  <2>2. AtWork(w)'
    BY <2>1 DEF Ind, Cancelled, AtWork
  <2>3. Known(w)'
    <3>1. pc[w] \in {"rebooting", "pausedReboot"} => Node(w) \in Nodes
      BY <2>1, NodeType DEF Ind
    <3> QED
      BY <1>2, <2>1, <3>1 DEF Known
  <2> QED
    BY <2>2, <2>3
<1> QED
  BY <1>3, <1>4, <1>5, <1>6 DEF Ind

LEMMA StartInd ==
  ASSUME ~Overlaps, Ind, TypeInv', StartRollingUpdate
  PROVE  Ind'
<1> DEFINE w == starts + 1
<1>1. w \in Workers /\ TypeInv
  BY BoundsAssumption DEF StartRollingUpdate, Ind, TypeInv, TypeOK, Workers
<1>2. /\ \A v \in Workers : pc[v] \in {"idle", "done"}
      /\ pc'[w] = "next" /\ \A v \in Workers : v # w => pc'[v] = pc[v]
  BY <1>1 DEF StartRollingUpdate, TypeInv, TypeOK
<1> HIDE DEF w
<1>3. Out' \subseteq Out /\ acked' = Out
  BY <1>1, <1>2 DEF StartRollingUpdate, Out
<1>4. Alone' /\ OutKnown'
  BY <1>2, <1>3 DEF Alone, Active, OutKnown
<1>5. Cancelled'
  BY DEF Cancelled, StartRollingUpdate
<1>6. InHand'
  BY <1>2 DEF Ind, InHand, Busy, StartRollingUpdate
<1>7. ASSUME NEW v \in Workers, Active(v)' PROVE AtWork(v)' /\ Known(v)'
  <2>1. pc'[v] = "next" /\ status' = "running" /\ failed' = {}
    BY <1>2, <1>7 DEF Active, StartRollingUpdate
  <2> QED
    BY <1>3, <2>1 DEF AtWork, Known
<1> QED
  BY <1>4, <1>5, <1>6, <1>7 DEF Ind

LEMMA ResumeInd ==
  ASSUME Ind, TypeInv', ResumeRollingUpdate
  PROVE  Ind'
<1> USE DEF ResumeRollingUpdate, worker
<1>1. Out' = Out /\ acked' = Out /\ failed \subseteq Out
  BY DEF Out
<1>2. \A w \in Workers : Node(w)' = Node(w) /\ (Active(w)' <=> Active(w))
  BY DEF Node, Active
<1>3. Alone' /\ OutKnown' /\ Cancelled' /\ InHand'
  BY <1>1, <1>2 DEF Ind, Alone, OutKnown, Cancelled, InHand
<1>4. ASSUME NEW w \in Workers, Active(w)' PROVE AtWork(w)' /\ Known(w)'
  BY <1>1, <1>2, <1>4 DEF Ind, AtWork, Known
<1> QED
  BY <1>3, <1>4 DEF Ind

LEMMA StepInd == ASSUME ~Overlaps, Ind, [Next]_vars PROVE Ind'
<1>0. TypeInv /\ TypeInv'
  BY StepType DEF Ind
<1>1. CASE \E w \in Workers : WorkerStep(w)
  BY <1>0, <1>1, WorkerStepInd
<1>2. CASE \E n \in Nodes : EvacuationEnds(n) \/ UpdateEnds(n) \/ ClearUpdate(n)
  <2> PICK n \in Nodes : EvacuationEnds(n) \/ UpdateEnds(n) \/ ClearUpdate(n)
    BY <1>2
  <2>1. CASE EvacuationEnds(n)
    BY <1>0, <2>1, AsideInd DEF EvacuationEnds, TypeInv, TypeOK, dictionary, history
  <2>2. CASE UpdateEnds(n)
    BY <1>0, <2>2, ExitType, AsideInd DEF UpdateEnds, TypeInv, TypeOK, dictionary, history
  <2>3. CASE ClearUpdate(n)
    BY <1>0, <2>3, AsideInd DEF ClearUpdate, TypeInv, TypeOK, dictionary, history
  <2> QED
    BY <2>1, <2>2, <2>3
<1>3. CASE StartRollingUpdate
  BY <1>0, <1>3, StartInd
<1>4. CASE CancelRollingUpdate
  <2>1. \A n \in Nodes : maintenance'[n] # "out" => maintenance[n] # "out"
    BY <1>0, <1>4, ExitType DEF CancelRollingUpdate, TypeInv, TypeOK
  <2> QED
    BY <1>0, <1>4, <2>1, AsideInd DEF CancelRollingUpdate
<1>5. CASE ResumeRollingUpdate
  BY <1>0, <1>5, ResumeInd
\* a rolling update that is dropped has ended, or was cancelled
<1>6. status = "completed" => \A w \in Workers : ~Active(w)
  BY DEF Ind, AtWork
<1>7. CASE GetRollingStatus
  BY <1>0, <1>6, <1>7, AsideInd DEF GetRollingStatus, history
<1>8. CASE Dismiss
  BY <1>0, <1>6, <1>8, AsideInd DEF Dismiss, history
<1>9. CASE UNCHANGED vars
  BY <1>0, <1>9, AsideInd DEF vars, dictionary, history
<1>10. CASE RequestStart \/ RefuseStart
  BY <1>0, <1>10, AsideInd DEF RequestStart, RefuseStart, dictionary, history
<1> QED
  BY <1>1, <1>2, <1>3, <1>4, <1>5, <1>7, <1>8, <1>9, <1>10 DEF Next

LEMMA InitInd == ASSUME Init PROVE Ind
BY InitType DEF Init, Ind, Alone, Cancelled, OutKnown, InHand, Active, Out

LEMMA IndHolds == ASSUME ~Overlaps PROVE Spec => []Ind
<1>1. Init => Ind
  BY InitInd
<1>2. Ind /\ [Next]_vars => Ind'
  BY StepInd
<1> QED
  BY <1>1, <1>2, PTL DEF Spec

\* Where a rolling update is not started while the last one's worker lives, no
\* second node is taken out of service behind an operator's back, in a cluster of
\* any size: a worker goes on only from a node that is back, or after a resume.
THEOREM OneNodeAtATime == ASSUME ~Overlaps PROVE Spec => []OneNodeOut
<1>1. Ind => OneNodeOut
  <2> SUFFICES ASSUME Ind PROVE OneNodeOut
    OBVIOUS
  <2>1. Out \ acked \subseteq {current}
    BY DEF Ind, OutKnown
  <2>2. IsFiniteSet({current}) /\ Cardinality({current}) = 1
    BY FS_Singleton
  <2>3. Cardinality(Out \ acked) <= Cardinality({current})
    BY <2>1, <2>2, FS_Subset
  <2> QED
    BY <2>2, <2>3 DEF OneNodeOut
<1> QED
  BY <1>1, IndHolds, PTL

\* The same rolling updates leave no node in maintenance behind, but for the one
\* at which they were cancelled.
THEOREM NothingForgotten == ASSUME ~Overlaps PROVE Spec => []NoneLeftBehind
<1>1. Ind => NoneLeftBehind
  BY DEF Ind, InHand, NoneLeftBehind, Busy
<1> QED
  BY <1>1, IndHolds, PTL

\* And a cancelled one takes no other node than its current one out of service,
\* until an operator goes on.
THEOREM CancelHolds == ASSUME ~Overlaps PROVE Spec => CancelStops
<1> DEFINE P == \A n \in Nodes :
      stopped /\ maintenance[n] = "out" /\ maintenance'[n] # "out" => n \in cancelledAt
<1>1. Ind /\ [Next]_vars => P
  <2> SUFFICES ASSUME Ind, [Next]_vars, NEW n \in Nodes,
                      stopped, maintenance[n] = "out", maintenance'[n] # "out"
               PROVE  n \in cancelledAt
    OBVIOUS
  <2>1. \E w \in Workers : EnterMaintenance(w)
    <3>1. maintenance \in [Nodes -> {"out", "evacuating", "completed", "errors", "failed"}]
      BY DEF Ind, TypeInv, TypeOK
    <3>2. maintenance' # maintenance /\ ~\E m : Exit(m)
      BY <3>1 DEF Exit
    <3>3. ~\E m \in Nodes : EvacuationEnds(m) \/ UpdateEnds(m) \/ ClearUpdate(m)
      BY <3>1, <3>2 DEF EvacuationEnds, UpdateEnds, ClearUpdate
    <3>4. ~\E w \in Workers : Finish(w) \/ Fail(w) \/ Leave(w) \/ \E p : Pause(w, p) \/ On(w, p)
      BY <3>2 DEF Finish, Fail, Leave, Pause, On
    <3>5. \A w \in Workers : WorkerStep(w) => EnterMaintenance(w)
      BY <3>2, <3>4 DEF WorkerStep, NextNode, Skip, Evacuated, StartNodeUpdate, Updated,
                        Rebooted, GoOn, Die
    <3> QED
      BY <3>2, <3>3, <3>5 DEF Next, vars, RequestStart, RefuseStart, StartRollingUpdate,
                              CancelRollingUpdate,
                              ResumeRollingUpdate, GetRollingStatus, Dismiss
  <2> PICK w \in Workers : EnterMaintenance(w)
    BY <2>1
  <2>2. n = Node(w)
    BY DEF EnterMaintenance, Ind, TypeInv, TypeOK
  <2>3. current = Node(w)
    BY DEF EnterMaintenance, At, Ind, AtWork, Active
  <2> QED
    BY <2>2, <2>3 DEF Ind, Cancelled
<1>2. P => [P]_vars
  OBVIOUS
<1> HIDE DEF P
<1>3. [][P]_vars <=> CancelStops
  BY DEF P, CancelStops
<1> QED
  BY <1>1, <1>2, <1>3, IndHolds, PTL DEF Spec
-----------------------------------------------------------------------------
(* The abstract rollout *)

\* A worker that is about to go on has just dealt with the current node, or is to
\* begin with the first of the list.
InTurn ==
  \A w \in Workers :
    /\ ~Active(w) => index[w] = 1
    /\ pc[w] = "next" =>
         \/ index[w] = 1 /\ current = Order[1]
         \/ index[w] > 1 /\ current = Order[index[w] - 1]

\* A worker ends, leaves a node for the next, or goes to a point of a node's update.
Ends(w) == pc'[w] = "done" /\ index'[w] = 1
Leaves(w) ==
  pc[w] # "next" /\ pc'[w] = "next" /\ index'[w] = index[w] + 1 /\ current' = current
Stays(w) == pc'[w] \notin {"idle", "next", "done"}

LEMMA EndMoves ==
  ASSUME TypeInv, NEW w \in Workers, End(w)
  PROVE  OthersAlone(w) /\ Ends(w)
BY EndType DEF End, Ends, TypeInv, TypeOK

LEMMA LeaveMoves ==
  ASSUME TypeInv, NEW w \in Workers, Active(w), pc[w] # "next", current' = current,
         GoTo(w, "next"), index' = [index EXCEPT ![w] = @ + 1]
  PROVE  OthersAlone(w) /\ Leaves(w)
BY NextType DEF Leaves, TypeInv, TypeOK

LEMMA StayMoves ==
  ASSUME TypeInv, NEW w \in Workers, NEW p \in Points \ {"idle", "next", "done"},
         GoTo(w, p), UNCHANGED index
  PROVE  OthersAlone(w) /\ Stays(w)
BY GoToType DEF Stays, OthersAlone

LEMMA WorkerMoves ==
  ASSUME TypeInv, NEW w \in Workers, WorkerStep(w)
  PROVE  Active(w) /\ OthersAlone(w) /\ (Ends(w) \/ Leaves(w) \/ Stays(w))
<1> USE DEF Points
<1>1. Active(w)
  BY DEF WorkerStep, NextNode, Skip, EnterMaintenance, Evacuated, StartNodeUpdate, Updated,
     Rebooted, GoOn, Die, At, Active
<1>2. CASE Finish(w) \/ Die(w)
  BY <1>1, <1>2, EndMoves DEF Finish, Die
<1>3. CASE Fail(w)
  BY <1>1, <1>3, StayMoves DEF Fail
<1>4. CASE pc[w] # "next" /\ Leave(w)
  BY <1>1, <1>2, <1>4, LeaveMoves DEF Leave, dictionary
<1>5. CASE \E p \in Points \ {"idle", "next", "done"} : Pause(w, p) \/ On(w, p)
  BY <1>1, <1>5, StayMoves DEF Pause, On
<1>6. CASE /\ pc[w] # "next" /\ current' = current
           /\ GoTo(w, "next") /\ index' = [index EXCEPT ![w] = @ + 1]
  BY <1>1, <1>6, LeaveMoves
<1>7. CASE EnterMaintenance(w)
  BY <1>1, <1>7, StayMoves DEF EnterMaintenance
<1>8. CASE NextNode(w)
  BY <1>1, <1>2, <1>8, StayMoves DEF NextNode
<1>9. CASE Skip(w)
  BY <1>6, <1>9 DEF Skip, At, dictionary
<1>10. CASE Evacuated(w)
  BY <1>2, <1>3, <1>5, <1>10 DEF Evacuated
<1>11. CASE StartNodeUpdate(w)
  BY <1>3, <1>5, <1>11 DEF StartNodeUpdate
<1>12. CASE Updated(w)
  BY <1>3, <1>4, <1>5, <1>12 DEF Updated, At
<1>13. CASE Rebooted(w)
  BY <1>4, <1>5, <1>13 DEF Rebooted, At
<1>14. CASE GoOn(w)
  <2>1. CASE On(w, IF status = "running" THEN "update" ELSE "evacuating")
    BY <1>5, <2>1
  <2> QED
    BY <1>2, <1>4, <1>6, <1>14, <2>1 DEF GoOn, At, dictionary
<1> QED
  BY <1>1, <1>2, <1>7, <1>8, <1>9, <1>10, <1>11, <1>12, <1>13, <1>14 DEF WorkerStep

LEMMA InTurnStep ==
  ASSUME ~Overlaps, Ind, InTurn, [Next]_vars
  PROVE  InTurn'
<1>0. TypeInv
  BY DEF Ind
<1>1. CASE \E w \in Workers : WorkerStep(w)
  <2> PICK w \in Workers : WorkerStep(w)
    BY <1>1
  <2>1. Active(w) /\ OthersAlone(w) /\ (Ends(w) \/ Leaves(w) \/ Stays(w))
    BY <1>0, WorkerMoves
  <2>2. ASSUME NEW v \in Workers, v # w
        PROVE  ~Active(v) /\ ~Active(v)' /\ pc'[v] # "next" /\ index'[v] = index[v]
    BY <2>1, <2>2 DEF Ind, Alone, OthersAlone, Active
  <2>3. Leaves(w) => index[w] \in 1 .. Len(Order) /\ current = Order[index[w]]
    BY <1>0, <2>1, NodeType DEF Leaves, Ind, AtWork, Node
  <2>4. index[w] \in Nat
    BY <1>0, OrderType DEF TypeInv, TypeOK
  <2>5. /\ ~Active(w)' => index'[w] = 1
        /\ pc'[w] = "next" => index'[w] > 1 /\ current' = Order[index'[w] - 1]
    BY <2>1, <2>3, <2>4, OrderType DEF Ends, Leaves, Stays, Active
  <2> QED
    BY <2>2, <2>5 DEF InTurn
<1>2. CASE StartRollingUpdate
  <2>1. starts + 1 \in Workers
    BY <1>0, <1>2, BoundsAssumption DEF StartRollingUpdate, TypeInv, TypeOK, Workers
  <2>2. \A v \in Workers : ~Active(v) /\ index'[v] = 1 /\ (Active(v)' => pc'[v] = "next")
    BY <1>0, <1>2, <2>1 DEF StartRollingUpdate, InTurn, Active, TypeInv, TypeOK
  <2> QED
    BY <1>2, <2>2 DEF StartRollingUpdate, InTurn, Active
<1>3. ASSUME UNCHANGED <<current, pc, index>> PROVE InTurn'
  BY <1>3 DEF InTurn, Active
<1> QED
  BY <1>1, <1>2, <1>3 DEF Next, vars, dictionary, worker, EvacuationEnds, UpdateEnds,
     ClearUpdate, RequestStart, RefuseStart, CancelRollingUpdate, ResumeRollingUpdate,
     GetRollingStatus, Dismiss

LEMMA RollsReturn ==
  ASSUME Out' \subseteq Out, UNCHANGED <<current, acked>>
  PROVE  R!Next
BY DEF R!Next, R!Return

LEMMA RollsTake ==
  ASSUME Ind, Out' = Out \cup {current}, UNCHANGED current,
         acked' \in {acked, acked \ {current}}
  PROVE  R!Next
BY DEF R!Next, R!Take, Ind, OutKnown

LEMMA FinishRolls ==
  ASSUME Ind, TypeInv', NEW w \in Workers, Active(w), Finish(w), UNCHANGED update
  PROVE  R!Next
<1>1. OthersAlone(w) /\ Ends(w)
  BY EndMoves DEF Finish, Ind
<1>2. Out' \subseteq Out
  BY <1>1, OutStep DEF Finish, Ends
<1> QED
  BY <1>2, RollsReturn DEF Finish

LEMMA FailRolls ==
  ASSUME Ind, TypeInv', NEW w \in Workers, Active(w), pc[w] # "next", Fail(w),
         UNCHANGED update
  PROVE  R!Next
<1>1. pc'[w] = "pausedFailure" /\ OthersAlone(w)
  BY GoToType DEF Fail, Ind, Points, OthersAlone
<1>2. current = Node(w) /\ Node(w) \in Nodes
  BY NodeType DEF Ind, AtWork
<1>3. \A n \in Nodes : n # Node(w) => maintenance'[n] = maintenance[n]
  BY <1>2 DEF Fail, Exit, Ind, TypeInv, TypeOK
<1>4. maintenance'[Node(w)] = "out"
  BY <1>2, ExitType DEF Fail, Ind
<1>5. Out' = Out \cup {current}
  BY <1>1, <1>2, <1>3, <1>4, OutStep DEF Fail
<1> QED
  BY <1>2, <1>5, RollsTake DEF Fail

LEMMA LeaveRolls ==
  ASSUME Ind, TypeInv', NEW w \in Workers, Active(w), pc[w] # "next", Leave(w),
         UNCHANGED update
  PROVE  R!Next
<1>1. CASE status = "cancelled"
  BY <1>1, FinishRolls DEF Leave
<1>2. CASE status # "cancelled"
  <2>1. OthersAlone(w) /\ pc'[w] = "next"
    BY <1>2, NextType DEF Leave, Ind
  <2>2. \A n \in Nodes : maintenance'[n] \in {maintenance[n], "out"}
    BY <1>2, NodeType, ExitType DEF Leave, Ind
  <2>3. Out' \subseteq Out
    BY <1>2, <2>1, <2>2, OutStep DEF Leave, dictionary
  <2> QED
    BY <1>2, <2>3, RollsReturn DEF Leave, dictionary
<1> QED
  BY <1>1, <1>2

\* From one point of a node's update to another the node may go out again, to reboot.
LEMMA StayRolls ==
  ASSUME Ind, TypeInv', NEW w \in Workers, Active(w), pc[w] # "next",
         NEW p \in Points \ {"idle", "next", "done"}, GoTo(w, p),
         UNCHANGED <<current, failed, index, maintenance, acked>>,
         \A n \in Nodes : update'[n] = update[n] \/ maintenance[n] # "out"
  PROVE  R!Next
<1>1. OthersAlone(w) /\ pc'[w] = p /\ Node(w)' = Node(w)
  BY StayMoves, GoToType DEF Ind, Node
<1>2. current = Node(w) /\ Node(w) \in Nodes
  BY NodeType DEF Ind, AtWork
<1>3. CASE p \in {"rebooting", "pausedReboot"}
  <2>1. Out' = Out \cup {current}
    BY <1>1, <1>2, <1>3, OutStep
  <2> QED
    BY <2>1, RollsTake
<1>4. CASE p \notin {"rebooting", "pausedReboot"}
  <2>1. Out' \subseteq Out
    BY <1>1, <1>4, OutStep
  <2> QED
    BY <2>1, RollsReturn
<1> QED
  BY <1>3, <1>4

\* A worker that is between two nodes leaves what is out alone.
LEMMA BetweenRolls ==
  ASSUME Ind, TypeInv', NEW w \in Workers, Active(w), OthersAlone(w),
         pc[w] \notin Busy, pc'[w] \notin Busy,
         UNCHANGED <<failed, maintenance, acked, update>>
  PROVE  Out' = Out
BY OutStep DEF Busy

\* Every step of the one worker is a step of the rollout.
LEMMA WorkerRolls ==
  ASSUME Ind, TypeInv', InTurn, NEW w \in Workers, WorkerStep(w)
  PROVE  R!Next
<1>0. TypeInv /\ Active(w) /\ OthersAlone(w)
  BY WorkerMoves DEF Ind
<1>1. CASE NextNode(w)
  <2>1. UNCHANGED update
    BY <1>1 DEF NextNode
  <2>2. CASE Finish(w)
    BY <1>0, <2>1, <2>2, FinishRolls
  <2>3. CASE /\ status = "running" /\ index[w] <= Len(Order)
             /\ current' = Node(w) /\ GoTo(w, "checking")
             /\ UNCHANGED <<status, failed, index, maintenance, acked>>
    <3>1. pc[w] = "next" /\ pc'[w] = "checking"
      BY <1>0, <1>1, <2>3, GoToType DEF NextNode, At, Points
    <3>2. Out' = Out /\ Out \subseteq acked
      BY <1>0, <2>1, <2>3, <3>1, BetweenRolls DEF Busy, Ind, Known
    <3>3. index[w] \in 1 .. Len(Order) /\ Len(Order) \in Nat
      BY <1>0, <2>3, OrderType DEF TypeInv, TypeOK
    <3>4. CASE index[w] = 1 /\ current = Order[1]
      BY <2>3, <3>2, <3>4, RollsReturn DEF Node
    <3>5. CASE index[w] > 1 /\ current = Order[index[w] - 1]
      <4> DEFINE i == index[w] - 1
      <4>1. i \in 1 .. Len(Order) - 1 /\ current = Order[i] /\ current' = Order[i + 1]
        BY <2>3, <3>3, <3>5 DEF Node
      <4> QED
        BY <2>3, <3>2, <4>1 DEF R!Next, R!Advance
    <3> QED
      BY <3>1, <3>4, <3>5 DEF InTurn
  <2> QED
    BY <1>0, <1>1, <2>2, <2>3, OrderType DEF NextNode, TypeInv, TypeOK
<1>2. CASE Skip(w)
  <2>1. pc[w] \notin Busy /\ pc'[w] \notin Busy
    BY <1>0, <1>2, GoToType DEF Skip, At, Busy, Points
  <2>2. Out' = Out
    BY <1>0, <1>2, <2>1, BetweenRolls DEF Skip, dictionary
  <2> QED
    BY <1>2, <2>2, RollsReturn DEF Skip, dictionary
<1>3. CASE EnterMaintenance(w)
  <2>1. current = Node(w) /\ Node(w) \in Nodes /\ Node(w)' = Node(w)
    BY <1>0, <1>3, NodeType DEF EnterMaintenance, At, Ind, AtWork, Node
  <2>2. pc[w] = "checking" /\ pc'[w] \in {"evacuating", "update"}
    BY <1>0, <1>3, GoToType DEF EnterMaintenance, At, Points
  <2>3. /\ \A n \in Nodes : n # Node(w) => maintenance'[n] = maintenance[n]
        /\ maintenance'[Node(w)] # "out"
    BY <1>0, <1>3, <2>1 DEF EnterMaintenance, TypeInv, TypeOK
  <2>4. Out' = Out \cup {current}
    BY <1>0, <1>3, <2>1, <2>2, <2>3, OutStep DEF EnterMaintenance, dictionary
  <2> QED
    BY <1>3, <2>4, RollsTake DEF EnterMaintenance, dictionary
<1> USE DEF Points
<1>4. CASE Evacuated(w)
  <2>1. pc[w] = "evacuating" /\ UNCHANGED update
    BY <1>4 DEF Evacuated, At
  <2>2. CASE Finish(w) \/ Fail(w)
    BY <1>0, <2>1, <2>2, FinishRolls, FailRolls
  <2>3. CASE On(w, "update") \/ Pause(w, "pausedEvacuation")
    BY <1>0, <2>1, <2>3, StayRolls DEF On, Pause, dictionary
  <2> QED
    BY <1>4, <2>2, <2>3 DEF Evacuated
<1>5. CASE StartNodeUpdate(w)
  <2>1. pc[w] = "update"
    BY <1>5 DEF StartNodeUpdate, At
  <2>2. CASE maintenance[Node(w)] \in {"completed", "errors"}
    <3>1. \A n \in Nodes : update'[n] = update[n] \/ maintenance[n] # "out"
      BY <1>0, <1>5, <2>2 DEF StartNodeUpdate, TypeInv, TypeOK
    <3> QED
      BY <1>0, <1>5, <2>1, <2>2, <3>1, StayRolls DEF StartNodeUpdate, On, dictionary
  <2>3. CASE maintenance[Node(w)] \notin {"completed", "errors"}
    BY <1>0, <1>5, <2>1, <2>3, FailRolls DEF StartNodeUpdate
  <2> QED
    BY <2>2, <2>3
<1>6. CASE Updated(w)
  <2>1. pc[w] = "updating" /\ UNCHANGED update
    BY <1>6 DEF Updated, At
  <2>2. CASE Fail(w) \/ Leave(w)
    BY <1>0, <2>1, <2>2, FailRolls, LeaveRolls
  <2>3. CASE On(w, "rebooting")
    BY <1>0, <2>1, <2>3, StayRolls DEF On, dictionary
  <2> QED
    BY <1>6, <2>2, <2>3 DEF Updated
<1>7. CASE Rebooted(w)
  <2>1. pc[w] = "rebooting" /\ UNCHANGED update
    BY <1>7 DEF Rebooted, At
  <2>2. CASE Leave(w)
    BY <1>0, <2>1, <2>2, LeaveRolls
  <2>3. CASE Pause(w, "pausedReboot")
    BY <1>0, <2>1, <2>3, StayRolls DEF Pause
  <2> QED
    BY <1>7, <2>2, <2>3 DEF Rebooted
<1>8. CASE GoOn(w)
  <2>1. UNCHANGED update
    BY <1>8 DEF GoOn
  <2>2. CASE Finish(w)
    BY <1>0, <2>1, <2>2, FinishRolls
  <2>3. CASE pc[w] = "pausedEvacuation" /\ On(w, IF status = "running" THEN "update" ELSE "evacuating")
    BY <1>0, <2>1, <2>3, StayRolls DEF On, dictionary
  <2>4. CASE pc[w] = "pausedReboot" /\ Leave(w)
    BY <1>0, <2>1, <2>4, LeaveRolls
  <2>5. CASE /\ pc[w] = "pausedFailure"
             /\ GoTo(w, "next") /\ UNCHANGED <<dictionary, maintenance, acked>>
    <3>1. pc[w] \notin Busy /\ pc'[w] \notin Busy
      BY <1>0, <2>5, GoToType DEF Busy
    <3>2. Out' = Out
      BY <1>0, <2>1, <2>5, <3>1, BetweenRolls DEF dictionary
    <3> QED
      BY <2>5, <3>2, RollsReturn DEF dictionary
  <2> QED
    BY <1>8, <2>2, <2>3, <2>4, <2>5 DEF GoOn, At
<1>9. CASE Die(w)
  <2>1. Ends(w)
    BY <1>0, <1>9, EndMoves DEF Die
  <2>2. Out' \subseteq Out
    BY <1>0, <1>9, <2>1, OutStep DEF Die, Ends, dictionary
  <2> QED
    BY <1>9, <2>2, RollsReturn DEF Die, dictionary, history
<1> QED
  BY <1>1, <1>2, <1>3, <1>4, <1>5, <1>6, <1>7, <1>8, <1>9 DEF WorkerStep

\* So is every step of anybody else.
LEMMA OtherRolls ==
  ASSUME Ind, [Next]_vars, ~\E w \in Workers : WorkerStep(w)
  PROVE  [R!Next]_R!vars
<1>0. TypeInv
  BY DEF Ind
<1>1. ASSUME UNCHANGED <<current, failed, acked, pc, index>>,
             \A n \in Nodes : /\ maintenance'[n] # "out" => maintenance[n] # "out"
                              /\ update'[n] = "running" => update[n] = "running"
      PROVE  R!Next
  <2>1. Out' \subseteq Out
    BY <1>1 DEF Out
  <2> QED
    BY <1>1, <2>1, RollsReturn
<1> USE DEF dictionary, worker, history
<1>2. CASE \E n \in Nodes : EvacuationEnds(n) \/ UpdateEnds(n) \/ ClearUpdate(n)
  <2> PICK n \in Nodes : EvacuationEnds(n) \/ UpdateEnds(n) \/ ClearUpdate(n)
    BY <1>2
  <2>1. CASE EvacuationEnds(n)
    BY <1>0, <1>1, <2>1 DEF EvacuationEnds, TypeInv, TypeOK
  <2>2. CASE UpdateEnds(n)
    BY <1>0, <1>1, <2>2, ExitType DEF UpdateEnds, TypeInv, TypeOK
  <2>3. CASE ClearUpdate(n)
    BY <1>0, <1>1, <2>3 DEF ClearUpdate, TypeInv, TypeOK
  <2> QED
    BY <2>1, <2>2, <2>3
<1>3. CASE StartRollingUpdate
  <2>1. starts + 1 \in Workers
    BY <1>0, <1>3, BoundsAssumption DEF StartRollingUpdate, TypeInv, TypeOK, Workers
  <2>2. \A v \in Workers : pc'[v] \in {"rebooting", "pausedReboot"} =>
          pc[v] \in {"rebooting", "pausedReboot"}
    BY <1>0, <1>3, <2>1 DEF StartRollingUpdate, TypeInv, TypeOK
  <2>3. Out' \subseteq Out
    BY <1>3, <2>2 DEF StartRollingUpdate, Out
  <2> QED
    BY <1>3, <2>3 DEF StartRollingUpdate, R!Next, R!Begin
<1>4. CASE CancelRollingUpdate
  <2>1. current \in Nodes
    BY <1>0 DEF TypeInv, TypeOK
  <2> QED
    BY <1>0, <1>1, <1>4, <2>1, ExitType DEF CancelRollingUpdate
<1>5. CASE ResumeRollingUpdate
  <2>1. Out' = Out
    BY <1>5 DEF ResumeRollingUpdate, Out
  <2> QED
    BY <1>5, <2>1 DEF ResumeRollingUpdate, R!Next, R!Resume
<1>6. CASE GetRollingStatus \/ Dismiss
  BY <1>1, <1>6 DEF GetRollingStatus, Dismiss
<1>7. CASE RequestStart \/ RefuseStart \/ UNCHANGED vars
  BY <1>1, <1>7 DEF RequestStart, RefuseStart, vars
<1> QED
  BY <1>2, <1>3, <1>4, <1>5, <1>6, <1>7 DEF Next

\* Where a rolling update is not started while the last one's worker lives, rolling
\* updates implement Rollout: the nodes are taken in the order of the list, and the
\* next one only when all are back or an operator went on, with any number of nodes.
THEOREM ImplementsRollout == ASSUME ~Overlaps PROVE Spec => OneAfterAnother
<1>1. Init => R!Init /\ InTurn
  BY DEF Init, R!Init, Out, InTurn, Active
<1>2. Ind /\ InTurn /\ [Next]_vars => InTurn'
  BY InTurnStep
<1>3. Ind /\ InTurn /\ [Next]_vars => [R!Next]_R!vars
  <2> SUFFICES ASSUME Ind, InTurn, [Next]_vars PROVE [R!Next]_R!vars
    OBVIOUS
  <2>1. TypeInv'
    BY StepType DEF Ind
  <2> QED
    BY <2>1, WorkerRolls, OtherRolls
<1> QED
  BY <1>1, <1>2, <1>3, IndHolds, PTL DEF Spec, OneAfterAnother, R!Spec
================================================================================
