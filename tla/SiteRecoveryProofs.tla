-------------------------- MODULE SiteRecoveryProofs ---------------------------
(* Theorems about SiteRecovery, for every plan, every pool of workers, every   *)
(* time-out and every behaviour of the clusters.                               *)
EXTENDS SiteRecovery, TLAPS

LEMMA LenOrder == Len(Order) \in Nat /\ \A i \in 1 .. Len(Order) : Order[i] \in Guest
<1>1. Order \in Seq(Guest)
  BY SRAssumption DEF SRAssumption
<1> QED
  BY <1>1

LEMMA SpawnType ==
    ASSUME TypeOK, NEW w \in Worker, NEW k \in Kinds, Spawn(w, k)
    PROVE  /\ kind' \in [Worker -> Kinds]
           /\ at' \in [Worker -> 0 .. Len(Order) + 1]
           /\ failed' \in [Worker -> BOOLEAN]
  BY LenOrder DEF TypeOK, Spawn

LEMMA EndsType ==
    ASSUME TypeOK, NEW w \in Worker, Ends(w)
    PROVE  /\ kind' \in [Worker -> Kinds]
           /\ at' \in [Worker -> 0 .. Len(Order) + 1]
           /\ failed' \in [Worker -> BOOLEAN]
  BY LenOrder DEF TypeOK, Ends, Kinds

LEMMA HandledType ==
    ASSUME TypeOK, NEW w \in Worker, NEW ok \in BOOLEAN, InHand(w), Handled(w, ok)
    PROVE  /\ at' \in [Worker -> 0 .. Len(Order) + 1]
           /\ failed' \in [Worker -> BOOLEAN]
<1>1. at[w] + 1 \in 0 .. Len(Order) + 1
  BY LenOrder DEF InHand
<1>2. at' \in [Worker -> 0 .. Len(Order) + 1]
  BY <1>1 DEF Handled, TypeOK
<1>3. failed' \in [Worker -> BOOLEAN]
  BY DEF Handled, TypeOK
<1> QED
  BY <1>2, <1>3

Statuses == {"ready", "running", "testing", "completed", "failed", "deleted"}

LEMMA SetStatusType ==
    ASSUME TypeOK, NEW s \in Statuses, SetStatus(s)
    PROVE  status' \in Statuses
  BY DEF TypeOK, SetStatus, Statuses

LEMMA PeriodType ==
    ASSUME TypeOK, Period
    PROVE  /\ unseen' \in 0 .. Timeout + 1
           /\ Aged \in 0 .. Timeout + 1
           /\ Cooled \in Nat
  BY SRAssumption DEF TypeOK, Period, Aged, Cooled, SRAssumption

LEMMA InitType == Init => TypeOK
<1> SUFFICES ASSUME Init PROVE TypeOK
  OBVIOUS
<1>1. auto \in BOOLEAN
  <2>1. auto = ("auto" \in Ops)
    BY Zenon DEF Init, PlanInit
  <2>2. ("auto" \in Ops) \in BOOLEAN
    OBVIOUS
  <2> QED
    BY <2>1, <2>2, Zenon
<1>2. /\ kind \in [Worker -> Kinds]
      /\ at \in [Worker -> 0 .. Len(Order) + 1]
      /\ failed \in [Worker -> BOOLEAN]
  BY LenOrder DEF Init, PlanInit, Kinds
<1>3. /\ since \in 0 .. Timeout + 1 /\ pause \in Nat /\ unseen \in 0 .. Timeout + 1
  BY SRAssumption DEF Init, PlanInit, SRAssumption
<1>4. /\ repl \in [Guest -> {"ok", "error"}]
      /\ up \in [Site -> BOOLEAN]
      /\ guest \in [Guest -> OnTarget]
  BY DEF Init, OnTarget
<1> QED
  BY <1>1, <1>2, <1>3, <1>4 DEF Init, PlanInit, TypeOK

LEMMA NextType == TypeOK /\ [Next]_vars => TypeOK'
<1> SUFFICES ASSUME TypeOK, [Next]_vars PROVE TypeOK'
  OBVIOUS
<1> USE DEF rowVars, workVars, beatVars, siteVars
<1>1. CASE UNCHANGED vars
  BY <1>1 DEF TypeOK, vars
<1>2. ASSUME NEW w \in Worker, NEW k \in Kinds,
             Spawn(w, k), status' \in Statuses, auto' = auto, tested' = tested,
             UNCHANGED <<repl, siteVars>>, UNCHANGED beatVars
      PROVE  TypeOK'
  BY <1>2, SpawnType DEF TypeOK, Statuses
<1>3. ASSUME NEW w \in Worker, PlannedFailover(w) PROVE TypeOK'
  BY <1>3, <1>2 DEF PlannedFailover, Claim, Kinds, FailoverKinds, Statuses
<1>4. ASSUME NEW w \in Worker, EmergencyFailover(w) PROVE TypeOK'
  BY <1>4, <1>2 DEF EmergencyFailover, Claim, Kinds, FailoverKinds, Statuses
<1>5. ASSUME NEW w \in Worker, Failback(w) PROVE TypeOK'
  BY <1>5, <1>2 DEF Failback, Kinds, FailoverKinds, Statuses
<1>6. ASSUME NEW w \in Worker, TestFailover(w) PROVE TypeOK'
  BY <1>6, <1>2 DEF TestFailover, Kinds, Statuses
<1>7. ASSUME NEW w \in Worker, CleanupTest(w) PROVE TypeOK'
  BY <1>7, <1>2 DEF CleanupTest, Kinds, Statuses, TypeOK
<1>8. CASE Cancel
  BY <1>8 DEF Cancel, TypeOK
<1>9. CASE Delete
  BY <1>9 DEF Delete, TypeOK
<1>10. CASE ToggleAuto
  BY <1>10 DEF ToggleAuto, TypeOK
<1>11. ASSUME NEW w \in Worker, Begin(w) PROVE TypeOK'
  <2>1. CASE status = "deleted"
    BY <1>11, <2>1, EndsType DEF Begin, TypeOK
  <2>2. CASE status # "deleted"
    <3>1. at' = [at EXCEPT ![w] = 1] /\ tested' = (tested \/ kind[w] = "test")
          /\ UNCHANGED <<kind, failed>>
      BY <1>11, <2>2 DEF Begin
    <3>2. at' \in [Worker -> 0 .. Len(Order) + 1]
      BY <3>1, LenOrder DEF TypeOK
    <3>3. tested' \in BOOLEAN
      BY <3>1
    <3> QED
      BY <1>11, <3>1, <3>2, <3>3 DEF Begin, TypeOK
  <2> QED
    BY <2>1, <2>2
<1>12. ASSUME NEW w \in Worker, Ends(w), status' \in Statuses,
              UNCHANGED <<auto, tested, repl, beatVars, siteVars>>
       PROVE  TypeOK'
  BY <1>12, EndsType DEF TypeOK, Statuses
<1>13. ASSUME NEW w \in Worker, RunCleanup(w) PROVE TypeOK'
  <2>1. status' \in Statuses
    BY <1>13, SetStatusType DEF RunCleanup, Statuses, TypeOK
  <2> QED
    BY <1>12, <1>13, <2>1 DEF RunCleanup
<1>14. ASSUME NEW w \in Worker, StartReplica(w) PROVE TypeOK'
  <2>1. guest' \in [Guest -> OnTarget]
    BY <1>14 DEF StartReplica, TypeOK, OnTarget, Accepted
  <2> QED
    BY <1>14, <2>1, HandledType DEF StartReplica, TypeOK
<1>15. ASSUME NEW w \in Worker, CannotStart(w) PROVE TypeOK'
  BY <1>15, HandledType DEF CannotStart, TypeOK
<1>16. ASSUME NEW w \in Worker, Migrate(w) PROVE TypeOK'
  BY <1>16, HandledType DEF Migrate, TypeOK
<1>17. ASSUME NEW w \in Worker, CloneForTest(w) PROVE TypeOK'
  <2>1. Order[at[w]] \in Guest
    BY <1>17, LenOrder DEF CloneForTest, InHand
  <2>2. clones' \subseteq Guest
    BY <1>17, <2>1 DEF CloneForTest, TypeOK
  <2> QED
    BY <1>17, <2>2, HandledType DEF CloneForTest, TypeOK
<1>18. ASSUME NEW w \in Worker, FinishWork(w) PROVE TypeOK'
  <2>1. status' \in Statuses
    BY <1>18, SetStatusType DEF FinishWork, Statuses
  <2> QED
    BY <1>12, <1>18, <2>1 DEF FinishWork
<1>19. ASSUME NEW w \in Worker, WorkerDies(w) PROVE TypeOK'
  <2>1. status' \in Statuses
    BY <1>19, SetStatusType DEF WorkerDies, Statuses
  <2> QED
    BY <1>12, <1>19, <2>1 DEF WorkerDies
<1>20. CASE HeartbeatSkips
  BY <1>20, PeriodType DEF HeartbeatSkips, TypeOK
<1>21. CASE HeartbeatSeesSource
  BY <1>21, PeriodType, SRAssumption DEF HeartbeatSeesSource, TypeOK, SRAssumption
<1>22. CASE HeartbeatWaits
  <2>1. 0 \in 0 .. Timeout + 1 /\ 1 \in 0 .. Timeout + 1 /\ 0 \in Nat
    BY SRAssumption DEF SRAssumption
  <2>2. since' \in 0 .. Timeout + 1
    BY <1>22, <2>1, PeriodType DEF HeartbeatWaits
  <2> QED
    BY <1>22, <2>1, <2>2, PeriodType DEF HeartbeatWaits, TypeOK
<1>23. CASE HeartbeatBlocks
  BY <1>23, PeriodType, SRAssumption DEF HeartbeatBlocks, TypeOK, SRAssumption
<1>24. ASSUME NEW w \in Worker, AutoFailover(w) PROVE TypeOK'
  <2>1. "auto" \in Kinds
    BY DEF Kinds, FailoverKinds
  <2> QED
    BY <1>24, <2>1, SpawnType, PeriodType, SRAssumption
       DEF AutoFailover, Claim, TypeOK, SRAssumption
<1>25. CASE Restart
  <2>1. status' \in Statuses
    BY <1>25 DEF Restart, Reset, TypeOK, Statuses
  <2>2. /\ kind' \in [Worker -> Kinds]
        /\ at' \in [Worker -> 0 .. Len(Order) + 1]
        /\ failed' \in [Worker -> BOOLEAN]
    BY <1>25, LenOrder DEF Restart, Kinds
  <2> QED
    BY <1>25, <2>1, <2>2, SRAssumption DEF Restart, TypeOK, Statuses, SRAssumption
<1>26. ASSUME NEW s \in Site, ConnectionChanges(s) PROVE TypeOK'
  BY <1>26 DEF ConnectionChanges, TypeOK
<1>27. ASSUME NEW g \in Guest, ReplicationReports(g) PROVE TypeOK'
  BY <1>27 DEF ReplicationReports, TypeOK
<1>28. ASSUME NEW g \in Guest, StartEnds(g) PROVE TypeOK'
  <2>1. guest' \in [Guest -> OnTarget]
    BY <1>28 DEF StartEnds, TypeOK, OnTarget, Accepted
  <2> QED
    BY <1>28, <2>1 DEF StartEnds, TypeOK
<1> QED
  BY <1>1, <1>3, <1>4, <1>5, <1>6, <1>7, <1>8, <1>9, <1>10, <1>11, <1>13, <1>14,
     <1>15, <1>16, <1>17, <1>18, <1>19, <1>20, <1>21, <1>22, <1>23, <1>24, <1>25,
     <1>26, <1>27, <1>28
  DEF Next, PlanStep, Handlers, WorkerStep, Heartbeat

(* Every variable keeps its type. *)
THEOREM Typing == Spec => []TypeOK
  BY InitType, NextType, PTL DEF Spec

-------------------------------------------------------------------------------
(* A plan that says 'running' has a failover at work.                          *)

LEMMA NeverStuckStep ==
    ASSUME TypeOK, RunningHasWorker, [Next]_vars
    PROVE  RunningHasWorker'
<1> USE DEF rowVars, workVars, beatVars, siteVars
<1>1. ASSUME UNCHANGED <<status, kind>> PROVE RunningHasWorker'
  BY <1>1 DEF RunningHasWorker, InFailover
<1>2. ASSUME status' # "running" PROVE RunningHasWorker'
  BY <1>2 DEF RunningHasWorker
<1>3. ASSUME NEW w \in Worker, NEW k \in FailoverKinds, Spawn(w, k)
      PROVE  RunningHasWorker'
  BY <1>3 DEF RunningHasWorker, InFailover, Spawn, TypeOK
<1>4. ASSUME NEW w \in Worker, NEW k \in Kinds, kind[w] \notin FailoverKinds,
             kind' = [kind EXCEPT ![w] = k], status' = status
      PROVE  RunningHasWorker'
  <2> SUFFICES ASSUME status = "running" PROVE RunningHasWorker'
    BY <1>4 DEF RunningHasWorker
  <2>1. PICK v \in Worker : InFailover(v)
    BY DEF RunningHasWorker
  <2>2. v # w /\ kind'[v] = kind[v]
    BY <1>4, <2>1 DEF InFailover, TypeOK
  <2> QED
    BY <2>1, <2>2 DEF RunningHasWorker, InFailover
<1>5. CASE UNCHANGED vars
  BY <1>1, <1>5 DEF vars
<1>6. CASE Handlers
  <2>1. ASSUME NEW w \in Worker,
               PlannedFailover(w) \/ EmergencyFailover(w) \/ Failback(w)
        PROVE  RunningHasWorker'
    BY <1>3, <2>1 DEF PlannedFailover, EmergencyFailover, Failback, FailoverKinds
  <2>2. ASSUME NEW w \in Worker, TestFailover(w) PROVE RunningHasWorker'
    BY <1>2, <2>2 DEF TestFailover
  <2>3. ASSUME NEW w \in Worker, CleanupTest(w) PROVE RunningHasWorker'
    BY <1>4, <2>3 DEF CleanupTest, Spawn, Kinds, FailoverKinds
  <2>4. CASE Cancel \/ Delete \/ ToggleAuto
    BY <1>1, <1>2, <2>4 DEF Cancel, Delete, ToggleAuto
  <2> QED
    BY <1>6, <2>1, <2>2, <2>3, <2>4 DEF Handlers
<1>7. ASSUME NEW w \in Worker, WorkerStep(w) \/ WorkerDies(w)
      PROVE  RunningHasWorker'
  <2>1. CASE Begin(w)
    <3>1. CASE status = "deleted"
      BY <1>2, <2>1, <3>1 DEF Begin
    <3>2. CASE status # "deleted"
      BY <1>1, <2>1, <3>2 DEF Begin
    <3> QED
      BY <3>1, <3>2
  <2>2. CASE RunCleanup(w)
    <3>1. CASE tested
      BY <1>2, <2>2, <3>1 DEF RunCleanup, SetStatus
    <3>2. CASE ~tested
      BY <1>4, <2>2, <3>2 DEF RunCleanup, Ends, Kinds, FailoverKinds
    <3> QED
      BY <3>1, <3>2
  <2>3. CASE StartReplica(w) \/ CannotStart(w) \/ Migrate(w) \/ CloneForTest(w)
    BY <1>1, <2>3 DEF StartReplica, CannotStart, Migrate, CloneForTest
  <2>4. CASE FinishWork(w) \/ WorkerDies(w)
    <3>1. status' # "running"
      BY <2>4 DEF FinishWork, WorkerDies, SetStatus
    <3> QED
      BY <1>2, <3>1
  <2> QED
    BY <1>7, <2>1, <2>2, <2>3, <2>4 DEF WorkerStep
<1>8. CASE Heartbeat
  <2>1. CASE HeartbeatSkips \/ HeartbeatSeesSource \/ HeartbeatWaits \/ HeartbeatBlocks
    BY <1>1, <2>1 DEF HeartbeatSkips, HeartbeatSeesSource, HeartbeatWaits, HeartbeatBlocks
  <2>2. ASSUME NEW w \in Worker, AutoFailover(w) PROVE RunningHasWorker'
    BY <1>3, <2>2 DEF AutoFailover, FailoverKinds
  <2> QED
    BY <1>8, <2>1, <2>2 DEF Heartbeat
<1>9. CASE Restart
  BY <1>2, <1>9 DEF Restart, Reset
<1>10. ASSUME NEW s \in Site, ConnectionChanges(s) PROVE RunningHasWorker'
  BY <1>1, <1>10 DEF ConnectionChanges
<1>11. ASSUME NEW g \in Guest, ReplicationReports(g) PROVE RunningHasWorker'
  BY <1>1, <1>11 DEF ReplicationReports
<1>12. ASSUME NEW g \in Guest, StartEnds(g) PROVE RunningHasWorker'
  BY <1>1, <1>12 DEF StartEnds
<1> QED
  BY <1>5, <1>6, <1>7, <1>8, <1>9, <1>10, <1>11, <1>12 DEF Next, PlanStep

(* Whatever operators do, crashes and restarts included, a plan never stays    *)
(* 'running' with no worker that will write its status (issues #225, #238).    *)
THEOREM NeverStuck == Spec => []RunningHasWorker
<1>1. Init => RunningHasWorker
  BY DEF Init, PlanInit, RunningHasWorker
<1>2. TypeOK /\ RunningHasWorker /\ [Next]_vars => RunningHasWorker'
  BY NeverStuckStep
<1> QED
  BY <1>1, <1>2, Typing, PTL DEF Spec

-------------------------------------------------------------------------------
(* The safety of failovers.  Nobody uses the operations after which the plan's status and its workers    *)
(* part: tests and their clean-up, cancelling, and deleting with force.        *)
NoParting == Ops \cap {"test", "cleanup", "cancel", "force"} = {}

-------------------------------------------------------------------------------
(* One failover at a time.                                                     *)

NoTests == \A w \in Worker : kind[w] \notin {"test", "cleanup"}

OneInv == TypeOK /\ OneFailover /\ NoTests

LEMMA StartOne ==
    ASSUME OneInv, status # "running", NEW w \in Worker, NEW k \in FailoverKinds,
           Spawn(w, k), status' = "running"
    PROVE  OneFailover' /\ NoTests'
<1>1. \A v \in Worker : ~InFailover(v)
  BY DEF OneInv, OneFailover
<1>2. \A v \in Worker : kind'[v] = IF v = w THEN k ELSE kind[v]
  BY DEF Spawn, OneInv, TypeOK
<1>3. OneFailover'
  BY <1>1, <1>2 DEF OneFailover, InFailover
<1>4. NoTests'
  BY <1>2 DEF NoTests, OneInv, FailoverKinds
<1> QED
  BY <1>3, <1>4

LEMMA EndOne ==
    ASSUME OneInv, NEW w \in Worker, kind[w] # "idle", Ends(w)
    PROVE  OneFailover' /\ NoTests'
<1>1. InFailover(w)
  BY DEF OneInv, NoTests, TypeOK, InFailover, FailoverKinds, Kinds
<1>2. \A v \in Worker : kind'[v] = IF v = w THEN "idle" ELSE kind[v]
  BY DEF Ends, OneInv, TypeOK
<1>3. \A v \in Worker : InFailover(v) => v = w
  BY <1>1 DEF OneInv, OneFailover
<1>4. \A v \in Worker : kind'[v] \notin FailoverKinds
  BY <1>2, <1>3 DEF InFailover, FailoverKinds
<1>5. OneFailover'
  BY <1>4 DEF OneFailover, InFailover
<1>6. NoTests'
  BY <1>2 DEF NoTests, OneInv
<1> QED
  BY <1>5, <1>6

LEMMA OneStep ==
    ASSUME NoParting, OneInv, [Next]_vars
    PROVE  OneFailover' /\ NoTests'
<1> USE DEF rowVars, workVars, beatVars, siteVars
<1>1. ASSUME UNCHANGED <<status, kind>> PROVE OneFailover' /\ NoTests'
  BY <1>1 DEF OneInv, OneFailover, NoTests, InFailover
<1>2. CASE UNCHANGED vars
  BY <1>1, <1>2 DEF vars
<1>3. CASE Handlers
  <2>1. ASSUME NEW w \in Worker,
               PlannedFailover(w) \/ EmergencyFailover(w) \/ Failback(w)
        PROVE  OneFailover' /\ NoTests'
    BY <2>1, StartOne DEF PlannedFailover, EmergencyFailover, Failback, Claim, FailoverKinds
  <2>2. ASSUME NEW w \in Worker PROVE ~TestFailover(w) /\ ~CleanupTest(w)
    BY DEF NoParting, TestFailover, CleanupTest
  <2>3. ~Cancel
    BY DEF NoParting, Cancel
  <2>4. CASE Delete
    <3>1. status # "running" /\ kind' = kind
      BY <2>4 DEF NoParting, Delete
    <3>2. \A v \in Worker : ~InFailover(v)
      BY <3>1 DEF OneInv, OneFailover
    <3> QED
      BY <3>1, <3>2 DEF OneFailover, NoTests, InFailover, OneInv
  <2>5. CASE ToggleAuto
    BY <1>1, <2>5 DEF ToggleAuto
  <2> QED
    BY <1>3, <2>1, <2>2, <2>3, <2>4, <2>5 DEF Handlers
<1>4. ASSUME NEW w \in Worker, WorkerStep(w) \/ WorkerDies(w)
      PROVE  OneFailover' /\ NoTests'
  <2>1. CASE Begin(w)
    <3>1. status # "deleted" \/ Ends(w)
      BY <2>1 DEF Begin
    <3>2. CASE status # "deleted"
      BY <1>1, <2>1, <3>2 DEF Begin
    <3>3. CASE Ends(w)
      BY <2>1, <3>3, EndOne DEF Begin
    <3> QED
      BY <3>1, <3>2, <3>3
  <2>2. ~RunCleanup(w)
    BY DEF RunCleanup, OneInv, NoTests
  <2>3. CASE StartReplica(w) \/ CannotStart(w) \/ Migrate(w) \/ CloneForTest(w)
    BY <1>1, <2>3 DEF StartReplica, CannotStart, Migrate, CloneForTest
  <2>4. CASE FinishWork(w) \/ WorkerDies(w)
    BY <2>4, EndOne DEF FinishWork, WorkerDies
  <2> QED
    BY <1>4, <2>1, <2>2, <2>3, <2>4 DEF WorkerStep
<1>5. CASE Heartbeat
  <2>1. CASE HeartbeatSkips \/ HeartbeatSeesSource \/ HeartbeatWaits \/ HeartbeatBlocks
    BY <1>1, <2>1 DEF HeartbeatSkips, HeartbeatSeesSource, HeartbeatWaits, HeartbeatBlocks
  <2>2. ASSUME NEW w \in Worker, AutoFailover(w) PROVE OneFailover' /\ NoTests'
    BY <2>2, StartOne DEF AutoFailover, Claim, FailoverKinds
  <2> QED
    BY <1>5, <2>1, <2>2 DEF Heartbeat
<1>6. CASE Restart
  BY <1>6 DEF Restart, OneFailover, NoTests, InFailover, FailoverKinds
<1>7. ASSUME NEW s \in Site, ConnectionChanges(s) PROVE OneFailover' /\ NoTests'
  BY <1>1, <1>7 DEF ConnectionChanges
<1>8. ASSUME NEW g \in Guest, ReplicationReports(g) PROVE OneFailover' /\ NoTests'
  BY <1>1, <1>8 DEF ReplicationReports
<1>9. ASSUME NEW g \in Guest, StartEnds(g) PROVE OneFailover' /\ NoTests'
  BY <1>1, <1>9 DEF StartEnds
<1> QED
  BY <1>2, <1>3, <1>4, <1>5, <1>6, <1>7, <1>8, <1>9 DEF Next, PlanStep

LEMMA OneInvHolds == ASSUME NoParting PROVE Spec => []OneInv
<1>1. Init => OneInv
  <2> SUFFICES ASSUME Init PROVE OneInv
    OBVIOUS
  <2>1. \A w \in Worker : kind[w] = "idle"
    BY DEF Init, PlanInit
  <2> QED
    BY <2>1, InitType DEF OneInv, OneFailover, NoTests, InFailover, FailoverKinds
<1>2. OneInv /\ [Next]_vars => OneInv'
  BY NextType, OneStep DEF OneInv
<1> QED
  BY <1>1, <1>2, PTL DEF Spec

(* The atomic claim keeps failovers apart, by whatever mix of planned,         *)
(* emergency and automatic failovers, failbacks, deletions, crashes and        *)
(* restarts, as long as nobody tests, cancels or forces.                       *)
THEOREM OneFailoverAtATime == ASSUME NoParting PROVE Spec => []OneFailover
<1>1. OneInv => OneFailover
  BY DEF OneInv
<1> QED
  BY <1>1, OneInvHolds, PTL

-------------------------------------------------------------------------------
(* What 'completed' means.                                                     *)

(* A worker that has not failed got the guests it has handled accepted; a      *)
(* migration fails always (see Migratable), so a migrating worker that has not *)
(* failed has handled none.                                                    *)
Started(w) ==
    /\ kind[w] \in {"emergency", "auto"} /\ ~failed[w] =>
          \A i \in 1 .. Len(Order) : i < at[w] => guest[Order[i]] \in Accepted
    /\ kind[w] \in {"planned", "failback"} /\ ~failed[w] => at[w] <= 1

AllStarted == \A w \in Worker : Started(w)

CompletedInv == TypeOK /\ AllStarted /\ CompletedMeansAccepted

LEMMA AcceptedStays ==
    ASSUME CompletedInv, [Next]_vars, NEW g \in Guest, guest[g] \in Accepted
    PROVE  guest'[g] \in Accepted
<1> USE DEF rowVars, workVars, beatVars, siteVars
<1>1. ASSUME UNCHANGED guest PROVE guest'[g] \in Accepted
  BY <1>1
<1>2. ASSUME NEW w \in Worker, StartReplica(w) PROVE guest'[g] \in Accepted
  BY <1>2 DEF StartReplica, CompletedInv, TypeOK, Accepted
<1>3. ASSUME NEW w \in Worker, WorkerStep(w), ~StartReplica(w) PROVE UNCHANGED guest
  BY <1>3 DEF WorkerStep, Begin, RunCleanup, CannotStart, Migrate, CloneForTest, FinishWork
<1>4. ASSUME Handlers PROVE UNCHANGED guest
  BY <1>4 DEF Handlers, PlannedFailover, EmergencyFailover, Failback, TestFailover,
              CleanupTest, Cancel, Delete, ToggleAuto
<1>5. ASSUME Heartbeat PROVE UNCHANGED guest
  BY <1>5 DEF Heartbeat, HeartbeatSkips, HeartbeatSeesSource, HeartbeatWaits,
              HeartbeatBlocks, AutoFailover
<1>6. ASSUME Restart \/ UNCHANGED vars \/ (\E w \in Worker : WorkerDies(w))
             \/ (\E s \in Site : ConnectionChanges(s))
             \/ (\E h \in Guest : ReplicationReports(h))
      PROVE  UNCHANGED guest
  BY <1>6 DEF Restart, vars, WorkerDies, ConnectionChanges, ReplicationReports
<1>7. ASSUME NEW h \in Guest, StartEnds(h) PROVE guest'[g] \in Accepted
  BY <1>7 DEF StartEnds, CompletedInv, TypeOK, Accepted
<1> QED
  BY <1>1, <1>2, <1>3, <1>4, <1>5, <1>6, <1>7 DEF Next, PlanStep

LEMMA SpawnStarted ==
    ASSUME CompletedInv, [Next]_vars, NEW w \in Worker, NEW k \in Kinds, Spawn(w, k)
    PROVE  AllStarted'
<1>1. \A v \in Worker : v # w => Started(v)'
  BY LenOrder, AcceptedStays DEF CompletedInv, AllStarted, Started, Spawn, TypeOK
<1>2. Started(w)'
  BY LenOrder DEF CompletedInv, Started, Spawn, TypeOK
<1> QED
  BY <1>1, <1>2 DEF AllStarted

LEMMA EndsStarted ==
    ASSUME CompletedInv, [Next]_vars, NEW w \in Worker, Ends(w)
    PROVE  AllStarted'
<1>1. \A v \in Worker : v # w => Started(v)'
  BY LenOrder, AcceptedStays DEF CompletedInv, AllStarted, Started, Ends, TypeOK
<1>2. Started(w)'
  BY DEF CompletedInv, Started, Ends, TypeOK
<1> QED
  BY <1>1, <1>2 DEF AllStarted

LEMMA FailStarted ==
    ASSUME CompletedInv, [Next]_vars, NEW w \in Worker, Handled(w, FALSE), kind' = kind
    PROVE  AllStarted'
<1>1. \A v \in Worker : v # w => Started(v)'
  BY LenOrder, AcceptedStays DEF CompletedInv, AllStarted, Started, Handled, TypeOK
<1>2. Started(w)'
  BY DEF CompletedInv, Started, Handled, TypeOK
<1> QED
  BY <1>1, <1>2 DEF AllStarted

LEMMA NoMigration == ~Migratable("source", "target") /\ ~Migratable("target", "source")
  BY DEF Migratable, HasGetVMs, TakesAddress

LEMMA AllStartedStep == ASSUME CompletedInv, [Next]_vars PROVE AllStarted'
<1> USE DEF rowVars, workVars, beatVars, siteVars
<1>1. ASSUME UNCHANGED <<kind, at, failed>> PROVE AllStarted'
  BY <1>1, LenOrder, AcceptedStays DEF CompletedInv, AllStarted, Started
<1>2. CASE UNCHANGED vars
  BY <1>1, <1>2 DEF vars
<1>3. CASE Handlers
  <2>1. ASSUME NEW w \in Worker, NEW k \in Kinds, Spawn(w, k) PROVE AllStarted'
    BY <2>1, SpawnStarted
  <2>2. ASSUME NEW w \in Worker,
               PlannedFailover(w) \/ EmergencyFailover(w) \/ Failback(w)
               \/ TestFailover(w) \/ CleanupTest(w)
        PROVE  AllStarted'
    BY <2>1, <2>2 DEF PlannedFailover, EmergencyFailover, Failback, TestFailover,
                      CleanupTest, Kinds, FailoverKinds
  <2>3. CASE Cancel \/ Delete \/ ToggleAuto
    BY <1>1, <2>3 DEF Cancel, Delete, ToggleAuto
  <2> QED
    BY <1>3, <2>2, <2>3 DEF Handlers
<1>4. ASSUME NEW w \in Worker, WorkerStep(w) \/ WorkerDies(w) PROVE AllStarted'
  <2>1. CASE Begin(w)
    <3>1. CASE status = "deleted"
      BY <2>1, <3>1, EndsStarted DEF Begin
    <3>2. CASE status # "deleted"
      <4>1. at' = [at EXCEPT ![w] = 1] /\ UNCHANGED <<kind, failed, guest>>
        BY <2>1, <3>2 DEF Begin
      <4>2. \A v \in Worker : v # w => Started(v)'
        BY <4>1 DEF CompletedInv, AllStarted, Started, TypeOK
      <4>3. Started(w)'
        BY <4>1, LenOrder DEF CompletedInv, Started, TypeOK
      <4> QED
        BY <4>2, <4>3 DEF AllStarted
    <3> QED
      BY <3>1, <3>2
  <2>2. CASE StartReplica(w)
    <3> DEFINE n == at[w]
    <3>1. /\ n \in 1 .. Len(Order)
          /\ at' = [at EXCEPT ![w] = n + 1]
          /\ failed' = [failed EXCEPT ![w] = @ \/ ~TRUE]
          /\ kind' = kind /\ kind[w] \in {"emergency", "auto"}
      BY <2>2 DEF StartReplica, InHand, Handled
    <3>2. guest'[Order[n]] \in Accepted
      BY <2>2, <3>1, LenOrder DEF StartReplica, CompletedInv, TypeOK, Accepted
    <3>3. \A v \in Worker : v # w => Started(v)'
      BY <3>1, LenOrder, AcceptedStays DEF CompletedInv, AllStarted, Started, TypeOK
    <3>4. failed'[w] = failed[w] /\ at'[w] = n + 1
      BY <3>1 DEF CompletedInv, TypeOK
    <3>5. ASSUME ~failed[w], NEW i \in 1 .. Len(Order), i < n + 1
          PROVE  guest'[Order[i]] \in Accepted
      <4>1. CASE i = n
        BY <3>2, <4>1
      <4>2. CASE i < n
        BY <3>1, <3>5, <4>2, LenOrder, AcceptedStays DEF CompletedInv, AllStarted, Started
      <4> QED
        BY <3>1, <3>5, <4>1, <4>2, LenOrder
    <3>6. Started(w)'
      BY <3>1, <3>4, <3>5 DEF Started
    <3> QED
      BY <3>3, <3>6 DEF AllStarted
  <2>3. CASE CannotStart(w) \/ CloneForTest(w)
    BY <2>3, FailStarted DEF CannotStart, CloneForTest
  <2>4. CASE Migrate(w)
    <3>1. Handled(w, FALSE) /\ kind' = kind
      BY <2>4, NoMigration DEF Migrate
    <3> QED
      BY <3>1, FailStarted
  <2>5. CASE RunCleanup(w) \/ FinishWork(w) \/ WorkerDies(w)
    BY <2>5, EndsStarted DEF RunCleanup, FinishWork, WorkerDies
  <2> QED
    BY <1>4, <2>1, <2>2, <2>3, <2>4, <2>5 DEF WorkerStep
<1>5. CASE Heartbeat
  <2>1. CASE HeartbeatSkips \/ HeartbeatSeesSource \/ HeartbeatWaits \/ HeartbeatBlocks
    BY <1>1, <2>1 DEF HeartbeatSkips, HeartbeatSeesSource, HeartbeatWaits, HeartbeatBlocks
  <2>2. ASSUME NEW w \in Worker, AutoFailover(w) PROVE AllStarted'
    BY <2>2, SpawnStarted DEF AutoFailover, Kinds, FailoverKinds
  <2> QED
    BY <1>5, <2>1, <2>2 DEF Heartbeat
<1>6. CASE Restart
  BY <1>6 DEF Restart, AllStarted, Started
<1>7. ASSUME NEW s \in Site, ConnectionChanges(s) PROVE AllStarted'
  BY <1>1, <1>7 DEF ConnectionChanges
<1>8. ASSUME NEW g \in Guest, ReplicationReports(g) PROVE AllStarted'
  BY <1>1, <1>8 DEF ReplicationReports
<1>9. ASSUME NEW g \in Guest, StartEnds(g) PROVE AllStarted'
  BY <1>1, <1>9 DEF StartEnds
<1> QED
  BY <1>2, <1>3, <1>4, <1>5, <1>6, <1>7, <1>8, <1>9 DEF Next, PlanStep

LEMMA CompletedStep == ASSUME CompletedInv, [Next]_vars PROVE CompletedMeansAccepted'
<1> USE DEF rowVars, workVars, beatVars, siteVars
<1>1. ASSUME status' = status PROVE CompletedMeansAccepted'
  BY <1>1, LenOrder, AcceptedStays DEF CompletedInv, CompletedMeansAccepted
<1>2. ASSUME status' # "completed" PROVE CompletedMeansAccepted'
  BY <1>2 DEF CompletedMeansAccepted
<1>3. ASSUME NEW w \in Worker, FinishWork(w) PROVE CompletedMeansAccepted'
  <2>1. CASE failed[w] \/ kind[w] = "test"
    BY <1>2, <1>3, <2>1 DEF FinishWork, SetStatus
  <2>2. CASE ~failed[w] /\ kind[w] \in {"emergency", "auto"}
    BY <1>3, <2>2, LenOrder
    DEF FinishWork, CompletedInv, AllStarted, Started, CompletedMeansAccepted
  <2>3. CASE ~failed[w] /\ kind[w] \in {"planned", "failback"}
    <3>1. Len(Order) + 1 <= 1
      BY <1>3, <2>3 DEF FinishWork, CompletedInv, AllStarted, Started
    <3> QED
      BY <3>1, LenOrder DEF CompletedMeansAccepted
  <2>4. kind[w] \in {"planned", "emergency", "failback", "auto", "test"}
    BY <1>3 DEF FinishWork, CompletedInv, TypeOK, Kinds, FailoverKinds
  <2> QED
    BY <2>1, <2>2, <2>3, <2>4
<1>4. ASSUME NEW w \in Worker, WorkerStep(w) \/ WorkerDies(w), ~FinishWork(w)
      PROVE  status' = status \/ status' # "completed"
  BY <1>4 DEF WorkerStep, WorkerDies, Begin, RunCleanup, StartReplica, CannotStart,
              Migrate, CloneForTest, SetStatus
<1>5. ASSUME Handlers PROVE status' = status \/ status' # "completed"
  BY <1>5 DEF Handlers, PlannedFailover, EmergencyFailover, Failback, TestFailover,
              CleanupTest, Cancel, Delete, ToggleAuto, Claim
<1>6. ASSUME Heartbeat PROVE status' = status \/ status' # "completed"
  BY <1>6 DEF Heartbeat, HeartbeatSkips, HeartbeatSeesSource, HeartbeatWaits,
              HeartbeatBlocks, AutoFailover, Claim
<1>7. ASSUME Restart \/ UNCHANGED vars
             \/ (\E s \in Site : ConnectionChanges(s))
             \/ (\E g \in Guest : ReplicationReports(g) \/ StartEnds(g))
      PROVE  status' = status \/ status' # "completed"
  BY <1>7 DEF Restart, Reset, vars, ConnectionChanges, ReplicationReports, StartEnds
<1> QED
  BY <1>1, <1>2, <1>3, <1>4, <1>5, <1>6, <1>7 DEF Next, PlanStep

(* A plan that reads 'completed' has had the start of every guest accepted by  *)
(* the target, whatever operators do and however the clusters behave.          *)
THEOREM CompletedIsAccepted == Spec => []CompletedMeansAccepted
<1>1. Init => CompletedInv
  <2> SUFFICES ASSUME Init PROVE CompletedInv
    OBVIOUS
  <2>1. AllStarted
    BY DEF Init, PlanInit, AllStarted, Started
  <2>2. CompletedMeansAccepted
    BY DEF Init, PlanInit, CompletedMeansAccepted
  <2> QED
    BY <2>1, <2>2, InitType DEF CompletedInv
<1>2. CompletedInv /\ [Next]_vars => CompletedInv'
  BY NextType, AllStartedStep, CompletedStep DEF CompletedInv
<1>3. CompletedInv => CompletedMeansAccepted
  BY DEF CompletedInv
<1> QED
  BY <1>1, <1>2, <1>3, PTL DEF Spec

-------------------------------------------------------------------------------
(* The heartbeat's patience.                                                   *)

(* Nobody makes a plan 'ready' again or turns auto_failover on later: then the *)
(* heartbeat's first-fail time is never one of an outage that has passed.      *)
NoReturn == Ops \cap {"test", "cleanup", "cancel", "force", "toggle"} = {}

Patient ==
    /\ auto = ("auto" \in Ops)
    /\ status = "ready" => /\ since <= unseen
                           /\ ~auto \/ pause > 0 => since = 0

PatientInv == OneInv /\ Patient

LEMMA PatientStep == ASSUME NoReturn, PatientInv, [Next]_vars PROVE Patient'
<1> USE DEF rowVars, workVars, beatVars, siteVars
<1>0. /\ Timeout \in Nat /\ since \in 0 .. Timeout + 1 /\ unseen \in 0 .. Timeout + 1
      /\ pause \in Nat
  BY SRAssumption DEF SRAssumption, PatientInv, OneInv, TypeOK
<1>1. ASSUME UNCHANGED <<auto, status, since, pause, unseen>> PROVE Patient'
  BY <1>1 DEF PatientInv, Patient
<1>2. ASSUME status' # "ready", auto' = auto PROVE Patient'
  <2>1. auto' = ("auto" \in Ops)
    BY <1>2, Zenon DEF PatientInv, Patient
  <2> QED
    BY <1>2, <2>1, Zenon DEF Patient
<1>3. ASSUME auto' = auto, since' = 0, pause' \in Nat, unseen' \in Nat PROVE Patient'
  <2>1. auto' = ("auto" \in Ops)
    BY <1>3, Zenon DEF PatientInv, Patient
  <2>2. since' <= unseen' /\ since' = 0
    BY <1>3
  <2> QED
    BY <2>1, <2>2, Zenon DEF Patient
<1>4. CASE UNCHANGED vars
  BY <1>1, <1>4 DEF vars
<1>5. CASE Handlers
  <2>1. ASSUME NEW w \in Worker,
               PlannedFailover(w) \/ EmergencyFailover(w) \/ Failback(w)
        PROVE  Patient'
    BY <1>2, <2>1 DEF PlannedFailover, EmergencyFailover, Failback, Claim
  <2>2. ASSUME NEW w \in Worker
        PROVE  ~TestFailover(w) /\ ~CleanupTest(w) /\ ~Cancel /\ ~ToggleAuto
    BY DEF NoReturn, TestFailover, CleanupTest, Cancel, ToggleAuto
  <2>3. ~Cancel /\ ~ToggleAuto
    BY DEF NoReturn, Cancel, ToggleAuto
  <2>4. CASE Delete
    BY <1>2, <2>4 DEF Delete
  <2> QED
    BY <1>5, <2>1, <2>2, <2>3, <2>4 DEF Handlers
<1>6. ASSUME NEW w \in Worker, WorkerStep(w) \/ WorkerDies(w) PROVE Patient'
  <2>1. CASE Begin(w) \/ StartReplica(w) \/ CannotStart(w) \/ Migrate(w) \/ CloneForTest(w)
    BY <1>1, <2>1 DEF Begin, StartReplica, CannotStart, Migrate, CloneForTest
  <2>2. ~RunCleanup(w)
    BY DEF RunCleanup, PatientInv, OneInv, NoTests
  <2>3. CASE FinishWork(w) \/ WorkerDies(w)
    BY <1>2, <2>3 DEF FinishWork, WorkerDies, SetStatus
  <2> QED
    BY <1>6, <2>1, <2>2, <2>3 DEF WorkerStep
<1>7. CASE Heartbeat
  <2>1. ASSUME Period
        PROVE  /\ unseen' \in Nat
               /\ ~up["source"] => unseen' = IF unseen = Timeout + 1 THEN unseen
                                                                    ELSE unseen + 1
    BY <1>0, <2>1 DEF Period
  <2>2. CASE HeartbeatSkips
    <3>1. CASE status # "ready"
      BY <1>2, <2>2, <3>1 DEF HeartbeatSkips
    <3>2. CASE status = "ready"
      <4>1. ~auto \/ pause > 0
        BY <1>0, <2>2, <3>2 DEF HeartbeatSkips, Watched, Cooled
      <4>2. since = 0
        BY <3>2, <4>1 DEF PatientInv, Patient
      <4>3. since' = 0 /\ pause' \in Nat /\ auto' = auto /\ Period
        BY <1>0, <2>2, <4>2 DEF HeartbeatSkips, Aged, Cooled
      <4> QED
        BY <1>3, <2>1, <4>3
    <3> QED
      BY <3>1, <3>2
  <2>3. CASE HeartbeatSeesSource \/ HeartbeatBlocks
    <3>1. since' = 0 /\ pause' \in Nat /\ auto' = auto /\ Period
      BY <2>3, SRAssumption DEF HeartbeatSeesSource, HeartbeatBlocks, SRAssumption
    <3> QED
      BY <1>3, <2>1, <3>1
  <2>4. CASE HeartbeatWaits
    <3>1. /\ status = "ready" /\ auto /\ ~up["source"] /\ Period
          /\ since' = IF since = 0 THEN 1 ELSE Aged
          /\ pause' = 0 /\ auto' = auto /\ status' = status
      BY <2>4 DEF HeartbeatWaits, Watched
    <3>2. auto' = ("auto" \in Ops)
      BY <3>1, Zenon DEF PatientInv, Patient
    <3>3. since <= unseen
      BY <3>1 DEF PatientInv, Patient
    <3>4. since' <= unseen'
      BY <1>0, <2>1, <3>1, <3>3 DEF Aged
    <3>5. ~(~auto' \/ pause' > 0)
      BY <3>1
    <3> QED
      BY <3>2, <3>4, <3>5, Zenon DEF Patient
  <2>5. ASSUME NEW w \in Worker, AutoFailover(w) PROVE Patient'
    BY <1>2, <2>5 DEF AutoFailover, Claim
  <2> QED
    BY <1>7, <2>2, <2>3, <2>4, <2>5 DEF Heartbeat
<1>8. CASE Restart
  BY <1>0, <1>3, <1>8 DEF Restart
<1>9. ASSUME NEW s \in Site, ConnectionChanges(s) PROVE Patient'
  BY <1>1, <1>9 DEF ConnectionChanges
<1>10. ASSUME NEW g \in Guest, ReplicationReports(g) PROVE Patient'
  BY <1>1, <1>10 DEF ReplicationReports
<1>11. ASSUME NEW g \in Guest, StartEnds(g) PROVE Patient'
  BY <1>1, <1>11 DEF StartEnds
<1> QED
  BY <1>4, <1>5, <1>6, <1>7, <1>8, <1>9, <1>10, <1>11 DEF Next, PlanStep

LEMMA PatientFailover ==
    ASSUME PatientInv, NEW w \in Worker, AutoFailover(w)
    PROVE  unseen' > Timeout
<1>1. /\ Timeout \in Nat /\ since \in 0 .. Timeout + 1 /\ unseen \in 0 .. Timeout + 1
  BY SRAssumption DEF SRAssumption, PatientInv, OneInv, TypeOK
<1>2. since <= unseen
  BY DEF AutoFailover, Watched, PatientInv, Patient
<1>3. since >= Timeout
  BY <1>1 DEF AutoFailover, Expired, Aged
<1>4. unseen' = IF unseen = Timeout + 1 THEN unseen ELSE unseen + 1
  BY DEF AutoFailover, Period
<1> QED
  BY <1>1, <1>2, <1>3, <1>4

(* The heartbeat fails over only after the source was unreachable at every     *)
(* check for failover_timeout.  Without the assumption it is not so: see the   *)
(* departures in the README.                                                   *)
THEOREM FailsOverAfterTimeout == ASSUME NoReturn PROVE Spec => AutoAfterTimeout
<1>1. NoParting
  BY DEF NoReturn, NoParting
<1>2. Init => Patient
  <2> SUFFICES ASSUME Init PROVE Patient
    OBVIOUS
  <2>1. auto = ("auto" \in Ops)
    BY Zenon DEF Init, PlanInit
  <2>2. since <= unseen /\ since = 0
    BY DEF Init, PlanInit
  <2> QED
    BY <2>1, <2>2, Zenon DEF Patient
<1>3. PatientInv /\ [Next]_vars => Patient'
  BY PatientStep
<1>4. PatientInv /\ [Next]_vars
        => [\A w \in Worker : AutoFailover(w) => unseen' > Timeout]_vars
  BY PatientFailover
<1>5. PatientInv <=> OneInv /\ Patient
  BY DEF PatientInv
<1> QED
  BY <1>1, <1>2, <1>3, <1>4, <1>5, OneInvHolds, PTL DEF Spec, AutoAfterTimeout

-------------------------------------------------------------------------------
(* The plan's life is that of the abstract failover.                           *)

LEMMA NoneAtWork ==
    ASSUME \A v \in Worker : ~InFailover(v)
    PROVE  Active = FALSE /\ HandledSoFar = 0
<1>1. ~Active
  BY DEF Active
<1>2. Active = FALSE
  BY <1>1
<1> QED
  BY <1>1, <1>2 DEF HandledSoFar

LEMMA NoneAtWorkNext ==
    ASSUME \A v \in Worker : ~InFailover(v)'
    PROVE  Active' = FALSE /\ HandledSoFar' = 0
<1>1. ~Active'
  BY DEF Active
<1>2. Active' = FALSE
  BY <1>1
<1> QED
  BY <1>1, <1>2 DEF HandledSoFar

LEMMA OneAtWork ==
    ASSUME NEW w \in Worker, InFailover(w), \A v \in Worker : InFailover(v) => v = w
    PROVE  Active = TRUE /\ HandledSoFar = IF at[w] = 0 THEN 0 ELSE at[w] - 1
<1>1. Active
  BY DEF Active
<1>2. Active = TRUE
  BY <1>1
<1>3. (CHOOSE v \in Worker : InFailover(v)) = w
  OBVIOUS
<1> QED
  BY <1>1, <1>2, <1>3 DEF HandledSoFar

LEMMA OneAtWorkNext ==
    ASSUME NEW w \in Worker, InFailover(w)', \A v \in Worker : InFailover(v)' => v = w
    PROVE  Active' = TRUE /\ HandledSoFar' = IF at'[w] = 0 THEN 0 ELSE at'[w] - 1
<1>1. Active'
  BY DEF Active
<1>2. Active' = TRUE
  BY <1>1
<1>3. (CHOOSE v \in Worker : InFailover(v)') = w
  OBVIOUS
<1> QED
  BY <1>1, <1>2, <1>3 DEF HandledSoFar

LEMMA StartsFailover ==
    ASSUME OneInv, status # "running", NEW w \in Worker, NEW k \in FailoverKinds,
           Spawn(w, k)
    PROVE  F!Start
<1>1. \A v \in Worker : ~InFailover(v)
  BY DEF OneInv, OneFailover
<1>2. /\ \A v \in Worker : kind'[v] = IF v = w THEN k ELSE kind[v]
      /\ at'[w] = 0
  BY DEF Spawn, OneInv, TypeOK
<1>3. InFailover(w)' /\ \A v \in Worker : InFailover(v)' => v = w
  BY <1>1, <1>2 DEF InFailover
<1> QED
  BY <1>1, <1>2, <1>3, NoneAtWork, OneAtWorkNext DEF F!Start

LEMMA EndsFailover ==
    ASSUME OneInv, NEW w \in Worker, kind[w] # "idle", Ends(w)
    PROVE  F!End
<1>1. InFailover(w)
  BY DEF OneInv, NoTests, TypeOK, InFailover, FailoverKinds, Kinds
<1>2. \A v \in Worker : InFailover(v) => v = w
  BY <1>1 DEF OneInv, OneFailover
<1>3. \A v \in Worker : kind'[v] = IF v = w THEN "idle" ELSE kind[v]
  BY DEF Ends, OneInv, TypeOK
<1>4. \A v \in Worker : ~InFailover(v)'
  BY <1>2, <1>3 DEF InFailover, FailoverKinds
<1> QED
  BY <1>1, <1>2, <1>4, OneAtWork, NoneAtWorkNext DEF F!End

LEMMA HandlesGuest ==
    ASSUME OneInv, NEW w \in Worker, InFailover(w), InHand(w), kind' = kind,
           at' = [at EXCEPT ![w] = @ + 1]
    PROVE  F!Handle
<1>1. \A v \in Worker : InFailover(v) => v = w
  BY DEF OneInv, OneFailover
<1>2. InFailover(w)' /\ \A v \in Worker : InFailover(v)' => v = w
  BY <1>1 DEF InFailover
<1>3. at[w] \in 1 .. Len(Order) /\ at'[w] = at[w] + 1
  BY DEF InHand, OneInv, TypeOK
<1>4. Active = TRUE /\ HandledSoFar = IF at[w] = 0 THEN 0 ELSE at[w] - 1
  BY <1>1, OneAtWork, Zenon
<1>5. Active' = TRUE /\ HandledSoFar' = IF at'[w] = 0 THEN 0 ELSE at'[w] - 1
  BY <1>2, OneAtWorkNext, Zenon
<1> QED
  BY <1>3, <1>4, <1>5, LenOrder DEF F!Handle

LEMMA SameFailover ==
    ASSUME UNCHANGED <<kind, at>>
    PROVE  UNCHANGED <<Active, HandledSoFar>>
<1>1. Active' = Active
  BY DEF Active, InFailover
<1>2. HandledSoFar' = HandledSoFar
  BY DEF HandledSoFar, Active, InFailover
<1> QED
  BY <1>1, <1>2

AbstractStep == [F!Next]_<<Active, HandledSoFar>>

LEMMA FailoverStep ==
    ASSUME NoParting, OneInv, [Next]_vars
    PROVE  AbstractStep
<1> USE DEF rowVars, workVars, beatVars, siteVars
<1>1. ASSUME UNCHANGED <<kind, at>> PROVE AbstractStep
  BY <1>1, SameFailover DEF AbstractStep
<1>2. ASSUME F!Start \/ F!Handle \/ F!End PROVE AbstractStep
  BY <1>2 DEF F!Next, AbstractStep
<1>3. CASE UNCHANGED vars
  BY <1>1, <1>3 DEF vars
<1>4. CASE Handlers
  <2>1. ASSUME NEW w \in Worker,
               PlannedFailover(w) \/ EmergencyFailover(w) \/ Failback(w)
        PROVE  AbstractStep
    BY <1>2, <2>1, StartsFailover
    DEF PlannedFailover, EmergencyFailover, Failback, Claim, FailoverKinds
  <2>2. ASSUME NEW w \in Worker PROVE ~TestFailover(w) /\ ~CleanupTest(w)
    BY DEF NoParting, TestFailover, CleanupTest
  <2>3. CASE Cancel \/ Delete \/ ToggleAuto
    BY <1>1, <2>3 DEF Cancel, Delete, ToggleAuto
  <2> QED
    BY <1>4, <2>1, <2>2, <2>3 DEF Handlers
<1>5. ASSUME NEW w \in Worker, WorkerStep(w) \/ WorkerDies(w) PROVE AbstractStep
  <2>1. CASE Begin(w)
    <3>1. InFailover(w) /\ at[w] = 0
      BY <2>1 DEF Begin, OneInv, NoTests, TypeOK, InFailover, FailoverKinds, Kinds
    <3>2. status = "running" /\ \A v \in Worker : InFailover(v) => v = w
      BY <3>1 DEF OneInv, OneFailover
    <3>3. at' = [at EXCEPT ![w] = 1] /\ kind' = kind
      BY <2>1, <3>2 DEF Begin
    <3>4. at'[w] = 1 /\ InFailover(w)' /\ \A v \in Worker : InFailover(v)' => v = w
      BY <3>1, <3>2, <3>3 DEF InFailover, OneInv, TypeOK
    <3>5. Active = TRUE /\ HandledSoFar = 0
      BY <3>1, <3>2, OneAtWork
    <3>6. Active' = TRUE /\ HandledSoFar' = IF at'[w] = 0 THEN 0 ELSE at'[w] - 1
      BY <3>4, OneAtWorkNext, Zenon
    <3> QED
      BY <3>4, <3>5, <3>6 DEF AbstractStep
  <2>2. ~RunCleanup(w)
    BY DEF RunCleanup, OneInv, NoTests
  <2>3. CASE StartReplica(w) \/ CannotStart(w) \/ Migrate(w) \/ CloneForTest(w)
    <3>1. /\ kind[w] # "idle" /\ InHand(w) /\ kind' = kind
          /\ at' = [at EXCEPT ![w] = @ + 1]
      BY <2>3 DEF StartReplica, CannotStart, Migrate, CloneForTest, Handled
    <3>2. InFailover(w)
      BY <3>1 DEF OneInv, NoTests, TypeOK, InFailover, FailoverKinds, Kinds
    <3> QED
      BY <1>2, <3>1, <3>2, HandlesGuest
  <2>4. CASE FinishWork(w) \/ WorkerDies(w)
    BY <1>2, <2>4, EndsFailover DEF FinishWork, WorkerDies
  <2> QED
    BY <1>5, <2>1, <2>2, <2>3, <2>4 DEF WorkerStep
<1>6. CASE Heartbeat
  <2>1. CASE HeartbeatSkips \/ HeartbeatSeesSource \/ HeartbeatWaits \/ HeartbeatBlocks
    BY <1>1, <2>1 DEF HeartbeatSkips, HeartbeatSeesSource, HeartbeatWaits, HeartbeatBlocks
  <2>2. ASSUME NEW w \in Worker, AutoFailover(w) PROVE AbstractStep
    BY <1>2, <2>2, StartsFailover DEF AutoFailover, Claim, FailoverKinds
  <2> QED
    BY <1>6, <2>1, <2>2 DEF Heartbeat
<1>7. CASE Restart
  <2>1. \A v \in Worker : ~InFailover(v)'
    BY <1>7 DEF Restart, InFailover, FailoverKinds
  <2>2. Active' = FALSE /\ HandledSoFar' = 0
    BY <2>1, NoneAtWorkNext
  <2>3. CASE \A v \in Worker : ~InFailover(v)
    <3>1. Active = FALSE /\ HandledSoFar = 0
      BY <2>3, NoneAtWork
    <3> QED
      BY <2>2, <3>1 DEF AbstractStep
  <2>4. ASSUME NEW w \in Worker, InFailover(w) PROVE AbstractStep
    <3>1. Active = TRUE
      BY <2>4, OneAtWork DEF OneInv, OneFailover
    <3> QED
      BY <1>2, <2>2, <3>1 DEF F!End
  <2> QED
    BY <2>3, <2>4
<1>8. ASSUME NEW s \in Site, ConnectionChanges(s) PROVE AbstractStep
  BY <1>1, <1>8 DEF ConnectionChanges
<1>9. ASSUME NEW g \in Guest, ReplicationReports(g) PROVE AbstractStep
  BY <1>1, <1>9 DEF ReplicationReports
<1>10. ASSUME NEW g \in Guest, StartEnds(g) PROVE AbstractStep
  BY <1>1, <1>10 DEF StartEnds
<1> QED
  BY <1>3, <1>4, <1>5, <1>6, <1>7, <1>8, <1>9, <1>10 DEF Next, PlanStep, AbstractStep

(* Every behaviour of a plan is one of the abstract failover: one at a time,   *)
(* its guests one after another in the plan's order, never past the last.      *)
THEOREM ImplementsFailover == ASSUME NoParting PROVE Spec => F!Safety
<1>1. Init => F!Init
  <2> SUFFICES ASSUME Init PROVE F!Init
    OBVIOUS
  <2>1. \A w \in Worker : ~InFailover(w)
    BY DEF Init, PlanInit, InFailover, FailoverKinds
  <2> QED
    BY <2>1, NoneAtWork DEF F!Init
<1>2. OneInv /\ [Next]_vars => [F!Next]_<<Active, HandledSoFar>>
  BY FailoverStep DEF AbstractStep
<1> QED
  BY <1>1, <1>2, OneInvHolds, PTL DEF Spec, F!Safety, F!vars
================================================================================
