------------------------ MODULE DisasterRecoveryProofs ------------------------
(* What of the replication jobs' guarantees the recovery plan can rely on, for *)
(* every plan, every pool of workers and runs and every behaviour of the       *)
(* clusters: the invariant of ReplicationProofs survives the plan's steps.     *)
EXTENDS DisasterRecovery, ReplicationProofs

(* A step of the plan leaves the jobs and the connections alone, and starts    *)
(* guests on the target: it removes none.                                      *)
LEMMA PlanStepEffect ==
    ASSUME TypeOK, P!PlanStep
    PROVE  /\ UNCHANGED <<repl, up>>
           /\ guest' \in [Guest -> OnTarget]
           /\ \A g \in Guest : guest[g] # "none" => guest'[g] # "none"
<1> USE DEF P!siteVars
<1>1. ASSUME UNCHANGED <<repl, up, guest>>
      PROVE  /\ UNCHANGED <<repl, up>>
             /\ guest' \in [Guest -> OnTarget]
             /\ \A g \in Guest : guest[g] # "none" => guest'[g] # "none"
  BY <1>1 DEF TypeOK
<1>2. CASE P!Handlers
  <2>1. UNCHANGED <<repl, up, guest>>
    BY <1>2 DEF P!Handlers, P!PlannedFailover, P!EmergencyFailover, P!Failback,
       P!TestFailover, P!CleanupTest, P!Cancel, P!Delete, P!ToggleAuto
  <2> QED
    BY <1>1, <2>1
<1>3. CASE P!Heartbeat
  <2>1. UNCHANGED <<repl, up, guest>>
    BY <1>3 DEF P!Heartbeat, P!HeartbeatSkips, P!HeartbeatSeesSource, P!HeartbeatWaits,
       P!HeartbeatBlocks, P!AutoFailover
  <2> QED
    BY <1>1, <2>1
<1>4. ASSUME NEW w \in Worker, P!WorkerDies(w) PROVE UNCHANGED <<repl, up, guest>>
  BY <1>4 DEF P!WorkerDies
<1>5. ASSUME NEW w \in Worker, P!StartReplica(w)
      PROVE  /\ UNCHANGED <<repl, up>>
             /\ guest' = [guest EXCEPT ![Order[at[w]]] = IF @ = "running" THEN @ ELSE "starting"]
  BY <1>5 DEF P!StartReplica
<1>6. ASSUME NEW w \in Worker, P!WorkerStep(w), ~P!StartReplica(w)
      PROVE  UNCHANGED <<repl, up, guest>>
  BY <1>6 DEF P!WorkerStep, P!Begin, P!RunCleanup, P!CannotStart, P!Migrate,
     P!CloneForTest, P!FinishWork
<1>7. CASE \E w \in Worker : P!StartReplica(w)
  BY <1>5, <1>7 DEF TypeOK, OnTarget
<1>8. CASE \E g \in Guest : P!StartEnds(g)
  BY <1>8 DEF P!StartEnds, TypeOK, OnTarget
<1> QED
  BY <1>1, <1>2, <1>3, <1>4, <1>6, <1>7, <1>8 DEF P!PlanStep

LEMMA PlanKeepsOk ==
    ASSUME OkInv, P!PlanStep, UNCHANGED jobVars
    PROVE  OkInv'
<1>1. /\ UNCHANGED <<repl, up, due, latest, pc, job, id, snaps, clone>>
      /\ guest' \in [Guest -> OnTarget]
      /\ \A g \in Guest : guest[g] # "none" => guest'[g] # "none"
  BY PlanStepEffect DEF OkInv, jobVars
<1>2. TypeOK'
  BY <1>1 DEF OkInv, TypeOK
<1>3. OneRun' /\ OkMeansReplica'
  BY <1>1 DEF OkInv, OneRun, OkMeansReplica, AtWork
<1>4. ASSUME NEW r \in Run PROVE Keeping(r)'
  <2>1. job[r] \in Guest
    BY DEF OkInv, TypeOK
  <2> QED
    BY <1>1, <2>1 DEF OkInv, Keeping, Kept
<1> QED
  BY <1>2, <1>3, <1>4 DEF OkInv

LEMMA OkHolds == JointSpec => []OkInv
<1>1. JointInit => OkInv
  BY OkInit DEF JointInit
<1>2. OkInv /\ [JointNext]_jointVars => OkInv'
  <2>1. OkInv /\ P!PlanStep /\ UNCHANGED jobVars => OkInv'
    BY PlanKeepsOk
  <2>2. ASSUME OkInv, JobStep \/ (\E s \in Site : ConnectionChanges(s)) \/ UNCHANGED vars
        PROVE  OkInv'
    BY <2>2, NextType, OkJobStep DEF OkInv, Next
  <2>3. OkInv /\ Restart => OkInv'
    BY NextType, OkStep DEF OkInv, Next
  <2> QED
    BY <2>1, <2>2, <2>3 DEF RestartOfBoth, JointNext, ConnectionOfBoth, jointVars
<1> QED
  BY <1>1, <1>2, PTL DEF JointSpec

(* What 'ok' means survives failovers, tests and deletions of the plan: while  *)
(* no run of a job that says 'ok' is at work, and the latest one was alone,    *)
(* the target has the guest.                                                   *)
THEOREM OkOfBoth == JointSpec => []OkMeansReplica
<1>1. OkInv => OkMeansReplica
  BY DEF OkInv
<1> QED
  BY <1>1, OkHolds, PTL

(* An automatic failover finds each guest of the plan on the target if no run  *)
(* of the guest is at work and its latest one was alone, whatever overlapped   *)
(* or failed before: last_status is all the heartbeat looks at.                *)
THEOREM FindsReplicas == JointSpec => AutoFindsReplicas
<1> DEFINE A == AutoFailover /\ Settled => AllOnTarget
<1>1. OkInv => A
  <2> SUFFICES ASSUME OkInv, AutoFailover, Settled,
                      NEW i \in 1 .. Len(Order)
               PROVE  guest[Order[i]] # "none"
    BY DEF AllOnTarget
  <2>1. repl[Order[i]] = "ok"
    BY DEF AutoFailover, P!AutoFailover, P!Replicated
  <2>2. Order[i] \in Guest
    BY PlanAssumption DEF P!SRAssumption
  <2> QED
    BY <2>1, <2>2 DEF OkInv, OkMeansReplica, Settled
<1>2. A => [A]_jointVars
  OBVIOUS
<1> HIDE DEF A
<1>3. [][A]_jointVars <=> AutoFindsReplicas
  BY DEF A, AutoFindsReplicas
<1> QED
  BY <1>1, <1>2, <1>3, OkHolds, PTL
================================================================================
