--------------------------- MODULE DisasterRecovery ----------------------------
(***************************************************************************)
(* A recovery plan together with the replication jobs of its guests.  The  *)
(* two meet in the job's last_status, which the heartbeat reads before an  *)
(* automatic failover, in the connections of the two clusters, and on the  *)
(* target cluster, where a failover starts what a run has put there and a  *)
(* run deletes whatever has the guest's id.  A restart ends the workers    *)
(* and the runs.  This module extends that of the jobs and instantiates    *)
(* that of the plan.                                                       *)
(***************************************************************************)
EXTENDS Replication, Sequences

CONSTANTS
    Order, Worker, Kind, Timeout, LongPause, ShortPause, Ops, Refusals, Crashes

VARIABLES
    status, auto, tested, kind, at, failed, since, pause, unseen, clones

P == INSTANCE SiteRecovery

ASSUME PlanAssumption == P!SRAssumption

\* What is left are the variables both share: repl, up and guest.
planVars == <<status, auto, tested, kind, at, failed, since, pause, unseen, clones>>
jobVars == <<due, latest, pc, job, id, snaps, clone>>
jointVars == <<vars, planVars>>

\* Every job has yet to run.
JointInit == P!PlanInit /\ Init

ConnectionOfBoth(s) == ConnectionChanges(s) /\ UNCHANGED planVars

RestartOfBoth == P!Restart /\ Restart

JointNext ==
    \/ P!PlanStep /\ UNCHANGED jobVars
    \/ JobStep /\ UNCHANGED planVars
    \/ \E s \in Site : ConnectionOfBoth(s)
    \/ RestartOfBoth

JointFairness ==
    /\ \A w \in Worker : WF_jointVars(P!WorkerStep(w) /\ UNCHANGED jobVars)
    /\ WF_jointVars(P!Heartbeat /\ UNCHANGED jobVars)
    /\ \A r \in Run : WF_jointVars(RunStep(r) /\ UNCHANGED planVars)
    /\ \A g \in Guest : SF_jointVars(\E r \in Run : Schedule(r, g) /\ UNCHANGED planVars)

JointSpec == JointInit /\ [][JointNext]_jointVars /\ JointFairness

(***************************************************************************)
(* Properties.                                                             *)
(***************************************************************************)
AutoFailover == \E w \in Worker : P!AutoFailover(w)
AllOnTarget == \A i \in 1 .. Len(Order) : guest[Order[i]] # "none"

\* If no run of a guest of the plan is at work, and each one's latest run was alone
\* and got its report written, an automatic failover finds every guest on the
\* target: what the heartbeat takes from last_status.
Settled ==
    \A i \in 1 .. Len(Order) : ~AtWork(Order[i]) /\ latest[Order[i]] = "alone"
AutoFindsReplicas == [][AutoFailover /\ Settled => AllOnTarget]_jointVars

\* An automatic failover finds every guest of the plan on the target, at any
\* time ("Otherwise we'd start VMs that were never copied").
AutoAlwaysFindsReplicas == [][AutoFailover => AllOnTarget]_jointVars

\* What a replication removes from the target is an old copy, not a guest that
\* a failover has brought up there ("removing old replica").
RecoveredGuestStays ==
    [][\A g \in Guest : guest[g] = "running" => guest'[g] = "running"]_jointVars

\* With auto_failover on and the source gone for good after a successful
\* replication, the plan fails over ("Automatic emergency failover on cluster
\* outage").
OutageFailsOver ==
    []((AllOnTarget /\ status = "ready" /\ \A i \in 1 .. Len(Order) : repl[Order[i]] = "ok")
        /\ [](auto /\ ~up["source"]) => <>(status # "ready"))
================================================================================
