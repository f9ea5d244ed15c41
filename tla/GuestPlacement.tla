---------------------------- MODULE GuestPlacement ----------------------------
(* What high availability promises about a guest: it is in one place at a time. *)
(* Its configuration leaves a node only after the node has failed and while the *)
(* guest runs nowhere, and it starts only where its configuration is.  A guest  *)
(* that could not be stopped on a failed node may be given up on: it is the     *)
(* only one that may run twice.                                                 *)

CONSTANTS Node, VM

VARIABLES
    failed,  \* nodes that have failed
    conf,    \* node that holds the guest's configuration
    runs,    \* nodes on which the guest is running
    lost     \* guests given up on

vars == <<failed, conf, runs, lost>>

Init ==
    /\ failed = {}
    /\ conf \in [VM -> Node]
    /\ runs = [v \in VM |-> {conf[v]}]
    /\ lost = {}

\* The guests in S stop on node n.
Without(n, S) == [v \in VM |-> IF v \in S THEN runs[v] \ {n} ELSE runs[v]]

\* A node fails, and its guests with it or not.
Fail(n) ==
    /\ n \notin failed
    /\ failed' = failed \cup {n}
    /\ runs' \in {runs, Without(n, VM)}
    /\ UNCHANGED <<conf, lost>>

\* Guests of a failed node are stopped; some that go on running are given up on.
Stop(n) ==
    /\ n \in failed
    /\ \E S, T \in SUBSET VM :
         /\ \A v \in T : n \in runs[v]
         /\ runs' = Without(n, S)
         /\ lost' = lost \cup T
    /\ UNCHANGED <<failed, conf>>

Free(v) == runs[v] = {} \/ v \in lost

Move(v, n) ==
    /\ Free(v)
    /\ conf[v] \in failed /\ n \notin failed
    /\ conf' = [conf EXCEPT ![v] = n]
    /\ UNCHANGED <<failed, runs, lost>>

Start(v) ==
    /\ Free(v)
    /\ conf[v] \notin failed
    /\ runs' = [runs EXCEPT ![v] = @ \cup {conf[v]}]
    /\ UNCHANGED <<failed, conf, lost>>

Next ==
    \/ \E n \in Node : Fail(n) \/ Stop(n)
    \/ \E v \in VM : Start(v) \/ \E n \in Node : Move(v, n)

Spec == Init /\ [][Next]_vars
================================================================================
