-------------------------------- MODULE Rollout --------------------------------
(* What a rolling update promises: it goes through the list of nodes from its   *)
(* first to its last, and goes on to the next one only when every node is in    *)
(* service, but for those that were out when an operator said to go on.         *)
EXTENDS Naturals, Sequences

CONSTANT Order

VARIABLES
    turn,   \* the node whose turn it is
    out,    \* the nodes that are out of service, or may be
    acked   \* the nodes that were out when an operator went on

vars == <<turn, out, acked>>

Init == turn = Order[1] /\ out = {} /\ acked = {}

\* A rolling update is started: nodes that only an earlier one held for failed
\* are forgotten.
Begin ==
    /\ turn' = Order[1]
    /\ out' \in SUBSET out /\ acked' = out

\* The next node's turn.
Advance ==
    /\ out \subseteq acked
    /\ \E i \in 1 .. Len(Order) - 1 : turn = Order[i] /\ turn' = Order[i + 1]
    /\ UNCHANGED <<out, acked>>

\* The node in turn goes out of service, or fails: then the next one waits for
\* an operator, whatever was known of it before.
Take ==
    /\ out \subseteq acked \cup {turn}
    /\ out' = out \cup {turn}
    /\ acked' \in {acked, acked \ {turn}}
    /\ UNCHANGED turn

Return == out' \in SUBSET out /\ UNCHANGED <<turn, acked>>

\* An operator goes on, knowing what is out.
Resume == acked' = out /\ UNCHANGED <<turn, out>>

Next == Begin \/ Advance \/ Take \/ Return \/ Resume

Spec == Init /\ [][Next]_vars
================================================================================
