-------------------------------- MODULE Failover --------------------------------
(* What a recovery plan promises: one failover at a time, which handles the     *)
(* plan's guests one after another and then ends, or is broken off.             *)
EXTENDS Naturals

CONSTANT Guests  \* how many guests the plan protects

VARIABLES
    active,   \* a failover of the plan is under way
    handled   \* how many guests it has handled

vars == <<active, handled>>

Init == active = FALSE /\ handled = 0

Start ==
    /\ ~active
    /\ active' = TRUE
    /\ UNCHANGED handled

Handle ==
    /\ active
    /\ handled < Guests
    /\ handled' = handled + 1
    /\ UNCHANGED active

End ==
    /\ active
    /\ active' = FALSE
    /\ handled' = 0

Next == Start \/ Handle \/ End

Safety == Init /\ [][Next]_vars

Spec == Safety /\ WF_vars(Handle \/ End)
================================================================================
