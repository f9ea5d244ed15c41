--------------------------- MODULE MCRollingUpdate ---------------------------
(* Instances of RollingUpdate for TLC. *)
EXTENDS RollingUpdate

CONSTANTS n1, n2

TwoNodes == <<n1, n2>>

\* The form's defaults, and the options that leave a wait or a pause out.
Careful == [skipUpToDate |-> TRUE, evacuate |-> TRUE, pauseOnErrors |-> TRUE,
            reboot |-> TRUE, waitForReboot |-> TRUE]
Hasty == [skipUpToDate |-> FALSE, evacuate |-> FALSE, pauseOnErrors |-> FALSE,
          reboot |-> TRUE, waitForReboot |-> FALSE]
Lenient == [Careful EXCEPT !.pauseOnErrors = FALSE, !.reboot = FALSE]
SomeOptions == {Careful, Hasty, Lenient}
==============================================================================
