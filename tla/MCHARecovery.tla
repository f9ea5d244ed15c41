----------------------------- MODULE MCHARecovery -----------------------------
(* Instances of HARecovery for TLC. *)
EXTENDS HARecovery, TLC

CONSTANTS a, b, n1, n2, n3, v1, v2, w1, w2, w3, ha, hb

OneHolderEach == (a :> ha) @@ (b :> hb)
OneInst == a :> ha
HomeN1 == v1 :> n1
BothOnN1 == (v1 :> n1) @@ (v2 :> n1)

Workers == Permutations(Worker)
================================================================================
