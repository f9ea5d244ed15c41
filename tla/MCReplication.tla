----------------------------- MODULE MCReplication -----------------------------
(* Instances of Replication for TLC. *)
EXTENDS Replication, TLC

CONSTANTS g1, g2, r1, r2

Runs == Permutations(Run)
================================================================================
