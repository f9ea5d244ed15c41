-------------------------- MODULE MCDisasterRecovery ---------------------------
(* Instances of DisasterRecovery for TLC. *)
EXTENDS DisasterRecovery, TLC

CONSTANTS g1, r1, r2, w1, w2

OneGuest == <<g1>>
Runs == Permutations(Run)
ToProxmox == ("source" :> "proxmox") @@ ("target" :> "proxmox")
================================================================================
