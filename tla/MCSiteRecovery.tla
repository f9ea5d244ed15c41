---------------------------- MODULE MCSiteRecovery -----------------------------
(* Instances of SiteRecovery for TLC. *)
EXTENDS SiteRecovery, TLC

CONSTANTS g1, g2, w1, w2

TwoGuests == <<g1, g2>>
OneGuest == <<g1>>
ToProxmox == ("source" :> "proxmox") @@ ("target" :> "proxmox")
ToXcpng == ("source" :> "proxmox") @@ ("target" :> "xcpng")

Workers == Permutations(Worker)
================================================================================
