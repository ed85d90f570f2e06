--------------------------- MODULE MCBeaconFaults ---------------------------
(* Instance of BeaconFaults for TLC: leaps just beyond and far beyond what
   one second makes plausible. *)
EXTENDS BeaconFaults
MCJumps == {2, 6}
=============================================================================
