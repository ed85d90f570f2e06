------------------------------ MODULE MCBeacon ------------------------------
(* Instance for TLC: Beacon with half-second clock steps, a tolerance of one, and
   stray numbers out of reach. *)
EXTENDS Beacon

MCWildSequences == {9000, 9002}
MCClockSteps == {500}
=============================================================================
