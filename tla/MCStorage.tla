----------------------------- MODULE MCStorage ------------------------------
(* Instance for TLC of the two modules of storage.rs, each for itself.
   BootSession with a new card, one of an earlier firmware without BOOT.NXT, and
   cards with stale and exhausted counters; LogStore with short and full-length
   lines, and a buffer for a few of them that no number of full-length lines fills
   exactly.  A behaviour is one of the two; the variables of the other keep their
   initial values. *)
EXTENDS Storage

CONSTANT Parts  \* the specifications to run: "session", "logs"

VARIABLE part   \* the one that runs

ASSUME MCSessionAssumption == Session!SessionAssumption

sessionvars ==
  <<counter, directories, pc, session, volume_open, dirs, files, boots, faults,
    faulted, allocated, reused, recorded>>
mcvars == <<part, vars, sessionvars>>

(* What the initial values leave open is settled in the part that does not run. *)
MCInit ==
  /\ part \in Parts
  /\ Init /\ Session!Init
  /\ part = "session" => mode = "global"
  /\ part = "logs" => counter = None /\ directories = {}

Starting == part = "session" /\ Session!Next /\ UNCHANGED <<part, vars>>
Logging == part = "logs" /\ Next /\ UNCHANGED <<part, sessionvars>>

MCNext == Starting \/ Logging

MCSpec == MCInit /\ [][MCNext]_mcvars

-----------------------------------------------------------------------------
MCCounters == {None, 0, 1, 2, 5}
MCDirectories == {{}, {1}, {1, 3}}
MCNewCard == {None}
MCNoDirectories == {{}}
MCLineSizes == {1, 3}
=============================================================================
