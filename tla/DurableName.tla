---------------------------- MODULE DurableName ----------------------------
(***************************************************************************)
(* What system.rs promises of the user-facing GOLFER name, without slots,  *)
(* generations or flash: one durable name that a change replaces as a      *)
(* whole, a RAM copy, and an answer to the caller that can be believed.    *)
(* A power loss in the middle of a change leaves the old or the new name,  *)
(* never anything else.                                                    *)
(***************************************************************************)

CONSTANTS
  Names,        \* the names make_name() accepts
  DefaultName   \* the name derived from the chip ID

VARIABLES
  durable,      \* the name the next boot will load
  ram,          \* System.config.name while powered
  old,          \* the name to fall back to while a change is under way
  phase,        \* "off", "idle" or "busy" (a change is under way)
  reply         \* the last answer set_name() gave: "none", "Ok" or "Err"

vars == <<durable, ram, old, phase, reply>>

Init ==
  /\ durable = DefaultName
  /\ ram = DefaultName
  /\ old = DefaultName
  /\ phase = "off"
  /\ reply = "none"

(* A boot loads the durable name. *)
Boot ==
  /\ phase = "off"
  /\ phase' = "idle"
  /\ ram' = durable
  /\ old' = durable
  /\ reply' = "none"
  /\ UNCHANGED durable

(* An unacceptable name, or the name already in force: nothing changes. *)
Answer ==
  /\ phase = "idle"
  /\ reply' \in {"Ok", "Err"}
  /\ UNCHANGED <<durable, ram, old, phase>>

Begin(n) ==
  /\ phase = "idle"
  /\ phase' = "busy"
  /\ ram' = n
  /\ old' = ram
  /\ reply' = "none"
  /\ UNCHANGED durable

(* The instant at which the new name becomes the durable one. *)
Commit ==
  /\ phase = "busy"
  /\ durable' = ram
  /\ UNCHANGED <<ram, old, phase, reply>>

(* "Ok" is only answered for a name that is durable ... *)
Succeed ==
  /\ phase = "busy"
  /\ durable = ram
  /\ phase' = "idle"
  /\ reply' = "Ok"
  /\ old' = ram
  /\ UNCHANGED <<durable, ram>>

(* ... and an error only when the old name still is. *)
Fail ==
  /\ phase = "busy"
  /\ durable = old
  /\ phase' = "idle"
  /\ reply' = "Err"
  /\ ram' = old
  /\ UNCHANGED <<durable, old>>

(* Power loss: the change under way happened completely or not at all. *)
Crash ==
  /\ phase # "off"
  /\ durable' \in IF phase = "busy" THEN {durable, ram} ELSE {durable}
  /\ phase' = "off"
  /\ ram' = DefaultName
  /\ old' = DefaultName
  /\ reply' = "none"

Next ==
  \/ Boot
  \/ Answer
  \/ \E n \in Names : Begin(n)
  \/ Commit
  \/ Succeed
  \/ Fail
  \/ Crash

Spec == Init /\ [][Next]_vars
=============================================================================
