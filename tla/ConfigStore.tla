---------------------------- MODULE ConfigStore ----------------------------
(***************************************************************************)
(* The persistent configuration of system.rs: one GOLFER name kept in two  *)
(* flash sectors, slot A and slot B, written alternately.  A record is     *)
(* written to the slot that is not active, read back, and only then made   *)
(* active; a boot loads the readable slot with the larger generation.      *)
(*                                                                         *)
(* A slot is abstracted to what decode_config_record() can tell of it: a   *)
(* valid record with its generation and name, or nothing.  Erased, torn,   *)
(* corrupt and foreign contents are all "nothing".  persist_config() is    *)
(* split where power can be lost or the driver can fail: erase, write,     *)
(* verify.  The flash driver (embassy-rp) may fail a call, and a worn      *)
(* sector may report success without holding the data.                     *)
(***************************************************************************)
EXTENDS Naturals

CONSTANTS
  Names,             \* names make_name() accepts
  DefaultName,       \* the name default_name() derives from the chip ID
  GenerationModulus, \* 2^32: the generation is a u32 that wraps
  WearLimit,         \* bound: erases the two sectors survive (model bound and
                     \* physical one: after it an erase reports a failure)
  ReadsReliable      \* TRUE: a read returns what the sector holds

ASSUME ConfigAssumption ==
  /\ DefaultName \in Names
  /\ GenerationModulus \in Nat \ {0}
  /\ WearLimit \in Nat
  /\ ReadsReliable \in BOOLEAN

(* Flash sectors rated for 10^5 erases cannot reach 2^32 generations. *)
ASSUME EnduranceAssumption == WearLimit < GenerationModulus

VARIABLES
  slots,      \* the two sectors, as decode_config_record() sees them
  erases,     \* erases done so far
  pc,         \* where the CPU is: "off", "idle", "erase", "write", "verify", "panic"
  name,       \* System.config.name
  active,     \* System.active_slot
  generation, \* System.generation
  previous,   \* the clone set_name() keeps to roll back to
  caller,     \* who called persist_config(): "boot" or "set_name"
  reply       \* what the last set_name() returned, "none" while there is none

vars == <<slots, erases, pc, name, active, generation, previous, caller, reply>>
system == <<name, active, generation, previous, caller>>

Slot == {"A", "B"}
NameErrors == {"NameEmpty", "NameTooLong", "NameContainsControl"}
FlashErrors == {"FlashErase", "FlashWrite", "FlashVerify"}
Record == [valid : BOOLEAN, generation : Nat, name : Names]

(* decode_config_record() of anything that is not a good record. *)
NoRecord == [valid |-> FALSE, generation |-> 0, name |-> DefaultName]

encode(n, g) == [valid |-> TRUE, generation |-> g, name |-> n]

Other(s) == IF s = "A" THEN "B" ELSE "A"

(* The slot persist_config() writes: the inactive one, A when there is none. *)
TargetSlot == IF active = "none" THEN "A" ELSE Other(active)

(* wrapping_add(1).max(1): zero is never a generation. *)
NextGeneration ==
  LET wrapped == (generation + 1) % GenerationModulus
  IN  IF wrapped = 0 THEN 1 ELSE wrapped

(* newest_slot(): B only when strictly newer, so a tie goes to A. *)
NewestSlot(a, b) ==
  IF a.valid /\ b.valid THEN (IF b.generation > a.generation THEN "B" ELSE "A")
  ELSE IF a.valid THEN "A"
  ELSE IF b.valid THEN "B"
  ELSE "none"

(* What a read of a sector may yield: a failed or garbled read is no record. *)
ReadSlot(s) == IF ReadsReliable THEN {slots[s]} ELSE {slots[s], NoRecord}

Init ==
  /\ slots = [s \in Slot |-> NoRecord]
  /\ erases = 0
  /\ pc = "off"
  /\ name = DefaultName
  /\ active = "none"
  /\ generation = 0
  /\ previous = DefaultName
  /\ caller = "boot"
  /\ reply = "none"

-----------------------------------------------------------------------------
(* init()                                                                   *)

(* The chip ID cannot be read: the firmware panics and stays there. *)
BootPanic ==
  /\ pc = "off"
  /\ pc' = "panic"
  /\ UNCHANGED <<slots, erases, reply>>
  /\ UNCHANGED system

(* At least one slot decodes: the newest one is loaded, nothing is written. *)
BootFromFlash ==
  /\ pc = "off"
  /\ \E a \in ReadSlot("A"), b \in ReadSlot("B") :
       LET s == NewestSlot(a, b)
           r == IF s = "A" THEN a ELSE b
       IN  /\ s # "none"
           /\ name' = r.name
           /\ previous' = r.name
           /\ active' = s
           /\ generation' = r.generation
  /\ pc' = "idle"
  /\ UNCHANGED <<slots, erases, caller, reply>>

(* No slot decodes: the derived name, and an attempt to persist it. *)
BootWithDefault ==
  /\ pc = "off"
  /\ \E a \in ReadSlot("A"), b \in ReadSlot("B") : NewestSlot(a, b) = "none"
  /\ name' = DefaultName
  /\ previous' = DefaultName
  /\ active' = "none"
  /\ generation' = 0
  /\ caller' = "boot"
  /\ pc' = "erase"
  /\ UNCHANGED <<slots, erases, reply>>

-----------------------------------------------------------------------------
(* set_name()                                                               *)

RejectName ==
  /\ pc = "idle"
  /\ \E e \in NameErrors : reply' = e
  /\ UNCHANGED <<slots, erases, pc>>
  /\ UNCHANGED system

SetSameName ==
  /\ pc = "idle"
  /\ reply' = "Ok"
  /\ UNCHANGED <<slots, erases, pc>>
  /\ UNCHANGED system

SetName(n) ==
  /\ pc = "idle"
  /\ n # name
  /\ previous' = name
  /\ name' = n
  /\ caller' = "set_name"
  /\ reply' = "none"
  /\ pc' = "erase"
  /\ UNCHANGED <<slots, erases, active, generation>>

-----------------------------------------------------------------------------
(* persist_config()                                                         *)

(* Mutant: no rollback of the name. *)
AbortKeepsNewName(err) ==
  /\ pc' = "idle"
  /\ reply' = IF caller = "set_name" THEN err ELSE reply
  /\ UNCHANGED <<name, active, generation, previous, caller>>

(* An error: set_name() rolls the RAM name back and passes the error on;    *)
(* init() only warns and goes on with the RAM default.                      *)
Abort(err) ==
  /\ pc' = "idle"
  /\ IF caller = "set_name"
       THEN name' = previous /\ reply' = err
       ELSE UNCHANGED <<name, reply>>
  /\ UNCHANGED <<active, generation, previous, caller>>

(* The erase is reported done; a worn sector may still hold the old data. *)
EraseOk ==
  /\ pc = "erase"
  /\ erases < WearLimit
  /\ erases' = erases + 1
  /\ \E r \in {NoRecord, slots[TargetSlot]} :
       slots' = [slots EXCEPT ![TargetSlot] = r]
  /\ pc' = "write"
  /\ UNCHANGED reply
  /\ UNCHANGED system

EraseFails ==
  /\ pc = "erase"
  /\ \E r \in {NoRecord, slots[TargetSlot]} :
       slots' = [slots EXCEPT ![TargetSlot] = r]
  /\ Abort("FlashErase")
  /\ UNCHANGED erases

(* The write is reported done; the sector holds the record, or garbage, or  *)
(* what it held before.                                                     *)
WriteOk ==
  /\ pc = "write"
  /\ \E r \in {encode(name, NextGeneration), NoRecord, slots[TargetSlot]} :
       slots' = [slots EXCEPT ![TargetSlot] = r]
  /\ pc' = "verify"
  /\ UNCHANGED <<erases, reply>>
  /\ UNCHANGED system

(* A write the driver reports as failed has not completed the record. *)
WriteFails ==
  /\ pc = "write"
  /\ \E r \in {NoRecord, slots[TargetSlot]} :
       slots' = [slots EXCEPT ![TargetSlot] = r]
  /\ Abort("FlashWrite")
  /\ UNCHANGED erases

(* Mutant: the read-back is not compared. *)
VerifiesAnything(r) == TRUE

(* The read-back is compared by generation and by name. *)
Verifies(r) == r.valid /\ r.generation = NextGeneration /\ r.name = name

VerifyOk ==
  /\ pc = "verify"
  /\ \E r \in ReadSlot(TargetSlot) : Verifies(r)
  /\ active' = TargetSlot
  /\ generation' = NextGeneration
  /\ previous' = name
  /\ reply' = IF caller = "set_name" THEN "Ok" ELSE reply
  /\ pc' = "idle"
  /\ UNCHANGED <<slots, erases, name, caller>>

VerifyFails ==
  /\ pc = "verify"
  /\ \E r \in ReadSlot(TargetSlot) : ~Verifies(r)
  /\ Abort("FlashVerify")
  /\ UNCHANGED <<slots, erases>>

-----------------------------------------------------------------------------
(* Power loss at any moment.  A sector being erased or programmed is left   *)
(* as it was, as garbage, or, for a write, with the record complete.        *)

TornContents ==
  {slots[TargetSlot]}
    \cup {r \in {NoRecord} : pc \in {"erase", "write"}}
    \cup {r \in {encode(name, NextGeneration)} : pc = "write"}

PowerLoss ==
  /\ pc # "off"
  /\ \E r \in TornContents : slots' = [slots EXCEPT ![TargetSlot] = r]
  /\ pc' = "off"
  /\ name' = DefaultName
  /\ active' = "none"
  /\ generation' = 0
  /\ previous' = DefaultName
  /\ caller' = "boot"
  /\ reply' = "none"
  /\ UNCHANGED erases

Next ==
  \/ BootPanic
  \/ BootFromFlash
  \/ BootWithDefault
  \/ RejectName
  \/ SetSameName
  \/ \E n \in Names : SetName(n)
  \/ EraseOk
  \/ EraseFails
  \/ WriteOk
  \/ WriteFails
  \/ VerifyOk
  \/ VerifyFails
  \/ PowerLoss

Spec == Init /\ [][Next]_vars

-----------------------------------------------------------------------------
(* Types: each slot is a record, each answer one of SystemError or Ok. *)
TypeOK ==
  /\ slots \in [Slot -> Record]
  /\ erases \in 0 .. WearLimit
  /\ pc \in {"off", "idle", "erase", "write", "verify", "panic"}
  /\ name \in Names
  /\ active \in Slot \cup {"none"}
  /\ generation \in Nat
  /\ previous \in Names
  /\ caller \in {"boot", "set_name"}
  /\ reply \in {"none", "Ok"} \cup NameErrors \cup FlashErrors

(* The name the next boot will show, if its reads succeed. *)
Newest == NewestSlot(slots["A"], slots["B"])
Recovered == IF Newest = "none" THEN DefaultName ELSE slots[Newest].name

(* RAM and flash never diverge: whenever no change is under way, the name in
   RAM is the one a reboot would load, whatever failed before (doc of System,
   system.rs 171-172). *)
RamMatchesFlash == pc = "idle" => Recovered = name

(* A change never puts the current configuration at risk: from its start to
   its end the active slot holds, intact, the name in force before it, and no
   erase or write is aimed at the slot a reboot would load (set_name's doc,
   190-192, and the slot choice of persist_config). *)
OldRetainedUntilVerified ==
  pc \in {"erase", "write", "verify"} /\ active # "none" =>
    /\ slots[active] = encode(previous, generation)
    /\ pc # "verify" => Newest = active

NewestGeneration == IF Newest = "none" THEN 0 ELSE slots[Newest].generation

(* The largest generation on flash never goes back, not over failed writes and
   not over power losses: the order newest_slot() relies on is never undone. *)
GenerationNeverDecreases == [][NewestGeneration' >= NewestGeneration]_vars

Changing == pc \in {"erase", "write", "verify"} /\ caller = "set_name"

(* The abstraction is the name a reboot would load; the default record written
   by a first boot does not change it and is invisible. *)
Abstract == INSTANCE DurableName WITH
  durable <- Recovered,
  ram     <- name,
  old     <- previous,
  phase   <- IF pc \in {"off", "panic"} THEN "off" ELSE IF Changing THEN "busy" ELSE "idle",
  reply   <- IF reply \in {"none", "Ok"} THEN reply ELSE "Err"

(* The two slots together are one durable name that changes atomically,
   with an answer that can be believed (set_name, system.rs 190-211). *)
ImplementsDurableName == Abstract!Spec
=============================================================================
