------------------------- MODULE ConfigStoreProofs -------------------------
(***************************************************************************)
(* Proofs about ConfigStore, for every set of names, every wear limit the  *)
(* generation counter can hold, and reads that return what is stored.      *)
(* The inductive invariant has two parts: generations are bounded by the   *)
(* number of erases, so the counter does not wrap; and the slot that is    *)
(* not active is either unreadable, older, or (after a write) exactly the  *)
(* record being verified.                                                  *)
(***************************************************************************)
EXTENDS ConfigStore, TLAPS

(* Generations are paid for with erases: the u32 never gets to wrap. *)
GenerationInv ==
  /\ generation <= erases
  /\ \A s \in Slot : slots[s].valid => slots[s].generation \in 1 .. erases
  /\ pc \in {"write", "verify"} => generation + 1 <= erases

(* The record an unfinished persist_config() may already have completed. *)
NewRecord == encode(name, generation + 1)

(* While the system runs: the active slot is the configuration, the target
   slot is nothing, something older, or the record being verified. *)
RunningInv ==
  pc \in {"idle", "erase", "write", "verify"} =>
    /\ (pc = "idle" \/ caller = "boot") => name = previous
    /\ caller = "boot" /\ pc # "idle" => active = "none"
    /\ active = "none" => generation = 0 /\ previous = DefaultName
    /\ active # "none" => slots[active] = encode(previous, generation)
    /\ active = "none" => ~slots["B"].valid
    /\ \/ ~slots[TargetSlot].valid
       \/ slots[TargetSlot].generation < generation
       \/ pc = "verify" /\ slots[TargetSlot] = NewRecord

(* While it does not: two readable slots are told apart by generation. *)
StoppedInv ==
  pc \in {"off", "panic"} =>
    /\ slots["A"].valid /\ slots["B"].valid =>
         slots["A"].generation # slots["B"].generation
    /\ name = DefaultName /\ previous = DefaultName
    /\ active = "none" /\ generation = 0 /\ caller = "boot" /\ reply = "none"

IInv == TypeOK /\ GenerationInv /\ RunningInv /\ StoppedInv

-----------------------------------------------------------------------------
(* A number below the modulus is its own remainder. *)
LEMMA SmallModulo ==
  ASSUME NEW a \in Nat, NEW m \in Nat \ {0}, a < m
  PROVE  a % m = a
  OBVIOUS

(* Generations never wrap while they are bounded by the erases: next_generation
   of persist_config() is the successor whenever it is written or compared. *)
LEMMA NextIsSuccessor ==
  ASSUME TypeOK, GenerationInv, pc \in {"write", "verify"}
  PROVE  NextGeneration = generation + 1
<1>1. generation \in Nat /\ generation + 1 <= erases /\ erases <= WearLimit
  BY DEF TypeOK, GenerationInv
<1>2. generation + 1 < GenerationModulus /\ GenerationModulus \in Nat \ {0}
  BY <1>1, ConfigAssumption, EnduranceAssumption DEF TypeOK
<1>3. (generation + 1) % GenerationModulus = generation + 1
  BY <1>1, <1>2, SmallModulo
<1>4. QED
  BY <1>1, <1>3 DEF NextGeneration

(* What newest_slot() picks from any contents f that keep the active slot: the
   active one when the target is nothing or older, the target when it holds
   the new record. *)
LEMMA SlotChoice ==
  ASSUME NEW f \in [Slot -> Record],
         active \in Slot \cup {"none"}, generation \in Nat,
         active # "none" => f[active] = encode(previous, generation),
         active = "none" => ~f["B"].valid /\ generation = 0
  PROVE  /\ (~f[TargetSlot].valid \/ f[TargetSlot].generation < generation)
              => NewestSlot(f["A"], f["B"]) = active
         /\ f[TargetSlot] = NewRecord => NewestSlot(f["A"], f["B"]) = TargetSlot
<1> USE DEF Record, Slot, encode, TargetSlot, Other, NewestSlot, NewRecord
<1>1. CASE active = "none"
  BY <1>1
<1>2. CASE active = "A"
  BY <1>2
<1>3. CASE active = "B"
  BY <1>3
<1>4. QED
  BY <1>1, <1>2, <1>3

(* Before anything is complete in the target slot a reboot loads the active one. *)
LEMMA ActiveIsNewest ==
  ASSUME TypeOK, RunningInv, GenerationInv,
         pc \in {"idle", "erase", "write"} \/ (pc = "verify" /\ slots[TargetSlot] # NewRecord)
  PROVE  Recovered = previous /\ NewestGeneration = generation /\ Newest = active
<1>1. ~slots[TargetSlot].valid \/ slots[TargetSlot].generation < generation
  BY DEF RunningInv
<1>2. Newest = active
  BY <1>1, SlotChoice DEF TypeOK, RunningInv, GenerationInv, Newest, Slot
<1>3. QED
  BY <1>2 DEF Recovered, NewestGeneration, RunningInv, encode

(* Once it is complete there, a reboot loads the new name. *)
LEMMA NewIsNewest ==
  ASSUME TypeOK, RunningInv, GenerationInv, pc = "verify", slots[TargetSlot] = NewRecord
  PROVE  Recovered = name /\ NewestGeneration = generation + 1
<1>1. Newest = TargetSlot
  BY SlotChoice DEF TypeOK, RunningInv, GenerationInv, Newest, Slot
<1>2. TargetSlot # "none"
  BY DEF TargetSlot, Other
<1>3. QED
  BY <1>1, <1>2 DEF Recovered, NewestGeneration, NewRecord, encode

-----------------------------------------------------------------------------
(* The steps of Next keep the inductive invariant, one lemma for each group. *)

(* A factory-fresh, unpowered device. *)
LEMMA InitHolds == Init => IInv
  BY ConfigAssumption
  DEF Init, IInv, TypeOK, GenerationInv, RunningInv, StoppedInv, Slot, Record, NoRecord,
      NameErrors, FlashErrors

(* A boot starts from slots that StoppedInv tells apart. *)
LEMMA BootSteps ==
  ASSUME ReadsReliable = TRUE, IInv, BootPanic \/ BootFromFlash \/ BootWithDefault
  PROVE  IInv'
<1> USE ConfigAssumption
    DEF IInv, TypeOK, GenerationInv, Slot, Record, system, NameErrors, FlashErrors
<1>1. CASE BootPanic
  BY <1>1 DEF BootPanic, RunningInv, StoppedInv
<1>2. CASE BootFromFlash
  <2>1. PICK s \in Slot :
          /\ s = Newest
          /\ name' = slots[s].name /\ previous' = slots[s].name
          /\ active' = s /\ generation' = slots[s].generation
    BY <1>2 DEF BootFromFlash, ReadSlot, Newest, NewestSlot
  <2>2. pc = "off" /\ pc' = "idle" /\ UNCHANGED <<slots, erases, caller, reply>>
    BY <1>2 DEF BootFromFlash
  <2>3. slots[s].valid /\ slots[s] = encode(slots[s].name, slots[s].generation)
    BY <2>1 DEF Newest, NewestSlot, encode
  <2>4. ~slots[Other(s)].valid \/ slots[Other(s)].generation < slots[s].generation
    BY <2>1, <2>2 DEF Newest, NewestSlot, Other, StoppedInv
  <2>5. RunningInv'
    BY <2>1, <2>2, <2>3, <2>4 DEF RunningInv, TargetSlot, encode
  <2>6. QED
    BY <2>1, <2>2, <2>3, <2>5 DEF StoppedInv
<1>3. CASE BootWithDefault
  <2>1. ~slots["A"].valid /\ ~slots["B"].valid
    BY <1>3 DEF BootWithDefault, ReadSlot, NewestSlot
  <2>2. RunningInv'
    BY <1>3, <2>1 DEF BootWithDefault, RunningInv, TargetSlot
  <2>3. QED
    BY <1>3, <2>2 DEF BootWithDefault, StoppedInv
<1>4. QED
  BY <1>1, <1>2, <1>3

(* set_name() up to the call of persist_config(). *)
LEMMA RequestSteps ==
  ASSUME IInv, RejectName \/ SetSameName \/ \E n \in Names : SetName(n)
  PROVE  IInv'
<1> USE DEF IInv, TypeOK, GenerationInv, RunningInv, StoppedInv, Slot, Record, system, NameErrors,
            FlashErrors, TargetSlot, Other, encode
<1>1. CASE RejectName
  BY <1>1 DEF RejectName
<1>2. CASE SetSameName
  BY <1>2 DEF SetSameName
<1>3. CASE \E n \in Names : SetName(n)
  BY <1>3 DEF SetName
<1>4. QED
  BY <1>1, <1>2, <1>3

(* Damage to the slot that is not active: whatever an erase or a failed write
   leaves there, the sectors stay well-formed and the active one untouched. *)
LEMMA TargetDamaged ==
  ASSUME IInv, pc \in {"erase", "write"},
         NEW r \in {NoRecord, slots[TargetSlot]},
         slots' = [slots EXCEPT ![TargetSlot] = r]
  PROVE  /\ slots' \in [Slot -> Record]
         /\ \A s \in Slot : slots'[s].valid => slots'[s].generation \in 1 .. erases
         /\ active # "none" => slots'[active] = encode(previous, generation)
         /\ active = "none" => ~slots'["B"].valid
         /\ ~slots'[TargetSlot].valid \/ slots'[TargetSlot].generation < generation
<1> USE ConfigAssumption DEF IInv, TypeOK, GenerationInv, Slot, Record, NoRecord
<1>1. TargetSlot \in Slot /\ TargetSlot # active /\ (active = "none" => TargetSlot = "A")
  BY DEF TargetSlot, Other
<1>2. NoRecord \in Record /\ ~NoRecord.valid
  OBVIOUS
<1>3. r \in Record /\ slots'[TargetSlot] = r /\ \A s \in Slot \ {TargetSlot} : slots'[s] = slots[s]
  BY <1>1, <1>2
<1>4. ~slots[TargetSlot].valid \/ slots[TargetSlot].generation < generation
  BY DEF RunningInv
<1>5. QED
  BY <1>1, <1>2, <1>3, <1>4 DEF RunningInv

(* A failed persist_config() ends as if it had not been called. *)
LEMMA AbortHolds ==
  ASSUME IInv, pc \in {"erase", "write"},
         NEW r \in {NoRecord, slots[TargetSlot]},
         slots' = [slots EXCEPT ![TargetSlot] = r],
         NEW err \in FlashErrors, Abort(err), erases' = erases
  PROVE  IInv'
<1> USE TargetDamaged DEF Abort, IInv
<1>1. TypeOK' /\ GenerationInv'
  BY DEF TypeOK, GenerationInv
<1>2. RunningInv'
  BY DEF RunningInv, TargetSlot, TypeOK
<1>3. QED
  BY <1>1, <1>2 DEF StoppedInv

(* An erase and a write touch only the slot that is not active. *)
LEMMA EraseSteps ==
  ASSUME IInv, EraseOk \/ EraseFails
  PROVE  IInv'
<1>1. PICK r \in {NoRecord, slots[TargetSlot]} : slots' = [slots EXCEPT ![TargetSlot] = r]
  BY DEF EraseOk, EraseFails
<1>2. pc = "erase"
  BY DEF EraseOk, EraseFails
<1>3. CASE EraseOk
  <2> DEFINE bounded == \A s \in Slot : slots'[s].valid => slots'[s].generation \in 1 .. erases
  <2>0. slots' \in [Slot -> Record] /\ bounded
    BY <1>1, <1>2, TargetDamaged
  <2>1. TypeOK' /\ GenerationInv'
    <3>1. erases' = erases + 1 /\ erases' \in 0 .. WearLimit /\ erases \in Nat
          /\ generation \in Nat /\ generation <= erases
          /\ generation' = generation /\ pc' = "write"
      BY <1>3, ConfigAssumption DEF EraseOk, IInv, TypeOK, GenerationInv, system
    <3>2. TypeOK'
      BY <1>3, <2>0, <3>1 DEF EraseOk, IInv, TypeOK, system
    <3>3. \A s \in Slot : slots'[s].valid => slots'[s].generation \in 1 .. erases'
      BY <2>0, <3>1
    <3>4. QED
      BY <3>1, <3>2, <3>3 DEF GenerationInv
  <2>2. RunningInv'
    BY <1>1, <1>2, <1>3, TargetDamaged DEF EraseOk, IInv, RunningInv, TargetSlot, system
  <2>3. QED
    BY <1>3, <2>1, <2>2 DEF EraseOk, IInv, StoppedInv
<1>4. CASE EraseFails
  BY <1>1, <1>2, <1>4, AbortHolds DEF EraseFails, FlashErrors
<1>5. QED
  BY <1>3, <1>4

(* A write reaches only the target slot, whatever the driver reports. *)
LEMMA WriteSteps ==
  ASSUME IInv, WriteOk \/ WriteFails
  PROVE  IInv'
<1>1. CASE WriteOk
  <2>1. NextGeneration = generation + 1
    BY <1>1, NextIsSuccessor DEF WriteOk, IInv
  <2>2. PICK r \in {NewRecord, NoRecord, slots[TargetSlot]} :
          slots' = [slots EXCEPT ![TargetSlot] = r]
    BY <1>1, <2>1 DEF WriteOk, NewRecord
  <2>3. pc = "write" /\ pc' = "verify" /\ UNCHANGED <<erases, reply>> /\ UNCHANGED system
    BY <1>1 DEF WriteOk
  <2>4. CASE r # NewRecord
    <3>1. TypeOK' /\ GenerationInv'
      BY <2>2, <2>3, <2>4, TargetDamaged DEF IInv, TypeOK, GenerationInv, system
    <3>2. RunningInv'
      BY <2>2, <2>3, <2>4, TargetDamaged DEF IInv, RunningInv, TargetSlot, system
    <3>3. QED
      BY <2>3, <3>1, <3>2 DEF IInv, StoppedInv
  <2>5. CASE r = NewRecord
    <3>1. TargetSlot \in Slot /\ TargetSlot # active /\ (active = "none" => TargetSlot = "A")
      BY DEF TargetSlot, Other, Slot, IInv, TypeOK
    <3>2. NewRecord \in Record /\ NewRecord.generation \in 1 .. erases
      BY <2>3 DEF NewRecord, encode, Record, IInv, TypeOK, GenerationInv
    <3>3. slots'[TargetSlot] = NewRecord /\ \A s \in Slot \ {TargetSlot} : slots'[s] = slots[s]
      BY <2>2, <2>5, <3>1 DEF IInv, TypeOK
    <3>4. TypeOK' /\ GenerationInv'
      BY <2>2, <2>3, <2>5, <3>1, <3>2, <3>3 DEF IInv, TypeOK, GenerationInv, system
    <3>5. TargetSlot' = TargetSlot /\ NewRecord' = NewRecord
      BY <2>3 DEF TargetSlot, NewRecord, system
    <3>6. RunningInv'
      BY <2>3, <3>1, <3>3, <3>5 DEF IInv, RunningInv, Slot, TypeOK, system
    <3>7. QED
      BY <2>3, <3>4, <3>6 DEF IInv, StoppedInv
  <2>6. QED
    BY <2>4, <2>5
<1>2. CASE WriteFails
  <2>1. PICK r \in {NoRecord, slots[TargetSlot]} : slots' = [slots EXCEPT ![TargetSlot] = r]
    BY <1>2 DEF WriteFails
  <2>2. QED
    BY <1>2, <2>1, AbortHolds DEF WriteFails, FlashErrors
<1>3. QED
  BY <1>1, <1>2

(* Verification moves the active slot exactly when the new record is there. *)
LEMMA VerifySteps ==
  ASSUME ReadsReliable = TRUE, IInv, VerifyOk \/ VerifyFails
  PROVE  IInv'
<1> USE DEF IInv, TypeOK, GenerationInv, RunningInv, StoppedInv, Slot, Record, system, NameErrors,
            FlashErrors, TargetSlot, Other, encode, NewRecord, ReadSlot, Verifies
<1>1. pc = "verify"
  BY DEF VerifyOk, VerifyFails
<1>2. NextGeneration = generation + 1
  BY <1>1, NextIsSuccessor
<1>3. CASE VerifyOk
  BY <1>2, <1>3 DEF VerifyOk
<1>4. CASE VerifyFails
  BY <1>2, <1>4 DEF VerifyFails, Abort
<1>5. QED
  BY <1>3, <1>4

(* Power loss leaves two slots that the next boot can tell apart. *)
LEMMA PowerLossStep ==
  ASSUME IInv, PowerLoss
  PROVE  IInv'
<1> USE ConfigAssumption
    DEF IInv, TypeOK, GenerationInv, Slot, Record, TargetSlot, Other, encode, NoRecord
<1>1. PICK r \in TornContents : slots' = [slots EXCEPT ![TargetSlot] = r]
  BY DEF PowerLoss
<1>2. pc = "write" => NextGeneration = generation + 1
  BY NextIsSuccessor
<1>3. r = slots[TargetSlot] \/ r = NoRecord
        \/ (pc = "write" /\ r = encode(name, generation + 1))
  BY <1>1, <1>2 DEF TornContents
<1>4. /\ pc' = "off" /\ name' = DefaultName /\ active' = "none" /\ generation' = 0
      /\ previous' = DefaultName /\ caller' = "boot" /\ reply' = "none" /\ erases' = erases
  BY DEF PowerLoss
<1>5. TypeOK' /\ GenerationInv'
  <2>1. TargetSlot \in Slot
    OBVIOUS
  <2>2. r \in Record /\ (r.valid => r.generation \in 1 .. erases)
    <3>1. CASE r = slots[TargetSlot]
      BY <2>1, <3>1
    <3>2. CASE r = NoRecord
      BY <3>2
    <3>3. CASE pc = "write" /\ r = encode(name, generation + 1)
      BY <3>3
    <3>4. QED
      BY <1>3, <3>1, <3>2, <3>3
  <2>3. slots' \in [Slot -> Record]
    BY <1>1, <2>1, <2>2
  <2>4. \A s \in Slot : slots'[s] = slots[s] \/ slots'[s] = r
    BY <1>1
  <2>5. \A s \in Slot : slots'[s].valid => slots'[s].generation \in 1 .. erases
    BY <2>2, <2>4
  <2>6. QED
    BY <1>4, <2>3, <2>5
<1>6. StoppedInv'
  <2>1. slots'["A"] = (IF TargetSlot = "A" THEN r ELSE slots["A"])
        /\ slots'["B"] = (IF TargetSlot = "B" THEN r ELSE slots["B"])
    BY <1>1
  <2>2. CASE pc \in {"off", "panic"}
    BY <1>3, <1>4, <2>1, <2>2 DEF StoppedInv
  <2>3. CASE active = "none" /\ pc \notin {"off", "panic"}
    BY <1>3, <1>4, <2>1, <2>3 DEF RunningInv, StoppedInv, NewRecord
  <2>4. CASE active = "A" /\ pc \notin {"off", "panic"}
    BY <1>3, <1>4, <2>1, <2>4 DEF RunningInv, StoppedInv, NewRecord
  <2>5. CASE active = "B" /\ pc \notin {"off", "panic"}
    BY <1>3, <1>4, <2>1, <2>5 DEF RunningInv, StoppedInv, NewRecord
  <2>6. QED
    BY <2>2, <2>3, <2>4, <2>5
<1>7. QED
  BY <1>4, <1>5, <1>6 DEF RunningInv

(* Every action together: the inductive step. *)
LEMMA StepHolds ==
  ASSUME ReadsReliable = TRUE, IInv, [Next]_vars
  PROVE  IInv'
<1>1. CASE Next
  BY <1>1, BootSteps, RequestSteps, EraseSteps, WriteSteps, VerifySteps, PowerLossStep DEF Next
<1>2. CASE UNCHANGED vars
  BY <1>2 DEF vars, IInv, TypeOK, GenerationInv, RunningInv, StoppedInv, TargetSlot, NewRecord
<1>3. QED
  BY <1>1, <1>2

-----------------------------------------------------------------------------
(* The results: stated for reads that return what the sectors hold. *)

(* The inductive invariant holds in every reachable state. *)
THEOREM Invariance == ReadsReliable = TRUE => (Spec => []IInv)
<1>1. SUFFICES ASSUME ReadsReliable = TRUE PROVE Spec => []IInv
  OBVIOUS
<1>2. IInv /\ [Next]_vars => IInv'
  BY <1>1, StepHolds
<1>3. QED
  BY <1>2, InitHolds, PTL DEF Spec

(* Every variable of the configuration store keeps its type; in particular the
   slots never hold a record that decode_config_record() could not produce. *)
THEOREM TypeCorrect == ReadsReliable = TRUE => (Spec => []TypeOK)
<1>1. IInv => TypeOK
  BY DEF IInv
<1>2. QED
  BY <1>1, Invariance, PTL

(* RAM and flash agree whenever no change is under way: a reboot loads the name
   that config() shows, after any mix of errors, worn sectors and power losses
   (the doc of System, system.rs 171-172). *)
THEOREM RamMatchesFlashHolds == ReadsReliable = TRUE => (Spec => []RamMatchesFlash)
<1>1. IInv => RamMatchesFlash
  <2>1. SUFFICES ASSUME IInv, pc = "idle" PROVE Recovered = name
    BY DEF RamMatchesFlash
  <2>2. Recovered = previous /\ name = previous
    BY <2>1, ActiveIsNewest DEF IInv, RunningInv
  <2>3. QED
    BY <2>2
<1>2. QED
  BY <1>1, Invariance, PTL

(* The previous configuration stays intact and loadable until the new slot has
   been written and verified (the doc of set_name(), system.rs 190-192). *)
THEOREM OldRetainedHolds == ReadsReliable = TRUE => (Spec => []OldRetainedUntilVerified)
<1>1. IInv => OldRetainedUntilVerified
  <2>1. SUFFICES ASSUME IInv, pc \in {"erase", "write", "verify"}, active # "none"
                 PROVE  /\ slots[active] = encode(previous, generation)
                        /\ pc # "verify" => Newest = active
    BY DEF OldRetainedUntilVerified
  <2>2. slots[active] = encode(previous, generation)
    BY <2>1 DEF IInv, RunningInv
  <2>3. pc # "verify" => Newest = active
    BY <2>1, ActiveIsNewest DEF IInv
  <2>4. QED
    BY <2>2, <2>3
<1>2. QED
  BY <1>1, Invariance, PTL

-----------------------------------------------------------------------------
(* What each step does to the name and the generation a reboot would load.   *)

(* A step that leaves the slots alone leaves what a reboot would load alone. *)
LEMMA SlotsUnchanged ==
  ASSUME UNCHANGED slots
  PROVE  UNCHANGED <<Recovered, NewestGeneration>>
  BY DEF Recovered, NewestGeneration, Newest

(* An erase, or a write that fails or is lost, changes neither. *)
LEMMA DamageInvisible ==
  ASSUME IInv, pc \in {"erase", "write"},
         NEW r \in {NoRecord, slots[TargetSlot]},
         slots' = [slots EXCEPT ![TargetSlot] = r]
  PROVE  UNCHANGED <<Recovered, NewestGeneration>>
<1>1. NewestSlot(slots'["A"], slots'["B"]) = active
  BY TargetDamaged, SlotChoice DEF IInv, TypeOK, RunningInv
<1>2. Newest' = active /\ Newest = active
  BY <1>1, ActiveIsNewest DEF Newest, IInv
<1>3. CASE active = "none"
  BY <1>2, <1>3 DEF Recovered, NewestGeneration
<1>4. CASE active # "none"
  <2>1. slots'[active] = slots[active]
    BY <1>4, TargetDamaged DEF IInv, RunningInv
  <2>2. QED
    BY <1>2, <1>4, <2>1 DEF Recovered, NewestGeneration
<1>5. QED
  BY <1>3, <1>4

(* The record of a write, once complete, is what a reboot loads. *)
LEMMA RecordVisible ==
  ASSUME IInv, pc = "write", slots' = [slots EXCEPT ![TargetSlot] = NewRecord]
  PROVE  Recovered' = name /\ NewestGeneration' = generation + 1
<1>1. TargetSlot \in Slot /\ TargetSlot # active /\ TargetSlot # "none"
      /\ (active = "none" => TargetSlot = "A")
  BY DEF TargetSlot, Other, Slot, IInv, TypeOK
<1>2. NewRecord \in Record
  BY DEF NewRecord, encode, Record, IInv, TypeOK
<1>3. slots' \in [Slot -> Record] /\ slots'[TargetSlot] = NewRecord
      /\ \A s \in Slot \ {TargetSlot} : slots'[s] = slots[s]
  BY <1>1, <1>2 DEF IInv, TypeOK
<1>4. NewestSlot(slots'["A"], slots'["B"]) = TargetSlot
  BY <1>1, <1>3, SlotChoice DEF IInv, TypeOK, RunningInv, Slot
<1>5. QED
  BY <1>1, <1>3, <1>4 DEF Recovered, NewestGeneration, Newest, NewRecord, encode

(* Every step leaves a reboot with the name it had before, or is a write (or a
   power loss during one) that completed the record of the new name. *)
Invisible == UNCHANGED <<Recovered, NewestGeneration>>
Published ==
  pc = "write" /\ Recovered' = name /\ NewestGeneration' = generation + 1

(* Every step is one or the other, and only a write publishes. *)
LEMMA DurableStep ==
  ASSUME ReadsReliable = TRUE, IInv, Next
  PROVE  Invisible \/ (Published /\ (WriteOk \/ PowerLoss))
<1> USE DEF Invisible, Published
<1>1. CASE BootPanic \/ BootFromFlash \/ BootWithDefault \/ RejectName \/ SetSameName
           \/ (\E n \in Names : SetName(n)) \/ VerifyOk \/ VerifyFails
  BY <1>1, SlotsUnchanged
  DEF BootPanic, BootFromFlash, BootWithDefault, RejectName, SetSameName, SetName,
      VerifyOk, VerifyFails
<1>2. CASE EraseOk \/ EraseFails \/ WriteFails
  <2>1. PICK r \in {NoRecord, slots[TargetSlot]} : slots' = [slots EXCEPT ![TargetSlot] = r]
    BY <1>2 DEF EraseOk, EraseFails, WriteFails
  <2>2. pc \in {"erase", "write"}
    BY <1>2 DEF EraseOk, EraseFails, WriteFails
  <2>3. QED
    BY <2>1, <2>2, DamageInvisible
<1>3. CASE WriteOk
  <2>1. pc = "write" /\ NextGeneration = generation + 1
    BY <1>3, NextIsSuccessor DEF WriteOk, IInv
  <2>2. PICK r \in {NewRecord, NoRecord, slots[TargetSlot]} :
          slots' = [slots EXCEPT ![TargetSlot] = r]
    BY <1>3, <2>1 DEF WriteOk, NewRecord
  <2>3. QED
    BY <1>3, <2>1, <2>2, DamageInvisible, RecordVisible
<1>4. CASE PowerLoss
  <2>1. PICK r \in TornContents : slots' = [slots EXCEPT ![TargetSlot] = r]
    BY <1>4 DEF PowerLoss
  <2>2. pc = "write" => NextGeneration = generation + 1
    BY NextIsSuccessor DEF IInv
  <2>3. CASE pc \notin {"erase", "write"}
    <3>1. r = slots[TargetSlot]
      BY <2>1, <2>3 DEF TornContents
    <3>2. TargetSlot \in Slot
      BY DEF TargetSlot, Other, Slot, IInv, TypeOK
    <3>3. slots' = slots
      BY <2>1, <3>1, <3>2 DEF IInv, TypeOK
    <3>4. QED
      BY <3>3, SlotsUnchanged
  <2>4. CASE pc \in {"erase", "write"} /\ r \in {NoRecord, slots[TargetSlot]}
    BY <2>1, <2>4, DamageInvisible
  <2>5. CASE pc = "write" /\ r = NewRecord
    BY <1>4, <2>1, <2>5, RecordVisible
  <2>6. QED
    BY <2>1, <2>2, <2>3, <2>4, <2>5 DEF TornContents, NewRecord
<1>5. QED
  BY <1>1, <1>2, <1>3, <1>4 DEF Next

(* The largest generation on flash never decreases, so the order newest_slot()
   relies on is never undone by an error or a power loss. *)
THEOREM GenerationNeverDecreasesHolds ==
  ReadsReliable = TRUE => (Spec => GenerationNeverDecreases)
<1>1. SUFFICES ASSUME ReadsReliable = TRUE PROVE Spec => GenerationNeverDecreases
  OBVIOUS
<1>2. ASSUME IInv, [Next]_vars PROVE [NewestGeneration' >= NewestGeneration]_vars
  <2>1. SUFFICES ASSUME Next PROVE NewestGeneration' >= NewestGeneration
    BY <1>2
  <2>2. NewestGeneration \in Nat
    BY <1>2 DEF IInv, TypeOK, NewestGeneration, Newest, NewestSlot, Slot, Record
  <2>3. CASE Invisible
    BY <2>2, <2>3 DEF Invisible
  <2>4. CASE Published
    BY <1>2, <2>4, ActiveIsNewest DEF Published, IInv, TypeOK
  <2>5. QED
    BY <1>1, <1>2, <2>1, <2>3, <2>4, DurableStep
<1>3. QED
  BY <1>1, <1>2, Invariance, PTL DEF Spec, GenerationNeverDecreases

-----------------------------------------------------------------------------
(* The refinement: each step of the two slots is a step of the durable name, *)
(* or leaves it alone.                                                       *)

(* The refinement mapping takes initial states to initial states ... *)
LEMMA AbstractInit == Init => Abstract!Init
  BY DEF Init, Abstract!Init, Recovered, Newest, NewestSlot, NoRecord, Slot

(* ... a boot to Boot, or to nothing when the chip ID cannot be read ... *)
LEMMA AbstractBoot ==
  ASSUME ReadsReliable = TRUE, IInv, BootPanic \/ BootFromFlash \/ BootWithDefault
  PROVE  Abstract!Boot \/ UNCHANGED Abstract!vars
<1>1. UNCHANGED Recovered
  BY SlotsUnchanged DEF BootPanic, BootFromFlash, BootWithDefault
<1>2. CASE BootPanic
  BY <1>1, <1>2 DEF BootPanic, Abstract!vars, system, Changing
<1>3. CASE BootFromFlash
  <2>1. name' = Recovered /\ previous' = Recovered
    BY <1>1, <1>3 DEF BootFromFlash, ReadSlot, Recovered, Newest, NewestSlot
  <2>2. reply' = "none" /\ pc' = "idle" /\ pc = "off"
    BY <1>3 DEF BootFromFlash, IInv, StoppedInv
  <2>3. QED
    BY <1>1, <2>1, <2>2 DEF Abstract!Boot, Changing
<1>4. CASE BootWithDefault
  <2>1. Recovered = DefaultName
    BY <1>4 DEF BootWithDefault, ReadSlot, Recovered, Newest
  <2>2. reply' = "none" /\ pc' = "erase" /\ pc = "off" /\ caller' = "boot"
        /\ name' = DefaultName /\ previous' = DefaultName
    BY <1>4 DEF BootWithDefault, IInv, StoppedInv
  <2>3. QED
    BY <1>1, <2>1, <2>2 DEF Abstract!Boot, Changing
<1>5. QED
  BY <1>2, <1>3, <1>4

(* ... the calls of set_name() to Answer and Begin ... *)
LEMMA AbstractRequest ==
  ASSUME IInv, RejectName \/ SetSameName \/ \E n \in Names : SetName(n)
  PROVE  Abstract!Answer \/ \E n \in Names : Abstract!Begin(n)
<1>1. UNCHANGED Recovered
  BY SlotsUnchanged DEF RejectName, SetSameName, SetName
<1>2. CASE RejectName \/ SetSameName
  BY <1>1, <1>2 DEF RejectName, SetSameName, NameErrors, Abstract!Answer, system, Changing
<1>3. CASE \E n \in Names : SetName(n)
  BY <1>1, <1>3 DEF SetName, Abstract!Begin, Changing
<1>4. QED
  BY <1>2, <1>3

(* An aborted change is a Fail of the abstraction; an aborted first boot is
   nothing at all. *)
LEMMA AbstractAbort ==
  ASSUME IInv, pc \in {"erase", "write", "verify"}, Recovered = previous,
         UNCHANGED Recovered, NEW err \in FlashErrors, Abort(err)
  PROVE  Abstract!Fail \/ UNCHANGED Abstract!vars
<1>1. CASE caller = "set_name"
  BY <1>1 DEF Abort, FlashErrors, Abstract!Fail, Changing
<1>2. CASE caller = "boot"
  BY <1>2 DEF Abort, Abstract!vars, Changing
<1>3. QED
  BY <1>1, <1>2 DEF IInv, TypeOK

(* ... erasing and writing to nothing, to Fail, or to Commit when the record
   becomes complete ... *)
LEMMA AbstractPersist ==
  ASSUME ReadsReliable = TRUE, IInv, EraseOk \/ EraseFails \/ WriteOk \/ WriteFails
  PROVE  Abstract!Commit \/ Abstract!Fail \/ UNCHANGED Abstract!vars
<1>1. pc \in {"erase", "write"} /\ Recovered = previous
  BY ActiveIsNewest DEF EraseOk, EraseFails, WriteOk, WriteFails, IInv
<1>2. Invisible \/ (Published /\ (WriteOk \/ PowerLoss))
  BY DurableStep DEF Next
<1>3. CASE EraseFails \/ WriteFails
  <2>1. UNCHANGED Recovered
    BY <1>2, <1>3 DEF Invisible, EraseFails, WriteFails, WriteOk, PowerLoss, Abort
  <2>2. QED
    BY <1>1, <1>3, <2>1, AbstractAbort DEF EraseFails, WriteFails, FlashErrors
<1>4. CASE EraseOk \/ WriteOk
  <2>1. /\ pc' \in {"write", "verify"}
        /\ name' = name /\ previous' = previous /\ caller' = caller /\ reply' = reply
    BY <1>4 DEF EraseOk, WriteOk, system
  <2>2. CASE Invisible
    BY <1>1, <2>1, <2>2 DEF Invisible, Abstract!vars, Changing
  <2>3. CASE Published /\ caller = "set_name"
    BY <1>1, <2>1, <2>3 DEF Published, Abstract!Commit, Changing
  <2>4. CASE Published /\ caller = "boot"
    <3>1. name = previous
      BY <1>1, <2>4 DEF IInv, RunningInv
    <3>2. QED
      BY <1>1, <2>1, <2>4, <3>1 DEF Published, Abstract!vars, Changing
  <2>5. QED
    BY <1>2, <2>2, <2>3, <2>4 DEF IInv, TypeOK
<1>5. QED
  BY <1>3, <1>4

(* ... the comparison to Succeed or Fail ... *)
LEMMA AbstractVerify ==
  ASSUME ReadsReliable = TRUE, IInv, VerifyOk \/ VerifyFails
  PROVE  Abstract!Succeed \/ Abstract!Fail \/ UNCHANGED Abstract!vars
<1>1. pc = "verify" /\ UNCHANGED slots
  BY DEF VerifyOk, VerifyFails
<1>2. UNCHANGED Recovered
  BY <1>1, SlotsUnchanged
<1>3. NextGeneration = generation + 1
  BY <1>1, NextIsSuccessor DEF IInv
<1>4. TargetSlot \in Slot
  BY DEF TargetSlot, Other, Slot, IInv, TypeOK
<1>5. Verifies(slots[TargetSlot]) <=> slots[TargetSlot] = NewRecord
  BY <1>3, <1>4 DEF Verifies, NewRecord, encode, IInv, TypeOK, Record
<1>6. CASE VerifyOk
  <2>1. Recovered = name
    BY <1>1, <1>5, <1>6, NewIsNewest DEF VerifyOk, ReadSlot, IInv
  <2>2. CASE caller = "set_name"
    BY <1>1, <1>2, <1>6, <2>1, <2>2 DEF VerifyOk, Abstract!Succeed, Changing
  <2>3. CASE caller = "boot"
    <3>1. name = previous
      BY <1>1, <2>3 DEF IInv, RunningInv
    <3>2. QED
      BY <1>1, <1>2, <1>6, <2>3, <3>1 DEF VerifyOk, Abstract!vars, Changing
  <2>4. QED
    BY <2>2, <2>3 DEF IInv, TypeOK
<1>7. CASE VerifyFails
  <2>1. Recovered = previous
    BY <1>1, <1>5, <1>7, ActiveIsNewest DEF VerifyFails, ReadSlot, IInv
  <2>2. QED
    BY <1>1, <1>2, <1>7, <2>1, AbstractAbort DEF VerifyFails, FlashErrors
<1>8. QED
  BY <1>6, <1>7

(* ... and a power loss to Crash. *)
LEMMA AbstractPowerLoss ==
  ASSUME ReadsReliable = TRUE, IInv, PowerLoss
  PROVE  Abstract!Crash \/ UNCHANGED Abstract!vars
<1>1. /\ pc # "off" /\ pc' = "off" /\ name' = DefaultName
      /\ previous' = DefaultName /\ caller' = "boot" /\ reply' = "none"
  BY DEF PowerLoss
<1>2. Invisible \/ Published
  BY DurableStep DEF Next
<1>3. CASE pc = "panic"
  BY <1>1, <1>2, <1>3 DEF Invisible, Published, Abstract!vars, IInv, StoppedInv, Changing
<1>4. CASE pc # "panic" /\ Invisible
  BY <1>1, <1>4 DEF Invisible, Abstract!Crash, Changing
<1>5. CASE Published /\ caller = "set_name"
  BY <1>1, <1>5 DEF Published, Abstract!Crash, Changing
<1>6. CASE Published /\ caller = "boot"
  <2>1. Recovered = name
    BY <1>6, ActiveIsNewest DEF Published, IInv, RunningInv
  <2>2. QED
    BY <1>1, <1>6, <2>1 DEF Published, Abstract!Crash, Changing
<1>7. QED
  BY <1>2, <1>3, <1>4, <1>5, <1>6 DEF IInv, TypeOK

(* The two flash slots implement one durable name: set_name() answers Ok only
   for a name a reboot loads and an error only when the old one is still there,
   and a power loss leaves one of the two. *)
THEOREM Refinement == ReadsReliable = TRUE => (Spec => ImplementsDurableName)
<1>1. SUFFICES ASSUME ReadsReliable = TRUE PROVE Spec => Abstract!Spec
  BY DEF ImplementsDurableName
<1>2. ASSUME IInv, [Next]_vars PROVE [Abstract!Next]_(Abstract!vars)
  <2>1. CASE Next
    BY <1>1, <1>2, <2>1, AbstractBoot, AbstractRequest, AbstractPersist, AbstractVerify,
       AbstractPowerLoss
    DEF Next, Abstract!Next
  <2>2. CASE UNCHANGED vars
    BY <2>2 DEF vars, Abstract!vars, Recovered, Newest, Changing
  <2>3. QED
    BY <1>2, <2>1, <2>2
<1>3. QED
  BY <1>1, <1>2, AbstractInit, Invariance, PTL DEF Spec, Abstract!Spec
=============================================================================
