------------------------------ MODULE LogStore ------------------------------
(***************************************************************************)
(* The log products of a running storage.rs: RX.LOG, LOCAL.LOG, EVENT.LOG  *)
(* and the buffered DEBUG.LOG.  The receiver loop owns them, so each call  *)
(* is one step.  An appended record is on the card for good only after a   *)
(* flush of its file: until then it is at risk, a power loss would take it.*)
(* Instead of taking it, the model says how long a record stays at risk.   *)
(*                                                                         *)
(* Any append and any flush may fail.  A failed append leaves no record    *)
(* (part of a line may be left in the file, which is not modelled).  A     *)
(* diagnostic line is its size and whether its level forces a flush, and   *)
(* the RAM buffer is its length and the levels of the lines in it.         *)
(***************************************************************************)
EXTENDS Integers

CONSTANTS
  CHECKPOINT_RECORDS,     \* 10 in the source, a literal there
  DEBUG_BUFFER_CAPACITY,  \* 2048 bytes
  DEBUG_LINE_CAPACITY,    \* 320 bytes
  LineSizes,              \* the sizes of diagnostic lines considered
  MaxSamples,             \* bound: sample periods
  MaxFailedAppends        \* bound: those in which LOCAL.LOG could not be appended to

ASSUME StoreAssumption ==
  /\ {CHECKPOINT_RECORDS, DEBUG_LINE_CAPACITY} \subseteq Nat \ {0}
  /\ DEBUG_BUFFER_CAPACITY \in Nat /\ DEBUG_LINE_CAPACITY <= DEBUG_BUFFER_CAPACITY
  /\ LineSizes \subseteq 1 .. DEBUG_LINE_CAPACITY /\ LineSizes # {}
  /\ {MaxSamples, MaxFailedAppends} \subseteq Nat

VARIABLES
  mode,                   \* "survey" or "global"
  debug_file,             \* whether DEBUG.LOG could be opened
  debug_buffer,           \* in RAM: its length, and whether its lines are urgent
  debug_unflushed,        \* the same of the lines written but not flushed
  local_records_written,
  samples,                \* sample periods so far
  age,                    \* history: periods since the oldest record at risk
  excused,                \* history: those of them that failures account for
  debug_trouble,          \* history: DEBUG.LOG failed since its last flush
  dropped                 \* history: a line found no room in the buffer

debug == <<debug_buffer, debug_unflushed, debug_trouble, dropped>>
vars == <<mode, debug_file, debug, local_records_written, samples, age, excused>>

None == -1
SurveyFiles == {"LOCAL", "RX", "EVENT"}
Products == SurveyFiles \cup {"DEBUG"}
Line == [size : LineSizes, urgent : BOOLEAN]
Normal == [size : LineSizes, urgent : {FALSE}]
Urgent == [size : LineSizes, urgent : {TRUE}]

Empty == [length |-> 0, levels |-> {}]
push_str(buffer, line) ==
  [length |-> buffer.length + line.size, levels |-> buffer.levels \cup {line.urgent}]

(* The global mode has its DEBUG.LOG, in a survey that is optional. *)
Init ==
  /\ mode \in {"survey", "global"} /\ debug_file \in BOOLEAN
  /\ mode = "global" => debug_file
  /\ debug_buffer = Empty /\ debug_unflushed = {}
  /\ local_records_written = 0 /\ samples = 0
  /\ age = [f \in Products |-> None] /\ excused = [f \in Products |-> 0]
  /\ debug_trouble = FALSE /\ dropped = FALSE

-----------------------------------------------------------------------------
(* DEBUG.LOG.  The operators map one state of it to those it may go to.     *)

Debug == [buffer |-> debug_buffer, unflushed |-> debug_unflushed,
          trouble |-> debug_trouble, dropped |-> dropped]

Written(d) == [d EXCEPT !.buffer = Empty, !.unflushed = @ \cup d.buffer.levels]
InTrouble(d) == [d EXCEPT !.trouble = TRUE]

(* Mutant: the buffer is written, the file is not flushed. *)
flush_debug_buffer_unflushed(d, flush_file) ==
  {Written(d), InTrouble([d EXCEPT !.buffer = Empty])}

(* The buffer is cleared even when it could not be written, and then the file
   is not flushed either. *)
flush_debug_buffer(d, flush_file) ==
  IF ~debug_file THEN {[d EXCEPT !.buffer = Empty]}
  ELSE (IF d.buffer = Empty THEN {} ELSE {InTrouble([d EXCEPT !.buffer = Empty])})
         \cup (IF flush_file
                 THEN {[Written(d) EXCEPT !.unflushed = {}, !.trouble = FALSE], InTrouble(Written(d))}
                 ELSE {Written(d)})

Fits(d, line) == d.buffer.length + line.size <= DEBUG_BUFFER_CAPACITY

MakeRoom(d, line) == IF Fits(d, line) THEN {d} ELSE flush_debug_buffer(d, FALSE)

Push(d, line) ==
  IF ~Fits(d, line) THEN {[d EXCEPT !.dropped = TRUE]}
  ELSE LET pushed == [d EXCEPT !.buffer = push_str(@, line)] IN
       IF line.urgent THEN flush_debug_buffer(pushed, TRUE) ELSE {pushed}

diag(d, line) ==
  IF debug_file THEN UNION {Push(e, line) : e \in MakeRoom(d, line)} ELSE {d}

Becomes(d) ==
  /\ debug_buffer' = d.buffer /\ debug_unflushed' = d.unflushed
  /\ debug_trouble' = d.trouble /\ dropped' = d.dropped

DebugAtRisk(d) == d.buffer # Empty \/ d.unflushed # {}

-----------------------------------------------------------------------------
(* The books: what is at risk after a step in which DEBUG.LOG became d, the  *)
(* files in appended got a record, and those in saved have been flushed, or   *)
(* those in failed should have been and were not.                            *)

AtRisk == {f \in Products : age[f] # None}

Account(d, appended, saved, failed, periods) ==
  LET risky == (((AtRisk \cup appended) \cap SurveyFiles) \ saved)
                 \cup {f \in {"DEBUG"} : DebugAtRisk(d)}
      older == AtRisk \ saved IN
  /\ age' = [f \in Products |->
               IF f \notin risky THEN None ELSE IF f \in older THEN age[f] + periods ELSE 0]
  /\ excused' = [f \in Products |->
                   IF f \notin risky \cap older THEN 0
                   ELSE excused[f] + (IF f \in failed THEN CHECKPOINT_RECORDS ELSE 0)]

-----------------------------------------------------------------------------
(* The calls of the receiver loop.                                          *)

Diag ==
  /\ \E line \in Line : \E d \in diag(Debug, line) :
       Becomes(d) /\ Account(d, {}, {}, {}, 0)
  /\ UNCHANGED <<mode, debug_file, local_records_written, samples>>

(* In the global mode, and after a failed append, the calls return at once. *)
log_event ==
  /\ mode = "survey"
  /\ Account(Debug, {"EVENT"}, {}, {}, 0)
  /\ UNCHANGED <<mode, debug_file, debug, local_records_written, samples>>

log_receiver_packet ==
  /\ mode = "survey"
  /\ \/ \E line \in Normal : \E d \in diag(Debug, line) :
          Becomes(d) /\ Account(d, {"RX"}, {}, {}, 0)
     \/ \E line \in Urgent : \E d \in diag(Debug, line) :
          Becomes(d) /\ Account(d, {}, {}, {}, 0)
  /\ UNCHANGED <<mode, debug_file, local_records_written, samples>>

CheckpointDue(records) == records % CHECKPOINT_RECORDS = 0

(* Mutant: a failed flush ends the checkpoint. *)
SavedUpTo(unsaved) ==
  IF "LOCAL" \in unsaved THEN {} ELSE IF "RX" \in unsaved THEN {"LOCAL"} ELSE SurveyFiles \ unsaved

(* Each file is flushed whatever became of the others. *)
SavedFiles(unsaved) == SurveyFiles \ unsaved

(* The line that tells of the checkpoint: urgent when a flush failed. *)
CheckpointLine(unsaved) == IF unsaved = {} THEN Normal ELSE Urgent

LocalAppended ==
  /\ mode = "survey"
  /\ samples < MaxSamples
  /\ samples' = samples + 1
  /\ local_records_written' = local_records_written + 1
  /\ UNCHANGED <<mode, debug_file>>

(* The append fails: the call returns before the count and the checkpoint, and
   the period has gone by for every product. *)
LocalAppendFails ==
  /\ mode = "survey"
  /\ samples < MaxSamples
  /\ samples - local_records_written < MaxFailedAppends
  /\ samples' = samples + 1
  /\ age' = [f \in Products |-> IF f \in AtRisk THEN age[f] + 1 ELSE None]
  /\ excused' = [f \in Products |-> IF f \in AtRisk THEN excused[f] + 1 ELSE 0]
  /\ UNCHANGED <<mode, debug_file, debug, local_records_written>>

log_local_sample ==
  /\ LocalAppended
  /\ ~CheckpointDue(local_records_written')
  /\ \E line \in Normal : \E d \in diag(Debug, line) :
       Becomes(d) /\ Account(d, {"LOCAL"}, {}, {}, 1)

(* The sample that completes ten: three flushes, then that of DEBUG.LOG. *)
log_local_sample_checkpoint ==
  /\ LocalAppended
  /\ CheckpointDue(local_records_written')
  /\ \E line \in Normal, unsaved \in SUBSET SurveyFiles :
       \E d1 \in diag(Debug, line) : \E d2 \in flush_debug_buffer(d1, TRUE) :
       \E told \in CheckpointLine(unsaved) : \E d3 \in diag(d2, told) :
         /\ Becomes(d3)
         /\ LET kept == {f \in {"DEBUG"} : DebugAtRisk(d2)} IN
              Account(d3, {"LOCAL"}, SavedFiles(unsaved) \cup ({"DEBUG"} \ kept),
                      unsaved \cup kept, 1)

Next ==
  \/ Diag
  \/ log_event
  \/ log_receiver_packet
  \/ log_local_sample
  \/ LocalAppendFails
  \/ log_local_sample_checkpoint

Spec == Init /\ [][Next]_vars

-----------------------------------------------------------------------------
(* Types: the buffer is within its capacity in bytes. *)
TypeOK ==
  /\ mode \in {"survey", "global"} /\ debug_file \in BOOLEAN
  /\ debug_buffer \in [length : 0 .. DEBUG_BUFFER_CAPACITY, levels : SUBSET BOOLEAN]
  /\ debug_unflushed \subseteq BOOLEAN
  /\ samples \in 0 .. MaxSamples /\ local_records_written \in 0 .. samples
  /\ age \in [Products -> Nat \cup {None}] /\ excused \in [Products -> Nat]
  /\ {debug_trouble, dropped} \subseteq BOOLEAN

(* A power loss takes less than ten periods of every product: no record stays
   at risk for ten periods, but for ten more when the flush of its own file fails and
   one more when LOCAL.LOG cannot be appended to, which puts off the checkpoint
   of all.  Trouble with one file is otherwise no trouble for the others, and a
   failed DEBUG.LOG none for the survey (storage.rs 164-166, 751-754, 767-783). *)
LossIsBounded ==
  mode = "survey" => \A f \in AtRisk : age[f] < CHECKPOINT_RECORDS + excused[f]

(* "WARN/ERROR messages force the diagnostic file durable" (storage.rs 151-153):
   while DEBUG.LOG itself works no such line is ever at risk, so each failed RX
   append and each failed checkpoint is on record when the power goes. *)
UrgentIsDurable ==
  TRUE \in debug_unflushed \cup debug_buffer.levels => debug_trouble

(* No line is dropped for want of room: the buffer is emptied first, and a line
   is never longer than the buffer (storage.rs 562-576). *)
NoLineDropped == ~dropped

(* DEBUG.LOG has every line it was given, as far as it works: none is dropped for
   want of room and the urgent ones survive a power cut. *)
DebugLogIsKept == UrgentIsDurable /\ NoLineDropped
=============================================================================
