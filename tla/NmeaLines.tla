----------------------------- MODULE NmeaLines ------------------------------
(***************************************************************************)
(* How receive_task of gps.rs puts sentences together from what the UART   *)
(* hands it: LF ends a line, CR is skipped, any other ASCII character is   *)
(* added, and a character that finds the line full clears it and is lost   *)
(* itself.  Characters may be lost or garbled beyond ASCII on the way, LF  *)
(* included, and the task may start in the middle of a sentence.           *)
(*                                                                         *)
(* A character is <<sentence, place in it>>, so that a line shows which    *)
(* sentences it was put together from.                                     *)
(***************************************************************************)
EXTENDS Naturals, Sequences

CONSTANTS
  NMEA_LINE_CAPACITY,  \* 160 in the source
  Lengths,             \* lengths a sentence may have, without CR and LF
  Sentences            \* bound: sentences sent

NmeaAssumption ==
  /\ NMEA_LINE_CAPACITY \in Nat \ {0}
  /\ Lengths \subseteq Nat
  /\ Sentences \in Nat

VARIABLES
  sentence, length, place,  \* the sentence being sent, and how far it is
  line,
  parsed,                   \* the line given to apply_gga and apply_rmc last
  clean                     \* history: nothing was lost since the last LF came

sender == <<sentence, length, place>>
vars == <<sender, line, parsed, clean>>

Characters(s, n) == [i \in 1 .. n |-> <<s, i>>]

Init ==
  /\ sentence = 1 /\ length \in Lengths
  /\ place \in 1 .. length + 2
  /\ line = <<>> /\ parsed = <<>>
  /\ clean = (place = 1)

-----------------------------------------------------------------------------
(* The characters, then CR, then LF, then the next sentence. *)
AtCharacter == sentence <= Sentences /\ place <= length
AtCr == sentence <= Sentences /\ place = length + 1
AtLf == sentence <= Sentences /\ place = length + 2

Advance ==
  IF AtLf
  THEN /\ sentence' = sentence + 1
       /\ length' \in Lengths
       /\ place' = 1
  ELSE /\ place' = place + 1
       /\ UNCHANGED <<sentence, length>>

(* line.push(), and what is done when it fails. *)
push(c) ==
  line' = IF Len(line) < NMEA_LINE_CAPACITY THEN Append(line, c) ELSE <<>>

Character ==
  /\ AtCharacter
  /\ push(<<sentence, place>>)
  /\ Advance
  /\ UNCHANGED <<parsed, clean>>

(* Mutant: CR is a character like any other. *)
CrKept ==
  /\ AtCr
  /\ push(<<sentence, place>>)
  /\ Advance
  /\ UNCHANGED <<parsed, clean>>

Cr ==
  /\ AtCr
  /\ Advance
  /\ UNCHANGED <<line, parsed, clean>>

Lf ==
  /\ AtLf
  /\ parsed' = IF line = <<>> THEN parsed ELSE line
  /\ line' = <<>>
  /\ clean' = TRUE
  /\ Advance

(* The character is overrun in the UART, or garbled beyond ASCII. *)
Lost ==
  /\ AtCharacter \/ AtCr \/ AtLf
  /\ clean' = FALSE
  /\ Advance
  /\ UNCHANGED <<line, parsed>>

Next == Character \/ Cr \/ Lf \/ Lost

Spec == Init /\ [][Next]_vars

-----------------------------------------------------------------------------
Before(c, d) == c[1] < d[1] \/ (c[1] = d[1] /\ c[2] < d[2])

(* Types; the line never grows past its capacity. *)
TypeOK ==
  /\ sentence \in 1 .. Sentences + 1 /\ length \in Lengths /\ place \in 1 .. length + 2
  /\ line \in Seq(Nat \X Nat) /\ Len(line) <= NMEA_LINE_CAPACITY
  /\ parsed \in Seq(Nat \X Nat)
  /\ clean \in BOOLEAN

(* What is lost harms only the lines it was lost from: a sentence that comes *)
(* whole behind an LF that came is parsed exactly as it was sent, whatever   *)
(* was lost before and however the lines overflowed.                         *)
CleanSentenceIsParsed ==
  [][Lf /\ clean /\ length \in 1 .. NMEA_LINE_CAPACITY =>
       parsed' = Characters(sentence, length)]_vars

(* No character is used twice: a line is in the order sent, and everything   *)
(* in it was sent after everything in the lines parsed before.               *)
EachCharacterOnce ==
  [][parsed' # parsed =>
       /\ \A i, j \in 1 .. Len(parsed') : i < j => Before(parsed'[i], parsed'[j])
       /\ parsed # <<>> => Before(parsed[Len(parsed)], parsed'[1])]_vars
=============================================================================
