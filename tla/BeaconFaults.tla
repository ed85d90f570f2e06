---------------------------- MODULE BeaconFaults ----------------------------
(***************************************************************************)
(* SequenceTracker fed by a transmitter that misbehaves: its number jumps  *)
(* ahead, it reboots and counts from zero again, packets are lost, and the *)
(* newest one may be handed over more than once.  One packet a second, and *)
(* no delay: what a late packet does is the subject of Beacon.             *)
(***************************************************************************)
EXTENDS SequenceTracker

CONSTANTS
  Jumps,        \* how far the transmitter's number may leap ahead
  MaxBeats,     \* bound: packets sent
  MaxJumps,     \* bound: leaps
  MaxReboots,   \* bound: reboots
  LockoutBound  \* a loss of this many packets in a row is a lost link

ASSUME FaultAssumption ==
  /\ Jumps \subseteq Nat
  /\ {MaxBeats, MaxJumps, MaxReboots, LockoutBound} \subseteq Nat

VARIABLES
  now,       \* ms
  next_seq,  \* the transmitter's next number
  jumps,     \* leaps so far
  reboots,   \* reboots so far
  heard,     \* history: the newest number handed to the receiver
  streak,    \* history: successive numbers heard without a gap
  start,     \* history: the first number of the transmitter's present count
  closed,    \* history: numbers of earlier counts between start and baseline
  discarded, \* history: candidates that were never confirmed
  ignored    \* history: new packets ignored in a row since the last reboot

transmitter == <<now, next_seq, jumps, reboots>>
history == <<heard, streak, start, closed, discarded, ignored>>
vars == <<tracker, transmitter, history>>

Init ==
  /\ TrackerInit
  /\ now = 0 /\ next_seq = 0 /\ jumps = 0 /\ reboots = 0
  /\ heard = None /\ streak = 0 /\ start = None
  /\ closed = 0 /\ discarded = 0 /\ ignored = 0

(* The transmitter's counter leaps ahead, or it restarts. *)
Jump ==
  /\ jumps < MaxJumps
  /\ \E j \in Jumps : next_seq' = next_seq + j
  /\ jumps' = jumps + 1
  /\ UNCHANGED <<now, reboots, tracker, history>>

Reboot ==
  /\ reboots < MaxReboots
  /\ next_seq' = 0
  /\ reboots' = reboots + 1
  /\ streak' = 0
  /\ ignored' = 0
  /\ UNCHANGED <<now, jumps, tracker, heard, start, closed, discarded>>

Beat ==
  /\ now < 1000 * MaxBeats
  /\ now' = now + 1000
  /\ next_seq' = next_seq + 1
  /\ UNCHANGED <<jumps, reboots>>

Lost ==
  /\ Beat
  /\ streak' = 0
  /\ UNCHANGED <<tracker, heard, start, closed, discarded, ignored>>

(* The books the histories keep of one step of the tracker. *)
Restarts == last_sequence # None /\ last_sequence' < last_sequence

Account ==
  /\ start' = IF last_sequence = None \/ Restarts THEN last_sequence' ELSE start
  /\ closed' = IF Restarts THEN closed + (last_sequence - start + 1) ELSE closed
  /\ discarded' =
       IF /\ pending_sequence_candidate # None
          /\ pending_sequence_candidate' # pending_sequence_candidate
          /\ last_sequence' # pending_sequence_candidate + 1
       THEN discarded + 1 ELSE discarded

Heard ==
  /\ Beat
  /\ OnPacket(next_seq, now')
  /\ heard' = next_seq
  /\ streak' = IF heard # None /\ next_seq = heard + 1 THEN streak + 1 ELSE 1
  /\ ignored' = IF received_packets' = received_packets THEN ignored + 1 ELSE 0
  /\ Account

(* The newest packet once more. *)
Repeat ==
  /\ heard # None /\ next_seq = heard + 1
  /\ OnPacket(heard, now)
  /\ Account
  /\ UNCHANGED <<transmitter, heard, streak, ignored>>

Next == Jump \/ Reboot \/ Lost \/ Heard \/ Repeat

Spec == Init /\ [][Next]_vars

-----------------------------------------------------------------------------
(* Types: the tracker's, and the books kept of what was sent and heard. *)
TypeOK ==
  /\ TrackerTypeOK
  /\ now \in 0 .. 1000 * MaxBeats
  /\ {next_seq, jumps, reboots, streak, closed, discarded, ignored} \subseteq Nat
  /\ {heard, start} \subseteq Nat \cup {None}

Behind(seq) == REBOOT_SEQUENCE_WINDOW < seq /\ seq < last_sequence

(* A legitimate jump is never rejected for long: after two successive numbers
   the baseline is the newest one, however far the jump, unless the number lies
   behind the baseline and outside the reboot window (main.rs 51-58, 987-1014). *)
TwoInARowResync ==
  streak >= 2 /\ ~Behind(heard) => last_sequence = heard

(* Received and missed add up to the numbers that passed, except that every
   candidate that was never confirmed stays counted as received, whether or not
   its number is later counted again as missed (main.rs 1015-1033, 1152). *)
JumpAccounting ==
  last_sequence # None =>
    received_packets + missed_packets =
      closed + (last_sequence - start + 1) + discarded
        + (IF pending_sequence_candidate = None THEN 0 ELSE 1)

(* A transmitter that restarts unheard is locked out, but no longer than its
   count needs to catch up with the baseline; a single packet can be lost to its
   number being the baseline's own (main.rs 1037-1040, 1106-1148). *)
LockoutEndsAtBaseline ==
  ignored > 1 => ignored <= last_sequence - REBOOT_SEQUENCE_WINDOW

(* "Other backwards packets are ignored, but this cannot create a sticky
   lockout" (main.rs 1107-1109): a transmitter that is heard every second is
   not ignored for as long as it takes to show LINK LOST. *)
NoStickyLockout == ignored < LockoutBound
=============================================================================
