-------------------------- MODULE SequenceTracker --------------------------
(***************************************************************************)
(* The sequence bookkeeping of the receiver loop in main.rs: what happens  *)
(* to the counters when a decoded packet of the expected survey arrives    *)
(* with sequence number seq at time now (in milliseconds).  The operators  *)
(* are the branches of that code; a module that models where packets come  *)
(* from extends this one and takes OnPacket as part of its own action.     *)
(*                                                                         *)
(* Options are integers, with None for the absent value.  The u32 counters *)
(* saturate at 2^32 - 1, which no bounded run reaches.                     *)
(***************************************************************************)
EXTENDS Integers

CONSTANTS
  SEQUENCE_GAP_TOLERANCE,  \* 5 in the source
  REBOOT_SEQUENCE_WINDOW   \* 10 in the source

ASSUME TrackerAssumption ==
  /\ SEQUENCE_GAP_TOLERANCE \in Nat
  /\ REBOOT_SEQUENCE_WINDOW \in Nat

VARIABLES
  last_sequence,              \* the trusted baseline
  last_sequence_rx_time,      \* when it was received
  pending_sequence_candidate, \* a suspicious number on one-packet probation
  last_accepted_sequence,     \* the newest accepted number, trusted or not
  received_packets,
  missed_packets

tracker == <<last_sequence, last_sequence_rx_time, pending_sequence_candidate,
             last_accepted_sequence, received_packets, missed_packets>>

BEACON_SEQUENCE_RATE_HZ == 1
None == -1

TrackerInit ==
  /\ last_sequence = None
  /\ last_sequence_rx_time = None
  /\ pending_sequence_candidate = None
  /\ last_accepted_sequence = None
  /\ received_packets = 0
  /\ missed_packets = 0

TrackerTypeOK ==
  /\ last_sequence \in Nat \cup {None}
  /\ last_sequence_rx_time \in Nat \cup {None}
  /\ pending_sequence_candidate \in Nat \cup {None}
  /\ last_accepted_sequence \in Nat \cup {None}
  /\ received_packets \in Nat
  /\ missed_packets \in Nat

(* Mutant: no tolerance for the delay of a packet. *)
max_plausible_gap_exact(now) ==
  LET expected_gap ==
        ((now - last_sequence_rx_time) * BEACON_SEQUENCE_RATE_HZ) \div 1000
  IN  IF expected_gap >= 1 THEN expected_gap ELSE 1

(* The largest forward gap the elapsed time makes plausible, at least one. *)
max_plausible_gap(now) ==
  LET expected_gap ==
        ((now - last_sequence_rx_time) * BEACON_SEQUENCE_RATE_HZ) \div 1000
  IN  IF expected_gap + SEQUENCE_GAP_TOLERANCE >= 1
        THEN expected_gap + SEQUENCE_GAP_TOLERANCE
        ELSE 1

(* Mutant: the candidate vouches for itself. *)
ConfirmsRepeat(seq) ==
  /\ pending_sequence_candidate # None
  /\ seq = pending_sequence_candidate

(* The candidate is confirmed by its own successor. *)
Confirms(seq) ==
  /\ pending_sequence_candidate # None
  /\ seq = pending_sequence_candidate + 1
  /\ pending_sequence_candidate > last_sequence

(* An accepted packet counts and becomes the baseline if it is trusted. *)
AcceptTrusted(seq, now) ==
  /\ received_packets' = received_packets + 1
  /\ last_accepted_sequence' = seq
  /\ last_sequence' = seq
  /\ last_sequence_rx_time' = now

AcceptUntrusted(seq) ==
  /\ received_packets' = received_packets + 1
  /\ last_accepted_sequence' = seq
  /\ UNCHANGED <<last_sequence, last_sequence_rx_time>>

Ignore ==
  UNCHANGED <<last_sequence, last_sequence_rx_time, last_accepted_sequence,
              received_packets, missed_packets>>

-----------------------------------------------------------------------------
(* The branches.                                                            *)

FirstPacket(seq, now) ==
  /\ last_sequence = None
  /\ AcceptTrusted(seq, now)
  /\ UNCHANGED <<pending_sequence_candidate, missed_packets>>

(* The suspicious number once more: it does not vouch for itself. *)
DuplicateCandidate(seq) ==
  /\ last_sequence # None
  /\ pending_sequence_candidate = seq
  /\ Ignore
  /\ UNCHANGED pending_sequence_candidate

(* Mutant: the candidate, already received, is counted as missed. *)
ResyncOffByOne(seq, now) ==
  /\ last_sequence # None
  /\ Confirms(seq)
  /\ missed_packets' = missed_packets + (pending_sequence_candidate - last_sequence)
  /\ pending_sequence_candidate' = None
  /\ AcceptTrusted(seq, now)

Resync(seq, now) ==
  /\ last_sequence # None
  /\ Confirms(seq)
  /\ missed_packets' = missed_packets + (pending_sequence_candidate - last_sequence - 1)
  /\ pending_sequence_candidate' = None
  /\ AcceptTrusted(seq, now)

(* What is left is judged against the baseline alone; a candidate that was  *)
(* not confirmed is gone whatever becomes of this packet.                   *)
Judged(seq) ==
  /\ last_sequence # None
  /\ pending_sequence_candidate # seq
  /\ ~Confirms(seq)

DuplicateSequence(seq) ==
  /\ Judged(seq)
  /\ seq = last_sequence
  /\ Ignore
  /\ pending_sequence_candidate' = None

(* Mutants: the jump is trusted at once; it is rejected altogether. *)
SuspiciousJumpTrusted(seq, now) ==
  /\ Judged(seq)
  /\ seq > last_sequence
  /\ seq - last_sequence > max_plausible_gap(now)
  /\ AcceptTrusted(seq, now)
  /\ pending_sequence_candidate' = seq
  /\ UNCHANGED missed_packets

SuspiciousJumpRejected(seq, now) ==
  /\ Judged(seq)
  /\ seq > last_sequence
  /\ seq - last_sequence > max_plausible_gap(now)
  /\ Ignore
  /\ pending_sequence_candidate' = seq

SuspiciousJump(seq, now) ==
  /\ Judged(seq)
  /\ seq > last_sequence
  /\ seq - last_sequence > max_plausible_gap(now)
  /\ AcceptUntrusted(seq)
  /\ pending_sequence_candidate' = seq
  /\ UNCHANGED missed_packets

(* Mutant: the gap itself is counted as missed. *)
ForwardStepWholeGap(seq, now) ==
  /\ Judged(seq)
  /\ seq > last_sequence
  /\ seq - last_sequence <= max_plausible_gap(now)
  /\ AcceptTrusted(seq, now)
  /\ missed_packets' = missed_packets + (seq - last_sequence)
  /\ pending_sequence_candidate' = None

ForwardStep(seq, now) ==
  /\ Judged(seq)
  /\ seq > last_sequence
  /\ seq - last_sequence <= max_plausible_gap(now)
  /\ AcceptTrusted(seq, now)
  /\ missed_packets' = missed_packets + (seq - last_sequence - 1)
  /\ pending_sequence_candidate' = None

(* Back to a number near zero: the transmitter has restarted. *)
SequenceReset(seq, now) ==
  /\ Judged(seq)
  /\ seq < last_sequence
  /\ seq <= REBOOT_SEQUENCE_WINDOW
  /\ AcceptTrusted(seq, now)
  /\ pending_sequence_candidate' = None
  /\ UNCHANGED missed_packets

Backward(seq) ==
  /\ Judged(seq)
  /\ seq < last_sequence
  /\ seq > REBOOT_SEQUENCE_WINDOW
  /\ Ignore
  /\ pending_sequence_candidate' = None

Accepted(seq, now) ==
  \/ FirstPacket(seq, now)
  \/ Resync(seq, now)
  \/ SuspiciousJump(seq, now)
  \/ ForwardStep(seq, now)
  \/ SequenceReset(seq, now)

Ignored(seq) ==
  \/ DuplicateCandidate(seq)
  \/ DuplicateSequence(seq)
  \/ Backward(seq)

OnPacket(seq, now) == Accepted(seq, now) \/ Ignored(seq)
=============================================================================
