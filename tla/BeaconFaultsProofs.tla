------------------------- MODULE BeaconFaultsProofs -------------------------
(***************************************************************************)
(* Proofs about BeaconFaults for every tolerance and window, any leaps of  *)
(* the transmitter's number, and any number of reboots and losses.         *)
(***************************************************************************)
EXTENDS BeaconFaults, TLAPS

Candidate == pending_sequence_candidate

(* Beats are whole seconds. *)
ClockInv == now % 1000 = 0

(* Without a baseline nothing has been counted; a candidate lies ahead of the
   baseline, and the baseline not behind the start of its count. *)
BaselineInv ==
  /\ last_sequence = None =>
       /\ Candidate = None
       /\ received_packets = 0 /\ missed_packets = 0 /\ closed = 0 /\ discarded = 0
  /\ last_sequence # None => start # None /\ start <= last_sequence
  /\ Candidate # None => last_sequence # None /\ Candidate > last_sequence

(* The newest packet heard is the baseline, or the candidate, or it was ignored
   for its number. *)
HeardInv ==
  heard # None =>
    /\ last_sequence # None
    /\ \/ last_sequence = heard /\ Candidate = None
       \/ Candidate = heard
       \/ Behind(heard) /\ Candidate = None

(* Numbers that are ignored in a row grow from the reboot window on, and none is
   beyond the baseline. *)
LockoutInv ==
  ignored > 0 =>
    /\ heard # None /\ heard < next_seq
    /\ \/ Candidate = heard /\ ignored = 1
       \/ last_sequence = heard /\ ignored = 1
       \/ /\ heard <= last_sequence /\ REBOOT_SEQUENCE_WINDOW < heard
          /\ ignored <= heard - REBOOT_SEQUENCE_WINDOW

IInv ==
  /\ TypeOK
  /\ ClockInv
  /\ BaselineInv
  /\ JumpAccounting
  /\ HeardInv
  /\ TwoInARowResync
  /\ LockoutInv

-----------------------------------------------------------------------------
(* A packet leaves the tracker's variables in their types; none is uncounted. *)
LEMMA TrackerTypes ==
  ASSUME TrackerTypeOK, NEW seq \in Nat, NEW t \in Nat, OnPacket(seq, t)
  PROVE  TrackerTypeOK' /\ received_packets' >= received_packets
<1> USE DEF TrackerTypeOK, None
<1>1. CASE FirstPacket(seq, t) \/ SuspiciousJump(seq, t) \/ SequenceReset(seq, t)
  BY <1>1 DEF FirstPacket, SuspiciousJump, SequenceReset, AcceptTrusted, AcceptUntrusted
<1>2. CASE Resync(seq, t)
  <2>1. /\ pending_sequence_candidate \in Nat /\ last_sequence \in Nat
        /\ pending_sequence_candidate > last_sequence
    BY <1>2 DEF Resync, Confirms
  <2>2. QED
    BY <1>2, <2>1 DEF Resync, AcceptTrusted
<1>3. CASE ForwardStep(seq, t)
  <2>1. last_sequence \in Nat /\ seq > last_sequence
    BY <1>3 DEF ForwardStep, Judged
  <2>2. QED
    BY <1>3, <2>1 DEF ForwardStep, AcceptTrusted
<1>4. CASE Ignored(seq)
  BY <1>4 DEF Ignored, DuplicateCandidate, DuplicateSequence, Backward, Ignore
<1>5. QED
  BY <1>1, <1>2, <1>3, <1>4 DEF OnPacket, Accepted

(* Numbers, each by itself. *)
LEMMA NumberTypes ==
  ASSUME TypeOK
  PROVE  /\ last_sequence \in Nat \cup {-1} /\ Candidate \in Nat \cup {-1}
         /\ last_sequence_rx_time \in Nat \cup {-1}
         /\ received_packets \in Nat /\ missed_packets \in Nat
         /\ closed \in Nat /\ discarded \in Nat /\ ignored \in Nat /\ streak \in Nat
         /\ next_seq \in Nat /\ jumps \in Nat /\ reboots \in Nat /\ now \in Nat
         /\ heard \in Nat \cup {-1} /\ start \in Nat \cup {-1}
         /\ REBOOT_SEQUENCE_WINDOW \in Nat
  BY FaultAssumption, TrackerAssumption DEF TypeOK, TrackerTypeOK, None, Candidate

(* The next number is always plausible. *)
LEMMA GapAtLeastOne ==
  ASSUME TypeOK, NEW t \in Nat
  PROVE  max_plausible_gap(t) \in Int /\ max_plausible_gap(t) >= 1
<1>1. last_sequence_rx_time \in Int /\ SEQUENCE_GAP_TOLERANCE \in Nat
  BY NumberTypes, TrackerAssumption
<1> DEFINE gap == ((t - last_sequence_rx_time) * BEACON_SEQUENCE_RATE_HZ) \div 1000
<1>2. gap \in Int
  BY <1>1 DEF BEACON_SEQUENCE_RATE_HZ
<1>3. max_plausible_gap(t) = IF gap + SEQUENCE_GAP_TOLERANCE >= 1
                               THEN gap + SEQUENCE_GAP_TOLERANCE ELSE 1
  BY DEF max_plausible_gap
<1> HIDE DEF gap
<1>4. QED
  BY <1>1, <1>2, <1>3

(* What the branches come to: the baseline is taken over, the number becomes the
   candidate, or neither. *)
Taken(seq) ==
  /\ last_sequence' = seq /\ received_packets' = received_packets + 1
  /\ Candidate' = None
  /\ \/ last_sequence = None /\ missed_packets' = missed_packets
     \/ /\ last_sequence # None /\ seq > last_sequence
        /\ Candidate # None /\ seq = Candidate + 1
        /\ missed_packets' = missed_packets + (seq - last_sequence - 2)
     \/ /\ last_sequence # None /\ seq > last_sequence
        /\ Candidate # seq /\ (Candidate # None => seq # Candidate + 1)
        /\ missed_packets' = missed_packets + (seq - last_sequence - 1)
     \/ /\ last_sequence # None /\ seq < last_sequence /\ seq <= REBOOT_SEQUENCE_WINDOW
        /\ Candidate # seq /\ (Candidate # None => seq # Candidate + 1)
        /\ missed_packets' = missed_packets

Probation(seq) ==
  /\ last_sequence # None /\ seq > last_sequence /\ Candidate # seq
  /\ last_sequence' = last_sequence /\ received_packets' = received_packets + 1
  /\ missed_packets' = missed_packets /\ Candidate' = seq

Passed(seq) ==
  /\ last_sequence # None
  /\ last_sequence' = last_sequence /\ received_packets' = received_packets
  /\ missed_packets' = missed_packets
  /\ \/ Candidate = seq /\ Candidate' = Candidate
     \/ /\ Candidate # seq /\ Candidate' = None
        /\ seq = last_sequence \/ Behind(seq)

LEMMA Branches ==
  ASSUME TypeOK, BaselineInv, NEW seq \in Nat, NEW t \in Nat, OnPacket(seq, t)
  PROVE  Taken(seq) \/ Probation(seq) \/ Passed(seq)
<1>1. /\ last_sequence \in Nat \cup {-1} /\ Candidate \in Nat \cup {-1}
      /\ received_packets \in Nat /\ missed_packets \in Nat
  BY NumberTypes
<1> USE DEF Candidate, None, BaselineInv
<1>2. CASE FirstPacket(seq, t)
  BY <1>1, <1>2 DEF FirstPacket, AcceptTrusted, Taken
<1>3. CASE Resync(seq, t)
  <2>1. /\ last_sequence # -1 /\ Candidate # -1 /\ seq = Candidate + 1
        /\ Candidate > last_sequence
    BY <1>3 DEF Resync, Confirms
  <2>2. seq > last_sequence /\ Candidate - last_sequence - 1 = seq - last_sequence - 2
    BY <1>1, <2>1
  <2>3. QED
    BY <1>3, <2>1, <2>2 DEF Resync, AcceptTrusted, Taken
<1>4. CASE SuspiciousJump(seq, t)
  BY <1>1, <1>4 DEF SuspiciousJump, AcceptUntrusted, Judged, Probation
<1>5. CASE ForwardStep(seq, t)
  <2>1. Candidate # seq /\ (Candidate # -1 => seq # Candidate + 1)
    BY <1>5 DEF ForwardStep, Judged, Confirms
  <2>2. QED
    BY <1>1, <1>5, <2>1 DEF ForwardStep, AcceptTrusted, Judged, Taken
<1>6. CASE SequenceReset(seq, t)
  <2>1. Candidate # seq /\ (Candidate # -1 => seq # Candidate + 1)
    BY <1>6 DEF SequenceReset, Judged, Confirms
  <2>2. QED
    BY <1>1, <1>6, <2>1 DEF SequenceReset, AcceptTrusted, Judged, Taken
<1>7. CASE Ignored(seq)
  BY <1>1, <1>7
  DEF Ignored, DuplicateCandidate, DuplicateSequence, Backward, Ignore, Judged, Passed, Behind
<1>8. QED
  BY <1>2, <1>3, <1>4, <1>5, <1>6, <1>7 DEF OnPacket, Accepted

-----------------------------------------------------------------------------
(* The books balance after a packet, whichever it was. *)
LEMMA BooksKeep ==
  ASSUME TypeOK, BaselineInv, JumpAccounting,
         NEW seq \in Nat, NEW t \in Nat, OnPacket(seq, t), Account
  PROVE  /\ closed' \in Nat /\ discarded' \in Nat /\ start' \in Nat
         /\ BaselineInv' /\ JumpAccounting'
<1>1. /\ last_sequence \in Nat \cup {-1} /\ Candidate \in Nat \cup {-1}
      /\ received_packets \in Nat /\ missed_packets \in Nat
      /\ closed \in Nat /\ discarded \in Nat /\ start \in Nat \cup {-1}
  BY NumberTypes
<1>2. /\ start' = IF last_sequence = -1 \/ Restarts THEN last_sequence' ELSE start
      /\ closed' = IF Restarts THEN closed + (last_sequence - start + 1) ELSE closed
      /\ discarded' = IF Candidate # -1 /\ Candidate' # Candidate
                           /\ last_sequence' # Candidate + 1
                        THEN discarded + 1 ELSE discarded
      /\ Restarts <=> last_sequence # -1 /\ last_sequence' < last_sequence
  BY DEF Account, Restarts, Candidate, None
<1>3. /\ last_sequence = -1 =>
           /\ Candidate = -1 /\ received_packets = 0 /\ missed_packets = 0
           /\ closed = 0 /\ discarded = 0
      /\ last_sequence # -1 =>
           /\ start # -1 /\ start <= last_sequence
           /\ received_packets + missed_packets =
                closed + (last_sequence - start + 1) + discarded
                  + (IF Candidate = -1 THEN 0 ELSE 1)
      /\ Candidate # -1 => last_sequence # -1 /\ Candidate > last_sequence
  BY DEF BaselineInv, JumpAccounting, Candidate, None
<1>4. SUFFICES
        /\ closed' \in Nat /\ discarded' \in Nat /\ start' \in Nat
        /\ last_sequence' # -1 /\ start' <= last_sequence'
        /\ Candidate' # -1 => Candidate' > last_sequence'
        /\ received_packets' + missed_packets' =
             closed' + (last_sequence' - start' + 1) + discarded'
               + (IF Candidate' = -1 THEN 0 ELSE 1)
  BY DEF BaselineInv, JumpAccounting, Candidate, None
<1>5. CASE Taken(seq)
  BY <1>1, <1>2, <1>3, <1>5 DEF Taken, None
<1>6. CASE Probation(seq)
  BY <1>1, <1>2, <1>3, <1>6 DEF Probation, None
<1>7. CASE Passed(seq)
  BY <1>1, <1>2, <1>3, <1>7 DEF Passed, None
<1>8. QED
  BY <1>5, <1>6, <1>7, Branches

-----------------------------------------------------------------------------
(* After a packet its number is where HeardInv says. *)
LEMMA HeardKeeps ==
  ASSUME TypeOK, BaselineInv, NEW seq \in Nat, NEW t \in Nat, OnPacket(seq, t)
  PROVE  /\ last_sequence' # None
         /\ \/ last_sequence' = seq /\ Candidate' = None
            \/ Candidate' = seq
            \/ Behind(seq)' /\ Candidate' = None
<1>1. CASE Taken(seq)
  BY <1>1 DEF Taken, None
<1>2. CASE Probation(seq)
  BY <1>2 DEF Probation
<1>3. CASE Passed(seq)
  BY <1>3 DEF Passed, Behind
<1>4. QED
  BY <1>1, <1>2, <1>3, Branches

(* The successor of a number that was heard is the baseline or lies behind it. *)
LEMMA SuccessorTaken ==
  ASSUME TypeOK, BaselineInv, HeardInv, heard # None,
         NEW seq \in Nat, seq = heard + 1, NEW t \in Nat, OnPacket(seq, t)
  PROVE  last_sequence' = seq \/ Behind(seq)'
<1>1. /\ last_sequence \in Nat \cup {-1} /\ Candidate \in Nat \cup {-1} /\ heard \in Nat
      /\ REBOOT_SEQUENCE_WINDOW \in Nat
  BY NumberTypes DEF None
<1>2. last_sequence # -1
  BY DEF HeardInv, None
<1>3. CASE last_sequence = heard /\ Candidate = -1
  <2>1. Judged(seq)
    BY <1>1, <1>2, <1>3 DEF Judged, Confirms, Candidate, None
  <2>2. /\ seq > last_sequence /\ seq # last_sequence
        /\ ~(seq < last_sequence)
        /\ seq - last_sequence <= max_plausible_gap(t)
        /\ ~(seq - last_sequence > max_plausible_gap(t))
    BY <1>1, <1>3, GapAtLeastOne
  <2>3. Candidate # seq
    BY <1>1, <1>3
  <2>4. ForwardStep(seq, t)
    <3>1. ~FirstPacket(seq, t) /\ ~Resync(seq, t)
      BY <1>2, <1>3 DEF FirstPacket, Resync, Confirms, Candidate, None
    <3>2. ~SuspiciousJump(seq, t)
      BY <2>2, Zenon DEF SuspiciousJump
    <3>3. ~SequenceReset(seq, t)
      BY <2>2 DEF SequenceReset
    <3>4. ~Ignored(seq)
      BY <2>2, <2>3
      DEF Ignored, DuplicateCandidate, DuplicateSequence, Backward, Candidate
    <3>5. QED
      BY <3>1, <3>2, <3>3, <3>4 DEF OnPacket, Accepted
  <2>5. QED
    BY <2>4 DEF ForwardStep, AcceptTrusted
<1>4. CASE Candidate = heard
  <2>1. Confirms(seq) /\ Candidate # seq
    BY <1>1, <1>4 DEF BaselineInv, Confirms, Candidate, None
  <2>2. Resync(seq, t)
    BY <1>2, <2>1
    DEF OnPacket, Accepted, Ignored, FirstPacket, SuspiciousJump, ForwardStep, Judged,
        SequenceReset, DuplicateCandidate, DuplicateSequence, Backward, Candidate, None
  <2>3. QED
    BY <2>2 DEF Resync, AcceptTrusted
<1>5. CASE Behind(heard) /\ Candidate = -1
  <2>1. /\ REBOOT_SEQUENCE_WINDOW < seq /\ seq <= last_sequence
        /\ Candidate # seq
    BY <1>1, <1>5, <1>2 DEF Behind
  <2>2. CASE Taken(seq)
    BY <2>2 DEF Taken
  <2>3. CASE Probation(seq)
    BY <1>1, <2>1, <2>3, <1>2 DEF Probation
  <2>4. CASE Passed(seq)
    <3>1. last_sequence' = last_sequence
      BY <2>4 DEF Passed
    <3>2. CASE seq = last_sequence
      BY <3>1, <3>2
    <3>3. CASE seq # last_sequence
      <4>1. seq < last_sequence
        BY <1>1, <1>2, <2>1, <3>3
      <4>2. QED
        BY <2>1, <3>1, <4>1 DEF Behind
    <3>4. QED
      BY <3>2, <3>3
  <2>5. QED
    BY <1>1, <2>2, <2>3, <2>4, Branches
<1>6. QED
  BY <1>3, <1>4, <1>5 DEF HeardInv, None

(* A new number after ignored ones is either accepted or ignored for lying
   further into the lockout. *)
LEMMA LockoutKeeps ==
  ASSUME TypeOK, BaselineInv, HeardInv, LockoutInv, NEW seq \in Nat, NEW t \in Nat,
         OnPacket(seq, t), received_packets' = received_packets, next_seq <= seq
  PROVE  \/ Candidate' = seq /\ ignored = 0
         \/ last_sequence' = seq /\ ignored = 0
         \/ /\ seq <= last_sequence' /\ REBOOT_SEQUENCE_WINDOW < seq
            /\ ignored + 1 <= seq - REBOOT_SEQUENCE_WINDOW
<1>1. /\ last_sequence \in Nat \cup {-1} /\ Candidate \in Nat \cup {-1}
      /\ heard \in Nat \cup {-1} /\ ignored \in Nat /\ next_seq \in Nat
      /\ REBOOT_SEQUENCE_WINDOW \in Nat /\ received_packets \in Nat
  BY NumberTypes
<1>2. Passed(seq)
  BY <1>1, Branches DEF Taken, Probation
<1>3. /\ last_sequence # -1 /\ last_sequence' = last_sequence
      /\ \/ Candidate = seq /\ Candidate' = Candidate
         \/ /\ Candidate # seq /\ Candidate' = -1
            /\ seq = last_sequence \/ Behind(seq)
  BY <1>2 DEF Passed, None
<1>4. CASE ignored = 0
  <2>1. CASE Candidate = seq /\ Candidate' = Candidate
    BY <1>4, <2>1
  <2>2. CASE seq = last_sequence
    BY <1>3, <1>4, <2>2
  <2>3. CASE Behind(seq)
    BY <1>1, <1>3, <1>4, <2>3 DEF Behind
  <2>4. QED
    BY <1>3, <2>1, <2>2, <2>3
<1>5. CASE ignored > 0
  <2>1. heard \in Nat /\ heard < seq
    BY <1>1, <1>5 DEF LockoutInv, None
  <2>2. \/ Candidate = heard
        \/ last_sequence = heard
        \/ /\ heard <= last_sequence /\ REBOOT_SEQUENCE_WINDOW < heard
           /\ ignored <= heard - REBOOT_SEQUENCE_WINDOW
    BY <1>5 DEF LockoutInv
  <2>3. Candidate # -1 => Candidate > last_sequence
    BY DEF BaselineInv, None
  <2>4. \/ last_sequence = heard /\ Candidate = -1
        \/ Candidate = heard
        \/ Behind(heard) /\ Candidate = -1
    BY <2>1 DEF HeardInv, None
  <2>5. Candidate # heard
    BY <1>1, <1>3, <2>1, <2>3 DEF Behind
  <2>6. Candidate = -1 /\ heard <= last_sequence
    BY <1>1, <2>1, <2>4, <2>5 DEF Behind
  <2>7. seq <= last_sequence /\ last_sequence # heard
    BY <1>1, <1>3, <2>1, <2>6 DEF Behind
  <2>8. QED
    BY <1>1, <1>3, <2>1, <2>2, <2>5, <2>7
<1>6. QED
  BY <1>1, <1>4, <1>5

-----------------------------------------------------------------------------
LEMMA InitHolds == Init => IInv
<1> SUFFICES ASSUME Init PROVE IInv
  OBVIOUS
<1> USE DEF Init, TrackerInit
<1>1. TypeOK
  <2>1. 0 \in 0 .. 1000 * MaxBeats
    BY FaultAssumption
  <2>2. TrackerTypeOK
    BY DEF TrackerTypeOK
  <2>3. QED
    BY <2>1, <2>2 DEF TypeOK
<1>2. ClockInv /\ BaselineInv /\ JumpAccounting
  BY DEF ClockInv, BaselineInv, JumpAccounting, Candidate
<1>3. HeardInv /\ TwoInARowResync /\ LockoutInv
  BY DEF HeardInv, TwoInARowResync, LockoutInv
<1>4. QED
  BY <1>1, <1>2, <1>3 DEF IInv

(* A beat is the next second. *)
LEMMA BeatTypes ==
  ASSUME TypeOK, ClockInv, Beat
  PROVE  /\ now + 1000 \in Nat /\ now' = now + 1000
         /\ now' \in 0 .. 1000 * MaxBeats /\ ClockInv'
         /\ next_seq' \in Nat /\ jumps' \in Nat /\ reboots' \in Nat
<1>1. now \in Nat /\ now % 1000 = 0 /\ next_seq \in Nat /\ MaxBeats \in Nat
      /\ now < 1000 * MaxBeats /\ jumps \in Nat /\ reboots \in Nat
  BY NumberTypes, FaultAssumption DEF ClockInv, Beat
<1>2. now + 1000 <= 1000 * MaxBeats /\ (now + 1000) % 1000 = 0
  BY <1>1
<1>3. now' = now + 1000 /\ next_seq' = next_seq + 1 /\ UNCHANGED <<jumps, reboots>>
  BY DEF Beat
<1>4. QED
  BY <1>1, <1>2, <1>3 DEF ClockInv

(* The tracker hears nothing. *)
LEMMA SilentSteps == ASSUME IInv, Jump \/ Reboot \/ Lost PROVE IInv'
<1> USE DEF IInv
<1>1. UNCHANGED <<tracker, heard, start, closed, discarded>>
  BY DEF Jump, Reboot, Lost, history
<1>2. BaselineInv' /\ JumpAccounting' /\ HeardInv'
  BY <1>1 DEF tracker, BaselineInv, JumpAccounting, HeardInv, Behind, Candidate
<1>3. /\ next_seq \in Nat /\ jumps \in Nat /\ reboots \in Nat
      /\ streak \in Nat /\ ignored \in Nat /\ heard \in Nat \cup {-1}
      /\ Jumps \subseteq Nat
  BY NumberTypes, FaultAssumption
<1>4. CASE Jump
  <2>1. PICK j \in Nat : next_seq' = next_seq + j
    BY <1>3, <1>4 DEF Jump
  <2>2. UNCHANGED <<now, reboots, streak, ignored>> /\ jumps' = jumps + 1
    BY <1>4 DEF Jump, history
  <2>3. TypeOK' /\ ClockInv'
    BY <1>1, <1>3, <2>1, <2>2 DEF TypeOK, TrackerTypeOK, tracker, ClockInv
  <2>4. TwoInARowResync' /\ LockoutInv'
    BY <1>1, <1>3, <2>1, <2>2
    DEF TwoInARowResync, LockoutInv, Behind, Candidate, tracker, None
  <2>5. QED
    BY <1>2, <2>3, <2>4
<1>5. CASE Reboot
  <2>1. /\ next_seq' = 0 /\ reboots' = reboots + 1 /\ streak' = 0 /\ ignored' = 0
        /\ UNCHANGED <<now, jumps>>
    BY <1>5 DEF Reboot
  <2>2. TypeOK' /\ ClockInv'
    BY <1>1, <1>3, <2>1 DEF TypeOK, TrackerTypeOK, tracker, ClockInv
  <2>3. TwoInARowResync' /\ LockoutInv'
    BY <2>1 DEF TwoInARowResync, LockoutInv
  <2>4. QED
    BY <1>2, <2>2, <2>3
<1>6. CASE Lost
  <2>1. /\ Beat /\ streak' = 0 /\ UNCHANGED ignored /\ next_seq' = next_seq + 1
    BY <1>6 DEF Lost, Beat
  <2>2. TypeOK' /\ ClockInv'
    BY <1>1, <1>3, <2>1, BeatTypes DEF TypeOK, TrackerTypeOK, tracker
  <2>3. TwoInARowResync' /\ LockoutInv'
    BY <1>1, <1>3, <2>1
    DEF TwoInARowResync, LockoutInv, Candidate, tracker, None
  <2>4. QED
    BY <1>2, <2>2, <2>3
<1>7. QED
  BY <1>4, <1>5, <1>6

(* A packet is heard. *)
LEMMA HeardStep == ASSUME IInv, Heard PROVE IInv'
<1> USE DEF IInv
<1>1. PICK seq \in Nat, t \in Nat : seq = next_seq /\ t = now' /\ OnPacket(seq, t)
  BY NumberTypes, BeatTypes DEF Heard
<1>2. /\ Beat /\ Account /\ heard' = seq /\ next_seq' = seq + 1
      /\ streak' = IF heard # None /\ seq = heard + 1 THEN streak + 1 ELSE 1
      /\ ignored' = IF received_packets' = received_packets THEN ignored + 1 ELSE 0
  BY <1>1 DEF Heard, Beat
<1>3. TrackerTypeOK'
  BY <1>1, TrackerTypes DEF TypeOK
<1>4. /\ closed' \in Nat /\ discarded' \in Nat /\ start' \in Nat
      /\ BaselineInv' /\ JumpAccounting'
  BY <1>1, <1>2, BooksKeep
<1>5. streak \in Nat /\ ignored \in Nat /\ heard \in Nat \cup {-1}
  BY NumberTypes
<1>6. TypeOK' /\ ClockInv'
  <2>1. streak' \in Nat /\ ignored' \in Nat
    BY <1>2, <1>5
  <2>2. QED
    BY <1>2, <1>3, <1>4, <2>1, BeatTypes DEF TypeOK
<1>7. HeardInv'
  BY <1>1, <1>2, HeardKeeps DEF HeardInv, Behind
<1>8. TwoInARowResync'
  <2>1. SUFFICES ASSUME streak' >= 2 PROVE last_sequence' = seq \/ Behind(seq)'
    BY <1>2 DEF TwoInARowResync, Behind
  <2>2. heard # None /\ seq = heard + 1
    BY <1>2, <2>1
  <2>3. QED
    BY <1>1, <2>2, SuccessorTaken
<1>9. LockoutInv'
  <2>1. SUFFICES ASSUME ignored' > 0
                 PROVE  \/ Candidate' = seq /\ ignored' = 1
                        \/ last_sequence' = seq /\ ignored' = 1
                        \/ /\ seq <= last_sequence' /\ REBOOT_SEQUENCE_WINDOW < seq
                           /\ ignored' <= seq - REBOOT_SEQUENCE_WINDOW
    BY <1>1, <1>2 DEF LockoutInv, None
  <2>2. received_packets' = received_packets /\ ignored' = ignored + 1
    BY <1>2, <2>1
  <2>3. next_seq <= seq
    BY <1>1
  <2>4. \/ Candidate' = seq /\ ignored = 0
        \/ last_sequence' = seq /\ ignored = 0
        \/ /\ seq <= last_sequence' /\ REBOOT_SEQUENCE_WINDOW < seq
           /\ ignored + 1 <= seq - REBOOT_SEQUENCE_WINDOW
    BY <1>1, <2>2, <2>3, LockoutKeeps
  <2>5. QED
    BY <2>2, <2>4
<1>10. QED
  BY <1>4, <1>6, <1>7, <1>8, <1>9

(* The newest packet is handed over once more: it is where it was. *)
LEMMA RepeatStep == ASSUME IInv, Repeat PROVE IInv'
<1> USE DEF IInv
<1>1. /\ heard \in Nat /\ now \in Nat /\ ignored \in Nat
      /\ last_sequence \in Nat \cup {-1} /\ Candidate \in Nat \cup {-1}
      /\ received_packets \in Nat /\ REBOOT_SEQUENCE_WINDOW \in Nat
  BY NumberTypes DEF Repeat, None
<1>2. PICK seq \in Nat, t \in Nat : seq = heard /\ t = now /\ OnPacket(seq, t)
  BY <1>1 DEF Repeat
<1>3. Account /\ UNCHANGED <<transmitter, heard, streak, ignored>>
  BY DEF Repeat
<1>4. TrackerTypeOK'
  BY <1>2, TrackerTypes DEF TypeOK
<1>5. /\ closed' \in Nat /\ discarded' \in Nat /\ start' \in Nat
      /\ BaselineInv' /\ JumpAccounting'
  BY <1>2, <1>3, BooksKeep
<1>6. TypeOK' /\ ClockInv'
  BY <1>3, <1>4, <1>5 DEF TypeOK, ClockInv, transmitter
<1>7. HeardInv'
  BY <1>2, <1>3, HeardKeeps DEF HeardInv, Behind
<1>8. UNCHANGED <<last_sequence, Candidate>>
  <2>1. /\ last_sequence # -1
        /\ \/ last_sequence = heard /\ Candidate = -1
           \/ Candidate = heard /\ Candidate > last_sequence
           \/ Behind(heard) /\ Candidate = -1
    BY <1>1 DEF HeardInv, BaselineInv, None
  <2>2. CASE Taken(seq)
    BY <1>1, <1>2, <2>1, <2>2 DEF Taken, Behind, None
  <2>3. CASE Probation(seq)
    BY <1>1, <1>2, <2>1, <2>3 DEF Probation, Behind
  <2>4. CASE Passed(seq)
    BY <1>1, <1>2, <2>1, <2>4 DEF Passed, None
  <2>5. QED
    BY <1>2, <2>2, <2>3, <2>4, Branches
<1>9. TwoInARowResync' /\ LockoutInv'
  BY <1>3, <1>8 DEF TwoInARowResync, LockoutInv, Behind, transmitter
<1>10. QED
  BY <1>5, <1>6, <1>7, <1>9

LEMMA StepHolds == IInv /\ [Next]_vars => IInv'
<1> SUFFICES ASSUME IInv, [Next]_vars PROVE IInv'
  OBVIOUS
<1>1. CASE UNCHANGED vars
  BY <1>1
  DEF vars, tracker, transmitter, history, IInv, TypeOK, TrackerTypeOK, ClockInv, BaselineInv,
      JumpAccounting, HeardInv, TwoInARowResync, LockoutInv, Behind, Candidate
<1>2. QED
  BY <1>1, SilentSteps, HeardStep, RepeatStep DEF Next

(* The inductive invariant. *)
THEOREM Invariance == Spec => []IInv
  BY InitHolds, StepHolds, PTL DEF Spec

(* Two successive numbers are enough for the baseline to follow the transmitter,
   however far it leapt, unless the numbers are locked out. *)
THEOREM TwoInARowResyncHolds == Spec => []TwoInARowResync
<1>1. IInv => TwoInARowResync
  BY DEF IInv
<1>2. QED
  BY <1>1, Invariance, PTL

(* The exact books of the counters under leaps and reboots: each candidate that
   was never confirmed is counted once too often, and nothing else is. *)
THEOREM JumpAccountingHolds == Spec => []JumpAccounting
<1>1. IInv => JumpAccounting
  BY DEF IInv
<1>2. QED
  BY <1>1, Invariance, PTL

(* A lockout ends when the transmitter's count reaches the baseline. *)
THEOREM LockoutEndsAtBaselineHolds == Spec => []LockoutEndsAtBaseline
<1>1. IInv => LockoutEndsAtBaseline
  <2> SUFFICES ASSUME IInv, ignored > 1
               PROVE  ignored <= last_sequence - REBOOT_SEQUENCE_WINDOW
    BY DEF LockoutEndsAtBaseline
  <2>1. /\ ignored \in Nat /\ heard \in Nat \cup {-1} /\ last_sequence \in Nat \cup {-1}
        /\ REBOOT_SEQUENCE_WINDOW \in Nat
    BY NumberTypes DEF IInv
  <2>2. heard <= last_sequence /\ ignored <= heard - REBOOT_SEQUENCE_WINDOW
    BY <2>1 DEF IInv, LockoutInv
  <2>3. QED
    BY <2>1, <2>2
<1>2. QED
  BY <1>1, Invariance, PTL
=============================================================================
