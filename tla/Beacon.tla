------------------------------- MODULE Beacon -------------------------------
(***************************************************************************)
(* SequenceTracker fed by a well-behaved transmitter: a beacon that counts *)
(* its packets from zero and sends at most one per second, over one radio  *)
(* hop and the channels of the receiver.  That path loses packets, may     *)
(* hand the same one over twice, delays each by at most MaxDelay, and      *)
(* keeps their order.  At any time, before the first packet too, a stray   *)
(* frame may appear whose CRC is good but whose sequence number is wild.   *)
(* first, genuine and last_sent_at are history variables.                  *)
(***************************************************************************)
EXTENDS SequenceTracker, Sequences

CONSTANTS
  MaxDelay,       \* ms from sending a packet to its turn in the receiver loop
  WildSequences,  \* the numbers a stray frame may carry
  ClockSteps,     \* ms the clock may advance at once
  MaxTime,        \* bound: the clock stops here
  MaxInFlight,    \* packets in the air and in the channels
  MaxStray        \* bound: stray frames in a behaviour

(* The delay a receiver may add without a suspicion is the tolerance.  A stray
   number is not one the beacon reaches, and no two of them are successive. *)
ASSUME BeaconAssumption ==
  /\ MaxDelay \in Nat /\ MaxDelay <= 1000 * SEQUENCE_GAP_TOLERANCE
  /\ MaxTime \in Nat
  /\ MaxInFlight \in Nat
  /\ MaxStray \in Nat
  /\ ClockSteps \subseteq Nat \ {0}
  /\ WildSequences \subseteq Nat

ASSUME WildAssumption ==
  \A w \in WildSequences :
    /\ w > MaxTime + SEQUENCE_GAP_TOLERANCE + 1
    /\ w > REBOOT_SEQUENCE_WINDOW
    /\ w + 1 \notin WildSequences

VARIABLES
  now,          \* the receiver's clock, ms
  next_seq,     \* the next number the beacon sends
  next_send_at, \* not before this time
  air,          \* packets under way, oldest first
  strays,       \* stray frames so far
  first,        \* history: the first accepted number
  genuine,      \* history: accepted packets that the beacon sent
  last_sent_at  \* history: when the baseline packet was sent

environment == <<now, next_seq, next_send_at, air, strays>>
history == <<first, genuine, last_sent_at>>
vars == <<tracker, environment, history>>

Packet == [seq : Nat, sent_at : Nat]

IsStray(p) == p.seq \in WildSequences

Init ==
  /\ TrackerInit
  /\ now = 0
  /\ next_seq = 0
  /\ next_send_at = 0
  /\ air = <<>>
  /\ strays = 0
  /\ first = None
  /\ genuine = 0
  /\ last_sent_at = None

(* Time passes while no packet under way would be late. *)
Tick ==
  /\ \E d \in ClockSteps :
       /\ now + d <= MaxTime
       /\ \A i \in DOMAIN air : now + d <= air[i].sent_at + MaxDelay
       /\ now' = now + d
  /\ UNCHANGED <<next_seq, next_send_at, air, strays>>
  /\ UNCHANGED <<tracker, history>>

(* The beacon sends; the packet gets under way or is lost. *)
Send(heard) ==
  /\ now >= next_send_at
  /\ heard => Len(air) < MaxInFlight
  /\ air' = IF heard
              THEN Append(air, [seq |-> next_seq, sent_at |-> now])
              ELSE air
  /\ next_seq' = next_seq + 1
  /\ next_send_at' = now + 1000
  /\ UNCHANGED <<now, strays>>
  /\ UNCHANGED <<tracker, history>>

(* A stray frame: the receiver may hear it before anything else. *)
Stray ==
  /\ strays < MaxStray
  /\ Len(air) < MaxInFlight
  /\ \E w \in WildSequences :
       air' = Append(air, [seq |-> w, sent_at |-> now])
  /\ strays' = strays + 1
  /\ UNCHANGED <<now, next_seq, next_send_at>>
  /\ UNCHANGED <<tracker, history>>

(* The receiver loop handles the oldest packet; again = TRUE leaves it there
   to be handed over once more. *)
Hear(again) ==
  /\ air # <<>>
  /\ OnPacket(Head(air).seq, now)
  /\ air' = IF again THEN air ELSE Tail(air)
  /\ first' = IF last_sequence = None THEN Head(air).seq ELSE first
  /\ genuine' = IF IsStray(Head(air)) THEN genuine
                ELSE genuine + (received_packets' - received_packets)
  /\ last_sent_at' = IF last_sequence' # last_sequence THEN Head(air).sent_at
                     ELSE last_sent_at
  /\ UNCHANGED <<now, next_seq, next_send_at, strays>>

Next ==
  \/ Tick
  \/ \E heard \in BOOLEAN : Send(heard)
  \/ Stray
  \/ \E again \in BOOLEAN : Hear(again)

Spec == Init /\ [][Next]_vars

-----------------------------------------------------------------------------
(* Types: the tracker's, and a path that holds packets with the time of sending. *)
TypeOK ==
  /\ TrackerTypeOK
  /\ now \in 0 .. MaxTime
  /\ next_seq \in Nat
  /\ next_send_at \in Nat
  /\ air \in Seq(Packet)
  /\ strays \in Nat
  /\ first \in Nat \cup {None}
  /\ genuine \in Nat
  /\ last_sent_at \in Nat \cup {None}

(* Time against sequence never works against an honest beacon: whatever is
   lost, repeated or delayed within the tolerance, and after however long an
   outage, the only numbers ever put on probation are the stray ones
   (main.rs 1055-1093). *)
HonestBeaconNeverSuspected ==
  pending_sequence_candidate # None => pending_sequence_candidate \in WildSequences

(* The loss figure on the display is exact if a genuine packet is heard first:
   every number from that one to the baseline was either accepted or counted as
   missed, once, and stray frames and repeats do not disturb it
   (main.rs 987-1105). *)
MissedIsExact ==
  last_sequence # None /\ first \notin WildSequences =>
    missed_packets + genuine = last_sequence - first + 1

(* A stray frame heard first is believed (main.rs 956-962, 1152-1162), but once
   a packet of the beacon has been accepted the baseline is a number the beacon
   has really sent, whatever strays follow (comment at main.rs 54-58: the
   candidate is discarded "without poisoning sequence state"). *)
BaselineWasSent ==
  last_sequence # None =>
    last_sequence < next_seq \/ (genuine = 0 /\ first \in WildSequences)
=============================================================================
