------------------------------ MODULE Receiver ------------------------------
(***************************************************************************)
(* The path of a packet through the receiver: the frame in the hands of    *)
(* the radio task, RX_CHANNEL, and the receiver loop, which between two    *)
(* frames writes to the card and in this time takes none.  It is to show   *)
(* that the receiver keeps what Beacon assumes of it: the order of the     *)
(* packets, no loss but at the antenna, and a bound on the delay.          *)
(*                                                                         *)
(* An iteration of the loop is two pieces of work, the top of the loop and *)
(* the handling of a frame, of at most MaxStall each.                      *)
(***************************************************************************)
EXTENDS SequenceTracker, Sequences

CONSTANTS
  RX_CHANNEL_DEPTH,  \* 4 in the source
  Stalls,            \* how long a piece of work may take, ms
  MaxStall,          \* the longest of them
  WildSequences,     \* the numbers a stray frame may carry
  ClockStep,         \* ms the clock advances at once
  MaxTime,           \* bound: the clock stops here
  MaxStray           \* bound: stray frames

(* A packet finds at most a full channel and an iteration before it. *)
PathDelay == 2 * MaxStall * (RX_CHANNEL_DEPTH + 1)

ReceiverAssumption ==
  /\ RX_CHANNEL_DEPTH \in Nat \ {0}
  /\ MaxStall \in Nat /\ Stalls \subseteq 0 .. MaxStall
  /\ PathDelay <= 1000 * SEQUENCE_GAP_TOLERANCE
  /\ {MaxTime, MaxStray} \subseteq Nat /\ ClockStep \in Nat \ {0}
  /\ \A s \in Stalls : s % ClockStep = 0
  /\ WildSequences \subseteq Nat

VARIABLES
  now,
  next_seq, next_send_at, strays,  \* the beacon, as in Beacon
  in_hand,                         \* the frame the radio task has received
  rx_channel,                      \* RX_CHANNEL
  pc,                              \* "top" of the loop, or in the "wait" for a frame
  busy_until,                      \* the end of the present piece of work
  first, genuine, last_sent_at     \* histories, as in Beacon

beacon == <<next_seq, next_send_at, strays>>
radio == <<in_hand, rx_channel>>
loop == <<pc, busy_until>>
history == <<first, genuine, last_sent_at>>
vars == <<tracker, now, beacon, radio, loop, history>>

Init ==
  /\ TrackerInit
  /\ now = 0
  /\ next_seq = 0 /\ next_send_at = 0 /\ strays = 0
  /\ in_hand = <<>> /\ rx_channel = <<>>
  /\ pc = "top" /\ busy_until = 0
  /\ first = None /\ genuine = 0 /\ last_sent_at = None

-----------------------------------------------------------------------------
(* The radio task listens while it has no frame in hand; it holds a frame as
   long as the channel is full, and is deaf meanwhile. *)
Listening == in_hand = <<>>

Packet(seq) == [seq |-> seq, sent_at |-> now]

Send(heard) ==
  /\ now >= next_send_at
  /\ heard => Listening
  /\ in_hand' = IF heard THEN <<Packet(next_seq)>> ELSE in_hand
  /\ next_seq' = next_seq + 1
  /\ next_send_at' = now + 1000
  /\ UNCHANGED <<tracker, now, strays, rx_channel, loop, history>>

Stray ==
  /\ strays < MaxStray
  /\ Listening
  /\ \E w \in WildSequences : in_hand' = <<Packet(w)>>
  /\ strays' = strays + 1
  /\ UNCHANGED <<tracker, now, next_seq, next_send_at, rx_channel, loop, history>>

CanDeliver == ~Listening /\ Len(rx_channel) < RX_CHANNEL_DEPTH

(* Mutant: a full channel loses its oldest frame. *)
DeliverNewest ==
  /\ ~Listening
  /\ rx_channel' = IF Len(rx_channel) < RX_CHANNEL_DEPTH THEN rx_channel \o in_hand
                   ELSE Tail(rx_channel) \o in_hand
  /\ in_hand' = <<>>
  /\ UNCHANGED <<tracker, now, beacon, loop, history>>

Deliver ==
  /\ CanDeliver
  /\ rx_channel' = rx_channel \o in_hand
  /\ in_hand' = <<>>
  /\ UNCHANGED <<tracker, now, beacon, loop, history>>

-----------------------------------------------------------------------------
(* The receiver loop.                                                       *)

Free == now >= busy_until

Work == \E stall \in Stalls : busy_until' = now + stall

(* What is done before the loop waits for a frame: GPS, a record if it is due. *)
Top ==
  /\ pc = "top" /\ Free
  /\ pc' = "wait"
  /\ Work
  /\ UNCHANGED <<tracker, now, beacon, radio, history>>

Handle ==
  /\ pc = "wait" /\ Free
  /\ rx_channel # <<>>
  /\ LET packet == Head(rx_channel) IN
       /\ OnPacket(packet.seq, now)
       /\ first' = IF last_sequence = None THEN packet.seq ELSE first
       /\ genuine' = IF packet.seq \in WildSequences THEN genuine
                     ELSE genuine + (received_packets' - received_packets)
       /\ last_sent_at' = IF last_sequence' # last_sequence THEN packet.sent_at
                          ELSE last_sent_at
  /\ rx_channel' = Tail(rx_channel)
  /\ pc' = "top"
  /\ Work
  /\ UNCHANGED <<now, beacon, in_hand>>

(* The wait ends without a frame, at the watchdog or a deadline; the work then,
   of the loss of the link, is the handling's. *)
TimeUp ==
  /\ pc = "wait" /\ Free
  /\ rx_channel = <<>>
  /\ pc' = "top"
  /\ Work
  /\ UNCHANGED <<tracker, now, beacon, radio, history>>

(* Both tasks run as soon as they can; the loop may wait as long as there is no
   frame. *)
Tick ==
  /\ now + ClockStep <= MaxTime
  /\ ~CanDeliver
  /\ Free => pc = "wait" /\ rx_channel = <<>>
  /\ now' = now + ClockStep
  /\ UNCHANGED <<tracker, beacon, radio, loop, history>>

Next ==
  \/ Tick
  \/ \E heard \in BOOLEAN : Send(heard)
  \/ Stray
  \/ Deliver
  \/ Top
  \/ Handle
  \/ TimeUp

Spec == Init /\ [][Next]_vars

-----------------------------------------------------------------------------
B == INSTANCE Beacon WITH
       air <- rx_channel \o in_hand,
       MaxDelay <- PathDelay,
       MaxInFlight <- RX_CHANNEL_DEPTH + 1,
       ClockSteps <- {ClockStep}

(* Types: Beacon's, with at most a full channel and a frame in hand under way. *)
TypeOK ==
  /\ B!TypeOK
  /\ in_hand \in Seq(B!Packet) /\ Len(in_hand) <= 1
  /\ rx_channel \in Seq(B!Packet) /\ Len(rx_channel) <= RX_CHANNEL_DEPTH
  /\ pc \in {"top", "wait"} /\ busy_until \in 0 .. MaxTime + MaxStall

(* The receiver is a path as Beacon assumes it (radio.rs 402-475, main.rs
   541-765): the channel and the frame in hand keep the order, nothing is lost
   behind the antenna, and no packet waits longer than PathDelay, however the
   stalls fall and however full the channel.  What is proved of Beacon, the
   exact count of the missed packets and that no honest packet is suspected,
   holds of the receiver. *)
ImplementsBeacon == B!Spec
=============================================================================
