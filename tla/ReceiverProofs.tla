--------------------------- MODULE ReceiverProofs ---------------------------
(***************************************************************************)
(* What reaches the receiver loop.  Of packets:                            *)
(* Receiver implements Beacon, for a channel of every depth, stalls of     *)
(* every length and any number of packets.  The order of the packets is    *)
(* that of the concatenated queues; that none is late is an account of the *)
(* work that may still lie before each.  Of characters: sentences are put  *)
(* together as they were sent, for lines of every capacity, and the sums   *)
(* over years and months agree with the calendar on the wall.              *)
(***************************************************************************)
EXTENDS Inputs, SequenceTheorems, WellFoundedInduction, TLAPS

(* The most work that i frames can cost: two pieces each. *)
Turn(i) == 2 * MaxStall * i

(* The loop takes a frame that is there no later than this. *)
Horizon == IF now > busy_until THEN now ELSE busy_until
Ready == Horizon + IF pc = "top" THEN MaxStall ELSE 0

(* A packet with i others before it will be in time. *)
InTime(packet, i) == Ready + Turn(i) <= packet.sent_at + PathDelay

ChannelInv == \A i \in 1 .. Len(rx_channel) : InTime(rx_channel[i], i - 1)

(* A frame in hand before a channel with room gets there before the clock
   advances, but not before the loop may begin more work. *)
HandInv ==
  in_hand # <<>> =>
    /\ InTime(in_hand[1], Len(rx_channel))
    /\ CanDeliver => now + Turn(Len(rx_channel) + 1) <= in_hand[1].sent_at + PathDelay

(* Work in progress ends within MaxStall, at a tick of the clock. *)
WorkInv ==
  /\ busy_until <= now + MaxStall
  /\ now % ClockStep = 0 /\ busy_until % ClockStep = 0

IInv == TypeOK /\ ChannelInv /\ HandInv /\ WorkInv

-----------------------------------------------------------------------------
(* A packet leaves the tracker's variables in their types; none is uncounted. *)
LEMMA TrackerTypes ==
  ASSUME TrackerTypeOK, NEW seq \in Nat, NEW t \in Nat, OnPacket(seq, t)
  PROVE  TrackerTypeOK' /\ received_packets' >= received_packets
<1> USE DEF TrackerTypeOK, None
<1>1. CASE FirstPacket(seq, t) \/ SuspiciousJump(seq, t) \/ SequenceReset(seq, t)
  BY <1>1 DEF FirstPacket, SuspiciousJump, SequenceReset, AcceptTrusted, AcceptUntrusted
<1>2. CASE Resync(seq, t)
  <2>1. /\ pending_sequence_candidate \in Nat /\ last_sequence \in Nat
        /\ pending_sequence_candidate > last_sequence
    BY <1>2 DEF Resync, Confirms
  <2>2. QED
    BY <1>2, <2>1 DEF Resync, AcceptTrusted
<1>3. CASE ForwardStep(seq, t)
  <2>1. last_sequence \in Nat /\ seq > last_sequence
    BY <1>3 DEF ForwardStep, Judged
  <2>2. QED
    BY <1>3, <2>1 DEF ForwardStep, AcceptTrusted
<1>4. CASE Ignored(seq)
  BY <1>4 DEF Ignored, DuplicateCandidate, DuplicateSequence, Backward, Ignore
<1>5. QED
  BY <1>1, <1>2, <1>3, <1>4 DEF OnPacket, Accepted

(* Multiples of a step c. *)
LEMMA Multiple ==
  ASSUME NEW c \in Nat \ {0}, NEW a \in Nat, a % c = 0
  PROVE  \E k \in Nat : a = k * c
  BY SMTT(30)

LEMMA IsMultiple ==
  ASSUME NEW c \in Nat \ {0}, NEW k \in Nat
  PROVE  (k * c) % c = 0
  BY SMTT(30)

(* Sums of them are multiples of it, and two that differ do so by it. *)
LEMMA MultiplesAdd ==
  ASSUME NEW c \in Nat \ {0}, NEW a \in Nat, NEW b \in Nat, a % c = 0, b % c = 0
  PROVE  (a + b) % c = 0
<1>1. PICK k \in Nat : a = k * c
  BY Multiple
<1>2. PICK l \in Nat : b = l * c
  BY Multiple
<1>3. a + b = (k + l) * c /\ k + l \in Nat
  BY <1>1, <1>2
<1>4. ((k + l) * c) % c = 0
  BY <1>3, IsMultiple
<1>5. QED
  BY <1>3, <1>4

LEMMA MultiplesApart ==
  ASSUME NEW c \in Nat \ {0}, NEW a \in Nat, NEW b \in Nat, a % c = 0, b % c = 0, a < b
  PROVE  a + c <= b
<1>1. PICK k \in Nat : a = k * c
  BY Multiple
<1>2. PICK l \in Nat : b = l * c
  BY Multiple
<1>3. k < l
  <2>1. SUFFICES ASSUME l <= k PROVE FALSE
    BY <1>1, <1>2
  <2>2. l * c <= k * c
    BY <2>1
  <2>3. QED
    BY <1>1, <1>2, <2>2
<1>4. k * c + c <= l * c
  BY <1>3
<1>5. QED
  BY <1>1, <1>2, <1>4

(* The turns before a packet add up, to PathDelay for a full channel. *)
LEMMA Turns ==
  ASSUME ReceiverAssumption
  PROVE  /\ PathDelay = Turn(RX_CHANNEL_DEPTH + 1) /\ PathDelay \in Nat
         /\ Turn(0) = 0
         /\ \A i \in Nat : Turn(i) \in Nat /\ Turn(i + 1) = Turn(i) + 2 * MaxStall
         /\ \A i, j \in Nat : i <= j => Turn(i) <= Turn(j)
<1>1. MaxStall \in Nat /\ RX_CHANNEL_DEPTH \in Nat
  BY DEF ReceiverAssumption
<1>2. PathDelay = Turn(RX_CHANNEL_DEPTH + 1) /\ PathDelay \in Nat
  BY <1>1 DEF PathDelay, Turn
<1>3. Turn(0) = 0 /\ \A i \in Nat : Turn(i) \in Nat /\ Turn(i + 1) = Turn(i) + 2 * MaxStall
  BY <1>1 DEF Turn
<1>4. ASSUME NEW i \in Nat, NEW j \in Nat, i <= j PROVE Turn(i) <= Turn(j)
  <2>1. MaxStall * i <= MaxStall * j
    BY <1>1, <1>4
  <2>2. QED
    BY <1>1, <2>1 DEF Turn
<1>5. QED
  BY <1>2, <1>3, <1>4

-----------------------------------------------------------------------------
(* Types of the path, without Beacon's names. *)
LEMMA PathTypes ==
  ASSUME ReceiverAssumption, TypeOK
  PROVE  /\ now \in Nat /\ busy_until \in Nat /\ next_seq \in Nat /\ MaxStall \in Nat
         /\ ClockStep \in Nat \ {0} /\ RX_CHANNEL_DEPTH \in Nat \ {0}
         /\ in_hand \in Seq(B!Packet) /\ Len(in_hand) \in 0 .. 1
         /\ rx_channel \in Seq(B!Packet) /\ Len(rx_channel) \in 0 .. RX_CHANNEL_DEPTH
         /\ in_hand # <<>> => in_hand[1] \in B!Packet
         /\ \A i \in 1 .. Len(rx_channel) : rx_channel[i] \in B!Packet
<1>1. /\ now \in Nat /\ busy_until \in Nat /\ next_seq \in Nat /\ MaxStall \in Nat
      /\ ClockStep \in Nat \ {0} /\ RX_CHANNEL_DEPTH \in Nat \ {0}
  BY DEF ReceiverAssumption, TypeOK, B!TypeOK
<1>2. /\ in_hand \in Seq(B!Packet) /\ Len(in_hand) <= 1
      /\ rx_channel \in Seq(B!Packet) /\ Len(rx_channel) <= RX_CHANNEL_DEPTH
  BY DEF TypeOK
<1>3. Len(in_hand) \in 0 .. 1 /\ Len(rx_channel) \in 0 .. RX_CHANNEL_DEPTH
  <2>1. ASSUME NEW m \in Nat, NEW n \in Nat, n <= m PROVE n \in 0 .. m
    BY <2>1
  <2>2. Len(in_hand) \in Nat /\ Len(rx_channel) \in Nat
    BY <1>2, LenProperties
  <2>3. QED
    BY <1>1, <1>2, <2>1, <2>2, Zenon
<1>4. QED
  BY <1>1, <1>2, <1>3, ElementOfSeq

(* The concatenated queues: what Beacon calls the air. *)
LEMMA AirTypes ==
  ASSUME NEW S, NEW q \in Seq(S), NEW h \in Seq(S), Len(h) <= 1
  PROVE  /\ q \o h \in Seq(S) /\ Len(q \o h) = Len(q) + Len(h)
         /\ \A i \in 1 .. Len(q) : (q \o h)[i] = q[i]
         /\ h # <<>> => (q \o h)[Len(q) + 1] = h[1]
         /\ h = <<>> => q \o h = q
<1>1. /\ q \o h \in Seq(S) /\ Len(q \o h) = Len(q) + Len(h) /\ Len(q) \in Nat /\ Len(h) \in Nat
      /\ \A i \in 1 .. Len(q) + Len(h) :
           (q \o h)[i] = IF i <= Len(q) THEN q[i] ELSE h[i - Len(q)]
  BY ConcatProperties, LenProperties
<1>2. h # <<>> => (q \o h)[Len(q) + 1] = h[1]
  BY <1>1, EmptySeq
<1>3. h = <<>> => q \o h = q
  BY ConcatEmptySeq
<1>4. QED
  BY <1>1, <1>2, <1>3

(* The head of the air is the head of the channel. *)
LEMMA AirHead ==
  ASSUME NEW S, NEW q \in Seq(S), NEW h \in Seq(S), q # <<>>
  PROVE  q \o h # <<>> /\ Head(q \o h) = Head(q) /\ Tail(q \o h) = Tail(q) \o h
<1>1. /\ q \o h \in Seq(S) /\ Len(q \o h) = Len(q) + Len(h)
      /\ Len(q) \in Nat \ {0} /\ Len(h) \in Nat
      /\ \A i \in 1 .. Len(q) + Len(h) :
           (q \o h)[i] = IF i <= Len(q) THEN q[i] ELSE h[i - Len(q)]
  BY ConcatProperties, LenProperties, EmptySeq
<1>2. q \o h # <<>> /\ Head(q \o h) = Head(q)
  BY <1>1, EmptySeq
<1>3. /\ Tail(q) \in Seq(S) /\ Len(Tail(q)) = Len(q) - 1
      /\ \A i \in 1 .. Len(Tail(q)) : Tail(q)[i] = q[i + 1]
  BY HeadTailProperties
<1>4. /\ Tail(q \o h) \in Seq(S) /\ Len(Tail(q \o h)) = Len(q) + Len(h) - 1
      /\ \A i \in 1 .. Len(Tail(q \o h)) : Tail(q \o h)[i] = (q \o h)[i + 1]
  BY <1>1, <1>2, HeadTailProperties
<1>5. /\ Tail(q) \o h \in Seq(S) /\ Len(Tail(q) \o h) = Len(q) - 1 + Len(h)
      /\ \A i \in 1 .. Len(q) - 1 + Len(h) :
           (Tail(q) \o h)[i] = IF i <= Len(q) - 1 THEN Tail(q)[i] ELSE h[i - (Len(q) - 1)]
  BY <1>3, ConcatProperties
<1>6. ASSUME NEW i \in 1 .. Len(Tail(q \o h)) PROVE Tail(q \o h)[i] = (Tail(q) \o h)[i]
  <2>1. /\ i \in 1 .. Len(q) - 1 + Len(h) /\ i + 1 \in 1 .. Len(q) + Len(h)
        /\ Tail(q \o h)[i] = IF i + 1 <= Len(q) THEN q[i + 1] ELSE h[(i + 1) - Len(q)]
    BY <1>1, <1>4
  <2>2. CASE i + 1 <= Len(q)
    <3>1. i \in 1 .. Len(Tail(q))
      BY <1>1, <1>3, <2>1, <2>2
    <3>2. QED
      BY <1>3, <1>5, <2>1, <2>2, <3>1
  <2>3. CASE i + 1 > Len(q)
    <3>1. ~(i <= Len(q) - 1) /\ (i + 1) - Len(q) = i - (Len(q) - 1)
      BY <1>1, <2>1, <2>3
    <3>2. QED
      BY <1>1, <1>5, <2>1, <2>3, <3>1
  <2>4. QED
    BY <1>1, <2>1, <2>2, <2>3
<1>7. Tail(q \o h) = Tail(q) \o h
  BY <1>1, <1>4, <1>5, <1>6, SeqEqual
<1>8. QED
  BY <1>2, <1>7

-----------------------------------------------------------------------------
(* An empty path, at time 0. *)
LEMMA InitHolds ==
  ASSUME ReceiverAssumption, Init
  PROVE  IInv
<1>1. <<>> \in Seq(B!Packet) /\ <<>> \o <<>> = <<>>
  BY EmptySeq, ConcatEmptySeq
<1>2. ClockStep \in Nat \ {0} /\ 0 % ClockStep = 0
  BY DEF ReceiverAssumption
<1>3. TypeOK
  BY <1>1 DEF ReceiverAssumption, Init, TrackerInit, TypeOK, B!TypeOK, B!TrackerTypeOK, None, B!None
<1>4. QED
  BY <1>2, <1>3 DEF ReceiverAssumption, Init, IInv, ChannelInv, HandInv, WorkInv

(* The clock advances only while the loop is at work or has nothing to do. *)
LEMMA TickStep ==
  ASSUME ReceiverAssumption, IInv, Tick
  PROVE  IInv'
<1>1. /\ now' = now + ClockStep /\ now + ClockStep <= MaxTime /\ ~CanDeliver
      /\ now >= busy_until => pc = "wait" /\ rx_channel = <<>>
      /\ UNCHANGED <<tracker, beacon, radio, loop, history>>
  BY DEF Tick, Free
<1>2. TypeOK /\ TypeOK'
  <2>1. TypeOK
    BY DEF IInv
  <2>2. MaxTime \in Nat /\ ClockStep \in Nat
    BY DEF ReceiverAssumption
  <2>3. QED
    BY <1>1, <2>1, <2>2
    DEF TypeOK, B!TypeOK, B!TrackerTypeOK, tracker, beacon, radio, loop, history
<1>3. /\ now \in Nat /\ busy_until \in Nat /\ MaxStall \in Nat /\ ClockStep \in Nat \ {0}
      /\ RX_CHANNEL_DEPTH \in Nat \ {0}
      /\ rx_channel \in Seq(B!Packet) /\ Len(rx_channel) \in Nat
  BY <1>2, PathTypes
<1>4. /\ rx_channel' = rx_channel /\ in_hand' = in_hand /\ pc' = pc
      /\ busy_until' = busy_until
  BY <1>1 DEF radio, loop
<1>5. rx_channel = <<>> => in_hand = <<>>
  BY <1>1, <1>3, EmptySeq DEF CanDeliver, Listening
<1>6. rx_channel # <<>> => Ready' = Ready
  <2>1. SUFFICES ASSUME rx_channel # <<>> PROVE Ready' = Ready
    OBVIOUS
  <2>2. now < busy_until
    BY <1>1, <1>3, <2>1
  <2>3. now' <= busy_until
    BY <1>1, <1>3, <2>2, MultiplesApart DEF IInv, WorkInv
  <2>4. Horizon' = Horizon
    BY <1>1, <1>3, <1>4, <2>2, <2>3 DEF Horizon
  <2>5. QED
    BY <1>4, <2>4 DEF Ready
<1>7. ChannelInv'
  BY <1>3, <1>4, <1>6, EmptySeq DEF IInv, ChannelInv, InTime
<1>8. HandInv'
  BY <1>1, <1>4, <1>5, <1>6 DEF IInv, HandInv, InTime, CanDeliver, Listening
<1>9. WorkInv'
  <2>1. (now + ClockStep) % ClockStep = 0
    <3>1. ClockStep % ClockStep = 0
      BY <1>3
    <3>2. QED
      BY <1>3, <3>1, MultiplesAdd DEF IInv, WorkInv
  <2>2. QED
    BY <1>1, <1>3, <1>4, <2>1 DEF IInv, WorkInv
<1>10. QED
  BY <1>2, <1>7, <1>8, <1>9 DEF IInv

(* A packet or a stray frame comes into the free hand of the radio task: with a
   full channel before it, it is in time by what PathDelay allows. *)
LEMMA HearStep ==
  ASSUME ReceiverAssumption, IInv, Listening, NEW seq \in Nat,
         in_hand' = <<Packet(seq)>>,
         UNCHANGED <<now, rx_channel, loop>>
  PROVE  ChannelInv' /\ HandInv' /\ WorkInv'
<1>1. /\ now \in Nat /\ busy_until \in Nat /\ MaxStall \in Nat
      /\ RX_CHANNEL_DEPTH \in Nat /\ Len(rx_channel) \in 0 .. RX_CHANNEL_DEPTH
  BY PathTypes DEF IInv
<1>2. Ready' = Ready /\ Ready \in Nat /\ Ready <= now + 2 * MaxStall
  BY <1>1 DEF Ready, Horizon, loop, IInv, WorkInv
<1>3. /\ Turn(Len(rx_channel)) \in Nat
      /\ Turn(Len(rx_channel) + 1) = Turn(Len(rx_channel)) + 2 * MaxStall
      /\ Turn(Len(rx_channel) + 1) <= PathDelay /\ PathDelay \in Nat
  BY <1>1, Turns
<1>4. in_hand'[1].sent_at = now
  BY DEF Packet
<1>5. HandInv'
  BY <1>1, <1>2, <1>3, <1>4 DEF HandInv, InTime
<1>6. ChannelInv' /\ WorkInv'
  BY <1>2 DEF IInv, ChannelInv, InTime, WorkInv, loop
<1>7. QED
  BY <1>5, <1>6

(* The beacon sends, or something else does. *)
LEMMA SendStep ==
  ASSUME ReceiverAssumption, IInv, (\E heard \in BOOLEAN : Send(heard)) \/ Stray
  PROVE  IInv'
<1>1. /\ now \in Nat /\ next_seq \in Nat /\ WildSequences \subseteq Nat
      /\ rx_channel \in Seq(B!Packet)
  BY PathTypes DEF IInv, ReceiverAssumption
<1>2. CASE \E heard \in BOOLEAN : Send(heard)
  <2>1. /\ \/ in_hand' = in_hand
           \/ Listening /\ in_hand' = <<Packet(next_seq)>>
        /\ next_seq' = next_seq + 1 /\ next_send_at' = now + 1000
        /\ UNCHANGED <<tracker, now, strays, rx_channel, loop, history>>
    BY <1>2 DEF Send
  <2>2. TypeOK'
    <3>1. in_hand' \in Seq(B!Packet) /\ Len(in_hand') <= 1
      <4>1. CASE in_hand' = in_hand
        BY <4>1 DEF IInv, TypeOK
      <4>2. CASE in_hand' = <<Packet(next_seq)>>
        BY <1>1, <4>2 DEF Packet, B!Packet
      <4>3. QED
        BY <2>1, <4>1, <4>2
    <3>2. rx_channel' \o in_hand' \in Seq(B!Packet)
      BY <1>1, <2>1, <3>1, ConcatProperties
    <3>3. QED
      BY <1>1, <2>1, <3>1, <3>2
      DEF IInv, TypeOK, B!TypeOK, B!TrackerTypeOK, tracker, loop, history
  <2>3. ChannelInv' /\ HandInv' /\ WorkInv'
    <3>1. CASE in_hand' = in_hand
      BY <2>1, <3>1 DEF IInv, ChannelInv, HandInv, WorkInv, InTime, Ready, Horizon, loop,
                        CanDeliver, Listening
    <3>2. CASE Listening /\ in_hand' = <<Packet(next_seq)>>
      BY <1>1, <2>1, <3>2, HearStep
    <3>3. QED
      BY <2>1, <3>1, <3>2
  <2>4. QED
    BY <2>2, <2>3 DEF IInv
<1>3. CASE Stray
  <2>1. PICK w \in WildSequences : Listening /\ in_hand' = <<Packet(w)>>
    BY <1>3 DEF Stray
  <2>2. /\ strays' = strays + 1
        /\ UNCHANGED <<tracker, now, next_seq, next_send_at, rx_channel, loop, history>>
    BY <1>3 DEF Stray
  <2>3. TypeOK'
    <3>1. in_hand' \in Seq(B!Packet) /\ Len(in_hand') <= 1
      BY <1>1, <2>1 DEF Packet, B!Packet
    <3>2. rx_channel' \o in_hand' \in Seq(B!Packet)
      BY <1>1, <2>2, <3>1, ConcatProperties
    <3>3. QED
      BY <1>1, <2>2, <3>1, <3>2
      DEF IInv, TypeOK, B!TypeOK, B!TrackerTypeOK, tracker, loop, history
  <2>4. ChannelInv' /\ HandInv' /\ WorkInv'
    BY <1>1, <2>1, <2>2, HearStep
  <2>5. QED
    BY <2>3, <2>4 DEF IInv
<1>4. QED
  BY <1>2, <1>3

(* The frame in hand becomes the newest in the channel. *)
LEMMA DeliverStep ==
  ASSUME ReceiverAssumption, IInv, Deliver
  PROVE  IInv' /\ rx_channel' \o in_hand' = rx_channel \o in_hand
<1>1. /\ in_hand # <<>> /\ Len(rx_channel) < RX_CHANNEL_DEPTH
      /\ rx_channel' = rx_channel \o in_hand /\ in_hand' = <<>>
      /\ UNCHANGED <<tracker, now, beacon, loop, history>>
  BY DEF Deliver, CanDeliver, Listening
<1>2. /\ in_hand \in Seq(B!Packet) /\ Len(in_hand) = 1 /\ in_hand[1] \in B!Packet
      /\ rx_channel \in Seq(B!Packet) /\ Len(rx_channel) \in Nat
      /\ RX_CHANNEL_DEPTH \in Nat
  <2>1. TypeOK
    BY DEF IInv
  <2>2. Len(in_hand) # 0
    BY <1>1, <2>1, PathTypes, EmptySeq
  <2>3. QED
    BY <1>1, <2>1, <2>2, PathTypes
<1>3. /\ rx_channel' \in Seq(B!Packet) /\ Len(rx_channel') = Len(rx_channel) + 1
      /\ \A i \in 1 .. Len(rx_channel) : rx_channel'[i] = rx_channel[i]
      /\ rx_channel'[Len(rx_channel) + 1] = in_hand[1]
  BY <1>1, <1>2, AirTypes
<1>4. rx_channel' \o in_hand' = rx_channel \o in_hand
  BY <1>1, <1>3, ConcatEmptySeq
<1>5. TypeOK'
  <2>1. <<>> \in Seq(B!Packet) /\ Len(<<>>) <= 1
    BY EmptySeq
  <2>2. QED
    BY <1>1, <1>2, <1>3, <1>4, <2>1
    DEF IInv, TypeOK, B!TypeOK, B!TrackerTypeOK, tracker, beacon, loop, history
<1>6. Ready' = Ready
  BY <1>1 DEF Ready, Horizon, loop
<1>7. ChannelInv'
  <2> SUFFICES ASSUME NEW i \in 1 .. Len(rx_channel') PROVE InTime(rx_channel[i], i - 1)'
    BY DEF ChannelInv
  <2>1. CASE i \in 1 .. Len(rx_channel)
    BY <1>3, <1>6, <2>1 DEF IInv, ChannelInv, InTime
  <2>2. CASE i = Len(rx_channel) + 1
    <3>1. i - 1 = Len(rx_channel) /\ rx_channel'[i] = in_hand[1]
      BY <1>2, <1>3, <2>2
    <3>2. QED
      BY <1>1, <1>6, <3>1 DEF IInv, HandInv, InTime
  <2>3. QED
    BY <1>2, <1>3, <2>1, <2>2
<1>8. HandInv' /\ WorkInv'
  BY <1>1 DEF IInv, HandInv, WorkInv, loop
<1>9. QED
  BY <1>4, <1>5, <1>7, <1>8 DEF IInv

-----------------------------------------------------------------------------
(* A piece of work ends within MaxStall, at a tick of the clock. *)
LEMMA WorkStep ==
  ASSUME ReceiverAssumption, TypeOK, WorkInv, Work, now' = now
  PROVE  /\ busy_until' \in 0 .. MaxTime + MaxStall
         /\ now <= busy_until' /\ busy_until' <= now + MaxStall
         /\ Horizon' = busy_until'
         /\ WorkInv'
<1>1. PICK stall \in Stalls : busy_until' = now + stall
  BY DEF Work
<1>2. /\ stall \in 0 .. MaxStall /\ stall % ClockStep = 0
      /\ MaxStall \in Nat /\ MaxTime \in Nat /\ ClockStep \in Nat \ {0}
  BY DEF ReceiverAssumption
<1>3. now \in 0 .. MaxTime
  BY DEF TypeOK, B!TypeOK
<1>4. (now + stall) % ClockStep = 0
  BY <1>2, <1>3, MultiplesAdd DEF WorkInv
<1>5. QED
  BY <1>1, <1>2, <1>3, <1>4 DEF WorkInv, Horizon

(* The loop starts to work before it waits, or waits in vain: a frame that is
   in hand just then waits for the work as well. *)
LEMMA TurnStep ==
  ASSUME ReceiverAssumption, IInv, Top \/ TimeUp
  PROVE  IInv' /\ UNCHANGED <<tracker, now, beacon, radio, history>>
<1>1. /\ now >= busy_until /\ Work /\ UNCHANGED <<tracker, now, beacon, radio, history>>
  BY DEF Top, TimeUp, Free
<1>2. TypeOK /\ WorkInv /\ now' = now
  BY <1>1 DEF IInv
<1>3. /\ now \in Nat /\ busy_until \in Nat /\ MaxStall \in Nat
      /\ RX_CHANNEL_DEPTH \in Nat \ {0}
      /\ in_hand \in Seq(B!Packet) /\ Len(in_hand) \in 0 .. 1
      /\ in_hand # <<>> => in_hand[1] \in B!Packet
      /\ rx_channel \in Seq(B!Packet) /\ Len(rx_channel) \in 0 .. RX_CHANNEL_DEPTH
      /\ \A i \in 1 .. Len(rx_channel) : rx_channel[i] \in B!Packet
  BY <1>2, PathTypes
<1>4. /\ busy_until' \in 0 .. MaxTime + MaxStall
      /\ now <= busy_until' /\ busy_until' <= now + MaxStall
      /\ Horizon' = busy_until' /\ WorkInv'
  BY <1>1, <1>2, WorkStep
<1>5. PICK end \in now .. now + MaxStall : Horizon' = end
  BY <1>3, <1>4
<1>6. TypeOK'
  <2>1. pc' \in {"top", "wait"}
    BY DEF Top, TimeUp
  <2>2. QED
    BY <1>1, <1>2, <1>4, <2>1
    DEF TypeOK, B!TypeOK, B!TrackerTypeOK, tracker, beacon, radio, history
<1>7. rx_channel' = rx_channel /\ in_hand' = in_hand
  BY <1>1 DEF radio
<1>8. CASE Top
  <2>1. pc = "top" /\ pc' = "wait"
    BY <1>8 DEF Top
  <2>2. Ready' \in Nat /\ Ready' <= Ready /\ Ready \in Nat
    <3>1. Horizon = now
      BY <1>1, <1>3 DEF Horizon
    <3>2. Ready = now + MaxStall
      BY <2>1, <3>1 DEF Ready
    <3>3. Ready' = end
      BY <1>3, <1>5, <2>1 DEF Ready
    <3>4. QED
      BY <1>3, <3>2, <3>3
  <2>3. ASSUME NEW i \in Nat, NEW p \in B!Packet, InTime(p, i)
        PROVE  Ready' + Turn(i) <= p.sent_at + PathDelay
    BY <2>2, <2>3, Turns DEF InTime, B!Packet
  <2>4. ChannelInv'
    <3> SUFFICES ASSUME NEW i \in 1 .. Len(rx_channel)
                 PROVE  Ready' + Turn(i - 1) <= rx_channel[i].sent_at + PathDelay
      BY <1>7 DEF ChannelInv, InTime
    <3>1. InTime(rx_channel[i], i - 1) /\ i - 1 \in Nat /\ rx_channel[i] \in B!Packet
      BY <1>3 DEF IInv, ChannelInv
    <3>2. QED
      BY <2>3, <3>1
  <2>5. HandInv'
    <3> SUFFICES ASSUME in_hand # <<>>
                 PROVE  /\ Ready' + Turn(Len(rx_channel)) <= in_hand[1].sent_at + PathDelay
                        /\ CanDeliver => now + Turn(Len(rx_channel) + 1)
                                           <= in_hand[1].sent_at + PathDelay
      BY <1>1, <1>7 DEF HandInv, InTime, CanDeliver, Listening
    <3>1. Ready' + Turn(Len(rx_channel)) <= in_hand[1].sent_at + PathDelay
      BY <1>3, <2>3 DEF IInv, HandInv
    <3>2. QED
      BY <3>1 DEF IInv, HandInv
  <2>6. QED
    BY <1>1, <1>4, <1>6, <2>4, <2>5 DEF IInv
<1>9. CASE TimeUp
  <2>1. pc' = "top" /\ rx_channel = <<>> /\ Len(rx_channel) = 0
    BY <1>9, EmptySeq DEF TimeUp
  <2>2. ChannelInv'
    BY <1>7, <2>1 DEF ChannelInv
  <2>3. HandInv'
    <3> SUFFICES ASSUME in_hand # <<>>
                 PROVE  /\ Ready' + Turn(0) <= in_hand[1].sent_at + PathDelay
                        /\ CanDeliver => now + Turn(1) <= in_hand[1].sent_at + PathDelay
      BY <1>1, <1>7, <2>1 DEF HandInv, InTime, CanDeliver, Listening
    <3>1. now + Turn(0 + 1) <= in_hand[1].sent_at + PathDelay
      BY <1>3, <2>1 DEF IInv, HandInv, CanDeliver, Listening
    <3>2. Turn(0) = 0 /\ Turn(0 + 1) = 0 + 2 * MaxStall /\ PathDelay \in Nat
      BY Turns
    <3>3. Ready' <= now + 2 * MaxStall /\ Ready' \in Nat
      <4>1. Ready' = end + MaxStall
        BY <1>3, <1>5, <2>1 DEF Ready
      <4>2. QED
        BY <1>3, <4>1
    <3>4. in_hand[1].sent_at \in Nat
      BY <1>3 DEF B!Packet
    <3>5. QED
      BY <1>3, <3>1, <3>2, <3>3, <3>4
  <2>4. QED
    BY <1>1, <1>4, <1>6, <2>2, <2>3 DEF IInv
<1>10. QED
  BY <1>1, <1>8, <1>9

(* The loop handles the oldest frame; every other is a turn nearer. *)
LEMMA HandleStep ==
  ASSUME ReceiverAssumption, IInv, Handle
  PROVE  IInv'
<1>1. /\ pc = "wait" /\ pc' = "top" /\ now >= busy_until /\ Work
      /\ rx_channel # <<>> /\ rx_channel' = Tail(rx_channel)
      /\ UNCHANGED <<now, beacon, in_hand>>
  BY DEF Handle, Free
<1>2. TypeOK /\ WorkInv /\ now' = now
  BY <1>1 DEF IInv
<1>3. /\ now \in Nat /\ busy_until \in Nat /\ MaxStall \in Nat
      /\ RX_CHANNEL_DEPTH \in Nat \ {0}
      /\ in_hand \in Seq(B!Packet) /\ Len(in_hand) \in 0 .. 1
      /\ in_hand # <<>> => in_hand[1] \in B!Packet
      /\ rx_channel \in Seq(B!Packet) /\ Len(rx_channel) \in 0 .. RX_CHANNEL_DEPTH
      /\ \A i \in 1 .. Len(rx_channel) : rx_channel[i] \in B!Packet
  BY <1>2, PathTypes
<1>4. /\ rx_channel' \in Seq(B!Packet) /\ Len(rx_channel') = Len(rx_channel) - 1
      /\ \A i \in 1 .. Len(rx_channel') : rx_channel'[i] = rx_channel[i + 1]
      /\ Head(rx_channel) \in B!Packet /\ Len(rx_channel) \in Nat \ {0}
  BY <1>1, <1>3, HeadTailProperties, EmptySeq
<1>5. /\ busy_until' \in 0 .. MaxTime + MaxStall
      /\ now <= busy_until' /\ busy_until' <= now + MaxStall
      /\ Horizon' = busy_until' /\ WorkInv'
  BY <1>1, <1>2, WorkStep
<1>6. PICK end \in now .. now + MaxStall : Horizon' = end
  BY <1>3, <1>5
<1>7. Ready = now /\ Ready' = end + MaxStall
  <2>1. Horizon = now
    BY <1>1, <1>3 DEF Horizon
  <2>2. QED
    BY <1>1, <1>3, <1>6, <2>1 DEF Ready
<1>8. TypeOK'
  <2>1. PICK p \in B!Packet :
          /\ OnPacket(p.seq, now)
          /\ first' = IF last_sequence = None THEN p.seq ELSE first
          /\ genuine' = IF p.seq \in WildSequences THEN genuine
                        ELSE genuine + (received_packets' - received_packets)
          /\ last_sent_at' = IF last_sequence' # last_sequence THEN p.sent_at
                             ELSE last_sent_at
    BY <1>4 DEF Handle
  <2>2. p.seq \in Nat /\ p.sent_at \in Nat
    BY DEF B!Packet
  <2>3. TrackerTypeOK
    BY <1>2 DEF TypeOK, B!TypeOK, B!TrackerTypeOK, TrackerTypeOK, None, B!None
  <2>4. TrackerTypeOK' /\ received_packets' >= received_packets
    BY <1>3, <2>1, <2>2, <2>3, TrackerTypes
  <2>5. first' \in Nat \cup {None} /\ last_sent_at' \in Nat \cup {None}
    BY <1>2, <2>1, <2>2 DEF TypeOK, B!TypeOK, None, B!None
  <2>6. genuine' \in Nat
    <3>1. genuine \in Nat /\ received_packets \in Nat /\ received_packets' \in Nat
      BY <1>2, <2>3, <2>4 DEF TypeOK, B!TypeOK, TrackerTypeOK
    <3>2. PICK n \in Nat : received_packets' = n
      BY <3>1
    <3>3. n - received_packets \in Nat
      BY <2>4, <3>1, <3>2
    <3>4. QED
      BY <2>1, <3>1, <3>2, <3>3
  <2>7. rx_channel' \o in_hand' \in Seq(B!Packet)
    BY <1>1, <1>3, <1>4, ConcatProperties
  <2>8. B!TypeOK'
    BY <1>1, <1>2, <2>4, <2>5, <2>6, <2>7
    DEF TypeOK, B!TypeOK, B!TrackerTypeOK, TrackerTypeOK, None, B!None, beacon
  <2>9. Len(rx_channel') <= RX_CHANNEL_DEPTH
    BY <1>3, <1>4
  <2>10. QED
    BY <1>1, <1>2, <1>4, <1>5, <2>8, <2>9 DEF TypeOK
<1>9. ASSUME NEW i \in Nat \ {0}, NEW p \in B!Packet, InTime(p, i)
      PROVE  /\ Ready' + Turn(i - 1) <= p.sent_at + PathDelay
             /\ now + Turn(i) <= p.sent_at + PathDelay
  <2>1. /\ i - 1 \in Nat /\ Turn(i - 1) \in Nat /\ Turn(i) = Turn(i - 1) + 2 * MaxStall
        /\ PathDelay \in Nat
    <3>1. i - 1 \in Nat /\ (i - 1) + 1 = i
      OBVIOUS
    <3>2. QED
      BY <3>1, Turns
  <2>2. p.sent_at \in Nat
    BY DEF B!Packet
  <2>3. now + Turn(i) <= p.sent_at + PathDelay
    BY <1>7, <1>9 DEF InTime
  <2>4. QED
    BY <1>3, <1>7, <2>1, <2>2, <2>3
<1>10. ChannelInv'
  <2> SUFFICES ASSUME NEW i \in 1 .. Len(rx_channel')
               PROVE  Ready' + Turn(i - 1) <= rx_channel'[i].sent_at + PathDelay
    BY DEF ChannelInv, InTime
  <2>1. /\ i \in Nat \ {0} /\ i + 1 \in 1 .. Len(rx_channel) /\ (i + 1) - 1 = i
        /\ rx_channel'[i] = rx_channel[i + 1] /\ rx_channel[i + 1] \in B!Packet
    BY <1>3, <1>4
  <2>2. InTime(rx_channel[i + 1], i)
    BY <2>1 DEF IInv, ChannelInv
  <2>3. QED
    BY <1>9, <2>1, <2>2
<1>11. HandInv'
  <2> SUFFICES ASSUME in_hand # <<>>
               PROVE  /\ Ready' + Turn(Len(rx_channel')) <= in_hand[1].sent_at + PathDelay
                      /\ now + Turn(Len(rx_channel') + 1) <= in_hand[1].sent_at + PathDelay
    BY <1>1 DEF HandInv, InTime
  <2>1. InTime(in_hand[1], Len(rx_channel)) /\ in_hand[1] \in B!Packet
    BY <1>3 DEF IInv, HandInv
  <2>2. (Len(rx_channel) - 1) + 1 = Len(rx_channel)
    BY <1>4
  <2>3. QED
    BY <1>4, <1>9, <2>1, <2>2
<1>12. QED
  BY <1>5, <1>8, <1>10, <1>11 DEF IInv

-----------------------------------------------------------------------------
(* The invariant is inductive. *)
LEMMA StepHolds ==
  ASSUME ReceiverAssumption, IInv, [Next]_vars
  PROVE  IInv'
<1>1. CASE UNCHANGED vars
  BY <1>1 DEF vars, tracker, beacon, radio, loop, history, IInv, TypeOK, B!TypeOK,
     B!TrackerTypeOK, ChannelInv, HandInv, WorkInv, InTime, Ready, Horizon, CanDeliver, Listening
<1>2. QED
  BY <1>1, TickStep, SendStep, DeliverStep, TurnStep, HandleStep DEF Next

(* What the loop does with a packet is what Beacon says it does. *)
LEMMA SameTracker ==
  ASSUME NEW seq, OnPacket(seq, now)
  PROVE  B!OnPacket(seq, now)
  BY DEF OnPacket, Accepted, Ignored, FirstPacket, Resync, SuspiciousJump, ForwardStep,
     SequenceReset, DuplicateCandidate, DuplicateSequence, Backward, Judged, Confirms, Ignore,
     AcceptTrusted, AcceptUntrusted, max_plausible_gap, BEACON_SEQUENCE_RATE_HZ, None,
     B!OnPacket, B!Accepted, B!Ignored, B!FirstPacket, B!Resync, B!SuspiciousJump,
     B!ForwardStep, B!SequenceReset, B!DuplicateCandidate, B!DuplicateSequence, B!Backward,
     B!Judged, B!Confirms, B!Ignore, B!AcceptTrusted, B!AcceptUntrusted, B!max_plausible_gap,
     B!BEACON_SEQUENCE_RATE_HZ, B!None

-----------------------------------------------------------------------------
(* Step by step: what the receiver does is what Beacon allows. *)
LEMMA TickRefines ==
  ASSUME ReceiverAssumption, IInv, Tick
  PROVE  B!Tick
<1>1. /\ now' = now + ClockStep /\ now + ClockStep <= MaxTime /\ ~CanDeliver
      /\ now >= busy_until => pc = "wait" /\ rx_channel = <<>>
      /\ UNCHANGED <<tracker, beacon, radio, loop, history>>
  BY DEF Tick, Free
<1>2. /\ now \in Nat /\ busy_until \in Nat /\ ClockStep \in Nat \ {0}
      /\ MaxStall \in Nat /\ RX_CHANNEL_DEPTH \in Nat \ {0}
      /\ in_hand \in Seq(B!Packet) /\ Len(in_hand) \in 0 .. 1
      /\ in_hand # <<>> => in_hand[1] \in B!Packet
      /\ rx_channel \in Seq(B!Packet) /\ Len(rx_channel) \in Nat
      /\ \A i \in 1 .. Len(rx_channel) : rx_channel[i] \in B!Packet
  BY PathTypes DEF IInv
<1> DEFINE air == rx_channel \o in_hand
<1>3. /\ air \in Seq(B!Packet) /\ Len(air) = Len(rx_channel) + Len(in_hand)
      /\ \A i \in 1 .. Len(rx_channel) : air[i] = rx_channel[i]
      /\ in_hand # <<>> => air[Len(rx_channel) + 1] = in_hand[1]
      /\ DOMAIN air = 1 .. Len(air)
  BY <1>2, AirTypes, LenProperties
<1>4. rx_channel = <<>> => in_hand = <<>>
  BY <1>1, <1>2, EmptySeq DEF CanDeliver, Listening
<1>5. rx_channel # <<>> => now + ClockStep <= Ready /\ Ready \in Nat
  <2>1. SUFFICES ASSUME rx_channel # <<>> PROVE now + ClockStep <= Ready /\ Ready \in Nat
    OBVIOUS
  <2>2. now < busy_until
    BY <1>1, <1>2, <2>1
  <2>3. now + ClockStep <= busy_until
    BY <1>2, <2>2, MultiplesApart DEF IInv, WorkInv
  <2>4. QED
    BY <1>2, <2>2, <2>3 DEF Ready, Horizon
<1>6. ASSUME NEW i \in Nat, NEW p \in B!Packet, InTime(p, i), rx_channel # <<>>
      PROVE  now + ClockStep <= p.sent_at + PathDelay
  <2>1. Turn(i) \in Nat /\ PathDelay \in Nat /\ p.sent_at \in Nat
    BY Turns DEF B!Packet
  <2>2. Ready + Turn(i) <= p.sent_at + PathDelay
    BY <1>6 DEF InTime
  <2>3. QED
    BY <1>2, <1>5, <1>6, <2>1, <2>2
<1>7. ASSUME NEW i \in DOMAIN air
      PROVE  now + ClockStep <= air[i].sent_at + PathDelay
  <2>1. CASE i \in 1 .. Len(rx_channel)
    <3>1. /\ rx_channel # <<>> /\ i - 1 \in Nat
          /\ InTime(rx_channel[i], i - 1) /\ rx_channel[i] \in B!Packet
      BY <1>2, <2>1, EmptySeq DEF IInv, ChannelInv
    <3>2. QED
      BY <1>3, <1>6, <2>1, <3>1
  <2>2. CASE i \notin 1 .. Len(rx_channel)
    <3>1. i = Len(rx_channel) + 1 /\ Len(in_hand) # 0
      <4>1. ASSUME NEW m \in Nat, NEW n \in 0 .. 1, NEW k \in 1 .. m + n, k \notin 1 .. m
            PROVE  k = m + 1 /\ n # 0
        BY <4>1
      <4>2. i \in 1 .. Len(rx_channel) + Len(in_hand)
        BY <1>3, <1>7
      <4>3. QED
        BY <1>2, <2>2, <4>1, <4>2
    <3>2. in_hand # <<>>
      BY <3>1, EmptySeq
    <3>3. InTime(in_hand[1], Len(rx_channel)) /\ in_hand[1] \in B!Packet /\ rx_channel # <<>>
      BY <1>2, <1>4, <3>2 DEF IInv, HandInv
    <3>4. QED
      BY <1>2, <1>3, <1>6, <3>1, <3>2, <3>3
  <2>3. QED
    BY <2>1, <2>2
<1>8. QED
  BY <1>1, <1>7 DEF B!Tick, B!tracker, B!history, tracker, beacon, radio, history

LEMMA SendRefines ==
  ASSUME ReceiverAssumption, IInv, (\E heard \in BOOLEAN : Send(heard)) \/ Stray
  PROVE  (\E heard \in BOOLEAN : B!Send(heard)) \/ B!Stray
<1>1. /\ now \in Nat /\ next_seq \in Nat /\ WildSequences \subseteq Nat
      /\ RX_CHANNEL_DEPTH \in Nat
      /\ rx_channel \in Seq(B!Packet) /\ Len(rx_channel) \in 0 .. RX_CHANNEL_DEPTH
  BY PathTypes DEF IInv, ReceiverAssumption
<1>2. Listening => /\ rx_channel \o in_hand = rx_channel
                   /\ Len(rx_channel \o in_hand) < RX_CHANNEL_DEPTH + 1
  BY <1>1, ConcatEmptySeq DEF Listening
<1>3. ASSUME NEW seq \in Nat
      PROVE  Append(rx_channel, Packet(seq)) = rx_channel \o <<Packet(seq)>>
  <2>1. Packet(seq) \in B!Packet
    BY <1>1 DEF Packet, B!Packet
  <2>2. QED
    BY <1>1, <2>1, AppendIsConcat
<1>4. ASSUME NEW heard \in BOOLEAN, Send(heard)
      PROVE  B!Send(heard)
  <2>1. CASE heard
    <3>1. /\ Listening /\ in_hand' = <<Packet(next_seq)>> /\ rx_channel' = rx_channel
      BY <1>4, <2>1 DEF Send
    <3>2. rx_channel' \o in_hand' = Append(rx_channel \o in_hand, Packet(next_seq))
      BY <1>1, <1>2, <1>3, <3>1
    <3>3. QED
      BY <1>2, <1>4, <2>1, <3>1, <3>2
      DEF Send, Packet, B!Send, tracker, history, B!tracker, B!history
  <2>2. CASE ~heard
    BY <1>4, <2>2 DEF Send, B!Send, tracker, history, B!tracker, B!history
  <2>3. QED
    BY <2>1, <2>2
<1>5. ASSUME Stray PROVE B!Stray
  <2>1. PICK w \in WildSequences : in_hand' = <<Packet(w)>>
    BY <1>5 DEF Stray
  <2>2. rx_channel' \o in_hand' = Append(rx_channel \o in_hand, Packet(w))
    BY <1>1, <1>2, <1>3, <1>5, <2>1 DEF Stray
  <2>3. QED
    BY <1>2, <1>5, <2>2
    DEF Stray, Packet, B!Stray, B!None, None, tracker, history, B!tracker, B!history
<1>6. QED
  BY <1>4, <1>5

LEMMA HandleRefines ==
  ASSUME ReceiverAssumption, IInv, Handle
  PROVE  B!Hear(FALSE)
<1>1. /\ rx_channel # <<>> /\ rx_channel' = Tail(rx_channel) /\ in_hand' = in_hand
      /\ OnPacket(Head(rx_channel).seq, now)
  BY DEF Handle
<1>2. rx_channel \in Seq(B!Packet) /\ in_hand \in Seq(B!Packet)
  BY DEF IInv, TypeOK
<1>3. /\ rx_channel \o in_hand # <<>>
      /\ Head(rx_channel \o in_hand) = Head(rx_channel)
      /\ Tail(rx_channel \o in_hand) = rx_channel' \o in_hand'
  BY <1>1, <1>2, AirHead
<1>4. B!OnPacket(Head(rx_channel).seq, now)
  BY <1>1, SameTracker
<1>5. QED
  BY <1>3, <1>4 DEF Handle, beacon, B!Hear, B!IsStray, None, B!None

LEMMA StepRefines ==
  ASSUME ReceiverAssumption, IInv, [Next]_vars
  PROVE  [B!Next]_(B!vars)
<1>1. CASE Deliver \/ Top \/ TimeUp
  <2>1. rx_channel' \o in_hand' = rx_channel \o in_hand
    BY <1>1, DeliverStep, TurnStep DEF radio
  <2>2. UNCHANGED <<tracker, now, beacon, history>>
    BY <1>1 DEF Deliver, Top, TimeUp
  <2>3. QED
    BY <2>1, <2>2
    DEF tracker, beacon, history, B!vars, B!tracker, B!environment, B!history
<1>2. CASE UNCHANGED vars
  BY <1>2
  DEF vars, tracker, beacon, radio, history, B!vars, B!tracker, B!environment, B!history
<1>3. CASE Tick
  BY <1>3, TickRefines DEF B!Next
<1>4. CASE (\E heard \in BOOLEAN : Send(heard)) \/ Stray
  BY <1>4, SendRefines DEF B!Next
<1>5. CASE Handle
  BY <1>5, HandleRefines DEF B!Next
<1>6. QED
  BY <1>1, <1>2, <1>3, <1>4, <1>5 DEF Next

-----------------------------------------------------------------------------
(* Every reachable state satisfies the inductive invariant. *)
THEOREM Invariance == ReceiverAssumption => (Spec => []IInv)
<1>1. SUFFICES ASSUME ReceiverAssumption PROVE Spec => []IInv
  OBVIOUS
<1>2. Init => IInv
  BY <1>1, InitHolds
<1>3. IInv /\ [Next]_vars => IInv'
  BY <1>1, StepHolds
<1>4. QED
  BY <1>2, <1>3, PTL DEF Spec

(* Types, with the depth of the channel, and of the time a piece of work ends. *)
THEOREM TypeCorrect == ReceiverAssumption => (Spec => []TypeOK)
<1>1. IInv => TypeOK
  BY DEF IInv
<1>2. QED
  BY <1>1, Invariance, PTL

(* The receiver is a path as Beacon assumes it, for every depth of the channel
   and every length of the stalls: in order, without loss behind the antenna,
   and with no packet later than PathDelay. *)
THEOREM Refinement == ReceiverAssumption => (Spec => ImplementsBeacon)
<1>1. SUFFICES ASSUME ReceiverAssumption PROVE Spec => B!Spec
  BY DEF ImplementsBeacon
<1>2. Init => B!Init
  <2>1. <<>> \o <<>> = <<>>
    BY ConcatEmptySeq, EmptySeq
  <2>2. QED
    BY <2>1 DEF Init, TrackerInit, None, B!Init, B!TrackerInit, B!None
<1>3. IInv /\ [Next]_vars => [B!Next]_(B!vars)
  BY <1>1, StepRefines
<1>4. Spec => []IInv
  BY <1>1, Invariance
<1>5. QED
  BY <1>2, <1>3, <1>4, PTL DEF Spec, B!Spec

-----------------------------------------------------------------------------
(* Lines: SentencesArePutTogether.                                          *)

(* In the order sent, all characters before c. *)
Ordered(s) == \A i, j \in 1 .. Len(s) : i < j => Lines!Before(s[i], s[j])
AllBefore(s, c) == \A i \in 1 .. Len(s) : Lines!Before(s[i], c)

Chars == Nat \X Nat

(* The characters of this sentence that came. *)
Arrived == IF place <= length THEN place - 1 ELSE length

LinesTyped ==
  /\ sentence \in Nat /\ length \in Nat
  /\ place \in Nat \ {0} /\ place <= length + 2
  /\ line \in Seq(Chars) /\ Len(line) <= NMEA_LINE_CAPACITY
  /\ parsed \in Seq(Chars)

(* While nothing was lost, the line is what was sent. *)
Whole ==
  clean /\ length <= NMEA_LINE_CAPACITY => line = Lines!Characters(sentence, Arrived)

(* What was parsed came before what is in the line, and this before what is sent. *)
InOrder ==
  /\ Ordered(line)
  /\ AllBefore(line, <<sentence, place>>)
  /\ parsed # <<>> =>
       /\ \A i \in 1 .. Len(line) : Lines!Before(parsed[Len(parsed)], line[i])
       /\ Lines!Before(parsed[Len(parsed)], <<sentence, place>>)

LinesInv == LinesTyped /\ Whole /\ InOrder

LEMMA CharactersGrow ==
  ASSUME NEW s \in Nat, NEW n \in Nat
  PROVE  /\ Lines!Characters(s, 0) = <<>>
         /\ Append(Lines!Characters(s, n), <<s, n + 1>>) = Lines!Characters(s, n + 1)
         /\ Lines!Characters(s, n) \in Seq(Chars)
         /\ Len(Lines!Characters(s, n)) = n
<1> DEFINE c == Lines!Characters(s, n)
           d == Lines!Characters(s, n + 1)
<1>1. /\ c \in Seq(Chars) /\ Len(c) = n
      /\ \A i \in 1 .. n : c[i] = <<s, i>>
  BY DEF Lines!Characters, Chars
<1>2. /\ d \in Seq(Chars) /\ Len(d) = n + 1
      /\ \A i \in 1 .. n + 1 : d[i] = <<s, i>>
  BY DEF Lines!Characters, Chars
<1>3. Lines!Characters(s, 0) = <<>>
  BY DEF Lines!Characters
<1> HIDE DEF c, d
<1>4. /\ Append(c, <<s, n + 1>>) \in Seq(Chars)
      /\ Len(Append(c, <<s, n + 1>>)) = n + 1
      /\ \A i \in 1 .. n + 1 : Append(c, <<s, n + 1>>)[i] = <<s, i>>
  <2>1. PICK e \in Chars : e = <<s, n + 1>>
    <3>1. PICK k \in Nat : k = n + 1
      OBVIOUS
    <3>2. <<s, k>> \in Chars
      BY DEF Chars
    <3>3. QED
      BY <3>1, <3>2
  <2>2. /\ Append(c, e) \in Seq(Chars) /\ Len(Append(c, e)) = n + 1
        /\ Append(c, e)[n + 1] = e
        /\ \A i \in 1 .. n : Append(c, e)[i] = c[i]
    BY <1>1, AppendProperties
  <2>3. \A i \in 1 .. n + 1 : i \in 1 .. n \/ i = n + 1
    OBVIOUS
  <2>4. QED
    BY <1>1, <2>1, <2>2, <2>3, Zenon
<1>5. Append(c, <<s, n + 1>>) = d
  BY <1>2, <1>4, SeqEqual
<1>6. QED
  BY <1>1, <1>3, <1>5 DEF c, d

LEMMA BeforeTrans ==
  ASSUME NEW a \in Chars, NEW b \in Chars, NEW c \in Chars,
         Lines!Before(a, b), Lines!Before(b, c)
  PROVE  Lines!Before(a, c)
BY DEF Lines!Before, Chars

(* The sender goes on to a later place. *)
LEMMA PlaceGoesOn ==
  ASSUME Lines!NmeaAssumption, LinesTyped, Lines!Advance,
         Lines!AtCharacter \/ Lines!AtCr \/ Lines!AtLf
  PROVE  /\ sentence' \in Nat /\ length' \in Nat
         /\ place' \in Nat \ {0} /\ place' <= length' + 2
         /\ Lines!Before(<<sentence, place>>, <<sentence', place'>>)
         /\ place # length + 2 => sentence' = sentence /\ length' = length /\ place' = place + 1
<1> USE DEF LinesTyped
<1>1. CASE Lines!AtLf
  <2>1. sentence' = sentence + 1 /\ length' \in Nat /\ place' = 1 /\ place = length + 2
    BY <1>1 DEF Lines!Advance, Lines!AtLf, Lines!NmeaAssumption
  <2>2. Lines!Before(<<sentence, place>>, <<sentence', place'>>)
    BY <2>1 DEF Lines!Before
  <2>3. sentence' \in Nat /\ length' \in Nat
    BY <2>1
  <2>4. place' \in Nat \ {0} /\ place' <= length' + 2
    <3>1. PICK l \in Nat : l = length'
      BY <2>3
    <3>2. 1 \in Nat \ {0} /\ 1 <= l + 2
      OBVIOUS
    <3>3. place' = 1
      BY <2>1
    <3>4. QED
      BY <3>1, <3>2, <3>3, Zenon
  <2>5. QED
    BY <2>1, <2>2, <2>3, <2>4, Zenon
<1>2. CASE ~Lines!AtLf
  <2>1. sentence' = sentence /\ length' = length /\ place' = place + 1 /\ place < length + 2
    BY <1>2 DEF Lines!Advance, Lines!AtLf, Lines!AtCr, Lines!AtCharacter
  <2>2. Lines!Before(<<sentence, place>>, <<sentence', place'>>)
    BY <2>1 DEF Lines!Before
  <2>3. QED
    BY <2>1, <2>2
<1>3. QED
  BY <1>1, <1>2

LEMMA LinesBegin ==
  ASSUME Lines!NmeaAssumption, Lines!Init
  PROVE  LinesInv
<1>1. /\ sentence = 1 /\ length \in Nat /\ place \in 1 .. length + 2
      /\ line = <<>> /\ parsed = <<>> /\ clean = (place = 1)
      /\ NMEA_LINE_CAPACITY \in Nat
  BY DEF Lines!Init, Lines!NmeaAssumption
<1>2. LinesTyped
  BY <1>1 DEF LinesTyped, Chars
<1>3. Whole
  <2>1. place = 1 => Arrived = 0
    BY <1>1 DEF Arrived
  <2>2. Lines!Characters(1, 0) = <<>>
    BY CharactersGrow
  <2>3. QED
    BY <1>1, <2>1, <2>2 DEF Whole
<1>4. InOrder
  BY <1>1 DEF InOrder, Ordered, AllBefore
<1>5. QED
  BY <1>2, <1>3, <1>4 DEF LinesInv

(* A character that finds room. *)
LEMMA CharacterStep ==
  ASSUME Lines!NmeaAssumption, LinesInv, Lines!Character
  PROVE  LinesInv'
<1> DEFINE c == <<sentence, place>>
           p == parsed[Len(parsed)]
<1>1. /\ Lines!AtCharacter /\ place <= length
      /\ parsed' = parsed /\ clean' = clean
      /\ line' = IF Len(line) < NMEA_LINE_CAPACITY THEN Append(line, c) ELSE <<>>
      /\ Lines!Advance
  BY DEF Lines!Character, Lines!AtCharacter, Lines!push
<1>2. /\ LinesTyped /\ Whole /\ InOrder /\ NMEA_LINE_CAPACITY \in Nat
      /\ sentence \in Nat /\ length \in Nat /\ place \in Nat \ {0}
      /\ line \in Seq(Chars) /\ Len(line) \in Nat /\ parsed \in Seq(Chars)
      /\ Len(line) <= NMEA_LINE_CAPACITY
      /\ c \in Chars
  BY DEF LinesInv, LinesTyped, Lines!NmeaAssumption, Chars
<1>3. /\ sentence' \in Nat /\ length' \in Nat
      /\ place' \in Nat \ {0} /\ place' <= length' + 2
      /\ Lines!Before(c, <<sentence', place'>>)
      /\ sentence' = sentence /\ length' = length /\ place' = place + 1
      /\ <<sentence', place'>> \in Chars
  BY <1>1, <1>2, PlaceGoesOn DEF Chars
<1> HIDE DEF c
<1>4. \A d \in Chars : Lines!Before(d, c) => Lines!Before(d, <<sentence', place'>>)
  BY <1>2, <1>3, BeforeTrans
<1>5. parsed # <<>> => p \in Chars
  BY <1>2
<1> HIDE DEF p
<1>6. parsed # <<>> => Lines!Before(p, c)
  BY <1>2 DEF InOrder, c, p
<1>7. CASE Len(line) < NMEA_LINE_CAPACITY
  <2>1. line' = Append(line, c)
    BY <1>1, <1>7
  <2>2. /\ line' \in Seq(Chars) /\ Len(line') = Len(line) + 1
        /\ line'[Len(line) + 1] = c
        /\ \A i \in 1 .. Len(line) : line'[i] = line[i] /\ line[i] \in Chars
    BY <1>2, <2>1, AppendProperties
  <2>3. PICK n \in Nat : n = Len(line)
    BY <1>2
  <2>4. \A i \in 1 .. n + 1 : i \in 1 .. n \/ i = n + 1
    OBVIOUS
  <2>5. \A i \in 1 .. n : Lines!Before(line[i], c)
    BY <1>2, <2>3 DEF InOrder, AllBefore, c
  <2>6. LinesTyped'
    BY <1>1, <1>2, <1>3, <1>7, <2>2 DEF LinesTyped
  <2>7. Whole'
    <3>1. SUFFICES ASSUME clean, length <= NMEA_LINE_CAPACITY
                   PROVE  line' = Lines!Characters(sentence, place)
      <4>1. place' <= length => place' - 1 = place
        BY <1>2, <1>3
      <4>2. ~(place' <= length) => place = length
        BY <1>1, <1>2, <1>3
      <4>3. (IF place' <= length' THEN place' - 1 ELSE length') = place
        BY <1>3, <4>1, <4>2
      <4>4. QED
        BY <1>1, <1>3, <3>1, <4>3 DEF Whole, Arrived, Lines!Characters
    <3>2. line = Lines!Characters(sentence, place - 1)
      BY <1>1, <1>2, <3>1 DEF Whole, Arrived
    <3>3. PICK k \in Nat : k = place - 1 /\ place = k + 1
      BY <1>2
    <3>4. Append(Lines!Characters(sentence, k), <<sentence, k + 1>>)
            = Lines!Characters(sentence, k + 1)
      BY <1>2, CharactersGrow
    <3>5. QED
      BY <2>1, <3>2, <3>3, <3>4 DEF c
  <2>8. Ordered(line')
    <3>1. ASSUME NEW i \in 1 .. n + 1, NEW j \in 1 .. n + 1, i < j
          PROVE  Lines!Before(line'[i], line'[j])
      <4>1. i \in 1 .. n /\ (j \in 1 .. n \/ j = n + 1)
        BY <3>1
      <4>2. CASE j \in 1 .. n
        BY <1>2, <2>2, <2>3, <3>1, <4>1, <4>2 DEF InOrder, Ordered
      <4>3. CASE j = n + 1
        BY <2>2, <2>3, <2>5, <4>1, <4>3
      <4>4. QED
        BY <4>1, <4>2, <4>3
    <3>2. QED
      BY <2>2, <2>3, <3>1 DEF Ordered
  <2>9. AllBefore(line', <<sentence', place'>>)
    <3>1. ASSUME NEW i \in 1 .. n + 1
          PROVE  Lines!Before(line'[i], <<sentence', place'>>)
      <4>1. CASE i \in 1 .. n
        BY <1>4, <2>2, <2>3, <2>5, <4>1
      <4>2. CASE i = n + 1
        BY <1>3, <2>2, <2>3, <4>2 DEF c
      <4>3. QED
        BY <2>4, <4>1, <4>2
    <3>2. QED
      BY <2>2, <2>3, <3>1 DEF AllBefore
  <2>10. ASSUME parsed # <<>>
         PROVE  /\ \A i \in 1 .. n + 1 : Lines!Before(p, line'[i])
                /\ Lines!Before(p, <<sentence', place'>>)
    <3>1. \A i \in 1 .. n : Lines!Before(p, line[i])
      BY <1>2, <2>3, <2>10 DEF InOrder, p
    <3>2. QED
      BY <1>4, <1>5, <1>6, <2>2, <2>3, <2>4, <2>10, <3>1
  <2>11. InOrder'
    BY <1>1, <2>2, <2>3, <2>8, <2>9, <2>10 DEF InOrder, Ordered, AllBefore, Lines!Before, p
  <2>12. QED
    BY <2>6, <2>7, <2>11 DEF LinesInv
<1>8. CASE ~(Len(line) < NMEA_LINE_CAPACITY)
  <2>1. line' = <<>>
    BY <1>1, <1>8
  <2>2. LinesTyped'
    BY <1>1, <1>2, <1>3, <2>1 DEF LinesTyped
  <2>3. ~(clean /\ length <= NMEA_LINE_CAPACITY)
    <3>1. SUFFICES ASSUME clean, length <= NMEA_LINE_CAPACITY PROVE FALSE
      OBVIOUS
    <3>2. line = Lines!Characters(sentence, place - 1)
      BY <1>1, <1>2, <3>1 DEF Whole, Arrived
    <3>3. Len(line) = place - 1
      <4>1. place - 1 \in Nat
        BY <1>2
      <4>2. QED
        BY <1>2, <3>2, <4>1, CharactersGrow
    <3>4. QED
      BY <1>1, <1>2, <1>8, <3>1, <3>3
  <2>4. Whole'
    BY <1>1, <1>3, <2>3 DEF Whole
  <2>5. InOrder'
    BY <1>1, <1>4, <1>5, <1>6, <2>1 DEF InOrder, Ordered, AllBefore, p
  <2>6. QED
    BY <2>2, <2>4, <2>5 DEF LinesInv
<1>9. QED
  BY <1>7, <1>8
(* A step that leaves the line, or clears it, as the sender goes on. *)
LEMMA PassedOver ==
  ASSUME Lines!NmeaAssumption, LinesInv, Lines!Advance,
         Lines!AtCharacter \/ Lines!AtCr \/ Lines!AtLf,
         line' = line, parsed' = parsed
  PROVE  LinesTyped' /\ InOrder'
<1> DEFINE c == <<sentence, place>>
           d == <<sentence', place'>>
           p == parsed[Len(parsed)]
<1>1. /\ LinesTyped /\ InOrder
      /\ line \in Seq(Chars) /\ Len(line) \in Nat /\ parsed \in Seq(Chars)
      /\ sentence \in Nat /\ place \in Nat
      /\ c \in Chars
  BY DEF LinesInv, LinesTyped, Chars
<1>2. /\ sentence' \in Nat /\ length' \in Nat
      /\ place' \in Nat \ {0} /\ place' <= length' + 2
      /\ Lines!Before(c, d)
      /\ d \in Chars
  BY <1>1, PlaceGoesOn DEF Chars
<1>3. LinesTyped'
  BY <1>1, <1>2 DEF LinesTyped
<1> HIDE DEF c, d, p
<1>4. \A e \in Chars : Lines!Before(e, c) => Lines!Before(e, d)
  BY <1>1, <1>2, BeforeTrans
<1>5. parsed # <<>> => p \in Chars
  BY <1>1 DEF p
<1>6. /\ Ordered(line)
      /\ \A i \in 1 .. Len(line) : Lines!Before(line[i], c)
      /\ parsed # <<>> =>
           /\ \A i \in 1 .. Len(line) : Lines!Before(p, line[i])
           /\ Lines!Before(p, c)
  BY <1>1 DEF InOrder, AllBefore, c, p
<1>7. /\ \A i \in 1 .. Len(line) : Lines!Before(line[i], d)
      /\ parsed # <<>> => Lines!Before(p, d)
  BY <1>1, <1>4, <1>5, <1>6
<1>8. InOrder'
  BY <1>6, <1>7 DEF InOrder, Ordered, AllBefore, d, p
<1>9. QED
  BY <1>3, <1>8

(* CR is skipped: what has arrived of the sentence does not change. *)
LEMMA CrStep ==
  ASSUME Lines!NmeaAssumption, LinesInv, Lines!Cr
  PROVE  LinesInv'
<1>1. /\ Lines!AtCr /\ Lines!Advance /\ line' = line /\ parsed' = parsed /\ clean' = clean
      /\ place = length + 1
  BY DEF Lines!Cr, Lines!AtCr
<1>2. LinesTyped' /\ InOrder'
  BY <1>1, PassedOver
<1>3. /\ sentence' = sentence /\ length' = length /\ place' = place + 1
      /\ length \in Nat
  <2>1. LinesTyped /\ length \in Nat
    BY DEF LinesInv, LinesTyped
  <2>2. place # length + 2
    BY <1>1, <2>1
  <2>3. QED
    BY <1>1, <2>1, <2>2, PlaceGoesOn
<1>4. Arrived' = Arrived
  BY <1>1, <1>3 DEF Arrived
<1>5. Whole'
  <2>1. Whole
    BY DEF LinesInv
  <2>2. QED
    BY <1>1, <1>3, <1>4, <2>1 DEF Whole, Lines!Characters
<1>6. QED
  BY <1>2, <1>5 DEF LinesInv

(* What is lost is lost from the line that is to come. *)
LEMMA LostStep ==
  ASSUME Lines!NmeaAssumption, LinesInv, Lines!Lost
  PROVE  LinesInv'
<1>1. /\ Lines!AtCharacter \/ Lines!AtCr \/ Lines!AtLf
      /\ Lines!Advance /\ line' = line /\ parsed' = parsed /\ clean' = FALSE
  BY DEF Lines!Lost
<1>2. LinesTyped' /\ InOrder'
  BY <1>1, PassedOver
<1>3. QED
  BY <1>1, <1>2 DEF LinesInv, Whole

(* LF: the line is parsed, and the next begins empty with the next sentence. *)
LEMMA LfStep ==
  ASSUME Lines!NmeaAssumption, LinesInv, Lines!Lf
  PROVE  LinesInv'
<1> DEFINE c == <<sentence, place>>
           d == <<sentence', place'>>
           q == parsed'[Len(parsed')]
<1>1. /\ Lines!AtLf /\ Lines!Advance /\ line' = <<>> /\ clean' = TRUE
      /\ parsed' = IF line = <<>> THEN parsed ELSE line
  BY DEF Lines!Lf
<1>2. /\ LinesTyped /\ InOrder
      /\ line \in Seq(Chars) /\ Len(line) \in Nat /\ parsed \in Seq(Chars)
      /\ sentence \in Nat /\ place \in Nat /\ NMEA_LINE_CAPACITY \in Nat
      /\ c \in Chars
  BY DEF LinesInv, LinesTyped, Chars, Lines!NmeaAssumption
<1>3. /\ sentence' \in Nat /\ length' \in Nat
      /\ place' \in Nat \ {0} /\ place' <= length' + 2
      /\ Lines!Before(c, d)
      /\ d \in Chars
  BY <1>1, <1>2, PlaceGoesOn DEF Chars
<1>4. place' = 1
  BY <1>1 DEF Lines!Advance
<1>5. parsed' \in Seq(Chars)
  BY <1>1, <1>2
<1>6. LinesTyped'
  <2>1. line' \in Seq(Chars) /\ Len(line') <= NMEA_LINE_CAPACITY
    BY <1>1, <1>2
  <2>2. QED
    BY <1>3, <1>5, <2>1 DEF LinesTyped
<1>7. Whole'
  <2>1. Arrived' = 0
    BY <1>3, <1>4 DEF Arrived
  <2>2. PICK s \in Nat : s = sentence'
    BY <1>3
  <2>3. Lines!Characters(s, 0) = <<>>
    BY CharactersGrow
  <2>4. QED
    BY <1>1, <2>1, <2>2, <2>3 DEF Whole, Lines!Characters
<1> HIDE DEF c, d
<1>8. parsed' # <<>> => q \in Chars /\ Lines!Before(q, c)
  <2>1. CASE line = <<>>
    <3>1. parsed' = parsed
      BY <1>1, <2>1
    <3>2. parsed # <<>> =>
            parsed[Len(parsed)] \in Chars /\ Lines!Before(parsed[Len(parsed)], c)
      BY <1>2 DEF InOrder, c
    <3>3. QED
      BY <3>1, <3>2
  <2>2. CASE line # <<>>
    <3>1. parsed' = line
      BY <1>1, <2>2
    <3>2. Len(line) \in 1 .. Len(line) /\ line[Len(line)] \in Chars
      BY <1>2, <2>2
    <3>3. Lines!Before(line[Len(line)], c)
      BY <1>2, <3>2 DEF InOrder, AllBefore, c
    <3>4. QED
      BY <3>1, <3>2, <3>3
  <2>3. QED
    BY <2>1, <2>2
<1> HIDE DEF q
<1>9. parsed' # <<>> => Lines!Before(q, d)
  BY <1>2, <1>3, <1>8, BeforeTrans
<1>10. InOrder'
  BY <1>1, <1>9 DEF InOrder, Ordered, AllBefore, d, q
<1>11. QED
  BY <1>6, <1>7, <1>10 DEF LinesInv

LEMMA LinesKept ==
  ASSUME Lines!NmeaAssumption, LinesInv, [Lines!Next]_(Lines!vars)
  PROVE  LinesInv'
<1>1. CASE Lines!Next
  BY <1>1, CharacterStep, CrStep, LfStep, LostStep DEF Lines!Next
<1>2. CASE UNCHANGED Lines!vars
  <2>1. /\ sentence' = sentence /\ length' = length /\ place' = place
        /\ line' = line /\ parsed' = parsed /\ clean' = clean
    BY <1>2 DEF Lines!vars, Lines!sender
  <2>2. LinesTyped' /\ Whole'
    BY <2>1 DEF LinesInv, LinesTyped, Whole, Arrived, Lines!Characters
  <2>3. InOrder'
    BY <2>1 DEF LinesInv, InOrder, Ordered, AllBefore
  <2>4. QED
    BY <2>2, <2>3 DEF LinesInv
<1>3. QED
  BY <1>1, <1>2

CleanStep ==
  Lines!Lf /\ clean /\ length \in 1 .. NMEA_LINE_CAPACITY =>
    parsed' = Lines!Characters(sentence, length)

OnceStep ==
  parsed' # parsed =>
    /\ \A i, j \in 1 .. Len(parsed') : i < j => Lines!Before(parsed'[i], parsed'[j])
    /\ parsed # <<>> => Lines!Before(parsed[Len(parsed)], parsed'[1])

LEMMA CleanHolds ==
  ASSUME Lines!NmeaAssumption, LinesInv
  PROVE  CleanStep
<1> SUFFICES ASSUME Lines!Lf, clean, length \in 1 .. NMEA_LINE_CAPACITY
             PROVE  parsed' = Lines!Characters(sentence, length)
  BY DEF CleanStep
<1>1. /\ NMEA_LINE_CAPACITY \in Nat /\ sentence \in Nat
      /\ length \in Nat /\ length >= 1 /\ length <= NMEA_LINE_CAPACITY
      /\ place = length + 2
      /\ parsed' = IF line = <<>> THEN parsed ELSE line
  BY DEF Lines!NmeaAssumption, LinesInv, LinesTyped, Lines!Lf, Lines!AtLf
<1>2. line = Lines!Characters(sentence, length)
  BY <1>1 DEF LinesInv, Whole, Arrived
<1>3. Len(line) = length
  BY <1>1, <1>2, CharactersGrow
<1>4. line # <<>>
  BY <1>1, <1>3
<1>5. QED
  BY <1>1, <1>2, <1>4

LEMMA OnceHolds ==
  ASSUME LinesInv, [Lines!Next]_(Lines!vars)
  PROVE  OnceStep
<1> SUFFICES ASSUME parsed' # parsed
             PROVE  /\ \A i, j \in 1 .. Len(parsed') :
                         i < j => Lines!Before(parsed'[i], parsed'[j])
                    /\ parsed # <<>> => Lines!Before(parsed[Len(parsed)], parsed'[1])
  BY DEF OnceStep
<1>1. parsed' = line /\ line # <<>>
  BY DEF Lines!Next, Lines!Character, Lines!Cr, Lines!Lost, Lines!Lf, Lines!vars
<1>2. line \in Seq(Chars) /\ InOrder
  BY DEF LinesInv, LinesTyped
<1>3. 1 \in 1 .. Len(line)
  BY <1>1, <1>2
<1>4. QED
  BY <1>1, <1>2, <1>3 DEF InOrder, Ordered

(* A sentence that comes whole is parsed as it was sent, and no character is used
   twice: SentencesArePutTogether of Inputs, for lines of every capacity and any
   number of sentences of any length, lost in any way. *)
THEOREM SentencesComeTogether ==
  ASSUME Lines!NmeaAssumption
  PROVE  Lines!Spec => SentencesArePutTogether
<1>1. Lines!Init => LinesInv
  BY LinesBegin
<1>2. LinesInv /\ [Lines!Next]_(Lines!vars) => LinesInv'
  BY LinesKept
<1>3. LinesInv /\ [Lines!Next]_(Lines!vars) => [CleanStep]_(Lines!vars)
  BY CleanHolds
<1>4. LinesInv /\ [Lines!Next]_(Lines!vars) => [OnceStep]_(Lines!vars)
  BY OnceHolds
<1>5. Lines!Spec => [][CleanStep]_(Lines!vars)
  BY <1>1, <1>2, <1>3, PTL DEF Lines!Spec
<1>6. Lines!Spec => [][OnceStep]_(Lines!vars)
  BY <1>1, <1>2, <1>4, PTL DEF Lines!Spec
<1>7. QED
  BY <1>5, <1>6, PTL
     DEF SentencesArePutTogether, Lines!CleanSentenceIsParsed, Lines!EachCharacterOnce,
         CleanStep, OnceStep

-----------------------------------------------------------------------------
(* Dates: DatesAreTrue.                                                     *)

(* Induction, over the set of the numbers for which something holds. *)
LEMMA Induction ==
  ASSUME NEW S \in SUBSET Nat, 0 \in S, \A n \in S : n + 1 \in S
  PROVE  \A n \in Nat : n \in S
<1> DEFINE R == OpToRel(<, Nat)
           T == Nat \ S
<1>1. \A x, y \in Nat : <<x, y>> \in R <=> x < y
  BY DEF OpToRel
<1> SUFFICES ASSUME T # {} PROVE FALSE
  OBVIOUS
<1>2. IsWellFoundedOn(R, Nat) /\ T \subseteq Nat
  BY NatLessThanWellFounded
<1> HIDE DEF R, T
<1>3. PICK x \in T : \A y \in T : ~(<<y, x>> \in R)
  BY <1>2, WFMin
<1>4. x \in Nat /\ x # 0 /\ x - 1 \in Nat
  BY DEF T
<1>5. x - 1 \in S
  <2>1. <<x - 1, x>> \in R
    <3>1. x - 1 < x
      BY <1>4
    <3>2. QED
      BY <1>1, <1>4, <3>1
  <2>2. x - 1 \notin T
    BY <1>3, <2>1
  <2>3. QED
    BY <1>4, <2>2 DEF T
<1>6. (x - 1) + 1 \in S
  BY <1>5
<1>7. QED
  BY <1>4, <1>6 DEF T

(* The arms of days_in_month. *)
LEMMA MonthLengths ==
  ASSUME NEW y, NEW m
  PROVE  /\ m \in {1, 3, 5, 7, 8, 10, 12} => Cal!days_in_month(y, m) = 31
         /\ m \in {4, 6, 9, 11} => Cal!days_in_month(y, m) = 30
         /\ m = 2 => Cal!days_in_month(y, m) = IF Cal!is_leap_year(y) THEN 29 ELSE 28
BY DEF Cal!days_in_month

(* The days before a year and, within it, before a month, without a sum. *)
ToYear(y) == 365 * (y - 1970) + ((y - 1969) \div 4)

(* Over the century the rule of the code is the simple one. *)
LEMMA LeapYears ==
  ASSUME NEW y \in 1970 .. 2079
  PROVE  Cal!is_leap_year(y) <=> y % 4 = 0
BY DEF Cal!is_leap_year

(* The sum over years exists: it satisfies its own equation. *)
LEMMA YearEquation ==
  /\ DOMAIN Cal!DaysBeforeYear = 1970 .. 2079
  /\ Cal!DaysBeforeYear[1970] = 0
  /\ \A y \in 1971 .. 2079 :
      Cal!DaysBeforeYear[y] =
        Cal!DaysBeforeYear[y - 1] + IF Cal!is_leap_year(y - 1) THEN 366 ELSE 365
<1> DEFINE F(f) == [y \in 1970 .. 2079 |->
                      IF y = 1970 THEN 0
                      ELSE f[y - 1] + IF Cal!is_leap_year(y - 1) THEN 366 ELSE 365]
           g == [y \in 1970 .. 2079 |-> ToYear(y)]
<1>1. \A y \in 1970 .. 2079 :
        g[y] = IF y = 1970 THEN 0
               ELSE g[y - 1] + IF Cal!is_leap_year(y - 1) THEN 366 ELSE 365
  BY LeapYears DEF ToYear
<1>2. g = F(g)
  BY <1>1
<1>3. Cal!DaysBeforeYear = CHOOSE f : f = F(f)
  BY DEF Cal!DaysBeforeYear
<1> HIDE DEF F, g
<1>4. Cal!DaysBeforeYear = F(Cal!DaysBeforeYear)
  BY <1>2, <1>3, Zenon
<1> DEFINE d == Cal!DaysBeforeYear
<1>5. d = [y \in 1970 .. 2079 |->
                      IF y = 1970 THEN 0
                      ELSE d[y - 1] + IF Cal!is_leap_year(y - 1) THEN 366 ELSE 365]
  BY <1>4 DEF F
<1> HIDE DEF d
<1>6. /\ DOMAIN d = 1970 .. 2079
      /\ d[1970] = 0
      /\ \A y \in 1971 .. 2079 :
          d[y] = d[y - 1] + IF Cal!is_leap_year(y - 1) THEN 366 ELSE 365
  BY <1>5
<1>7. QED
  BY <1>6 DEF d

(* What the sums over years and months come to. *)
LEMMA YearSum ==
  ASSUME NEW y \in 1970 .. 2079
  PROVE  Cal!DaysBeforeYear[y] = ToYear(y)
<1> DEFINE d == Cal!DaysBeforeYear
           S == {n \in Nat : n <= 109 => d[1970 + n] = ToYear(1970 + n)}
<1>1. 0 \in S
  BY YearEquation DEF ToYear
<1>2. ASSUME NEW n \in S, n + 1 <= 109
      PROVE  d[1970 + (n + 1)] = ToYear(1970 + (n + 1))
  <2> DEFINE x == 1970 + n
  <2>1. x \in 1970 .. 2078 /\ 1970 + (n + 1) = x + 1 /\ d[x] = ToYear(x)
    BY <1>2
  <2> HIDE DEF x
  <2>2. (x + 1) \in 1971 .. 2079 /\ (x + 1) - 1 = x
    BY <2>1
  <2>3. d[x + 1] = d[x] + IF Cal!is_leap_year(x) THEN 366 ELSE 365
    BY <2>2, YearEquation
  <2>4. ToYear(x + 1) = ToYear(x) + IF x % 4 = 0 THEN 366 ELSE 365
    BY <2>1 DEF ToYear
  <2>5. Cal!is_leap_year(x) <=> x % 4 = 0
    BY <2>1, LeapYears
  <2>6. QED
    BY <2>1, <2>3, <2>4, <2>5
<1>3. \A n \in S : n + 1 \in S
  BY <1>2
<1>4. S \in SUBSET Nat
  OBVIOUS
<1> HIDE DEF S
<1>5. \A n \in Nat : n \in S
  BY <1>1, <1>3, <1>4, Induction
<1>6. y - 1970 \in S
  BY <1>5
<1>7. QED
  BY <1>6 DEF S

ToMonth(y, m) ==
  <<0, 31, 59, 90, 120, 151, 181, 212, 243, 273, 304, 334>>[m]
    + IF m > 2 /\ Cal!is_leap_year(y) THEN 1 ELSE 0

LEMMA ToMonthStep ==
  ASSUME NEW y, NEW m \in 1 .. 12
  PROVE  ToMonth(y, m) = IF m = 1 THEN 0 ELSE ToMonth(y, m - 1) + Cal!days_in_month(y, m - 1)
BY MonthLengths DEF ToMonth

LEMMA MonthSum ==
  ASSUME NEW y, NEW m \in 1 .. 12
  PROVE  Cal!DaysBeforeMonth(y)[m] = ToMonth(y, m)
<1> DEFINE F(f) == [k \in 1 .. 12 |->
                      IF k = 1 THEN 0 ELSE f[k - 1] + Cal!days_in_month(y, k - 1)]
           g == [k \in 1 .. 12 |-> ToMonth(y, k)]
<1>1. \A k \in 1 .. 12 :
        g[k] = IF k = 1 THEN 0 ELSE g[k - 1] + Cal!days_in_month(y, k - 1)
  BY ToMonthStep
<1>2. g = F(g)
  BY <1>1
<1>3. Cal!DaysBeforeMonth(y) = CHOOSE f : f = F(f)
  BY DEF Cal!DaysBeforeMonth
<1> HIDE DEF F, g
<1> DEFINE d == Cal!DaysBeforeMonth(y)
<1>4. d = F(d)
  BY <1>2, <1>3, Zenon
<1>5. d = [k \in 1 .. 12 |-> IF k = 1 THEN 0 ELSE d[k - 1] + Cal!days_in_month(y, k - 1)]
  BY <1>4 DEF F
<1> HIDE DEF d
<1>6. \A k \in 1 .. 12 :
        d[k] = IF k = 1 THEN 0 ELSE d[k - 1] + Cal!days_in_month(y, k - 1)
  BY <1>5
<1> DEFINE S == {n \in Nat : n <= 11 => d[n + 1] = ToMonth(y, n + 1)}
<1>7. 0 \in S
  BY <1>6, ToMonthStep
<1>8. ASSUME NEW n \in S, n + 1 <= 11
      PROVE  d[(n + 1) + 1] = ToMonth(y, (n + 1) + 1)
  <2>1. (n + 1) + 1 \in 1 .. 12 /\ (n + 1) + 1 # 1 /\ ((n + 1) + 1) - 1 = n + 1
        /\ d[n + 1] = ToMonth(y, n + 1)
    BY <1>8
  <2>2. QED
    BY <1>6, <2>1, ToMonthStep
<1>9. \A n \in S : n + 1 \in S
  BY <1>8
<1>10. S \in SUBSET Nat
  OBVIOUS
<1> HIDE DEF S
<1>11. \A n \in Nat : n \in S
  BY <1>7, <1>9, <1>10, Induction
<1>12. m - 1 \in S
  BY <1>11
<1>13. d[m] = ToMonth(y, m)
  BY <1>12 DEF S
<1>14. QED
  BY <1>13 DEF d

(* The lengths of the months, and of the year, are those on the wall. *)
LEMMA MonthIsTornOff ==
  ASSUME NEW y \in 1980 .. 2079, NEW m \in 1 .. 12
  PROVE  /\ Cal!LastOf(y, m) = Cal!days_in_month(y, m)
         /\ Cal!LastOf(y, m) \in 28 .. 31
<1>1. Cal!is_leap_year(y) <=> y % 4 = 0
  BY LeapYears
<1>2. CASE m = 2
  BY <1>1, <1>2, MonthLengths DEF Cal!LastOf
<1>3. CASE m \in {1, 3, 5, 7, 8, 10, 12}
  BY <1>3, MonthLengths DEF Cal!LastOf
<1>4. CASE m \in {4, 6, 9, 11}
  BY <1>4, MonthLengths DEF Cal!LastOf
<1>5. QED
  BY <1>2, <1>3, <1>4

LEMMA YearIsTornOff ==
  ASSUME NEW y \in 1980 .. 2078
  PROVE  ToYear(y + 1) + ToMonth(y + 1, 1) = ToYear(y) + ToMonth(y, 12) + 31
<1>1. Cal!is_leap_year(y) <=> y % 4 = 0
  BY LeapYears
<1>2. ToYear(y + 1) = ToYear(y) + IF y % 4 = 0 THEN 366 ELSE 365
  BY DEF ToYear
<1>3. ToMonth(y, 12) = 334 + IF y % 4 = 0 THEN 1 ELSE 0
  BY <1>1 DEF ToMonth
<1>4. ToMonth(y + 1, 1) = 0
  BY DEF ToMonth
<1>5. ToYear(y) \in Int
  BY DEF ToYear
<1>6. QED
  BY <1>2, <1>3, <1>4, <1>5

(* The count of the days torn off is the sum over years and months. *)
CalInv ==
  /\ year \in 1980 .. 2079 /\ year <= LastYear
  /\ month \in 1 .. 12
  /\ day \in Nat \ {0} /\ day <= Cal!LastOf(year, month)
  /\ second \in Cal!SecondsOfADay
  /\ count = ToYear(year) + ToMonth(year, month) + (day - 1)

LEMMA SumsAreNumbers ==
  ASSUME NEW y \in 1980 .. 2079, NEW m \in 1 .. 12
  PROVE  ToYear(y) \in Int /\ ToMonth(y, m) \in Int
<1>1. ToYear(y) \in Int
  BY DEF ToYear
<1>2. ToMonth(y, m) \in Int
  BY DEF ToMonth
<1>3. QED
  BY <1>1, <1>2

LEMMA CalBegins ==
  ASSUME Cal!CalendarAssumption, Cal!Init
  PROVE  CalInv
<1>1. /\ year \in 1980 .. 2079 /\ year <= LastYear /\ month = 1 /\ day = 1
      /\ second \in Cal!SecondsOfADay
      /\ count = 3652 + 365 * (year - 1980) + ((year - 1980 + 3) \div 4)
  BY DEF Cal!CalendarAssumption, Cal!Init
<1>2. Cal!LastOf(year, 1) \in 28 .. 31
  BY <1>1, MonthIsTornOff
<1>3. ToYear(year) = 3652 + 365 * (year - 1980) + ((year - 1980 + 3) \div 4)
  BY <1>1 DEF ToYear
<1>4. ToMonth(year, 1) = 0
  BY DEF ToMonth
<1>5. QED
  BY <1>1, <1>2, <1>3, <1>4 DEF CalInv

LEMMA CalKept ==
  ASSUME Cal!CalendarAssumption, CalInv, [Cal!Next]_(Cal!vars)
  PROVE  CalInv'
<1> USE DEF CalInv
<1>1. CASE Cal!Next
  <2>1. second' \in Cal!SecondsOfADay /\ count' = count + 1
    BY <1>1 DEF Cal!Next, Cal!CalendarAssumption
  <2>2. ToYear(year) \in Int /\ ToMonth(year, month) \in Int
    BY SumsAreNumbers
  <2>3. CASE Cal!NextDay
    BY <2>1, <2>2, <2>3 DEF Cal!NextDay, Cal!LastOf
  <2>4. CASE Cal!NextMonth
    <3>1. /\ year' = year /\ month' = month + 1 /\ month + 1 \in 1 .. 12 /\ day' = 1
          /\ day = Cal!LastOf(year, month)
      BY <2>4 DEF Cal!NextMonth
    <3>2. /\ Cal!LastOf(year, month) = Cal!days_in_month(year, month)
          /\ Cal!LastOf(year, month) \in 28 .. 31
          /\ Cal!LastOf(year, month + 1) \in 28 .. 31
      BY <3>1, MonthIsTornOff
    <3>3. ToMonth(year, month + 1) = ToMonth(year, month) + Cal!days_in_month(year, month)
      BY <3>1, ToMonthStep
    <3>4. count' = ToYear(year) + ToMonth(year, month + 1)
      BY <2>1, <2>2, <3>1, <3>2, <3>3
    <3>5. ToMonth(year, month + 1) \in Int
      BY <3>1, SumsAreNumbers
    <3>6. QED
      BY <2>1, <2>2, <3>1, <3>2, <3>4, <3>5
  <2>5. CASE Cal!NextYear
    <3>1. /\ year' = year + 1 /\ year + 1 \in 1980 .. 2079 /\ year \in 1980 .. 2078
          /\ year + 1 <= LastYear
          /\ month = 12 /\ month' = 1 /\ day = 31 /\ day' = 1
      BY <2>5 DEF Cal!NextYear, Cal!CalendarAssumption
    <3>2. Cal!LastOf(year + 1, 1) \in 28 .. 31
      BY <3>1, MonthIsTornOff
    <3>3. ToYear(year + 1) + ToMonth(year + 1, 1) = ToYear(year) + ToMonth(year, 12) + 31
      BY <3>1, YearIsTornOff
    <3>4. ToYear(year + 1) \in Int /\ ToMonth(year + 1, 1) \in Int
      BY <3>1, SumsAreNumbers
    <3>5. count' = ToYear(year + 1) + ToMonth(year + 1, 1)
      BY <2>1, <2>2, <3>1, <3>3, <3>4
    <3>6. QED
      BY <2>1, <3>1, <3>2, <3>4, <3>5
  <2>6. QED
    BY <1>1, <2>3, <2>4, <2>5 DEF Cal!Next
<1>2. CASE UNCHANGED Cal!vars
  BY <1>2 DEF Cal!vars, Cal!LastOf
<1>3. QED
  BY <1>1, <1>2

(* The clock at a second of the day. *)
HourAt(t) == t \div 3600
SecondInHour(t) == t % 3600
MinuteAt(t) == SecondInHour(t) \div 60
SecondAt(t) == t % 60

LEMMA ClockShows ==
  ASSUME NEW t \in Cal!SecondsOfADay
  PROVE  /\ Cal!IsTime(HourAt(t), MinuteAt(t), SecondAt(t))
         /\ HourAt(t) * 3600 + MinuteAt(t) * 60 + SecondAt(t) = t
<1>1. t \in Int /\ t >= 0
  BY DEF Cal!SecondsOfADay
<1>2. t < 24 * 3600
  BY SMT DEF Cal!SecondsOfADay
<1>3. PICK h \in Int, r \in Int :
        /\ h = HourAt(t) /\ r = SecondInHour(t) /\ t = 3600 * h + r /\ r >= 0 /\ r < 3600
  BY <1>1, SMT DEF HourAt, SecondInHour
<1>4. PICK n \in Int, s \in Int :
        /\ n = r \div 60 /\ r = 60 * n + s /\ s >= 0 /\ s < 60
  <2>1. r \in Int /\ r >= 0 /\ r < 3600
    BY <1>3
  <2>2. QED
    BY <2>1, SMT
<1>5. MinuteAt(t) = n
  <2>1. r = SecondInHour(t)
    BY <1>3
  <2>2. QED
    BY <1>4, <2>1, Zenon DEF MinuteAt
<1>6. t = 60 * (60 * h + n) + s
  BY <1>3, <1>4, SMT
<1>7. SecondAt(t) = s
  BY <1>1, <1>4, <1>6, SMT DEF SecondAt
<1>8. h < 24 /\ n < 60
  BY <1>2, <1>3, <1>4, SMT
<1>9. h * 3600 + n * 60 + s = t
  BY <1>6, SMT
<1>10. Cal!IsTime(h, n, s)
  BY <1>4, <1>8 DEF Cal!IsTime
<1>11. QED
  BY <1>3, <1>5, <1>7, <1>9, <1>10

(* What becomes of a date with the year and a time of the clock on the wall. *)
LEMMA DateIsRead ==
  ASSUME Cal!CalendarAssumption, CalInv, NEW d, NEW m
  PROVE  Cal!Read(d, m, second) =
           IF year >= MIN_PLAUSIBLE_UTC_YEAR /\ Cal!IsDate(year, m, d)
           THEN [day |-> Cal!days_since_unix_epoch(year, m, d), second |-> second]
           ELSE Cal!None
<1>1. /\ year \in 1980 .. 2079 /\ year <= LastYear
      /\ LastYear \in Int /\ LastYear <= MAX_PLAUSIBLE_UTC_YEAR
      /\ MIN_PLAUSIBLE_UTC_YEAR \in Int /\ MAX_PLAUSIBLE_UTC_YEAR \in Int
  BY DEF CalInv, Cal!CalendarAssumption
<1>2. Cal!full_year(year % 100) = year
  BY <1>1 DEF Cal!full_year
<1>3. /\ Cal!IsTime(HourAt(second), MinuteAt(second), SecondAt(second))
      /\ HourAt(second) * 3600 + MinuteAt(second) * 60 + SecondAt(second) = second
  BY ClockShows DEF CalInv
<1>4. year \in MIN_PLAUSIBLE_UTC_YEAR .. MAX_PLAUSIBLE_UTC_YEAR <=> year >= MIN_PLAUSIBLE_UTC_YEAR
  BY <1>1
<1>5. Cal!Read(d, m, second) =
        Cal!parse_rmc_unix(d, m, year % 100, HourAt(second), MinuteAt(second), SecondAt(second))
  BY DEF Cal!Read, HourAt, MinuteAt, SecondInHour, SecondAt
<1>6. QED
  BY <1>2, <1>3, <1>4, <1>5 DEF Cal!parse_rmc_unix

LEMMA DatesHold ==
  ASSUME Cal!CalendarAssumption, CalInv
  PROVE  DatesAreTrue
<1>1. /\ year \in 1980 .. 2079 /\ month \in 1 .. 12
      /\ day \in Nat \ {0} /\ day <= Cal!LastOf(year, month)
      /\ Cal!LastOf(year, month) = Cal!days_in_month(year, month)
      /\ Cal!LastOf(year, month) \in 28 .. 31
  BY MonthIsTornOff DEF CalInv
<1>2. Cal!EverySecondIsNumbered
  <2>1. Cal!IsDate(year, month, day)
    BY <1>1 DEF Cal!IsDate
  <2>2. Cal!DaysBeforeYear[year] = ToYear(year)
    BY <1>1, YearSum
  <2>3. Cal!DaysBeforeMonth(year)[month] = ToMonth(year, month)
    BY <1>1, MonthSum
  <2>4. Cal!days_since_unix_epoch(year, month, day) = count
    BY <2>2, <2>3 DEF Cal!days_since_unix_epoch, CalInv
  <2>5. QED
    BY <2>1, <2>4, DateIsRead DEF Cal!EverySecondIsNumbered
<1>3. ASSUME day = Cal!LastOf(year, month), NEW d \in {0} \cup (day + 1) .. 99
      PROVE  Cal!Read(d, month, second) = Cal!None
  <2>1. ~Cal!IsDate(year, month, d)
    BY <1>1, <1>3 DEF Cal!IsDate
  <2>2. QED
    BY <2>1, DateIsRead
<1>4. ASSUME NEW m \in {0} \cup 13 .. 99
      PROVE  Cal!Read(day, m, second) = Cal!None
  <2>1. ~Cal!IsDate(year, m, day)
    BY DEF Cal!IsDate
  <2>2. QED
    BY <2>1, DateIsRead
<1>5. ASSUME NEW t \in Cal!NoTimes
      PROVE  Cal!parse_rmc_unix(day, month, year % 100, t[1], t[2], t[3]) = Cal!None
  <2>1. ~Cal!IsTime(t[1], t[2], t[3])
    BY DEF Cal!NoTimes, Cal!IsTime
  <2>2. QED
    BY <2>1 DEF Cal!parse_rmc_unix
<1>6. Cal!NothingElseIsADate
  BY <1>3, <1>4, <1>5 DEF Cal!NothingElseIsADate
<1>7. QED
  BY <1>2, <1>6 DEF DatesAreTrue

(* Every second of every plausible day gets its number, and what is no date or no
   time is refused: DatesAreTrue of Inputs, for every year a two-digit year can name
   from 1980 on and every second of every day. *)
THEOREM DatesHoldAlways ==
  ASSUME Cal!CalendarAssumption
  PROVE  Cal!Spec => []DatesAreTrue
<1>1. Cal!Init => CalInv
  BY CalBegins
<1>2. CalInv /\ [Cal!Next]_(Cal!vars) => CalInv'
  BY CalKept
<1>3. CalInv => DatesAreTrue
  BY DatesHold
<1>4. QED
  BY <1>1, <1>2, <1>3, PTL DEF Cal!Spec
=============================================================================
