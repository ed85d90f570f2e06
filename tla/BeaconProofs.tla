---------------------------- MODULE BeaconProofs ----------------------------
(***************************************************************************)
(* Proofs about Beacon for every tolerance, every delay it covers, every   *)
(* clock granularity and any number of losses and repeats.  The argument:  *)
(* sending times grow by a second per number, and the receiver's clock     *)
(* trails a sending time by at most MaxDelay; so the gap to the baseline   *)
(* never exceeds the elapsed seconds by more than the tolerance.  A stray  *)
(* heard first makes a baseline beyond every number of the beacon, which   *)
(* only other strays and a restart of the count move.                      *)
(***************************************************************************)
EXTENDS Beacon, TLAPS

(* The clock of the beacon: numbers and times advance together. *)
ClockInv ==
  /\ 1000 * next_seq <= next_send_at
  /\ next_send_at <= now + 1000

(* A packet under way is a stray, or has a number the beacon has used, and is
   not later than MaxDelay. *)
UnderWay(p, clock, number, send_at) ==
  /\ p.sent_at <= clock /\ clock <= p.sent_at + MaxDelay
  /\ ~IsStray(p) =>
       /\ p.seq < number
       /\ 1000 * (number - p.seq) <= send_at - p.sent_at

AirInv == \A i \in DOMAIN air : UnderWay(air[i], now, next_seq, next_send_at)

(* Genuine packets are under way in the order and at the pace of sending. *)
OrderInv ==
  \A i, j \in DOMAIN air :
    i < j /\ ~IsStray(air[i]) /\ ~IsStray(air[j]) =>
      /\ air[i].seq <= air[j].seq
      /\ 1000 * (air[j].seq - air[i].seq) <= air[j].sent_at - air[i].sent_at

HonestBaseline == last_sequence # None /\ last_sequence \notin WildSequences

(* An honest baseline is a sent number no newer than anything genuine under way. *)
BaselineInv ==
  HonestBaseline =>
    /\ last_sent_at # None /\ last_sequence_rx_time # None
    /\ last_sequence < next_seq
    /\ last_sent_at <= last_sequence_rx_time
    /\ last_sequence_rx_time <= last_sent_at + MaxDelay
    /\ last_sequence_rx_time <= now
    /\ 1000 * (next_seq - last_sequence) <= next_send_at - last_sent_at
    /\ \A i \in DOMAIN air : ~IsStray(air[i]) =>
         /\ last_sequence <= air[i].seq
         /\ 1000 * (air[i].seq - last_sequence) <= air[i].sent_at - last_sent_at

(* A stray is the baseline only if it was heard first and nothing genuine has
   been accepted since. *)
StrayBaselineInv ==
  last_sequence \in WildSequences =>
    /\ genuine = 0 /\ first \in WildSequences
    /\ last_sequence_rx_time # None /\ last_sequence_rx_time <= now

(* Before the first packet nothing has been counted. *)
StartInv ==
  last_sequence = None =>
    /\ genuine = 0 /\ missed_packets = 0
    /\ pending_sequence_candidate = None

IInv ==
  /\ TypeOK
  /\ ClockInv
  /\ AirInv
  /\ OrderInv
  /\ BaselineInv
  /\ StrayBaselineInv
  /\ StartInv
  /\ last_sequence # None => first # None
  /\ HonestBeaconNeverSuspected
  /\ MissedIsExact

-----------------------------------------------------------------------------
(* Arithmetic of the plausible gap: whole seconds of an elapsed time. *)
LEMMA WholeSeconds ==
  ASSUME NEW e \in Nat
  PROVE  /\ (e * BEACON_SEQUENCE_RATE_HZ) \div 1000 \in Nat
         /\ 1000 * ((e * BEACON_SEQUENCE_RATE_HZ) \div 1000) <= e
         /\ e < 1000 * ((e * BEACON_SEQUENCE_RATE_HZ) \div 1000 + 1)
  BY DEF BEACON_SEQUENCE_RATE_HZ

(* max_plausible_gap without its IF: never below one, and the whole seconds
   plus the tolerance otherwise. *)
LEMMA GapValue ==
  ASSUME TypeOK, last_sequence_rx_time # None, last_sequence_rx_time <= now
  PROVE  /\ max_plausible_gap(now) \in Nat
         /\ max_plausible_gap(now) >= 1
         /\ now - last_sequence_rx_time
              < 1000 * (max_plausible_gap(now) - SEQUENCE_GAP_TOLERANCE + 1)
         /\ \/ max_plausible_gap(now) = 1
            \/ 1000 * (max_plausible_gap(now) - SEQUENCE_GAP_TOLERANCE) <= now
<1>1. now \in Nat /\ last_sequence_rx_time \in Nat /\ SEQUENCE_GAP_TOLERANCE \in Nat
  BY TrackerAssumption, BeaconAssumption DEF TypeOK, TrackerTypeOK
<1>2. now - last_sequence_rx_time \in Nat
  BY <1>1
<1> DEFINE q == ((now - last_sequence_rx_time) * BEACON_SEQUENCE_RATE_HZ) \div 1000
<1>3. q \in Nat /\ 1000 * q <= now - last_sequence_rx_time
      /\ now - last_sequence_rx_time < 1000 * (q + 1)
  BY <1>2, WholeSeconds
<1>4. max_plausible_gap(now) = IF q + SEQUENCE_GAP_TOLERANCE >= 1
                                 THEN q + SEQUENCE_GAP_TOLERANCE ELSE 1
  BY DEF max_plausible_gap
<1> HIDE DEF q
<1>5. QED
  BY <1>1, <1>3, <1>4

(* The beacon has used at most one number a second. *)
LEMMA NumbersBounded ==
  ASSUME TypeOK, ClockInv
  PROVE  1000 * next_seq <= MaxTime + 1000
<1>1. now \in Nat /\ MaxTime \in Nat /\ now <= MaxTime /\ next_seq \in Nat /\ next_send_at \in Nat
  BY BeaconAssumption DEF TypeOK
<1>2. QED
  BY <1>1 DEF ClockInv

(* A stray number is one the beacon does not reach, and no restart of its count. *)
LEMMA StrayIsBeyond ==
  ASSUME TypeOK, ClockInv, NEW w \in WildSequences
  PROVE  w \in Nat /\ w # None /\ w > next_seq /\ w > REBOOT_SEQUENCE_WINDOW
<1>1. /\ next_seq \in Nat /\ MaxTime \in Nat /\ SEQUENCE_GAP_TOLERANCE \in Nat
      /\ 1000 * next_seq <= MaxTime + 1000
  BY BeaconAssumption, TrackerAssumption, NumbersBounded DEF TypeOK
<1>2. /\ w \in Nat /\ w > MaxTime + SEQUENCE_GAP_TOLERANCE + 1
      /\ w > REBOOT_SEQUENCE_WINDOW
  BY WildAssumption, BeaconAssumption
<1>3. QED
  BY <1>1, <1>2 DEF None

(* It is beyond any gap that is plausible after an honest baseline. *)
LEMMA StrayIsFar ==
  ASSUME TypeOK, ClockInv, BaselineInv, HonestBaseline,
         NEW w \in WildSequences
  PROVE  /\ w \in Nat /\ w > next_seq /\ w > last_sequence
         /\ w - last_sequence > max_plausible_gap(now)
<1>1. /\ now \in Nat /\ MaxTime \in Nat /\ now <= MaxTime /\ next_seq \in Nat
      /\ last_sequence \in Nat /\ SEQUENCE_GAP_TOLERANCE \in Nat /\ next_send_at \in Nat
  BY BeaconAssumption, TrackerAssumption DEF TypeOK, TrackerTypeOK, HonestBaseline
<1>2. w \in Nat /\ w > MaxTime + SEQUENCE_GAP_TOLERANCE + 1
  BY WildAssumption, BeaconAssumption
<1>3. last_sequence < next_seq /\ last_sequence_rx_time # None /\ last_sequence_rx_time <= now
  BY DEF BaselineInv
<1>4. 1000 * next_seq <= now + 1000
  BY <1>1 DEF ClockInv
<1>5. 1000 * last_sequence <= now /\ last_sequence <= MaxTime
  BY <1>1, <1>3, <1>4
<1>6. /\ max_plausible_gap(now) \in Nat
      /\ \/ max_plausible_gap(now) = 1
         \/ 1000 * (max_plausible_gap(now) - SEQUENCE_GAP_TOLERANCE) <= now
  BY <1>3, GapValue
<1>7. w - last_sequence > max_plausible_gap(now)
  BY <1>1, <1>2, <1>5, <1>6
<1>8. w > last_sequence
  BY <1>1, <1>2, <1>5
<1>9. w > next_seq
  BY <1>1, <1>2, <1>4
<1>10. QED
  BY <1>2, <1>7, <1>8, <1>9

-----------------------------------------------------------------------------
(* What the receiver loop does with the packet at the head.                 *)

(* The oldest packet is one of those under way. *)
LEMMA HeadOfAir ==
  ASSUME air \in Seq(Packet), air # <<>>
  PROVE  1 \in DOMAIN air /\ Head(air) = air[1] /\ Head(air) \in Packet
  OBVIOUS

(* The fields of a packet under way. *)
LEMMA PacketFields ==
  ASSUME air \in Seq(Packet)
  PROVE  \A i \in DOMAIN air :
           air[i].seq \in Nat /\ air[i].sent_at \in Nat
<1>1. \A i \in DOMAIN air : air[i] \in Packet
  OBVIOUS
<1>2. \A q \in Packet : q.seq \in Nat /\ q.sent_at \in Nat
  BY DEF Packet
<1>3. QED
  BY <1>1, <1>2

(* After an honest baseline a genuine packet never exceeds the plausible gap. *)
LEMMA GenuineGap ==
  ASSUME TypeOK, AirInv, BaselineInv, air # <<>>, ~IsStray(Head(air)), HonestBaseline
  PROVE  /\ last_sequence <= Head(air).seq
         /\ Head(air).seq - last_sequence <= max_plausible_gap(now)
<1> DEFINE p == Head(air)
<1>1. p = air[1] /\ p \in Packet /\ 1 \in DOMAIN air
  BY HeadOfAir DEF TypeOK
<1>2. /\ now \in Nat /\ last_sequence \in Nat /\ last_sequence_rx_time \in Nat /\ last_sent_at \in Nat
      /\ SEQUENCE_GAP_TOLERANCE \in Nat /\ MaxDelay \in Nat
      /\ MaxDelay <= 1000 * SEQUENCE_GAP_TOLERANCE
  BY BeaconAssumption, TrackerAssumption DEF TypeOK, TrackerTypeOK, BaselineInv, HonestBaseline
<1>3. p.seq \in Nat /\ p.sent_at \in Nat /\ p.sent_at <= now
  BY <1>1 DEF AirInv, UnderWay, Packet
<1>4. /\ last_sequence <= p.seq
      /\ 1000 * (p.seq - last_sequence) <= p.sent_at - last_sent_at
      /\ last_sequence_rx_time <= last_sent_at + MaxDelay
      /\ last_sequence_rx_time <= now /\ last_sequence_rx_time # None
  BY <1>1 DEF BaselineInv
<1>5. /\ max_plausible_gap(now) \in Nat
      /\ now - last_sequence_rx_time
           < 1000 * (max_plausible_gap(now) - SEQUENCE_GAP_TOLERANCE + 1)
  BY <1>2, <1>4, GapValue
<1> HIDE DEF p
<1>6. 1000 * (p.seq - last_sequence) <= now - last_sequence_rx_time + 1000 * SEQUENCE_GAP_TOLERANCE
  BY <1>2, <1>3, <1>4
<1>7. 1000 * (p.seq - last_sequence) < 1000 * (max_plausible_gap(now) + 1)
  BY <1>2, <1>3, <1>5, <1>6
<1>8. p.seq - last_sequence <= max_plausible_gap(now)
  BY <1>2, <1>3, <1>5, <1>7, SMTT(30)
<1>9. QED
  BY <1>4, <1>8 DEF p

(* So it is the first packet, a repeat or a step forward ... *)
LEMMA GenuineBranches ==
  ASSUME IInv, air # <<>>, ~IsStray(Head(air)), OnPacket(Head(air).seq, now),
         last_sequence \notin WildSequences
  PROVE  \/ FirstPacket(Head(air).seq, now)
         \/ DuplicateSequence(Head(air).seq)
         \/ ForwardStep(Head(air).seq, now)
<1> DEFINE p == Head(air)
<1>1. p = air[1] /\ p \in Packet /\ 1 \in DOMAIN air /\ p.seq \in Nat
  BY HeadOfAir DEF IInv, TypeOK, Packet
<1>2. SUFFICES ASSUME last_sequence # None
               PROVE  DuplicateSequence(p.seq) \/ ForwardStep(p.seq, now)
  BY DEF OnPacket, Accepted, Ignored, DuplicateCandidate, Resync, Judged, SuspiciousJump,
         SequenceReset, Backward
<1>3. p.seq < next_seq /\ next_seq \in Nat /\ last_sequence \in Nat
      /\ pending_sequence_candidate \in Nat \cup {None} /\ HonestBaseline
  BY <1>1, <1>2 DEF IInv, AirInv, UnderWay, TypeOK, TrackerTypeOK, HonestBaseline
<1>4. last_sequence <= p.seq /\ p.seq - last_sequence <= max_plausible_gap(now)
  BY <1>3, GenuineGap DEF IInv
<1>5. pending_sequence_candidate # None =>
        pending_sequence_candidate \in Nat /\ pending_sequence_candidate > next_seq
  BY StrayIsBeyond DEF IInv, HonestBeaconNeverSuspected
<1>6. ~DuplicateCandidate(p.seq)
  BY <1>1, <1>3, <1>5 DEF DuplicateCandidate, None
<1>7. ~Confirms(p.seq)
  BY <1>1, <1>3, <1>5 DEF Confirms
<1>8. /\ max_plausible_gap(now) \in Nat
      /\ max_plausible_gap(now) >= 1
  BY <1>3, GapValue DEF IInv, BaselineInv
<1>9. ~Resync(p.seq, now) /\ ~SuspiciousJump(p.seq, now)
  BY <1>1, <1>3, <1>4, <1>7, <1>8 DEF Resync, SuspiciousJump
<1>10. ~SequenceReset(p.seq, now) /\ ~Backward(p.seq) /\ ~FirstPacket(p.seq, now)
  BY <1>1, <1>2, <1>3, <1>4 DEF SequenceReset, Backward, FirstPacket
<1>11. QED
  BY <1>6, <1>9, <1>10 DEF OnPacket, Accepted, Ignored

(* ... while a stray one is put on probation, or is the candidate repeated. *)
LEMMA StrayBranches ==
  ASSUME IInv, air # <<>>, IsStray(Head(air)), OnPacket(Head(air).seq, now), HonestBaseline
  PROVE  /\ last_sequence # None
         /\ Head(air).seq \in WildSequences
         /\ SuspiciousJump(Head(air).seq, now) \/ DuplicateCandidate(Head(air).seq)
<1> DEFINE p == Head(air)
<1>1. p = air[1] /\ p \in Packet /\ 1 \in DOMAIN air /\ p.seq \in Nat
  BY HeadOfAir DEF IInv, TypeOK, Packet
<1>2. p.seq \in WildSequences /\ last_sequence # None
  BY DEF IsStray, HonestBaseline
<1>3. last_sequence \in Nat /\ pending_sequence_candidate \in Nat \cup {None}
  BY <1>2 DEF IInv, TypeOK, TrackerTypeOK
<1>4. p.seq > last_sequence /\ p.seq - last_sequence > max_plausible_gap(now)
  BY <1>2, StrayIsFar DEF IInv
<1>5. max_plausible_gap(now) \in Nat
  BY <1>2, GapValue DEF IInv, BaselineInv
<1>6. ~Confirms(p.seq)
  BY <1>1, <1>2, <1>3, WildAssumption DEF Confirms, IInv, HonestBeaconNeverSuspected
<1>7. ~FirstPacket(p.seq, now) /\ ~Resync(p.seq, now) /\ ~DuplicateSequence(p.seq)
      /\ ~SequenceReset(p.seq, now) /\ ~Backward(p.seq)
  BY <1>1, <1>2, <1>3, <1>4, <1>6
  DEF FirstPacket, Resync, DuplicateSequence, SequenceReset, Backward
<1>8. ~ForwardStep(p.seq, now)
  BY <1>1, <1>3, <1>4, <1>5 DEF ForwardStep
<1>9. QED
  BY <1>2, <1>7, <1>8 DEF OnPacket, Accepted, Ignored

(* Over a stray baseline a genuine packet is a restart of the count, or is
   ignored for being behind. *)
LEMMA GenuineOverStray ==
  ASSUME IInv, air # <<>>, ~IsStray(Head(air)), OnPacket(Head(air).seq, now),
         last_sequence \in WildSequences
  PROVE  SequenceReset(Head(air).seq, now) \/ Backward(Head(air).seq)
<1> DEFINE p == Head(air)
<1>1. p = air[1] /\ p \in Packet /\ 1 \in DOMAIN air /\ p.seq \in Nat
  BY HeadOfAir DEF IInv, TypeOK, Packet
<1>2. p.seq < next_seq /\ next_seq \in Nat
  BY <1>1 DEF IInv, AirInv, UnderWay, TypeOK
<1>3. last_sequence \in Nat /\ last_sequence # None /\ last_sequence > next_seq
  BY StrayIsBeyond DEF IInv
<1>4. pending_sequence_candidate # None =>
        pending_sequence_candidate \in Nat /\ pending_sequence_candidate > next_seq
  BY StrayIsBeyond DEF IInv, HonestBeaconNeverSuspected
<1>5. ~DuplicateCandidate(p.seq) /\ ~Confirms(p.seq)
  BY <1>1, <1>2, <1>4 DEF DuplicateCandidate, Confirms, None
<1>6. /\ ~FirstPacket(p.seq, now) /\ ~Resync(p.seq, now) /\ ~DuplicateSequence(p.seq)
      /\ ~SuspiciousJump(p.seq, now) /\ ~ForwardStep(p.seq, now)
  BY <1>1, <1>2, <1>3, <1>5
  DEF FirstPacket, Resync, DuplicateSequence, SuspiciousJump, ForwardStep
<1>7. QED
  BY <1>5, <1>6 DEF OnPacket, Accepted, Ignored

(* A stray heard first, or over a stray baseline, leaves a stray baseline. *)
LEMMA StrayOverStray ==
  ASSUME IInv, air # <<>>, IsStray(Head(air)), OnPacket(Head(air).seq, now), ~HonestBaseline
  PROVE  /\ last_sequence' \in {last_sequence, Head(air).seq} /\ last_sequence' # None
         /\ last_sequence_rx_time' \in {last_sequence_rx_time, now}
         /\ last_sequence = None => last_sequence_rx_time' = now
         /\ pending_sequence_candidate' \in {None, pending_sequence_candidate, Head(air).seq}
         /\ TrackerTypeOK'
<1> DEFINE p == Head(air)
<1>1. p \in Packet /\ p.seq \in Nat /\ p.seq # None /\ p.seq \in WildSequences
  BY HeadOfAir DEF IInv, TypeOK, Packet, None, IsStray
<1>2. /\ last_sequence \in Nat \cup {None} /\ last_sequence_rx_time \in Nat \cup {None}
      /\ pending_sequence_candidate \in Nat \cup {None}
      /\ last_accepted_sequence \in Nat \cup {None}
      /\ received_packets \in Nat /\ missed_packets \in Nat /\ now \in Nat
  BY DEF IInv, TypeOK, TrackerTypeOK
<1>3. ~Resync(p.seq, now) /\ ~SequenceReset(p.seq, now)
  <2>1. ~Confirms(p.seq)
    BY <1>1, WildAssumption DEF Confirms, IInv, HonestBeaconNeverSuspected
  <2>2. p.seq > REBOOT_SEQUENCE_WINDOW /\ REBOOT_SEQUENCE_WINDOW \in Nat
    BY <1>1, StrayIsBeyond, TrackerAssumption DEF IInv
  <2> HIDE DEF p
  <2>3. QED
    BY <1>1, <2>1, <2>2 DEF Resync, SequenceReset
<1>4. CASE FirstPacket(p.seq, now)
  BY <1>1, <1>2, <1>4 DEF FirstPacket, AcceptTrusted, TrackerTypeOK
<1>5. CASE DuplicateCandidate(p.seq) \/ DuplicateSequence(p.seq) \/ Backward(p.seq)
  BY <1>1, <1>2, <1>5
  DEF DuplicateCandidate, DuplicateSequence, Backward, Judged, Ignore, TrackerTypeOK
<1>6. CASE SuspiciousJump(p.seq, now)
  BY <1>1, <1>2, <1>6 DEF SuspiciousJump, Judged, AcceptUntrusted, TrackerTypeOK
<1>7. CASE ForwardStep(p.seq, now)
  BY <1>1, <1>2, <1>7 DEF ForwardStep, Judged, AcceptTrusted, TrackerTypeOK
<1>8. QED
  BY <1>3, <1>4, <1>5, <1>6, <1>7 DEF OnPacket, Accepted, Ignored

-----------------------------------------------------------------------------
(* Every step keeps the invariant.                                          *)

(* Nothing heard, nothing sent: the invariant holds at power-on. *)
LEMMA InitHolds == Init => IInv
  BY BeaconAssumption
  DEF Init, TrackerInit, IInv, TypeOK, TrackerTypeOK, ClockInv, AirInv, UnderWay, OrderInv,
      BaselineInv, HonestBaseline, StrayBaselineInv, StartInv, HonestBeaconNeverSuspected,
      MissedIsExact, None

(* Time alone disturbs nothing, since no packet under way becomes late. *)
LEMMA TickStep ==
  ASSUME IInv, Tick
  PROVE  IInv'
<1>1. PICK d \in ClockSteps :
        /\ now + d <= MaxTime
        /\ \A i \in DOMAIN air : now + d <= air[i].sent_at + MaxDelay
        /\ now' = now + d
  BY DEF Tick
<1>2. UNCHANGED <<next_seq, next_send_at, air, strays>> /\ UNCHANGED <<tracker, history>>
  BY DEF Tick
<1>3. /\ d \in Nat /\ now \in Nat /\ now' \in 0 .. MaxTime /\ now' \in Nat /\ now <= now'
      /\ MaxDelay \in Nat /\ next_send_at \in Nat /\ next_seq \in Nat /\ air \in Seq(Packet)
  BY <1>1, BeaconAssumption DEF IInv, TypeOK
<1>4. TypeOK'
  BY <1>2, <1>3 DEF IInv, TypeOK, TrackerTypeOK, tracker, history
<1>5. ClockInv'
  <2>1. next_send_at <= now + d + 1000
    BY <1>3 DEF IInv, ClockInv
  <2>2. QED
    BY <1>1, <1>2, <2>1 DEF IInv, ClockInv
<1>6. AirInv'
  <2>1. \A i \in DOMAIN air : air[i].sent_at \in Nat
    BY <1>3, PacketFields
  <2>2. QED
    BY <1>1, <1>2, <1>3, <2>1 DEF IInv, AirInv, UnderWay
<1>7. OrderInv'
  BY <1>2 DEF IInv, OrderInv
<1>8. BaselineInv'
  BY <1>2, <1>3 DEF IInv, TypeOK, TrackerTypeOK, BaselineInv, HonestBaseline, tracker, history
<1>9. StrayBaselineInv'
  BY <1>2, <1>3 DEF IInv, TypeOK, TrackerTypeOK, StrayBaselineInv, tracker, history
<1>10. StartInv' /\ HonestBeaconNeverSuspected' /\ MissedIsExact'
      /\ (last_sequence # None => first # None)'
  BY <1>2 DEF IInv, StartInv, HonestBeaconNeverSuspected, MissedIsExact, tracker, history
<1>11. QED
  BY <1>4, <1>5, <1>6, <1>7, <1>8, <1>9, <1>10 DEF IInv

(* Appending a packet: the old ones keep their places. *)
LEMMA Appended ==
  ASSUME air \in Seq(Packet), NEW p \in Packet, air' = Append(air, p)
  PROVE  /\ air' \in Seq(Packet)
         /\ \A i \in DOMAIN air' :
              (i \in DOMAIN air /\ air'[i] = air[i]) \/ (i = Len(air) + 1 /\ air'[i] = p)
  OBVIOUS

(* A second after the last permitted sending time the next number is due. *)
LEMMA Pace ==
  ASSUME NEW a \in Nat, NEW t \in Nat, NEW n \in Nat, NEW s \in Nat, NEW m \in Nat,
         1000 * (n - a) <= s - t, s <= m
  PROVE  1000 * (n - a) <= m - t /\ 1000 * (n + 1 - a) <= m + 1000 - t
  OBVIOUS

(* A new number is the largest there is, and the pace allows it. *)
LEMMA SendStep ==
  ASSUME IInv, NEW heard \in BOOLEAN, Send(heard)
  PROVE  IInv'
<1> DEFINE p == [seq |-> next_seq, sent_at |-> now]
<1>1. /\ now >= next_send_at /\ next_seq' = next_seq + 1 /\ next_send_at' = now + 1000
      /\ now' = now /\ strays' = strays /\ UNCHANGED tracker /\ UNCHANGED history
      /\ air' = IF heard THEN Append(air, p) ELSE air
  BY DEF Send
<1>2. /\ now \in Nat /\ next_seq \in Nat /\ next_send_at \in Nat /\ MaxDelay \in Nat
      /\ air \in Seq(Packet) /\ p \in Packet
  BY BeaconAssumption DEF IInv, TypeOK, Packet
<1>3. \A i \in DOMAIN air : air[i].sent_at \in Nat /\ air[i].seq \in Nat
  BY <1>2, PacketFields
<1>4. /\ air' \in Seq(Packet)
      /\ \A i \in DOMAIN air' :
           (i \in DOMAIN air /\ air'[i] = air[i]) \/ (i = Len(air) + 1 /\ air'[i] = p)
  BY <1>1, <1>2, Appended
<1>5. p.seq = next_seq /\ p.sent_at = now /\ ~IsStray(p)
  <2>0. 1000 * next_seq <= MaxTime + 1000
    BY NumbersBounded DEF IInv
  <2>1. next_seq <= MaxTime + 1 /\ MaxTime \in Nat /\ SEQUENCE_GAP_TOLERANCE \in Nat
    BY <1>2, <2>0, BeaconAssumption, TrackerAssumption
  <2>2. next_seq \notin WildSequences
    BY <1>2, <2>1, WildAssumption
  <2>3. QED
    BY <2>2 DEF IsStray
<1> HIDE DEF p
<1>6. TypeOK'
  BY <1>1, <1>2, <1>4 DEF IInv, TypeOK, TrackerTypeOK, tracker, history
<1>7. ClockInv'
  BY <1>1, <1>2 DEF IInv, ClockInv
<1>8. AirInv'
  <2>1. ASSUME NEW q \in Packet, q = p \/ \E i \in DOMAIN air : q = air[i]
        PROVE  /\ q.sent_at <= now /\ now <= q.sent_at + MaxDelay
               /\ ~IsStray(q) =>
                    /\ q.seq < next_seq + 1
                    /\ 1000 * (next_seq + 1 - q.seq) <= now + 1000 - q.sent_at
    <3>1. q.seq \in Nat /\ q.sent_at \in Nat
      BY DEF Packet
    <3>2. CASE q = p
      BY <1>2, <1>5, <3>2
    <3>3. CASE \E i \in DOMAIN air : q = air[i]
      <4>1. /\ q.sent_at <= now /\ now <= q.sent_at + MaxDelay
            /\ ~IsStray(q) =>
                 /\ q.seq < next_seq
                 /\ 1000 * (next_seq - q.seq) <= next_send_at - q.sent_at
        BY <3>3 DEF IInv, AirInv, UnderWay
      <4>2. ASSUME ~IsStray(q)
            PROVE  1000 * (next_seq + 1 - q.seq) <= now + 1000 - q.sent_at
        <5> DEFINE a == q.seq
        <5> DEFINE t == q.sent_at
        <5>1. a \in Nat /\ t \in Nat /\ 1000 * (next_seq - a) <= next_send_at - t
          BY <3>1, <4>1, <4>2
        <5>2. next_send_at <= now
          BY <1>1, <1>2
        <5> HIDE DEF a, t
        <5>3. 1000 * (next_seq + 1 - a) <= now + 1000 - t
          BY <1>2, <5>1, <5>2, Pace
        <5>4. QED
          BY <5>3 DEF a, t
      <4>3. ~IsStray(q) => q.seq < next_seq + 1
        BY <1>2, <3>1, <4>1
      <4>4. QED
        BY <4>1, <4>2, <4>3
    <3>4. QED
      BY <2>1, <3>2, <3>3
  <2>2. \A i \in DOMAIN air' :
          air'[i] \in Packet /\ (air'[i] = p \/ \E k \in DOMAIN air : air'[i] = air[k])
    BY <1>4
  <2>3. next_seq' = next_seq + 1 /\ next_send_at' = now + 1000 /\ now' = now
    BY <1>1
  <2>4. ASSUME NEW q \in Packet, q = p \/ \E i \in DOMAIN air : q = air[i]
        PROVE  UnderWay(q, now, next_seq + 1, now + 1000)
    <3>1. /\ q.sent_at <= now /\ now <= q.sent_at + MaxDelay
          /\ ~IsStray(q) =>
               /\ q.seq < next_seq + 1
               /\ 1000 * (next_seq + 1 - q.seq) <= now + 1000 - q.sent_at
      BY <2>1, <2>4
    <3>2. QED
      BY <1>2, <3>1 DEF UnderWay, Packet, IsStray
  <2>5. \A i \in DOMAIN air' : UnderWay(air'[i], now, next_seq + 1, now + 1000)
    BY <2>2, <2>4
  <2>6. QED
    BY <2>3, <2>5 DEF AirInv
<1>9. OrderInv'
  <2>1. ASSUME NEW i \in DOMAIN air, ~IsStray(air[i])
        PROVE  air[i].seq <= p.seq /\ 1000 * (p.seq - air[i].seq) <= p.sent_at - air[i].sent_at
    <3> DEFINE a == air[i].seq
    <3> DEFINE t == air[i].sent_at
    <3>1. a \in Nat /\ t \in Nat
      BY <1>3
    <3>2. a < next_seq /\ 1000 * (next_seq - a) <= next_send_at - t
      BY <2>1 DEF IInv, AirInv, UnderWay
    <3> HIDE DEF a, t
    <3>3. a <= next_seq /\ 1000 * (next_seq - a) <= now - t
      BY <1>1, <1>2, <3>1, <3>2, Pace
    <3>4. QED
      BY <1>5, <3>3 DEF a, t
  <2>2. \A i, j \in DOMAIN air' : i < j =>
          i \in DOMAIN air /\ air'[i] = air[i]
          /\ ((j \in DOMAIN air /\ air'[j] = air[j]) \/ air'[j] = p)
    BY <1>2, <1>4
  <2>3. QED
    BY <2>1, <2>2 DEF IInv, OrderInv
<1>10. BaselineInv'
  <2> SUFFICES ASSUME HonestBaseline PROVE BaselineInv'
    BY <1>1 DEF BaselineInv, HonestBaseline, tracker
  <2>1. last_sequence \in Nat /\ last_sent_at \in Nat /\ last_sequence_rx_time \in Nat
    BY DEF IInv, TypeOK, TrackerTypeOK, BaselineInv, HonestBaseline
  <2>2. last_sequence < next_seq
        /\ 1000 * (next_seq - last_sequence) <= next_send_at - last_sent_at
    BY DEF IInv, BaselineInv
  <2>3. \A i \in DOMAIN air' : ~IsStray(air'[i]) =>
          /\ last_sequence <= air'[i].seq
          /\ 1000 * (air'[i].seq - last_sequence) <= air'[i].sent_at - last_sent_at
    BY <1>1, <1>2, <1>3, <1>4, <1>5, <2>1, <2>2 DEF IInv, BaselineInv
  <2>4. 1000 * (next_seq' - last_sequence) <= next_send_at' - last_sent_at
    BY <1>1, <1>2, <2>1, <2>2
  <2>5. QED
    BY <1>1, <1>2, <2>1, <2>2, <2>3, <2>4 DEF IInv, BaselineInv, tracker, history
<1>11. StrayBaselineInv' /\ StartInv' /\ HonestBeaconNeverSuspected' /\ MissedIsExact'
       /\ (last_sequence # None => first # None)'
  BY <1>1 DEF IInv, StrayBaselineInv, StartInv, HonestBeaconNeverSuspected, MissedIsExact, tracker, history
<1>12. QED
  BY <1>6, <1>7, <1>8, <1>9, <1>10, <1>11 DEF IInv

(* A stray frame is under way but far from every number of the beacon. *)
LEMMA StrayStep ==
  ASSUME IInv, Stray
  PROVE  IInv'
<1>1. PICK w \in WildSequences :
        air' = Append(air, [seq |-> w, sent_at |-> now])
  BY DEF Stray
<1> DEFINE p == [seq |-> w, sent_at |-> now]
<1>2. /\ strays' = strays + 1
      /\ UNCHANGED <<now, next_seq, next_send_at>> /\ UNCHANGED tracker /\ UNCHANGED history
  BY DEF Stray
<1>3. now \in Nat /\ MaxDelay \in Nat /\ air \in Seq(Packet) /\ p \in Packet /\ strays \in Nat
  BY BeaconAssumption DEF IInv, TypeOK, Packet
<1>4. /\ air' \in Seq(Packet)
      /\ \A i \in DOMAIN air' :
           (i \in DOMAIN air /\ air'[i] = air[i]) \/ (i = Len(air) + 1 /\ air'[i] = p)
  BY <1>1, <1>3, Appended
<1>5. p.seq = w /\ p.sent_at = now /\ IsStray(p)
  BY DEF IsStray
<1> HIDE DEF p
<1>6. TypeOK'
  BY <1>2, <1>3, <1>4 DEF IInv, TypeOK, TrackerTypeOK, tracker, history
<1>7. AirInv'
  BY <1>2, <1>3, <1>4, <1>5 DEF IInv, AirInv, UnderWay
<1>8. OrderInv'
  BY <1>2, <1>4, <1>5 DEF IInv, OrderInv
<1>9. BaselineInv'
  BY <1>2, <1>4, <1>5 DEF IInv, BaselineInv, HonestBaseline, tracker, history
<1>10. ClockInv' /\ StrayBaselineInv' /\ StartInv' /\ HonestBeaconNeverSuspected' /\ MissedIsExact'
       /\ (last_sequence # None => first # None)'
  BY <1>2 DEF IInv, ClockInv, StrayBaselineInv, StartInv, HonestBeaconNeverSuspected, MissedIsExact, tracker, history
<1>11. QED
  BY <1>6, <1>7, <1>8, <1>9, <1>10 DEF IInv

(* Handling a packet only takes from the front of what is under way. *)
LEMMA Shortened ==
  ASSUME air \in Seq(Packet), air # <<>>, NEW again \in BOOLEAN,
         air' = IF again THEN air ELSE Tail(air)
  PROVE  /\ air' \in Seq(Packet)
         /\ \E k \in {0, 1} : \A i \in DOMAIN air' : i \in Nat /\ i + k \in DOMAIN air /\ air'[i] = air[i + k]
<1>1. CASE again
  <2>1. \A i \in DOMAIN air' : i \in Nat /\ i + 0 \in DOMAIN air /\ air'[i] = air[i + 0]
    BY <1>1
  <2>2. QED
    BY <1>1, <2>1
<1>2. CASE ~again
  <2>1. \A i \in DOMAIN air' : i \in Nat /\ i + 1 \in DOMAIN air /\ air'[i] = air[i + 1]
    BY <1>2
  <2>2. air' \in Seq(Packet)
    BY <1>2
  <2>3. QED
    BY <2>1, <2>2
<1>3. QED
  BY <1>1, <1>2

(* What a genuine packet that becomes the baseline brings with it. *)
LEMMA NewBaseline ==
  ASSUME IInv, air # <<>>, ~IsStray(Head(air)),
         NEW again \in BOOLEAN, air' = IF again THEN air ELSE Tail(air),
         last_sequence' = Head(air).seq, last_sequence_rx_time' = now,
         last_sent_at' = Head(air).sent_at,
         UNCHANGED <<now, next_seq, next_send_at>>
  PROVE  BaselineInv'
<1> DEFINE p == Head(air)
<1>1. p = air[1] /\ p \in Packet /\ 1 \in DOMAIN air /\ air \in Seq(Packet)
  BY HeadOfAir DEF IInv, TypeOK
<1>2. p.seq \in Nat /\ p.sent_at \in Nat
  BY <1>1 DEF Packet
<1>3. /\ p.seq < next_seq /\ p.sent_at <= now /\ now <= p.sent_at + MaxDelay
      /\ 1000 * (next_seq - p.seq) <= next_send_at - p.sent_at
  BY <1>1 DEF IInv, AirInv, UnderWay
<1>4. PICK k \in {0, 1} : \A i \in DOMAIN air' : i \in Nat /\ i + k \in DOMAIN air /\ air'[i] = air[i + k]
  BY <1>1, Shortened
<1>5. ASSUME NEW i \in DOMAIN air, ~IsStray(air[i])
      PROVE  p.seq <= air[i].seq /\ 1000 * (air[i].seq - p.seq) <= air[i].sent_at - p.sent_at
  <2>1. CASE i = 1
    BY <1>1, <1>2, <2>1
  <2>2. CASE i # 1
    <3>1. 1 < i
      BY <1>1, <2>2
    <3>2. QED
      BY <1>1, <1>5, <3>1 DEF IInv, OrderInv
  <2>3. QED
    BY <2>1, <2>2
<1>6. \A i \in DOMAIN air' : ~IsStray(air'[i]) =>
        /\ p.seq <= air'[i].seq
        /\ 1000 * (air'[i].seq - p.seq) <= air'[i].sent_at - p.sent_at
  BY <1>4, <1>5
<1>7. now \in Nat
  BY DEF IInv, TypeOK
<1>8. now # None /\ p.sent_at # None
  BY <1>2, <1>7 DEF None
<1>9. /\ last_sequence' = p.seq /\ last_sequence_rx_time' = now /\ last_sent_at' = p.sent_at
      /\ now' = now /\ next_seq' = next_seq /\ next_send_at' = next_send_at
  OBVIOUS
<1> HIDE DEF p
<1>10. QED
  BY <1>3, <1>6, <1>7, <1>8, <1>9, SMTT(30) DEF BaselineInv, HonestBaseline

(* The receiver loop: one case for each branch a genuine or stray packet takes. *)
LEMMA HearStep ==
  ASSUME IInv, NEW again \in BOOLEAN, Hear(again)
  PROVE  IInv'
<1> DEFINE p == Head(air)
<1>1. /\ air # <<>> /\ OnPacket(p.seq, now) /\ air' = IF again THEN air ELSE Tail(air)
      /\ now' = now /\ next_seq' = next_seq /\ next_send_at' = next_send_at /\ strays' = strays
  BY DEF Hear
<1>2. /\ first' = IF last_sequence = None THEN p.seq ELSE first
      /\ genuine' = IF IsStray(p) THEN genuine
                    ELSE genuine + (received_packets' - received_packets)
      /\ last_sent_at' = IF last_sequence' # last_sequence THEN p.sent_at ELSE last_sent_at
  BY DEF Hear
<1>3. p = air[1] /\ p \in Packet /\ 1 \in DOMAIN air /\ air \in Seq(Packet)
  BY <1>1, HeadOfAir DEF IInv, TypeOK
<1>4. p.seq \in Nat /\ p.sent_at \in Nat /\ p.seq # None
  BY <1>3 DEF Packet, None
<1>5. air' \in Seq(Packet)
  BY <1>1, <1>3, Shortened
<1>6. PICK k \in {0, 1} : \A i \in DOMAIN air' : i \in Nat /\ i + k \in DOMAIN air /\ air'[i] = air[i + k]
  BY <1>1, <1>3, Shortened
<1>7. now \in 0 .. MaxTime /\ now \in Nat /\ next_seq \in Nat /\ next_send_at \in Nat /\ strays \in Nat
  BY DEF IInv, TypeOK
<1>8. ClockInv'
  BY <1>1 DEF IInv, ClockInv
<1>9. AirInv'
  <2>1. \A i \in DOMAIN air' : UnderWay(air'[i], now, next_seq, next_send_at)
    BY <1>6 DEF IInv, AirInv
  <2>2. QED
    BY <1>1, <2>1 DEF AirInv
<1>10. OrderInv'
  <2>1. \A i, j \in DOMAIN air' : i < j => i + k < j + k
    BY <1>6
  <2>2. QED
    BY <1>6, <2>1 DEF IInv, OrderInv
<1>11. CASE IsStray(p) /\ HonestBaseline
  <2>1. /\ last_sequence # None /\ p.seq \in WildSequences
        /\ SuspiciousJump(p.seq, now) \/ DuplicateCandidate(p.seq)
    BY <1>1, <1>11, StrayBranches
  <2>2. /\ UNCHANGED <<last_sequence, last_sequence_rx_time, missed_packets>>
        /\ pending_sequence_candidate' \in {pending_sequence_candidate, p.seq}
        /\ last_accepted_sequence' \in {last_accepted_sequence, p.seq}
        /\ received_packets' \in {received_packets, received_packets + 1}
    BY <2>1 DEF SuspiciousJump, DuplicateCandidate, AcceptUntrusted, Ignore
  <2>3. first' = first /\ genuine' = genuine /\ last_sent_at' = last_sent_at
    BY <1>2, <1>11, <2>1, <2>2
  <2>4. TypeOK'
    BY <1>1, <1>4, <1>5, <1>7, <2>2, <2>3 DEF IInv, TypeOK, TrackerTypeOK
  <2>5. BaselineInv'
    <3>1. \A i \in DOMAIN air' : ~IsStray(air'[i]) =>
            /\ last_sequence <= air'[i].seq
            /\ 1000 * (air'[i].seq - last_sequence) <= air'[i].sent_at - last_sent_at
      BY <1>6, <1>11, <2>1 DEF IInv, BaselineInv
    <3>2. QED
      BY <1>1, <1>11, <2>1, <2>2, <2>3, <3>1 DEF IInv, BaselineInv, HonestBaseline
  <2>6. /\ StrayBaselineInv' /\ StartInv' /\ HonestBeaconNeverSuspected' /\ MissedIsExact'
        /\ (last_sequence # None => first # None)'
    BY <1>11, <2>1, <2>2, <2>3
    DEF IInv, HonestBaseline, StrayBaselineInv, StartInv, HonestBeaconNeverSuspected, MissedIsExact
  <2>7. QED
    BY <1>8, <1>9, <1>10, <2>4, <2>5, <2>6 DEF IInv
<1>12. CASE IsStray(p) /\ ~HonestBaseline
  <2>1. /\ last_sequence' \in {last_sequence, p.seq} /\ last_sequence' # None
        /\ last_sequence_rx_time' \in {last_sequence_rx_time, now}
        /\ last_sequence = None => last_sequence_rx_time' = now
        /\ pending_sequence_candidate' \in {None, pending_sequence_candidate, p.seq}
        /\ TrackerTypeOK'
    BY <1>1, <1>12, StrayOverStray
  <2>2. p.seq \in WildSequences
    BY <1>12 DEF IsStray
  <2>3. last_sequence = None \/ last_sequence \in WildSequences
    BY <1>12 DEF HonestBaseline
  <2>4. /\ genuine = 0 /\ genuine' = 0
        /\ first' \in WildSequences /\ first' \in Nat
        /\ last_sequence' \in WildSequences
        /\ last_sent_at' \in Nat \cup {None}
    BY <1>2, <1>4, <1>12, <2>1, <2>2, <2>3 DEF IInv, TypeOK, StartInv, StrayBaselineInv
  <2>5. now' # None /\ last_sequence_rx_time' # None /\ last_sequence_rx_time' <= now'
    BY <1>1, <1>7, <2>1, <2>3 DEF IInv, StrayBaselineInv, None
  <2>6. TypeOK'
    BY <1>1, <1>5, <1>7, <2>1, <2>4 DEF TypeOK
  <2>7. BaselineInv' /\ StrayBaselineInv'
    BY <2>4, <2>5 DEF BaselineInv, HonestBaseline, StrayBaselineInv
  <2>8. first' # None
    BY <2>4 DEF None
  <2>9. /\ StartInv' /\ HonestBeaconNeverSuspected' /\ MissedIsExact'
        /\ (last_sequence # None => first # None)'
    BY <2>1, <2>2, <2>4, <2>8 DEF IInv, StartInv, HonestBeaconNeverSuspected, MissedIsExact
  <2>10. QED
    BY <1>8, <1>9, <1>10, <2>6, <2>7, <2>9 DEF IInv
<1>13. CASE ~IsStray(p) /\ last_sequence \in WildSequences
  <2>1. SequenceReset(p.seq, now) \/ Backward(p.seq)
    BY <1>1, <1>13, GenuineOverStray
  <2>2. /\ last_sequence # None /\ first # None
        /\ genuine = 0 /\ first \in WildSequences /\ first \in Nat
        /\ received_packets \in Nat /\ p.seq \notin WildSequences
    BY <1>13, <2>1
    DEF SequenceReset, Backward, Judged, IInv, StrayBaselineInv, TypeOK, TrackerTypeOK, IsStray
  <2>3. CASE SequenceReset(p.seq, now)
    <3>1. /\ last_sequence' = p.seq /\ last_sequence_rx_time' = now
          /\ last_accepted_sequence' = p.seq /\ received_packets' = received_packets + 1
          /\ pending_sequence_candidate' = None /\ missed_packets' = missed_packets
      BY <2>3 DEF SequenceReset, AcceptTrusted
    <3>2. last_sequence' # last_sequence
      BY <1>13, <2>2, <3>1
    <3>3. first' = first /\ genuine' = 1 /\ last_sent_at' = p.sent_at
      BY <1>2, <1>13, <2>2, <3>1, <3>2
    <3>4. TypeOK'
      BY <1>1, <1>4, <1>5, <1>7, <3>1, <3>3 DEF IInv, TypeOK, TrackerTypeOK
    <3>5. BaselineInv'
      BY <1>1, <1>13, <3>1, <3>3, NewBaseline
    <3>6. /\ StrayBaselineInv' /\ StartInv' /\ HonestBeaconNeverSuspected' /\ MissedIsExact'
          /\ (last_sequence # None => first # None)'
      BY <1>4, <2>2, <3>1, <3>3
      DEF StrayBaselineInv, StartInv, HonestBeaconNeverSuspected, MissedIsExact
    <3>7. QED
      BY <1>8, <1>9, <1>10, <3>4, <3>5, <3>6 DEF IInv
  <2>4. CASE Backward(p.seq)
    <3>1. /\ pending_sequence_candidate' = None
          /\ UNCHANGED <<last_sequence, last_sequence_rx_time, last_accepted_sequence,
                         received_packets, missed_packets>>
      BY <2>4 DEF Backward, Ignore
    <3>2. first' = first /\ genuine' = genuine /\ last_sent_at' = last_sent_at
      BY <1>2, <1>13, <2>2, <3>1
    <3>3. TypeOK'
      BY <1>1, <1>5, <1>7, <3>1, <3>2 DEF IInv, TypeOK, TrackerTypeOK
    <3>4. /\ BaselineInv' /\ StrayBaselineInv' /\ StartInv' /\ HonestBeaconNeverSuspected'
          /\ MissedIsExact' /\ (last_sequence # None => first # None)'
      BY <1>1, <1>13, <2>2, <3>1, <3>2
      DEF IInv, BaselineInv, HonestBaseline, StrayBaselineInv, StartInv,
          HonestBeaconNeverSuspected, MissedIsExact
    <3>5. QED
      BY <1>8, <1>9, <1>10, <3>3, <3>4 DEF IInv
  <2>5. QED
    BY <2>1, <2>3, <2>4
<1>14. CASE ~IsStray(p) /\ last_sequence \notin WildSequences
  <2>1. FirstPacket(p.seq, now) \/ DuplicateSequence(p.seq) \/ ForwardStep(p.seq, now)
    BY <1>1, <1>14, GenuineBranches
  <2>2. CASE FirstPacket(p.seq, now)
    <3>1. /\ last_sequence = None /\ last_sequence' = p.seq /\ last_sequence_rx_time' = now
          /\ last_accepted_sequence' = p.seq /\ received_packets' = received_packets + 1
          /\ UNCHANGED <<pending_sequence_candidate, missed_packets>>
      BY <2>2 DEF FirstPacket, AcceptTrusted
    <3>2. genuine = 0 /\ missed_packets = 0 /\ pending_sequence_candidate = None
          /\ received_packets \in Nat
      BY <3>1 DEF IInv, StartInv, TypeOK, TrackerTypeOK
    <3>3. first' = p.seq /\ genuine' = 1 /\ last_sent_at' = p.sent_at
      BY <1>2, <1>4, <1>14, <3>1, <3>2
    <3>4. TypeOK'
      BY <1>1, <1>4, <1>5, <1>7, <3>1, <3>3 DEF IInv, TypeOK, TrackerTypeOK
    <3>5. BaselineInv'
      BY <1>1, <1>14, <3>1, <3>3, NewBaseline
    <3>6. MissedIsExact'
      BY <1>4, <3>1, <3>2, <3>3 DEF MissedIsExact
    <3>7. /\ StrayBaselineInv' /\ StartInv' /\ HonestBeaconNeverSuspected'
          /\ (last_sequence # None => first # None)'
      BY <1>4, <1>14, <3>1, <3>2, <3>3
      DEF StrayBaselineInv, IsStray, StartInv, HonestBeaconNeverSuspected
    <3>8. QED
      BY <1>8, <1>9, <1>10, <3>4, <3>5, <3>6, <3>7 DEF IInv
  <2>3. CASE DuplicateSequence(p.seq)
    <3>1. /\ last_sequence # None /\ pending_sequence_candidate' = None
          /\ UNCHANGED <<last_sequence, last_sequence_rx_time, last_accepted_sequence,
                         received_packets, missed_packets>>
      BY <2>3 DEF DuplicateSequence, Judged, Ignore
    <3>2. genuine \in Nat /\ received_packets \in Nat
      BY DEF IInv, TypeOK, TrackerTypeOK
    <3>3. first' = first /\ genuine' = genuine /\ last_sent_at' = last_sent_at
      BY <1>2, <1>14, <3>1, <3>2
    <3>4. TypeOK'
      BY <1>1, <1>5, <1>7, <3>1, <3>3 DEF IInv, TypeOK, TrackerTypeOK
    <3>5. BaselineInv'
      <4>1. \A i \in DOMAIN air' : ~IsStray(air'[i]) =>
              /\ last_sequence <= air'[i].seq
              /\ 1000 * (air'[i].seq - last_sequence) <= air'[i].sent_at - last_sent_at
        BY <1>6, <1>14, <3>1 DEF IInv, BaselineInv, HonestBaseline
      <4>2. QED
        BY <1>1, <1>14, <3>1, <3>3, <4>1 DEF IInv, BaselineInv, HonestBaseline
    <3>6. /\ StrayBaselineInv' /\ StartInv' /\ HonestBeaconNeverSuspected' /\ MissedIsExact'
          /\ (last_sequence # None => first # None)'
      BY <1>14, <3>1, <3>3
      DEF IInv, StrayBaselineInv, StartInv, HonestBeaconNeverSuspected, MissedIsExact
    <3>7. QED
      BY <1>8, <1>9, <1>10, <3>4, <3>5, <3>6 DEF IInv
  <2>4. CASE ForwardStep(p.seq, now)
    <3>1. /\ last_sequence # None /\ p.seq > last_sequence
          /\ last_sequence' = p.seq /\ last_sequence_rx_time' = now
          /\ last_accepted_sequence' = p.seq /\ received_packets' = received_packets + 1
          /\ missed_packets' = missed_packets + (p.seq - last_sequence - 1)
          /\ pending_sequence_candidate' = None
      BY <2>4 DEF ForwardStep, Judged, AcceptTrusted
    <3>2. /\ last_sequence \in Nat /\ first \in Nat /\ first # None /\ genuine \in Nat
          /\ missed_packets \in Nat /\ received_packets \in Nat
      BY <3>1 DEF IInv, TypeOK, TrackerTypeOK
    <3>3. last_sequence' # last_sequence
      BY <1>4, <3>1, <3>2
    <3>4. first' = first /\ genuine' = genuine + 1 /\ last_sent_at' = p.sent_at
      BY <1>2, <1>14, <3>1, <3>2, <3>3
    <3>5. p.seq - last_sequence - 1 \in Nat
      BY <1>4, <3>1, <3>2
    <3>6. missed_packets' \in Nat /\ genuine' \in Nat /\ received_packets' \in Nat
      BY <3>1, <3>2, <3>4, <3>5
    <3>7. TypeOK'
      BY <1>1, <1>4, <1>5, <1>7, <3>1, <3>2, <3>4, <3>6 DEF IInv, TypeOK, TrackerTypeOK
    <3>8. BaselineInv'
      BY <1>1, <1>14, <3>1, <3>4, NewBaseline
    <3>9. MissedIsExact'
      <4> SUFFICES ASSUME first \notin WildSequences
                   PROVE  missed_packets' + genuine' = last_sequence' - first' + 1
        BY <3>4 DEF MissedIsExact
      <4>1. missed_packets + genuine = last_sequence - first + 1
        BY <3>1 DEF IInv, MissedIsExact
      <4>2. (missed_packets + (p.seq - last_sequence - 1)) + (genuine + 1) = p.seq - first + 1
        BY <1>4, <3>2, <4>1
      <4>3. QED
        BY <3>1, <3>4, <4>2
    <3>10. /\ StrayBaselineInv' /\ StartInv' /\ HonestBeaconNeverSuspected'
           /\ (last_sequence # None => first # None)'
      BY <1>4, <1>14, <3>1, <3>2, <3>4
      DEF StrayBaselineInv, IsStray, StartInv, HonestBeaconNeverSuspected
    <3>11. QED
      BY <1>8, <1>9, <1>10, <3>7, <3>8, <3>9, <3>10 DEF IInv
  <2>5. QED
    BY <2>1, <2>2, <2>3, <2>4
<1>15. QED
  BY <1>11, <1>12, <1>14, <1>13

(* A step that changes nothing. *)
LEMMA StutterStep ==
  ASSUME IInv, UNCHANGED vars
  PROVE  IInv'
  BY DEF vars, tracker, environment, history, IInv, TypeOK, TrackerTypeOK, ClockInv, AirInv,
         OrderInv, BaselineInv, HonestBaseline, StrayBaselineInv, StartInv, HonestBeaconNeverSuspected, MissedIsExact

-----------------------------------------------------------------------------
(* The inductive invariant holds in every reachable state. *)
THEOREM Invariance == Spec => []IInv
<1>1. Init => IInv
  BY InitHolds
<1>2. IInv /\ [Next]_vars => IInv'
  BY TickStep, SendStep, StrayStep, HearStep, StutterStep DEF Next
<1>3. QED
  BY <1>1, <1>2, PTL DEF Spec

(* Every variable of the receiver's bookkeeping and of the path keeps its type:
   no counter goes below zero (main.rs 956-1182). *)
THEOREM TypeCorrect == Spec => []TypeOK
<1>1. IInv => TypeOK
  BY DEF IInv
<1>2. QED
  BY <1>1, Invariance, PTL

(* No packet of a beacon that keeps its pace is ever put on probation, for every
   tolerance and every delay it covers (main.rs 1055-1093). *)
THEOREM HonestBeaconNeverSuspectedHolds == Spec => []HonestBeaconNeverSuspected
<1>1. IInv => HonestBeaconNeverSuspected
  BY DEF IInv
<1>2. QED
  BY <1>1, Invariance, PTL

(* The displayed loss is exact from a genuine first packet on, whatever is lost,
   repeated or delayed and whatever strays come between (main.rs 987-1105). *)
THEOREM MissedIsExactHolds == Spec => []MissedIsExact
<1>1. IInv => MissedIsExact
  BY DEF IInv
<1>2. QED
  BY <1>1, Invariance, PTL

(* A stray is the baseline only if it was heard before everything else
   (main.rs 956-962, 1152-1162), and no longer than until the first packet of
   the beacon is accepted; from then on it is a number the beacon has sent
   (main.rs 54-58). *)
THEOREM BaselineWasSentHolds == Spec => []BaselineWasSent
<1>1. IInv => BaselineWasSent
  BY DEF IInv, BaselineInv, HonestBaseline, StrayBaselineInv, BaselineWasSent
<1>2. QED
  BY <1>1, Invariance, PTL
=============================================================================
