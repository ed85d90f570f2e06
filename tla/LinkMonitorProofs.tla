------------------------- MODULE LinkMonitorProofs --------------------------
(***************************************************************************)
(* Proofs about LinkMonitor for every timeout, watchdog, sample interval   *)
(* and stall, every depth of the channel and any traffic.  The inductive   *)
(* invariant says what the loop knows of the time: how long the present    *)
(* wait may last, that deadlines stay on their grid, and how old the link  *)
(* can be unnoticed at either place of the loop.                           *)
(***************************************************************************)
EXTENDS LinkMonitor, SequenceTheorems, TLAPS

(* The wait ends by the deadline of the next record. *)
WaitInv == pc = "wait" => now <= wait_until /\ wait_until <= next_local_sample

(* Deadlines are on the grid; the newest record was made before the next one,
   and no more than a period and its own stall before it. *)
GridInv ==
  /\ pc = "top" => now <= next_local_sample + MaxStall
  /\ pc = "sample" => now <= next_local_sample + 2 * MaxStall
  /\ next_local_sample % LOCAL_SAMPLE_INTERVAL = 0
  /\ last_record # NoRecord =>
       /\ last_record.at < next_local_sample
       /\ next_local_sample <= last_record.at + MaxStall + LOCAL_SAMPLE_INTERVAL

(* Since this instant the loop may be late with a loss. *)
QuietFrom == MaxOf(quiet_since, last_valid_rx_time + LINK_LOSS_TIMEOUT)

(* The GPS block and the record that may come before the wait, and the wait. *)
NoticedAfter(from) ==
  /\ pc = "top" => now <= from
  /\ pc = "sample" => now <= from + MaxStall
  /\ pc = "wait" => wait_until <= from + ToNextTimeOut

(* A loss that is not on the screen is noticed when the present wait ends, and
   that is soon. *)
NoticeInv ==
  last_valid_rx_time # None /\ ~link_lost_displayed => NoticedAfter(QuietFrom)

(* What the frames handled since the last accepted one have cost. *)
Postponed(n) == n * (ToNextTimeOut + MaxStall)

NoiseInv ==
  last_valid_rx_time # None /\ ~link_lost_displayed =>
    NoticedAfter(LossDue + Postponed(others))

(* A loss is only shown of a link there was, and a record that claims the link
   was made before its timeout. *)
RecordInv ==
  /\ last_valid_rx_time # None => last_valid_rx_time <= now
  /\ link_lost_displayed => last_valid_rx_time # None
  /\ last_record # NoRecord /\ last_record.link_up =>
       /\ last_valid_rx_time # None
       /\ last_record.at < last_valid_rx_time + LINK_LOSS_TIMEOUT

EventInv == link_lost_displayed <=> last_event = "LINK_LOST"

IInv ==
  /\ TypeOK
  /\ WaitInv
  /\ GridInv
  /\ NoticeInv
  /\ NoiseInv
  /\ RecordInv
  /\ EventInv

-----------------------------------------------------------------------------
(* A packet leaves the tracker's variables in their types; none is uncounted. *)
LEMMA TrackerTypes ==
  ASSUME TrackerTypeOK, NEW seq \in Nat, NEW t \in Nat, OnPacket(seq, t)
  PROVE  TrackerTypeOK' /\ received_packets' >= received_packets
<1> USE DEF TrackerTypeOK, None
<1>1. CASE FirstPacket(seq, t) \/ SuspiciousJump(seq, t) \/ SequenceReset(seq, t)
  BY <1>1 DEF FirstPacket, SuspiciousJump, SequenceReset, AcceptTrusted, AcceptUntrusted
<1>2. CASE Resync(seq, t)
  <2>1. /\ pending_sequence_candidate \in Nat /\ last_sequence \in Nat
        /\ pending_sequence_candidate > last_sequence
    BY <1>2 DEF Resync, Confirms
  <2>2. QED
    BY <1>2, <2>1 DEF Resync, AcceptTrusted
<1>3. CASE ForwardStep(seq, t)
  <2>1. last_sequence \in Nat /\ seq > last_sequence
    BY <1>3 DEF ForwardStep, Judged
  <2>2. QED
    BY <1>3, <2>1 DEF ForwardStep, AcceptTrusted
<1>4. CASE Ignored(seq)
  BY <1>4 DEF Ignored, DuplicateCandidate, DuplicateSequence, Backward, Ignore
<1>5. QED
  BY <1>1, <1>2, <1>3, <1>4 DEF OnPacket, Accepted

(* Multiples of a step c. *)
LEMMA Multiple ==
  ASSUME NEW c \in Nat \ {0}, NEW a \in Nat, a % c = 0
  PROVE  \E k \in Nat : a = k * c
  BY SMTT(30)

LEMMA IsMultiple ==
  ASSUME NEW c \in Nat \ {0}, NEW k \in Nat
  PROVE  (k * c) % c = 0
  BY SMTT(30)

(* The first multiple of c after t, counted from a multiple a not after it. *)
LEMMA NextMultiple ==
  ASSUME NEW c \in Nat \ {0}, NEW a \in Nat, NEW t \in Nat, a % c = 0, a <= t
  PROVE  /\ (t - a) \div c \in Nat
         /\ a + c * ((t - a) \div c + 1) > t
         /\ (a + c * ((t - a) \div c + 1)) % c = 0
         /\ a + c * ((t - a) \div c + 1) <= t + c
<1> DEFINE q == (t - a) \div c
<1>1. t - a \in Nat
  OBVIOUS
<1>2. q \in Nat /\ t - a < (q + 1) * c /\ q * c <= t - a
  BY <1>1, SMTT(30)
<1> HIDE DEF q
<1>3. PICK k \in Nat : a = k * c
  BY Multiple
<1>4. a + c * (q + 1) = (k + q + 1) * c /\ k + q + 1 \in Nat
  BY <1>2, <1>3
<1>5. ((k + q + 1) * c) % c = 0
  BY <1>4, IsMultiple
<1>6. (q + 1) * c = c * (q + 1) /\ c * (q + 1) \in Nat
  BY <1>2
<1>7. a + c * (q + 1) > t
  BY <1>2, <1>6
<1>8. (q + 1) * c = q * c + c /\ q * c \in Nat
  BY <1>2
<1>9. a + c * (q + 1) <= t + c
  BY <1>2, <1>6, <1>8
<1>10. QED
  BY <1>2, <1>4, <1>5, <1>7, <1>9 DEF q

(* A multiple of c between two instants puts them in different periods. *)
LEMMA PeriodsApart ==
  ASSUME NEW c \in Nat \ {0}, NEW a \in Nat, NEW x \in Nat, NEW y \in Nat,
         a % c = 0, x < a, a <= y
  PROVE  x \div c < y \div c
<1>1. PICK k \in Nat : a = k * c
  BY Multiple
<1>2. /\ x \div c \in Nat /\ (x \div c) * c <= x
      /\ y \div c \in Nat /\ y < (y \div c + 1) * c
  BY SMTT(30)
<1>3. x \div c < k
  <2>1. SUFFICES ASSUME k <= x \div c PROVE FALSE
    BY <1>2
  <2>2. k * c <= (x \div c) * c
    BY <1>2, <2>1
  <2>3. QED
    BY <1>1, <1>2, <2>2
<1>4. k < y \div c + 1
  <2>1. SUFFICES ASSUME y \div c + 1 <= k PROVE FALSE
    BY <1>2
  <2>2. (y \div c + 1) * c <= k * c
    BY <1>2, <2>1
  <2>3. QED
    BY <1>1, <1>2, <2>2
<1>5. QED
  BY <1>2, <1>3, <1>4

(* Numbers, each by itself. *)
LEMMA NumberTypes ==
  ASSUME TypeOK
  PROVE  /\ now \in Nat /\ wait_until \in Nat /\ next_local_sample \in Nat
         /\ quiet_since \in Nat /\ others \in Nat /\ last_valid_rx_time \in Nat \cup {None}
         /\ LINK_LOSS_TIMEOUT \in Nat \ {0} /\ LINK_WATCHDOG_INTERVAL \in Nat \ {0}
         /\ LOCAL_SAMPLE_INTERVAL \in Nat \ {0} /\ MaxStall \in Nat
         /\ Stalls \subseteq 0 .. MaxStall
  BY MonitorAssumption DEF TypeOK

(* One frame more costs one iteration more. *)
LEMMA OneMore ==
  ASSUME NEW n \in Nat
  PROVE  /\ Postponed(n) \in Nat /\ Postponed(0) = 0
         /\ Postponed(n + 1) = Postponed(n) + ToNextTimeOut + MaxStall
         /\ ToNextTimeOut \in Nat /\ ToNextTimeOut = 2 * MaxStall + LINK_WATCHDOG_INTERVAL
<1>1. MaxStall \in Nat /\ LINK_WATCHDOG_INTERVAL \in Nat
  BY MonitorAssumption
<1>2. ToNextTimeOut \in Nat /\ ToNextTimeOut = 2 * MaxStall + LINK_WATCHDOG_INTERVAL
  BY <1>1 DEF ToNextTimeOut
<1> DEFINE c == ToNextTimeOut + MaxStall
<1>3. c \in Nat
  BY <1>1, <1>2
<1> HIDE DEF c
<1>4. n * c \in Nat /\ 0 * c = 0 /\ (n + 1) * c = n * c + c
  BY <1>3
<1>5. QED
  BY <1>1, <1>2, <1>4 DEF Postponed, c

(* The two instants from which a loss may be late, as numbers. *)
LEMMA Instants ==
  ASSUME TypeOK, last_valid_rx_time # None
  PROVE  /\ QuietFrom \in Nat /\ LossDue \in Nat /\ LossDue + Postponed(others) \in Nat
         /\ last_valid_rx_time + LINK_LOSS_TIMEOUT <= QuietFrom
         /\ last_valid_rx_time + LINK_LOSS_TIMEOUT <= LossDue + Postponed(others)
<1>1. /\ last_valid_rx_time \in Nat /\ quiet_since \in Nat /\ MaxStall \in Nat
      /\ LINK_LOSS_TIMEOUT \in Nat /\ others \in Nat
  BY NumberTypes
<1>2. Postponed(others) \in Nat
  BY <1>1, OneMore
<1>3. QED
  BY <1>1, <1>2 DEF QuietFrom, LossDue, MaxOf

(* The deadline after t is later than t, on the grid. *)
LEMMA Deadline ==
  ASSUME TypeOK, GridInv, NEW t \in Nat, next_local_sample <= t
  PROVE  /\ NextDeadline(t) \in Nat /\ NextDeadline(t) > t
         /\ NextDeadline(t) <= t + LOCAL_SAMPLE_INTERVAL
         /\ NextDeadline(t) % LOCAL_SAMPLE_INTERVAL = 0
<1>1. next_local_sample \in Nat /\ LOCAL_SAMPLE_INTERVAL \in Nat \ {0}
  BY NumberTypes
<1> DEFINE q == (t - next_local_sample) \div LOCAL_SAMPLE_INTERVAL
           d == next_local_sample + LOCAL_SAMPLE_INTERVAL * (q + 1)
<1>2. q \in Nat /\ d > t /\ d % LOCAL_SAMPLE_INTERVAL = 0 /\ d <= t + LOCAL_SAMPLE_INTERVAL
  BY <1>1, NextMultiple DEF GridInv
<1>3. MaxOf(1, q + 1) = q + 1
  BY <1>2 DEF MaxOf
<1>4. NextDeadline(t) = d
  BY <1>3 DEF NextDeadline
<1>5. d \in Nat
  BY <1>1, <1>2
<1> HIDE DEF d
<1>6. QED
  BY <1>2, <1>4, <1>5

(* The wait that starts at t with the deadline after it. *)
LEMMA WaitLength ==
  ASSUME TypeOK, NEW t \in Nat, NEW deadline \in Nat, t < deadline
  PROVE  /\ WaitFrom(t, deadline) \in Nat
         /\ t <= WaitFrom(t, deadline) /\ WaitFrom(t, deadline) <= deadline
         /\ WaitFrom(t, deadline) <= t + LINK_WATCHDOG_INTERVAL
<1>1. LINK_WATCHDOG_INTERVAL \in Nat \ {0}
  BY NumberTypes
<1>2. MaxOf(deadline - t, 1) = deadline - t
  BY DEF MaxOf
<1>3. QED
  BY <1>1, <1>2 DEF WaitFrom, MinOf

(* What LinkAlive says in numbers. *)
LEMMA Alive ==
  ASSUME TypeOK
  PROVE  /\ LinkAlive => now < last_valid_rx_time + LINK_LOSS_TIMEOUT
         /\ last_valid_rx_time # None /\ ~LinkAlive =>
              now >= last_valid_rx_time + LINK_LOSS_TIMEOUT
  BY NumberTypes DEF LinkAlive, None

(* A frame of the accepted kind has a number. *)
LEMMA FrameTypes ==
  ASSUME TypeOK, rx_channel # <<>>
  PROVE  /\ Tail(rx_channel) \in Seq(Frame)
         /\ Head(rx_channel).kind = "telemetry" => Head(rx_channel).seq \in Nat
<1>1. Head(rx_channel) \in Frame /\ Tail(rx_channel) \in Seq(Frame)
  BY HeadTailProperties DEF TypeOK
<1>2. QED
  BY <1>1, MonitorAssumption DEF Frame, RejectKinds

-----------------------------------------------------------------------------
(* At time 0 a record is due. *)
LEMMA InitHolds == Init => IInv
<1> SUFFICES ASSUME Init PROVE IInv
  OBVIOUS
<1>1. 0 % LOCAL_SAMPLE_INTERVAL = 0
  BY MonitorAssumption
<1>2. <<>> \in Seq(Frame)
  BY EmptySeq
<1>3. TypeOK
  <2> USE DEF Init
  <2>1. TrackerTypeOK
    BY DEF TrackerInit, TrackerTypeOK
  <2>2. /\ {now, wait_until, next_local_sample, crc_failures, invalid_native_packets,
             foreign_context_packets, frames, quiet_since, others} \subseteq Nat
        /\ pc \in {"top", "sample", "wait"}
    OBVIOUS
  <2>3. /\ last_valid_rx_time \in Nat \cup {None}
        /\ last_record \in [at : Nat, link_up : BOOLEAN] \cup {NoRecord}
        /\ link_lost_displayed \in BOOLEAN
        /\ last_event \in {"none", "LINK_LOST", "LINK_REACQUIRED"}
    OBVIOUS
  <2>4. QED
    BY <1>2, <2>1, <2>2, <2>3 DEF TypeOK
<1>4. GridInv
  BY <1>1, MonitorAssumption DEF Init, GridInv
<1>5. WaitInv /\ NoticeInv /\ NoiseInv /\ RecordInv /\ EventInv
  BY DEF Init, WaitInv, NoticeInv, NoiseInv, RecordInv, EventInv
<1>6. QED
  BY <1>3, <1>4, <1>5 DEF IInv

(* A frame is delivered, or time passes in the wait. *)
LEMMA WaitStep ==
  ASSUME IInv, Deliver \/ Tick
  PROVE  IInv'
<1> USE DEF IInv
<1>1. CASE Deliver
  <2>1. rx_channel' \in Seq(Frame) /\ frames' = frames + 1
    BY <1>1, AppendProperties DEF Deliver, TypeOK
  <2>2. UNCHANGED <<tracker, clock, link, rejected, sampling, quiet_since, others>>
    BY <1>1 DEF Deliver
  <2>3. QED
    BY <2>1, <2>2
    DEF TypeOK, TrackerTypeOK, tracker, clock, link, rejected, sampling, WaitInv, GridInv,
        NoticeInv, NoiseInv, NoticedAfter, LossDue, QuietFrom, RecordInv, EventInv
<1>2. CASE Tick
  <2>1. /\ pc = "wait" /\ now < wait_until /\ now' = now + 1
        /\ UNCHANGED <<pc, wait_until, tracker, link, rejected, sampling, radio>>
    BY <1>2 DEF Tick
  <2>2. /\ now \in Nat /\ wait_until \in Nat /\ next_local_sample \in Nat /\ MaxStall \in Nat
        /\ last_valid_rx_time \in Nat \cup {None}
    BY NumberTypes
  <2>3. TypeOK'
    BY <2>1, <2>2 DEF TypeOK, TrackerTypeOK, tracker, link, rejected, sampling, radio
  <2>4. WaitInv' /\ GridInv'
    BY <2>1, <2>2 DEF WaitInv, GridInv, sampling
  <2>5. NoticeInv' /\ NoiseInv'
    BY <2>1 DEF NoticeInv, NoiseInv, NoticedAfter, LossDue, QuietFrom, link, radio
  <2>6. RecordInv' /\ EventInv'
    BY <2>1, <2>2 DEF RecordInv, EventInv, link, sampling, None
  <2>7. QED
    BY <2>3, <2>4, <2>5, <2>6
<1>3. QED
  BY <1>1, <1>2

(* The GPS block takes up to a stall. *)
LEMMA GpsBlockStep ==
  ASSUME IInv, GpsBlock
  PROVE  IInv'
<1> USE DEF IInv
<1>1. PICK stall \in Stalls \cup {0} : now' = now + stall
  BY DEF GpsBlock
<1>2. /\ pc = "top" /\ pc' = "sample"
      /\ UNCHANGED <<wait_until, tracker, link, rejected, sampling, radio>>
  BY DEF GpsBlock
<1>3. /\ now \in Nat /\ next_local_sample \in Nat /\ MaxStall \in Nat
      /\ 0 <= stall /\ stall <= MaxStall /\ stall \in Nat
      /\ last_valid_rx_time \in Nat \cup {None}
  BY NumberTypes
<1>4. TypeOK'
  BY <1>1, <1>2, <1>3 DEF TypeOK, TrackerTypeOK, tracker, link, rejected, sampling, radio
<1>5. WaitInv' /\ GridInv'
  BY <1>1, <1>2, <1>3 DEF WaitInv, GridInv, sampling
<1>6. NoticeInv' /\ NoiseInv'
  <2> SUFFICES ASSUME last_valid_rx_time # None, ~link_lost_displayed
               PROVE  now' <= QuietFrom + MaxStall /\ now' <= LossDue + Postponed(others) + MaxStall
    BY <1>2 DEF NoticeInv, NoiseInv, NoticedAfter, LossDue, QuietFrom, link, radio
  <2>1. now <= QuietFrom /\ now <= LossDue + Postponed(others)
    BY <1>2 DEF NoticeInv, NoiseInv, NoticedAfter
  <2>2. QuietFrom \in Nat /\ LossDue + Postponed(others) \in Nat
    BY Instants
  <2>3. QED
    BY <1>1, <1>3, <2>1, <2>2
<1>7. RecordInv' /\ EventInv'
  BY <1>1, <1>2, <1>3 DEF RecordInv, EventInv, link, sampling, None
<1>8. QED
  BY <1>4, <1>5, <1>6, <1>7

(* A wait of at most the watchdog's length that begins at t, at most a stall
   after the GPS block. *)
LEMMA WaitIsShort ==
  ASSUME IInv, pc = "sample", pc' = "wait", NEW t \in Nat, t <= now + MaxStall,
         NEW w \in Nat, w <= t + LINK_WATCHDOG_INTERVAL, wait_until' = w,
         UNCHANGED <<link, radio>>
  PROVE  NoticeInv' /\ NoiseInv'
<1> USE DEF IInv
<1>1. now \in Nat /\ MaxStall \in Nat /\ LINK_WATCHDOG_INTERVAL \in Nat
  BY NumberTypes
<1> SUFFICES ASSUME last_valid_rx_time # None, ~link_lost_displayed
             PROVE  /\ w <= QuietFrom + ToNextTimeOut
                    /\ w <= LossDue + Postponed(others) + ToNextTimeOut
  BY DEF NoticeInv, NoiseInv, NoticedAfter, LossDue, QuietFrom, link, radio
<1>2. now <= QuietFrom + MaxStall /\ now <= LossDue + Postponed(others) + MaxStall
  BY DEF NoticeInv, NoiseInv, NoticedAfter
<1>3. QuietFrom \in Nat /\ LossDue + Postponed(others) \in Nat
  BY Instants
<1>4. ToNextTimeOut = 2 * MaxStall + LINK_WATCHDOG_INTERVAL
  BY DEF ToNextTimeOut
<1>5. QED
  BY <1>1, <1>2, <1>3, <1>4

(* A record is made: the next deadline is on the grid and after it. *)
LEMMA SampleStep ==
  ASSUME IInv, Sample
  PROVE  IInv' /\ now < next_local_sample' /\ next_local_sample <= now
<1> USE DEF IInv
<1>1. PICK stall \in Stalls :
        /\ now' = now + stall
        /\ next_local_sample' = NextDeadline(now + stall)
        /\ wait_until' = WaitFrom(now + stall, NextDeadline(now + stall))
  BY DEF Sample
<1>2. /\ pc = "sample" /\ pc' = "wait" /\ now >= next_local_sample
      /\ last_record' = [at |-> now, link_up |-> LinkAlive]
      /\ UNCHANGED <<tracker, link, rejected, radio>>
  BY DEF Sample
<1>3. /\ now \in Nat /\ next_local_sample \in Nat /\ MaxStall \in Nat /\ stall \in 0 .. MaxStall
      /\ last_valid_rx_time \in Nat \cup {None}
      /\ LINK_LOSS_TIMEOUT \in Nat \ {0} /\ LINK_WATCHDOG_INTERVAL \in Nat \ {0}
      /\ LOCAL_SAMPLE_INTERVAL \in Nat \ {0}
  BY NumberTypes
<1> DEFINE t == now + stall
           d == NextDeadline(t)
           w == WaitFrom(t, d)
<1>4. t \in Nat /\ now <= t /\ next_local_sample <= t /\ t <= now + MaxStall
  BY <1>2, <1>3
<1>5. d \in Nat /\ d > t /\ d % LOCAL_SAMPLE_INTERVAL = 0 /\ d <= t + LOCAL_SAMPLE_INTERVAL
  BY <1>4, Deadline
<1>6. w \in Nat /\ t <= w /\ w <= d /\ w <= t + LINK_WATCHDOG_INTERVAL
  BY <1>4, <1>5, WaitLength
<1>7. now' = t /\ next_local_sample' = d /\ wait_until' = w
  BY <1>1
<1> HIDE DEF t, d, w
<1>8. LinkAlive \in BOOLEAN
  BY DEF LinkAlive
<1>9. TypeOK'
  BY <1>2, <1>3, <1>4, <1>5, <1>6, <1>7, <1>8
  DEF TypeOK, TrackerTypeOK, tracker, link, rejected, radio
<1>10. WaitInv' /\ GridInv'
  BY <1>2, <1>3, <1>4, <1>5, <1>6, <1>7 DEF WaitInv, GridInv
<1>11. NoticeInv' /\ NoiseInv'
  BY <1>2, <1>4, <1>6, <1>7, WaitIsShort
<1>12. RecordInv'
  <2>1. /\ last_valid_rx_time # None => last_valid_rx_time <= t
        /\ LinkAlive => last_valid_rx_time # None /\ now < last_valid_rx_time + LINK_LOSS_TIMEOUT
    BY <1>3, <1>4, Alive DEF RecordInv, LinkAlive, None
  <2>2. QED
    BY <1>2, <1>7, <2>1 DEF RecordInv, link
<1>13. EventInv'
  BY <1>2 DEF EventInv, link
<1>14. QED
  BY <1>2, <1>4, <1>5, <1>7, <1>9, <1>10, <1>11, <1>12, <1>13, <1>3

(* Nothing to record. *)
LEMMA NoSampleStep ==
  ASSUME IInv, NoSample
  PROVE  IInv'
<1> USE DEF IInv
<1>1. /\ pc = "sample" /\ pc' = "wait" /\ now < next_local_sample
      /\ wait_until' = WaitFrom(now, next_local_sample)
      /\ UNCHANGED <<now, tracker, link, rejected, sampling, radio>>
  BY DEF NoSample
<1>2. /\ now \in Nat /\ next_local_sample \in Nat /\ MaxStall \in Nat
      /\ last_valid_rx_time \in Nat \cup {None}
      /\ LINK_LOSS_TIMEOUT \in Nat \ {0} /\ LINK_WATCHDOG_INTERVAL \in Nat \ {0}
  BY NumberTypes
<1> DEFINE w == WaitFrom(now, next_local_sample)
<1>3. w \in Nat /\ now <= w /\ w <= next_local_sample /\ w <= now + LINK_WATCHDOG_INTERVAL
  BY <1>1, <1>2, WaitLength
<1>4. wait_until' = w
  BY <1>1
<1> HIDE DEF w
<1>5. TypeOK'
  BY <1>1, <1>3, <1>4 DEF TypeOK, TrackerTypeOK, tracker, link, rejected, sampling, radio
<1>6. WaitInv' /\ GridInv' /\ RecordInv' /\ EventInv'
  BY <1>1, <1>3, <1>4 DEF WaitInv, GridInv, RecordInv, EventInv, link, sampling
<1>7. NoticeInv' /\ NoiseInv'
  <2>1. now <= now + MaxStall
    BY <1>2
  <2>2. QED
    BY <1>1, <1>2, <1>3, <1>4, <2>1, WaitIsShort
<1>8. QED
  BY <1>5, <1>6, <1>7

-----------------------------------------------------------------------------
(* A stall before the top of the loop: no later than a stall after the deadline. *)
LEMMA StallStep ==
  ASSUME IInv, pc = "wait", BackToTop, UNCHANGED sampling
  PROVE  \E t \in Nat : /\ now' = t /\ now <= t /\ t <= next_local_sample + MaxStall
                        /\ t <= now + MaxStall
<1>1. PICK stall \in Stalls : now' = now + stall
  BY DEF BackToTop
<1>2. /\ now \in Nat /\ next_local_sample \in Nat /\ wait_until \in Nat
      /\ MaxStall \in Nat /\ stall \in 0 .. MaxStall
  BY NumberTypes DEF IInv
<1>3. now <= next_local_sample
  BY <1>2 DEF IInv, WaitInv
<1>4. QED
  BY <1>1, <1>2, <1>3

(* A frame is handled: from now on the link is quiet. *)
LEMMA FrameStep ==
  ASSUME IInv, RejectFrame \/ IgnoreTelemetry \/ AcceptTelemetry
  PROVE  IInv'
<1> USE DEF IInv
<1>1. /\ pc = "wait" /\ pc' = "top" /\ rx_channel # <<>> /\ rx_channel' = Tail(rx_channel)
      /\ BackToTop /\ quiet_since' = now'
      /\ UNCHANGED <<frames, sampling, wait_until>>
      /\ \/ UNCHANGED last_valid_rx_time /\ UNCHANGED link_lost_displayed /\ others' = others + 1
         \/ last_valid_rx_time' = now /\ others' = 0
  BY DEF link, RejectFrame, IgnoreTelemetry, AcceptTelemetry, TakeFrame, BackToTop
<1>2. PICK t \in Nat : /\ now' = t /\ now <= t /\ t <= next_local_sample + MaxStall
                      /\ t <= now + MaxStall
  BY <1>1, StallStep
<1>3. /\ now \in Nat /\ others \in Nat /\ others' \in Nat /\ wait_until \in Nat /\ next_local_sample \in Nat /\ MaxStall \in Nat
      /\ last_valid_rx_time \in Nat \cup {None} /\ LINK_LOSS_TIMEOUT \in Nat \ {0}
  BY <1>1, NumberTypes
<1>4. /\ rx_channel' \in Seq(Frame)
      /\ Head(rx_channel).kind = "telemetry" => Head(rx_channel).seq \in Nat
  BY <1>1, FrameTypes
<1>5. WaitInv' /\ GridInv'
  BY <1>1, <1>2 DEF WaitInv, GridInv, sampling
<1>6. NoticeInv'
  <2> SUFFICES ASSUME last_valid_rx_time' # None PROVE t <= QuietFrom'
    BY <1>1, <1>2 DEF NoticeInv, NoticedAfter
  <2>1. \/ UNCHANGED last_valid_rx_time
        \/ last_valid_rx_time' = now
    BY <1>1
  <2>2. PICK v \in Nat : last_valid_rx_time' = v
    BY <1>3, <2>1
  <2>3. QuietFrom' = MaxOf(t, v + LINK_LOSS_TIMEOUT)
    BY <1>1, <1>2, <2>2 DEF QuietFrom, MaxOf
  <2>4. QED
    BY <1>2, <1>3, <2>2, <2>3 DEF MaxOf
<1>7. NoiseInv'
  <2>1. CASE /\ last_valid_rx_time' = last_valid_rx_time /\ others' = others + 1
             /\ link_lost_displayed' = link_lost_displayed
    <3> SUFFICES ASSUME last_valid_rx_time # None, ~link_lost_displayed
                 PROVE  t <= LossDue + Postponed(others + 1)
      BY <1>1, <1>2, <2>1 DEF NoiseInv, NoticedAfter, LossDue
    <3>1. wait_until <= LossDue + Postponed(others) + ToNextTimeOut /\ now <= wait_until
      BY <1>1 DEF NoiseInv, NoticedAfter, WaitInv
    <3>2. /\ Postponed(others + 1) = Postponed(others) + ToNextTimeOut + MaxStall
          /\ ToNextTimeOut \in Nat /\ Postponed(others) \in Nat /\ LossDue \in Nat
      BY <1>3, OneMore, Instants
    <3>3. QED
      BY <1>2, <1>3, <3>1, <3>2
  <2>2. CASE last_valid_rx_time' = now /\ others' = 0
    <3>1. t <= now + MaxOf(LINK_LOSS_TIMEOUT, MaxStall) /\ MaxOf(LINK_LOSS_TIMEOUT, MaxStall) \in Nat
      BY <1>2, <1>3 DEF MaxOf
    <3>2. t <= now + MaxOf(LINK_LOSS_TIMEOUT, MaxStall) + Postponed(0)
      BY <1>3, <3>1, OneMore
    <3>3. QED
      BY <1>1, <1>2, <2>2, <3>2 DEF NoiseInv, NoticedAfter, LossDue
  <2>3. QED
    BY <1>1, <2>1, <2>2
<1>8. CASE RejectFrame
  <2> DEFINE kind == Head(rx_channel).kind
  <2> HIDE DEF kind
  <2>1. /\ UNCHANGED <<tracker, link>>
        /\ {crc_failures', invalid_native_packets', foreign_context_packets'} \subseteq Nat
    <3>1. /\ crc_failures' = crc_failures + (IF kind = "crc" THEN 1 ELSE 0)
          /\ invalid_native_packets' = invalid_native_packets + (IF kind = "malformed" THEN 1 ELSE 0)
          /\ foreign_context_packets' = foreign_context_packets + (IF kind = "foreign" THEN 1 ELSE 0)
          /\ UNCHANGED <<tracker, link>>
      BY <1>8 DEF RejectFrame, kind
    <3>2. crc_failures \in Nat /\ invalid_native_packets \in Nat /\ foreign_context_packets \in Nat
      BY DEF TypeOK
    <3>3. crc_failures' \in Nat /\ invalid_native_packets' \in Nat /\ foreign_context_packets' \in Nat
      BY <3>1, <3>2
    <3>4. QED
      BY <3>1, <3>3
  <2>2. TypeOK'
    BY <1>1, <1>2, <1>3, <1>4, <2>1 DEF TypeOK, TrackerTypeOK, tracker, link, sampling
  <2>3. RecordInv' /\ EventInv'
    BY <1>1, <1>2, <1>3, <2>1 DEF RecordInv, EventInv, link, sampling, None
  <2>4. QED
    BY <1>5, <1>6, <1>7, <2>2, <2>3
<1>9. CASE IgnoreTelemetry
  <2>1. UNCHANGED <<rejected, link>>
    BY <1>9 DEF IgnoreTelemetry
  <2>2. TrackerTypeOK'
    BY <1>3, <1>4, <1>9, TrackerTypes DEF IgnoreTelemetry, OnPacket, TypeOK
  <2>3. TypeOK'
    BY <1>1, <1>2, <1>3, <1>4, <2>1, <2>2 DEF TypeOK, rejected, link, sampling
  <2>4. RecordInv' /\ EventInv'
    BY <1>1, <1>2, <1>3, <2>1 DEF RecordInv, EventInv, link, sampling, None
  <2>5. QED
    BY <1>5, <1>6, <1>7, <2>3, <2>4
<1>10. CASE AcceptTelemetry
  <2>1. /\ last_valid_rx_time' = now /\ link_lost_displayed' = FALSE
        /\ last_event' = IF link_lost_displayed THEN "LINK_REACQUIRED" ELSE last_event
        /\ UNCHANGED rejected
    BY <1>10 DEF AcceptTelemetry
  <2>2. TrackerTypeOK'
    BY <1>3, <1>4, <1>10, TrackerTypes DEF AcceptTelemetry, OnPacket, TypeOK
  <2>3. TypeOK'
    BY <1>1, <1>2, <1>3, <1>4, <2>1, <2>2 DEF TypeOK, rejected, sampling
  <2>4. EventInv'
    BY <2>1 DEF EventInv
  <2>5. RecordInv'
    <3>1. last_record # NoRecord /\ last_record.link_up =>
            last_record.at < now + LINK_LOSS_TIMEOUT
      BY <1>3 DEF RecordInv, TypeOK, None
    <3>2. QED
      BY <1>1, <1>2, <1>3, <2>1, <3>1 DEF RecordInv, sampling, None
  <2>6. QED
    BY <1>5, <1>6, <1>7, <2>3, <2>4, <2>5
<1>11. QED
  BY <1>8, <1>9, <1>10

(* The wait is over, and a loss is declared or there is none to declare. *)
LEMMA TimeUpStep ==
  ASSUME IInv, DeclareLost \/ NothingToDeclare
  PROVE  IInv'
<1> USE DEF IInv
<1>1. /\ now \in Nat /\ next_local_sample \in Nat /\ MaxStall \in Nat /\ quiet_since \in Nat
      /\ wait_until \in Nat
      /\ last_valid_rx_time \in Nat \cup {None} /\ LINK_LOSS_TIMEOUT \in Nat \ {0}
  BY NumberTypes
<1>2. CASE DeclareLost
  <2>1. /\ pc = "wait" /\ pc' = "top" /\ BackToTop
        /\ link_lost_displayed' = TRUE /\ last_event' = "LINK_LOST" /\ last_valid_rx_time # None
        /\ UNCHANGED <<wait_until, tracker, last_valid_rx_time, rejected, sampling, radio>>
    BY <1>2 DEF DeclareLost, TimeUp, BackToTop
  <2>2. PICK t \in Nat : now' = t /\ now <= t /\ t <= next_local_sample + MaxStall
    BY <2>1, StallStep
  <2>3. TypeOK'
    BY <2>1, <2>2 DEF TypeOK, TrackerTypeOK, tracker, rejected, sampling, radio
  <2>4. WaitInv' /\ GridInv' /\ NoticeInv' /\ NoiseInv' /\ EventInv'
    BY <2>1, <2>2 DEF WaitInv, GridInv, NoticeInv, NoiseInv, EventInv, sampling
  <2>5. RecordInv'
    BY <1>1, <2>1, <2>2 DEF RecordInv, sampling, None
  <2>6. QED
    BY <2>3, <2>4, <2>5
<1>3. CASE NothingToDeclare
  <2>1. /\ pc = "wait" /\ pc' = "top"
        /\ last_valid_rx_time = None \/ LinkAlive \/ link_lost_displayed
        /\ UNCHANGED <<now, wait_until, tracker, link, rejected, sampling, radio>>
    BY <1>3 DEF NothingToDeclare, TimeUp
  <2>2. TypeOK'
    BY <2>1 DEF TypeOK, TrackerTypeOK, tracker, link, rejected, sampling, radio
  <2>3. WaitInv' /\ GridInv' /\ RecordInv' /\ EventInv'
    BY <1>1, <2>1 DEF WaitInv, GridInv, RecordInv, EventInv, link, sampling
  <2>4. NoticeInv' /\ NoiseInv'
    <3> SUFFICES ASSUME last_valid_rx_time # None, ~link_lost_displayed
                 PROVE  now <= QuietFrom /\ now <= LossDue + Postponed(others)
      BY <2>1 DEF NoticeInv, NoiseInv, NoticedAfter, LossDue, QuietFrom, link, radio
    <3>1. now < last_valid_rx_time + LINK_LOSS_TIMEOUT /\ last_valid_rx_time \in Nat
      BY <1>1, <2>1, Alive
    <3>2. /\ QuietFrom \in Nat /\ LossDue + Postponed(others) \in Nat
          /\ last_valid_rx_time + LINK_LOSS_TIMEOUT <= QuietFrom
          /\ last_valid_rx_time + LINK_LOSS_TIMEOUT <= LossDue + Postponed(others)
      BY Instants
    <3>3. QED
      BY <1>1, <3>1, <3>2
  <2>5. QED
    BY <2>2, <2>3, <2>4
<1>4. QED
  BY <1>2, <1>3

-----------------------------------------------------------------------------
(* The invariant is inductive. *)
LEMMA StepHolds == IInv /\ [Next]_vars => IInv'
<1> SUFFICES ASSUME IInv, [Next]_vars PROVE IInv'
  OBVIOUS
<1>1. CASE UNCHANGED vars
  BY <1>1
  DEF vars, tracker, clock, link, rejected, sampling, radio, IInv, TypeOK, TrackerTypeOK,
      WaitInv, GridInv, NoticeInv, NoiseInv, NoticedAfter, LossDue, QuietFrom, RecordInv, EventInv
<1>2. QED
  BY <1>1, WaitStep, GpsBlockStep, SampleStep, NoSampleStep, FrameStep, TimeUpStep DEF Next, Loop

(* Every reachable state satisfies the inductive invariant. *)
THEOREM Invariance == Spec => []IInv
  BY InitHolds, StepHolds, PTL DEF Spec

(* Types: deadlines and counts are natural numbers, the channel holds frames. *)
THEOREM TypeCorrect == Spec => []TypeOK
<1>1. IInv => TypeOK
  BY DEF IInv
<1>2. QED
  BY <1>1, Invariance, PTL

(* The log tells the same story of the link as the screen. *)
THEOREM LogMatchesScreenHolds == Spec => []LogMatchesScreen
<1>1. IInv => LogMatchesScreen
  <2> SUFFICES ASSUME IInv, last_record.at # None, last_record.link_up,
                      last_record.at >= last_valid_rx_time + LINK_LOSS_TIMEOUT
               PROVE  ~link_lost_displayed
    BY DEF LogMatchesScreen, IInv, EventInv
  <2>1. last_record # NoRecord
    BY DEF NoRecord
  <2>2. /\ last_record.at \in Nat /\ last_valid_rx_time \in Nat
        /\ last_record.at < last_valid_rx_time + LINK_LOSS_TIMEOUT
    BY <2>1, NumberTypes DEF IInv, TypeOK, RecordInv
  <2>3. QED
    BY <2>2, NumberTypes DEF IInv
<1>2. QED
  BY <1>1, Invariance, PTL

(* What the loop has not noticed it notices by the end of the next wait. *)
LEMMA NotLater ==
  ASSUME TypeOK, WaitInv, NEW from \in Nat, NoticedAfter(from)
  PROVE  now <= from + ToNextTimeOut
<1>1. now \in Nat /\ wait_until \in Nat /\ MaxStall \in Nat /\ ToNextTimeOut \in Nat
      /\ MaxStall <= ToNextTimeOut
  BY NumberTypes DEF ToNextTimeOut
<1>2. pc = "top" \/ pc = "sample" \/ pc = "wait"
  BY DEF TypeOK
<1>3. QED
  BY <1>1, <1>2 DEF NoticedAfter, WaitInv

(* Silence is noticed by the end of the next wait: a GPS block, a record and a
   watchdog interval after the timeout or the last frame (main.rs 552-765,
   1280-1329). *)
THEOREM SilenceIsNoticedHolds == Spec => []SilenceIsNoticed
<1>1. IInv => SilenceIsNoticed
  <2> SUFFICES ASSUME IInv, last_valid_rx_time # None, ~link_lost_displayed
               PROVE  now <= QuietFrom + ToNextTimeOut
    BY NumberTypes, Instants, OneMore DEF SilenceIsNoticed, QuietFrom, IInv
  <2>1. QuietFrom \in Nat
    BY Instants DEF IInv
  <2>2. QED
    BY <2>1, NotLater DEF IInv, NoticeInv
<1>2. QED
  BY <1>1, Invariance, PTL

(* Frames that are not accepted postpone a loss by no more than an iteration of
   the loop each, however many there are (main.rs 754-918, 1280-1295). *)
THEOREM NoiseDelaysBoundedHolds == Spec => []NoiseDelaysBounded
<1>1. IInv => NoiseDelaysBounded
  <2> SUFFICES ASSUME IInv, last_valid_rx_time # None, ~link_lost_displayed
               PROVE  now <= LossDue + Postponed(others) + ToNextTimeOut
    BY NumberTypes, Instants, OneMore DEF NoiseDelaysBounded, Postponed, IInv
  <2>1. LossDue + Postponed(others) \in Nat
    BY Instants DEF IInv
  <2>2. QED
    BY <2>1, NotLater DEF IInv, NoiseInv
<1>2. QED
  BY <1>1, Invariance, PTL

(* Sampling does not drift, burst or oversleep. *)
THEOREM SamplesKeepTimeHolds == Spec => SamplesKeepTime
<1>1. IInv => SampleOnTime
  <2> SUFFICES ASSUME IInv PROVE SampleOnTime
    OBVIOUS
  <2>1. now \in Nat /\ wait_until \in Nat /\ next_local_sample \in Nat /\ MaxStall \in Nat
    BY NumberTypes DEF IInv
  <2>2. pc = "top" \/ pc = "sample" \/ pc = "wait"
    BY DEF IInv, TypeOK
  <2>3. QED
    BY <2>1, <2>2 DEF IInv, WaitInv, GridInv, SampleOnTime
<1>2. IInv /\ [Next]_vars => [OneRecordPerPeriod /\ NoLongGap]_vars
  <2> SUFFICES ASSUME IInv, Next, last_record' # last_record, last_record # NoRecord
               PROVE  /\ last_record'.at \div LOCAL_SAMPLE_INTERVAL
                           > last_record.at \div LOCAL_SAMPLE_INTERVAL
                      /\ last_record'.at
                           <= last_record.at + LOCAL_SAMPLE_INTERVAL + 3 * MaxStall
    BY DEF OneRecordPerPeriod, NoLongGap
  <2>1. Sample
    BY DEF Next, Loop, Deliver, Tick, GpsBlock, NoSample, RejectFrame, IgnoreTelemetry, AcceptTelemetry,
           TakeFrame, DeclareLost, NothingToDeclare, sampling
  <2>2. last_record'.at = now /\ next_local_sample <= now /\ pc = "sample"
    BY <2>1 DEF Sample
  <2>3. /\ last_record.at \in Nat /\ now \in Nat /\ next_local_sample \in Nat
        /\ LOCAL_SAMPLE_INTERVAL \in Nat \ {0}
        /\ last_record.at < next_local_sample
        /\ next_local_sample % LOCAL_SAMPLE_INTERVAL = 0
        /\ next_local_sample <= last_record.at + MaxStall + LOCAL_SAMPLE_INTERVAL
        /\ MaxStall \in Nat /\ now <= next_local_sample + 2 * MaxStall
    BY <2>2, NumberTypes DEF IInv, TypeOK, GridInv
  <2>4. last_record.at \div LOCAL_SAMPLE_INTERVAL < now \div LOCAL_SAMPLE_INTERVAL
    BY <2>2, <2>3, PeriodsApart
  <2>5. now <= last_record.at + LOCAL_SAMPLE_INTERVAL + 3 * MaxStall
    BY <2>3
  <2>6. QED
    BY <2>2, <2>3, <2>4, <2>5
<1>3. QED
  BY <1>1, <1>2, Invariance, PTL DEF Spec, SamplesKeepTime
=============================================================================
