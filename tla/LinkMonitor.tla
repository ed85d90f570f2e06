---------------------------- MODULE LinkMonitor -----------------------------
(***************************************************************************)
(* The receiver loop of main.rs as a whole: take the newest GPS state,     *)
(* sample LOCAL.LOG when its deadline has come, wait for a frame until the *)
(* watchdog or the next deadline, handle the frame or look at the age of   *)
(* the link.  The radio task puts frames into RX_CHANNEL meanwhile.  The   *)
(* GPS block, the sample and the handlers draw on the TFT, write to the    *)
(* card and blink the LED, so each takes up to MaxStall.                   *)
(*                                                                         *)
(* Left to other modules: what the GPS block does in its time (GpsClock),  *)
(* and what the displays and the sound task do with what they are sent.    *)
(* quiet_since, others, last_event and last_record are history variables.  *)
(***************************************************************************)
EXTENDS SequenceTracker, Sequences

CONSTANTS
  LINK_LOSS_TIMEOUT,       \* 5000 ms in the source
  LINK_WATCHDOG_INTERVAL,  \* 250 ms
  LOCAL_SAMPLE_INTERVAL,   \* 1000 ms
  RX_QUEUE_DEPTH,          \* 4
  Stalls,                  \* how long one piece of work may keep the loop busy
  MaxStall,                \* the longest of them
  Rejects,                 \* the kinds of frame that are not accepted
  Numbers,                 \* sequence numbers of the accepted kind
  MaxTime,                 \* bound: the clock stops here
  MaxFrames                \* bound: frames received

RejectKinds == {"crc", "malformed", "foreign"}

ASSUME MonitorAssumption ==
  /\ {LINK_LOSS_TIMEOUT, LINK_WATCHDOG_INTERVAL, LOCAL_SAMPLE_INTERVAL,
      RX_QUEUE_DEPTH} \subseteq Nat \ {0}
  /\ {MaxStall, MaxTime, MaxFrames} \subseteq Nat
  /\ Stalls \subseteq 0 .. MaxStall
  /\ Rejects \subseteq RejectKinds
  /\ Numbers \subseteq Nat

VARIABLES
  now,
  pc,                   \* "top" of the loop, before the "sample", in the "wait"
  wait_until,           \* when with_timeout gives up
  next_local_sample,    \* deadline of the next LOCAL.LOG record
  last_valid_rx_time,
  link_lost_displayed,
  crc_failures, invalid_native_packets, foreign_context_packets,
  rx_channel,           \* frames the radio task has delivered
  frames,               \* frames delivered so far
  quiet_since,          \* history: when the newest frame had been handled
  others,               \* history: frames handled since the last accepted one
  last_event,           \* history: newest link event in EVENT.LOG
  last_record           \* history: newest LOCAL.LOG record

clock == <<now, pc, wait_until>>
link == <<last_valid_rx_time, link_lost_displayed, last_event>>
rejected == <<crc_failures, invalid_native_packets, foreign_context_packets>>
sampling == <<next_local_sample, last_record>>
radio == <<rx_channel, frames, quiet_since, others>>
vars == <<tracker, clock, link, rejected, sampling, radio>>

Frame == [kind : Rejects, seq : {None}] \cup [kind : {"telemetry"}, seq : Numbers]
NoRecord == [at |-> None, link_up |-> FALSE]

MinOf(a, b) == IF a < b THEN a ELSE b
MaxOf(a, b) == IF a < b THEN b ELSE a

Init ==
  /\ TrackerInit
  /\ now = 0 /\ pc = "top" /\ wait_until = 0
  /\ last_valid_rx_time = None /\ link_lost_displayed = FALSE /\ last_event = "none"
  /\ crc_failures = 0 /\ invalid_native_packets = 0 /\ foreign_context_packets = 0
  /\ next_local_sample = 0 /\ last_record = NoRecord
  /\ rx_channel = <<>> /\ frames = 0 /\ quiet_since = 0 /\ others = 0

-----------------------------------------------------------------------------
(* The radio task delivers a frame; it waits while the channel is full.  The *)
(* loop runs whenever it can, so time passes here only while it waits.       *)
Deliver ==
  /\ frames < MaxFrames
  /\ Len(rx_channel) < RX_QUEUE_DEPTH
  /\ \E f \in Frame : rx_channel' = Append(rx_channel, f)
  /\ frames' = frames + 1
  /\ UNCHANGED <<quiet_since, others>>
  /\ UNCHANGED <<tracker, clock, link, rejected, sampling>>

Tick ==
  /\ pc = "wait"
  /\ rx_channel = <<>>
  /\ now < wait_until
  /\ now < MaxTime
  /\ now' = now + 1
  /\ UNCHANGED <<pc, wait_until, tracker, link, rejected, sampling, radio>>

(* A handler that ends the iteration keeps the loop busy for a while. *)
BackToTop ==
  /\ \E stall \in Stalls : now' = now + stall
  /\ pc' = "top"
  /\ UNCHANGED wait_until

-----------------------------------------------------------------------------
(* Mutant: any frame keeps the link alive. *)
LinkAliveByAnyFrame ==
  last_valid_rx_time # None /\ now - MaxOf(last_valid_rx_time, quiet_since) < LINK_LOSS_TIMEOUT

LinkAlive == last_valid_rx_time # None /\ now - last_valid_rx_time < LINK_LOSS_TIMEOUT

(* Mutant: missed deadlines are made up for in a burst. *)
NextDeadlineBurst(t) == next_local_sample + LOCAL_SAMPLE_INTERVAL

(* The first deadline after t on the grid of the present one. *)
NextDeadline(t) ==
  next_local_sample
    + LOCAL_SAMPLE_INTERVAL * MaxOf(1, (t - next_local_sample) \div LOCAL_SAMPLE_INTERVAL + 1)

(* Mutant: the wait knows only the deadline. *)
WaitForDeadline(t, deadline) == t + MaxOf(deadline - t, 1)

(* The wait ends at the watchdog tick or the deadline, whichever is first. *)
WaitFrom(t, deadline) ==
  t + MinOf(LINK_WATCHDOG_INTERVAL, MaxOf(deadline - t, 1))

(* The top of the loop: a GPS state, if there is a new one, is drawn and may be
   written to EVENT.LOG and, with its buffer, to DEBUG.LOG. *)
GpsBlock ==
  /\ pc = "top"
  /\ \E stall \in Stalls \cup {0} : now' = now + stall
  /\ pc' = "sample"
  /\ UNCHANGED <<wait_until, tracker, link, rejected, sampling, radio>>

(* A record if it is due, then the wait. *)
Sample ==
  /\ pc = "sample"
  /\ now >= next_local_sample
  /\ \E stall \in Stalls :
       /\ now' = now + stall
       /\ next_local_sample' = NextDeadline(now')
       /\ wait_until' = WaitFrom(now', next_local_sample')
  /\ last_record' = [at |-> now, link_up |-> LinkAlive]
  /\ pc' = "wait"
  /\ UNCHANGED <<tracker, link, rejected, radio>>

NoSample ==
  /\ pc = "sample"
  /\ now < next_local_sample
  /\ wait_until' = WaitFrom(now, next_local_sample)
  /\ pc' = "wait"
  /\ UNCHANGED <<now, tracker, link, rejected, sampling, radio>>

(* A frame, if there is one, is taken even when the time is up. *)
TakeFrame ==
  /\ pc = "wait"
  /\ rx_channel # <<>>
  /\ rx_channel' = Tail(rx_channel)
  /\ BackToTop
  /\ quiet_since' = now'
  /\ UNCHANGED <<frames, sampling>>

RejectFrame ==
  /\ TakeFrame
  /\ Head(rx_channel).kind \in Rejects
  /\ LET kind == Head(rx_channel).kind IN
       /\ crc_failures' = crc_failures + (IF kind = "crc" THEN 1 ELSE 0)
       /\ invalid_native_packets' = invalid_native_packets + (IF kind = "malformed" THEN 1 ELSE 0)
       /\ foreign_context_packets' = foreign_context_packets + (IF kind = "foreign" THEN 1 ELSE 0)
  /\ others' = others + 1
  /\ UNCHANGED <<tracker, link>>

(* Telemetry whose number is a repeat or behind leaves the link alone. *)
IgnoreTelemetry ==
  /\ TakeFrame
  /\ Head(rx_channel).kind = "telemetry"
  /\ Ignored(Head(rx_channel).seq)
  /\ others' = others + 1
  /\ UNCHANGED <<rejected, link>>

(* Mutant: the lost screen stays. *)
AcceptTelemetryStaysLost ==
  /\ TakeFrame
  /\ Head(rx_channel).kind = "telemetry"
  /\ Accepted(Head(rx_channel).seq, now)
  /\ last_valid_rx_time' = now
  /\ others' = 0
  /\ last_event' = IF link_lost_displayed THEN "LINK_REACQUIRED" ELSE last_event
  /\ UNCHANGED <<rejected, link_lost_displayed>>

AcceptTelemetry ==
  /\ TakeFrame
  /\ Head(rx_channel).kind = "telemetry"
  /\ Accepted(Head(rx_channel).seq, now)
  /\ last_valid_rx_time' = now
  /\ others' = 0
  /\ link_lost_displayed' = FALSE
  /\ last_event' = IF link_lost_displayed THEN "LINK_REACQUIRED" ELSE last_event
  /\ UNCHANGED rejected

(* The time is up and there is no frame. *)
TimeUp ==
  /\ pc = "wait"
  /\ rx_channel = <<>>
  /\ now >= wait_until

DeclareLost ==
  /\ TimeUp
  /\ last_valid_rx_time # None
  /\ ~LinkAlive
  /\ ~link_lost_displayed
  /\ link_lost_displayed' = TRUE
  /\ last_event' = "LINK_LOST"
  /\ BackToTop
  /\ UNCHANGED <<tracker, last_valid_rx_time, rejected, sampling, radio>>

NothingToDeclare ==
  /\ TimeUp
  /\ last_valid_rx_time = None \/ LinkAlive \/ link_lost_displayed
  /\ pc' = "top"
  /\ UNCHANGED <<now, wait_until, tracker, link, rejected, sampling, radio>>

Loop ==
  \/ GpsBlock
  \/ Sample
  \/ NoSample
  \/ RejectFrame
  \/ IgnoreTelemetry
  \/ AcceptTelemetry
  \/ DeclareLost
  \/ NothingToDeclare

Next == Deliver \/ Tick \/ Loop

Spec == Init /\ [][Next]_vars

-----------------------------------------------------------------------------
(* Types: deadlines and counts are natural numbers, the channel holds frames. *)
TypeOK ==
  /\ TrackerTypeOK
  /\ {now, wait_until, next_local_sample, crc_failures, invalid_native_packets,
      foreign_context_packets, frames, quiet_since, others} \subseteq Nat
  /\ pc \in {"top", "sample", "wait"}
  /\ last_valid_rx_time \in Nat \cup {None}
  /\ last_record \in [at : Nat, link_up : BOOLEAN] \cup {NoRecord}
  /\ link_lost_displayed \in BOOLEAN
  /\ last_event \in {"none", "LINK_LOST", "LINK_REACQUIRED"}
  /\ rx_channel \in Seq(Frame)

(* The log tells the same story as the screen: the newest link event is
   LINK_LOST exactly while the loss is shown, and a record made after it does
   not claim that the link is up (main.rs 699-720, 1156-1182, 1244-1329). *)
LogMatchesScreen ==
  /\ link_lost_displayed <=> last_event = "LINK_LOST"
  /\ link_lost_displayed /\ last_record.at # None
       /\ last_record.at >= last_valid_rx_time + LINK_LOSS_TIMEOUT
     => ~last_record.link_up

(* How long the loop may be from noticing that the link is quiet to the end of
   the next wait: the GPS block, a record and the watchdog. *)
ToNextTimeOut == 2 * MaxStall + LINK_WATCHDOG_INTERVAL

(* Silence is noticed: after the last frame was handled and the timeout is over
   the loop passes once more through the GPS block, a record and a wait before it
   finds out, whatever the stalls and the sampling do to its rhythm.  The event
   and the drawing that follow are the handler's (main.rs 552-765, 1280-1329). *)
SilenceIsNoticed ==
  /\ last_valid_rx_time # None
  /\ now > MaxOf(quiet_since, last_valid_rx_time + LINK_LOSS_TIMEOUT) + ToNextTimeOut
  => link_lost_displayed

(* When the timeout is over, and the handling of the last accepted frame too. *)
LossDue == last_valid_rx_time + MaxOf(LINK_LOSS_TIMEOUT, MaxStall)

(* Frames that are not accepted postpone a loss, since the age of the link is
   looked at only when a wait brings no frame; but each by no more than its own
   iteration of the loop, and none starts the timeout anew (main.rs 754-918,
   1280-1295). *)
NoiseDelaysBounded ==
  /\ last_valid_rx_time # None
  /\ now > LossDue + others * (ToNextTimeOut + MaxStall) + ToNextTimeOut
  => link_lost_displayed

(* The comment of the validation boundary: no frame that fails its CRC is
   "allowed to affect GOLFER's valid RX count, link-alive timer, sequence state,
   telemetry log, or UI" (main.rs 774-781).  So if all frames but the accepted
   ones fail their CRC, the screen does not show a link for twice the timeout. *)
CrcFailuresDoNotHoldTheScreen ==
  /\ last_valid_rx_time # None
  /\ frames - Len(rx_channel) = received_packets + crc_failures
  /\ now > last_valid_rx_time + 2 * LINK_LOSS_TIMEOUT
  => link_lost_displayed

SampleOnTime ==
  /\ pc = "wait" => now <= next_local_sample
  /\ now <= next_local_sample + 2 * MaxStall

OneRecordPerPeriod ==
  last_record' # last_record /\ last_record # NoRecord =>
    last_record'.at \div LOCAL_SAMPLE_INTERVAL
      > last_record.at \div LOCAL_SAMPLE_INTERVAL

NoLongGap ==
  last_record' # last_record /\ last_record # NoRecord =>
    last_record'.at <= last_record.at + LOCAL_SAMPLE_INTERVAL + 3 * MaxStall

(* Sampling does not drift, burst or oversleep: the loop never waits past a
   deadline, reaches it with no more than a handler and a GPS block in between,
   never makes two records in one period, and never leaves more than a period
   and three stalls between two (main.rs 552-765). *)
SamplesKeepTime == [][SampleOnTime' /\ OneRecordPerPeriod /\ NoLongGap]_vars
=============================================================================
