------------------------------ MODULE GpsClock ------------------------------
(***************************************************************************)
(* From NMEA sentences to the UTC in the survey log.  The task in gps.rs   *)
(* merges GGA and RMC sentences into one state and signals it; the signal  *)
(* keeps only the newest.  The receiver loop in main.rs takes it when it   *)
(* gets round to it, logs fix events, and lets a UTC value through to the  *)
(* time anchor of storage.rs when it progresses like a clock.              *)
(*                                                                         *)
(* Parsing is abstract: a sentence has its coordinates or not, an RMC has  *)
(* a time or not, and the time is the true one, one garbled into its       *)
(* neighbourhood (no checksum is verified) or a provisional date.  Of the  *)
(* position only the moment it was parsed is kept.                         *)
(***************************************************************************)
EXTENDS Integers

CONSTANTS
  GPS_UTC_PROGRESS_TOLERANCE_MS,  \* 2000 in the source
  RMC_INTERVAL,   \* ms between two RMC sentences, 1000
  MaxLag,         \* ms a signalled state may wait for the receiver loop
  Epoch,          \* UTC at power-on
  Provisional,    \* dates a cold GPS receiver may report
  Errors,         \* ms by which a garbled time misses the true one
  Step,           \* ms the clock advances at once
  MaxTime         \* bound: the clock stops here

(* The loop takes a state before the next RMC and within the tolerance.  Nothing
   is assumed of the wrong times but that they are times. *)
GpsAssumption ==
  /\ {GPS_UTC_PROGRESS_TOLERANCE_MS, RMC_INTERVAL, MaxLag, Epoch, MaxTime} \subseteq Nat
  /\ Step \in Nat \ {0}
  /\ MaxLag < RMC_INTERVAL /\ MaxLag <= GPS_UTC_PROGRESS_TOLERANCE_MS
  /\ Provisional \subseteq Nat
  /\ Errors \subseteq Int /\ \A e \in Errors : Epoch + e \in Nat

VARIABLES
  now,
  next_rmc_at,        \* the GPS receiver sends the next RMC no sooner
  gps,                \* the state of the GPS task
  signal,             \* GPS_STATE_SIGNAL
  signalled_at,       \* since when it has held something untaken
  latest_gps_state,   \* what the receiver loop took last
  last_gps_utc_seen,
  pending_gps_utc,
  accepted_gps_utc,
  utc_anchor,         \* in storage
  fix_event,          \* history: newest GPS_FIX event
  time_syncs,         \* history: TIME_SYNC events
  true_streak,        \* history: true times taken in a row, none between
  hops,               \* history: times accepted since the last true one
  true_rejected       \* history: a true time was rejected, though hops = 0

task == <<gps, signal, signalled_at>>
loop == <<latest_gps_state, last_gps_utc_seen, pending_gps_utc, accepted_gps_utc>>
log == <<utc_anchor, fix_event, time_syncs, true_streak, hops, true_rejected>>
vars == <<now, next_rmc_at, task, loop, log>>

None == -1
NoPair == [mono |-> None, utc |-> None]
Offline ==
  [online |-> FALSE, fix |-> FALSE, position |-> None, utc |-> None, utc_at |-> None]

Init ==
  /\ now = 0 /\ next_rmc_at = 0
  /\ gps = Offline /\ signal = Offline /\ signalled_at = None
  /\ latest_gps_state = Offline /\ last_gps_utc_seen = None
  /\ pending_gps_utc = NoPair /\ accepted_gps_utc = NoPair
  /\ utc_anchor = NoPair /\ fix_event = "none"
  /\ time_syncs = 0 /\ true_streak = 0 /\ hops = None /\ true_rejected = FALSE

Waiting == signalled_at # None

Tick ==
  /\ now + Step <= MaxTime
  /\ Waiting => now + Step <= signalled_at + MaxLag
  /\ now' = now + Step
  /\ UNCHANGED <<next_rmc_at, task, loop, log>>

-----------------------------------------------------------------------------
(* The GPS task.                                                            *)

Signal(state) ==
  /\ gps' = state
  /\ signal' = state
  /\ signalled_at' = IF Waiting THEN signalled_at ELSE now

(* GGA with fix quality zero, with coordinates, and with garbled ones: the last
   leaves fix and position as they are. *)
apply_gga(has_fix, has_coordinates) ==
  IF ~has_fix
    THEN [gps EXCEPT !.online = TRUE, !.fix = FALSE, !.position = None]
  ELSE IF has_coordinates
    THEN [gps EXCEPT !.online = TRUE, !.fix = TRUE, !.position = now]
    ELSE [gps EXCEPT !.online = TRUE]

(* RMC; without a readable time the previous one stays.  The moment a time was
   parsed, utc_at, is history: the code does not keep it. *)
apply_rmc(active, has_coordinates, utc) ==
  LET online == [gps EXCEPT !.online = TRUE]
      timed == IF utc = None THEN online ELSE [online EXCEPT !.utc = utc, !.utc_at = now]
  IN
  IF ~active
    THEN [timed EXCEPT !.fix = FALSE, !.position = None]
  ELSE IF has_coordinates
    THEN [timed EXCEPT !.fix = TRUE, !.position = now]
    ELSE timed

Gga ==
  /\ \E has_fix, has_coordinates \in BOOLEAN : Signal(apply_gga(has_fix, has_coordinates))
  /\ UNCHANGED <<now, next_rmc_at, loop, log>>

Rmc ==
  /\ now >= next_rmc_at
  /\ next_rmc_at' = now + RMC_INTERVAL
  /\ \E active, has_coordinates \in BOOLEAN,
        utc \in Provisional \cup {None, Epoch + now} \cup {Epoch + now + e : e \in Errors} :
       Signal(apply_rmc(active, has_coordinates, utc))
  /\ UNCHANGED <<now, loop, log>>

-----------------------------------------------------------------------------
(* The receiver loop takes the newest state.                                *)

Abs(n) == IF n < 0 THEN -n ELSE n

(* Mutant: any progress will do. *)
progresses(previous, mono, utc) == mono > previous.mono /\ utc > previous.utc

gps_utc_progression_is_sane(previous, mono, utc) ==
  /\ mono > previous.mono
  /\ utc > previous.utc
  /\ Abs((mono - previous.mono) - (utc - previous.utc)) <= GPS_UTC_PROGRESS_TOLERANCE_MS

(* UTC of a monotonic time by the anchor, on either side of it. *)
utc_for_mono_ms(mono) == utc_anchor.utc + (mono - utc_anchor.mono)

(* The state's time was the true one when its sentence was parsed. *)
IsTrue(state) == state.utc = Epoch + state.utc_at

SameUtc(utc) ==
  /\ utc = None \/ utc = last_gps_utc_seen
  /\ UNCHANGED <<last_gps_utc_seen, pending_gps_utc, accepted_gps_utc, utc_anchor,
                 time_syncs, true_streak, hops, true_rejected>>

NewUtc(utc) ==
  /\ utc # None /\ utc # last_gps_utc_seen
  /\ last_gps_utc_seen' = utc
  /\ true_streak' = IF IsTrue(signal) THEN true_streak + 1 ELSE 0

(* After the synchronisation: refresh the anchor, or log the discontinuity. *)
RefreshAnchor(utc) ==
  /\ NewUtc(utc)
  /\ accepted_gps_utc # NoPair
  /\ gps_utc_progression_is_sane(accepted_gps_utc, now, utc)
  /\ accepted_gps_utc' = [mono |-> now, utc |-> utc]
  /\ utc_anchor' = [mono |-> now, utc |-> utc]
  /\ hops' = IF IsTrue(signal) THEN 0 ELSE IF hops = None THEN None ELSE hops + 1
  /\ UNCHANGED <<pending_gps_utc, time_syncs, true_rejected>>

RejectUtc(utc) ==
  /\ NewUtc(utc)
  /\ accepted_gps_utc # NoPair
  /\ ~gps_utc_progression_is_sane(accepted_gps_utc, now, utc)
  /\ true_rejected' = (true_rejected \/ (IsTrue(signal) /\ hops = 0))
  /\ UNCHANGED <<pending_gps_utc, accepted_gps_utc, utc_anchor, time_syncs, hops>>

(* Before it: a second value that progresses like a clock confirms the first.  The
   first was taken last, so it was true when the streak is not zero. *)
SyncTime(utc) ==
  /\ NewUtc(utc)
  /\ accepted_gps_utc = NoPair /\ pending_gps_utc # NoPair
  /\ gps_utc_progression_is_sane(pending_gps_utc, now, utc)
  /\ pending_gps_utc' = NoPair
  /\ accepted_gps_utc' = [mono |-> now, utc |-> utc]
  /\ utc_anchor' = [mono |-> now, utc |-> utc]
  /\ time_syncs' = time_syncs + (IF utc_anchor = NoPair THEN 1 ELSE 0)
  /\ hops' = IF IsTrue(signal) THEN 0 ELSE IF true_streak >= 1 THEN 1 ELSE None
  /\ UNCHANGED true_rejected

(* Mutant: the first candidate stays until it is confirmed. *)
KeepFirstCandidate(utc) ==
  /\ NewUtc(utc)
  /\ accepted_gps_utc = NoPair
  /\ pending_gps_utc # NoPair => ~gps_utc_progression_is_sane(pending_gps_utc, now, utc)
  /\ pending_gps_utc' = IF pending_gps_utc = NoPair THEN [mono |-> now, utc |-> utc]
                        ELSE pending_gps_utc
  /\ UNCHANGED <<accepted_gps_utc, utc_anchor, time_syncs, hops, true_rejected>>

KeepCandidate(utc) ==
  /\ NewUtc(utc)
  /\ accepted_gps_utc = NoPair
  /\ pending_gps_utc # NoPair => ~gps_utc_progression_is_sane(pending_gps_utc, now, utc)
  /\ pending_gps_utc' = [mono |-> now, utc |-> utc]
  /\ UNCHANGED <<accepted_gps_utc, utc_anchor, time_syncs, hops, true_rejected>>

(* Mutant: the first state ever taken makes no event. *)
FixEventOnline(before, state) ==
  IF state.fix /\ before.online /\ ~before.fix THEN "GPS_FIX_ACQUIRED"
  ELSE IF before.online /\ before.fix /\ ~state.fix THEN "GPS_FIX_LOST"
  ELSE fix_event

(* GPS_FIX_ACQUIRED and GPS_FIX_LOST, by what the loop saw before. *)
FixEvent(before, state) ==
  IF state.fix /\ (~before.online \/ ~before.fix) THEN "GPS_FIX_ACQUIRED"
  ELSE IF before.online /\ before.fix /\ ~state.fix THEN "GPS_FIX_LOST"
  ELSE fix_event

Take ==
  /\ Waiting
  /\ signal' = Offline /\ signalled_at' = None
  /\ latest_gps_state' = signal
  /\ \/ SameUtc(signal.utc)
     \/ RefreshAnchor(signal.utc)
     \/ RejectUtc(signal.utc)
     \/ SyncTime(signal.utc)
     \/ KeepCandidate(signal.utc)
  /\ fix_event' = FixEvent(latest_gps_state, signal)
  /\ UNCHANGED <<now, next_rmc_at, gps>>

Next == Tick \/ Gga \/ Rmc \/ Take

Spec == Init /\ [][Next]_vars

-----------------------------------------------------------------------------
States ==
  [online : BOOLEAN, fix : BOOLEAN,
   position : Nat \cup {None}, utc : Nat \cup {None}, utc_at : Nat \cup {None}]
Pairs == [mono : Nat, utc : Nat] \cup {NoPair}

(* Types: a GPS state is a record, a time pair has both times or neither. *)
TypeOK ==
  /\ now \in 0 .. MaxTime /\ next_rmc_at \in Nat
  /\ gps \in States /\ latest_gps_state \in States
  /\ signal \in States /\ signalled_at \in Nat \cup {None}
  /\ last_gps_utc_seen \in Nat \cup {None}
  /\ {pending_gps_utc, accepted_gps_utc, utc_anchor} \subseteq Pairs
  /\ fix_event \in {"none", "GPS_FIX_ACQUIRED", "GPS_FIX_LOST"}
  /\ {time_syncs, true_streak} \subseteq Nat
  /\ hops \in Nat \cup {None} /\ true_rejected \in BOOLEAN

(* A fix is reported exactly with a position, whichever of the two sentences
   came last and however garbled it was, and EVENT.LOG agrees with it, although
   the signal drops intermediate states (gps.rs 141-237, main.rs 669-687). *)
FixEventsMatchState ==
  /\ \A state \in {gps, latest_gps_state} : state.fix <=> state.position # None
  /\ latest_gps_state.fix <=> fix_event = "GPS_FIX_ACQUIRED"

(* By how much the anchor misses the true time, at any moment. *)
AnchorError == utc_for_mono_ms(now) - (Epoch + now)

(* How far the timeline of the survey can be moved.  It is set once, and what it
   gives for any moment misses the true time by no more than the delay of the loop
   and the tolerance for every wrong time accepted since the last true one: a
   provisional date is never let through, a time garbled by less is, and the next
   true one that is accepted takes the error back.  It can be anything only after
   two wrong times that progressed like a clock (hops = None; main.rs 58-62,
   577-667; storage.rs 929-941). *)
AnchorIsTrue ==
  utc_anchor # NoPair =>
    /\ time_syncs = 1
    /\ hops # None =>
         /\ AnchorError <= GPS_UTC_PROGRESS_TOLERANCE_MS * hops
         /\ AnchorError >= -(MaxLag + GPS_UTC_PROGRESS_TOLERANCE_MS * hops)

(* The truth is believed: two true times in a row are enough for the
   synchronisation, whatever was pending before, and after an accepted true time
   no true one is rejected until a wrong one has been accepted, with a loop that is
   no later than the tolerance, however the two are delayed (main.rs 577-663). *)
TrueTimeIsBelieved ==
  /\ true_streak >= 2 => utc_anchor # NoPair
  /\ ~true_rejected
=============================================================================
