------------------------------- MODULE Tasks --------------------------------
(***************************************************************************)
(* The two tasks that feed the receiver loop, RadioManager and GpsClock.   *)
(* They share nothing but the executor, and each has its own specification:*)
(* this module names what the second promises beside what the first does.  *)
(***************************************************************************)
EXTENDS RadioManager

CONSTANTS
  GPS_UTC_PROGRESS_TOLERANCE_MS, RMC_INTERVAL, MaxLag, Epoch, Provisional, Errors, Step,
  MaxTime

VARIABLES
  now, next_rmc_at, gps, signal, signalled_at, latest_gps_state, last_gps_utc_seen,
  pending_gps_utc, accepted_gps_utc, utc_anchor, fix_event, time_syncs, true_streak,
  hops, true_rejected

Clock == INSTANCE GpsClock

(* A fix is reported exactly with a position, and EVENT.LOG agrees with it,
   although the signal drops intermediate states (gps.rs 141-237, main.rs 669-687). *)
FixEventsMatchState == Clock!FixEventsMatchState

(* The UTC the anchor gives for any moment is true to within the delay of the loop
   and the tolerance for every wrong time accepted since the last true one
   (main.rs 58-62, 577-667; storage.rs 929-941). *)
AnchorIsTrue == Clock!AnchorIsTrue

(* Two true times in a row are enough for the synchronisation, and after an accepted
   true time none is rejected until a wrong one was accepted (main.rs 577-663). *)
TrueTimeIsBelieved == Clock!TrueTimeIsBelieved
=============================================================================
