------------------------------ MODULE MCTasks -------------------------------
(* Instance for TLC of the two tasks that feed the receiver loop, each for itself:
   RadioManager with channels shorter than the traffic, GpsClock with a provisional
   date before and one after the truth, and times garbled by as much as the tolerance.
   A behaviour is one of the two; the variables of the other keep their initial values. *)
EXTENDS Tasks

VARIABLE part  \* the specification that runs

ASSUME MCGpsAssumption == Clock!GpsAssumption

clockvars ==
  <<now, next_rmc_at, gps, signal, signalled_at, latest_gps_state, last_gps_utc_seen,
    pending_gps_utc, accepted_gps_utc, utc_anchor, fix_event, time_syncs, true_streak,
    hops, true_rejected>>
mcvars == <<part, vars, clockvars>>

MCInit == part \in {"radio", "clock"} /\ Init /\ Clock!Init

Radio(Action) == part = "radio" /\ Action /\ UNCHANGED <<part, clockvars>>
OnRadio == Radio(Next)
OnClock == part = "clock" /\ Clock!Next /\ UNCHANGED <<part, vars>>

MCNext == OnRadio \/ OnClock

(* The fairness of RadioManager. *)
MCFairness ==
  WF_mcvars(Radio(Manager)) /\ WF_mcvars(Radio(TakeFrame)) /\ WF_mcvars(Radio(TakeEvent))

MCSpec == MCInit /\ [][MCNext]_mcvars /\ MCFairness

MCProvisional == {1000, 90000}
MCErrors == {-500, 500}
=============================================================================
