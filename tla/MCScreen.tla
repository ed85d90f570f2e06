------------------------------ MODULE MCScreen ------------------------------
(* Instance for TLC of the two users of the display: Boot, and LinkScreen, which
   starts where a boot without failures ends.  A behaviour is one of the two; the
   variables of the other keep their initial values.

   The packets have numbers on either side of a jump, a repeat and a reboot; the
   GPS states differ from one another in every row. *)
EXTENDS Screens

VARIABLE part  \* the specification that runs

ASSUME MCScreenAssumption == Loop!ScreenAssumption /\ Loop!TrackerAssumption

screenvars == <<page, boot_status, radio, gps, shown>>
bootvars == <<pc, bus, storage, debug_file, debug_log, chime, gps_signal, gps_task, tone, lora>>
loopvars == <<last_sequence, last_sequence_rx_time, pending_sequence_candidate,
              last_accepted_sequence, received_packets, missed_packets,
              now, packets, last_valid_rx_time, last_rssi, last_snr, loss_displayed>>
mcvars == <<part, screenvars, loopvars, bootvars>>

Booted ==
  /\ pc = "running" /\ bus = "fast"
  /\ storage = "survey" /\ debug_file = TRUE
  /\ debug_log = <<"SYSTEM_INIT", "DISPLAY_INIT", "SD_CARD_INIT", "GPS_INIT", "LORA_INIT OK",
                   "INIT_COMPLETE">>
  /\ chime = "done" /\ gps_signal = {} /\ gps_task = TRUE /\ tone = FALSE
  /\ lora = "ok"

MCInit ==
  \/ part = "boot" /\ Start!Init /\ Loop!LoopInit
  \/ part = "loop" /\ Booted /\ Loop!Init

Booting == part = "boot" /\ Start!Next /\ UNCHANGED <<part, loopvars>>
Running == part = "loop" /\ Loop!Next /\ UNCHANGED <<part, bootvars>>

MCNext == Booting \/ Running

BootingMain == part = "boot" /\ Start!Main /\ UNCHANGED <<part, loopvars>>
BootingAudio == part = "boot" /\ Start!AudioTask /\ UNCHANGED <<part, loopvars>>

(* The fairness of Boot. *)
MCSpec ==
  /\ MCInit /\ [][MCNext]_mcvars
  /\ WF_mcvars(BootingMain) /\ WF_mcvars(BootingAudio)

MCTelemetry ==
  {[seq |-> 0, rssi |-> -90, snr |-> 5], [seq |-> 1, rssi |-> -95, snr |-> 5],
   [seq |-> 3, rssi |-> -95, snr |-> -2], [seq |-> 8, rssi |-> -90, snr |-> -2],
   [seq |-> 9, rssi |-> -99, snr |-> 5]}
Absent == -1000  \* the NoValue of Display
MCGpsStates ==
  {[online |-> TRUE, fix |-> FALSE, satellites |-> Absent,
    latitude_e7 |-> Absent, longitude_e7 |-> Absent],
   [online |-> TRUE, fix |-> FALSE, satellites |-> 3,
    latitude_e7 |-> Absent, longitude_e7 |-> Absent],
   [online |-> TRUE, fix |-> TRUE, satellites |-> 3, latitude_e7 |-> 5, longitude_e7 |-> -7]}
=============================================================================
