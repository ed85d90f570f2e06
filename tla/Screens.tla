------------------------------- MODULE Screens ------------------------------
(***************************************************************************)
(* What the operator sees: the display under its two users, the boot       *)
(* sequence (Boot) and, once the radio is up, the receiver loop            *)
(* (LinkScreen).                                                           *)
(***************************************************************************)
EXTENDS Integers, Sequences

CONSTANTS
  SEQUENCE_GAP_TOLERANCE, REBOOT_SEQUENCE_WINDOW, LINK_LOSS_TIMEOUT,
  Telemetry, GpsStates, ClockStep, MaxTime, MaxPackets

VARIABLES
  page, boot_status, radio, gps, shown,                              \* Display
  last_sequence, last_sequence_rx_time, pending_sequence_candidate,  \* SequenceTracker
  last_accepted_sequence, received_packets, missed_packets,
  now, packets, last_valid_rx_time, last_rssi, last_snr,             \* LinkScreen
  loss_displayed,
  pc, bus, storage, debug_file, debug_log, chime, gps_signal,        \* Boot
  gps_task, tone, lora

Start == INSTANCE Boot
Loop == INSTANCE LinkScreen WITH link_lost_displayed <- loss_displayed

(* The screen tells what the loop knows, through suspicious jumps, repeats and
   outages: the state of the link, the counters, the signal of the newest
   accepted packet and its number (main.rs 1236-1242, 1318-1326). *)
ScreenTellsTheLoop == Loop!ScreenTellsTheLoop

(* The boot rows and, where there is one, DEBUG.LOG tell what became of the card
   and of the radio, the stages before DEBUG.LOG was opened included (main.rs
   269-432). *)
BootIsReported == Start!RowsTellTheOutcome /\ Start!DebugLogTellsTheBoot

(* On every path the shared bus has the clock that the device in use needs
   (main.rs 296, storage.rs 363-368). *)
BusSuitsTheDevice == Start!BusSuitsTheDevice

(* The boot ends, and only a radio that fails keeps the device from its general
   page (main.rs 266). *)
BootEnds == Start!BootEnds
=============================================================================
