----------------------------- MODULE LinkScreen -----------------------------
(***************************************************************************)
(* What the receiver loop of main.rs tells the operator: SequenceTracker   *)
(* and the loss of the link, with the updates of Display that go with      *)
(* them.  The LINK_LOST and LINK_REACQUIRED events of the same moments are *)
(* in LinkMonitor.                                                         *)
(***************************************************************************)
EXTENDS SequenceTracker, Display

CONSTANTS
  LINK_LOSS_TIMEOUT,  \* 5000 ms in the source
  Telemetry,          \* the packets that may arrive: seq, rssi and snr
  GpsStates,          \* the states the GPS task may signal
  ClockStep,          \* ms the clock advances at once
  MaxTime,            \* bound: the clock stops here
  MaxPackets          \* bound: packets

ScreenAssumption ==
  /\ {LINK_LOSS_TIMEOUT, ClockStep} \subseteq Nat \ {0}
  /\ {MaxTime, MaxPackets} \subseteq Nat
  /\ Telemetry \subseteq [seq : Nat, rssi : Int, snr : Int]

VARIABLES
  now, packets,
  last_valid_rx_time, last_rssi, last_snr,
  link_lost_displayed

link == <<last_valid_rx_time, last_rssi, last_snr, link_lost_displayed>>
vars == <<tracker, display, now, packets, link>>

LoopInit ==
  /\ TrackerInit
  /\ now = 0 /\ packets = 0
  /\ last_valid_rx_time = None /\ last_rssi = NoValue /\ last_snr = NoValue
  /\ link_lost_displayed = FALSE

(* The loop starts on the general page. *)
Init ==
  /\ LoopInit
  /\ page = "General" /\ radio = waiting /\ gps = offline
  /\ boot_status = [s \in Subsystems |-> "Ok"]
  /\ shown = Page(page, boot_status, radio, gps)

Tick ==
  /\ now + ClockStep <= MaxTime
  /\ now' = now + ClockStep
  /\ UNCHANGED <<tracker, display, packets, link>>

Shown(option) == IF option = None THEN NoValue ELSE option

-----------------------------------------------------------------------------
connected(p) ==
  [link |-> "Connected", sequence |-> p.seq, rssi |-> p.rssi, snr |-> p.snr,
   received |-> received_packets', missed |-> missed_packets']

Accept(p) ==
  /\ Accepted(p.seq, now)
  /\ last_valid_rx_time' = now /\ last_rssi' = p.rssi /\ last_snr' = p.snr
  /\ link_lost_displayed' = FALSE
  /\ update_radio(connected(p))

Packet ==
  /\ packets < MaxPackets
  /\ packets' = packets + 1
  /\ \E p \in Telemetry : Accept(p) \/ (Ignored(p.seq) /\ UNCHANGED <<display, link>>)
  /\ UNCHANGED now

lost ==
  [link |-> "Lost", sequence |-> Shown(last_sequence), rssi |-> last_rssi, snr |-> last_snr,
   received |-> received_packets, missed |-> missed_packets]

(* The lost screen has the trusted number, which may be older than the newest
   accepted one, with the signal of the newest accepted packet. *)
DeclareLost ==
  /\ last_valid_rx_time # None
  /\ now - last_valid_rx_time >= LINK_LOSS_TIMEOUT
  /\ ~link_lost_displayed
  /\ update_radio(lost)
  /\ link_lost_displayed' = TRUE
  /\ UNCHANGED <<tracker, now, packets, last_valid_rx_time, last_rssi, last_snr>>

TakeGps ==
  /\ \E state \in GpsStates : state # gps /\ update_gps(state)
  /\ UNCHANGED <<tracker, now, packets, link>>

Next == Tick \/ Packet \/ DeclareLost \/ TakeGps

Spec == Init /\ [][Next]_vars

-----------------------------------------------------------------------------
(* Types; every row of the screen has a text. *)
TypeOK ==
  /\ TrackerTypeOK
  /\ now \in 0 .. MaxTime /\ packets \in 0 .. MaxPackets
  /\ last_valid_rx_time \in Nat \cup {None} /\ {last_rssi, last_snr} \subseteq Int
  /\ link_lost_displayed \in BOOLEAN
  /\ DOMAIN shown = Rows /\ DOMAIN radio = RadioRows
  /\ gps \in GpsStates \cup {offline}

(* The screen tells what the loop knows, through suspicious jumps, repeats and
   outages: the state of the link, the counters, the signal of the newest
   accepted packet and, while the link is up, its number; and no row shows what
   the state of its page no longer says (main.rs 1236-1242, 1318-1326;
   display/mod.rs 226-318). *)
ScreenTellsTheLoop ==
  /\ ScreenIsCurrent
  /\ page = "General" =>
    /\ (shown["link"] = "Waiting") <=> (last_valid_rx_time = None)
    /\ (shown["link"] = "Lost") <=> link_lost_displayed
    /\ shown["received"] = received_packets /\ shown["missed"] = missed_packets
    /\ shown["rssi"] = last_rssi /\ shown["snr"] = last_snr
    /\ ~link_lost_displayed => shown["sequence"] = Shown(last_accepted_sequence)
=============================================================================
