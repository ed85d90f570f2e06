------------------------------ MODULE Display -------------------------------
(***************************************************************************)
(* The display facade of display/mod.rs.  It keeps the state of both       *)
(* pages; a value that changes is drawn alone, over what its row showed    *)
(* before, and only if its page is on; a change of page draws everything.  *)
(* The operators are the methods; a module that models their caller takes  *)
(* them as part of its own actions.                                        *)
(*                                                                         *)
(* shown is what the TFT shows: a text for every row, where a row is a     *)
(* rectangle of its own.  A text is the value it stands for.               *)
(***************************************************************************)
EXTENDS Integers

VARIABLES
  page,         \* "Boot" or "General"
  boot_status,  \* the status of each subsystem
  radio, gps,   \* the state kept for the general page
  shown         \* on the TFT

display == <<page, boot_status, radio, gps, shown>>

NoValue == -1000
Blank == "blank"

Subsystems == {"System", "Display", "SdCard", "Gps", "Lora"}
RadioRows == {"link", "sequence", "rssi", "snr", "received", "missed"}
GpsRows == {"status", "satellites", "latitude_e7", "longitude_e7"}
Rows == Subsystems \cup RadioRows \cup GpsRows

waiting == [link |-> "Waiting", sequence |-> NoValue, rssi |-> NoValue, snr |-> NoValue,
            received |-> 0, missed |-> 0]
offline == [online |-> FALSE, fix |-> FALSE, satellites |-> NoValue,
            latitude_e7 |-> NoValue, longitude_e7 |-> NoValue]
starting == [s \in Subsystems |->
               IF s \in {"System", "Display"} THEN "Ok" ELSE "Initializing"]

(* A number, a state of the link, or the dashes for no value. *)
RadioText(state, row) == state[row]

GpsText(state, row) ==
  IF row # "status" THEN state[row]
  ELSE IF ~state.online THEN "OFFLINE"
  ELSE IF state.fix THEN "FIX" ELSE "NO FIX"

(* The whole page, on a cleared screen. *)
Page(p, boot, r, g) ==
  [row \in Rows |->
     IF p = "Boot" THEN IF row \in Subsystems THEN boot[row] ELSE Blank
     ELSE IF row \in RadioRows THEN RadioText(r, row)
     ELSE IF row \in GpsRows THEN GpsText(g, row) ELSE Blank]

DisplayInit ==
  /\ page = "Boot" /\ boot_status = starting
  /\ radio = waiting /\ gps = offline
  /\ shown = Page("Boot", starting, waiting, offline)

set_page(p) ==
  /\ page' = p
  /\ shown' = IF p = page THEN shown ELSE Page(p, boot_status, radio, gps)
  /\ UNCHANGED <<boot_status, radio, gps>>

set_init_status(subsystem, status) ==
  /\ boot_status' = [boot_status EXCEPT ![subsystem] = status]
  /\ shown' = IF page = "Boot" THEN [shown EXCEPT ![subsystem] = status] ELSE shown
  /\ UNCHANGED <<page, radio, gps>>

update_radio(state) ==
  /\ radio' = state
  /\ shown' = IF page # "General" THEN shown
              ELSE [row \in Rows |-> IF row \in RadioRows /\ radio[row] # state[row]
                                     THEN RadioText(state, row) ELSE shown[row]]
  /\ UNCHANGED <<page, boot_status, gps>>

(* Mutant: a receiver that comes on line without a fix is overlooked. *)
GpsRowChangedByFix(row, old, state) ==
  IF row = "status" THEN old.fix # state.fix ELSE old[row] # state[row]

GpsRowChanged(row, old, state) ==
  IF row = "status" THEN old.online # state.online \/ old.fix # state.fix
  ELSE old[row] # state[row]

update_gps(state) ==
  /\ gps' = state
  /\ shown' = IF page # "General" THEN shown
              ELSE [row \in Rows |-> IF row \in GpsRows /\ GpsRowChanged(row, gps, state)
                                     THEN GpsText(state, row) ELSE shown[row]]
  /\ UNCHANGED <<page, boot_status, radio>>

(* Drawing what changed and drawing everything come to the same: no row shows
   a value that is gone, on whichever page it changed (display/mod.rs 226-318). *)
ScreenIsCurrent == shown = Page(page, boot_status, radio, gps)
=============================================================================
