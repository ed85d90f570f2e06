-------------------------------- MODULE Boot --------------------------------
(***************************************************************************)
(* The start of main.rs, from the first drawing of the boot screen to the  *)
(* receiver loop: SD card, GPS, radio and buttons, in this order, on the   *)
(* SPI bus that the TFT and the card share.  Each stage may fail.  The     *)
(* executor runs one task at a time, so the audio and the GPS task, once   *)
(* spawned, come to run only while main waits: for the radio, in the final *)
(* hold, and from then on.                                                 *)
(*                                                                         *)
(* What Storage::init does with the card is the subject of BootSession;    *)
(* here it has the outcomes that main can tell apart.  A panic of          *)
(* system::init comes before all this (see ConfigStore).                   *)
(***************************************************************************)
EXTENDS Display, Sequences

CONSTANT GpsStates  \* the states the GPS task may signal

VARIABLES
  pc,          \* the stage
  bus,         \* the clock of SPI0: "slow" 400 kHz, "fast" 24 MHz
  storage,     \* "none", or what is logged to: "survey" or "global"
  debug_file,  \* whether DEBUG.LOG could be opened
  debug_log,   \* the boot messages given to diag, oldest first
  chime,       \* the startup sound: "queued", "playing", "done"
  gps_signal,  \* GPS_STATE_SIGNAL: the state untaken, {} for none
  gps_task,    \* spawned
  tone,        \* ROUTINE_TONE has a request for silence
  lora         \* history: how the initialisation of the radio ended

stage == <<pc, bus>>
log == <<storage, debug_file, debug_log>>
tasks == <<chime, gps_signal, gps_task, tone>>
vars == <<display, stage, log, tasks, lora>>

Stages == {"sd_card", "probe", "card_init", "mount", "bus_back", "card_row", "gps",
           "gps_row", "lora", "lora_wait", "hold", "abort", "blinking", "running"}

(* The bus is made slow, set fast, and the boot screen drawn; then the chime is
   queued, for which there is room. *)
Init ==
  /\ DisplayInit
  /\ pc = "sd_card" /\ bus = "fast"
  /\ storage = "none" /\ debug_file = FALSE /\ debug_log = <<>>
  /\ chime = "queued" /\ gps_signal = {} /\ gps_task = FALSE /\ tone = FALSE
  /\ lora = "none"

Go(from, to) == pc = from /\ pc' = to

diag(lines) ==
  /\ debug_log' = IF storage # "none" /\ debug_file THEN debug_log \o lines ELSE debug_log
  /\ UNCHANGED <<storage, debug_file>>

-----------------------------------------------------------------------------
(* The card.                                                                *)

BeginCard ==
  /\ Go("sd_card", "probe")
  /\ set_init_status("SdCard", "Initializing")
  /\ bus' = "slow"
  /\ UNCHANGED <<log, tasks, lora>>

(* card_present(): CMD0 is answered or not. *)
Probe ==
  /\ Go("probe", "card_init") \/ Go("probe", "bus_back")
  /\ UNCHANGED <<display, bus, log, tasks, lora>>

CardInitFails ==
  /\ Go("card_init", "bus_back")
  /\ UNCHANGED <<display, bus, log, tasks, lora>>

CardInitOk ==
  /\ Go("card_init", "mount")
  /\ bus' = "fast"
  /\ UNCHANGED <<display, log, tasks, lora>>

(* No volume, or neither a session nor the global DEBUG.LOG; only a session
   does without a DEBUG.LOG. *)
Mount ==
  /\ Go("mount", "bus_back")
  /\ \/ UNCHANGED <<storage, debug_file>>
     \/ storage' = "survey" /\ debug_file' \in BOOLEAN
     \/ storage' = "global" /\ debug_file' = TRUE
  /\ UNCHANGED <<display, bus, debug_log, tasks, lora>>

(* Mutant: a card that fails leaves the bus as slow as it was. *)
BusBackStaysSlow ==
  /\ Go("bus_back", "card_row")
  /\ UNCHANGED <<display, bus, log, tasks, lora>>

BusBack ==
  /\ Go("bus_back", "card_row")
  /\ bus' = "fast"
  /\ UNCHANGED <<display, log, tasks, lora>>

(* The messages of the stages before come now, there was no file for them. *)
CardRow ==
  /\ Go("card_row", "gps")
  /\ set_init_status("SdCard", IF storage = "none" THEN "Nok" ELSE "Ok")
  /\ diag(<<"SYSTEM_INIT", "DISPLAY_INIT", "SD_CARD_INIT">>)
  /\ UNCHANGED <<bus, tasks, lora>>

-----------------------------------------------------------------------------
(* GPS, whose task cannot fail to start, and the radio.                     *)

BeginGps ==
  /\ Go("gps", "gps_row")
  /\ set_init_status("Gps", "Initializing")
  /\ gps_task' = TRUE
  /\ UNCHANGED <<bus, log, chime, gps_signal, tone, lora>>

GpsRow ==
  /\ Go("gps_row", "lora")
  /\ set_init_status("Gps", "Ok")
  /\ diag(<<"GPS_INIT">>)
  /\ UNCHANGED <<bus, tasks, lora>>

BeginLora ==
  /\ Go("lora", "lora_wait")
  /\ set_init_status("Lora", "Initializing")
  /\ UNCHANGED <<bus, log, tasks, lora>>

LoraOk ==
  /\ Go("lora_wait", "hold")
  /\ set_init_status("Lora", "Ok")
  /\ diag(<<"LORA_INIT OK", "INIT_COMPLETE">>)
  /\ lora' = "ok"
  /\ UNCHANGED <<bus, tasks>>

(* Mutant: a radio that fails is not told of on the card. *)
LoraFailsSilently ==
  /\ Go("lora_wait", "abort")
  /\ set_init_status("Lora", "Nok")
  /\ lora' = "failed"
  /\ UNCHANGED <<bus, log, tasks>>

LoraFails ==
  /\ Go("lora_wait", "abort")
  /\ set_init_status("Lora", "Nok")
  /\ diag(<<"LORA_INIT NOK">>)
  /\ lora' = "failed"
  /\ UNCHANGED <<bus, tasks>>

(* audio::stop(), then the LED blinks for ever. *)
Abort ==
  /\ Go("abort", "blinking")
  /\ tone' = TRUE
  /\ UNCHANGED <<display, bus, log, chime, gps_signal, gps_task, lora>>

(* Mutant: the boot screen stays without a card. *)
EnterGeneralWithCard ==
  /\ storage # "none"
  /\ Go("hold", "running")
  /\ set_page("General")
  /\ UNCHANGED <<bus, log, tasks, lora>>

(* The hold is over: the buttons, the general page, the radio task. *)
EnterGeneral ==
  /\ Go("hold", "running")
  /\ set_page("General")
  /\ UNCHANGED <<bus, log, tasks, lora>>

Main ==
  \/ BeginCard \/ Probe \/ CardInitFails \/ CardInitOk \/ Mount \/ BusBack \/ CardRow
  \/ BeginGps \/ GpsRow
  \/ BeginLora \/ LoraOk \/ LoraFails
  \/ Abort \/ EnterGeneral

-----------------------------------------------------------------------------
(* The tasks that run while main waits, and the loop when it has begun.     *)

MainWaits == pc \in {"lora_wait", "hold", "blinking", "running"}

AudioTask ==
  /\ MainWaits
  /\ \/ chime = "queued" /\ chime' = "playing" /\ UNCHANGED tone
     \/ chime = "playing" /\ chime' = "done" /\ UNCHANGED tone
     \/ chime = "done" /\ tone /\ tone' = FALSE /\ UNCHANGED chime
  /\ UNCHANGED <<display, stage, log, gps_signal, gps_task, lora>>

GpsTask ==
  /\ MainWaits /\ gps_task
  /\ \E state \in GpsStates : gps_signal' = {state}
  /\ UNCHANGED <<display, stage, log, chime, gps_task, tone, lora>>

TakeGps ==
  /\ pc = "running"
  /\ \E state \in gps_signal : update_gps(state)
  /\ gps_signal' = {}
  /\ UNCHANGED <<stage, log, chime, gps_task, tone, lora>>

Next == Main \/ AudioTask \/ GpsTask \/ TakeGps

(* The calls of main return, its waits end, and the executor runs the tasks. *)
Spec == Init /\ [][Next]_vars /\ WF_vars(Main) /\ WF_vars(AudioTask)

-----------------------------------------------------------------------------
(* Types; the boot screen has a status for every subsystem. *)
TypeOK ==
  /\ pc \in Stages /\ bus \in {"slow", "fast"}
  /\ page \in {"Boot", "General"}
  /\ boot_status \in [Subsystems -> {"Initializing", "Ok", "Nok"}]
  /\ gps \in GpsStates \cup {offline} /\ gps_signal \subseteq GpsStates
  /\ storage \in {"none", "survey", "global"} /\ {debug_file, gps_task, tone} \subseteq BOOLEAN
  /\ chime \in {"queued", "playing", "done"} /\ lora \in {"none", "ok", "failed"}
  /\ Len(debug_log) <= 6

(* The shared bus has the clock each device needs, on every path through the
   failures of the card: nothing is drawn at the clock of an uninitialised card,
   the card is initialised at no other, and files are read and written at full
   speed ("return SPI0 to normal runtime speed before touching the TFT again",
   main.rs 296; storage.rs 363-368). *)
BusSuitsTheDevice ==
  [][/\ (<<page, boot_status, gps>>' # <<page, boot_status, gps>> => bus = "fast")
     /\ (pc \in {"probe", "card_init"} => bus = "slow")
     /\ (pc = "mount" => bus = "fast")]_vars

(* When main has come to rest the boot rows tell what became of the subsystems,
   and none is left initialising: the card is OK exactly if something can be
   logged to it, the radio exactly if the loop is entered (main.rs 269-432). *)
RowsTellTheOutcome ==
  pc \in {"hold", "running", "abort", "blinking"} =>
    /\ \A s \in Subsystems : boot_status[s] # "Initializing"
    /\ (boot_status["SdCard"] = "Ok") <=> (storage # "none")
    /\ (boot_status["Lora"] = "Ok") <=> (lora = "ok")
    /\ (page = "General") => (lora = "ok")

(* DEBUG.LOG, where there is one, has the boot in full and in order, the stages
   before it was opened included and whether the radio came up or not. *)
DebugLogTellsTheBoot ==
  pc \in {"hold", "running", "abort", "blinking"} /\ storage # "none" /\ debug_file =>
    debug_log = <<"SYSTEM_INIT", "DISPLAY_INIT", "SD_CARD_INIT", "GPS_INIT">>
                  \o (IF lora = "ok" THEN <<"LORA_INIT OK", "INIT_COMPLETE">>
                      ELSE <<"LORA_INIT NOK">>)

(* "Missing/bad storage is non-fatal" (main.rs 266): the boot ends, and only a
   radio that fails keeps the device from its general page; the chime plays in
   either case and no tone is left on. *)
BootEnds ==
  /\ <>(page = "General" \/ lora = "failed")
  /\ <>[](chime = "done" /\ ~tone)
=============================================================================
