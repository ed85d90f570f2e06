---------------------------- MODULE BootSession -----------------------------
(***************************************************************************)
(* The start of storage.rs on a card that outlives it: allocate a boot     *)
(* session number from BOOT.NXT, create its directory, open its files, or  *)
(* fall back to the global DEBUG.LOG.  Every call of the file system may   *)
(* fail, and the power may go between any two of them.                     *)
(*                                                                         *)
(* BOOT.NXT is its value, or None when it is missing, empty or unreadable: *)
(* opening it truncates it on the card at once, the new value is there     *)
(* after the flush.  The handles the volume manager has open are sets.     *)
(***************************************************************************)
EXTENDS Integers, Sequences, FiniteSets

CONSTANTS
  MAX_BOOT_SESSION,    \* 9_999_999 in the source
  InitialCounters,     \* BOOT.NXT on the cards considered
  InitialDirectories,  \* sets of sessions on the cards considered
  MaxBoots,            \* bound: power-ons
  MaxFaults            \* bound: calls that fail

None == -1

SessionAssumption ==
  /\ MAX_BOOT_SESSION \in Nat \ {0}
  /\ {MaxBoots, MaxFaults} \subseteq Nat
  /\ InitialCounters \subseteq Nat \cup {None}
  /\ InitialDirectories \subseteq SUBSET (1 .. MAX_BOOT_SESSION)

VARIABLES
  counter,      \* on the card: BOOT.NXT
  directories,  \* on the card: the Bxxxxxxx directories
  pc,           \* the step of the initialisation, or the mode it ended in
  session,      \* next_session
  volume_open, dirs, files,  \* open handles
  boots, faults,
  faulted,      \* history: a call failed in this boot
  allocated,    \* history: numbers allocate_boot_session has returned
  reused,       \* history: it returned one of them again
  recorded      \* history: sessions that were recorded, in order

card == <<counter, directories>>
handles == <<volume_open, dirs, files>>
history == <<allocated, reused, recorded>>
vars == <<card, pc, session, handles, boots, faults, faulted, history>>

(* The files of a session in the order they are opened. *)
SessionFiles == <<"LOCAL.LOG", "EVENT.LOG", "META.TXT", "RX.LOG", "DEBUG.LOG">>
Modes == {"survey", "global", "offline"}

Init ==
  /\ counter \in InitialCounters
  /\ directories \in InitialDirectories
  /\ pc = "off" /\ session = None
  /\ volume_open = FALSE /\ dirs = {} /\ files = {}
  /\ boots = 0 /\ faults = 0 /\ faulted = FALSE
  /\ allocated = {} /\ reused = FALSE /\ recorded = <<>>

PowerOn ==
  /\ pc = "off"
  /\ boots < MaxBoots
  /\ boots' = boots + 1
  /\ faulted' = FALSE
  /\ pc' = "card"
  /\ UNCHANGED <<card, session, handles, faults, history>>

(* The power goes; the handles and everything in RAM are gone with it. *)
PowerLoss ==
  /\ pc # "off"
  /\ pc' = "off" /\ session' = None
  /\ volume_open' = FALSE /\ dirs' = {} /\ files' = {}
  /\ UNCHANGED <<card, boots, faults, faulted, history>>

-----------------------------------------------------------------------------
(* One call fails: the step closes what it holds and gives up. *)
Fault ==
  /\ faults < MaxFaults
  /\ faults' = faults + 1
  /\ faulted' = TRUE

NoFault == UNCHANGED <<faults, faulted>>

GiveUp(next_pc, closed_dirs, closed_files) ==
  /\ pc' = next_pc
  /\ dirs' = dirs \ closed_dirs
  /\ files' = files \ closed_files
  /\ UNCHANGED <<session, volume_open, boots, history>>

(* One directory leads to the next; the held one is closed either way. *)
OpenDirectory(from, to, held, name) ==
  /\ pc = from
  /\ \/ /\ NoFault
        /\ pc' = to
        /\ dirs' = (dirs \ {held}) \cup {name}
        /\ UNCHANGED <<session, volume_open, files, boots, history>>
     \/ Fault /\ GiveUp("fallback", {held}, {})
  /\ UNCHANGED card

(* The presence probe and the initialisation of the card. *)
InitCard ==
  /\ pc = "card"
  /\ \/ NoFault /\ pc' = "system log"
     \/ Fault /\ pc' = "offline"
  /\ UNCHANGED <<card, session, handles, boots, history>>

(* SYS_LOG.TXT gets its line, through a volume, a directory and a file that are
   closed again.  A failure is only a warning, but when it is the closing of the
   volume that failed the volume stays open. *)
initialize_system_log ==
  /\ pc = "system log"
  /\ \/ NoFault /\ UNCHANGED volume_open
     \/ Fault /\ volume_open' \in BOOLEAN
  /\ pc' = "mount"
  /\ UNCHANGED <<card, session, dirs, files, boots, history>>

(* A volume that is open cannot be opened again. *)
MountVolume ==
  /\ pc = "mount"
  /\ \/ /\ ~volume_open
        /\ NoFault
        /\ volume_open' = TRUE
        /\ pc' = "root"
        /\ UNCHANGED <<session, dirs, files, boots, history>>
     \/ volume_open /\ NoFault /\ GiveUp("offline", {}, {})
     \/ Fault /\ GiveUp("offline", {}, {})
  /\ UNCHANGED card

OpenRoot == OpenDirectory("root", "survey root", "none", "/")
EnsureSurveyRoot == OpenDirectory("survey root", "survey id", "/", "/SURVEY")
EnsureSurvey == OpenDirectory("survey id", "choose", "/SURVEY", "/SURVEY/id")

-----------------------------------------------------------------------------
(* Mutant: the scan fills the first gap. *)
find_first_gap ==
  CHOOSE n \in 0 .. MAX_BOOT_SESSION : n + 1 \notin directories /\ 1 .. n \subseteq directories

find_highest_boot_session ==
  IF directories = {} THEN 0
  ELSE CHOOSE d \in directories : \A e \in directories : e <= d

InRange(n) == 1 <= n /\ n <= MAX_BOOT_SESSION

(* The number BOOT.NXT proposes, or the scan when it is no number in range or
   that directory exists already. *)
Proposed == IF InRange(counter) THEN counter ELSE find_highest_boot_session + 1

(* Mutant: the counter is believed. *)
NextSessionUnchecked == Proposed

NextSession ==
  IF Proposed \in directories THEN find_highest_boot_session + 1 ELSE Proposed

(* What can be seen of the card when a read fails: no counter, or no such
   directory. *)
MisreadSessions == {find_highest_boot_session + 1, Proposed}

ChooseSession ==
  /\ pc = "choose"
  /\ \/ NoFault /\ session' = NextSession
     \/ Fault /\ session' \in MisreadSessions \cup {None}
  /\ IF InRange(session')
       THEN pc' = "truncate" /\ UNCHANGED dirs
       ELSE pc' = "fallback" /\ dirs' = dirs \ {"/SURVEY/id"}
  /\ UNCHANGED <<card, volume_open, files, boots, history>>

(* write_boot_session_counter: the file is truncated as it is opened, which a
   failed opening may have done too ... *)
TruncateCounter ==
  /\ pc = "truncate"
  /\ \/ /\ NoFault
        /\ counter' = None
        /\ files' = files \cup {"BOOT.NXT"}
        /\ pc' = "write"
        /\ UNCHANGED <<session, volume_open, dirs, boots, history>>
     \/ /\ Fault
        /\ GiveUp("fallback", {"/SURVEY/id"}, {})
        /\ counter' \in {counter, None}
  /\ UNCHANGED directories

(* ... and flushed with the following number.  A failed flush may have reached
   the card, or may reach it as the file is closed. *)
WriteCounter ==
  /\ pc = "write"
  /\ \/ /\ NoFault
        /\ counter' = session + 1
        /\ files' = files \ {"BOOT.NXT"}
        /\ pc' = "make"
        /\ reused' = (reused \/ session \in allocated)
        /\ allocated' = allocated \cup {session}
        /\ UNCHANGED <<session, volume_open, dirs, boots, recorded>>
     \/ /\ Fault
        /\ GiveUp("fallback", {"/SURVEY/id"}, {"BOOT.NXT"})
        /\ counter' \in {None, session + 1}
  /\ UNCHANGED directories

(* An existing directory is an error, and a failed call may have made it. *)
MakeDirectory ==
  /\ pc = "make"
  /\ \/ /\ NoFault
        /\ session \notin directories
        /\ directories' = directories \cup {session}
        /\ pc' = "open"
        /\ UNCHANGED <<session, handles, boots, history>>
     \/ /\ session \in directories
        /\ NoFault
        /\ GiveUp("fallback", {"/SURVEY/id"}, {})
        /\ UNCHANGED directories
     \/ /\ Fault
        /\ GiveUp("fallback", {"/SURVEY/id"}, {})
        /\ directories' \in {directories, directories \cup {session}}
  /\ UNCHANGED counter

OpenSession ==
  /\ pc = "open"
  /\ \/ /\ NoFault
        /\ dirs' = (dirs \ {"/SURVEY/id"}) \cup {"session"}
        /\ pc' = "LOCAL.LOG"
        /\ UNCHANGED <<session, volume_open, files, boots, history>>
     \/ Fault /\ GiveUp("fallback", {"/SURVEY/id"}, {})
  /\ UNCHANGED card

(* Mutant: only the newest file is closed. *)
ClosesNewest(name) ==
  IF name = "LOCAL.LOG" THEN {}
  ELSE IF name = "EVENT.LOG" THEN {"LOCAL.LOG"}
  ELSE {"EVENT.LOG"}

(* The files, one after the other: META.TXT is written and closed, DEBUG.LOG is
   optional, for any other failure the code lists what is closed. *)
ClosedOnFailure(name) ==
  IF name = "LOCAL.LOG" THEN {}
  ELSE IF name = "EVENT.LOG" THEN {"LOCAL.LOG"}
  ELSE {"LOCAL.LOG", "EVENT.LOG"}

Ready == recorded' = Append(recorded, session) /\ UNCHANGED <<allocated, reused>>

OpenFile(i) ==
  LET name == SessionFiles[i]
      last == i = Len(SessionFiles) IN
  /\ pc = name
  /\ \/ /\ NoFault
        /\ files' = IF name = "META.TXT" THEN files ELSE files \cup {name}
        /\ pc' = IF last THEN "survey" ELSE SessionFiles[i + 1]
        /\ IF last THEN Ready ELSE UNCHANGED history
        /\ UNCHANGED <<session, volume_open, dirs, boots>>
     \/ ~last /\ Fault /\ GiveUp("fallback", {"session"}, ClosedOnFailure(name))
     \/ last /\ Fault /\ pc' = "survey" /\ Ready /\ UNCHANGED <<session, handles, boots>>
  /\ UNCHANGED card

(* No survey session: the global DEBUG.LOG, or no storage at all. *)
initialize_global_debug_log ==
  /\ pc = "fallback"
  /\ \/ /\ NoFault
        /\ dirs' = dirs \cup {"/"} /\ files' = files \cup {"DEBUG.LOG"}
        /\ pc' = "global"
        /\ UNCHANGED <<session, volume_open, boots, history>>
     \/ /\ Fault
        /\ pc' = "offline" /\ volume_open' = FALSE
        /\ UNCHANGED <<session, dirs, files, boots, history>>
  /\ UNCHANGED card

Next ==
  \/ PowerOn
  \/ PowerLoss
  \/ InitCard
  \/ initialize_system_log
  \/ MountVolume
  \/ OpenRoot
  \/ EnsureSurveyRoot
  \/ EnsureSurvey
  \/ ChooseSession
  \/ TruncateCounter
  \/ WriteCounter
  \/ MakeDirectory
  \/ OpenSession
  \/ \E i \in DOMAIN SessionFiles : OpenFile(i)
  \/ initialize_global_debug_log

Spec == Init /\ [][Next]_vars

-----------------------------------------------------------------------------
Steps == {"off", "card", "system log", "mount", "root", "survey root", "survey id", "choose", "truncate", "write",
          "make", "open", "fallback"}
           \cup {SessionFiles[i] : i \in DOMAIN SessionFiles}

(* Types: only numbers from 1 to MAX_BOOT_SESSION become directories. *)
TypeOK ==
  /\ counter \in Nat \cup {None}
  /\ directories \subseteq 1 .. MAX_BOOT_SESSION
  /\ pc \in Steps \cup Modes
  /\ session \in Nat \cup {None}
  /\ boots \in 0 .. MaxBoots /\ faults \in 0 .. MaxFaults
  /\ {faulted, reused, volume_open} \subseteq BOOLEAN
  /\ allocated \subseteq 1 .. MAX_BOOT_SESSION
  /\ recorded \in Seq(1 .. MAX_BOOT_SESSION)

(* Sessions are recorded under growing numbers, so never two in one directory,
   wherever the power went and whatever failed before, and however stale the
   counter was to begin with (storage.rs 1530-1602). *)
RecordedNumbersGrow ==
  \A i, j \in DOMAIN recorded : i < j => recorded[i] < recorded[j]

(* A boot in which nothing fails records a session while a number is left: no
   earlier crash or failure makes the allocation get stuck (storage.rs
   1536-1580). *)
CleanBootRecords ==
  pc \in {"fallback", "global", "offline"} /\ ~faulted => MAX_BOOT_SESSION \in directories

(* Each mode holds exactly its own handles, by whatever failure it was reached:
   nothing leaks into the few the volume manager has (storage.rs 1248-1427). *)
HandlesMatchMode ==
  /\ pc \in {"survey", "global", "fallback"} => volume_open
  /\ pc \in {"off", "card", "system log"} => ~volume_open
  /\ pc = "survey" => /\ dirs = {"session"}
                      /\ {"LOCAL.LOG", "EVENT.LOG", "RX.LOG"} \subseteq files
                      /\ files \subseteq {"LOCAL.LOG", "EVENT.LOG", "RX.LOG", "DEBUG.LOG"}
  /\ pc = "global" => dirs = {"/"} /\ files = {"DEBUG.LOG"}
  /\ pc \in {"offline", "fallback", "off"} => dirs = {} /\ files = {}

(* "A sudden power loss can therefore leave a harmless numbering gap, but it
   cannot cause a later boot to reuse an already allocated session number"
   (storage.rs 1298-1301). *)
AllocatedOnce == ~reused
=============================================================================
