------------------------------ MODULE Storage -------------------------------
(***************************************************************************)
(* storage.rs: how it starts, BootSession, beside what it does at run time,*)
(* LogStore.  The second begins with what the first has opened, and each   *)
(* has its own specification: this module names what the first promises.   *)
(***************************************************************************)
EXTENDS LogStore

CONSTANTS MAX_BOOT_SESSION, InitialCounters, InitialDirectories, MaxBoots, MaxFaults

VARIABLES
  counter, directories, pc, session, volume_open, dirs, files, boots, faults,
  faulted, allocated, reused, recorded

Session == INSTANCE BootSession

(* Sessions are recorded under growing numbers, so never two in one directory,
   wherever the power went and whatever failed before (storage.rs 1530-1602). *)
RecordedNumbersGrow == Session!RecordedNumbersGrow

(* A boot in which nothing fails records a session while a number is left
   (storage.rs 1536-1580). *)
CleanBootRecords == Session!CleanBootRecords

(* Each mode holds exactly its own handles, by whatever failure it was reached
   (storage.rs 1248-1427). *)
HandlesMatchMode == Session!HandlesMatchMode

(* "it cannot cause a later boot to reuse an already allocated session number"
   (storage.rs 1298-1301). *)
AllocatedOnce == Session!AllocatedOnce
=============================================================================
