------------------------------- MODULE Inputs -------------------------------
(***************************************************************************)
(* What reaches the receiver loop: packets (Receiver), and from the GPS    *)
(* receiver characters that become lines (NmeaLines) and dates (Calendar). *)
(***************************************************************************)
EXTENDS Receiver

CONSTANTS
  NMEA_LINE_CAPACITY, Lengths, Sentences,                                      \* NmeaLines
  MIN_PLAUSIBLE_UTC_YEAR, MAX_PLAUSIBLE_UTC_YEAR, Seconds, FirstYear, LastYear \* Calendar

VARIABLES
  sentence, length, place, line, parsed, clean,  \* NmeaLines
  year, month, day, count, second                \* Calendar

Lines == INSTANCE NmeaLines
Cal == INSTANCE Calendar

(* A sentence that comes whole behind an LF that came is parsed exactly as it
   was sent, whatever was lost before and however the lines overflowed; and no
   character is used twice (gps.rs 85-138). *)
SentencesArePutTogether == Lines!CleanSentenceIsParsed /\ Lines!EachCharacterOnce

(* Every second of every plausible day gets its number, over any month end and
   29th of February, and what no calendar and no clock shows is refused
   (gps.rs 350-377, 407-444). *)
DatesAreTrue == Cal!EverySecondIsNumbered /\ Cal!NothingElseIsADate
=============================================================================
