------------------------------ MODULE Calendar ------------------------------
(***************************************************************************)
(* From the date and time of an RMC sentence to UTC: parse_rmc_unix_ms of  *)
(* gps.rs and the calendar under it.                                       *)
(*                                                                         *)
(* The reference is a calendar on the wall that is torn off day by day,    *)
(* with a count of the days since 1970.  It knows nothing of the code's    *)
(* sums over years and months, and over the century a two-digit year can   *)
(* name its leap rule is the simple one.                                   *)
(*                                                                         *)
(* Seconds since 1970 exceed the integers of TLC: UTC is the day and the   *)
(* second in it.  The milliseconds are in GpsFields.                       *)
(***************************************************************************)
EXTENDS Integers

CONSTANTS
  MIN_PLAUSIBLE_UTC_YEAR,  \* 2024 in the source
  MAX_PLAUSIBLE_UTC_YEAR,  \* 2079
  Seconds,                 \* seconds of a day at which the sentence may come
  FirstYear,               \* the calendar begins in a year from 1980 on
  LastYear                 \* and ends in one to 2079

SecondsOfADay == 0 .. 24 * 3600 - 1

CalendarAssumption ==
  /\ {MIN_PLAUSIBLE_UTC_YEAR, MAX_PLAUSIBLE_UTC_YEAR} \subseteq Nat
  /\ Seconds \subseteq SecondsOfADay
  /\ FirstYear \in 1980 .. 2079 /\ LastYear \in FirstYear .. 2079
  /\ LastYear <= MAX_PLAUSIBLE_UTC_YEAR

None == [day |-> -1, second |-> -1]

-----------------------------------------------------------------------------
(* gps.rs                                                                   *)

(* Mutant: the year 2000 is forgotten. *)
is_leap_year_not_2000(year) == year % 4 = 0 /\ year % 100 # 0

is_leap_year(year) == (year % 4 = 0 /\ year % 100 # 0) \/ year % 400 = 0

days_in_month(year, month) ==
  CASE month \in {1, 3, 5, 7, 8, 10, 12} -> 31
    [] month \in {4, 6, 9, 11} -> 30
    [] month = 2 -> IF is_leap_year(year) THEN 29 ELSE 28

DaysBeforeYear[year \in 1970 .. 2079] ==
  IF year = 1970 THEN 0
  ELSE DaysBeforeYear[year - 1] + (IF is_leap_year(year - 1) THEN 366 ELSE 365)

DaysBeforeMonth(year) ==
  LET days[month \in 1 .. 12] ==
        IF month = 1 THEN 0 ELSE days[month - 1] + days_in_month(year, month - 1)
  IN  days

IsDate(year, month, day) ==
  /\ year >= 1970
  /\ month \in 1 .. 12
  /\ day # 0 /\ day <= days_in_month(year, month)

days_since_unix_epoch(year, month, day) ==
  DaysBeforeYear[year] + DaysBeforeMonth(year)[month] + (day - 1)

full_year(year_2) == IF year_2 >= 80 THEN 1900 + year_2 ELSE 2000 + year_2

IsTime(hour, minute, second) == hour < 24 /\ minute < 60 /\ second < 60

parse_rmc_unix(day, month, year_2, hour, minute, second) ==
  LET year == full_year(year_2) IN
  IF /\ year \in MIN_PLAUSIBLE_UTC_YEAR .. MAX_PLAUSIBLE_UTC_YEAR
     /\ IsTime(hour, minute, second)
     /\ IsDate(year, month, day)
  THEN [day |-> days_since_unix_epoch(year, month, day),
        second |-> hour * 3600 + minute * 60 + second]
  ELSE None

-----------------------------------------------------------------------------
(* The calendar on the wall.                                                *)

VARIABLES year, month, day, count, second

vars == <<year, month, day, count, second>>

LastOf(y, m) ==
  IF m = 2 THEN IF y % 4 = 0 THEN 29 ELSE 28 ELSE 30 + ((m + (m \div 8)) % 2)

(* Ten years of 365 days and two leap days before 1980. *)
Init ==
  /\ year = FirstYear /\ month = 1 /\ day = 1
  /\ count = 3652 + 365 * (FirstYear - 1980) + ((FirstYear - 1980 + 3) \div 4)
  /\ second \in Seconds

NextDay ==
  /\ day < LastOf(year, month)
  /\ day' = day + 1 /\ UNCHANGED <<month, year>>

NextMonth ==
  /\ day = LastOf(year, month) /\ month < 12
  /\ day' = 1 /\ month' = month + 1 /\ UNCHANGED year

NextYear ==
  /\ day = 31 /\ month = 12 /\ year < LastYear
  /\ day' = 1 /\ month' = 1 /\ year' = year + 1

Next ==
  /\ NextDay \/ NextMonth \/ NextYear
  /\ count' = count + 1
  /\ second' \in Seconds

Spec == Init /\ [][Next]_vars

-----------------------------------------------------------------------------
Read(d, m, s) ==
  parse_rmc_unix(d, m, year % 100, s \div 3600, (s % 3600) \div 60, s % 60)

NoTimes == {<<24, 0, 0>>, <<12, 60, 0>>, <<23, 59, 60>>}

Instants == [day : 0 .. 40176, second : SecondsOfADay] \cup {None}

(* Types; what is read, even where a clock shows no such time, is nothing or a
   second of a day of the century. *)
TypeOK ==
  /\ year \in FirstYear .. LastYear /\ month \in 1 .. 12 /\ day \in 1 .. 31
  /\ count \in Nat /\ second \in Seconds
  /\ Read(day, month, second) \in Instants
  /\ \A t \in NoTimes : parse_rmc_unix(day, month, year % 100, t[1], t[2], t[3]) \in Instants

(* Every second of every plausible day gets its number: the sums over years and
   months never lose or invent a day, over any month end and 29th of February,
   and the day before MIN_PLAUSIBLE_UTC_YEAR and all before it are refused
   (gps.rs 350-377, 407-444). *)
EverySecondIsNumbered ==
  Read(day, month, second) =
    IF year >= MIN_PLAUSIBLE_UTC_YEAR THEN [day |-> count, second |-> second] ELSE None

(* What no calendar and no clock shows is refused, in any year: the day after
   the last of a month, a day or month 0, a month 13, 24:00:00, a leap second
   (gps.rs 363-365, 407-415). *)
NothingElseIsADate ==
  /\ day = LastOf(year, month) =>
       /\ \A d \in {0} \cup (day + 1) .. 99 : Read(d, month, second) = None
       /\ \A m \in {0} \cup 13 .. 99 : Read(day, m, second) = None
  /\ \A t \in NoTimes : parse_rmc_unix(day, month, year % 100, t[1], t[2], t[3]) = None
=============================================================================
