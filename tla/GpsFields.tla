------------------------------ MODULE GpsFields -----------------------------
(***************************************************************************)
(* The numbers in GGA and RMC sentences: the integer parsing of gps.rs,    *)
(* which avoids floating point and cuts, pads and rounds digit by digit.   *)
(*                                                                         *)
(* A text is typed character by character; at every moment each field      *)
(* parser is asked what it would make of it.  Texts of up to nine digits   *)
(* reach no limit of u32, so the checked arithmetic of the source is       *)
(* plain arithmetic here.                                                  *)
(***************************************************************************)
EXTENDS Integers, SequencesExt

CONSTANT Keys  \* sequences of sets: the characters tried at each place

Digits == 0 .. 9
Dot == 10
Minus == 11
Plus == 12
Letter == 13

FieldAssumption ==
  \A keys \in Keys : keys \in Seq(SUBSET (Digits \cup {Dot, Minus, Plus, Letter}))

None == <<>>

-----------------------------------------------------------------------------
(* gps.rs                                                                   *)

AllDigits(s) == ToSet(s) \subseteq Digits

NumberOf(s) == FoldLeft(LAMBDA value, digit : 10 * value + digit, 0, s)

parse_digits(s) == IF s # <<>> /\ AllDigits(s) THEN <<NumberOf(s)>> ELSE None

(* What follows the point, cut or filled up to so many places. *)
Fraction(s, places) ==
  IF AllDigits(s)
  THEN <<NumberOf([i \in 1 .. places |-> IF i <= Len(s) THEN s[i] ELSE 0])>>
  ELSE None

(* The first point, or the place behind the text. *)
DecimalIndex(s) ==
  CHOOSE i \in 1 .. Len(s) + 1 :
    /\ i <= Len(s) => s[i] = Dot
    /\ \A j \in 1 .. i - 1 : s[j] # Dot

AfterPoint(s) == SubSeq(s, DecimalIndex(s) + 1, Len(s))

Negative(s) == s # <<>> /\ s[1] = Minus
Unsigned(s) == IF s # <<>> /\ s[1] \in {Minus, Plus} THEN Tail(s) ELSE s

parse_decimal_fixed_i32(s, places) ==
  LET digits == Unsigned(s)
      index == DecimalIndex(digits)
      whole == IF index = 1 THEN <<0>> ELSE parse_digits(SubSeq(digits, 1, index - 1))
      fraction == Fraction(AfterPoint(digits), places)
  IN IF digits = <<>> \/ whole = None \/ fraction = None THEN None
     ELSE LET magnitude == whole[1] * (10 ^ places) + fraction[1]
          IN <<IF Negative(s) THEN -magnitude ELSE magnitude>>

(* Mutant: the division cuts downwards. *)
round_div_floor(value, divisor) ==
  IF value >= 0 THEN (value + (divisor \div 2)) \div divisor
  ELSE (value - (divisor \div 2)) \div divisor

(* Division in Rust cuts towards zero. *)
round_div_signed(value, divisor) ==
  IF value >= 0 THEN (value + (divisor \div 2)) \div divisor
  ELSE -((-value + (divisor \div 2)) \div divisor)

InRange(option, lowest, highest) ==
  IF ToSet(option) \subseteq lowest .. highest THEN option ELSE None

parse_altitude_half_m(s) ==
  LET decimeters == parse_decimal_fixed_i32(s, 1)
  IN IF decimeters = None THEN None
     ELSE InRange(<<round_div_signed(decimeters[1], 5)>>, -32768, 32767)

(* (milli_knots * 51444 + 500000) / 1000000, in two steps for TLC; from 2000
   knots on it is out of range in any case. *)
Knots(milli_knots) ==
  ((milli_knots \div 1000) * 51444 + ((milli_knots % 1000) * 51444 + 500000) \div 1000)
    \div 1000

parse_speed_cm_s(s) ==
  LET milli_knots == parse_decimal_fixed_i32(s, 3)
  IN IF milli_knots = None \/ milli_knots[1] < 0 THEN None
     ELSE InRange(<<Knots(IF milli_knots[1] > 2000000 THEN 2000000 ELSE milli_knots[1])>>,
                  0, 65535)

parse_course_cdeg(s) == InRange(parse_decimal_fixed_i32(s, 2), 0, 35999)

hdop_tenths(s) == InRange(parse_decimal_fixed_i32(s, 1), 0, 255)

parse_nmea_time_millis(s) == Fraction(AfterPoint(s), 3)

max_degrees(hemisphere) == IF hemisphere \in {"N", "S"} THEN 90 ELSE 180

OnEarth(degrees, minutes_e7, hemisphere) ==
  \/ degrees < max_degrees(hemisphere)
  \/ degrees = max_degrees(hemisphere) /\ minutes_e7 = 0

(* Degrees, then two digits of minutes and their fraction. *)
parse_coordinate_e7(s, hemisphere) ==
  LET index == DecimalIndex(s)
      degrees == parse_digits(SubSeq(s, 1, index - 3))
      minutes == parse_digits(SubSeq(s, index - 2, index - 1))
      fraction == Fraction(AfterPoint(s), 7)
  IN IF \/ index < 4 \/ None \in {degrees, minutes, fraction}
        \/ hemisphere \notin {"N", "S", "E", "W"}
     THEN None
     ELSE LET minutes_e7 == minutes[1] * 10000000 + fraction[1]
              magnitude == degrees[1] * 10000000 + minutes_e7 \div 60
          IN IF minutes[1] < 60 /\ OnEarth(degrees[1], minutes_e7, hemisphere)
             THEN <<IF hemisphere \in {"S", "W"} THEN -magnitude ELSE magnitude>>
             ELSE None

-----------------------------------------------------------------------------
VARIABLES keys, text

vars == <<keys, text>>

Init == keys \in Keys /\ text = <<>>

Type ==
  /\ Len(text) < Len(keys)
  /\ \E c \in keys[Len(text) + 1] : text' = Append(text, c)
  /\ UNCHANGED keys

Spec == Init /\ [][Type]_vars

-----------------------------------------------------------------------------
(* What a text means, as a fraction: all its digits, over a power of ten.   *)

Points(s) == {i \in 1 .. Len(s) : s[i] = Dot}
JustDigits(s) == SelectSeq(s, LAMBDA c : c \in Digits)
IsDecimal(s) ==
  /\ ToSet(Unsigned(s)) \subseteq Digits \cup {Dot}
  /\ Cardinality(Points(s)) <= 1
  /\ JustDigits(s) # <<>>

Decimals(s) == IF Points(s) = {} THEN 0 ELSE Len(s) - DecimalIndex(s)
Numerator(s) == NumberOf(JustDigits(s))

(* The magnitude in units of so many decimal places, cut. *)
Magnitude(s, places) ==
  IF Decimals(s) >= places THEN Numerator(s) \div (10 ^ (Decimals(s) - places))
  ELSE Numerator(s) * (10 ^ (places - Decimals(s)))

TenMillionths(s) ==
  MapThenSumSet(LAMBDA i : s[i] * (10 ^ (7 - i)), {i \in 1 .. 7 : i <= Len(s)})

Abs(n) == IF n < 0 THEN -n ELSE n

(* Types, which are ranges: no parser returns what its field cannot hold, and
   no coordinate lies beyond a pole or the date line, so that the validation of
   packet.rs has nothing to refuse (gps.rs 244-270, 476-487). *)
TypeOK ==
  /\ keys \in Keys /\ Len(text) <= Len(keys)
  /\ ToSet(parse_altitude_half_m(text)) \subseteq -32768 .. 32767
  /\ ToSet(parse_speed_cm_s(text)) \subseteq 0 .. 65535
  /\ ToSet(parse_course_cdeg(text)) \subseteq 0 .. 35999
  /\ ToSet(hdop_tenths(text)) \subseteq 0 .. 255
  /\ ToSet(parse_nmea_time_millis(text)) \subseteq 0 .. 999
  /\ \A h \in {"N", "S"} :
       ToSet(parse_coordinate_e7(text, h)) \subseteq -900000000 .. 900000000
  /\ \A h \in {"E", "W"} :
       ToSet(parse_coordinate_e7(text, h)) \subseteq -1800000000 .. 1800000000

(* A decimal text is read to its last place and cut behind it, however many
   digits it has on either side of the point and whatever its sign; of
   anything else nothing comes, or nought (gps.rs 274-326). *)
DecimalsAreCut ==
  Len(text) <= 9 => \A places \in 1 .. 3 :
    LET read == parse_decimal_fixed_i32(text, places) IN
    IF IsDecimal(text)
    THEN /\ Abs(read[1]) = Magnitude(text, places)
         /\ IF Negative(text) THEN read[1] <= 0 ELSE read[1] >= 0
    ELSE ToSet(read) \subseteq {0}

(* With the one decimal the receiver sends, the altitude is the nearest half
   metre, on either side of the sea level (gps.rs 244-249, 328-338). *)
AltitudeIsNearest ==
  IsDecimal(text) /\ Decimals(text) <= 1 /\ parse_altitude_half_m(text) # None =>
    LET half_m == parse_altitude_half_m(text)[1] IN
    /\ Abs(Abs(half_m) * 5 - Magnitude(text, 1)) <= 2
    /\ IF Negative(text) THEN half_m <= 0 ELSE half_m >= 0

(* The speed is the nearest centimetre per second, up to its largest value: a
   knot is 463/9 cm/s, of which the conversion leaves off less than a thousandth
   (gps.rs 251-262). *)
SpeedIsNearest ==
  LET read == parse_speed_cm_s(text)
      milli_knots == parse_decimal_fixed_i32(text, 3)
  IN read # None => Abs(9000 * read[1] - 463 * milli_knots[1])
                       <= 4501 + (milli_knots[1] \div 250)

(* A coordinate is at most 1e-7 degrees short of what the text says, and the
   hemispheres mirror one another (gps.rs 448-500). *)
CoordinateIsExact ==
  LET north == parse_coordinate_e7(text, "N")
      south == parse_coordinate_e7(text, "S")
      whole == NumberOf(SubSeq(text, 1, DecimalIndex(text) - 1))
      minutes_e7 == (whole % 100) * 10000000 + TenMillionths(AfterPoint(text))
  IN /\ (north = None) <=> (south = None)
     /\ north # None =>
          LET short == minutes_e7 - 60 * (north[1] - (whole \div 100) * 10000000) IN
          /\ short \in 0 .. 59
          /\ south[1] = -north[1]
=============================================================================
