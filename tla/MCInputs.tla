------------------------------ MODULE MCInputs ------------------------------
(* Instance for TLC of what reaches the receiver loop, five modules, each for itself.
   Of packets: Receiver with half-second clock steps, work of up to a second, a
   channel of one, and the tolerance of four that covers what these add up to; and
   PacketCodec, what their bytes come to.  Of characters: NmeaLines with a line for
   four of them; GpsFields; Calendar over the whole century of two-digit years.  A
   behaviour is one of the five; the variables of the others keep their initial
   values.

   Of the keys one sequence reaches every shape of a short decimal number, one
   the i16, u16 and u8 limits, and one the poles, the date line and the sixtieth
   minute. *)
EXTENDS Inputs

CONSTANTS
  Samples, Probed, Errors, FrameLengths, BodyBytes, ExpectedSender, ExpectedSurvey

VARIABLES
  part,                                        \* the specification that runs
  packet, frame, origin, heard, decoded,       \* PacketCodec
  keys, text                                   \* GpsFields

Format == INSTANCE PacketFormat
Codec == INSTANCE PacketCodec WITH received <- heard, Lengths <- FrameLengths

Dot == 10
Minus == 11
Plus == 12
Letter == 13

AnyShape == [i \in 1 .. 6 |-> {0, 2, 3, 7, 9, Dot} \cup
                              (IF i <= 2 THEN {Minus, Plus, Letter} ELSE IF i = 6 THEN {Letter} ELSE {})]

Limits ==
  <<{Minus, 1, 3, 6}, {1, 2, 5, 6}, {0, 3, 7}, {3, 7, 8, Dot}, {2, 4, 5, 8}, {Dot}, {0, 4, 5, 9}, {0, 5}>>

Coordinates ==
  <<{0, 1}, {0, 8, 9}, {0, 9}, {0, 5, 6}, {0, 9, Dot}, {Dot}, {0, 9}, {0, 5}, {1, Letter}, {9}, {7}, {0, 1}, {9}, {9}>>

MCKeys == {AnyShape, Limits, Coordinates}

Numbers == INSTANCE GpsFields WITH Keys <- MCKeys

ASSUME MCInputsAssumption ==
  /\ ReceiverAssumption
  /\ Codec!PacketAssumption
  /\ Lines!NmeaAssumption /\ Numbers!FieldAssumption /\ Cal!CalendarAssumption

codecvars == <<packet, frame, origin, heard, decoded>>
linevars == <<sentence, length, place, line, parsed, clean>>
fieldvars == <<keys, text>>
calvars == <<year, month, day, count, second>>
mcvars == <<part, vars, codecvars, linevars, fieldvars, calvars>>

(* What the initial values leave open is settled in the parts that do not run. *)
MCInit ==
  /\ part \in {"path", "codec", "lines", "fields", "calendar"}
  /\ Init /\ Codec!Init /\ Lines!Init /\ Numbers!Init /\ Cal!Init
  /\ part # "codec" => packet = Format!GoldenPacket
  /\ part # "lines" => length = 0 /\ place = 1
  /\ part # "fields" => keys = Limits
  /\ part # "calendar" => second = 0

OnPath ==
  /\ part = "path" /\ Next
  /\ UNCHANGED <<part, codecvars, linevars, fieldvars, calvars>>
OnFrames ==
  /\ part = "codec" /\ Codec!Next
  /\ UNCHANGED <<part, vars, linevars, fieldvars, calvars>>
PutTogether ==
  /\ part = "lines" /\ Lines!Next
  /\ UNCHANGED <<part, vars, codecvars, fieldvars, calvars>>
ReadFields ==
  /\ part = "fields" /\ Numbers!Type
  /\ UNCHANGED <<part, vars, codecvars, linevars, calvars>>
ReadDates ==
  /\ part = "calendar" /\ Cal!Next
  /\ UNCHANGED <<part, vars, codecvars, linevars, fieldvars>>

MCNext == OnPath \/ OnFrames \/ PutTogether \/ ReadFields \/ ReadDates

MCSpec == MCInit /\ [][MCNext]_mcvars

-----------------------------------------------------------------------------
(* Both sides mean the same by a frame: what encode() accepts comes out of
   decode() as it went in, what decode() accepts a sender of this code could have
   sent, and the golden packet passes the self test of the boot (packet.rs
   163-353, 379-425). *)
FormatIsShared == Codec!RoundTrip /\ Codec!Canonical /\ Codec!GoldenSelfTest

(* A frame damaged on the air is a packet of nobody, and the link is kept alive
   by all packets of the expected sender and survey and by no others (packet.rs
   223-283, main.rs 789-918). *)
OnlyTruePacketsCount == Codec!DamageIsDetected /\ Codec!OnlyExpectedCount

(* The numbers in a sentence mean what their text says: a decimal is cut behind
   its last place, altitude and speed are the nearest of their unit, a coordinate
   is at most 1e-7 degrees short and the hemispheres mirror one another; and no
   parser returns what its field in the packet cannot hold (gps.rs 244-338,
   448-500). *)
NumbersAreTrue ==
  part = "fields" =>
    /\ Numbers!TypeOK
    /\ Numbers!DecimalsAreCut
    /\ Numbers!AltitudeIsNearest
    /\ Numbers!SpeedIsNearest
    /\ Numbers!CoordinateIsExact

-----------------------------------------------------------------------------
OrNone(values) == {Format!None} \cup {Format!Some(v) : v \in values}

(* Both ends of each field, and one step past them where its type allows. *)
Ends ==
  [sender_mode |-> {0, 15, 16, 255},
   sender_system_id |-> {<<1, 0, \h5500, \h4D52>>, <<65535, 65535, 65535, 65535>>},
   survey_id |-> {<<0, 0>>, <<65535, 65535>>},
   sequence |-> {0, 255, 256, 65536, Format!MAX_SEQUENCE, Format!MAX_SEQUENCE + 1},
   gps_unix_time |-> OrNone({<<0, 0>>, <<65534, 65535>>, Format!UNKNOWN_U32}),
   latitude_e7 |->
     OrNone({Format!UNKNOWN_I32, -900000001, -900000000, -1, 0, 900000000, 900000001}),
   longitude_e7 |->
     OrNone({Format!UNKNOWN_I32, -1800000001, -1800000000, -1, 0, 1800000000, 1800000001}),
   altitude_half_m |-> OrNone({Format!UNKNOWN_I16, -32767, -1, 32767}),
   speed_cm_s |-> OrNone({0, 65534, Format!UNKNOWN_U16}),
   course_cdeg |-> OrNone({0, 35999, 36000, Format!UNKNOWN_U16}),
   gps_fix_class |-> 0 .. 3,
   satellites |-> {0, 63, 64, 255},
   hdop_tenths |-> OrNone({0, 254, Format!UNKNOWN_U8}),
   temperature_centi_c |-> OrNone({Format!UNKNOWN_I16, -32767, -1, 32767}),
   pressure_10pa |-> OrNone({0, 65534, Format!UNKNOWN_U16}),
   humidity_half_percent |-> OrNone({0, 200, 201, Format!UNKNOWN_U8}),
   battery_soc_percent |-> OrNone({0, 100, 101, Format!UNKNOWN_U8})]

MCSamples ==
  {Format!GoldenPacket} \cup
  UNION {{[Format!GoldenPacket EXCEPT ![f] = v] : v \in Ends[f]} : f \in DOMAIN Ends}

(* The golden packet, and the same without the time. *)
MCProbed ==
  {Format!GoldenPacket,
   [Format!GoldenPacket EXCEPT !.gps_unix_time = Format!None]}

(* Bursts of up to 32 bits from any bit on: all of them inverted, or only the *)
(* ends.                                                                      *)
MCErrors ==
  UNION {{{b}, b .. b + n, {b, b + n}} : b \in 0 .. 383, n \in {1, 7, 12, 31}}

MCExpectedSender == Format!GoldenPacket.sender_system_id
MCExpectedSurvey == Format!GoldenPacket.survey_id

MCWildSequences == {9000, 9002}
MCStalls == {0, 500, 1000}
=============================================================================
