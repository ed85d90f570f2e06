---------------------------- MODULE PacketFormat ----------------------------
(***************************************************************************)
(* TelemetryV1 of packet.rs: encode and decode with their ranges, the      *)
(* on-air sentinels and the application CRC.                               *)
(*                                                                         *)
(* A frame is a sequence of bytes.  Integers of more than 31 bits are      *)
(* sequences of 16-bit halves, least first: the System ID has four, the    *)
(* Survey ID and the UTC two.  Some(v) is <<v>> and None is <<>>.          *)
(***************************************************************************)
EXTENDS Integers, SequencesExt, FiniteSetsExt

TELEMETRY_V1_LEN == 48
TELEMETRY_V1_CRC_OFFSET == 44
PROTOCOL_MARKER == 71
PROTOCOL_VERSION == 1
PACKET_TYPE_TELEMETRY == 1
MAX_SEQUENCE == \hFFFFFF

UNKNOWN_U32 == <<65535, 65535>>
UNKNOWN_I32 == -2147483647 - 1
UNKNOWN_U16 == 65535
UNKNOWN_I16 == -32768
UNKNOWN_U8 == 255

None == <<>>
Some(v) == <<v>>
unwrap_or(option, default) == IF option = None THEN default ELSE option[1]

Byte == 0 .. 255
Refused == <<>>
-----------------------------------------------------------------------------
(* Little-endian bytes of integers, and back. *)
LE16(x) == <<x % 256, (x \div 256) % 256>>
LE32(x) == LE16(x) \o LE16(x \div 65536)
Halves(hs) == FlattenSeq([i \in 1 .. Len(hs) |-> LE16(hs[i])])

read_u16_le(bytes, at) == bytes[at + 1] + 256 * bytes[at + 2]
read_i16_le(bytes, at) ==
  LET u == read_u16_le(bytes, at) IN IF u < 32768 THEN u ELSE u - 65536
read_i32_le(bytes, at) == read_u16_le(bytes, at) + 65536 * read_i16_le(bytes, at + 2)
read_halves(bytes, at, n) == [i \in 1 .. n |-> read_u16_le(bytes, at + 2 * (i - 1))]

decode_optional(value, unknown) == IF value = unknown THEN None ELSE Some(value)

-----------------------------------------------------------------------------
(* crc32_ieee: a 32-bit word is the set of its bits that are 1. *)
Bits(x) == {i \in 0 .. 15 : (x \div 2 ^ i) % 2 = 1}
Word == 0 .. 31
Polynomial == Bits(\h8320) \cup {i + 16 : i \in Bits(\hEDB8)}

ShiftOut(crc) ==
  LET shifted == {i - 1 : i \in crc \ {0}}
  IN  IF 0 \in crc THEN SymDiff(shifted, Polynomial) ELSE shifted

crc32_ieee(data) ==
  LET round[crc \in SUBSET Word, n \in 0 .. 8] ==
        IF n = 0 THEN crc ELSE ShiftOut(round[crc, n - 1])
      after[n \in 0 .. Len(data)] ==
        IF n = 0 THEN Word ELSE round[SymDiff(after[n - 1], Bits(data[n])), 8]
  IN  Word \ after[Len(data)]

CrcBytes(crc) ==
  [k \in 1 .. 4 |-> MapThenSumSet(LAMBDA i : 2 ^ (i % 8), {i \in crc : i \div 8 = k - 1})]

Body(bytes) == SubSeq(bytes, 1, TELEMETRY_V1_CRC_OFFSET)
StoredCrc(bytes) == SubSeq(bytes, TELEMETRY_V1_CRC_OFFSET + 1, TELEMETRY_V1_LEN)
Sealed(body) == body \o CrcBytes(crc32_ieee(body))

-----------------------------------------------------------------------------
Within(option, S) == ToSet(option) \subseteq S
IsNot(option, sentinel) == option # Some(sentinel)

(* Mutant: the bits that do not fit are left to the masks of encode(). *)
validate_options(p) ==
  /\ IsNot(p.gps_unix_time, UNKNOWN_U32)
  /\ Within(p.latitude_e7, -900000000 .. 900000000)
  /\ Within(p.longitude_e7, -1800000000 .. 1800000000)
  /\ IsNot(p.altitude_half_m, UNKNOWN_I16)
  /\ IsNot(p.speed_cm_s, UNKNOWN_U16)
  /\ Within(p.course_cdeg, 0 .. 35999)
  /\ IsNot(p.hdop_tenths, UNKNOWN_U8)
  /\ IsNot(p.temperature_centi_c, UNKNOWN_I16)
  /\ IsNot(p.pressure_10pa, UNKNOWN_U16)
  /\ Within(p.humidity_half_percent, 0 .. 200)
  /\ Within(p.battery_soc_percent, 0 .. 100)

(* validate() is Ok; which error it gives otherwise is looked at by nobody. *)
validate(p) ==
  /\ p.sender_mode <= 15
  /\ p.sequence <= MAX_SEQUENCE
  /\ p.satellites <= 63
  /\ validate_options(p)

encode(p) ==
  Sealed(
    <<PROTOCOL_MARKER, PROTOCOL_VERSION, PACKET_TYPE_TELEMETRY * 16 + (p.sender_mode % 16)>>
    \o Halves(p.sender_system_id)
    \o Halves(p.survey_id)
    \o SubSeq(LE32(p.sequence), 1, 3)
    \o Halves(unwrap_or(p.gps_unix_time, UNKNOWN_U32))
    \o LE32(unwrap_or(p.latitude_e7, UNKNOWN_I32))
    \o LE32(unwrap_or(p.longitude_e7, UNKNOWN_I32))
    \o LE16(unwrap_or(p.altitude_half_m, UNKNOWN_I16))
    \o LE16(unwrap_or(p.speed_cm_s, UNKNOWN_U16))
    \o LE16(unwrap_or(p.course_cdeg, UNKNOWN_U16))
    \o <<p.gps_fix_class * 64 + (p.satellites % 64), unwrap_or(p.hdop_tenths, UNKNOWN_U8)>>
    \o LE16(unwrap_or(p.temperature_centi_c, UNKNOWN_I16))
    \o LE16(unwrap_or(p.pressure_10pa, UNKNOWN_U16))
    \o <<unwrap_or(p.humidity_half_percent, UNKNOWN_U8),
         unwrap_or(p.battery_soc_percent, UNKNOWN_U8)>>)

Fields(b) ==
  [sender_mode |-> b[3] % 16,
   sender_system_id |-> read_halves(b, 3, 4),
   survey_id |-> read_halves(b, 11, 2),
   sequence |-> read_u16_le(b, 15) + 65536 * b[18],
   gps_unix_time |-> decode_optional(read_halves(b, 18, 2), UNKNOWN_U32),
   latitude_e7 |-> decode_optional(read_i32_le(b, 22), UNKNOWN_I32),
   longitude_e7 |-> decode_optional(read_i32_le(b, 26), UNKNOWN_I32),
   altitude_half_m |-> decode_optional(read_i16_le(b, 30), UNKNOWN_I16),
   speed_cm_s |-> decode_optional(read_u16_le(b, 32), UNKNOWN_U16),
   course_cdeg |-> decode_optional(read_u16_le(b, 34), UNKNOWN_U16),
   gps_fix_class |-> b[37] \div 64,
   satellites |-> b[37] % 64,
   hdop_tenths |-> decode_optional(b[38], UNKNOWN_U8),
   temperature_centi_c |-> decode_optional(read_i16_le(b, 38), UNKNOWN_I16),
   pressure_10pa |-> decode_optional(read_u16_le(b, 40), UNKNOWN_U16),
   humidity_half_percent |-> decode_optional(b[43], UNKNOWN_U8),
   battery_soc_percent |-> decode_optional(b[44], UNKNOWN_U8)]

Ok(p) == [error |-> "none", packet |-> Some(p)]
Err(e) == [error |-> e, packet |-> None]
NotDecoded == Err("not decoded")

DecodeFields(b) == IF validate(Fields(b)) THEN Ok(Fields(b)) ELSE Err("InvalidField")

(* Mutant: the CRC is left to the radio. *)
decode_without_crc(b) ==
  IF Len(b) # TELEMETRY_V1_LEN THEN Err("WrongLength")
  ELSE IF b[1] # PROTOCOL_MARKER THEN Err("BadMarker")
  ELSE IF b[2] # PROTOCOL_VERSION THEN Err("UnsupportedVersion")
  ELSE IF b[3] \div 16 # PACKET_TYPE_TELEMETRY THEN Err("UnsupportedPacketType")
  ELSE DecodeFields(b)

decode(b) ==
  IF Len(b) # TELEMETRY_V1_LEN THEN Err("WrongLength")
  ELSE IF b[1] # PROTOCOL_MARKER THEN Err("BadMarker")
  ELSE IF b[2] # PROTOCOL_VERSION THEN Err("UnsupportedVersion")
  ELSE IF b[3] \div 16 # PACKET_TYPE_TELEMETRY THEN Err("UnsupportedPacketType")
  ELSE IF StoredCrc(b) # CrcBytes(crc32_ieee(Body(b))) THEN Err("CrcMismatch")
  ELSE DecodeFields(b)

-----------------------------------------------------------------------------
(* The packet of golden_self_test. *)
GoldenPacket ==
  [sender_mode |-> 1,
   sender_system_id |-> <<\h7788, \h5566, \h3344, \h1122>>,
   survey_id |-> <<\h0042, \hA000>>,
   sequence |-> \h123456,
   gps_unix_time |-> Some(<<\h0203, \h6901>>),
   latitude_e7 |-> Some(348635050),
   longitude_e7 |-> Some(-821152300),
   altitude_half_m |-> Some(247),
   speed_cm_s |-> Some(1234),
   course_cdeg |-> Some(27123),
   gps_fix_class |-> 1,
   satellites |-> 10,
   hdop_tenths |-> Some(13),
   temperature_centi_c |-> Some(2534),
   pressure_10pa |-> Some(10132),
   humidity_half_percent |-> Some(93),
   battery_soc_percent |-> Some(72)]

GOLDEN_TELEMETRY_V1 ==
  <<71, 1, 17, 136, 119, 102, 85, 68, 51, 34, 17, 66, 0, 0, 160, 86,
    52, 18, 3, 2, 1, 105, 170, 191, 199, 20, 212, 53, 14, 207, 247, 0,
    210, 4, 243, 105, 74, 13, 230, 9, 148, 39, 93, 72, 10, 33, 31, 152>>
=============================================================================
