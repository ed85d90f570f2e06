---------------------------- MODULE PacketCodec -----------------------------
(***************************************************************************)
(* Frames on the air: one that reaches the receiver intact, damaged        *)
(* (lora-phy may hand over a payload whose radio CRC failed), or from a    *)
(* sender that fills the fields its own way; and what the receiver loop    *)
(* makes of it.                                                            *)
(***************************************************************************)
EXTENDS PacketFormat

CONSTANTS
  Samples,        \* packets a sender may try to send
  Probed,         \* those whose frames the air damages and others imitate
  Errors,         \* sets of bit positions the air may invert
  Lengths,        \* lengths a frame may be cut or filled to
  BodyBytes,      \* values another sender may put into a byte
  ExpectedSender, \* TEST_EXPECTED_SENDER_SYSTEM_ID
  ExpectedSurvey  \* TEST_EXPECTED_SURVEY_ID

PacketAssumption == Probed \subseteq Samples /\ Lengths \subseteq 0 .. 255

VARIABLES
  packet,   \* what the sender wants to send
  frame,    \* what encode() made of it, Refused if it is an error
  origin,   \* history: how the frame came to the receiver
  received, \* the bytes the receiver loop decodes
  decoded   \* Ok with a packet, or an error

vars == <<packet, frame, origin, received, decoded>>

(* What the receiver loop takes the frame for. *)
Verdict ==
  IF decoded.error = "CrcMismatch" THEN "crc"
  ELSE IF decoded.error # "none" THEN "malformed"
  ELSE IF decoded.packet[1].sender_system_id # ExpectedSender
          \/ decoded.packet[1].survey_id # ExpectedSurvey THEN "foreign"
  ELSE "telemetry"

-----------------------------------------------------------------------------
Init ==
  /\ packet \in Samples
  /\ frame = Refused /\ origin = "none" /\ received = Refused
  /\ decoded = NotDecoded

Encode ==
  /\ origin = "none"
  /\ validate(packet)
  /\ frame' = encode(packet)
  /\ origin' = "sent"
  /\ UNCHANGED <<packet, received, decoded>>

OnAir == origin = "sent"

Arrives(how, bytes) ==
  /\ origin' = how
  /\ received' = bytes
  /\ UNCHANGED <<packet, frame, decoded>>

Intact == OnAir /\ Arrives("intact", frame)

Inverted(bytes, bits) ==
  [i \in 1 .. Len(bytes) |->
     MapThenSumSet(LAMBDA k : 2 ^ k,
       SymDiff(Bits(bytes[i]), {k \in 0 .. 7 : 8 * (i - 1) + k \in bits}))]

Damaged ==
  /\ OnAir /\ packet \in Probed
  /\ \E bits \in Errors : Arrives("damaged", Inverted(frame, bits))

Resized ==
  /\ OnAir /\ packet \in Probed
  /\ \E n \in Lengths \ {TELEMETRY_V1_LEN} :
       Arrives("damaged", [i \in 1 .. n |-> IF i <= Len(frame) THEN frame[i] ELSE 0])

(* A well-made frame of a sender that does not keep to the ranges of encode(). *)
Foreign ==
  /\ OnAir /\ packet \in Probed
  /\ \E i \in 1 .. TELEMETRY_V1_CRC_OFFSET, x \in BodyBytes :
       Arrives("foreign", Sealed(ReplaceAt(Body(frame), i, x)))

Decode ==
  /\ origin \in {"intact", "damaged", "foreign"}
  /\ decoded = NotDecoded
  /\ decoded' = decode(received)
  /\ UNCHANGED <<packet, frame, origin, received>>

Next == Encode \/ Intact \/ Damaged \/ Resized \/ Foreign \/ Decode

Spec == Init /\ [][Next]_vars

-----------------------------------------------------------------------------
(* Types of what goes over the air. *)
TypeOK ==
  /\ frame \in Seq(Byte) /\ Len(frame) \in {0, TELEMETRY_V1_LEN}
  /\ received \in Seq(Byte)
  /\ origin \in {"none", "sent", "intact", "damaged", "foreign"}

(* What encode() accepts reaches the other side as it was: no field is cut   *)
(* by a mask, no value is mistaken for a missing one (packet.rs: sentinels   *)
(* on the air, Option in the firmware).                                      *)
RoundTrip == origin = "intact" /\ decoded # NotDecoded => decoded = Ok(packet)

(* A frame damaged on the air is dropped as a CRC failure or as malformed,   *)
(* and never counted, shown or logged as a packet of anybody.                *)
DamageIsDetected == origin = "damaged" => decoded.error # "none"

(* What decode() accepts, from whatever sender, a sender of this code could  *)
(* have sent: the fields are in their ranges, and no two frames are the same *)
(* packet.                                                                   *)
Canonical ==
  \A p \in ToSet(decoded.packet) : validate(p) /\ encode(p) = received

(* The link is kept alive by packets of the expected sender and survey only, *)
(* and by all of them.                                                       *)
OnlyExpectedCount ==
  decoded # NotDecoded /\ origin \in {"intact", "foreign"} =>
    (Verdict = "telemetry" <=>
       /\ decoded.error = "none"
       /\ Halves(ExpectedSender) \o Halves(ExpectedSurvey) = SubSeq(received, 4, 15))

(* golden_self_test() of packet.rs, which main() reports at every boot: the  *)
(* golden packet is encoded to the golden bytes, they are decoded to it, and *)
(* with one bit of the latitude inverted they are not decoded.               *)
GoldenSelfTest ==
  packet = GoldenPacket =>
    /\ frame # Refused => frame = GOLDEN_TELEMETRY_V1
    /\ received = GOLDEN_TELEMETRY_V1 /\ decoded # NotDecoded => decoded = Ok(GoldenPacket)
    /\ received = [GOLDEN_TELEMETRY_V1 EXCEPT ![23] = @ + 1] /\ decoded # NotDecoded
         => decoded = Err("CrcMismatch")
=============================================================================
