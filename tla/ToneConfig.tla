----------------------------- MODULE ToneConfig -----------------------------
(***************************************************************************)
(* tone_config of audio.rs: the divider, the period and the duty cycle of  *)
(* the PWM slice that makes the tones of Audio, found by a loop in         *)
(* integers of limited width.  The slice counts the system clock over the  *)
(* divider from 0 to top, and its output is high below the compare value.  *)
(***************************************************************************)
EXTENDS Integers

CONSTANTS
  SYSTEM_CLOCK,  \* clk_sys_freq(), Hz
  Frequencies,   \* Hz that may be asked for
  Drives         \* percent that may be asked for

ToneConfigAssumption ==
  /\ SYSTEM_CLOCK \in Nat \ {0}
  /\ Frequencies \subseteq 1 .. (SYSTEM_CLOCK \div 1000)
  /\ Drives \subseteq 1 .. 50

VARIABLES
  frequency_hz, drive_percent,
  divider, period_counts,
  config                        \* what the slice is given, NoConfig before

vars == <<frequency_hz, drive_percent, divider, period_counts, config>>

NoConfig == [divider |-> 0, top |-> 0, compare_a |-> 0]

PeriodCounts(d) == (SYSTEM_CLOCK \div frequency_hz) \div d

Init ==
  /\ frequency_hz \in Frequencies /\ drive_percent \in Drives
  /\ divider = 1 /\ period_counts = PeriodCounts(1)
  /\ config = NoConfig

TooLong == period_counts > 65536

Divide ==
  /\ config = NoConfig
  /\ TooLong /\ divider < 255
  /\ divider' = divider + 1
  /\ period_counts' = PeriodCounts(divider')
  /\ UNCHANGED <<frequency_hz, drive_percent, config>>

(* Mutant: the period is used as it is. *)
Unclamped(counts) == counts

Clamped(counts) == IF counts > 65536 THEN 65536 ELSE IF counts < 2 THEN 2 ELSE counts

Compare(counts) == (counts * drive_percent) \div 100

(* The divider becomes a u8, the other two u16. *)
Configure ==
  /\ config = NoConfig
  /\ ~TooLong \/ divider >= 255
  /\ config' = [divider |-> divider % 256,
                top |-> (Clamped(period_counts) - 1) % 65536,
                compare_a |-> Compare(Clamped(period_counts)) % 65536]
  /\ UNCHANGED <<frequency_hz, drive_percent, divider, period_counts>>

Next == Divide \/ Configure

Spec == Init /\ [][Next]_vars

-----------------------------------------------------------------------------
(* Types; what the slice is given counts, and none of the narrow casts has made
   its divider nought. *)
TypeOK ==
  /\ frequency_hz \in Frequencies /\ drive_percent \in Drives
  /\ divider \in 1 .. 255 /\ period_counts \in Nat
  /\ config # NoConfig =>
       config.divider \in 1 .. 255 /\ config.top \in 1 .. 65535 /\ config.compare_a \in 0 .. 65535

Abs(n) == IF n < 0 THEN -n ELSE n

(* The clocks of as many periods as there are asked for in a second. *)
ClocksPerSecond == frequency_hz * config.divider * (config.top + 1)

(* The tone is the one asked for, within a thousandth, over the whole range the
   slice can reach, and below that range it is the lowest of it: no cast or
   clamp turns a low note into a high one (audio.rs 245-259). *)
PitchIsTrue ==
  config # NoConfig =>
    IF frequency_hz > SYSTEM_CLOCK \div (255 * 65536)
    THEN Abs(SYSTEM_CLOCK - ClocksPerSecond) <= SYSTEM_CLOCK \div 1000
    ELSE config.divider = 255 /\ config.top = 65535

(* The share of the period the output is high is the drive asked for, to the
   count, and never none of it: a tone that is asked for is heard, and no product
   overflows on the way (audio.rs 257-262). *)
DutyIsAsked ==
  config # NoConfig =>
    /\ config.compare_a > 0
    /\ drive_percent * (config.top + 1) - 100 * config.compare_a \in 0 .. 99
=============================================================================
