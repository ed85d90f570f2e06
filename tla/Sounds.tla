------------------------------- MODULE Sounds -------------------------------
(***************************************************************************)
(* What the operator hears: the tones of the buttons (ButtonTones), the    *)
(* sounds of the link in time (LinkSounds), both made by one audio task,   *)
(* and the PWM slice that makes the tones (ToneConfig).                    *)
(***************************************************************************)
EXTENDS ButtonTones

CONSTANTS
  SoundTicks(_), QueueDepth, Timeout, MaxHold,  \* LinkSounds; ButtonTones looks at no timer
  SYSTEM_CLOCK, Frequencies, Drives             \* ToneConfig

VARIABLES
  age, link_lost_displayed, awaited, hold, wait, asked, rushed,  \* LinkSounds
  frequency_hz, drive_percent, divider, period_counts, config    \* ToneConfig

Link == INSTANCE LinkSounds WITH
          newest <- asked, Ticks <- SoundTicks, Tones <- {},
          UI_SOUND_QUEUE_DEPTH <- QueueDepth, LINK_LOSS_TIMEOUT <- Timeout

Slice == INSTANCE ToneConfig

(* With the times of the source there is a slot free in UI_SOUNDS at every loss
   and return of the link, however it comes and goes, and what is asked for waits
   for at most one sound before it (main.rs 1266, 1327; audio.rs 112-160). *)
SoundsComeInTime == Link!LoopNeverWaits /\ Link!SoundsArePrompt

(* What is still to be played ends with the sound of the present state of the
   link, and no sound is asked for twice in a row, even when the queue fills and
   the loop waits (main.rs 1266, 1327). *)
SoundsTellTheLink == Link!SoundsTellTheLink

(* The PWM slice makes the pitch and the duty cycle asked for, through divider,
   clamps and narrow casts (audio.rs 245-262). *)
ToneIsTrue == Slice!PitchIsTrue /\ Slice!DutyIsAsked
=============================================================================
