------------------------------- MODULE Audio --------------------------------
(***************************************************************************)
(* The audio task of audio.rs and the two ways to ask it for sound:        *)
(*   ROUTINE_TONE  a signal that keeps only the newest request: a tone, or *)
(*                 silence;                                                *)
(*   UI_SOUNDS     a bounded channel of important sounds.                  *)
(* A UI sound is a series of notes and gaps that takes the speaker from    *)
(* the routine tone; after it the newest routine tone is applied.          *)
(*                                                                         *)
(* A tone is its frequency, Silence for none; the drive level, the same in *)
(* every request of the firmware, is left out.  `left` is the time to go   *)
(* on the task's timer; who EXTENDS this module says how time passes.      *)
(***************************************************************************)
EXTENDS Integers, Sequences

CONSTANTS
  UI_SOUND_QUEUE_DEPTH,       \* 4 in the source
  AUDIO_SERVICE_INTERVAL_MS,  \* 5
  Ticks(_),                   \* a time in ms in units of the model's clock
  Tones                       \* the routine tones that are asked for

Silence == 0
UiSound == {"Startup", "LinkLost", "LinkReacquired"}
NoRequest == -1   \* no tone: apart from every frequency and from Silence

ASSUME AudioAssumption ==
  /\ UI_SOUND_QUEUE_DEPTH \in Nat \ {0}
  /\ AUDIO_SERVICE_INTERVAL_MS \in Nat
  /\ Tones \subseteq Nat \ {Silence}

VARIABLES
  routine_request,  \* ROUTINE_TONE
  ui_sounds,        \* UI_SOUNDS
  routine_tone,
  playing,          \* the notes to go of the UI sound that plays
  pwm,              \* the tone at the speaker
  left              \* the task's timer

audio == <<routine_request, ui_sounds, routine_tone, playing, pwm, left>>

Note(tone, ms) == [tone |-> tone, ms |-> ms]
Gap(ms) == Note(Silence, ms)

Notes(sound) ==
  [Startup |->
     <<Note(523, 90), Gap(25), Note(659, 90), Gap(25), Note(784, 100), Gap(30), Note(1047, 170)>>,
   LinkLost |->
     <<Note(659, 130), Gap(35), Note(440, 180), Gap(40), Note(294, 280)>>,
   LinkReacquired |->
     <<Note(440, 85), Gap(20), Note(659, 85), Gap(20), Note(880, 100), Gap(20), Note(1175, 220)>>
  ][sound]

AudioTypeOK ==
  /\ routine_request \in Tones \cup {Silence, NoRequest}
  /\ ui_sounds \in Seq(UiSound) /\ Len(ui_sounds) <= UI_SOUND_QUEUE_DEPTH
  /\ routine_tone \in Tones \cup {Silence}
  /\ \A i \in 1 .. Len(playing) : playing[i] \in [tone : Nat, ms : Nat \ {0}]
  /\ pwm \in Nat
  /\ left \in Nat

AudioInit ==
  /\ routine_request = NoRequest /\ ui_sounds = <<>>
  /\ routine_tone = Silence /\ playing = <<>> /\ pwm = Silence
  /\ left = 0

-----------------------------------------------------------------------------
(* play_tone(), and stop() when the tone is Silence. *)
RequestTone(tone) == routine_request' = tone

(* play_ui_sound() when there is room. *)
QueueSound(sound) ==
  /\ Len(ui_sounds) < UI_SOUND_QUEUE_DEPTH
  /\ ui_sounds' = Append(ui_sounds, sound)

(* The timer runs from when the task comes to it. *)
Plays(notes) ==
  /\ playing' = notes
  /\ pwm' = Head(notes).tone
  /\ left' = Ticks(Head(notes).ms)

StartSound ==
  /\ left = 0 /\ playing = <<>>
  /\ ui_sounds # <<>>
  /\ Plays(Notes(Head(ui_sounds)))
  /\ ui_sounds' = Tail(ui_sounds)
  /\ UNCHANGED <<routine_request, routine_tone>>

NextNote ==
  /\ left = 0 /\ Len(playing) > 1
  /\ Plays(Tail(playing))
  /\ UNCHANGED <<routine_request, ui_sounds, routine_tone>>

TakeRoutine ==
  /\ routine_tone' = IF routine_request = NoRequest THEN routine_tone ELSE routine_request
  /\ routine_request' = NoRequest

(* The sound is over; the routine tone, as it is asked for now, resumes. *)
EndSound ==
  /\ left = 0 /\ Len(playing) = 1
  /\ playing' = <<>>
  /\ TakeRoutine
  /\ pwm' = routine_tone'
  /\ UNCHANGED <<ui_sounds, left>>

ServeRoutine ==
  /\ left = 0 /\ playing = <<>>
  /\ ui_sounds = <<>>
  /\ routine_request # NoRequest
  /\ TakeRoutine
  /\ pwm' = routine_tone'
  /\ left' = Ticks(AUDIO_SERVICE_INTERVAL_MS)
  /\ UNCHANGED <<ui_sounds, playing>>

(* Nothing to do until the next look at the requests. *)
Idle ==
  /\ left = 0 /\ playing = <<>>
  /\ ui_sounds = <<>>
  /\ routine_request = NoRequest
  /\ left' = Ticks(AUDIO_SERVICE_INTERVAL_MS)
  /\ UNCHANGED <<routine_request, ui_sounds, routine_tone, playing, pwm>>

AudioTask == StartSound \/ NextNote \/ EndSound \/ ServeRoutine \/ Idle

(* While a UI sound plays, the speaker gives its notes and nothing else: no *)
(* routine request gets between them (the priority rule of audio::task).    *)
SoundUndisturbed == playing # <<>> => pwm = Head(playing).tone
=============================================================================
