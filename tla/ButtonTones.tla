---------------------------- MODULE ButtonTones -----------------------------
(***************************************************************************)
(* The way from the contacts to the speaker: the button task (Buttons),    *)
(* button_audio_test_task of main.rs, and the audio task (Audio), in any   *)
(* order the executor may run them, with UI sounds coming in between.      *)
(* No timer is looked at: each task runs again at any later moment.        *)
(***************************************************************************)
EXTENDS Buttons, Audio, FiniteSetsExt

CONSTANT Sounds  \* the UI sounds that may be asked for

VARIABLES
  held, active,  \* of button_audio_test_task
  newest         \* history: the button of the newest press event it has taken

glue == <<held, active, newest>>
vars == <<buttons, audio, glue>>

None == 0

ASSUME ButtonTonesAssumption ==
  /\ Tones = {330, 440, 550, 660}
  /\ ButtonCount <= 4
  /\ Sounds \subseteq UiSound

button_test_frequency_hz(b) == <<330, 440, 550, 660>>[b]
ToneOf(b) == IF b = None THEN Silence ELSE button_test_frequency_hz(b)

Init ==
  /\ ButtonsInit /\ AudioInit
  /\ held = [b \in Button |-> FALSE] /\ active = None /\ newest = None

-----------------------------------------------------------------------------
Contacts ==
  /\ \E b \in Button : Contact(b)
  /\ UNCHANGED <<audio, glue>>

ButtonStep ==
  /\ ButtonTask
  /\ UNCHANGED <<audio, glue>>

AudioStep ==
  /\ ButtonTaskAwaits
  /\ AudioTask
  /\ UNCHANGED <<buttons, glue>>

(* The receiver loop or the boot sequence asks for a UI sound. *)
UiSoundWanted ==
  /\ ButtonTaskAwaits
  /\ \E s \in Sounds : QueueSound(s)
  /\ UNCHANGED <<routine_request, routine_tone, playing, pwm, left, buttons, glue>>

-----------------------------------------------------------------------------
TakesEvent(pressed) ==
  /\ ButtonTaskAwaits
  /\ events # <<>>
  /\ Head(events).pressed = pressed
  /\ events' = Tail(events)
  /\ held' = [held EXCEPT ![Head(events).button] = pressed]
  /\ newest' = IF pressed THEN Head(events).button ELSE newest
  /\ UNCHANGED <<low, stable_pressed, differing_samples, pass, unsent>>
  /\ UNCHANGED <<ui_sounds, routine_tone, playing, pwm, left>>

TakePress ==
  /\ TakesEvent(TRUE)
  /\ active' = Head(events).button
  /\ RequestTone(ToneOf(Head(events).button))

(* Mutant: the fallback is looked up before the released button is cleared. *)
FallbackStale == Max({b \in Button : held[b]} \cup {None})

(* Another button that is still held, the highest one, takes over. *)
Fallback == Max({b \in Button : held'[b]} \cup {None})

(* Mutant: any release looks for the highest held button. *)
TakeReleaseOfAny ==
  /\ TakesEvent(FALSE)
  /\ active' = Fallback
  /\ RequestTone(ToneOf(Fallback))

TakeReleaseOfOther ==
  /\ TakesEvent(FALSE)
  /\ active # Head(events).button
  /\ UNCHANGED <<active, routine_request>>

TakeReleaseOfActive ==
  /\ TakesEvent(FALSE)
  /\ active = Head(events).button
  /\ active' = Fallback
  /\ RequestTone(ToneOf(Fallback))

GlueTask == TakePress \/ TakeReleaseOfOther \/ TakeReleaseOfActive

Next == Contacts \/ ButtonStep \/ AudioStep \/ UiSoundWanted \/ GlueTask

(* The poll timer fires again and again, and between two passes the executor *)
(* polls the tasks that are woken: a pass keeps them waiting for a moment    *)
(* (hence SF), never for good.  Contacts and UI sounds need not come.        *)
Fairness == WF_vars(ButtonStep) /\ SF_vars(AudioStep) /\ SF_vars(GlueTask)

Spec == Init /\ [][Next]_vars /\ Fairness

-----------------------------------------------------------------------------
(* Types of the three tasks and of the channels between them. *)
TypeOK ==
  /\ ButtonsTypeOK /\ AudioTypeOK
  /\ held \in [Button -> BOOLEAN]
  /\ active \in Button \cup {None} /\ newest \in Button \cup {None}

Quiet ==
  /\ Pending = <<>>
  /\ routine_request = NoRequest
  /\ playing = <<>>

(* No stuck tone: once every event and request has been dealt with and no UI *)
(* sound plays, the speaker is silent exactly when no button is down, and    *)
(* otherwise gives the tone of a button that is down.                        *)
NoStuckTone ==
  Quiet =>
    LET down == {b \in Button : stable_pressed[b]}
    IN  IF down = {} THEN pwm = Silence ELSE pwm \in {ToneOf(b) : b \in down}

(* No event of button b among those from i to j. *)
NoneOf(b, i, j) == \A k \in i .. j : Pending[k].button # b

(* No event is lost or doubled, whatever waits in EVENTS or before it: from  *)
(* what button_audio_test_task knows of a button, each event on its way is a *)
(* change, and the newest one tells the debounced state; of a button without *)
(* one the task knows that state.                                            *)
EventsTellTheState ==
  /\ \A b \in Button : NoneOf(b, 1, Len(Pending)) => held[b] = stable_pressed[b]
  /\ \A i \in 1 .. Len(Pending) :
       LET e == Pending[i]
           b == e.button
       IN  /\ NoneOf(b, 1, i - 1) => held[b] # e.pressed
           /\ \A j \in 1 .. i - 1 :
                Pending[j].button = b /\ NoneOf(b, j + 1, i - 1) => Pending[j].pressed # e.pressed
           /\ NoneOf(b, i + 1, Len(Pending)) => stable_pressed[b] = e.pressed

(* "The most recently pressed button wins" (main.rs): while the button of    *)
(* the newest press is held it owns the speaker, whatever else is released.  *)
NewestPressWins == newest # None /\ held[newest] => active = newest

(* What the speaker gives follows from the buttons and the sounds asked for,  *)
(* in whatever order the tasks run.                                          *)
SpeakerTellsTheButtons == NoStuckTone /\ NewestPressWins /\ SoundUndisturbed

(* When the contacts come to rest, the routine tone comes to rest at the     *)
(* tone of a closed one, or at silence if none is; UI sounds that keep       *)
(* coming do not starve it.                                                  *)
SpeakerSettles ==
  \A S \in SUBSET Button :
    <>[]({b \in Button : low[b]} = S) =>
      <>[](/\ routine_request = NoRequest
           /\ routine_tone \in (IF S = {} THEN {Silence} ELSE {ToneOf(b) : b \in S}))
=============================================================================
