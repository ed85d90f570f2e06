----------------------------- MODULE LinkSounds -----------------------------
(***************************************************************************)
(* What the receiver loop asks the audio task to play, in time: the chime  *)
(* of the boot, LinkLost when no packet has come for LINK_LOSS_TIMEOUT,    *)
(* LinkReacquired at the first packet after that.  The loop awaits a slot  *)
(* in UI_SOUNDS, so a full queue would keep it from its frames and samples.*)
(*                                                                         *)
(* Time in ticks.  Blocking work on the card holds up every task of the    *)
(* executor: a note that is over is then followed late, and a loss is      *)
(* noticed late, each by up to MaxHold.                                    *)
(***************************************************************************)
EXTENDS Audio

CONSTANTS
  LINK_LOSS_TIMEOUT,      \* 5000 ms in the source, in ticks
  MaxHold                 \* bound: how long the executor may be held up

VARIABLES
  age,                    \* ticks since the last valid packet, Never before one
  link_lost_displayed,
  awaited,                \* sound the loop waits to queue, Nothing if it runs
  hold,                   \* ticks the present hold-up has lasted
  wait,                   \* history: ticks the newest sound has waited to be played
  newest,                 \* history: the sound asked for last
  rushed                  \* history: a loss came before the sounds could be over

loop == <<age, link_lost_displayed, awaited, newest, rushed>>
vars == <<audio, loop, hold, wait>>

Never == -1
Nothing == "nothing"

(* The time note i of notes may take, held up after it, none if there is no such
   note; and all the notes of a sound, of which there are seven at most. *)
NoteTime(notes, i) == IF i \in 1 .. Len(notes) THEN Ticks(notes[i].ms) + MaxHold ELSE 0

Length(sound) ==
  LET time(i) == NoteTime(Notes(sound), i)
  IN  time(1) + time(2) + time(3) + time(4) + time(5) + time(6) + time(7)

(* From one look of the audio task at its queue to the next. *)
Look == Ticks(AUDIO_SERVICE_INTERVAL_MS) + MaxHold

(* The longest a sound waits: for a look at the queue and for one sound before it,
   LinkLost; and the time in which it is over. *)
LongestWait == Look + Length("LinkLost") + MaxHold
Enough == LongestWait + Length("LinkReacquired")

NoteTimes == {20, 25, 30, 35, 40, 85, 90, 100, 130, 170, 180, 220, 280}

LinkSoundsAssumption ==
  /\ LINK_LOSS_TIMEOUT \in Nat \ {0}
  /\ MaxHold \in Nat
  /\ \A ms \in NoteTimes \cup {AUDIO_SERVICE_INTERVAL_MS} : Ticks(ms) \in Nat
  /\ UI_SOUND_QUEUE_DEPTH >= 2
  /\ Length("Startup") <= Length("LinkLost") + Length("LinkReacquired")

Init ==
  /\ AudioInit
  /\ age = Never /\ link_lost_displayed = FALSE /\ awaited = Nothing
  /\ hold = 0 /\ wait = 0 /\ newest = Nothing /\ rushed = FALSE

-----------------------------------------------------------------------------
(* play_ui_sound(sound).await: in the queue if there is room, else the loop *)
(* is kept waiting for it.                                                  *)
PlayUiSound(sound) ==
  /\ newest' = sound
  /\ \/ QueueSound(sound) /\ UNCHANGED awaited
     \/ /\ Len(ui_sounds) = UI_SOUND_QUEUE_DEPTH
        /\ awaited' = sound
        /\ UNCHANGED ui_sounds
  /\ wait' = 0
  /\ UNCHANGED <<routine_request, routine_tone, playing, pwm, left, hold>>

(* main() queues the chime before the loop begins. *)
Chime ==
  /\ newest = Nothing
  /\ PlayUiSound("Startup")
  /\ UNCHANGED <<age, link_lost_displayed, rushed>>

LoopRuns == newest # Nothing /\ awaited = Nothing

(* A packet is accepted, of a link that was up or that was shown as lost. *)
PacketOnLink ==
  /\ LoopRuns
  /\ ~link_lost_displayed
  /\ age # 0
  /\ age' = 0
  /\ UNCHANGED <<audio, link_lost_displayed, awaited, newest, rushed, hold, wait>>

(* Mutant: the loss stays on display, and every packet ends it again. *)
PacketReacquiresStaysLost ==
  /\ LoopRuns
  /\ link_lost_displayed
  /\ age' = 0
  /\ PlayUiSound("LinkReacquired")
  /\ UNCHANGED <<link_lost_displayed, rushed>>

PacketReacquires ==
  /\ LoopRuns
  /\ link_lost_displayed
  /\ age' = 0
  /\ link_lost_displayed' = FALSE
  /\ PlayUiSound("LinkReacquired")
  /\ UNCHANGED rushed

(* Mutant: the sound repeats at every watchdog tick of an outage. *)
DeclareLostAgain ==
  /\ LoopRuns
  /\ age >= LINK_LOSS_TIMEOUT
  /\ link_lost_displayed' = TRUE
  /\ PlayUiSound("LinkLost")
  /\ rushed' = (rushed \/ age <= Enough)
  /\ UNCHANGED age

(* The watchdog looks at the age of the link when no frame came. *)
DeclareLost ==
  /\ LoopRuns
  /\ age >= LINK_LOSS_TIMEOUT
  /\ ~link_lost_displayed
  /\ link_lost_displayed' = TRUE
  /\ PlayUiSound("LinkLost")
  /\ rushed' = (rushed \/ age <= Enough)
  /\ UNCHANGED age

(* The slot the loop waited for. *)
SlotFree ==
  /\ awaited # Nothing
  /\ QueueSound(awaited)
  /\ awaited' = Nothing
  /\ UNCHANGED <<routine_request, routine_tone, playing, pwm, left>>
  /\ UNCHANGED <<age, link_lost_displayed, newest, rushed, hold, wait>>

-----------------------------------------------------------------------------
AudioStep ==
  /\ AudioTask
  /\ hold' = 0
  /\ UNCHANGED <<loop, wait>>

(* The sounds asked for and not yet begun. *)
Wanted == IF awaited = Nothing THEN ui_sounds ELSE Append(ui_sounds, awaited)

LossDue == LoopRuns /\ age = LINK_LOSS_TIMEOUT + MaxHold /\ ~link_lost_displayed

(* Time passes: on the timer of the audio task, or while it is held up. A *)
(* loss that is due and a slot that is free are taken first.              *)
Tick ==
  /\ newest # Nothing
  /\ ~LossDue
  /\ awaited # Nothing => Len(ui_sounds) = UI_SOUND_QUEUE_DEPTH
  /\ \/ left > 0 /\ left' = left - 1 /\ hold' = 0
     \/ left = 0 /\ hold < MaxHold /\ hold' = hold + 1 /\ UNCHANGED left
  /\ age' = IF age = Never \/ age = LINK_LOSS_TIMEOUT + MaxHold THEN age ELSE age + 1
  /\ wait' = IF Wanted = <<>> THEN 0 ELSE IF wait > LongestWait THEN wait ELSE wait + 1
  /\ UNCHANGED <<routine_request, ui_sounds, routine_tone, playing, pwm>>
  /\ UNCHANGED <<link_lost_displayed, awaited, newest, rushed>>

Loop == Chime \/ PacketOnLink \/ PacketReacquires \/ DeclareLost \/ SlotFree
Next == Loop \/ AudioStep \/ Tick

Spec == Init /\ [][Next]_vars

-----------------------------------------------------------------------------
(* Types, with the ages the clock can reach. *)
TypeOK ==
  /\ AudioTypeOK
  /\ age \in Never .. LINK_LOSS_TIMEOUT + MaxHold
  /\ {link_lost_displayed, rushed} \subseteq BOOLEAN
  /\ awaited \in UiSound \cup {Nothing} /\ newest \in UiSound \cup {Nothing}
  /\ hold \in 0 .. MaxHold
  /\ wait \in Nat

(* The loop is never kept from its frames by the sounds it asks for: at a    *)
(* loss or a return of the link there is a slot free in UI_SOUNDS, however   *)
(* the link comes and goes, if only no loss is declared before the sounds of *)
(* the packet before it are over (the await of play_ui_sound in the loop).   *)
LoopNeverWaits == ~rushed => awaited = Nothing

(* What is still to be played tells the present state of the link, from the  *)
(* chime on: it ends with the sound of the newest change, a loss or a return *)
(* is asked for once and never twice in a row.                               *)
SoundsTellTheLink ==
  newest # Nothing =>
    /\ link_lost_displayed <=> newest = "LinkLost"
    /\ Wanted # <<>> => Wanted[Len(Wanted)] = newest
    /\ \A i \in 1 .. Len(Wanted) - 1 : Wanted[i] # Wanted[i + 1]

(* A sound asked for is not heard as news of long ago: it waits for one      *)
(* sound before it and one look of the audio task at its queue.              *)
SoundsArePrompt == ~rushed => wait <= LongestWait
=============================================================================
