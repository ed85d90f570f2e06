------------------------------ MODULE Buttons -------------------------------
(***************************************************************************)
(* The button task of buttons.rs: every POLL_INTERVAL_MS one pass over the *)
(* buttons, a sample of each, and an event for a button whose level has    *)
(* differed from its stable state in DEBOUNCE_SAMPLES samples in a row.    *)
(* EVENTS is a bounded channel: with it full the pass stops in the middle, *)
(* at the button whose event it could not send, until there is room.       *)
(*                                                                         *)
(* Buttons are numbered in the order of Button::ALL; the contact itself is *)
(* external and may open or close between any two samples.                 *)
(***************************************************************************)
EXTENDS Naturals, Sequences

CONSTANTS
  ButtonCount,         \* 4 in the source
  DEBOUNCE_SAMPLES,    \* 4
  EVENT_CHANNEL_DEPTH  \* 8

ASSUME ButtonsAssumption ==
  {ButtonCount, DEBOUNCE_SAMPLES, EVENT_CHANNEL_DEPTH} \subseteq Nat \ {0}

VARIABLES
  low,                \* the input is low: the contact is closed
  stable_pressed,
  differing_samples,
  pass,               \* the button the pass has come to, Asleep between passes
  unsent,             \* the event the task waits to send, NoEvent if none
  events              \* EVENTS

buttons == <<low, stable_pressed, differing_samples, pass, unsent, events>>

Button == 1 .. ButtonCount
Asleep == 0
ButtonEvent == [button : Button, pressed : BOOLEAN]
NoEvent == [button |-> Asleep, pressed |-> FALSE]

ButtonsTypeOK ==
  /\ low \in [Button -> BOOLEAN]
  /\ stable_pressed \in [Button -> BOOLEAN]
  /\ differing_samples \in [Button -> 0 .. DEBOUNCE_SAMPLES - 1]
  /\ pass \in 0 .. ButtonCount
  /\ unsent \in ButtonEvent \cup {NoEvent}
  /\ events \in Seq(ButtonEvent) /\ Len(events) <= EVENT_CHANNEL_DEPTH

ButtonsInit ==
  /\ low \in [Button -> BOOLEAN]
  /\ stable_pressed = [b \in Button |-> FALSE]
  /\ differing_samples = [b \in Button |-> 0]
  /\ pass = Asleep /\ unsent = NoEvent /\ events = <<>>

-----------------------------------------------------------------------------
(* A contact opens or closes, by a finger or by bouncing. *)
Contact(b) ==
  /\ low' = [low EXCEPT ![b] = ~@]
  /\ UNCHANGED <<stable_pressed, differing_samples, pass, unsent, events>>

(* The poll timer fires. *)
Poll ==
  /\ pass = Asleep
  /\ pass' = 1
  /\ UNCHANGED <<low, stable_pressed, differing_samples, unsent, events>>

NextButton(b) == IF b = ButtonCount THEN Asleep ELSE b + 1

Sampled(b) ==
  /\ pass = b
  /\ unsent = NoEvent
  /\ UNCHANGED low

SampleEqual(b) ==
  /\ Sampled(b)
  /\ low[b] = stable_pressed[b]
  /\ differing_samples' = [differing_samples EXCEPT ![b] = 0]
  /\ pass' = NextButton(b)
  /\ UNCHANGED <<stable_pressed, unsent, events>>

SampleDiffers(b) ==
  /\ Sampled(b)
  /\ low[b] # stable_pressed[b]
  /\ differing_samples[b] + 1 < DEBOUNCE_SAMPLES
  /\ differing_samples' = [differing_samples EXCEPT ![b] = @ + 1]
  /\ pass' = NextButton(b)
  /\ UNCHANGED <<stable_pressed, unsent, events>>

(* Mutant: an event that finds the channel full is dropped. *)
SendOrDrop(e, b) ==
  /\ events' = IF Len(events) < EVENT_CHANNEL_DEPTH THEN Append(events, e) ELSE events
  /\ pass' = NextButton(b)
  /\ UNCHANGED unsent

(* EVENTS.send(e).await in the pass at button b. *)
Send(e, b) ==
  \/ /\ Len(events) < EVENT_CHANNEL_DEPTH
     /\ events' = Append(events, e)
     /\ pass' = NextButton(b)
     /\ UNCHANGED unsent
  \/ /\ Len(events) = EVENT_CHANNEL_DEPTH
     /\ unsent' = e
     /\ UNCHANGED <<pass, events>>

SampleAccepted(b) ==
  /\ Sampled(b)
  /\ low[b] # stable_pressed[b]
  /\ differing_samples[b] + 1 >= DEBOUNCE_SAMPLES
  /\ stable_pressed' = [stable_pressed EXCEPT ![b] = low[b]]
  /\ differing_samples' = [differing_samples EXCEPT ![b] = 0]
  /\ Send([button |-> b, pressed |-> low[b]], b)

(* There is room again: the pass goes on behind the button it stopped at. *)
SendWaiting ==
  /\ unsent # NoEvent
  /\ Len(events) < EVENT_CHANNEL_DEPTH
  /\ events' = Append(events, unsent)
  /\ unsent' = NoEvent
  /\ pass' = NextButton(pass)
  /\ UNCHANGED <<low, stable_pressed, differing_samples>>

ButtonTask ==
  \/ Poll
  \/ \E b \in Button : SampleEqual(b) \/ SampleDiffers(b) \/ SampleAccepted(b)
  \/ SendWaiting

(* Tasks share one executor: another one runs only while this one awaits. *)
ButtonTaskAwaits == pass = Asleep \/ unsent # NoEvent

(* The events that are on their way. *)
Pending == IF unsent = NoEvent THEN events ELSE Append(events, unsent)
=============================================================================
