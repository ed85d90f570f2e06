------------------------------ MODULE MCSounds ------------------------------
(* Instance for TLC of what is heard.  ButtonTones looks at no timer: two of its
   buttons compete with UI sounds, and all three with one another.  LinkSounds is in
   ticks of 25 ms, the executor held up for up to 100 ms, once with the timeout of
   the source and once with one much shorter than a sound, so that the queue does
   fill.  ToneConfig is from 1 Hz past the last frequency that needs a divider and
   the notes of Audio above it, with the drives of the firmware and the largest one
   play_tone() lets pass.  A behaviour is one of the five; the variables of the
   others keep their initial values. *)
EXTENDS Sounds

VARIABLE part  \* the specification that runs

NoTicks(ms) == 0
MCTicks(ms) == (ms + 24) \div 25
MCTones == {330, 440, 550, 660}
MCFrequencies == (1 .. 2300) \cup {9999, 14000, 20000}

Short == INSTANCE LinkSounds WITH
           newest <- asked, Ticks <- MCTicks, Tones <- {},
           UI_SOUND_QUEUE_DEPTH <- 2, LINK_LOSS_TIMEOUT <- 8, MaxHold <- 1

ASSUME MCSoundsAssumption ==
  Link!LinkSoundsAssumption /\ Short!LinkSoundsAssumption /\ Slice!ToneConfigAssumption

buttonvars == <<buttons, glue>>
linkvars == <<age, link_lost_displayed, awaited, hold, wait, asked, rushed>>
tonevars == <<frequency_hz, drive_percent, divider, period_counts, config>>
mcvars == <<part, audio, buttonvars, linkvars, tonevars>>

(* What the initial values leave open is settled in the parts that do not run. *)
MCInit ==
  /\ part \in {"two buttons", "three buttons", "sounds", "full", "tone"}
  /\ Init /\ Link!Init /\ Slice!Init
  /\ part = "two buttons" => ~low[3]
  /\ part \in {"sounds", "full", "tone"} => low = [b \in Button |-> FALSE]
  /\ part # "tone" => frequency_hz = 440 /\ drive_percent = 10

Buttoning(Action) ==
  /\ part \in {"two buttons", "three buttons"}
  /\ Action
  /\ part = "two buttons" => ~low[3]'
  /\ part = "three buttons" => ui_sounds' = <<>>
  /\ UNCHANGED <<part, linkvars, tonevars>>

Sounding == part = "sounds" /\ Link!Next /\ UNCHANGED <<part, buttonvars, tonevars>>
Filling == part = "full" /\ Short!Next /\ UNCHANGED <<part, buttonvars, tonevars>>
Toning == part = "tone" /\ Slice!Next /\ UNCHANGED <<part, audio, buttonvars, linkvars>>
Toned == part = "tone" /\ config # Slice!NoConfig /\ UNCHANGED mcvars

MCNext == Buttoning(Next) \/ Sounding \/ Filling \/ Toning \/ Toned

(* The fairness of ButtonTones. *)
MCSpec ==
  /\ MCInit /\ [][MCNext]_mcvars
  /\ WF_mcvars(Buttoning(ButtonStep))
  /\ SF_mcvars(Buttoning(AudioStep)) /\ SF_mcvars(Buttoning(GlueTask))
=============================================================================
