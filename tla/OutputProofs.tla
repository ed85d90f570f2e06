---------------------------- MODULE OutputProofs ----------------------------
(***************************************************************************)
(* Proofs about what the operator sees and hears.                          *)
(***************************************************************************)
EXTENDS Screens, Sounds, SequenceTheorems, TLAPS

(* What the loop has asked for ends with the newest sound. *)
ToldInv ==
  /\ ui_sounds \in Seq(UiSound)
  /\ awaited \in UiSound \cup {Link!Nothing} /\ asked \in UiSound \cup {Link!Nothing}
  /\ link_lost_displayed <=> asked = "LinkLost"
  /\ asked = Link!Nothing => Link!Wanted = <<>>
  /\ Link!Wanted # <<>> => Link!Wanted[Len(Link!Wanted)] = asked
  /\ \A i \in 1 .. Len(Link!Wanted) - 1 : Link!Wanted[i] # Link!Wanted[i + 1]

(* Asking for a sound that is not the newest keeps all that. *)
LEMMA Told ==
  ASSUME ToldInv, awaited = Link!Nothing, NEW sound \in UiSound, sound # asked,
         Link!PlayUiSound(sound), link_lost_displayed' <=> sound = "LinkLost"
  PROVE  ToldInv'
<1>1. /\ asked' = sound /\ Link!Wanted = ui_sounds
      /\ ui_sounds \in Seq(UiSound) /\ sound # Link!Nothing
  BY DEF ToldInv, Link!PlayUiSound, Link!Wanted, Link!Nothing, UiSound
<1>2. Link!Wanted' = Append(ui_sounds, sound) /\ ui_sounds' \in Seq(UiSound) /\ awaited' \in UiSound \cup {Link!Nothing}
  BY <1>1 DEF Link!PlayUiSound, Link!QueueSound, Link!Wanted
<1> DEFINE n == Len(ui_sounds)
<1>3. /\ n \in Nat /\ Len(Link!Wanted') = n + 1
      /\ Link!Wanted'[n + 1] = sound
      /\ \A i \in 1 .. n : Link!Wanted'[i] = ui_sounds[i]
  BY <1>1, <1>2
<1>4. \A i \in 1 .. n : Link!Wanted'[i] # Link!Wanted'[i + 1]
  <2>1. n > 0 => ui_sounds[n] = asked
    BY <1>1, <1>3 DEF ToldInv
  <2>2. \A i \in 1 .. n - 1 : ui_sounds[i] # ui_sounds[i + 1]
    BY <1>1 DEF ToldInv
  <2>3. QED
    BY <1>3, <2>1, <2>2
<1>5. QED
  BY <1>1, <1>2, <1>3, <1>4 DEF ToldInv

(* With its assumed names. *)
LEMMA ToldKept ==
  ASSUME ToldInv, [Link!Next]_(Link!vars)
  PROVE  ToldInv'
<1>1. CASE Link!Chime \/ Link!PacketReacquires \/ Link!DeclareLost
  <2>0. asked = Link!Nothing => awaited = Link!Nothing
    <3>1. Len(Append(ui_sounds, awaited)) = Len(ui_sounds) + 1 /\ Len(ui_sounds) \in Nat
      BY AppendProperties DEF ToldInv
    <3>2. QED
      BY <3>1 DEF ToldInv, Link!Wanted
  <2>1. /\ awaited = Link!Nothing
        /\ \/ Link!PlayUiSound("Startup") /\ asked = Link!Nothing
              /\ link_lost_displayed' = link_lost_displayed
           \/ Link!PlayUiSound("LinkReacquired") /\ link_lost_displayed /\ ~link_lost_displayed'
           \/ Link!PlayUiSound("LinkLost") /\ ~link_lost_displayed /\ link_lost_displayed'
    BY <1>1, <2>0 DEF Link!Chime, Link!PacketReacquires, Link!DeclareLost, Link!LoopRuns
  <2>2. QED
    BY <2>1, Told DEF ToldInv, UiSound, Link!Nothing
<1>2. CASE Link!SlotFree
  <2>1. /\ awaited \in UiSound /\ awaited # Link!Nothing
        /\ ui_sounds' = Append(ui_sounds, awaited) /\ awaited' = Link!Nothing
        /\ UNCHANGED <<asked, link_lost_displayed>>
    BY <1>2 DEF Link!SlotFree, Link!QueueSound, ToldInv
  <2>2. Link!Wanted' = Link!Wanted
    BY <2>1 DEF Link!Wanted
  <2>3. ui_sounds' \in Seq(UiSound)
    BY <2>1 DEF ToldInv
  <2>4. QED
    BY <2>1, <2>2, <2>3 DEF ToldInv
<1>3. CASE Link!StartSound /\ UNCHANGED <<awaited, asked, link_lost_displayed>>
  <2>1. /\ ui_sounds \in Seq(UiSound) /\ ui_sounds # <<>> /\ ui_sounds' = Tail(ui_sounds)
    BY <1>3 DEF Link!StartSound, ToldInv
  <2>2. Link!Wanted # <<>> /\ Link!Wanted' = Tail(Link!Wanted)
    <3>1. CASE awaited = Link!Nothing
      BY <1>3, <2>1, <3>1 DEF Link!Wanted
    <3>2. CASE awaited # Link!Nothing
      BY <1>3, <2>1, <3>2 DEF Link!Wanted, ToldInv
    <3>3. QED
      BY <3>1, <3>2
  <2>3. Link!Wanted \in Seq(UiSound)
    BY <2>1 DEF Link!Wanted, ToldInv
  <2> DEFINE w == Link!Wanted
  <2>4. /\ Len(w) \in Nat \ {0} /\ Len(Tail(w)) = Len(w) - 1
        /\ \A i \in 1 .. Len(w) - 1 : Tail(w)[i] = w[i + 1]
    BY <2>2, <2>3
  <2>5. ui_sounds' \in Seq(UiSound) /\ UNCHANGED <<awaited, asked, link_lost_displayed>>
    BY <1>3, <2>1
  <2>6. Tail(w) # <<>> => Tail(w)[Len(Tail(w))] = asked
    BY <2>2, <2>3, <2>4 DEF ToldInv
  <2>7. \A i \in 1 .. Len(Tail(w)) - 1 : Tail(w)[i] # Tail(w)[i + 1]
    BY <2>4 DEF ToldInv
  <2>8. asked # Link!Nothing
    BY <2>2 DEF ToldInv
  <2>9. QED
    BY <2>2, <2>5, <2>6, <2>7, <2>8 DEF ToldInv
<1>4. CASE UNCHANGED <<ui_sounds, awaited, asked, link_lost_displayed>>
  BY <1>4 DEF ToldInv, Link!Wanted
<1>5. QED
  BY <1>1, <1>2, <1>3, <1>4
     DEF Link!Next, Link!Loop, Link!AudioStep, Link!AudioTask, Link!NextNote, Link!EndSound,
         Link!ServeRoutine, Link!Idle, Link!PacketOnLink, Link!Tick, Link!vars, Link!loop,
         Link!audio

(* What is still to be played tells the present state of the link, for every queue
   and timeout, also while the loop waits for the queue (main.rs 1266, 1327). *)
THEOREM SoundsTell == Link!Spec => []SoundsTellTheLink
<1>1. Link!Init => ToldInv
  BY DEF Link!Init, Link!AudioInit, ToldInv, Link!Wanted, Link!Nothing, UiSound
<1>2. ToldInv /\ [Link!Next]_(Link!vars) => ToldInv'
  BY ToldKept
<1>3. ToldInv => SoundsTellTheLink
  BY DEF ToldInv, SoundsTellTheLink, Link!SoundsTellTheLink
<1>4. QED
  BY <1>1, <1>2, <1>3, PTL DEF Link!Spec

-----------------------------------------------------------------------------
(* The sounds of the link in time.                                          *)

TimedNote == [tone : Nat, ms : Link!NoteTimes]

(* The most time the notes after the first may take. *)
Rest(notes) ==
  LET time(i) == Link!NoteTime(notes, i)
  IN  time(2) + time(3) + time(4) + time(5) + time(6) + time(7)

(* The most time until the audio task looks at its queue. *)
Free ==
  left + MaxHold - hold + IF playing = <<>> THEN 0 ELSE Rest(playing) + MaxHold

(* Of the audio task: a hold-up begins when the timer has run out. *)
TaskInv ==
  /\ ui_sounds \in Seq(UiSound)
  /\ playing \in Seq(TimedNote) /\ Len(playing) <= 7
  /\ left \in Nat /\ hold \in 0 .. MaxHold /\ wait \in Nat
  /\ left > 0 => hold = 0
  /\ playing = <<>> => left <= SoundTicks(AUDIO_SERVICE_INTERVAL_MS)
  /\ age \in Int /\ age >= Link!Never

Age == IF age = Link!Never THEN 0 ELSE age

(* While the link is up all it has asked for is over when it is Enough old. *)
UpInv ==
  \/ ui_sounds = <<>> /\ (playing = <<>> \/ Free - MaxHold <= Link!Enough - Age)
  \/ /\ ui_sounds = <<asked>>
     /\ wait + Free <= Link!LongestWait
     /\ Free + Link!Length(asked) <= Link!Enough - Age
  \/ /\ ui_sounds = <<"LinkLost", "LinkReacquired">>
     /\ wait + Free + Link!Length("LinkLost") + MaxHold <= Link!LongestWait
     /\ Free + Link!Length("LinkLost") + MaxHold + Link!Length("LinkReacquired")
          <= Link!Enough - Age

(* While it is lost there is the sound of the loss, played or about to be. *)
LostInv ==
  \/ ui_sounds = <<>> /\ (playing = <<>> \/ Free - MaxHold <= Link!Length("LinkLost"))
  \/ ui_sounds = <<"LinkLost">> /\ playing = <<>> /\ wait + Free <= Link!LongestWait

(* Before the chime is asked for nothing has happened. *)
StartInv == asked = Link!Nothing => age = Link!Never /\ playing = <<>>

TimeInv ==
  ~rushed =>
    /\ awaited = Link!Nothing
    /\ wait <= Link!LongestWait
    /\ ~link_lost_displayed => UpInv
    /\ link_lost_displayed => LostInv

IInv == ToldInv /\ TaskInv /\ StartInv /\ TimeInv

(* The times of the notes are numbers, and so are their sums. *)
LEMMA NoteTimes ==
  ASSUME Link!LinkSoundsAssumption, NEW notes \in Seq(TimedNote)
  PROVE  /\ MaxHold \in Nat
         /\ \A i \in 1 .. Len(notes) :
              /\ SoundTicks(notes[i].ms) \in Nat
              /\ Link!NoteTime(notes, i) = SoundTicks(notes[i].ms) + MaxHold
         /\ \A i \in Int : Link!NoteTime(notes, i) \in Nat
         /\ Rest(notes) \in Nat
<1>1. MaxHold \in Nat
  BY DEF Link!LinkSoundsAssumption
<1>2. \A i \in 1 .. Len(notes) : SoundTicks(notes[i].ms) \in Nat
  <2>1. TAKE i \in 1 .. Len(notes)
  <2>2. notes[i].ms \in Link!NoteTimes
    <3>1. notes[i] \in TimedNote
      OBVIOUS
    <3>2. QED
      BY <3>1 DEF TimedNote
  <2>3. QED
    BY <2>2 DEF Link!LinkSoundsAssumption
<1>3. \A i \in 1 .. Len(notes) : Link!NoteTime(notes, i) = SoundTicks(notes[i].ms) + MaxHold
  BY DEF Link!NoteTime
<1>4. \A i \in Int : Link!NoteTime(notes, i) \in Nat
  BY <1>1, <1>2 DEF Link!NoteTime
<1>5. Rest(notes) \in Nat
  <2> DEFINE time(i) == Link!NoteTime(notes, i)
  <2>1. /\ time(2) \in Nat /\ time(3) \in Nat /\ time(4) \in Nat
        /\ time(5) \in Nat /\ time(6) \in Nat /\ time(7) \in Nat
    BY <1>4
  <2>2. Rest(notes) = time(2) + time(3) + time(4) + time(5) + time(6) + time(7)
    BY DEF Rest
  <2> HIDE DEF time
  <2>3. QED
    BY <2>1, <2>2
<1>6. QED
  BY <1>1, <1>2, <1>3, <1>4, <1>5

(* What is known of the three sounds. *)
LEMMA SoundNotes ==
  ASSUME NEW sound \in UiSound
  PROVE  /\ Link!Notes(sound) \in Seq(TimedNote)
         /\ Len(Link!Notes(sound)) <= 7
         /\ Link!Notes(sound) # <<>>
<1>1. CASE sound = "Startup"
  BY <1>1 DEF Link!Notes, Link!Note, Link!Gap, Link!Silence, TimedNote, Link!NoteTimes
<1>2. CASE sound = "LinkLost"
  BY <1>2 DEF Link!Notes, Link!Note, Link!Gap, Link!Silence, TimedNote, Link!NoteTimes
<1>3. CASE sound = "LinkReacquired"
  BY <1>3 DEF Link!Notes, Link!Note, Link!Gap, Link!Silence, TimedNote, Link!NoteTimes
<1>4. QED
  BY <1>1, <1>2, <1>3 DEF UiSound

LEMMA SoundLength ==
  ASSUME Link!LinkSoundsAssumption, NEW sound \in UiSound
  PROVE  /\ Link!Length(sound) \in Nat
         /\ Link!Length(sound) = SoundTicks(Head(Link!Notes(sound)).ms) + MaxHold
                                   + Rest(Link!Notes(sound))
<1> DEFINE notes == Link!Notes(sound)
           time(i) == Link!NoteTime(notes, i)
<1>1. notes \in Seq(TimedNote) /\ Len(notes) <= 7 /\ notes # <<>>
  BY SoundNotes
<1>2. /\ time(1) \in Nat /\ time(2) \in Nat /\ time(3) \in Nat /\ time(4) \in Nat
      /\ time(5) \in Nat /\ time(6) \in Nat /\ time(7) \in Nat
  <2>1. \A i \in Int : time(i) \in Nat
    BY <1>1, NoteTimes
  <2> HIDE DEF time
  <2>2. QED
    BY <2>1
<1>3. Rest(notes) = time(2) + time(3) + time(4) + time(5) + time(6) + time(7)
  BY DEF Rest
<1>4. Link!Length(sound) = time(1) + time(2) + time(3) + time(4) + time(5) + time(6) + time(7)
  BY DEF Link!Length
<1>5. time(1) = SoundTicks(Head(notes).ms) + MaxHold
  <2>1. 1 \in 1 .. Len(notes) /\ Head(notes) = notes[1]
    BY <1>1
  <2>2. QED
    BY <1>1, <2>1, NoteTimes
<1> HIDE DEF time, notes
<1>6. QED
  BY <1>2, <1>3, <1>4, <1>5 DEF notes

(* The bounds, and the time to the next look at the queue, are numbers. *)
LEMMA Bounds ==
  ASSUME Link!LinkSoundsAssumption
  PROVE  /\ MaxHold \in Nat /\ Link!Look \in Nat
         /\ Link!Length("Startup") \in Nat /\ Link!Length("LinkLost") \in Nat
         /\ Link!Length("LinkReacquired") \in Nat
         /\ Link!LongestWait = Link!Look + Link!Length("LinkLost") + MaxHold
         /\ Link!Enough = Link!LongestWait + Link!Length("LinkReacquired")
         /\ Link!Length("Startup") <= Link!Length("LinkLost") + Link!Length("LinkReacquired")
<1>1. \A sound \in UiSound : Link!Length(sound) \in Nat
  BY SoundLength
<1>2. MaxHold \in Nat /\ Link!Look \in Nat
  BY DEF Link!LinkSoundsAssumption, Link!Look
<1>3. Link!Length("Startup") <= Link!Length("LinkLost") + Link!Length("LinkReacquired")
  BY DEF Link!LinkSoundsAssumption
<1>4. QED
  BY <1>1, <1>2, <1>3 DEF UiSound, Link!LongestWait, Link!Enough

LEMMA FreeTime ==
  ASSUME Link!LinkSoundsAssumption, TaskInv
  PROVE  /\ Free \in Nat
         /\ playing = <<>> => Free <= Link!Look
         /\ playing # <<>> => Free >= MaxHold
<1>1. /\ MaxHold \in Nat /\ left \in Nat /\ hold \in 0 .. MaxHold
      /\ playing = <<>> => left <= SoundTicks(AUDIO_SERVICE_INTERVAL_MS)
      /\ SoundTicks(AUDIO_SERVICE_INTERVAL_MS) \in Nat
  BY DEF TaskInv, Link!LinkSoundsAssumption
<1>2. Rest(playing) \in Nat
  BY NoteTimes DEF TaskInv
<1>3. QED
  BY <1>1, <1>2 DEF Free, Link!Look

(* A sound that begins is as long as its first note and the rest. *)
LEMMA StartTime ==
  ASSUME Link!LinkSoundsAssumption, NEW sound \in UiSound
  PROVE  /\ SoundTicks(Head(Link!Notes(sound)).ms) \in Nat
         /\ Rest(Link!Notes(sound)) \in Nat
         /\ Link!Length(sound) = SoundTicks(Head(Link!Notes(sound)).ms) + MaxHold
                                   + Rest(Link!Notes(sound))
<1> DEFINE notes == Link!Notes(sound)
<1>1. notes \in Seq(TimedNote) /\ Len(notes) <= 7 /\ notes # <<>>
  BY SoundNotes
<1> HIDE DEF notes
<1>2. 1 \in 1 .. Len(notes) /\ Head(notes) = notes[1]
  BY <1>1
<1>3. SoundTicks(Head(notes).ms) \in Nat /\ Rest(notes) \in Nat
  BY <1>1, <1>2, NoteTimes
<1>4. QED
  BY <1>3, SoundLength DEF notes

(* A note that is over gives way to the notes after it. *)
LEMMA NextNoteTime ==
  ASSUME Link!LinkSoundsAssumption, NEW notes \in Seq(TimedNote), Len(notes) > 1, Len(notes) <= 7
  PROVE  /\ Tail(notes) \in Seq(TimedNote) /\ Tail(notes) # <<>> /\ Len(Tail(notes)) <= 7
         /\ SoundTicks(Head(Tail(notes)).ms) \in Nat
         /\ SoundTicks(Head(Tail(notes)).ms) + MaxHold + Rest(Tail(notes)) = Rest(notes)
<1> DEFINE time(i) == Link!NoteTime(notes, i)
           next(i) == Link!NoteTime(Tail(notes), i)
<1>1. /\ Tail(notes) \in Seq(TimedNote) /\ Len(Tail(notes)) = Len(notes) - 1
      /\ \A i \in 1 .. Len(notes) - 1 : Tail(notes)[i] = notes[i + 1]
      /\ Head(Tail(notes)) = notes[2] /\ Tail(notes) # <<>>
  <2>1. /\ Tail(notes) \in Seq(TimedNote) /\ Len(Tail(notes)) = Len(notes) - 1
        /\ \A i \in 1 .. Len(notes) - 1 : Tail(notes)[i] = notes[i + 1]
    OBVIOUS
  <2>2. 1 \in 1 .. Len(notes) - 1 /\ Len(Tail(notes)) # 0
    BY <2>1
  <2>3. Tail(notes) # <<>>
    <3> DEFINE t == Tail(notes)
    <3>1. Len(t) # 0
      BY <2>2
    <3> HIDE DEF t
    <3>2. t # <<>>
      BY <3>1
    <3>3. QED
      BY <3>2 DEF t
  <2>4. QED
    BY <2>1, <2>2, <2>3
<1>2. /\ next(2) = time(3) /\ next(3) = time(4) /\ next(4) = time(5)
      /\ next(5) = time(6) /\ next(6) = time(7) /\ next(7) = 0
  BY <1>1 DEF Link!NoteTime
<1> DEFINE first == SoundTicks(notes[2].ms)
<1>3. time(2) = first + MaxHold /\ first \in Nat
  <2>1. 2 \in 1 .. Len(notes)
    OBVIOUS
  <2>2. QED
    BY <2>1, NoteTimes
<1>4. /\ time(3) \in Nat /\ time(4) \in Nat /\ time(5) \in Nat
      /\ time(6) \in Nat /\ time(7) \in Nat /\ MaxHold \in Nat
  <2>1. \A i \in Int : time(i) \in Nat
    BY NoteTimes
  <2>2. MaxHold \in Nat
    BY NoteTimes
  <2> HIDE DEF time
  <2>3. QED
    BY <2>1, <2>2
<1>5. /\ Rest(notes) = time(2) + time(3) + time(4) + time(5) + time(6) + time(7)
      /\ Rest(Tail(notes)) = next(2) + next(3) + next(4) + next(5) + next(6) + next(7)
  BY DEF Rest
<1>6. SoundTicks(Head(Tail(notes)).ms) = first
  BY <1>1
<1> HIDE DEF time, next, first
<1>7. first + MaxHold + Rest(Tail(notes)) = Rest(notes)
  <2>1. Rest(Tail(notes)) = time(3) + time(4) + time(5) + time(6) + time(7) + 0
    BY <1>2, <1>5
  <2>2. Rest(notes) = first + MaxHold + time(3) + time(4) + time(5) + time(6) + time(7)
    BY <1>3, <1>5
  <2>3. PICK c \in Nat, d \in Nat, e \in Nat, f \in Nat, g \in Nat :
          time(3) = c /\ time(4) = d /\ time(5) = e /\ time(6) = f /\ time(7) = g
    BY <1>4
  <2>4. Rest(Tail(notes)) = c + d + e + f + g + 0
    BY <2>1, <2>3
  <2>5. Rest(notes) = first + MaxHold + c + d + e + f + g
    BY <2>2, <2>3
  <2>6. QED
    BY <1>3, <1>4, <2>4, <2>5
<1>8. Len(Tail(notes)) <= 7
  BY <1>1
<1>9. QED
  BY <1>1, <1>3, <1>6, <1>7, <1>8

(* The steps of the audio task: it takes a sound from the queue, or goes on with
   the one that plays and comes no later to the queue, or looks at it in vain. *)
LEMMA TaskSteps ==
  ASSUME Link!LinkSoundsAssumption, TaskInv, Link!AudioStep
  PROVE  /\ TaskInv'
         /\ \/ /\ ui_sounds # <<>> /\ ui_sounds' = Tail(ui_sounds)
               /\ playing = <<>> /\ playing' # <<>>
               /\ Free' = Link!Length(Head(ui_sounds)) + MaxHold
            \/ ui_sounds' = ui_sounds /\ playing # <<>> /\ Free' \in Nat /\ Free' <= Free
            \/ ui_sounds = <<>> /\ ui_sounds' = <<>> /\ playing' = <<>>
<1> DEFINE interval == SoundTicks(AUDIO_SERVICE_INTERVAL_MS)
<1>0. ui_sounds \in Seq(UiSound) /\ playing \in Seq(TimedNote) /\ Len(playing) <= 7
  BY DEF TaskInv
<1>1. /\ MaxHold \in Nat /\ left \in Nat /\ hold \in 0 .. MaxHold /\ wait \in Nat
      /\ age \in Int /\ age >= Link!Never /\ interval \in Nat
  BY DEF TaskInv, Link!LinkSoundsAssumption
<1>2. hold' = 0 /\ 0 \in 0 .. MaxHold /\ wait' = wait /\ age' = age
  BY <1>1 DEF Link!AudioStep, Link!loop
<1>a. ASSUME ui_sounds' \in Seq(UiSound), left' \in Nat,
             playing' \in Seq(TimedNote), Len(playing') <= 7,
             playing' = <<>> => left' <= interval
      PROVE  TaskInv'
  <2> HIDE DEF interval
  <2>1. wait' \in Nat /\ hold' \in 0 .. MaxHold /\ age' \in Int /\ age' >= Link!Never
    BY <1>1, <1>2
  <2>2. QED
    BY <1>2, <1>a, <2>1, Zenon DEF TaskInv, interval
<1> HIDE DEF interval
<1>3. CASE Link!StartSound
  <2> DEFINE s == Head(ui_sounds)
             rest == Rest(Link!Notes(s))
  <2>1. /\ playing = <<>> /\ ui_sounds # <<>> /\ ui_sounds' = Tail(ui_sounds)
        /\ playing' = Link!Notes(s) /\ left' = SoundTicks(Head(Link!Notes(s)).ms)
    BY <1>3 DEF Link!StartSound, Link!Plays
  <2>2. s \in UiSound /\ ui_sounds' \in Seq(UiSound)
    BY <1>0, <2>1
  <2> HIDE DEF s
  <2>3. /\ playing' \in Seq(TimedNote) /\ Len(playing') <= 7 /\ playing' # <<>>
    <3>1. Len(Link!Notes(s)) <= 7
      BY <2>2, SoundNotes
    <3>2. QED
      BY <2>1, <2>2, <3>1, SoundNotes, Zenon
  <2>4. left' \in Nat /\ rest \in Nat /\ Link!Length(s) = left' + MaxHold + rest
    BY <2>1, <2>2, StartTime
  <2>5. TaskInv'
    BY <1>a, <2>2, <2>3, <2>4
  <2>6. Free' = left' + MaxHold - hold' + (rest + MaxHold)
    BY <2>1, <2>3 DEF Free
  <2> HIDE DEF rest
  <2>7. Free' = Link!Length(s) + MaxHold
    BY <1>1, <1>2, <2>4, <2>6
  <2>8. QED
    BY <2>1, <2>3, <2>5, <2>7 DEF s
<1>4. CASE Link!NextNote
  <2> DEFINE rest == Rest(playing)
             next == Rest(playing')
  <2>1. /\ left = 0 /\ Len(playing) > 1 /\ ui_sounds' = ui_sounds
        /\ playing' = Tail(playing) /\ left' = SoundTicks(Head(Tail(playing)).ms)
    BY <1>4 DEF Link!NextNote, Link!Plays
  <2>2. playing # <<>>
    BY <1>0, <2>1
  <2>3. /\ playing' \in Seq(TimedNote) /\ playing' # <<>> /\ Len(playing') <= 7
        /\ left' \in Nat /\ left' + MaxHold + next = rest
    BY <1>0, <2>1, <2>2, NextNoteTime
  <2>4. rest \in Nat /\ next \in Nat
    BY <1>0, <2>3, NoteTimes
  <2>5. TaskInv'
    BY <1>0, <1>a, <2>1, <2>3
  <2>6. Free' = left' + MaxHold - hold' + (next + MaxHold)
    BY <2>3 DEF Free
  <2>7. Free = left + MaxHold - hold + (rest + MaxHold)
    BY <2>2 DEF Free
  <2> HIDE DEF rest, next
  <2>8. Free' \in Nat /\ Free' <= Free
    <3>1. PICK l \in Nat : l = left'
      BY <2>3
    <3>2. l + MaxHold + next = rest /\ Free' = l + MaxHold - 0 + (next + MaxHold)
      BY <1>2, <2>3, <2>6, <3>1
    <3>3. Free = 0 + MaxHold - hold + (rest + MaxHold)
      BY <2>1, <2>7
    <3>4. PICK m \in Nat : m = MaxHold - hold
      BY <1>1
    <3>5. Free = m + (rest + MaxHold)
      BY <1>1, <2>4, <3>3, <3>4
    <3>6. Free' = rest + MaxHold
      BY <1>1, <2>4, <3>2
    <3>7. QED
      BY <1>1, <2>4, <3>5, <3>6
  <2>9. QED
    BY <2>1, <2>2, <2>5, <2>8
<1>5. CASE Link!EndSound
  <2>1. left = 0 /\ Len(playing) = 1 /\ playing' = <<>> /\ left' = left /\ ui_sounds' = ui_sounds
    BY <1>5 DEF Link!EndSound
  <2>2. playing # <<>>
    <3>1. Len(playing) # 0
      BY <2>1
    <3>2. QED
      BY <3>1
  <2>3. playing' \in Seq(TimedNote) /\ Len(playing') <= 7 /\ left' <= interval
    BY <1>1, <2>1
  <2>4. TaskInv'
    BY <1>0, <1>1, <1>a, <2>1, <2>3
  <2>5. Free' = left' + MaxHold - hold' + 0
    BY <2>1 DEF Free
  <2>6. Free \in Nat /\ Free >= MaxHold
    BY <2>2, FreeTime
  <2>7. Free' \in Nat /\ Free' <= Free
    BY <1>1, <1>2, <2>1, <2>5, <2>6
  <2>8. QED
    BY <2>1, <2>2, <2>4, <2>7
<1>6. CASE Link!ServeRoutine \/ Link!Idle
  <2>1. /\ playing' = playing /\ playing = <<>> /\ ui_sounds = <<>> /\ ui_sounds' = <<>>
        /\ left' = interval
    BY <1>6 DEF Link!ServeRoutine, Link!Idle, interval
  <2>2. TaskInv'
    BY <1>0, <1>1, <1>a, <2>1
  <2>3. QED
    BY <2>1, <2>2
<1>7. QED
  BY <1>3, <1>4, <1>5, <1>6 DEF Link!AudioStep, Link!AudioTask

(* Time passes: all that is to come comes nearer by as much. *)
LEMMA TickSteps ==
  ASSUME Link!LinkSoundsAssumption, TaskInv, Link!Tick
  PROVE  /\ TaskInv'
         /\ Free >= 1 /\ Free' = Free - 1
         /\ UNCHANGED <<ui_sounds, playing, awaited, asked, link_lost_displayed, rushed>>
         /\ Age' <= Age + 1
         /\ wait' <= wait + 1
         /\ Link!Wanted = <<>> => wait' = 0
<1>1. /\ MaxHold \in Nat /\ left \in Nat /\ hold \in 0 .. MaxHold /\ wait \in Nat
      /\ age \in Int /\ age >= -1
      /\ left > 0 => hold = 0
      /\ SoundTicks(AUDIO_SERVICE_INTERVAL_MS) \in Nat
      /\ Rest(playing) \in Nat
  BY NoteTimes DEF TaskInv, Link!LinkSoundsAssumption, Link!Never
<1>2. UNCHANGED <<ui_sounds, playing, awaited, asked, link_lost_displayed, rushed>>
  BY DEF Link!Tick
<1>3. \/ left > 0 /\ left' = left - 1 /\ hold' = 0 /\ hold = 0
      \/ left = 0 /\ left' = 0 /\ hold < MaxHold /\ hold' = hold + 1
  BY <1>1 DEF Link!Tick
<1>4. age' = age \/ (age # -1 /\ age' = age + 1)
  BY DEF Link!Tick, Link!Never
<1>5. /\ wait' \in {0, wait, wait + 1}
      /\ Link!Wanted = <<>> => wait' = 0
  BY DEF Link!Tick
<1>6. TaskInv'
  BY <1>1, <1>2, <1>3, <1>4, <1>5 DEF TaskInv, Link!Never
<1>7. Free >= 1 /\ Free' = Free - 1
  BY <1>1, <1>2, <1>3 DEF Free
<1>8. Age' <= Age + 1
  <2>1. Age = (IF age = -1 THEN 0 ELSE age) /\ Age' = (IF age' = -1 THEN 0 ELSE age')
    BY DEF Age, Link!Never
  <2>2. age \in Int /\ age >= -1
    BY <1>1
  <2>3. CASE age' = age
    BY <2>1, <2>2, <2>3
  <2>4. CASE age # -1 /\ age' = age + 1
    BY <2>1, <2>2, <2>4
  <2>5. QED
    BY <1>4, <2>3, <2>4
<1>9. QED
  BY <1>1, <1>2, <1>5, <1>6, <1>7, <1>8

LEMMA AppendToOne ==
  ASSUME NEW a, NEW b
  PROVE  <<a, b>> = Append(<<a>>, b)
  BY SMTT(30)

(* To ask for a sound leaves the audio task alone; while it may be asked for twice
   the loop need not wait. *)
LEMMA Asks ==
  ASSUME Link!LinkSoundsAssumption, TaskInv, NEW sound \in UiSound, Link!PlayUiSound(sound),
         age' \in Int, age' >= Link!Never
  PROVE  /\ TaskInv' /\ Free' = Free
         /\ asked' = sound /\ wait' = 0 /\ playing' = playing
         /\ Len(ui_sounds) < 2 => ui_sounds' = Append(ui_sounds, sound) /\ awaited' = awaited
<1>1. /\ UNCHANGED <<playing, left, hold>> /\ asked' = sound /\ wait' = 0
  BY DEF Link!PlayUiSound
<1>2. ui_sounds \in Seq(UiSound) /\ QueueDepth >= 2
  BY DEF TaskInv, Link!LinkSoundsAssumption
<1>3. ui_sounds' \in Seq(UiSound)
  BY <1>2 DEF Link!PlayUiSound, Link!QueueSound
<1>4. Len(ui_sounds) < 2 => ui_sounds' = Append(ui_sounds, sound) /\ awaited' = awaited
  <2>1. SUFFICES ASSUME Len(ui_sounds) < 2
                 PROVE  ui_sounds' = Append(ui_sounds, sound) /\ awaited' = awaited
    OBVIOUS
  <2>2. Len(ui_sounds) # QueueDepth
    BY <1>2, <2>1
  <2>3. QED
    BY <2>2 DEF Link!PlayUiSound, Link!QueueSound
<1>5. Free' = Free
  BY <1>1 DEF Free
<1>6. TaskInv'
  BY <1>1, <1>3 DEF TaskInv
<1>7. QED
  BY <1>1, <1>4, <1>5, <1>6

(* The steps of the loop that change what is asked for. *)
LEMMA LoopKeepsTime ==
  ASSUME Link!LinkSoundsAssumption, IInv, ~rushed',
         Link!Chime \/ Link!PacketReacquires \/ Link!DeclareLost
  PROVE  TaskInv' /\ StartInv' /\ TimeInv'
<1> DEFINE LL == Link!Length("LinkLost")
           LR == Link!Length("LinkReacquired")
           LS == Link!Length("Startup")
<1>1. /\ MaxHold \in Nat /\ Link!Look \in Nat /\ LL \in Nat /\ LR \in Nat /\ LS \in Nat
      /\ Link!LongestWait = Link!Look + LL + MaxHold
      /\ Link!Enough = Link!LongestWait + LR
      /\ LS <= LL + LR
  BY Bounds
<1>2. /\ Free \in Nat /\ (playing = <<>> => Free <= Link!Look)
      /\ (playing # <<>> => Free >= MaxHold)
  BY FreeTime DEF IInv
<1>3. ~rushed
  BY DEF Link!Chime, Link!PacketReacquires, Link!DeclareLost
<1>4. awaited = Link!Nothing /\ (~link_lost_displayed => UpInv) /\ (link_lost_displayed => LostInv)
  BY <1>3 DEF IInv, TimeInv
<1>5. age \in Int /\ age >= -1 /\ TaskInv
  BY DEF IInv, TaskInv, Link!Never
<1> HIDE DEF LL, LR, LS
<1>6. CASE Link!Chime
  <2>1. /\ asked = Link!Nothing /\ Link!PlayUiSound("Startup")
        /\ UNCHANGED <<age, link_lost_displayed>>
    BY <1>6 DEF Link!Chime
  <2>2. age = -1 /\ playing = <<>> /\ ~link_lost_displayed /\ ui_sounds = <<>>
    BY <1>4, <2>1 DEF IInv, StartInv, ToldInv, Link!Wanted, Link!Nothing, Link!Never
  <2>3. /\ TaskInv' /\ Free' = Free /\ asked' = "Startup" /\ wait' = 0
        /\ ui_sounds' = <<"Startup">> /\ awaited' = Link!Nothing
    BY <1>4, <1>5, <2>1, <2>2, Asks DEF UiSound, Link!Never
  <2>4. Age' = 0
    BY <2>1, <2>2 DEF Age, Link!Never
  <2>5. wait' + Free' <= Link!LongestWait /\ Free' + LS <= Link!Enough - Age'
    BY <1>1, <1>2, <2>2, <2>3, <2>4
  <2>6. UpInv'
    BY <2>3, <2>5 DEF UpInv, LS
  <2>7. StartInv' /\ wait' <= Link!LongestWait
    BY <1>1, <2>3 DEF StartInv, Link!Nothing
  <2>8. QED
    BY <2>1, <2>2, <2>3, <2>6, <2>7 DEF TimeInv
<1>7. CASE Link!PacketReacquires
  <2>1. /\ link_lost_displayed /\ ~link_lost_displayed' /\ age' = 0
        /\ Link!PlayUiSound("LinkReacquired")
    BY <1>7 DEF Link!PacketReacquires
  <2>2. Age' = 0
    BY <2>1 DEF Age, Link!Never
  <2>3. \/ ui_sounds = <<>> /\ (playing = <<>> \/ Free - MaxHold <= LL)
        \/ ui_sounds = <<"LinkLost">> /\ playing = <<>>
    BY <1>4, <2>1 DEF LostInv, LL
  <2>4. Len(ui_sounds) < 2
    <3>1. CASE ui_sounds = <<>>
      BY <3>1
    <3>2. CASE ui_sounds = <<"LinkLost">>
      BY <3>2
    <3>3. QED
      BY <2>3, <3>1, <3>2
  <2>5. /\ TaskInv' /\ Free' = Free /\ asked' = "LinkReacquired" /\ wait' = 0
        /\ ui_sounds' = Append(ui_sounds, "LinkReacquired") /\ awaited' = Link!Nothing
    BY <1>4, <1>5, <2>1, <2>4, Asks DEF UiSound, Link!Never
  <2>6. ASSUME ui_sounds = <<>> PROVE UpInv'
    <3>1. ui_sounds' = <<"LinkReacquired">>
      BY <2>5, <2>6
    <3>2. Free <= LL + MaxHold \/ Free <= Link!Look
      BY <1>1, <1>2, <2>3, <2>6
    <3>3. wait' + Free' <= Link!LongestWait /\ Free' + LR <= Link!Enough - Age'
      BY <1>1, <1>2, <2>2, <2>5, <3>2
    <3>4. QED
      BY <2>5, <3>1, <3>3 DEF UpInv, LR
  <2>7. ASSUME ui_sounds = <<"LinkLost">> PROVE UpInv'
    <3>1. ui_sounds' = <<"LinkLost", "LinkReacquired">>
      BY <2>5, <2>7, AppendToOne
    <3>2. Free <= Link!Look
      BY <1>2, <2>3, <2>7
    <3>3. /\ wait' + Free' + LL + MaxHold <= Link!LongestWait
          /\ Free' + LL + MaxHold + LR <= Link!Enough - Age'
      BY <1>1, <1>2, <2>2, <2>5, <3>2
    <3>4. QED
      BY <3>1, <3>3 DEF UpInv, LR, LL
  <2>8. UpInv'
    BY <2>3, <2>6, <2>7
  <2>9. StartInv' /\ wait' <= Link!LongestWait
    BY <1>1, <2>5 DEF StartInv, Link!Nothing
  <2>10. QED
    BY <2>1, <2>5, <2>8, <2>9 DEF TimeInv
<1>8. CASE Link!DeclareLost
  <2>1. /\ ~link_lost_displayed /\ link_lost_displayed' /\ age' = age /\ ~(age <= Link!Enough)
        /\ Link!PlayUiSound("LinkLost")
    BY <1>8 DEF Link!DeclareLost
  <2>2. Link!Enough \in Nat /\ age > Link!Enough /\ Age = age
    <3>1. Link!Enough \in Nat
      BY <1>1
    <3>2. QED
      BY <1>5, <2>1, <3>1 DEF Age, Link!Never
  <2>3. ui_sounds = <<>> /\ playing = <<>>
    <3>1. UpInv
      BY <1>4, <2>1
    <3>2. Link!Enough - Age < 0
      BY <1>5, <2>2
    <3>3. ~(Free + LL + MaxHold + LR <= Link!Enough - Age)
      BY <1>1, <1>2, <1>5, <2>2, <3>2
    <3>4. playing # <<>> => ~(Free - MaxHold <= Link!Enough - Age)
      BY <1>1, <1>2, <1>5, <2>2, <3>2
    <3>5. ~(ui_sounds = <<asked>> /\ Free + Link!Length(asked) <= Link!Enough - Age)
      <4>1. SUFFICES ASSUME ui_sounds = <<asked>>
                     PROVE  ~(Free + Link!Length(asked) <= Link!Enough - Age)
        OBVIOUS
      <4>2. asked \in UiSound
        BY <1>5, <4>1 DEF TaskInv
      <4>3. Link!Length(asked) \in Nat
        BY <4>2, SoundLength
      <4>4. QED
        BY <1>1, <1>2, <1>5, <2>2, <3>2, <4>3
    <3>6. QED
      BY <3>1, <3>3, <3>4, <3>5 DEF UpInv, LL, LR
  <2>4. Len(ui_sounds) < 2
    BY <2>3
  <2>5. /\ TaskInv' /\ Free' = Free /\ asked' = "LinkLost" /\ wait' = 0
        /\ ui_sounds' = <<"LinkLost">> /\ awaited' = Link!Nothing /\ playing' = <<>>
    BY <1>4, <1>5, <2>1, <2>3, <2>4, Asks DEF UiSound, Link!Never
  <2>6. wait' + Free' <= Link!LongestWait
    BY <1>1, <1>2, <2>3, <2>5
  <2>7. LostInv'
    BY <2>5, <2>6 DEF LostInv
  <2>8. StartInv' /\ wait' <= Link!LongestWait
    BY <1>1, <2>5 DEF StartInv, Link!Nothing
  <2>9. QED
    BY <2>1, <2>5, <2>7, <2>8 DEF TimeInv
<1>9. QED
  BY <1>6, <1>7, <1>8

(* The audio task takes the oldest sound, and what is left has come no nearer to
   its bounds than it was. *)
LEMMA TaskKeepsTime ==
  ASSUME Link!LinkSoundsAssumption, IInv, ~rushed', Link!AudioStep
  PROVE  TaskInv' /\ StartInv' /\ TimeInv'
<1> DEFINE LL == Link!Length("LinkLost")
           LR == Link!Length("LinkReacquired")
<1>1. /\ MaxHold \in Nat /\ Link!Look \in Nat /\ LL \in Nat /\ LR \in Nat
      /\ Link!LongestWait \in Nat /\ Link!Enough \in Nat
  BY Bounds
<1>2. Free \in Nat /\ age \in Int /\ Age \in Int /\ wait \in Nat
  BY FreeTime DEF IInv, TaskInv, Age
<1>3. /\ ~rushed /\ Age' = Age
      /\ UNCHANGED <<awaited, asked, link_lost_displayed, wait, age>>
  BY DEF Link!AudioStep, Link!loop, Age
<1>4. /\ awaited = Link!Nothing /\ wait <= Link!LongestWait
      /\ ~link_lost_displayed => UpInv
      /\ link_lost_displayed => LostInv
  BY <1>3 DEF IInv, TimeInv
<1>5. /\ TaskInv'
      /\ \/ /\ ui_sounds # <<>> /\ ui_sounds' = Tail(ui_sounds)
            /\ playing = <<>> /\ playing' # <<>>
            /\ Free' = Link!Length(Head(ui_sounds)) + MaxHold
         \/ ui_sounds' = ui_sounds /\ playing # <<>> /\ Free' \in Nat /\ Free' <= Free
         \/ ui_sounds = <<>> /\ ui_sounds' = <<>> /\ playing' = <<>>
  BY TaskSteps DEF IInv
<1>7. asked \in UiSound \/ (ui_sounds = <<>> /\ playing = <<>>)
  <2>1. asked = Link!Nothing => ui_sounds = <<>> /\ playing = <<>>
    BY <1>4 DEF IInv, ToldInv, StartInv, Link!Wanted
  <2>2. QED
    BY <2>1 DEF IInv, ToldInv
<1> HIDE DEF LL, LR
<1>8. CASE /\ ui_sounds # <<>> /\ ui_sounds' = Tail(ui_sounds) /\ playing = <<>>
           /\ Free' = Link!Length(Head(ui_sounds)) + MaxHold
  <2>1. StartInv'
    BY <1>3, <1>7, <1>8 DEF StartInv, UiSound, Link!Nothing
  <2>2. CASE ~link_lost_displayed
    <3>1. CASE /\ ui_sounds = <<asked>> /\ wait + Free <= Link!LongestWait
               /\ Free + Link!Length(asked) <= Link!Enough - Age
      <4>1. ui_sounds' = <<>> /\ Head(ui_sounds) = asked
        BY <1>8, <3>1
      <4>2. Link!Length(asked) \in Nat
        BY <1>7, <1>8, SoundLength
      <4>3. Free' - MaxHold <= Link!Enough - Age'
        BY <1>1, <1>2, <1>3, <1>8, <3>1, <4>1, <4>2
      <4>4. UpInv'
        BY <4>1, <4>3 DEF UpInv
      <4>5. QED
        BY <1>3, <1>4, <1>5, <2>1, <2>2, <4>4 DEF TimeInv
    <3>2. CASE /\ ui_sounds = <<"LinkLost", "LinkReacquired">>
               /\ wait + Free + LL + MaxHold <= Link!LongestWait
               /\ Free + LL + MaxHold + LR <= Link!Enough - Age
      <4>1. ui_sounds' = <<"LinkReacquired">> /\ Head(ui_sounds) = "LinkLost"
        BY <1>8, <3>2
      <4>2. asked' = "LinkReacquired"
        BY <1>3, <1>4, <3>2 DEF IInv, ToldInv, Link!Wanted
      <4>3. /\ wait' + Free' <= Link!LongestWait
            /\ Free' + LR <= Link!Enough - Age'
        <5>1. Free' = LL + MaxHold /\ wait' = wait /\ Age' = Age
          BY <1>3, <1>8, <4>1 DEF LL
        <5>2. /\ wait + Free + LL + MaxHold <= Link!LongestWait
              /\ Free + LL + MaxHold + LR <= Link!Enough - Age
          BY <3>2
        <5>3. QED
          BY <1>1, <1>2, <5>1, <5>2
      <4>4. UpInv'
        BY <4>1, <4>2, <4>3 DEF UpInv, LR
      <4>5. QED
        BY <1>3, <1>4, <1>5, <2>1, <2>2, <4>4 DEF TimeInv
    <3>3. QED
      BY <1>4, <1>8, <2>2, <3>1, <3>2 DEF UpInv, LL, LR
  <2>3. CASE link_lost_displayed
    <3>1. ui_sounds = <<"LinkLost">>
      BY <1>4, <1>8, <2>3 DEF LostInv
    <3>2. ui_sounds' = <<>> /\ Head(ui_sounds) = "LinkLost"
      BY <1>8, <3>1
    <3>3. Free' - MaxHold <= LL
      BY <1>1, <1>8, <3>2 DEF LL
    <3>4. LostInv'
      BY <3>2, <3>3 DEF LostInv, LL
    <3>5. QED
      BY <1>3, <1>4, <1>5, <2>1, <2>3, <3>4 DEF TimeInv
  <2>4. QED
    BY <2>2, <2>3
<1>9. CASE ui_sounds' = ui_sounds /\ playing # <<>> /\ Free' \in Nat /\ Free' <= Free
  <2>0. PICK f \in Nat : f = Free' /\ f <= Free
    BY <1>9
  <2>a. f <= Free
    BY <2>0
  <2>1. StartInv'
    BY <1>3, <1>7, <1>9 DEF StartInv, UiSound, Link!Nothing
  <2>2. ASSUME UpInv PROVE UpInv'
    <3>1. f - MaxHold <= Free - MaxHold
      BY <1>1, <1>2, <2>a
    <3>2. Free - MaxHold <= Link!Enough - Age => f - MaxHold <= Link!Enough - Age
      BY <1>1, <1>2, <2>a
    <3>3. wait + Free <= Link!LongestWait => wait + f <= Link!LongestWait
      BY <1>1, <1>2, <2>a
    <3>4. /\ wait + Free + LL + MaxHold <= Link!LongestWait
               => wait + f + LL + MaxHold <= Link!LongestWait
          /\ Free + LL + MaxHold + LR <= Link!Enough - Age
               => f + LL + MaxHold + LR <= Link!Enough - Age
      BY <1>1, <1>2, <2>a
    <3>5. asked \in UiSound =>
            (Free + Link!Length(asked) <= Link!Enough - Age
               => f + Link!Length(asked) <= Link!Enough - Age)
      <4>1. SUFFICES ASSUME asked \in UiSound, Free + Link!Length(asked) <= Link!Enough - Age
                     PROVE  f + Link!Length(asked) <= Link!Enough - Age
        OBVIOUS
      <4>2. Link!Length(asked) \in Nat
        BY <4>1, SoundLength
      <4>3. QED
        BY <1>1, <1>2, <2>a, <4>1, <4>2
    <3>6. QED
      BY <1>3, <1>7, <1>9, <2>0, <2>2, <3>2, <3>3, <3>4, <3>5 DEF UpInv, LL, LR
  <2>3. ASSUME LostInv PROVE LostInv'
    <3>1. Free - MaxHold <= LL => f - MaxHold <= LL
      BY <1>1, <1>2, <2>a
    <3>2. QED
      BY <1>3, <1>9, <2>0, <2>3, <3>1 DEF LostInv, LL
  <2>4. QED
    BY <1>3, <1>4, <1>5, <2>1, <2>2, <2>3 DEF TimeInv
<1>10. CASE ui_sounds = <<>> /\ ui_sounds' = <<>> /\ playing' = <<>>
  <2>1. UpInv' /\ LostInv'
    BY <1>10 DEF UpInv, LostInv
  <2>2. StartInv'
    BY <1>3, <1>10 DEF IInv, StartInv
  <2>3. QED
    BY <1>3, <1>4, <1>5, <2>1, <2>2 DEF TimeInv
<1>11. QED
  BY <1>5, <1>8, <1>9, <1>10

(* Time passes for a sound that waits as for the link. *)
LEMMA TickKeepsTime ==
  ASSUME Link!LinkSoundsAssumption, IInv, ~rushed', Link!Tick
  PROVE  TaskInv' /\ StartInv' /\ TimeInv'
<1> DEFINE LL == Link!Length("LinkLost")
           LR == Link!Length("LinkReacquired")
           LW == Link!LongestWait
           E == Link!Enough
<1>1. MaxHold \in Nat /\ LL \in Nat /\ LR \in Nat /\ LW \in Nat /\ E \in Nat
  BY Bounds
<1>2. Free \in Nat /\ Age \in Int /\ wait \in Nat
  BY FreeTime DEF IInv, TaskInv, Age
<1>3. /\ TaskInv'
      /\ Free >= 1 /\ Free' = Free - 1
      /\ UNCHANGED <<ui_sounds, playing, awaited, asked, link_lost_displayed, rushed>>
      /\ Age' <= Age + 1 /\ wait' <= wait + 1
      /\ Link!Wanted = <<>> => wait' = 0
  BY TickSteps DEF IInv
<1>4. PICK a \in Int, w \in Nat : a = Age' /\ w = wait' /\ a <= Age + 1 /\ w <= wait + 1
  BY <1>3 DEF TaskInv, Age
<1>5. a <= Age + 1 /\ w <= wait + 1 /\ Free >= 1
  BY <1>3, <1>4
<1>6. ~rushed /\ asked # Link!Nothing
  BY <1>3 DEF Link!Tick
<1>7. /\ awaited = Link!Nothing /\ wait <= Link!LongestWait
      /\ ~link_lost_displayed => UpInv
      /\ link_lost_displayed => LostInv
  BY <1>6 DEF IInv, TimeInv
<1>8. StartInv'
  BY <1>3, <1>6 DEF StartInv
<1>9. ui_sounds = <<>> => w = 0
  BY <1>3, <1>4, <1>7 DEF Link!Wanted
<1>10. Link!Length(asked) \in Nat
  BY <1>6, SoundLength DEF IInv, ToldInv
<1> HIDE DEF LL, LR, LW, E
<1>11. wait + Free <= LW => w + (Free - 1) <= LW /\ w <= LW
  BY <1>1, <1>2, <1>5
<1>12. wait + Free + LL + MaxHold <= LW => w + (Free - 1) + LL + MaxHold <= LW /\ w <= LW
  BY <1>1, <1>2, <1>5
<1>13. /\ Free - MaxHold <= E - Age => Free - 1 - MaxHold <= E - a
       /\ Free + LL + MaxHold + LR <= E - Age => Free - 1 + LL + MaxHold + LR <= E - a
       /\ Free - MaxHold <= LL => Free - 1 - MaxHold <= LL
  BY <1>1, <1>2, <1>5
<1>14. Free + Link!Length(asked) <= E - Age => Free - 1 + Link!Length(asked) <= E - a
  BY <1>1, <1>2, <1>5, <1>10
<1>15. 0 <= LW
  BY <1>1
<1>16. UpInv => UpInv' /\ wait' <= LW
  BY <1>3, <1>4, <1>9, <1>11, <1>12, <1>13, <1>14, <1>15 DEF UpInv, LL, LR, LW, E
<1>17. LostInv => LostInv' /\ wait' <= LW
  BY <1>3, <1>4, <1>9, <1>11, <1>13, <1>15 DEF LostInv, LL, LW
<1>18. QED
  BY <1>3, <1>7, <1>8, <1>16, <1>17 DEF TimeInv, LW

LEMMA TimeKept ==
  ASSUME Link!LinkSoundsAssumption, IInv, [Link!Next]_(Link!vars)
  PROVE  IInv'
<1>1. ToldInv'
  BY ToldKept DEF IInv
<1>2. TaskInv' /\ StartInv'
  <2>1. CASE Link!Chime \/ Link!PacketReacquires \/ Link!DeclareLost
    <3>1. PICK sound \in UiSound : Link!PlayUiSound(sound)
      BY <2>1 DEF Link!Chime, Link!PacketReacquires, Link!DeclareLost, UiSound
    <3>2. age' \in Int /\ age' >= Link!Never
      BY <2>1 DEF Link!Chime, Link!PacketReacquires, Link!DeclareLost, Link!Never, IInv, TaskInv
    <3>3. TaskInv' /\ asked' = sound
      BY <3>1, <3>2, Asks DEF IInv
    <3>4. QED
      BY <3>3 DEF StartInv, UiSound, Link!Nothing
  <2>2. CASE Link!PacketOnLink
    BY <2>2 DEF Link!PacketOnLink, Link!LoopRuns, Link!audio, Link!Never, IInv, TaskInv, StartInv
  <2>3. CASE Link!SlotFree
    <3>1. ToldInv' /\ UNCHANGED <<playing, left, age, hold, wait, asked>>
      BY <1>1, <2>3 DEF Link!SlotFree
    <3>2. QED
      BY <3>1 DEF ToldInv, IInv, TaskInv, StartInv
  <2>4. CASE Link!AudioStep
    <3>1. TaskInv'
      BY <2>4, TaskSteps DEF IInv
    <3>2. asked' = asked /\ age' = age
      BY <2>4 DEF Link!AudioStep, Link!loop
    <3>3. asked = Link!Nothing => playing' = <<>>
      <4>1. asked = Link!Nothing => ui_sounds = <<>> /\ playing = <<>>
        BY DEF IInv, ToldInv, StartInv, Link!Wanted
      <4>2. QED
        BY <2>4, <4>1, TaskSteps DEF IInv
    <3>4. QED
      BY <3>1, <3>2, <3>3 DEF IInv, StartInv
  <2>5. CASE Link!Tick
    <3>1. TaskInv' /\ asked # Link!Nothing /\ asked' = asked
      BY <2>5, TickSteps DEF IInv, Link!Tick
    <3>2. QED
      BY <3>1 DEF StartInv
  <2>6. CASE UNCHANGED Link!vars
    BY <2>6 DEF Link!vars, Link!audio, Link!loop, IInv, TaskInv, StartInv
  <2>7. QED
    BY <2>1, <2>2, <2>3, <2>4, <2>5, <2>6 DEF Link!Next, Link!Loop
<1>3. ASSUME ~rushed' PROVE TimeInv'
  <2>1. CASE Link!Chime \/ Link!PacketReacquires \/ Link!DeclareLost
    BY <1>3, <2>1, LoopKeepsTime
  <2>2. CASE Link!PacketOnLink
    <3>1. /\ ~rushed /\ age' = 0
          /\ UNCHANGED <<ui_sounds, playing, left, hold, wait, awaited, asked, link_lost_displayed>>
      BY <1>3, <2>2 DEF Link!PacketOnLink, Link!audio
    <3>2. ~link_lost_displayed /\ UpInv /\ awaited = Link!Nothing /\ wait <= Link!LongestWait
      BY <2>2, <3>1 DEF Link!PacketOnLink, IInv, TimeInv
    <3>3. Free' = Free /\ Age' = 0
      BY <3>1 DEF Free, Age, Link!Never
    <3>4. Age \in Int /\ 0 <= Age /\ Free \in Nat
      BY FreeTime DEF IInv, TaskInv, Age, Link!Never
    <3> DEFINE E == Link!Enough
    <3>5. E \in Nat /\ MaxHold \in Nat
      BY Bounds
    <3> HIDE DEF E
    <3>6. E - Age <= E - 0
      BY <3>4, <3>5
    <3>7. \A n \in Int : n <= E - Age => n <= E - 0
      BY <3>4, <3>5, <3>6
    <3>8. asked \in UiSound => Link!Length(asked) \in Nat
      BY SoundLength
    <3>9. ui_sounds = <<asked>> => asked \in UiSound
      BY DEF IInv, TaskInv
    <3>10. /\ Free - MaxHold \in Int
           /\ ui_sounds = <<asked>> => Free + Link!Length(asked) \in Int
           /\ Free + Link!Length("LinkLost") + MaxHold + Link!Length("LinkReacquired") \in Int
      BY <3>4, <3>5, <3>8, <3>9, Bounds
    <3>11. UpInv'
      BY <3>1, <3>2, <3>3, <3>7, <3>10 DEF UpInv, E
    <3>12. QED
      BY <3>1, <3>2, <3>11 DEF TimeInv
  <2>3. CASE Link!SlotFree
    BY <1>3, <2>3 DEF Link!SlotFree, IInv, TimeInv
  <2>4. CASE Link!AudioStep
    BY <1>3, <2>4, TaskKeepsTime
  <2>5. CASE Link!Tick
    BY <1>3, <2>5, TickKeepsTime
  <2>6. CASE UNCHANGED Link!vars
    <3>1. UNCHANGED <<ui_sounds, playing, left, hold, wait, awaited, asked,
                      link_lost_displayed, rushed, age>>
      BY <2>6 DEF Link!vars, Link!audio, Link!loop
    <3>2. QED
      BY <1>3, <3>1 DEF IInv, TimeInv, UpInv, LostInv, Free, Age
  <2>7. QED
    BY <2>1, <2>2, <2>3, <2>4, <2>5, <2>6 DEF Link!Next, Link!Loop
<1>4. QED
  BY <1>1, <1>2, <1>3 DEF IInv, TimeInv

LEMMA TimeBegins ==
  ASSUME Link!LinkSoundsAssumption, Link!Init
  PROVE  IInv
<1>1. ui_sounds = <<>> /\ playing = <<>> /\ awaited = Link!Nothing /\ asked = Link!Nothing
  BY DEF Link!Init, Link!AudioInit
<1>2. ToldInv
  BY <1>1 DEF Link!Init, ToldInv, Link!Wanted, Link!Nothing, UiSound
<1>3. TaskInv
  BY <1>1 DEF Link!Init, Link!AudioInit, TaskInv, Link!LinkSoundsAssumption, Link!Never
<1>4. wait <= Link!LongestWait
  BY Bounds DEF Link!Init
<1>5. UpInv /\ LostInv /\ StartInv
  BY <1>1 DEF UpInv, LostInv, StartInv, Link!Init
<1>6. QED
  BY <1>1, <1>2, <1>3, <1>4, <1>5 DEF IInv, TimeInv

(* However the executor is held up, and as long as no loss is declared before the
   sounds of the packet before it are over, the loop never waits for UI_SOUNDS, and
   no sound for more than one before it (main.rs 1266, 1327; audio.rs 112-160). *)
THEOREM SoundsInTime ==
  ASSUME Link!LinkSoundsAssumption
  PROVE  Link!Spec => []SoundsComeInTime
<1>1. Link!Init => IInv
  BY TimeBegins
<1>2. IInv /\ [Link!Next]_(Link!vars) => IInv'
  BY TimeKept
<1>3. IInv => SoundsComeInTime
  BY DEF IInv, TimeInv, SoundsComeInTime, Link!LoopNeverWaits, Link!SoundsArePrompt
<1>4. QED
  BY <1>1, <1>2, <1>3, PTL DEF Link!Spec

(* With a timeout longer than the sounds no loss comes before they are over: the
   receiver loop then never waits for UI_SOUNDS, without a condition. *)
THEOREM LoopIsNeverHeld ==
  ASSUME Link!LinkSoundsAssumption, Timeout > Link!Enough
  PROVE  Link!Spec => [](awaited = Link!Nothing)
<1>1. Link!Init => IInv /\ ~rushed
  BY TimeBegins DEF Link!Init
<1>2. IInv /\ [Link!Next]_(Link!vars) => IInv'
  BY TimeKept
<1>3. ASSUME IInv, ~rushed, [Link!Next]_(Link!vars)
      PROVE  ~rushed'
  <2>1. CASE Link!DeclareLost
    <3>1. rushed' = (rushed \/ age <= Link!Enough) /\ age >= Timeout
      BY <2>1 DEF Link!DeclareLost
    <3>2. age \in Int /\ Timeout \in Int /\ Link!Enough \in Int
      BY <1>3, Bounds DEF IInv, TaskInv, Link!LinkSoundsAssumption
    <3>3. ~(age <= Link!Enough)
      BY <3>1, <3>2
    <3>4. QED
      BY <1>3, <3>1, <3>3
  <2>2. CASE ~Link!DeclareLost
    BY <1>3, <2>2
       DEF Link!Next, Link!Loop, Link!Chime, Link!PacketOnLink, Link!PacketReacquires,
           Link!SlotFree, Link!AudioStep, Link!Tick, Link!vars, Link!loop
  <2>3. QED
    BY <2>1, <2>2
<1>4. IInv /\ ~rushed => awaited = Link!Nothing
  BY DEF IInv, TimeInv
<1>5. IInv /\ ~rushed /\ [Link!Next]_(Link!vars) => ~rushed'
  BY <1>3
<1>6. QED
  BY <1>1, <1>2, <1>4, <1>5, PTL DEF Link!Spec

-----------------------------------------------------------------------------
(* The events of the buttons.                                               *)

(* EventsTellTheState of any events es, of what is known and what is so. *)
Silent(es, b, i, j) == \A k \in i .. j : es[k].button # b

Tells(es, known, state) ==
  /\ \A b \in Button : Silent(es, b, 1, Len(es)) => known[b] = state[b]
  /\ \A i \in 1 .. Len(es) :
       LET b == es[i].button
       IN  /\ Silent(es, b, 1, i - 1) => known[b] # es[i].pressed
           /\ \A j \in 1 .. i - 1 :
                es[j].button = b /\ Silent(es, b, j + 1, i - 1) => es[j].pressed # es[i].pressed
           /\ Silent(es, b, i + 1, Len(es)) => state[b] = es[i].pressed

EventsInv ==
  /\ low \in [Button -> BOOLEAN] /\ stable_pressed \in [Button -> BOOLEAN]
  /\ held \in [Button -> BOOLEAN]
  /\ unsent \in ButtonEvent \cup {NoEvent} /\ events \in Seq(ButtonEvent)
  /\ Tells(Pending, held, stable_pressed)

(* A change of the state that goes with its event. *)
LEMMA AppendTells ==
  ASSUME NEW es \in Seq(ButtonEvent), NEW known \in [Button -> BOOLEAN],
         NEW state \in [Button -> BOOLEAN], Tells(es, known, state),
         NEW e \in ButtonEvent, e.pressed # state[e.button]
  PROVE  Tells(Append(es, e), known, [state EXCEPT ![e.button] = e.pressed])
<1> DEFINE n == Len(es)
           fs == Append(es, e)
           new == [state EXCEPT ![e.button] = e.pressed]
<1>1. n \in Nat /\ Len(fs) = n + 1 /\ fs[n + 1] = e /\ \A k \in 1 .. n : fs[k] = es[k]
  OBVIOUS
<1>2. /\ e.button \in Button /\ new[e.button] = e.pressed
      /\ \A b \in Button : b # e.button => new[b] = state[b]
  BY DEF ButtonEvent
<1>3. \A k \in 1 .. n : es[k].button \in Button
  <2>1. TAKE k \in 1 .. n
  <2>2. es[k] \in ButtonEvent
    OBVIOUS
  <2>3. QED
    BY <2>2 DEF ButtonEvent
<1> HIDE DEF n, fs, new
<1>4. \A b : \A i, j \in Int : i >= 1 /\ j <= n => (Silent(fs, b, i, j) <=> Silent(es, b, i, j))
  BY <1>1 DEF Silent
<1>5. \A b : \A i \in 1 .. n + 1 :
        Silent(fs, b, i, n + 1) => b # e.button /\ Silent(es, b, i, n)
  BY <1>1 DEF Silent
<1>6. \A b \in Button : Silent(fs, b, 1, n + 1) => known[b] = new[b]
  BY <1>1, <1>2, <1>5 DEF Tells, n
<1>7. ASSUME NEW i \in 1 .. n
      PROVE  LET b == fs[i].button
             IN  /\ Silent(fs, b, 1, i - 1) => known[b] # fs[i].pressed
                 /\ \A j \in 1 .. i - 1 :
                      fs[j].button = b /\ Silent(fs, b, j + 1, i - 1)
                        => fs[j].pressed # fs[i].pressed
                 /\ Silent(fs, b, i + 1, n + 1) => new[b] = fs[i].pressed
  <2> DEFINE b == es[i].button
  <2>1. fs[i] = es[i] /\ b \in Button /\ i + 1 \in 1 .. n + 1
    BY <1>1, <1>3
  <2>2. /\ Silent(es, b, 1, i - 1) => known[b] # es[i].pressed
        /\ \A j \in 1 .. i - 1 :
             es[j].button = b /\ Silent(es, b, j + 1, i - 1) => es[j].pressed # es[i].pressed
        /\ Silent(es, b, i + 1, n) => state[b] = es[i].pressed
    BY DEF Tells, n
  <2> HIDE DEF b
  <2>3. Silent(fs, b, 1, i - 1) <=> Silent(es, b, 1, i - 1)
    BY <1>1, <1>4
  <2>4. \A j \in 1 .. i - 1 :
          fs[j] = es[j] /\ (Silent(fs, b, j + 1, i - 1) <=> Silent(es, b, j + 1, i - 1))
    BY <1>1, <1>4
  <2>5. Silent(fs, b, i + 1, n + 1) => new[b] = es[i].pressed
    BY <1>2, <1>5, <2>1, <2>2
  <2>6. QED
    BY <2>1, <2>2, <2>3, <2>4, <2>5 DEF b
<1>8. LET b == e.button
      IN  /\ Silent(fs, b, 1, n) => known[b] # e.pressed
          /\ \A j \in 1 .. n :
               fs[j].button = b /\ Silent(fs, b, j + 1, n) => fs[j].pressed # e.pressed
          /\ new[b] = e.pressed
  <2> DEFINE b == e.button
  <2>1. Silent(fs, b, 1, n) => known[b] # e.pressed
    BY <1>1, <1>2, <1>4 DEF Tells, n
  <2>2. ASSUME NEW j \in 1 .. n, fs[j].button = b, Silent(fs, b, j + 1, n)
        PROVE  fs[j].pressed # e.pressed
    <3>1. fs[j] = es[j] /\ Silent(es, b, j + 1, n)
      BY <1>1, <1>4, <2>2
    <3>2. state[b] = es[j].pressed
      BY <2>2, <3>1 DEF Tells, n
    <3>3. QED
      BY <3>1, <3>2
  <2>3. QED
    BY <1>2, <2>1, <2>2
<1>9. \A i \in 1 .. n + 1 :
        LET b == fs[i].button
        IN  /\ Silent(fs, b, 1, i - 1) => known[b] # fs[i].pressed
            /\ \A j \in 1 .. i - 1 :
                 fs[j].button = b /\ Silent(fs, b, j + 1, i - 1) => fs[j].pressed # fs[i].pressed
            /\ Silent(fs, b, i + 1, n + 1) => new[b] = fs[i].pressed
  <2>1. TAKE i \in 1 .. n + 1
  <2>2. CASE i \in 1 .. n
    BY <1>7, <2>2
  <2>3. CASE i = n + 1
    <3>1. fs[i] = e /\ i - 1 = n
      BY <1>1, <2>3
    <3>2. QED
      BY <1>8, <3>1
  <2>4. QED
    BY <1>1, <2>2, <2>3
<1>10. QED
  BY <1>1, <1>6, <1>9 DEF Tells, fs, new

(* The oldest event becomes known. *)
LEMMA TailTells ==
  ASSUME NEW es \in Seq(ButtonEvent), NEW known \in [Button -> BOOLEAN],
         NEW state \in [Button -> BOOLEAN], Tells(es, known, state), es # <<>>
  PROVE  Tells(Tail(es), [known EXCEPT ![Head(es).button] = Head(es).pressed], state)
<1> DEFINE n == Len(es)
           e == Head(es)
           fs == Tail(es)
           new == [known EXCEPT ![e.button] = e.pressed]
<1>1. /\ n \in Nat \ {0} /\ Len(fs) = n - 1 /\ e = es[1]
      /\ \A k \in 1 .. n - 1 : fs[k] = es[k + 1]
  OBVIOUS
<1>2. \A k \in 1 .. n : es[k].button \in Button
  <2>1. TAKE k \in 1 .. n
  <2>2. es[k] \in ButtonEvent
    OBVIOUS
  <2>3. QED
    BY <2>2 DEF ButtonEvent
<1>3. /\ e.button \in Button /\ new[e.button] = e.pressed
      /\ \A b \in Button : b # e.button => new[b] = known[b]
  BY <1>1, <1>2
<1> HIDE DEF n, e, fs, new
<1>4. \A b : \A i, j \in Int :
        i >= 1 /\ j <= n - 1 => (Silent(fs, b, i, j) <=> Silent(es, b, i + 1, j + 1))
  <2>1. TAKE b
  <2>2. TAKE i, j \in Int
  <2>3. HAVE i >= 1 /\ j <= n - 1
  <2>4. ASSUME Silent(es, b, i + 1, j + 1) PROVE Silent(fs, b, i, j)
    BY <1>1, <2>3, <2>4 DEF Silent
  <2>5. ASSUME Silent(fs, b, i, j) PROVE Silent(es, b, i + 1, j + 1)
    <3>1. SUFFICES ASSUME NEW k \in i + 1 .. j + 1 PROVE es[k].button # b
      BY DEF Silent
    <3>2. k - 1 \in i .. j /\ k - 1 \in 1 .. n - 1 /\ (k - 1) + 1 = k
      BY <1>1, <2>3
    <3>3. fs[k - 1] = es[k] /\ fs[k - 1].button # b
      BY <1>1, <2>5, <3>2 DEF Silent
    <3>4. QED
      BY <3>3
  <2>6. QED
    BY <2>4, <2>5
<1>5. \A b : b # e.button =>
        \A j \in Int : Silent(es, b, 2, j) => Silent(es, b, 1, j)
  BY <1>1 DEF Silent
<1>6. ASSUME NEW b \in Button, Silent(fs, b, 1, n - 1)
      PROVE  new[b] = state[b]
  <2>1. Silent(es, b, 2, n)
    BY <1>1, <1>4, <1>6
  <2>2. CASE b = e.button
    BY <1>1, <1>3, <2>1, <2>2 DEF Tells, n
  <2>3. CASE b # e.button
    BY <1>1, <1>3, <1>5, <2>1, <2>3 DEF Tells, n
  <2>4. QED
    BY <2>2, <2>3
<1>7. ASSUME NEW i \in 1 .. n - 1
      PROVE  LET b == fs[i].button
             IN  /\ Silent(fs, b, 1, i - 1) => new[b] # fs[i].pressed
                 /\ \A j \in 1 .. i - 1 :
                      fs[j].button = b /\ Silent(fs, b, j + 1, i - 1)
                        => fs[j].pressed # fs[i].pressed
                 /\ Silent(fs, b, i + 1, n - 1) => state[b] = fs[i].pressed
  <2> DEFINE m == i + 1
             b == es[m].button
  <2>1. fs[i] = es[m] /\ m \in 1 .. n /\ m = i + 1 /\ b \in Button
    BY <1>1, <1>2
  <2>2. /\ Silent(es, b, 1, m - 1) => known[b] # es[m].pressed
        /\ \A j \in 1 .. m - 1 :
             es[j].button = b /\ Silent(es, b, j + 1, m - 1) => es[j].pressed # es[m].pressed
        /\ Silent(es, b, m + 1, n) => state[b] = es[m].pressed
    BY <2>1 DEF Tells, n
  <2> HIDE DEF b, m
  <2>3. Silent(fs, b, 1, i - 1) => new[b] # es[m].pressed
    <3>1. SUFFICES ASSUME Silent(fs, b, 1, i - 1) PROVE new[b] # es[m].pressed
      OBVIOUS
    <3>2. Silent(es, b, 2, m - 1)
      BY <1>1, <1>4, <2>1, <3>1
    <3>3. CASE b = e.button
      <4>1. 1 \in 1 .. m - 1 /\ es[1].button = b /\ 1 + 1 = 2
        BY <1>1, <2>1, <3>3
      <4>2. es[1].pressed # es[m].pressed
        BY <2>2, <3>2, <4>1
      <4>3. QED
        BY <1>1, <1>3, <3>3, <4>2
    <3>4. CASE b # e.button
      BY <1>3, <1>5, <2>1, <2>2, <3>2, <3>4
    <3>5. QED
      BY <3>3, <3>4
  <2>4. ASSUME NEW j \in 1 .. i - 1, fs[j].button = b, Silent(fs, b, j + 1, i - 1)
        PROVE  fs[j].pressed # es[m].pressed
    <3>1. fs[j] = es[j + 1] /\ Silent(es, b, (j + 1) + 1, m - 1) /\ j + 1 \in 1 .. m - 1
      BY <1>1, <1>4, <2>1, <2>4
    <3>2. QED
      BY <2>2, <2>4, <3>1
  <2>5. Silent(fs, b, i + 1, n - 1) => state[b] = es[m].pressed
    BY <1>1, <1>4, <2>1, <2>2
  <2>6. QED
    BY <2>1, <2>3, <2>4, <2>5 DEF b
<1>8. QED
  BY <1>1, <1>6, <1>7 DEF Tells, fs, e, new

(* The tasks put events at the end of what is on its way and take them from its
   front. *)
LEMMA EventsKept ==
  ASSUME EventsInv, [Next]_vars
  PROVE  EventsInv'
<1>0. /\ low \in [Button -> BOOLEAN] /\ stable_pressed \in [Button -> BOOLEAN]
      /\ held \in [Button -> BOOLEAN]
      /\ unsent \in ButtonEvent \cup {NoEvent} /\ events \in Seq(ButtonEvent)
      /\ Tells(Pending, held, stable_pressed) /\ NoEvent \notin ButtonEvent
  BY DEF EventsInv, NoEvent, ButtonEvent, Button, Asleep
<1>1. CASE UNCHANGED <<stable_pressed, unsent, events, held>> /\ low' \in [Button -> BOOLEAN]
  <2>1. Pending' = Pending
    BY <1>1 DEF Pending
  <2>2. QED
    BY <1>0, <1>1, <2>1 DEF EventsInv
<1>2. ASSUME NEW b \in Button, SampleAccepted(b), UNCHANGED held
      PROVE  EventsInv'
  <2> DEFINE e == [button |-> b, pressed |-> low[b]]
  <2>1. /\ e \in ButtonEvent /\ e # NoEvent /\ e.button = b /\ e.pressed = low[b]
        /\ e.pressed # stable_pressed[e.button] /\ unsent = NoEvent
        /\ stable_pressed' = [stable_pressed EXCEPT ![e.button] = e.pressed]
        /\ stable_pressed' \in [Button -> BOOLEAN] /\ UNCHANGED low
    BY <1>0, <1>2 DEF SampleAccepted, Sampled, ButtonEvent
  <2>2. Send(e, b)
    BY <1>2 DEF SampleAccepted
  <2> HIDE DEF e
  <2>3. /\ events' \in Seq(ButtonEvent) /\ unsent' \in ButtonEvent \cup {NoEvent}
        /\ Pending = events /\ Pending' = Append(events, e)
    BY <1>0, <2>1, <2>2 DEF Send, Pending
  <2>4. Tells(Append(events, e), held, [stable_pressed EXCEPT ![e.button] = e.pressed])
    BY <1>0, <2>1, <2>3, AppendTells
  <2>5. Tells(Pending', held', stable_pressed')
    BY <1>2, <2>1, <2>3, <2>4
  <2>6. QED
    BY <1>0, <1>2, <2>1, <2>3, <2>5 DEF EventsInv
<1>3. CASE SendWaiting /\ UNCHANGED held
  <2>1. /\ Pending' = Pending /\ events' \in Seq(ButtonEvent) /\ unsent' = NoEvent
        /\ UNCHANGED <<low, stable_pressed, held>>
    BY <1>0, <1>3 DEF SendWaiting, Pending
  <2>2. QED
    BY <1>0, <2>1 DEF EventsInv
<1>4. ASSUME NEW pressed \in BOOLEAN, TakesEvent(pressed)
      PROVE  EventsInv'
  <2>1. /\ events # <<>> /\ Head(events) \in ButtonEvent /\ Head(events).pressed = pressed
        /\ events' = Tail(events) /\ events' \in Seq(ButtonEvent)
        /\ held' = [held EXCEPT ![Head(events).button] = Head(events).pressed]
        /\ held' \in [Button -> BOOLEAN]
        /\ UNCHANGED <<low, stable_pressed, unsent>>
    <3>1. /\ events # <<>> /\ Head(events).pressed = pressed /\ events' = Tail(events)
          /\ held' = [held EXCEPT ![Head(events).button] = pressed]
          /\ UNCHANGED <<low, stable_pressed, unsent>>
      BY <1>4 DEF TakesEvent
    <3>2. Head(events) \in ButtonEvent /\ Tail(events) \in Seq(ButtonEvent)
      BY <1>0, <3>1
    <3>3. QED
      BY <1>0, <3>1, <3>2
  <2>2. /\ Pending \in Seq(ButtonEvent) /\ Pending # <<>>
        /\ Head(Pending) = Head(events) /\ Pending' = Tail(Pending)
    <3>1. CASE unsent = NoEvent
      BY <1>0, <2>1, <3>1 DEF Pending
    <3>2. CASE unsent # NoEvent
      <4>1. /\ unsent \in ButtonEvent /\ Pending = Append(events, unsent)
            /\ Pending' = Append(Tail(events), unsent)
        BY <1>0, <2>1, <3>2 DEF Pending
      <4>2. /\ Append(events, unsent) \in Seq(ButtonEvent) /\ Append(events, unsent) # <<>>
            /\ Head(Append(events, unsent)) = Head(events)
            /\ Tail(Append(events, unsent)) = Append(Tail(events), unsent)
        BY <1>0, <2>1, <4>1
      <4>3. QED
        BY <4>1, <4>2
    <3>3. QED
      BY <3>1, <3>2
  <2>3. Tells(Tail(Pending), [held EXCEPT ![Head(Pending).button] = Head(Pending).pressed],
              stable_pressed)
    BY <1>0, <2>2, TailTells
  <2>4. Tells(Pending', held', stable_pressed')
    BY <2>1, <2>2, <2>3
  <2>5. QED
    BY <1>0, <2>1, <2>4 DEF EventsInv
<1>5. CASE Contacts
  BY <1>0, <1>1, <1>5 DEF Contacts, Contact, glue
<1>6. CASE ButtonStep
  BY <1>0, <1>1, <1>2, <1>3, <1>6
     DEF ButtonStep, ButtonTask, Poll, SampleEqual, SampleDiffers, Sampled, glue
<1>7. CASE AudioStep \/ UiSoundWanted
  BY <1>0, <1>1, <1>7 DEF AudioStep, UiSoundWanted, buttons, glue
<1>8. CASE GlueTask
  BY <1>4, <1>8 DEF GlueTask, TakePress, TakeReleaseOfOther, TakeReleaseOfActive
<1>9. CASE UNCHANGED vars
  BY <1>0, <1>1, <1>9 DEF vars, buttons, glue
<1>10. QED
  BY <1>5, <1>6, <1>7, <1>8, <1>9 DEF Next

LEMMA EventsBegin == Init => EventsInv
<1> SUFFICES ASSUME Init PROVE EventsInv
  OBVIOUS
<1>1. /\ low \in [Button -> BOOLEAN] /\ stable_pressed = [b \in Button |-> FALSE]
      /\ held = [b \in Button |-> FALSE] /\ unsent = NoEvent /\ events = <<>>
      /\ Pending = <<>>
  BY DEF Init, ButtonsInit, Pending
<1>2. Tells(<<>>, held, stable_pressed)
  BY <1>1 DEF Tells
<1>3. QED
  BY <1>1, <1>2 DEF EventsInv

(* No event is lost or doubled between the debounced buttons and the task that
   turns them into tones: EventsTellTheState of ButtonTones, for any number of
   buttons, samples and slots of the channel. *)
THEOREM EventsTell == Spec => []EventsTellTheState
<1>1. EventsInv => EventsTellTheState
  BY DEF EventsInv, Tells, Silent, EventsTellTheState, NoneOf
<1>2. QED
  BY <1>1, EventsBegin, EventsKept, PTL DEF Spec

(* The tone the speaker has, or is about to be given. *)
Asked == IF routine_request = NoRequest THEN routine_tone ELSE routine_request

(* The glue task holds a button whenever one is known to be down, its tone is the
   one asked for last, and between sounds the speaker has what it was served. *)
ToneInv ==
  /\ active \in Button \cup {None} /\ newest \in Button \cup {None}
  /\ \A b \in Button : held[b] => active # None
  /\ active # None => held[active]
  /\ NewestPressWins
  /\ Asked = ToneOf(active)

PlayInv ==
  /\ ui_sounds \in Seq(UiSound) /\ playing \in Seq([tone : Nat, ms : Nat])
  /\ playing = <<>> => pwm = routine_tone
  /\ SoundUndisturbed

SpeakerInv == EventsInv /\ ToneInv /\ PlayInv

(* Max picks a greatest member. *)
LEMMA MaxIsGreatest ==
  ASSUME NEW S \in SUBSET (0 .. 4), 0 \in S
  PROVE  Max(S) \in S /\ \A x \in S : Max(S) >= x
<1>1. \E x \in S : \A y \in S : x >= y
  <2>1. CASE 4 \in S
    BY <2>1
  <2>2. CASE 4 \notin S /\ 3 \in S
    BY <2>2
  <2>3. CASE 4 \notin S /\ 3 \notin S /\ 2 \in S
    BY <2>3
  <2>4. CASE 4 \notin S /\ 3 \notin S /\ 2 \notin S
    BY <2>4
  <2>5. QED
    BY <2>1, <2>2, <2>3, <2>4
<1>2. QED
  BY <1>1 DEF Max

LEMMA Buttons4 == Button \subseteq 1 .. 4 /\ None \notin Button
BY ButtonTonesAssumption, ButtonsAssumption DEF Button, None

LEMMA TonesAreTones ==
  ASSUME NEW b \in Button \cup {None}
  PROVE  ToneOf(b) # NoRequest
BY Buttons4 DEF ToneOf, button_test_frequency_hz, Silence, NoRequest, None

LEMMA NotesAreNotes ==
  ASSUME NEW sound \in UiSound
  PROVE  Notes(sound) \in Seq([tone : Nat, ms : Nat]) /\ Notes(sound) # <<>>
<1> DEFINE N == [tone : Nat, ms : Nat]
<1>1. \A t, m \in Nat : Note(t, m) \in N /\ Gap(m) \in N
  BY DEF Note, Gap, Silence
<1> HIDE DEF N
<1>2. CASE sound = "Startup"
  <2>1. Notes(sound) = <<Note(523, 90), Gap(25), Note(659, 90), Gap(25), Note(784, 100), Gap(30), Note(1047, 170)>>
    BY <1>2 DEF Notes
  <2>2. QED
    BY <1>1, <2>1 DEF N
<1>3. CASE sound = "LinkLost"
  <2>1. Notes(sound) = <<Note(659, 130), Gap(35), Note(440, 180), Gap(40), Note(294, 280)>>
    BY <1>3 DEF Notes
  <2>2. QED
    BY <1>1, <2>1 DEF N
<1>4. CASE sound = "LinkReacquired"
  <2>1. Notes(sound) = <<Note(440, 85), Gap(20), Note(659, 85), Gap(20), Note(880, 100), Gap(20), Note(1175, 220)>>
    BY <1>4 DEF Notes
  <2>2. QED
    BY <1>1, <2>1 DEF N
<1>5. QED
  BY <1>2, <1>3, <1>4 DEF UiSound

LEMMA TailOfMany ==
  ASSUME NEW S, NEW s \in Seq(S), Len(s) > 1
  PROVE  Tail(s) \in Seq(S) /\ Tail(s) # <<>>
<1> DEFINE n == Len(s)
           t == Len(Tail(s))
<1>1. s # <<>> /\ n \in Nat /\ n > 1
  OBVIOUS
<1>2. Tail(s) \in Seq(S) /\ t = n - 1
  BY <1>1
<1>3. Tail(s) = <<>> => t = 0
  <2>1. Len(<<>>) = 0
    OBVIOUS
  <2>2. QED
    BY <2>1, Zenon
<1> HIDE DEF n, t
<1>4. QED
  BY <1>1, <1>2, <1>3

(* The audio task. *)
LEMMA AudioKeeps ==
  ASSUME ToneInv, PlayInv, AudioTask, UNCHANGED <<held, active, newest>>
  PROVE  ToneInv' /\ PlayInv'
<1>1. ToneInv' /\ (routine_request = NoRequest => Asked = routine_tone)
  <2>1. \/ UNCHANGED <<routine_request, routine_tone>>
        \/ routine_request' = NoRequest /\ routine_tone' = Asked
    BY DEF AudioTask, StartSound, NextNote, EndSound, ServeRoutine, Idle, TakeRoutine, Asked
  <2>2. Asked' = Asked
    BY <2>1 DEF Asked
  <2>3. QED
    BY <2>2 DEF ToneInv, NewestPressWins, Asked
<1>2. CASE StartSound
  <2>1. /\ ui_sounds \in Seq(UiSound) /\ ui_sounds # <<>>
        /\ playing' = Notes(Head(ui_sounds)) /\ pwm' = Head(playing').tone
        /\ ui_sounds' = Tail(ui_sounds)
    BY <1>2 DEF StartSound, Plays, PlayInv
  <2>2. Head(ui_sounds) \in UiSound /\ Tail(ui_sounds) \in Seq(UiSound)
    BY <2>1
  <2>3. playing' \in Seq([tone : Nat, ms : Nat]) /\ playing' # <<>>
    BY <2>1, <2>2, NotesAreNotes
  <2>4. QED
    BY <1>1, <2>1, <2>2, <2>3 DEF PlayInv, SoundUndisturbed
<1>3. CASE NextNote
  <2>1. /\ Len(playing) > 1 /\ playing \in Seq([tone : Nat, ms : Nat])
        /\ playing' = Tail(playing) /\ pwm' = Head(playing').tone
        /\ UNCHANGED ui_sounds
    BY <1>3 DEF NextNote, Plays, PlayInv
  <2>2. Tail(playing) \in Seq([tone : Nat, ms : Nat]) /\ Tail(playing) # <<>>
    BY <2>1, TailOfMany
  <2>3. QED
    BY <1>1, <2>1, <2>2 DEF PlayInv, SoundUndisturbed
<1>4. CASE EndSound
  BY <1>1, <1>4 DEF EndSound, PlayInv, SoundUndisturbed
<1>5. CASE ServeRoutine
  BY <1>1, <1>5 DEF ServeRoutine, PlayInv, SoundUndisturbed
<1>6. CASE Idle
  BY <1>1, <1>6 DEF Idle, PlayInv, SoundUndisturbed
<1>7. QED
  BY <1>2, <1>3, <1>4, <1>5, <1>6 DEF AudioTask

(* The glue task: the newest press takes the speaker, and a release gives it back
   to the highest button still held. *)
LEMMA GlueKeeps ==
  ASSUME EventsInv, ToneInv, GlueTask
  PROVE  ToneInv'
<1> DEFINE b == Head(events).button
<1>1. held \in [Button -> BOOLEAN] /\ b \in Button
  <2>1. events \in Seq(ButtonEvent) /\ events # <<>> /\ held \in [Button -> BOOLEAN]
    BY DEF EventsInv, GlueTask, TakePress, TakeReleaseOfOther, TakeReleaseOfActive, TakesEvent
  <2>2. Head(events) \in ButtonEvent
    BY <2>1
  <2>3. QED
    BY <2>1, <2>2 DEF ButtonEvent
<1>2. CASE TakePress
  <2>1. /\ held' = [held EXCEPT ![b] = TRUE] /\ newest' = b /\ active' = b
        /\ routine_request' = ToneOf(b)
    BY <1>2 DEF TakePress, TakesEvent, RequestTone
  <2> HIDE DEF b
  <2>2. Asked' = ToneOf(active')
    BY <1>1, <2>1, TonesAreTones DEF Asked
  <2>3. QED
    BY <1>1, <2>1, <2>2, Buttons4 DEF ToneInv, NewestPressWins
<1>3. CASE TakeReleaseOfOther
  <2>1. /\ held' = [held EXCEPT ![b] = FALSE] /\ active # b
        /\ UNCHANGED <<newest, active, routine_request, routine_tone>>
    BY <1>3 DEF TakeReleaseOfOther, TakesEvent
  <2> HIDE DEF b
  <2>2. Asked' = ToneOf(active')
    BY <2>1 DEF Asked, ToneInv
  <2>3. QED
    BY <1>1, <2>1, <2>2 DEF ToneInv, NewestPressWins
<1>4. CASE TakeReleaseOfActive
  <2> DEFINE S == {c \in Button : held'[c]} \cup {None}
  <2>1. /\ held' = [held EXCEPT ![b] = FALSE] /\ active = b
        /\ UNCHANGED newest /\ active' = Max(S) /\ routine_request' = ToneOf(active')
    BY <1>4 DEF TakeReleaseOfActive, TakesEvent, RequestTone, Fallback
  <2>2. S \in SUBSET (0 .. 4) /\ 0 \in S
    <3>1. \A c \in Button : c \in 0 .. 4
      BY Buttons4
    <3>2. QED
      BY <3>1 DEF None
  <2>3. active' \in S /\ \A x \in S : active' >= x
    BY <2>1, <2>2, MaxIsGreatest
  <2> HIDE DEF b
  <2>4. active' \in Button \cup {None} /\ (active' # None => held'[active'])
    BY <2>3
  <2>5. \A c \in Button : held'[c] => active' # None
    BY <2>3, Buttons4 DEF None
  <2>6. Asked' = ToneOf(active')
    BY <2>1, <2>4, TonesAreTones DEF Asked
  <2>7. NewestPressWins'
    BY <1>1, <2>1 DEF ToneInv, NewestPressWins
  <2>8. QED
    BY <2>1, <2>4, <2>5, <2>6, <2>7 DEF ToneInv
<1>5. QED
  BY <1>2, <1>3, <1>4 DEF GlueTask

(* Every step of the tasks, in any order. *)
LEMMA SpeakerKept ==
  ASSUME SpeakerInv, [Next]_vars
  PROVE  SpeakerInv'
<1>0. EventsInv' /\ EventsInv /\ ToneInv /\ PlayInv
  BY EventsKept DEF SpeakerInv
<1>1. ASSUME UNCHANGED <<held, active, newest, routine_request, routine_tone>>
      PROVE  ToneInv'
  BY <1>0, <1>1 DEF ToneInv, NewestPressWins, Asked
<1>2. ASSUME UNCHANGED <<playing, pwm, routine_tone>>, ui_sounds' \in Seq(UiSound)
      PROVE  PlayInv'
  BY <1>0, <1>2 DEF PlayInv, SoundUndisturbed
<1>3. CASE Contacts \/ ButtonStep \/ UNCHANGED vars
  BY <1>0, <1>1, <1>2, <1>3 DEF Contacts, ButtonStep, vars, audio, glue, SpeakerInv, PlayInv
<1>4. CASE AudioStep
  BY <1>0, <1>4, AudioKeeps DEF AudioStep, glue, SpeakerInv
<1>5. CASE UiSoundWanted
  <2>1. PICK s \in Sounds : QueueSound(s)
    BY <1>5 DEF UiSoundWanted
  <2>2. s \in UiSound /\ ui_sounds' = Append(ui_sounds, s) /\ ui_sounds \in Seq(UiSound)
    BY <1>0, <2>1, ButtonTonesAssumption DEF QueueSound, PlayInv
  <2>3. QED
    BY <1>0, <1>1, <1>2, <1>5, <2>2 DEF UiSoundWanted, glue, SpeakerInv
<1>6. CASE GlueTask
  <2>1. UNCHANGED <<ui_sounds, playing, pwm, routine_tone>>
    BY <1>6 DEF GlueTask, TakePress, TakeReleaseOfOther, TakeReleaseOfActive, TakesEvent
  <2>2. QED
    BY <1>0, <1>2, <1>6, <2>1, GlueKeeps DEF SpeakerInv, PlayInv
<1>7. QED
  BY <1>3, <1>4, <1>5, <1>6 DEF Next

LEMMA SpeakerBegins == Init => SpeakerInv
<1> SUFFICES ASSUME Init PROVE SpeakerInv
  OBVIOUS
<1>1. ToneInv
  BY DEF Init, AudioInit, ToneInv, NewestPressWins, Asked, ToneOf, None, Silence, NoRequest
<1>2. PlayInv
  BY DEF Init, AudioInit, PlayInv, SoundUndisturbed, Silence
<1>3. QED
  BY <1>1, <1>2, EventsBegin DEF SpeakerInv

LEMMA SpeakerHolds == SpeakerInv => SpeakerTellsTheButtons
<1> SUFFICES ASSUME SpeakerInv PROVE SpeakerTellsTheButtons
  OBVIOUS
<1>1. ASSUME Quiet
      PROVE  LET down == {b \in Button : stable_pressed[b]}
             IN  IF down = {} THEN pwm = Silence ELSE pwm \in {ToneOf(b) : b \in down}
  <2>1. \A b \in Button : held[b] = stable_pressed[b]
    BY <1>1 DEF SpeakerInv, EventsInv, Tells, Silent, Quiet
  <2>2. pwm = ToneOf(active)
    BY <1>1 DEF SpeakerInv, ToneInv, PlayInv, Asked, Quiet
  <2>3. CASE active = None
    BY <2>1, <2>2, <2>3 DEF SpeakerInv, ToneInv, ToneOf
  <2>4. CASE active # None
    BY <2>1, <2>2, <2>4 DEF SpeakerInv, ToneInv
  <2>5. QED
    BY <2>3, <2>4
<1>2. QED
  BY <1>1 DEF SpeakerTellsTheButtons, NoStuckTone, SpeakerInv, ToneInv, PlayInv

(* No tone is left on and none is missing, the most recently pressed button wins
   and no routine tone gets into a UI sound: SpeakerTellsTheButtons of
   ButtonTones, whatever the depths of the queues and the order of the tasks. *)
THEOREM SpeakerTells == Spec => []SpeakerTellsTheButtons
BY SpeakerBegins, SpeakerKept, SpeakerHolds, PTL DEF Spec

-----------------------------------------------------------------------------
(* The PWM slice.                                                           *)

LEMMA ProductsGrow ==
  ASSUME NEW x \in Nat, NEW y \in Nat, NEW b \in Nat, x <= y
  PROVE  x * b <= y * b /\ x * b \in Nat /\ y * b \in Nat
<1>1. PICK c \in Nat : y = x + c
  <2>1. y - x \in Nat /\ y = x + (y - x)
    OBVIOUS
  <2>2. QED
    BY <2>1
<1>2. y * b = x * b + c * b /\ c * b \in Nat /\ x * b \in Nat
  BY <1>1
<1> DEFINE p == x * b
           q == c * b
           r == y * b
<1> HIDE DEF p, q, r
<1>3. r = p + q /\ p \in Nat /\ q \in Nat
  BY <1>2 DEF p, q, r
<1>4. p <= r /\ r \in Nat
  BY <1>3
<1>5. QED
  BY <1>2, <1>3, <1>4 DEF p, r

(* Division of integers, as the processor and TLA+ do it. *)
LEMMA Division ==
  ASSUME NEW a \in Nat, NEW b \in Nat \ {0}
  PROVE  /\ a \div b \in Nat
         /\ (a \div b) * b <= a
         /\ a < (a \div b) * b + b
OBVIOUS

LEMMA DivisionAtLeast ==
  ASSUME NEW a \in Nat, NEW b \in Nat \ {0}, NEW q \in Nat, q * b <= a
  PROVE  q <= a \div b
<1> DEFINE n == a \div b
<1>1. n \in Nat /\ n * b + b > a
  BY Division
<1> HIDE DEF n
<1>2. (n + 1) * b = n * b + b
  BY <1>1
<1>3. n + 1 <= q => (n + 1) * b <= q * b
  BY <1>1, ProductsGrow
<1>4. ~(n + 1 <= q)
  <2> DEFINE x == n * b + b
             y == q * b
  <2>1. x \in Int /\ y \in Int /\ x > a /\ y <= a
    BY <1>1
  <2>2. n + 1 <= q => x <= y
    BY <1>2, <1>3
  <2> HIDE DEF x, y
  <2>3. QED
    BY <2>1, <2>2
<1>5. QED
  BY <1>1, <1>4 DEF n

(* Divider d is not larger than the N clocks of a period need. *)
Needed(N, d) == d > 1 => N \div (d - 1) > 65536

(* Where the first divider is found that makes the period of N clocks short
   enough, the count is still a large one. *)
LEMMA CountIsLarge ==
  ASSUME NEW N \in Nat, N >= 1000, NEW d \in Nat \ {0}, d <= 255,
         Needed(N, d)
  PROVE  /\ N \div d >= 1000
         /\ d > 1 => (d - 1) * 65537 <= N
<1>1. CASE d = 1
  <2>1. 1000 <= N \div d
    BY <1>1, DivisionAtLeast
  <2>2. QED
    BY <1>1, <2>1
<1>2. CASE d > 1
  <2> DEFINE c == d - 1
             q == N \div c
  <2>1. c \in Nat \ {0} /\ c <= 254 /\ c >= 1 /\ d = c + 1
    BY <1>2
  <2>2. q \in Nat /\ q * c <= N /\ q >= 65537
    BY <1>2, <2>1, Division DEF Needed
  <2> HIDE DEF c, q
  <2>3. 65537 * c <= q * c
    BY <2>1, <2>2, ProductsGrow
  <2>4. 65537 * c <= N
    <3> DEFINE x == q * c
    <3>1. x \in Int /\ x <= N /\ 65537 * c <= x
      BY <2>1, <2>2, <2>3
    <3> HIDE DEF x
    <3>2. QED
      BY <2>1, <3>1
  <2>5. 1000 * d <= N
    BY <2>1, <2>4
  <2>6. 1000 <= N \div d
    BY <2>1, <2>5, DivisionAtLeast
  <2>7. N \div d \in Nat
    BY <2>1, Division
  <2>8. QED
    BY <2>1, <2>4, <2>6, <2>7
<1>3. QED
  BY <1>1, <1>2

(* The clocks of f periods of p counts under divider d. *)
Clocks(f, d, p) == f * d * p

(* What the two divisions of tone_config lose is less than one count of the slice,
   and that is at most a thousandth of a second's clocks. *)
LEMMA LittleIsLost ==
  ASSUME NEW C \in Nat \ {0}, NEW f \in Nat \ {0}, f <= C \div 1000, NEW d \in Nat \ {0}, d <= 255,
         NEW N \in Nat, N = C \div f, Needed(N, d), NEW p \in Nat, p = N \div d
  PROVE  /\ p >= 1000
         /\ Clocks(f, d, p) <= C /\ C - Clocks(f, d, p) <= C \div 1000
<1>1. N \in Nat /\ N * f <= C /\ C < N * f + f
  BY Division
<1>2. 1000 * f <= C /\ N >= 1000
  <2>1. (C \div 1000) \in Nat /\ (C \div 1000) * 1000 <= C
    BY Division
  <2>2. 1000 * f <= C
    BY <2>1
  <2>3. 1000 <= N
    BY <2>2, DivisionAtLeast
  <2>4. QED
    BY <1>1, <2>2, <2>3
<1>3. p >= 1000 /\ (d > 1 => (d - 1) * 65537 <= N)
  BY <1>1, <1>2, CountIsLarge
<1>4. p \in Nat /\ p * d <= N /\ N < p * d + d
  <2>1. (N \div d) \in Nat /\ (N \div d) * d <= N /\ N < (N \div d) * d + d
    BY Division
  <2>2. QED
    BY <2>1
<1> DEFINE fd == f * d
           all == f * d * p
           Nf == N * f
<1>5. all <= Nf /\ Nf - all <= fd - f /\ {all, Nf, fd} \subseteq Nat
  <2>1. (p * d) * f <= Nf /\ (p * d) * f = all
    BY <1>1, <1>4, ProductsGrow
  <2>2. PICK q \in Nat : q = p * d + (d - 1)
    BY <1>4
  <2>3. Nf <= q * f
    <3>1. N <= q
      BY <1>1, <1>4, <2>2
    <3>2. QED
      BY <1>1, <3>1, ProductsGrow
  <2>4. q * f = all + fd - f
    BY <1>4, <2>2
  <2>5. {all, Nf, fd} \subseteq Nat
    BY <1>1, <1>4
  <2> HIDE DEF all, fd, Nf
  <2>6. Nf <= all + fd - f /\ all <= Nf
    BY <2>1, <2>3, <2>4
  <2>7. QED
    BY <2>5, <2>6
<1>6. 1000 * fd <= C
  <2>1. CASE d = 1
    BY <1>2, <2>1
  <2>2. CASE d > 1
    <3> DEFINE c == d - 1
    <3>1. c \in Nat /\ c >= 1 /\ d = c + 1
      BY <2>2
    <3>2. (c * 65537) * f <= N * f
      BY <1>1, <1>3, <2>2, <3>1, ProductsGrow
    <3>3. (c * 65537) * f = 65537 * (c * f)
      BY <3>1
    <3>4. fd = c * f + f /\ c * f \in Nat
      BY <3>1
    <3>5. f <= c * f
      <4>1. 1 * f <= c * f
        BY <3>1, ProductsGrow
      <4>2. QED
        BY <4>1
    <3> DEFINE cf == c * f
    <3>6. 65537 * cf <= Nf
      BY <3>2, <3>3
    <3>7. Nf <= C /\ fd = cf + f /\ cf \in Nat /\ f <= cf
      BY <1>1, <3>4, <3>5
    <3> HIDE DEF c, cf, fd, Nf
    <3>8. 65537 * cf <= C
      BY <1>5, <3>6, <3>7
    <3>9. QED
      BY <3>7, <3>8
  <2>3. QED
    BY <2>1, <2>2
<1>7. fd <= C \div 1000
  <2>1. fd * 1000 <= C /\ fd \in Nat
    BY <1>5, <1>6
  <2>2. QED
    BY <2>1, DivisionAtLeast
<1>8. all <= C /\ C - all <= C \div 1000
  <2> DEFINE k == C \div 1000
  <2>1. Nf <= C /\ C < Nf + f /\ k \in Int
    BY <1>1, Division
  <2>2. fd <= k
    BY <1>7
  <2> HIDE DEF all, fd, Nf, k
  <2>3. all <= C /\ C - all <= k
    BY <1>5, <2>1, <2>2
  <2>4. QED
    BY <2>3 DEF k
<1>9. QED
  BY <1>3, <1>4, <1>8 DEF Clocks

(* A note the slice can reach needs no clamp, and one below its range has the
   largest divider and the longest period. *)
LEMMA HighOrLow ==
  ASSUME NEW C \in Nat \ {0}, NEW f \in Nat \ {0}, NEW d \in Nat \ {0}, d <= 255,
         (C \div f) \div d <= 65536 \/ d = 255
  PROVE  LET p == (C \div f) \div d
         IN  /\ f > C \div (255 * 65536) => p <= 65536
             /\ f <= C \div (255 * 65536) => d = 255 /\ p >= 65536
<1> DEFINE N == C \div f
           p == N \div d
           k == C \div 16711680
<1>1. /\ N \in Nat /\ N * f <= C /\ p \in Nat
      /\ k \in Nat /\ k * 16711680 <= C
  BY Division
<1>2. /\ \A q \in Nat : q * d <= N => q <= p
      /\ \A q \in Nat : q * f <= C => q <= N
      /\ \A q \in Nat : q * 16711680 <= C => q <= k
      /\ p * d <= N
  BY <1>1, DivisionAtLeast, Division
<1>3. 255 * 65536 = 16711680
  OBVIOUS
<1>4. p <= 65536 \/ d = 255
  OBVIOUS
<1> HIDE DEF N, p, k
<1>5. ASSUME f > k, ~(p <= 65536)
      PROVE  FALSE
  <2>1. 65537 * 255 <= N
    BY <1>1, <1>2, <1>4, <1>5
  <2>2. 16711680 * f <= N * f
    BY <1>1, <2>1, ProductsGrow
  <2>3. f * 16711680 <= C
    <3> DEFINE Nf == N * f
    <3>1. Nf \in Int /\ Nf <= C /\ 16711680 * f <= Nf
      BY <1>1, <2>2
    <3> HIDE DEF Nf
    <3>2. QED
      BY <3>1
  <2>4. QED
    BY <1>1, <1>2, <1>5, <2>3
<1>6. ASSUME f <= k
      PROVE  d = 255 /\ p >= 65536
  <2>1. 16711680 * f <= C
    BY <1>1, <1>6
  <2>2. 16711680 <= N
    BY <1>2, <2>1
  <2>3. d < 255 => 65537 * d <= N
    BY <1>1, <2>2
  <2>4. d = 255
    BY <1>1, <1>2, <1>4, <2>3
  <2>5. 65536 * d <= N
    BY <2>2, <2>4
  <2>6. QED
    BY <1>1, <1>2, <2>4, <2>5
<1>7. QED
  BY <1>1, <1>3, <1>5, <1>6 DEF N, p, k

(* The search has not passed a divider that would do. *)
SliceInv ==
  /\ frequency_hz \in Frequencies /\ drive_percent \in Drives
  /\ divider \in 1 .. 255 /\ period_counts = Slice!PeriodCounts(divider)
  /\ divider > 1 => Slice!PeriodCounts(divider - 1) > 65536
  /\ config # Slice!NoConfig =>
       /\ period_counts <= 65536 \/ divider = 255
       /\ config = [divider |-> divider % 256,
                    top |-> (Slice!Clamped(period_counts) - 1) % 65536,
                    compare_a |-> Slice!Compare(Slice!Clamped(period_counts)) % 65536]

LEMMA SliceTypes ==
  ASSUME Slice!ToneConfigAssumption, SliceInv
  PROVE  /\ SYSTEM_CLOCK \in Nat \ {0}
         /\ frequency_hz \in Nat \ {0} /\ frequency_hz <= SYSTEM_CLOCK \div 1000
         /\ drive_percent \in 1 .. 50 /\ period_counts \in Nat
<1>1. SYSTEM_CLOCK \in Nat \ {0} /\ SYSTEM_CLOCK \div 1000 \in Nat
  BY Division DEF Slice!ToneConfigAssumption
<1>2. frequency_hz \in 1 .. (SYSTEM_CLOCK \div 1000) /\ drive_percent \in 1 .. 50
  BY DEF Slice!ToneConfigAssumption, SliceInv
<1>3. frequency_hz \in Nat \ {0} /\ frequency_hz <= SYSTEM_CLOCK \div 1000
  BY <1>1, <1>2
<1>4. (SYSTEM_CLOCK \div frequency_hz) \in Nat
  BY <1>1, <1>3, Division
<1>5. divider \in Nat \ {0} /\ period_counts = (SYSTEM_CLOCK \div frequency_hz) \div divider
  BY DEF SliceInv, Slice!PeriodCounts
<1>6. period_counts \in Nat
  BY <1>4, <1>5, Division
<1>7. QED
  BY <1>1, <1>2, <1>3, <1>6

LEMMA SliceKept ==
  ASSUME SliceInv, Slice!ToneConfigAssumption, [Slice!Next]_(Slice!vars)
  PROVE  SliceInv'
<1>1. CASE Slice!Divide
  <2>1. /\ divider' = divider + 1
        /\ period_counts' = (SYSTEM_CLOCK \div frequency_hz) \div divider'
        /\ period_counts > 65536 /\ divider < 255 /\ config = Slice!NoConfig
        /\ UNCHANGED <<frequency_hz, drive_percent, config>>
    BY <1>1 DEF Slice!Divide, Slice!TooLong, Slice!PeriodCounts
  <2>2. divider' \in 1 .. 255 /\ divider' - 1 = divider
    BY <2>1 DEF SliceInv
  <2>3. period_counts = (SYSTEM_CLOCK \div frequency_hz) \div divider
    BY DEF SliceInv, Slice!PeriodCounts
  <2>4. (SYSTEM_CLOCK \div frequency_hz') \div (divider' - 1) > 65536
    BY <2>1, <2>2, <2>3
  <2>5. period_counts' = (SYSTEM_CLOCK \div frequency_hz') \div divider'
    BY <2>1
  <2>6. config' = Slice!NoConfig
    BY <2>1
  <2>7. QED
    BY <2>1, <2>2, <2>4, <2>5, <2>6 DEF SliceInv, Slice!PeriodCounts, Slice!NoConfig
<1>2. CASE Slice!Configure
  <2>1. /\ period_counts <= 65536 \/ divider = 255
        /\ UNCHANGED <<frequency_hz, drive_percent, divider, period_counts>>
    BY <1>2, SliceTypes DEF Slice!Configure, Slice!TooLong, SliceInv
  <2>2. QED
    BY <1>2, <2>1 DEF Slice!Configure, SliceInv, Slice!PeriodCounts, Slice!Clamped, Slice!Compare, Slice!NoConfig
<1>3. CASE UNCHANGED Slice!vars
  BY <1>3 DEF Slice!vars, SliceInv, Slice!PeriodCounts, Slice!Clamped, Slice!Compare, Slice!NoConfig
<1>4. QED
  BY <1>1, <1>2, <1>3 DEF Slice!Next

LEMMA SliceBegins == Slice!Init => SliceInv
BY DEF Slice!Init, SliceInv

LEMMA TopFits ==
  ASSUME NEW x \in Nat, x >= 1000, x <= 65536
  PROVE  (x - 1) % 65536 = x - 1
OBVIOUS

LEMMA SliceIsTrue ==
  ASSUME Slice!ToneConfigAssumption, SliceInv
  PROVE  ToneIsTrue
<1> SUFFICES ASSUME config # Slice!NoConfig PROVE ToneIsTrue
  BY DEF ToneIsTrue, Slice!PitchIsTrue, Slice!DutyIsAsked
<1> DEFINE C == SYSTEM_CLOCK
           f == frequency_hz
           d == divider
           p == period_counts
           n == Slice!Clamped(p)
<1>1. /\ C \in Nat \ {0} /\ f \in Nat \ {0} /\ f <= C \div 1000
      /\ drive_percent \in 1 .. 50 /\ p \in Nat /\ d \in Nat \ {0} /\ d <= 255
      /\ p = (C \div f) \div d
      /\ p <= 65536 \/ d = 255
  BY SliceTypes DEF SliceInv, Slice!PeriodCounts
<1>2. p >= 1000 /\ Clocks(f, d, p) <= C /\ C - Clocks(f, d, p) <= C \div 1000
  <2>1. PICK N \in Nat : N = C \div f
    BY <1>1, Division
  <2>2. p = N \div d /\ Needed(N, d)
    BY <1>1, <2>1 DEF Needed, SliceInv, Slice!PeriodCounts
  <2>3. QED
    BY <1>1, <2>1, <2>2, LittleIsLost
<1>3. /\ f > C \div (255 * 65536) => p <= 65536
      /\ f <= C \div (255 * 65536) => d = 255 /\ p >= 65536
  BY <1>1, HighOrLow
<1>4. /\ n \in Nat /\ n >= 1000 /\ n <= 65536
      /\ p <= 65536 => n = p
      /\ p >= 65536 => n = 65536
  <2>1. p \in Nat /\ p >= 1000
    BY <1>1, <1>2
  <2>2. QED
    BY <2>1 DEF Slice!Clamped
<1>5. config.divider = d /\ config.top = n - 1
  <2>1. config.divider = d % 256 /\ config.top = (n - 1) % 65536
    BY DEF SliceInv
  <2>2. d % 256 = d
    BY <1>1
  <2> HIDE DEF n
  <2>3. (n - 1) % 65536 = n - 1
    BY <1>4, TopFits
  <2>4. QED
    BY <2>1, <2>2, <2>3
<1>6. config.compare_a = ((n * drive_percent) \div 100) % 65536
  BY DEF SliceInv, Slice!Compare
<1> HIDE DEF n
<1>7. Slice!PitchIsTrue
  <2>1. CASE f > C \div (255 * 65536)
    <3>1. n = p /\ config.top + 1 = p
      BY <1>1, <1>3, <1>4, <1>5, <2>1
    <3>2. Slice!ClocksPerSecond = Clocks(f, d, p)
      BY <1>5, <3>1 DEF Slice!ClocksPerSecond, Clocks
    <3>3. Slice!Abs(C - Clocks(f, d, p)) <= C \div 1000
      <4> DEFINE all == Clocks(f, d, p)
                 k == C \div 1000
      <4>0. all \in Int
        BY <1>1 DEF Clocks
      <4>1. k \in Int /\ all <= C /\ C - all <= k
        BY <1>1, <1>2, Division
      <4> HIDE DEF all, k
      <4>2. Slice!Abs(C - all) <= k
        BY <1>1, <4>0, <4>1 DEF Slice!Abs
      <4>3. QED
        BY <4>2 DEF all, k
    <3>4. QED
      BY <2>1, <3>2, <3>3 DEF Slice!PitchIsTrue
  <2>2. CASE f <= C \div (255 * 65536)
    BY <1>1, <1>3, <1>4, <1>5, <2>2 DEF Slice!PitchIsTrue
  <2>3. C \div (255 * 65536) \in Nat
    BY <1>1, Division
  <2>4. QED
    BY <1>1, <2>1, <2>2, <2>3
<1>8. Slice!DutyIsAsked
  <2> DEFINE w == n * drive_percent
             q == w \div 100
  <2>1. w \in Nat /\ w >= 1000 /\ w <= 3276800
    <3>1. 1000 * 1 <= n * drive_percent
      <4>1. 1000 * drive_percent <= n * drive_percent
        BY <1>1, <1>4, ProductsGrow
      <4>2. QED
        BY <1>1, <1>4, <4>1
    <3>2. n * drive_percent <= 65536 * drive_percent
      BY <1>1, <1>4, ProductsGrow
    <3>3. w \in Nat
      BY <1>1, <1>4
    <3>4. 65536 * drive_percent <= 3276800
      BY <1>1
    <3> HIDE DEF w
    <3>5. 1000 <= w /\ w <= 65536 * drive_percent
      BY <3>1, <3>2 DEF w
    <3>6. QED
      BY <1>1, <3>3, <3>4, <3>5
  <2> HIDE DEF w
  <2>2. q \in Nat /\ q >= 10 /\ q <= 32768 /\ w - 100 * q \in 0 .. 99
    BY <2>1
  <2>3. config.compare_a = q
    BY <1>6, <2>2 DEF w
  <2>4. drive_percent * (config.top + 1) = w
    BY <1>1, <1>4, <1>5 DEF w
  <2>5. QED
    BY <2>2, <2>3, <2>4 DEF Slice!DutyIsAsked
<1>9. QED
  BY <1>7, <1>8 DEF ToneIsTrue

(* Every tone from the lowest the slice can make to a thousandth of the clock
   comes out at the pitch asked for and with the duty cycle asked for, and no cast
   or clamp changes it: ToneIsTrue of Sounds, for every clock and frequency. *)
THEOREM ToneTrue ==
  ASSUME Slice!ToneConfigAssumption
  PROVE  Slice!Spec => []ToneIsTrue
<1>1. Slice!Init => SliceInv
  BY SliceBegins
<1>2. SliceInv /\ [Slice!Next]_(Slice!vars) => SliceInv'
  BY SliceKept
<1>3. SliceInv => ToneIsTrue
  BY SliceIsTrue
<1>4. QED
  BY <1>1, <1>2, <1>3, PTL DEF Slice!Spec

-----------------------------------------------------------------------------
(* The screen.                                                              *)

(* The rows of the radio on the general page are the loop's own variables. *)
RowsInv ==
  /\ page = "General" /\ shown = Loop!Page(page, boot_status, radio, gps)
  /\ now \in Nat /\ last_valid_rx_time \in Nat \cup {Loop!None}
  /\ loss_displayed \in BOOLEAN /\ (loss_displayed => last_valid_rx_time # Loop!None)
  /\ radio["link"] = IF last_valid_rx_time = Loop!None THEN "Waiting"
                     ELSE IF loss_displayed THEN "Lost" ELSE "Connected"
  /\ radio["received"] = received_packets /\ radio["missed"] = missed_packets
  /\ radio["rssi"] = last_rssi /\ radio["snr"] = last_snr
  /\ ~loss_displayed => radio["sequence"] = Loop!Shown(last_accepted_sequence)

(* Drawing the rows that changed comes to the same as drawing the page. *)
LEMMA RadioDrawn ==
  ASSUME page = "General", shown = Loop!Page(page, boot_status, radio, gps),
         NEW state, Loop!update_radio(state)
  PROVE  page' = "General" /\ shown' = Loop!Page(page', boot_status', radio', gps')
<1>1. /\ page' = page /\ boot_status' = boot_status /\ gps' = gps /\ radio' = state
      /\ shown' = [row \in Loop!Rows |->
                     IF row \in Loop!RadioRows /\ radio[row] # state[row]
                     THEN state[row] ELSE shown[row]]
  BY DEF Loop!update_radio, Loop!RadioText
<1>2. \A row \in Loop!Rows :
        shown[row] = IF row \in Loop!RadioRows THEN radio[row]
                     ELSE IF row \in Loop!GpsRows THEN Loop!GpsText(gps, row) ELSE Loop!Blank
  BY DEF Loop!Page, Loop!RadioText
<1>3. Loop!Page(page', boot_status', radio', gps') =
        [row \in Loop!Rows |->
           IF row \in Loop!RadioRows THEN state[row]
           ELSE IF row \in Loop!GpsRows THEN Loop!GpsText(gps, row) ELSE Loop!Blank]
  BY <1>1 DEF Loop!Page, Loop!RadioText
<1>4. \A row \in Loop!Rows :
        (IF row \in Loop!RadioRows /\ radio[row] # state[row] THEN state[row] ELSE shown[row])
          = IF row \in Loop!RadioRows THEN state[row]
            ELSE IF row \in Loop!GpsRows THEN Loop!GpsText(gps, row) ELSE Loop!Blank
  BY <1>2
<1>5. QED
  BY <1>1, <1>3, <1>4

LEMMA GpsDrawn ==
  ASSUME page = "General", shown = Loop!Page(page, boot_status, radio, gps),
         NEW state, Loop!update_gps(state)
  PROVE  page' = "General" /\ shown' = Loop!Page(page', boot_status', radio', gps')
<1>1. /\ page' = page /\ boot_status' = boot_status /\ radio' = radio /\ gps' = state
      /\ shown' = [row \in Loop!Rows |->
                     IF row \in Loop!GpsRows /\ Loop!GpsRowChanged(row, gps, state)
                     THEN Loop!GpsText(state, row) ELSE shown[row]]
  BY DEF Loop!update_gps
<1>2. \A row \in Loop!Rows :
        shown[row] = IF row \in Loop!RadioRows THEN radio[row]
                     ELSE IF row \in Loop!GpsRows THEN Loop!GpsText(gps, row) ELSE Loop!Blank
  BY DEF Loop!Page, Loop!RadioText
<1>3. Loop!Page(page', boot_status', radio', gps') =
        [row \in Loop!Rows |->
           IF row \in Loop!RadioRows THEN radio[row]
           ELSE IF row \in Loop!GpsRows THEN Loop!GpsText(state, row) ELSE Loop!Blank]
  BY <1>1 DEF Loop!Page, Loop!RadioText
<1>4. \A row \in Loop!GpsRows :
        ~Loop!GpsRowChanged(row, gps, state) => Loop!GpsText(gps, row) = Loop!GpsText(state, row)
  BY DEF Loop!GpsRowChanged, Loop!GpsText
<1>5. \A row \in Loop!GpsRows : row \notin Loop!RadioRows
  BY DEF Loop!GpsRows, Loop!RadioRows
<1>6. \A row \in Loop!Rows :
        (IF row \in Loop!GpsRows /\ Loop!GpsRowChanged(row, gps, state)
         THEN Loop!GpsText(state, row) ELSE shown[row])
          = IF row \in Loop!RadioRows THEN radio[row]
            ELSE IF row \in Loop!GpsRows THEN Loop!GpsText(state, row) ELSE Loop!Blank
  BY <1>2, <1>4, <1>5
<1>7. QED
  BY <1>1, <1>3, <1>6

LEMMA RowsKept ==
  ASSUME RowsInv, [Loop!Next]_(Loop!vars), Loop!ScreenAssumption
  PROVE  RowsInv'
<1>1. CASE Loop!Tick
  <2>1. now' \in Nat
    BY <1>1 DEF Loop!Tick, Loop!ScreenAssumption, RowsInv
  <2>2. QED
    BY <1>1, <2>1
       DEF Loop!Tick, Loop!tracker, Loop!display, Loop!link, RowsInv, Loop!Shown,
           Loop!Page, Loop!Rows, Loop!RadioRows, Loop!GpsRows, Loop!RadioText, Loop!GpsText
<1>2. CASE Loop!Packet
  <2>1. PICK p \in Telemetry :
          Loop!Accept(p) \/ (Loop!Ignored(p.seq) /\ UNCHANGED <<Loop!display, Loop!link>>)
    BY <1>2 DEF Loop!Packet
  <2>2. now' = now /\ now \in Nat /\ now # Loop!None
    BY <1>2 DEF Loop!Packet, RowsInv, Loop!None
  <2>3. CASE Loop!Accept(p)
    <3>1. /\ last_valid_rx_time' = now /\ last_rssi' = p.rssi /\ last_snr' = p.snr
          /\ loss_displayed' = FALSE /\ Loop!Accepted(p.seq, now)
          /\ Loop!update_radio(Loop!connected(p))
      BY <2>3 DEF Loop!Accept
    <3>2. last_accepted_sequence' = p.seq
      BY <3>1 DEF Loop!Accepted, Loop!FirstPacket, Loop!Resync, Loop!SuspiciousJump,
                  Loop!ForwardStep, Loop!SequenceReset, Loop!AcceptTrusted, Loop!AcceptUntrusted
    <3>3. p.seq # Loop!None
      BY DEF Loop!ScreenAssumption, Loop!None
    <3>4. page' = "General" /\ shown' = Loop!Page(page', boot_status', radio', gps')
      BY <3>1, RadioDrawn DEF RowsInv
    <3>5. radio' = Loop!connected(p)
      BY <3>1 DEF Loop!update_radio
    <3>6. /\ radio'["link"] = "Connected" /\ radio'["sequence"] = p.seq
          /\ radio'["rssi"] = p.rssi /\ radio'["snr"] = p.snr
          /\ radio'["received"] = received_packets' /\ radio'["missed"] = missed_packets'
      BY <3>5 DEF Loop!connected
    <3>7. QED
      BY <2>2, <3>1, <3>2, <3>3, <3>4, <3>6 DEF RowsInv, Loop!Shown
  <2>4. CASE Loop!Ignored(p.seq) /\ UNCHANGED <<Loop!display, Loop!link>>
    <3>1. UNCHANGED <<last_accepted_sequence, received_packets, missed_packets>>
      BY <2>4 DEF Loop!Ignored, Loop!DuplicateCandidate, Loop!DuplicateSequence, Loop!Backward,
                  Loop!Ignore
    <3>2. QED
      BY <2>2, <2>4, <3>1
         DEF Loop!display, Loop!link, RowsInv, Loop!Shown,
             Loop!Page, Loop!Rows, Loop!RadioRows, Loop!GpsRows, Loop!RadioText, Loop!GpsText
  <2>5. QED
    BY <2>1, <2>3, <2>4
<1>3. CASE Loop!DeclareLost
  <2>1. /\ Loop!update_radio(Loop!lost) /\ loss_displayed' = TRUE
        /\ last_valid_rx_time # Loop!None
        /\ UNCHANGED <<last_accepted_sequence, received_packets, missed_packets, now,
                       last_valid_rx_time, last_rssi, last_snr>>
    BY <1>3 DEF Loop!DeclareLost, Loop!tracker
  <2>2. page' = "General" /\ shown' = Loop!Page(page', boot_status', radio', gps')
    BY <2>1, RadioDrawn DEF RowsInv
  <2>3. radio' = Loop!lost
    BY <2>1 DEF Loop!update_radio
  <2>4. /\ radio'["link"] = "Lost"
        /\ radio'["rssi"] = last_rssi /\ radio'["snr"] = last_snr
        /\ radio'["received"] = received_packets /\ radio'["missed"] = missed_packets
    BY <2>3 DEF Loop!lost
  <2>5. QED
    BY <2>1, <2>2, <2>4 DEF RowsInv
<1>4. CASE Loop!TakeGps
  <2>1. PICK state \in GpsStates : Loop!update_gps(state)
    BY <1>4 DEF Loop!TakeGps
  <2>2. page' = "General" /\ shown' = Loop!Page(page', boot_status', radio', gps')
    BY <2>1, GpsDrawn DEF RowsInv
  <2>3. /\ radio' = radio
        /\ UNCHANGED <<last_accepted_sequence, received_packets, missed_packets, now,
                       last_valid_rx_time, last_rssi, last_snr, loss_displayed>>
    BY <1>4, <2>1 DEF Loop!TakeGps, Loop!update_gps, Loop!tracker, Loop!link
  <2>4. QED
    BY <2>2, <2>3 DEF RowsInv, Loop!Shown
<1>5. CASE UNCHANGED Loop!vars
  BY <1>5
     DEF Loop!vars, Loop!tracker, Loop!display, Loop!link, RowsInv, Loop!Shown,
         Loop!Page, Loop!Rows, Loop!RadioRows, Loop!GpsRows, Loop!RadioText, Loop!GpsText
<1>6. QED
  BY <1>1, <1>2, <1>3, <1>4, <1>5 DEF Loop!Next

LEMMA RowsBegin == Loop!Init => RowsInv
<1> SUFFICES ASSUME Loop!Init PROVE RowsInv
  OBVIOUS
<1>1. /\ page = "General" /\ shown = Loop!Page(page, boot_status, radio, gps)
      /\ radio = Loop!waiting /\ now = 0 /\ last_valid_rx_time = Loop!None
      /\ last_rssi = Loop!NoValue /\ last_snr = Loop!NoValue /\ loss_displayed = FALSE
      /\ last_accepted_sequence = Loop!None /\ received_packets = 0 /\ missed_packets = 0
  BY DEF Loop!Init, Loop!LoopInit, Loop!TrackerInit
<1>2. QED
  BY <1>1 DEF RowsInv, Loop!waiting, Loop!Shown

LEMMA RowsTell == RowsInv => ScreenTellsTheLoop
<1> SUFFICES ASSUME RowsInv PROVE ScreenTellsTheLoop
  OBVIOUS
<1>1. \A row \in Loop!RadioRows : shown[row] = radio[row]
  BY DEF RowsInv, Loop!Page, Loop!RadioText, Loop!Rows
<1>2. {"link", "received", "missed", "rssi", "snr", "sequence"} \subseteq Loop!RadioRows
  BY DEF Loop!RadioRows
<1>3. /\ (radio["link"] = "Waiting") <=> (last_valid_rx_time = Loop!None)
      /\ (radio["link"] = "Lost") <=> loss_displayed
  BY DEF RowsInv
<1>4. QED
  BY <1>1, <1>2, <1>3 DEF ScreenTellsTheLoop, Loop!ScreenTellsTheLoop, Loop!ScreenIsCurrent, RowsInv

(* The general page is true at every moment: ScreenTellsTheLoop of LinkScreen, for
   packets of any numbers and signals and a clock of any steps. *)
THEOREM ScreenTells ==
  ASSUME Loop!ScreenAssumption
  PROVE  Loop!Spec => []ScreenTellsTheLoop
<1>1. Loop!Init => RowsInv
  BY RowsBegin
<1>2. RowsInv /\ [Loop!Next]_(Loop!vars) => RowsInv'
  BY RowsKept
<1>3. RowsInv => ScreenTellsTheLoop
  BY RowsTell
<1>4. QED
  BY <1>1, <1>2, <1>3, PTL DEF Loop!Spec

(* The stages of the boot: with the card at its slow clock, before DEBUG.LOG, with
   the card done, with the GPS done, with the radio done. *)
SlowStages == {"probe", "card_init"}
Unlogged == {"sd_card", "probe", "card_init", "mount", "bus_back", "card_row"}
CardDone == {"gps", "gps_row"}
GpsDone == {"lora", "lora_wait"}
LoraDone == {"hold", "running", "abort", "blinking"}

(* DEBUG.LOG after each of them. *)
CardLog == <<>> \o <<"SYSTEM_INIT", "DISPLAY_INIT", "SD_CARD_INIT">>
GpsLog == CardLog \o <<"GPS_INIT">>
OkLog == GpsLog \o <<"LORA_INIT OK", "INIT_COMPLETE">>
NokLog == GpsLog \o <<"LORA_INIT NOK">>

(* How far the boot has come is in the rows and in the file. *)
BootInv ==
  /\ pc \in Unlogged \cup CardDone \cup GpsDone \cup LoraDone
  /\ page = IF pc = "running" THEN "General" ELSE "Boot"
  /\ DOMAIN boot_status = Start!Subsystems
  /\ boot_status["System"] = "Ok" /\ boot_status["Display"] = "Ok"
  /\ pc \in SlowStages => bus = "slow"
  /\ pc \notin SlowStages /\ pc # "bus_back" => bus = "fast"
  /\ pc \notin Unlogged =>
       boot_status["SdCard"] = IF storage = "none" THEN "Nok" ELSE "Ok"
  /\ pc \in GpsDone \cup LoraDone => boot_status["Gps"] = "Ok"
  /\ pc \in {"hold", "running"} => lora = "ok" /\ boot_status["Lora"] = "Ok"
  /\ pc \in {"abort", "blinking"} => lora = "failed" /\ boot_status["Lora"] = "Nok"

LogInv ==
  /\ pc \in Unlogged \ {"bus_back", "card_row"} => storage = "none"
  /\ pc \in Unlogged => debug_log = <<>>
  /\ storage # "none" /\ debug_file =>
       /\ pc \in CardDone => debug_log = CardLog
       /\ pc \in GpsDone => debug_log = GpsLog
       /\ pc \in {"hold", "running"} => debug_log = OkLog
       /\ pc \in {"abort", "blinking"} => debug_log = NokLog

(* A status that is set is the one of its row and of no other. *)
LEMMA StatusSet ==
  ASSUME DOMAIN boot_status = Start!Subsystems, NEW s \in Start!Subsystems, NEW status,
         Start!set_init_status(s, status)
  PROVE  /\ DOMAIN boot_status' = Start!Subsystems /\ page' = page
         /\ boot_status'[s] = status
         /\ \A t \in Start!Subsystems \ {s} : boot_status'[t] = boot_status[t]
BY DEF Start!set_init_status

LEMMA FiveSubsystems ==
  Start!Subsystems = {"System", "Display", "SdCard", "Gps", "Lora"}
BY DEF Start!Subsystems

LEMMA BootKept ==
  ASSUME BootInv, [Start!Next]_(Start!vars)
  PROVE  BootInv'
<1> USE DEF SlowStages, Unlogged, CardDone, GpsDone, LoraDone
<1>0. BootInv
  OBVIOUS
<1>1. ASSUME UNCHANGED <<page, boot_status, pc, bus, storage, lora>>
      PROVE  BootInv'
  BY <1>1 DEF BootInv
<1>2. CASE Start!BeginCard
  <2>1. /\ pc = "sd_card" /\ pc' = "probe" /\ bus' = "slow"
        /\ Start!set_init_status("SdCard", "Initializing")
    BY <1>2 DEF Start!BeginCard, Start!Go
  <2>2. QED
    BY <2>1, StatusSet, FiveSubsystems DEF BootInv
<1>3. CASE Start!Probe \/ Start!CardInitFails \/ Start!CardInitOk \/ Start!Mount \/ Start!BusBack
  <2>1. /\ UNCHANGED <<page, boot_status, lora>>
        /\ \/ pc = "probe" /\ pc' \in {"card_init", "bus_back"} /\ bus' = bus
           \/ pc = "card_init" /\ pc' = "bus_back" /\ bus' = bus
           \/ pc = "card_init" /\ pc' = "mount" /\ bus' = "fast"
           \/ pc = "mount" /\ pc' = "bus_back" /\ bus' = bus
           \/ pc = "bus_back" /\ pc' = "card_row" /\ bus' = "fast"
    BY <1>3 DEF Start!Probe, Start!CardInitFails, Start!CardInitOk, Start!Mount, Start!BusBack,
                Start!Go, Start!display
  <2>2. QED
    BY <2>1 DEF BootInv
<1>4. CASE Start!CardRow
  <2>1. /\ pc = "card_row" /\ pc' = "gps" /\ UNCHANGED <<bus, storage, lora>>
        /\ Start!set_init_status("SdCard", IF storage = "none" THEN "Nok" ELSE "Ok")
    BY <1>4 DEF Start!CardRow, Start!Go, Start!diag
  <2>2. QED
    BY <2>1, StatusSet, FiveSubsystems DEF BootInv
<1>5. CASE Start!BeginGps \/ Start!GpsRow
  <2>1. /\ UNCHANGED <<bus, storage, lora>>
        /\ \/ pc = "gps" /\ pc' = "gps_row" /\ Start!set_init_status("Gps", "Initializing")
           \/ pc = "gps_row" /\ pc' = "lora" /\ Start!set_init_status("Gps", "Ok")
    BY <1>5 DEF Start!BeginGps, Start!GpsRow, Start!Go, Start!diag, Start!log
  <2>2. QED
    BY <2>1, StatusSet, FiveSubsystems DEF BootInv
<1>6. CASE Start!BeginLora \/ Start!LoraOk \/ Start!LoraFails
  <2>1. /\ UNCHANGED <<bus, storage>>
        /\ \/ pc = "lora" /\ pc' = "lora_wait" /\ Start!set_init_status("Lora", "Initializing")
           \/ /\ pc = "lora_wait" /\ pc' = "hold" /\ lora' = "ok"
              /\ Start!set_init_status("Lora", "Ok")
           \/ /\ pc = "lora_wait" /\ pc' = "abort" /\ lora' = "failed"
              /\ Start!set_init_status("Lora", "Nok")
    BY <1>6 DEF Start!BeginLora, Start!LoraOk, Start!LoraFails, Start!Go, Start!diag, Start!log
  <2>2. QED
    BY <2>1, StatusSet, FiveSubsystems DEF BootInv
<1>7. CASE Start!Abort
  BY <1>7 DEF Start!Abort, Start!Go, Start!display, Start!log, BootInv
<1>8. CASE Start!EnterGeneral
  BY <1>8 DEF Start!EnterGeneral, Start!Go, Start!set_page, Start!log, BootInv
<1>9. CASE Start!AudioTask \/ Start!GpsTask \/ Start!TakeGps \/ UNCHANGED Start!vars
  BY <1>1, <1>9
     DEF Start!AudioTask, Start!GpsTask, Start!TakeGps, Start!update_gps, Start!vars,
         Start!display, Start!stage, Start!log
<1>10. QED
  BY <1>2, <1>3, <1>4, <1>5, <1>6, <1>7, <1>8, <1>9 DEF Start!Next, Start!Main

LEMMA LogKept ==
  ASSUME BootInv, LogInv, [Start!Next]_(Start!vars)
  PROVE  LogInv'
<1> USE DEF SlowStages, Unlogged, CardDone, GpsDone, LoraDone
<1>0. LogInv
  OBVIOUS
<1>1. CASE Start!BeginCard \/ Start!Probe \/ Start!CardInitFails \/ Start!CardInitOk \/ Start!BusBack
  BY <1>0, <1>1 DEF Start!BeginCard, Start!Probe, Start!CardInitFails, Start!CardInitOk,
                    Start!BusBack, Start!Go, Start!log, LogInv
<1>2. CASE Start!Mount
  BY <1>0, <1>2 DEF Start!Mount, Start!Go, LogInv
<1>3. CASE Start!CardRow
  BY <1>0, <1>3 DEF Start!CardRow, Start!Go, Start!diag, LogInv, CardLog
<1>4. CASE Start!BeginGps \/ Start!BeginLora
  BY <1>0, <1>4 DEF Start!BeginGps, Start!BeginLora, Start!Go, Start!log, LogInv
<1>5. CASE Start!GpsRow
  BY <1>0, <1>5 DEF Start!GpsRow, Start!Go, Start!diag, LogInv, GpsLog
<1>6. CASE Start!LoraOk
  BY <1>0, <1>6 DEF Start!LoraOk, Start!Go, Start!diag, LogInv, OkLog
<1>7. CASE Start!LoraFails
  BY <1>0, <1>7 DEF Start!LoraFails, Start!Go, Start!diag, LogInv, NokLog
<1>8. CASE Start!Abort \/ Start!EnterGeneral
  BY <1>0, <1>8 DEF Start!Abort, Start!EnterGeneral, Start!Go, Start!log, LogInv
<1>9. CASE Start!AudioTask \/ Start!GpsTask \/ Start!TakeGps \/ UNCHANGED Start!vars
  BY <1>0, <1>9
     DEF Start!AudioTask, Start!GpsTask, Start!TakeGps, Start!vars, Start!stage, Start!log, LogInv
<1>10. QED
  BY <1>1, <1>2, <1>3, <1>4, <1>5, <1>6, <1>7, <1>8, <1>9 DEF Start!Next, Start!Main

LEMMA BootBegins == Start!Init => BootInv /\ LogInv
<1> SUFFICES ASSUME Start!Init PROVE BootInv /\ LogInv
  OBVIOUS
<1>1. /\ page = "Boot" /\ boot_status = Start!starting /\ pc = "sd_card" /\ bus = "fast"
      /\ storage = "none" /\ debug_log = <<>>
  BY DEF Start!Init, Start!DisplayInit
<1>2. QED
  BY <1>1 DEF BootInv, LogInv, Start!starting, Start!Subsystems, SlowStages, Unlogged,
              CardDone, GpsDone, LoraDone

LEMMA FourLines ==
  ASSUME NEW a, NEW b, NEW c, NEW d
  PROVE  (<<>> \o <<a, b, c>>) \o <<d>> = <<a, b, c, d>>
<1> DEFINE S == {a, b, c, d}
           card == <<a, b, c>>
<1>1. card \in Seq(S) /\ d \in S
  OBVIOUS
<1>2. <<a, b, c, d>> = Append(card, d)
  BY SMTT(30)
<1> HIDE DEF card
<1>3. <<>> \o card = card
  BY <1>1, ConcatEmptySeq
<1>4. card \o <<d>> = Append(card, d)
  BY <1>1, AppendIsConcat
<1>5. (<<>> \o card) \o <<d>> = <<a, b, c, d>>
  BY <1>2, <1>3, <1>4, Zenon
<1>6. QED
  BY <1>5 DEF card

LEMMA BootTells == BootInv /\ LogInv => BootIsReported
<1> SUFFICES ASSUME BootInv, LogInv PROVE BootIsReported
  OBVIOUS
<1>1. Start!RowsTellTheOutcome
  BY FiveSubsystems
     DEF BootInv, Start!RowsTellTheOutcome, Unlogged, CardDone, GpsDone, LoraDone
<1>2. GpsLog = <<"SYSTEM_INIT", "DISPLAY_INIT", "SD_CARD_INIT", "GPS_INIT">>
  BY FourLines DEF CardLog, GpsLog
<1>3. Start!DebugLogTellsTheBoot
  BY <1>2 DEF BootInv, LogInv, Start!DebugLogTellsTheBoot, OkLog, NokLog
<1>4. QED
  BY <1>1, <1>3 DEF BootIsReported

(* Whatever fails on the way, the boot rows and DEBUG.LOG tell what became of the
   card and of the radio: BootIsReported of Screens. *)
THEOREM BootReported == Start!Spec => []BootIsReported
<1>1. BootInv /\ LogInv /\ [Start!Next]_(Start!vars) => (BootInv /\ LogInv)'
  BY BootKept, LogKept
<1>2. QED
  BY <1>1, BootBegins, BootTells, PTL DEF Start!Spec

(* The bus has the clock of the device in use at every step of the boot:
   BusSuitsTheDevice of Boot. *)
THEOREM BusSuits == Start!Spec => BusSuitsTheDevice
<1> DEFINE Suits == /\ (<<page, boot_status, gps>>' # <<page, boot_status, gps>> => bus = "fast")
                    /\ (pc \in {"probe", "card_init"} => bus = "slow")
                    /\ (pc = "mount" => bus = "fast")
<1>1. BootInv /\ [Start!Next]_(Start!vars) => [Suits]_(Start!vars)
  <2> SUFFICES ASSUME BootInv, Start!Next PROVE Suits
    OBVIOUS
  <2> USE DEF SlowStages
  <2>1. /\ pc \in SlowStages => bus = "slow"
        /\ pc \notin SlowStages /\ pc # "bus_back" => bus = "fast"
    BY DEF BootInv
  <2>2. pc \in SlowStages \cup {"bus_back"} => UNCHANGED <<page, boot_status, gps>>
    BY DEF Start!Next, Start!Main, Start!BeginCard, Start!Probe, Start!CardInitFails,
           Start!CardInitOk, Start!Mount, Start!BusBack, Start!CardRow, Start!BeginGps,
           Start!GpsRow, Start!BeginLora, Start!LoraOk, Start!LoraFails, Start!Abort,
           Start!EnterGeneral, Start!AudioTask, Start!GpsTask, Start!TakeGps, Start!Go,
           Start!MainWaits, Start!display
  <2>3. QED
    BY <2>1, <2>2
<1>2. BootInv /\ [Start!Next]_(Start!vars) => BootInv'
  BY BootKept
<1>3. Start!Init => BootInv
  BY BootBegins
<1>4. QED
  BY <1>1, <1>2, <1>3, PTL DEF Start!Spec, BusSuitsTheDevice, Start!BusSuitsTheDevice
=============================================================================
