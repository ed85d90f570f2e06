# A verification development for GOLFER

GOLFER is the firmware of a LoRa field receiver (RP2350, Rust, Embassy). A transmitter,
the nRF beacon, sends one telemetry packet a second; GOLFER receives it, judges its
sequence number, shows the state of the link, and records a survey on an SD card. This
directory holds TLA+ models of the firmware in `src/firmware/golfer/src`, TLC runs that
check them on small instances, and TLAPS proofs, for every value of the constants, about every
part of the firmware but the packet codec and the number parsers.

File names without a path below are files of `src/firmware/golfer/src`.

## 1. The system

### Components

| Component | State it keeps | Operations | Talks to |
|---|---|---|---|
| Configuration store, `system.rs` | two flash sectors; in RAM the name, the active slot, the generation | `init`, `set_name` -> `persist_config` | main at boot (`set_name` has no caller yet) |
| Radio manager, `radio.rs` | `rx_enabled`, the driver | `task`, `handle_command`, `prepare_receive_window`, `transmit_packet`; for clients `transmit`, `set_receive_enabled` | bounded channels of four: frames out, commands in, completions out |
| Receiver loop, `main.rs` 496-1331 | sequence baseline and counters, link age, GPS and UTC candidates, sampling deadline | one iteration: GPS block, sample, wait for a frame, handle it or look at the link | frames from the radio, `GPS_STATE_SIGNAL`, storage, display, sound |
| GPS task, `gps.rs` | the merged GPS state, the line being assembled | `receive_task`, `apply_gga`, `apply_rmc`, the number and date parsers | signals the loop; only the newest state is kept |
| Storage at boot, `storage.rs` 238-495, 1041-1737 | the card: BOOT.NXT, session directories; open handles | `card_present`, `Storage::init`, `initialize_system_log`, `initialize_survey_session`, `allocate_boot_session`, `initialize_global_debug_log` | called by main |
| Storage at run time, `storage.rs` 497-1031 | log files, DEBUG buffer, UTC anchor | `log_receiver_packet`, `log_local_sample`, `log_event`, `diag`, `update_time_anchor` | called by the loop |
| Packet codec, `packet.rs` | none | `encode`, `decode`, `validate`, `crc32_ieee`, `golden_self_test` | the loop; main runs the self-test at boot |
| Buttons, `buttons.rs` | for each of four buttons its stable state and a count of differing samples | one task, a pass every 5 ms | `EVENTS`, a channel of eight |
| Sound, `audio.rs` | routine tone, the UI sound that plays, the PWM slice | one task; for clients `play_tone`, `stop`, `play_ui_sound` | `ROUTINE_TONE`, a signal that keeps the newest request, and `UI_SOUNDS`, a channel of four |
| Button tones, `main.rs` 91-151 | which buttons are held, which owns the tone | `button_audio_test_task` | from `EVENTS` to `ROUTINE_TONE` |
| Display, `display/` | the page and the state behind every row | `set_page`, `set_init_status`, `update_radio`, `update_gps` | main at boot, then the loop |
| Boot and SPI bus, `main.rs` 172-495, `spi0_bus.rs` | none after boot | stages: card, GPS, radio, hold; the clock of the bus | everything; meanwhile the spawned tasks run |
| `sd.rs`, `apps/golfer-cli`, `crates/golfer-protocol` | none | not compiled into the firmware, or stubs | - |

### What is hard in it

* **Crashes.** The device is switched off by cutting its power: while a flash sector is
  erased, between two calls to the file system, between an append and its flush.
* **Partial failure.** Flash and card calls return errors; the code goes on, rolls back,
  closes handles or falls back to a lesser mode.
* **Unreliable delivery.** Radio frames are lost, repeated, late, or from someone else;
  GPS sentences are garbled and their dates provisional.
* **Time-outs.** The loop waits for a frame, the watchdog and the sampling deadline at
  once, while its handlers stall for as long as the card wants.
* **Interleaving and full channels.** The radio owner, its clients and the loop meet only
  in bounded channels, and so do the buttons, their tones and the speaker; the GPS signal and
  the tone signal overwrite.
* **Narrow integers.** Packed fields with sentinels, fixed-point numbers read digit by
  digit, dates from two-digit years, PWM registers.

There is one core and one executor: tasks interleave only at an `await`. Hence whole
handlers are single actions except where power can go in the middle of one.

### What makes each part correct

* Configuration: RAM and flash never diverge, and a change is atomic whatever fails.
* Sequence tracking: the loss count is exact for an honest beacon; once there is a
  baseline no single dishonest number replaces it (the first packet heard is believed, whoever
  sent it); two consistent packets always bring the receiver back.
* Link: loss is declared in time, postponed by a frame no longer than its handling takes, and
  the log agrees with the screen.
* Sampling: one record per period, no drift, no burst.
* GPS: a sentence that arrives whole is parsed whole, a number is the nearest one its field
  can hold, a date is the second it names; a fix always has a position; the UTC of the log is
  true, to within what the progression check lets through; a true time is not rejected while the
  last accepted one was true.
* Packets: what is decoded is what was encoded; a damaged frame is never decoded; only packets
  of the expected survey and sender are counted.
* Buttons and sound: events tell the debounced state, the newest press owns the tone, no tone
  sticks, no UI sound is cut off, and the receiver loop does not wait for the speaker.
* Display: every row shows the newest value, and the values are those of the loop.
* Radio: each request is answered once and in order; the mode is that of the newest
  command; a stop lets one more frame through at most.
* Boot: no two recorded sessions share a number; a clean boot always records; no leaked
  handle; whatever fails, the bus has the clock of the device in use, and the screen and
  DEBUG.LOG say what failed.
* Logging: a power cut takes at most ten samples, beyond those a failing card held back;
  urgent lines are durable.

The hazards behind these, each at its line, are the list `hazards` of `PROJECT.json`.

## 2. Modules and the code

| Module | Models | Lines |
|---|---|---|
| `DurableName` | the promise of the configuration store: one durable name that changes atomically | doc of `System` |
| `ConfigStore` | `system.rs`: two slots, erase, write, verify, roll back, boot | 123-438 |
| `SequenceTracker` | the sequence block of the loop, one operator for each branch | `main.rs` 943-1162 |
| `Beacon` | SequenceTracker with a well-behaved beacon, a delaying and lossy path and stray frames | |
| `BeaconFaults` | SequenceTracker with a transmitter that jumps and reboots | |
| `LinkMonitor` | the whole loop, of its GPS block only the time it takes, over SequenceTracker | `main.rs` 552-1331 |
| `GpsClock` | GPS merge, signal, fix events, UTC candidate, anchor | `gps.rs` 38-237, `main.rs` 552-688, `storage.rs` 929-941 |
| `RadioManager` | the radio owner and its channels | `radio.rs` 51-146, 304-461 |
| `Receiver` | what `Beacon` assumes: radio task, `RX_CHANNEL` and the loop in between | `radio.rs` 438-449, `main.rs` 496-1329 |
| `BootSession` | the card's initialisation and the session's allocation | `storage.rs` 238-458, 1041-1737 |
| `LogStore` | appends, the DEBUG buffer, checkpoints | `storage.rs` 501-997 |
| `PacketFormat` | TelemetryV1: constants, field codecs, CRC, `encode`, `decode` (no state) | `packet.rs` |
| `PacketCodec` | a frame from its sender through the air to the loop's verdict | `main.rs` 789-918 |
| `NmeaLines` | characters to lines | `gps.rs` 94-138 |
| `GpsFields` | the number parsers | `gps.rs` 243-338, 379-405, 448-541 |
| `Calendar` | an RMC date to UTC | `gps.rs` 340-377, 407-444 |
| `Buttons` | the button task | `buttons.rs` |
| `Audio` | the audio task with its signal and its queue | `audio.rs` 43-237 |
| `ButtonTones` | Buttons, Audio and the task between them, untimed | `main.rs` 91-151 |
| `LinkSounds` | Audio and the loop's sounds, timed | `main.rs` 256, 1164-1328 |
| `ToneConfig` | the PWM configuration of a tone | `audio.rs` 244-273 |
| `Display` | both pages, row by row (operators on the display's state) | `display/mod.rs`, `display/ui.rs` |
| `LinkScreen` | SequenceTracker and Display under the loop | `main.rs` 457-1328 |
| `Boot` | Display and the stages of the boot | `main.rs` 206-490, `storage.rs` 237-478 |
| `Tasks` | RadioManager beside an instance of GpsClock | |
| `Storage` | LogStore beside an instance of BootSession | `storage.rs` |
| `Inputs` | Receiver beside instances of NmeaLines and Calendar | |
| `Sounds` | ButtonTones beside instances of LinkSounds and ToneConfig | |
| `Screens` | instances of Boot and LinkScreen over the display they share | |
| `...Proofs` | the theorems of ConfigStore, Beacon, BeaconFaults, LinkMonitor, Storage, of Inputs (`ReceiverProofs`), of both tasks (`TaskProofs`) and of Sounds and Screens (`OutputProofs`) | |
| `MC...` | instances for TLC: sets that a .cfg cannot write, and components that share a run | |

How they build on one another: `SequenceTracker` is under `Beacon`, `BeaconFaults`,
`LinkMonitor`, `LinkScreen` and `Receiver`; `Display` under `LinkScreen` and `Boot`; `Audio`
under `ButtonTones`, with `Buttons`, and under `LinkSounds`; `PacketFormat` under `PacketCodec`.
`ConfigStore` implements `DurableName`, and `Receiver` implements `Beacon`. `Tasks`, `Storage`,
`Inputs`, `Sounds` and `Screens` put modules side by side that have their own specifications, and
give the properties of the instances a name; the proofs and the runs share these names.

`PROJECT.json` maps every definition to the lines it stands for. Some notes on how:

* **ConfigStore.** A slot is what `decode_config_record` can tell of it: a valid record with
  generation and name, or nothing. `persist_config` is split into erase, write and verify,
  since power can go and the driver can fail in each; a worn sector may report success
  without holding the data. It is assumed that a write the *driver reports as failed* has
  not completed the record. `set_name` and `init` are the rest of the actions; a failure in
  `init` is the `BootPanic` or a boot with the default name, as in the code.
* **SequenceTracker.** `OnPacket(seq, now)` is the disjunction of the code's branches in
  their order: first packet, duplicate of the candidate, resynchronisation, duplicate,
  suspicious jump, forward step, reset, backward. Absent options are `None`. The
  modules above it decide which packets arrive.
* **LinkMonitor.** `with_timeout` polls the channel before the timer, so a frame that is
  there is always taken: `Tick` needs an empty channel. A handler takes any time in
  `Stalls`, in one step, and so does the GPS block at the top of each iteration, which draws on
  the TFT and writes to the card (`GpsBlock`; what it computes is in GpsClock). What other tasks
  do between two awaits takes no time of its own. The sounds the loop plays are in LinkSounds,
  the screen in LinkScreen.
* **GpsClock.** A sentence has coordinates or not, a time or not; a position is the moment
  it was parsed. Step by step the GPS block of `main.rs` is `Take` with its five cases.
  An RMC's time is the true one, misses it by any of `Errors`, or is a provisional date; nothing
  is assumed of these. When a time was parsed (`utc_at`), how many true ones were taken in a row
  and how many times were accepted since a true one (`hops`) is history. `hops` is `None` when two
  wrong times that progressed as a clock does made the synchronisation.
* **RadioManager.** The SX1262 is nondeterminism: a window ends empty or with a frame, a
  transmission succeeds or fails. A payload is the position of its request.
* **BootSession.** One action per file-system call that can fail or between which power can
  go. BOOT.NXT is truncated on the card when it is opened for writing, and durable after the
  flush; a failed flush or a failed directory creation may still have reached the card. Main
  always asks for a survey, so a boot without one is not modelled.
* **LogStore.** The history `age` says for how many LOCAL samples the oldest unflushed record
  of a file has been at risk, instead of a crash action that would lose it. A sample whose own
  append fails is a sample that passes without the checkpoint it may have been due: `excused`
  counts these, and they are all that the bound is raised by.
* **Receiver.** `air` of Beacon is the channel followed by the frame in the radio task's
  hands. The loop works at the top of an iteration and on a frame, each up to `MaxStall`; from
  this and the depth of the channel follows `PathDelay`, the `MaxDelay` Beacon assumes. The receive
  windows of the radio task are left to RadioManager.
* **PacketFormat, PacketCodec.** Frames are bytes, and the CRC is computed, since what it can tell apart is
  the subject. A frame arrives as it was sent, with a burst of inverted bits, cut or filled to
  another length, or from a sender that puts what it likes into a byte and computes the CRC.
* **NmeaLines, GpsFields, Calendar.** A character is its sentence and its place in the first, a
  digit or a sign in the second, and gone in the third: between them lies the splitting of a
  line at its commas, which is not modelled. The references they are checked against are a
  fraction (numerator and denominator) and a wall calendar torn off day by day.
* **Buttons.** One pass is not atomic: it stops at the button whose event finds the channel
  full. A contact may open or close between any two samples.
* **ButtonTones** has no clock: a timer may fire at any later moment, so what it shows does not
  depend on how long a note or a write to the card takes.
* **LinkSounds** has one, of 25 ms; the audio task's 5 ms and the notes are rounded up. A queue of two is the
  harder case than the code's four. Blocking calls hold up every task, up to `MaxHold` in a row.
  The history `rushed` notes a loss declared while sounds of the packet before it may go on. That
  needs a timeout shorter than the sounds, and only the part `full` has one.
* **Display.** `shown` is a text for every row of the TFT, changed only where the code draws: a
  row whose change the code misses keeps its old text.
* **Boot.** What Storage::init does is in BootSession; here it has the outcomes that main
  distinguishes. Only main's awaits let the audio and the GPS task run.

Definitions marked *Mutant* are faulty variants of the definition after them. No
specification uses them; each says which mistake a property is there to notice, and
`PROJECT.json` names that property.

## 3. Runs

Several runs check two or more components beside one another. They do not interact there: the
variable `part` of the MC module is chosen at the start and never changes, it says which
specification runs, and the variables of the others keep one initial value. The state space
is the sum of the parts, not their product. Where components do interact, a module composes
them (section 2).

Bounds are CONSTANTS of the modules and named there. Deadlock is checked in `config` and
`sounds`; the other models stop where their clock, their counters or their input reach a bound.

| Run | Part | Instance | Shows |
|---|---|---|---|
| `config` | | three names, five erases, u32 reduced to modulus 6 | RAM matches flash, and the store implements `DurableName`. Five erases use each slot more than twice, after any failures, and reach the worn state. |
| `beacon` | | 6 s in half seconds, three packets under way, two strays, tolerance 1, delay up to 1 s | no honest packet is suspected, the loss count is exact, the baseline was sent, or the first packet heard was a stray. The clock lasts longer than tolerance plus reboot window, so gaps, outages and repeats all meet a pending stray. |
| `beacon_faults` | | eight beats, three jumps by 2 or 6, two reboots | resynchronisation, the account that remains true under jumps, the end of a lockout. |
| `beacon_lockout` | | eighteen beats, one reboot | *violation*, finding 1 |
| `link` | | three frames of every kind, stalls 0 or 5, sample period 4, watchdog 1, timeout 7, 20 units of time (of 250 ms: watchdog and period are the code's) | loss and its log, how long noise can hold it, sampling without drift or burst. Stalls exceed a period, so deadlines are missed, in the GPS block and in a handler one after the other; three frames make a loss, a reacquisition and a second loss. |
| `link_noise` | | five frames of telemetry or with a failed CRC, stalls of 0 or 1, a channel of one | *violation*, finding 3 |
| `tasks` | radio | five commands, four frames, channels of 1, 2, 1 | order and number of completions, the mode, the stop, and that each request is answered. All channels are full at times. |
| | clock | 4 s in half seconds, RMC each second, a date before and one after the truth, times half a second wrong, lag and tolerance half a second | fix events, how far the anchor misses the truth, synchronisation after two true times. Two wrong times in a row, accepted or not, and a true one after them fit in. |
| `inputs` | path | 5 s in half seconds, work of 0, 0.5 or 1 s, a channel of one, tolerance 4, one stray | the path implements `Beacon`, whose delay bound is 4 s here: the channel is full, the radio task waits with a frame in hand, and both are behind an iteration of the longest work. With the code's depth of four and tolerance of five the same formula allows pieces of work of up to 500 ms. |
| | codec | both ends of every field and one step past them, bursts of up to 32 bits at every bit, seven lengths, sixteen values in each byte, two packets for the last three | decode after encode, only canonical frames accepted, the golden vector; no damaged frame decoded, only the expected sender and survey counted. A CRC of 32 bits promises bursts of up to 32; two fields never meet in a check, so one field at a time is varied. |
| | lines | lines of up to four characters, three sentences of 0, 2, 3 or 5, any character lost or garbled | a sentence that arrives whole after a line end is parsed whole, and no character twice. Three sentences hold an overflow, what is left of it, and a clean one. |
| | fields | texts of up to six characters of every shape, the limits of i16, u16 and u8, coordinates of up to fourteen digits about the poles, the date line and the sixtieth minute | decimals are cut, altitude and speed the nearest the field can hold, coordinates exact. Longer integers, which overflow u32, are not reached. |
| | calendar | each day of 1980-2079, four seconds of a day, and all days and months that no calendar has | the date is the second it names, and nothing else is a date. The whole range of the two-digit year. |
| `storage` | session | numbers 1-4, four boots, two failing calls, fifteen kinds of card | numbering, no stuck allocation, handles. The number space can be used up. |
| | logs | checkpoints of two samples, four samples, one failing LOCAL append, any other call may fail, a buffer of five bytes, lines of one and three | the bound on loss, durable urgent lines, no line dropped. A checkpoint can fail and the failing append can fall on either, and the next one is seen. |
| `boot_session_reuse` | session | a new card, four boots, no failing call | *violation*, finding 2 |
| `screen` | boot | two GPS states, every stage may fail | rows and DEBUG.LOG tell the outcome, the bus suits the device, the boot ends. Nothing is bounded. |
| | loop | seven seconds, six packets of five kinds, three GPS states, from where a boot without failures ends | the screen shows its state and the state is the loop's. Five kinds are a jump, a repeat, a step and a reboot. |
| `sounds` | two buttons | two samples to debounce, an event channel of one, a UI queue of one | events tell the debounced state; the speaker gives the newest press, UI sounds uncut, and comes to what the buttons ask for. |
| | three buttons | the same without UI sounds | the release of a third button, and the channel full in the middle of a pass. |
| | sounds | the code's times in ticks of 25 ms: 5 s to a loss, notes and gaps as written, calls that block up to 100 ms, a queue of two | the queue is never full for the loop, and a sound starts within the one before it. |
| | full | a loss after 0.2 s | with the queue full: the last sound tells the state of the link, and the loop is not stuck (deadlock). |
| | tone | 150 MHz, each frequency from 1 to 2300 Hz, three above, three drives | pitch and duty are those asked for. From 2289 Hz on the divider is one, and nothing new happens. |

Each module also has a `TypeOK`. It is not among the properties of the runs, which have deeper
ones to check, but holds in them (add it to a .cfg). It is proved for ConfigStore, Beacon,
Receiver, LinkMonitor, RadioManager and LogStore; the other inductive invariants of section 4 hold
the types they need.

### Findings

Three comments of the code say more than the code does. Each is a sequence of events the author
may want to know.

1. *"this cannot create a sticky lockout"* (`main.rs` 1107-1109). A transmitter that reboots and
   is first heard beyond the reboot window is ignored until its count passes the old baseline.
   `LockoutEndsAtBaseline` is what does hold. A stray frame heard first leads to the same state
   by a shorter way: its number is the baseline, and genuine packets behind it and outside the
   reboot window are ignored until their count passes it.
2. *A power loss "cannot cause a later boot to reuse an already allocated session number"*
   (`storage.rs` 1298-1301). Two losses can: one after the counter is flushed and before the
   directory is made, one while BOOT.NXT is truncated. `RecordedNumbersGrow` holds: no
   *recorded* session is touched.
3. *"Nothing below this point is allowed to affect GOLFER's valid RX count, link-alive timer,
   sequence state, telemetry log, or UI unless the application-level packet CRC and field decoder
   have both succeeded"* (`main.rs` 777-780). A frame whose CRC failed ends the wait like any
   other, and its `continue` (846) goes past the one branch that looks at the age of the link
   (1280). While there is one in each 250 ms, the screen shows a link and no LINK_LOST is
   written. `NoiseDelaysBounded` is what does hold: each costs one round of the loop, and none
   starts the timeout anew.

Three weaker remarks, without a run of their own:

* `RamMatchesFlash` needs reads that work. If only the read-back of a complete record fails,
  `set_name` answers with an error and rolls back the RAM name, and the next boot loads the
  new one (`system.rs` 228; with `ReadsReliable = FALSE` in `MCConfigStore.cfg` TLC shows it).
* The LINK LOST screen shows `last_sequence`, the trusted baseline (`main.rs` 1319), and the
  LINK_LOST event of the same moment `last_accepted_sequence` (1304). When the last packet before
  an outage was on probation, the two differ. No line says that they should not.
* A UTC garbled by less than the tolerance of 2 s is accepted (`main.rs` 581-592) and moves the
  anchor; there is no checksum to tell it by. The next true time is up to the tolerance and the
  lag away from it and may be rejected (593-618), and so may the ones after it, which are as far
  away; only a wrong time, or a different lag, brings the anchor back then. `AnchorIsTrue` bounds the error by the tolerance
  for each wrong time accepted in a row, which is what the check is worth.

### Fairness

Three modules have liveness.

* `RadioManager`, `EveryRequestAnswered`: `WF(Manager)`, since the Embassy executor polls a woken
  task and a receive window ends by its own symbol timeout; `WF(TakeFrame)` and `WF(TakeEvent)`:
  the application comes back to its channels. The receiver loop does so for frames. Nobody
  consumes completions today, and nobody submits transmissions either, so the last is an
  obligation for the code that will.
* `ButtonTones`, `SpeakerSettles`: `WF(ButtonStep)`, its timer comes again; `SF` of the audio task
  and of the task between. Both are woken by a channel or a signal, and the executor polls
  every woken task once before any of them a second time: a button pass that keeps coming
  cannot keep a woken task waiting. Nothing is assumed of contacts and UI sounds.
* `Boot`, in `BootEnds`: `WF(Main)` and `WF(AudioTask)`: the calls of a stage return.

## 4. Proofs

Each proof module shows `Init => IInv`, that every action keeps `IInv`, and from it the listed
properties, for every value of the constants that the named assumptions admit. What follows is
each inductive invariant, and why the properties need it.

**ConfigStoreProofs**, for reliable reads (`ReadsReliable = TRUE` is a hypothesis of each
theorem; section 3 says why it is needed), `ConfigAssumption` and
`EnduranceAssumption`: flash wears out before 2^32 generations. The properties are not
inductive: that the active slot holds the configuration does not follow from its holding it
before, without knowing that the *other* slot cannot win the comparison. `GenerationInv` bounds
generations by erases, so the wrapping successor is the successor; `RunningInv` says the target
slot is nothing, older, or the very record under verification; `StoppedInv` says two readable
slots differ in generation. Theorems: `TypeCorrect`, `RamMatchesFlashHolds`, `OldRetainedHolds`,
`GenerationNeverDecreasesHolds`, `Refinement` (ConfigStore implements DurableName).

**BeaconProofs**, from `BeaconAssumption` (no delay beyond the gap tolerance), `WildAssumption`
(stray numbers out of the beacon's reach and of the reboot window, no two successive) and
`TrackerAssumption`. A stray may come at any time, before the first packet too. Then it is the
baseline, no genuine packet has been accepted yet, and the first that is comes as a reset
(`StrayBaselineInv`, `GenuineOverStray`); from there on no stray becomes it. `IInv`
adds to the properties: the pace of the beacon (`ClockInv`), what is under way and in which
order (`AirInv`, `OrderInv`), and how the baseline relates to when it was sent and received
(`BaselineInv`, `StartInv`). They are needed because a gap is judged by *receive* times, and a
number by the pace of *sending*: the proof is that the two differ by at most the tolerance.
Theorems: `TypeCorrect`, `HonestBeaconNeverSuspectedHolds`, `MissedIsExactHolds`,
`BaselineWasSentHolds`.

**BeaconFaultsProofs**, from the assumptions of BeaconFaults. The properties speak of the newest
number heard, which the code does not keep: `HeardInv` says where it is now (the baseline, the
candidate, or ignored for lying behind), and `LockoutInv` that numbers ignored in a row have
climbed, each above the one before it, from the reboot window. `BaselineInv` keeps a candidate ahead of the baseline.
Theorems: `TwoInARowResyncHolds`, `JumpAccountingHolds`, `LockoutEndsAtBaselineHolds`.

**ReceiverProofs**, of packets: `Refinement`, Receiver implements Beacon, from `ReceiverAssumption`. The order
of packets is that of the concatenated queues; the difficulty is Beacon's guard that no
packet is older than `MaxDelay`. `ChannelInv` and `HandInv` are an account for each packet: the
instant at which the loop can take a frame, plus two pieces of work for each one before it, is
within `PathDelay` of when it was sent. `HandInv` also says that a frame in hand before a
channel with room gets there before the clock advances. So the exact loss count of Beacon holds
of the path through radio task, channel and loop: what `BeaconProofs` shows is about every
specification that implements Beacon.

Of characters, from `NmeaAssumption`: `Whole` says that while nothing was lost the line holds what
has arrived of the sentence, `InOrder` that what was parsed came before what is in the line and
this before what is sent; so two lines never share a character, whatever is lost and however
often the line overflows. Theorem: `SentencesComeTogether`.

Of dates, from `CalendarAssumption` (the calendar ends at the last plausible year at the latest):
`CalInv` says that the days torn off are the sums over years and months, in closed form. The sums
of the code are recursive functions. That they come to the closed form is shown by induction over
the *set* of the numbers for which it holds, which the prover accepts since no operator is a
parameter (`Induction`, from the well-foundedness of `<`); that they exist at all, by the closed
form as their witness. Theorem: `DatesHoldAlways`, for every span of years that a two-digit year
can name and every second of a day.

**LinkMonitorProofs**, from the assumptions of LinkMonitor and SequenceTracker. `NoticeInv` says,
at the top of the loop, after its GPS block and in its wait, how old a loss can be that is not on
the screen yet, counted from the last frame; `SilenceIsNoticed` is what remains of it between
iterations. `NoiseInv` says the same counted from the last *accepted* frame and the number of
others since. `GridInv` keeps the deadlines on their grid through any stall, `WaitInv` bounds the
wait by the next one, `RecordInv` dates the newest record against the newest packet, `EventInv`
ties the screen to the log. Theorems: `TypeCorrect`, `LogMatchesScreenHolds`,
`SilenceIsNoticedHolds`, `NoiseDelaysBoundedHolds`, `SamplesKeepTimeHolds`.

**StorageProofs**, `LogStore` from its assumption: `AgeInv` says of each file that its oldest record
at risk is no older than the records since the last checkpoint, plus what failing appends
excuse; the bound of `LossIsBounded` is its largest value. For DEBUG.LOG the property suffices,
by lemmas on each step of `diag`. Theorems: `LogTypes`, `LossIsBoundedHolds`,
`DebugLogIsKeptHolds`. `BootSession` from `SessionAssumption`: `NumberInv`
puts every recorded session below the counter, if there is one, and below the number under
allocation at every step; where there is no counter, the scan for the highest directory gives the
same. `HandleInv` lists the handles at every step, with the one file that may be missing, and
`CleanInv` what a boot without failures cannot have met. Theorems: `RecordedNumbersGrowHolds`,
`CleanBootRecordsHolds`, `HandlesMatchModeHolds`.

**TaskProofs**, `RadioManager` from its assumption: `RequestInv` says which requests are in the
queue, in hand and answered; `ModeInv` which command decides the mode next, since a transmission
resumes reception only if the newest command asks for it; `WindowInv` that a window opens with an
empty queue, so that a stop comes after it. Theorems: `TypesHold`, `CompletionsInOrder`,
`NewestCommandDecides`, `StopIsHonoured`. `GpsClock` from `GpsAssumption`, which bounds the
lag of the loop and nothing else: what the loop has not seen was parsed at most the lag ago
(`ReportInv`, `SignalInv`), so a true time pair is no further than that from the truth, and after
it the next true one passes the check, being an RMC interval later (`FollowsBy`). `PairInv` says of
the accepted pair that it is as far from the truth as the number of wrong ones accepted since a
true one allows (`Near`, `Slack`), and of the candidate that it is true if the newest report was;
the anchor is the accepted pair (`AnchorInv`). `FixInv` ties EVENT.LOG to the newest state the
loop took. Theorems:
`FixEventsMatchStateHolds`, `AnchorIsTrueHolds`, `TrueTimeIsBelievedHolds`.

**OutputProofs**, what is heard. `ButtonTones` (its assumptions are those of Buttons and Audio):
`EventsInv` says of every button that the first of its events under way differs from what is
known, each from the one before it, and the last is its debounced state, so none can be
lost or doubled; `ToneInv` and `PlayInv` say who owns the tone asked for last and what the speaker
has between and within UI sounds. Theorems: `EventsTell`, `SpeakerTells`, for any number of
buttons. `LinkSounds`: `ToldInv` is about the order of what is wanted, and needs no assumption;
`TimeInv` is an account of the time until the audio task is free (`Free`) against the age of the
link, in three cases for an empty queue, one sound and a loss followed by a return; from
`LinkSoundsAssumption`: the chime is not longer than the other two sounds. Theorems:
`SoundsTell`, `SoundsInTime`; and `LoopIsNeverHeld`, which needs no history: with a timeout longer
than the sounds, as with 5 s, the loop never waits for the queue. `ToneConfig` from
`ToneConfigAssumption` (no note above a thousandth of the clock, where the counter has less
than a thousand steps): `SliceInv` says the divider is the first that makes the period fit;
the rest is division with remainder, twice. Theorem: `ToneTrue`.

What is seen. `LinkScreen` from `ScreenAssumption`: `RowsInv` says that the state of the radio page
is the function of the loop's variables that `connected` and `lost` compute, and that every row drawn is
the text of its state. Theorem: `ScreenTells`. `Boot`, without an assumption: `BootInv` gives for each
stage the bus, the rows and the outcome of the radio, `LogInv` the text of DEBUG.LOG. Theorems:
`BootReported`, and the action property `BusSuits`.

Where a theorem is about an instance (`Beacon`, `NmeaLines` and `Calendar` in ReceiverProofs,
`GpsClock` in TaskProofs, `BootSession` in StorageProofs, all of Screens and the instances of
Sounds in OutputProofs), the assumption on its constants is a definition and a
hypothesis of the theorem; the MC module of the run assumes it, so that TLC evaluates it there.

What the proofs have taught about the models: nothing has to be assumed of wrong times, neither
that they are far from the truth nor that they are few, once the error of the anchor is counted by
how many of them were accepted.
That the loop does not wait for its sounds holds because no loss follows a packet within the
length of the sounds: with a timeout of less it does wait, which `rushed` and the part `full` say.
`ToneIsTrue` is not true of every frequency, only up to a thousandth of the clock. And a calendar
that runs past the last plausible year would not be read by the code, hence the last conjunct of
`CalendarAssumption`.

Only model-checked, and why:

* Liveness (`EveryRequestAnswered`, `SpeakerSettles`, `BootEnds`): out of reach of the prover.
* `FormatIsShared` and `OnlyTruePacketsCount`: what a CRC can tell apart is a fact about its
  polynomial and the bursts tried, not about every frame, and the ranges of the fields are numbers
  of 32 bits, which the provers cannot compute with.
* `NumbersAreTrue`: the parsers fold over the digits of a text; an induction over the digits would
  have to be carried through each of them. The texts of the run reach every shape and every limit.

## 5. Not modelled, and why

* Splitting an NMEA line at its commas, and checking the identifier and the number of its
  fields: a straight line of matches. There is no checksum test in the code to model.
* GPS fields that are only logged (speed, course, HDOP): merged like the others.
* Fonts, positions, pixels and the constructor of the TFT driver. `draw_boot` has no caller.
* `Drop for Storage`: main never returns, so it is never run. A boot without a survey: main
  never asks for one.
* META.TXT's text, the texts of records, and a record that is half appended: an append is all
  or nothing here, and no program that reads the files is part of the repository.
* The 24-bit wrap of the sequence, after 194 days: to the tracker a reboot like that of
  `BeaconFaults`; numbers are natural here. The u32 counters would saturate after 136 years.
* The panics of constructors, and the drivers of the SX1262, the card and the TFT, which are
  outcomes of the calls.
* `sd.rs` is not compiled; `apps/golfer-cli` and `crates/golfer-protocol` are stubs.

## 6. What is left

All components but the stubs are modelled, and 34 of the 40 properties that the runs check and
find to hold are theorems. What could be proved next, in this order:

1. `GpsFields`: that `FoldLeft` over digits is the number they write, by induction over the length
   as in the sums of `Calendar`; then that rounding is to the nearest, which is arithmetic.
2. `PacketFormat`: decode after encode for fields of any values, leaving the CRC as an uninterpreted function.
