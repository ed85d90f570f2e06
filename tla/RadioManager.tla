---------------------------- MODULE RadioManager ----------------------------
(***************************************************************************)
(* The radio-owner task of radio.rs and its three bounded channels.  The   *)
(* application submits commands and takes frames and completions; nothing  *)
(* in the firmware does the first and the last yet, so these clients are   *)
(* external: any task may submit, some task takes completions.             *)
(*                                                                         *)
(* A frame is only counted, a payload is a token: the position of its      *)
(* request among all requests.                                             *)
(***************************************************************************)
EXTENDS Integers, Sequences

CONSTANTS
  RX_CHANNEL_DEPTH, COMMAND_CHANNEL_DEPTH, TX_EVENT_CHANNEL_DEPTH,  \* 4 each
  MaxCommands,  \* bound: commands submitted
  MaxFrames     \* bound: frames received

ASSUME RadioAssumption ==
  /\ {RX_CHANNEL_DEPTH, COMMAND_CHANNEL_DEPTH, TX_EVENT_CHANNEL_DEPTH} \subseteq Nat \ {0}
  /\ {MaxCommands, MaxFrames} \subseteq Nat

VARIABLES
  rx_enabled,
  pc,           \* where the task is: see Places
  request,      \* the transmission in hand
  commands,     \* COMMAND_CHANNEL
  rx_channel,   \* frames waiting in RX_CHANNEL
  tx_events,    \* TX_EVENT_CHANNEL
  submitted,    \* commands so far
  received,     \* frames so far
  requested,    \* history: transmissions submitted
  reported,     \* history: completions the application has taken, in order
  last_mode,    \* history: whether the newest command leaves the receiver on
  after_stop    \* history: frames delivered since it said off

manager == <<rx_enabled, pc, request>>
channels == <<commands, rx_channel, tx_events>>
counts == <<submitted, received>>
history == <<requested, reported, last_mode, after_stop>>
vars == <<manager, channels, counts, history>>

(* "drain" commands; "standby" until one comes; receive "window"; "deliver" a
   frame; "transmit"; "notify" of the completion. *)
Places == {"drain", "standby", "window", "deliver", "transmit", "notify"}

SetReceiveEnabled == [op : {"receive"}, token : {0}, on : BOOLEAN]
Transmit == [op : {"transmit"}, token : Nat, on : BOOLEAN]
TxEvent == [token : Nat, success : BOOLEAN]
NoRequest == [token |-> 0, resume_receive |-> FALSE, success |-> FALSE]

Init ==
  /\ rx_enabled = TRUE /\ pc = "drain" /\ request = NoRequest
  /\ commands = <<>> /\ rx_channel = 0 /\ tx_events = <<>>
  /\ submitted = 0 /\ received = 0
  /\ requested = 0 /\ reported = <<>> /\ last_mode = TRUE /\ after_stop = 0

-----------------------------------------------------------------------------
(* The application.                                                         *)

Submit(command) ==
  /\ submitted < MaxCommands
  /\ Len(commands) < COMMAND_CHANNEL_DEPTH
  /\ commands' = Append(commands, command)
  /\ submitted' = submitted + 1
  /\ last_mode' = command.on
  /\ after_stop' = 0

set_receive_enabled ==
  /\ \E on \in BOOLEAN : Submit([op |-> "receive", token |-> 0, on |-> on])
  /\ UNCHANGED <<manager, rx_channel, tx_events, received, requested, reported>>

transmit ==
  /\ \E resume \in BOOLEAN :
       Submit([op |-> "transmit", token |-> requested + 1, on |-> resume])
  /\ requested' = requested + 1
  /\ UNCHANGED <<manager, rx_channel, tx_events, received, reported>>

TakeFrame ==
  /\ rx_channel > 0
  /\ rx_channel' = rx_channel - 1
  /\ UNCHANGED <<manager, commands, tx_events, counts, history>>

TakeEvent ==
  /\ tx_events # <<>>
  /\ reported' = Append(reported, Head(tx_events).token)
  /\ tx_events' = Tail(tx_events)
  /\ UNCHANGED <<manager, commands, rx_channel, counts, requested, last_mode, after_stop>>

-----------------------------------------------------------------------------
(* The task.  Every command is drained before the next receive window; in    *)
(* standby the task blocks until there is one.                               *)

(* Mutant: a task in standby does not listen. *)
TakeCommandNotStandby ==
  /\ pc = "drain"
  /\ commands # <<>>
  /\ commands' = Tail(commands)
  /\ UNCHANGED <<rx_channel, tx_events, counts, history>>

TakeCommand ==
  /\ pc \in {"drain", "standby"}
  /\ commands # <<>>
  /\ commands' = Tail(commands)
  /\ UNCHANGED <<rx_channel, tx_events, counts, history>>

HandleSetReceive ==
  /\ TakeCommand
  /\ Head(commands).op = "receive"
  /\ rx_enabled' = Head(commands).on
  /\ pc' = "drain"
  /\ UNCHANGED request

StartTransmit ==
  /\ TakeCommand
  /\ Head(commands).op = "transmit"
  /\ request' = [token |-> Head(commands).token, resume_receive |-> Head(commands).on,
                 success |-> FALSE]
  /\ pc' = "transmit"
  /\ UNCHANGED rx_enabled

(* Mutant: a failure is logged but not reported. *)
FinishTransmitSilent ==
  /\ pc = "transmit"
  /\ \E success \in BOOLEAN :
       /\ request' = [request EXCEPT !.success = success]
       /\ pc' = IF success THEN "notify" ELSE "drain"
  /\ UNCHANGED <<rx_enabled, channels, counts, history>>

(* prepare_for_tx or tx may fail; the completion tells. *)
FinishTransmit ==
  /\ pc = "transmit"
  /\ \E success \in BOOLEAN : request' = [request EXCEPT !.success = success]
  /\ pc' = "notify"
  /\ UNCHANGED <<rx_enabled, channels, counts, history>>

(* Mutant: the mode is restored only after a success. *)
NotifyRestoresOnSuccess ==
  /\ pc = "notify"
  /\ Len(tx_events) < TX_EVENT_CHANNEL_DEPTH
  /\ tx_events' = Append(tx_events, [token |-> request.token, success |-> request.success])
  /\ rx_enabled' = IF request.success THEN request.resume_receive ELSE rx_enabled
  /\ request' = NoRequest
  /\ pc' = "drain"
  /\ UNCHANGED <<commands, rx_channel, counts, history>>

(* The task waits here while TX_EVENT_CHANNEL is full. *)
Notify ==
  /\ pc = "notify"
  /\ Len(tx_events) < TX_EVENT_CHANNEL_DEPTH
  /\ tx_events' = Append(tx_events, [token |-> request.token, success |-> request.success])
  /\ rx_enabled' = request.resume_receive
  /\ request' = NoRequest
  /\ pc' = "drain"
  /\ UNCHANGED <<commands, rx_channel, counts, history>>

Standby ==
  /\ pc = "drain" /\ commands = <<>> /\ ~rx_enabled
  /\ pc' = "standby"
  /\ UNCHANGED <<rx_enabled, request, channels, counts, history>>

(* Mutant: a command at a time, then a window. *)
OpenWindowEarly ==
  /\ pc = "drain" /\ rx_enabled
  /\ pc' = "window"
  /\ UNCHANGED <<rx_enabled, request, channels, counts, history>>

OpenWindow ==
  /\ pc = "drain" /\ commands = <<>> /\ rx_enabled
  /\ pc' = "window"
  /\ UNCHANGED <<rx_enabled, request, channels, counts, history>>

(* A failed preparation, the symbol timeout and a receive error end alike. *)
WindowEndsEmpty ==
  /\ pc = "window"
  /\ pc' = "drain"
  /\ UNCHANGED <<rx_enabled, request, channels, counts, history>>

WindowReceives ==
  /\ pc = "window"
  /\ received < MaxFrames
  /\ received' = received + 1
  /\ pc' = "deliver"
  /\ UNCHANGED <<rx_enabled, request, channels, submitted, history>>

(* The task waits here while RX_CHANNEL is full. *)
Deliver ==
  /\ pc = "deliver"
  /\ rx_channel < RX_CHANNEL_DEPTH
  /\ rx_channel' = rx_channel + 1
  /\ after_stop' = IF last_mode THEN 0 ELSE after_stop + 1
  /\ pc' = "drain"
  /\ UNCHANGED <<rx_enabled, request, commands, tx_events, counts, requested, reported, last_mode>>

Window == WindowEndsEmpty \/ WindowReceives

Manager ==
  \/ HandleSetReceive
  \/ StartTransmit
  \/ FinishTransmit
  \/ Notify
  \/ Standby
  \/ OpenWindow
  \/ Window
  \/ Deliver

Next ==
  \/ set_receive_enabled
  \/ transmit
  \/ TakeFrame
  \/ TakeEvent
  \/ Manager

(* The executor runs the task whenever it can go on, a window ends by its own
   symbol timeout, and the application comes back to its channels. *)
Fairness == WF_vars(Manager) /\ WF_vars(TakeFrame) /\ WF_vars(TakeEvent)

Spec == Init /\ [][Next]_vars /\ Fairness

-----------------------------------------------------------------------------
(* Types, with the depths the three channels never exceed (radio.rs 47-49). *)
TypeOK ==
  /\ rx_enabled \in BOOLEAN /\ pc \in Places
  /\ request \in [token : Nat, resume_receive : BOOLEAN, success : BOOLEAN]
  /\ commands \in Seq(SetReceiveEnabled \cup Transmit)
  /\ Len(commands) <= COMMAND_CHANNEL_DEPTH
  /\ rx_channel \in 0 .. RX_CHANNEL_DEPTH
  /\ tx_events \in Seq(TxEvent) /\ Len(tx_events) <= TX_EVENT_CHANNEL_DEPTH
  /\ submitted \in 0 .. MaxCommands /\ received \in 0 .. MaxFrames
  /\ requested \in Nat /\ reported \in Seq(Nat)
  /\ last_mode \in BOOLEAN /\ after_stop \in Nat

(* Completions come one for each request and in the order of the requests,
   whether the transmissions succeed or fail (radio.rs 343-399). *)
EventsMatchRequests ==
  /\ Len(reported) + Len(tx_events) <= requested
  /\ \A i \in 1 .. Len(reported) : reported[i] = i
  /\ \A i \in 1 .. Len(tx_events) : tx_events[i].token = Len(reported) + i

(* With nothing left to do the receiver is in the mode the newest command asked
   for, also when that was a transmission that failed (radio.rs 343-399). *)
ModeFollowsNewestCommand ==
  commands = <<>> /\ pc \in {"drain", "standby", "window"} => rx_enabled = last_mode

(* "A disable request is honored at the next cancellation-safe RX boundary; it
   never aborts an in-flight RX future" (radio.rs 139-140): only the frame of
   the window then open may still arrive, whatever else is queued before it. *)
StopHonouredAtBoundary == after_stop <= 1

(* No transmission waits for ever on an idle or a busy receiver (radio.rs 30-44):
   each request is answered in the end. *)
EveryRequestAnswered ==
  \A k \in 1 .. MaxCommands : requested >= k ~> Len(reported) >= k
=============================================================================
