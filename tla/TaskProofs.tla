----------------------------- MODULE TaskProofs -----------------------------
(***************************************************************************)
(* Proofs about the two tasks that feed the receiver loop.                 *)
(*                                                                         *)
(* RadioManager, for channels of every depth and any number of commands    *)
(* and frames.  The inductive invariant has three parts: which request     *)
(* each token under way belongs to, whose word on the mode counts next,    *)
(* and that a window is only open in a mode nobody has revoked before it   *)
(* was opened.                                                             *)
(*                                                                         *)
(* GpsClock, for every tolerance, lag below the RMC interval and set of    *)
(* provisional dates.  The argument: what the loop has not seen was true   *)
(* when it was parsed, at most the lag ago, or is provisional; of two      *)
(* such reports only two true ones progress like the clock, and those      *)
(* always do.                                                              *)
(***************************************************************************)
EXTENDS Tasks, SequenceTheorems, TLAPS

-----------------------------------------------------------------------------
(* RadioManager: the inductive invariant and its parts.                      *)

(* The task has a transmission in hand. *)
Busy == pc \in {"transmit", "notify"}

(* Requests the task has taken from the queue. *)
Begun == Len(reported) + Len(tx_events) + IF Busy THEN 1 ELSE 0

IsTransmit(command) == command.op = "transmit"

(* The queue holds exactly the requests not begun, in their order; a request in
   hand is the last one begun. *)
RequestInv ==
  /\ Begun <= requested
  /\ Busy => request.token = Begun
  /\ \A i \in 1 .. Len(commands) : IsTransmit(commands[i]) =>
       commands[i].token \in Begun + 1 .. requested
  /\ \A i, j \in 1 .. Len(commands) :
       i < j /\ IsTransmit(commands[i]) /\ IsTransmit(commands[j]) =>
         commands[i].token < commands[j].token
  /\ \A k \in Begun + 1 .. requested : \E i \in 1 .. Len(commands) :
       IsTransmit(commands[i]) /\ commands[i].token = k

(* The newest command is the last in the queue, or the transmission in hand, or
   the one that has set the mode. *)
ModeInv ==
  last_mode = IF commands # <<>> THEN commands[Len(commands)].on
              ELSE IF Busy THEN request.resume_receive
              ELSE rx_enabled

(* A window is opened with nothing in the queue, so a stop comes after it. *)
WindowInv ==
  /\ after_stop > 0 => ~last_mode
  /\ pc \in {"window", "deliver"} => after_stop = 0

IInv ==
  /\ TypeOK
  /\ RequestInv
  /\ EventsMatchRequests
  /\ ModeInv
  /\ WindowInv
  /\ StopHonouredAtBoundary

Commands == SetReceiveEnabled \cup Transmit

-----------------------------------------------------------------------------
(* The first transmission in the queue is the next request. *)
LEMMA HeadIsNextRequest ==
  ASSUME TypeOK, RequestInv, commands # <<>>, IsTransmit(Head(commands))
  PROVE  Head(commands).token = Begun + 1
<1>1. /\ Len(commands) \in Nat /\ Len(commands) >= 1
      /\ Head(commands) = commands[1]
      /\ requested \in Nat /\ Begun \in Nat
  BY DEF TypeOK, Begun
<1>2. \A i \in 1 .. Len(commands) : commands[i].op = "transmit" => commands[i].token \in Nat
  BY <1>1 DEF TypeOK, SetReceiveEnabled, Transmit
<1>3. commands[1].token \in Begun + 1 .. requested
  BY <1>1 DEF RequestInv
<1>4. PICK i \in 1 .. Len(commands) : IsTransmit(commands[i]) /\ commands[i].token = Begun + 1
  BY <1>1, <1>3 DEF RequestInv
<1>5. ~(1 < i)
  BY <1>1, <1>3, <1>4 DEF RequestInv
<1>6. QED
  BY <1>1, <1>4, <1>5

-----------------------------------------------------------------------------
(* Everything starts empty, with the receiver on. *)
LEMMA InitHolds == Init => IInv
  BY RadioAssumption
  DEF Init, IInv, TypeOK, RequestInv, EventsMatchRequests, ModeInv, WindowInv,
      StopHonouredAtBoundary, Begun, Busy, Places, NoRequest, TxEvent

(* A command joins the queue: its mode is the newest, and a transmission the
   newest request. *)
LEMMA SubmitStep ==
  ASSUME IInv, set_receive_enabled \/ transmit
  PROVE  IInv'
<1> USE DEF IInv
<1>1. PICK command \in Commands :
        /\ Submit(command)
        /\ \/ ~IsTransmit(command) /\ UNCHANGED requested
           \/ /\ IsTransmit(command) /\ command.token = requested + 1
              /\ requested' = requested + 1
        /\ UNCHANGED <<manager, rx_channel, tx_events, received, reported>>
  <2>1. CASE set_receive_enabled
    <3>1. PICK on \in BOOLEAN : Submit([op |-> "receive", token |-> 0, on |-> on])
      BY <2>1 DEF set_receive_enabled
    <3>2. [op |-> "receive", token |-> 0, on |-> on] \in Commands
      BY DEF Commands, SetReceiveEnabled
    <3>3. QED
      BY <2>1, <3>1, <3>2 DEF set_receive_enabled, IsTransmit
  <2>2. CASE transmit
    <3>1. PICK resume \in BOOLEAN :
            Submit([op |-> "transmit", token |-> requested + 1, on |-> resume])
      BY <2>2 DEF transmit
    <3>2. [op |-> "transmit", token |-> requested + 1, on |-> resume] \in Commands
      BY DEF Commands, Transmit, TypeOK
    <3>3. QED
      BY <2>2, <3>1, <3>2 DEF transmit, IsTransmit
  <2>3. QED
    BY <2>1, <2>2
<1>2. /\ commands \in Seq(Commands) /\ commands' = Append(commands, command)
      /\ Len(commands) < COMMAND_CHANNEL_DEPTH
      /\ submitted < MaxCommands /\ submitted' = submitted + 1
      /\ last_mode' = command.on /\ after_stop' = 0
  BY <1>1 DEF Submit, TypeOK, Commands
<1>3. /\ commands' \in Seq(Commands) /\ commands' # <<>>
      /\ Len(commands') = Len(commands) + 1 /\ Len(commands) \in Nat
      /\ \A i \in 1 .. Len(commands) : commands'[i] = commands[i]
      /\ commands'[Len(commands) + 1] = command
  BY <1>2, AppendProperties
<1>4. TypeOK'
  <2>1. command.on \in BOOLEAN
    BY DEF Commands, SetReceiveEnabled, Transmit
  <2>2. QED
    BY <1>1, <1>2, <1>3, <2>1, RadioAssumption DEF TypeOK, manager, Commands
<1>5. Begun' = Begun /\ Busy' = Busy /\ Begun \in Nat /\ requested \in Nat
  BY <1>1 DEF Begun, Busy, manager, TypeOK
<1>6. RequestInv'
  <2>1. requested <= requested' /\ requested' \in Nat
    BY <1>1, <1>5
  <2>2. (Begun <= requested)' /\ (Busy => request.token = Begun)'
    BY <1>1, <1>5, <2>1 DEF RequestInv, manager
  <2>3. \A i \in 1 .. Len(commands') : IsTransmit(commands'[i]) =>
          commands'[i].token \in Begun + 1 .. requested'
    BY <1>1, <1>3, <1>5, <2>1 DEF RequestInv
  <2>4. \A i, j \in 1 .. Len(commands') :
          i < j /\ IsTransmit(commands'[i]) /\ IsTransmit(commands'[j]) =>
            commands'[i].token < commands'[j].token
    <3> TAKE i, j \in 1 .. Len(commands')
    <3> HAVE i < j /\ IsTransmit(commands'[i]) /\ IsTransmit(commands'[j])
    <3>1. i \in 1 .. Len(commands) /\ commands'[i] = commands[i]
      BY <1>3
    <3>2. CASE j \in 1 .. Len(commands)
      BY <1>3, <3>1, <3>2 DEF RequestInv
    <3>3. CASE j = Len(commands) + 1
      <4>1. commands[i].token \in Begun + 1 .. requested
        BY <3>1 DEF RequestInv
      <4>2. commands'[j].token = requested + 1
        BY <1>1, <1>3, <3>3
      <4>3. QED
        BY <1>5, <3>1, <4>1, <4>2
    <3>4. QED
      BY <1>3, <3>2, <3>3
  <2>5. \A k \in Begun + 1 .. requested' : \E i \in 1 .. Len(commands') :
          IsTransmit(commands'[i]) /\ commands'[i].token = k
    <3> TAKE k \in Begun + 1 .. requested'
    <3>1. CASE k \in Begun + 1 .. requested
      BY <1>3, <3>1 DEF RequestInv
    <3>2. CASE k \notin Begun + 1 .. requested
      BY <1>1, <1>3, <1>5, <3>2
    <3>3. QED
      BY <3>1, <3>2
  <2>6. QED
    BY <1>5, <2>2, <2>3, <2>4, <2>5 DEF RequestInv, IsTransmit
<1>7. EventsMatchRequests'
  BY <1>1, <1>5 DEF EventsMatchRequests, TypeOK
<1>8. ModeInv' /\ WindowInv' /\ StopHonouredAtBoundary'
  BY <1>2, <1>3 DEF ModeInv, WindowInv, StopHonouredAtBoundary
<1>9. QED
  BY <1>4, <1>6, <1>7, <1>8

-----------------------------------------------------------------------------
(* A frame or a completion is taken out of its channel. *)
LEMMA TakeStep ==
  ASSUME IInv, TakeFrame \/ TakeEvent
  PROVE  IInv'
<1> USE DEF IInv
<1>1. CASE TakeFrame
  <2>1. TypeOK'
    BY <1>1, RadioAssumption DEF TakeFrame, TypeOK, manager, counts, history
  <2>2. /\ UNCHANGED <<pc, request, rx_enabled, commands, tx_events>>
        /\ UNCHANGED <<requested, reported, last_mode, after_stop>>
    BY <1>1 DEF TakeFrame, manager, history
  <2>3. QED
    BY <2>1, <2>2
    DEF RequestInv, EventsMatchRequests, ModeInv, WindowInv, StopHonouredAtBoundary, Begun, Busy
<1>2. CASE TakeEvent
  <2>1. /\ tx_events \in Seq(TxEvent) /\ tx_events # <<>> /\ tx_events' = Tail(tx_events)
        /\ reported \in Seq(Nat) /\ reported' = Append(reported, tx_events[1].token)
        /\ UNCHANGED <<pc, request, rx_enabled, commands, rx_channel, submitted, received>>
        /\ UNCHANGED <<requested, last_mode, after_stop>>
    BY <1>2 DEF TakeEvent, TypeOK, manager, counts
  <2>2. /\ tx_events' \in Seq(TxEvent) /\ Len(tx_events) \in Nat \ {0}
        /\ Len(tx_events') = Len(tx_events) - 1
        /\ \A i \in 1 .. Len(tx_events') : tx_events'[i] = tx_events[i + 1]
    BY <2>1, HeadTailProperties, LenProperties
  <2>3. tx_events[1].token = Len(reported) + 1 /\ Len(reported) \in Nat
    BY <2>1, <2>2 DEF EventsMatchRequests
  <2>4. /\ reported' \in Seq(Nat) /\ Len(reported') = Len(reported) + 1
        /\ \A i \in 1 .. Len(reported) : reported'[i] = reported[i]
        /\ reported'[Len(reported) + 1] = Len(reported) + 1
    BY <2>1, <2>3, AppendProperties
  <2>5. TypeOK'
    BY <2>1, <2>2, <2>4, RadioAssumption DEF TypeOK
  <2>6. Begun' = Begun /\ Busy' = Busy
    BY <2>1, <2>2, <2>4 DEF Begun, Busy
  <2>7. EventsMatchRequests'
    <3>1. \A i \in 1 .. Len(reported') : reported'[i] = i
      <4>1. \A i \in 1 .. Len(reported) : reported'[i] = i
        BY <2>4 DEF EventsMatchRequests
      <4>2. QED
        BY <2>3, <2>4, <4>1
    <3>2. \A i \in 1 .. Len(tx_events') : tx_events'[i].token = Len(reported') + i
      <4> TAKE i \in 1 .. Len(tx_events')
      <4>1. i + 1 \in 1 .. Len(tx_events) /\ tx_events'[i] = tx_events[i + 1]
        BY <2>2
      <4>2. tx_events[i + 1].token = Len(reported) + (i + 1)
        BY <4>1 DEF EventsMatchRequests
      <4>3. QED
        BY <2>3, <2>4, <4>1, <4>2
    <3>3. QED
      BY <2>1, <2>2, <2>4, <3>1, <3>2 DEF EventsMatchRequests
  <2>8. QED
    BY <2>1, <2>5, <2>6, <2>7
    DEF RequestInv, ModeInv, WindowInv, StopHonouredAtBoundary
<1>3. QED
  BY <1>1, <1>2

-----------------------------------------------------------------------------
(* The task takes the oldest command. *)
LEMMA CommandStep ==
  ASSUME IInv, HandleSetReceive \/ StartTransmit
  PROVE  IInv'
<1> USE DEF IInv
<1>1. /\ pc \in {"drain", "standby"} /\ commands # <<>> /\ commands' = Tail(commands)
      /\ UNCHANGED <<rx_channel, tx_events, submitted, received>>
      /\ UNCHANGED <<requested, reported, last_mode, after_stop>>
  BY DEF HandleSetReceive, StartTransmit, TakeCommand, counts, history
<1>2. /\ commands \in Seq(Commands) /\ commands' \in Seq(Commands)
      /\ Head(commands) = commands[1] /\ commands[1] \in Commands
      /\ Len(commands) \in Nat \ {0} /\ Len(commands') = Len(commands) - 1
      /\ \A i \in 1 .. Len(commands') : commands'[i] = commands[i + 1]
  <2>1. commands \in Seq(Commands)
    BY DEF TypeOK, Commands
  <2>2. QED
    BY <1>1, <2>1, HeadTailProperties, LenProperties, ElementOfSeq
<1>3. ~Busy /\ Begun = Len(reported) + Len(tx_events) /\ Begun \in Nat /\ requested \in Nat
  BY <1>1 DEF Busy, Begun, TypeOK
<1>4. \A i \in 1 .. Len(commands) : IsTransmit(commands[i]) => commands[i].token \in Nat
  BY <1>2, <1>3 DEF RequestInv
<1>5. WindowInv' /\ StopHonouredAtBoundary' /\ EventsMatchRequests'
  BY <1>1 DEF HandleSetReceive, StartTransmit, WindowInv, StopHonouredAtBoundary,
      EventsMatchRequests
<1>6. \A i, j \in 1 .. Len(commands') :
        i < j /\ IsTransmit(commands'[i]) /\ IsTransmit(commands'[j]) =>
          commands'[i].token < commands'[j].token
  <2> TAKE i, j \in 1 .. Len(commands')
  <2>1. /\ i + 1 \in 1 .. Len(commands) /\ commands'[i] = commands[i + 1]
        /\ j + 1 \in 1 .. Len(commands) /\ commands'[j] = commands[j + 1]
    BY <1>2
  <2>2. i < j => i + 1 < j + 1
    BY <1>2
  <2>3. QED
    BY <2>1, <2>2 DEF RequestInv
<1>7. ASSUME NEW mode, commands[1].on = mode
      PROVE  last_mode = IF commands' # <<>> THEN commands'[Len(commands')].on ELSE mode
  <2>1. last_mode = commands[Len(commands)].on
    BY <1>1 DEF ModeInv
  <2>2. commands' = <<>> <=> Len(commands) = 1
    BY <1>2, EmptySeq
  <2>3. CASE Len(commands) = 1
    BY <1>7, <2>1, <2>2, <2>3
  <2>4. CASE Len(commands) > 1
    <3>1. commands'[Len(commands')] = commands[Len(commands)]
      BY <1>2, <2>4
    <3>2. QED
      BY <2>1, <2>2, <2>4, <3>1
  <2>5. QED
    BY <1>2, <2>3, <2>4
<1>8. CASE HandleSetReceive
  <2>1. /\ pc' = "drain" /\ request' = request /\ rx_enabled' = commands[1].on
        /\ ~IsTransmit(commands[1]) /\ rx_enabled' \in BOOLEAN
    BY <1>2, <1>8 DEF HandleSetReceive, IsTransmit, Commands, SetReceiveEnabled, Transmit
  <2>2. TypeOK'
    BY <1>1, <1>2, <2>1, RadioAssumption DEF TypeOK, Commands, Places
  <2>3. Begun' = Begun /\ ~Busy'
    BY <1>1, <1>3, <2>1 DEF Begun, Busy
  <2>4. RequestInv'
    <3>1. \A k \in Begun + 1 .. requested : \E i \in 1 .. Len(commands') :
            IsTransmit(commands'[i]) /\ commands'[i].token = k
      <4> TAKE k \in Begun + 1 .. requested
      <4>1. PICK i \in 1 .. Len(commands) : IsTransmit(commands[i]) /\ commands[i].token = k
        BY DEF RequestInv
      <4>2. i # 1 /\ i - 1 \in 1 .. Len(commands') /\ commands'[i - 1] = commands[i]
        BY <1>2, <2>1, <4>1
      <4>3. QED
        BY <4>1, <4>2
    <3>2. \A i \in 1 .. Len(commands') : IsTransmit(commands'[i]) =>
            commands'[i].token \in Begun + 1 .. requested
      BY <1>2 DEF RequestInv
    <3>3. \A i, j \in 1 .. Len(commands') :
            i < j /\ IsTransmit(commands'[i]) /\ IsTransmit(commands'[j]) =>
              commands'[i].token < commands'[j].token
      BY <1>6
    <3>4. QED
      BY <1>1, <2>1, <2>3, <3>1, <3>2, <3>3 DEF RequestInv, IsTransmit
  <2>5. ModeInv'
    BY <1>1, <1>7, <2>1, <2>3 DEF ModeInv
  <2>6. QED
    BY <1>5, <2>2, <2>4, <2>5
<1>9. CASE StartTransmit
  <2>1. /\ pc' = "transmit" /\ rx_enabled' = rx_enabled
        /\ request' = [token |-> commands[1].token, resume_receive |-> commands[1].on,
                       success |-> FALSE]
        /\ IsTransmit(commands[1]) /\ commands[1].on \in BOOLEAN
    BY <1>2, <1>9 DEF StartTransmit, IsTransmit, Commands, SetReceiveEnabled, Transmit
  <2>2. commands[1].token = Begun + 1
    BY <1>1, <1>2, <2>1, HeadIsNextRequest
  <2>3. TypeOK'
    BY <1>1, <1>2, <1>3, <2>1, <2>2, RadioAssumption DEF TypeOK, Commands, Places
  <2>4. Begun' = Begun + 1 /\ Busy'
    BY <1>1, <1>3, <2>1 DEF Begun, Busy
  <2>5. RequestInv'
    <3>1. \A k \in Begun + 2 .. requested : \E i \in 1 .. Len(commands') :
            IsTransmit(commands'[i]) /\ commands'[i].token = k
      <4> TAKE k \in Begun + 2 .. requested
      <4>1. k \in Begun + 1 .. requested
        BY <1>3
      <4>2. PICK i \in 1 .. Len(commands) : IsTransmit(commands[i]) /\ commands[i].token = k
        BY <4>1 DEF RequestInv
      <4>3. i # 1 /\ i - 1 \in 1 .. Len(commands') /\ commands'[i - 1] = commands[i]
        BY <1>2, <1>3, <2>2, <4>2
      <4>4. QED
        BY <4>2, <4>3
    <3>2. \A i \in 1 .. Len(commands') : IsTransmit(commands'[i]) =>
            commands'[i].token \in Begun + 2 .. requested
      <4> TAKE i \in 1 .. Len(commands')
      <4> HAVE IsTransmit(commands'[i])
      <4>1. i + 1 \in 1 .. Len(commands) /\ commands'[i] = commands[i + 1] /\ 1 < i + 1
        BY <1>2
      <4>2. commands[i + 1].token \in Begun + 1 .. requested
        BY <4>1 DEF RequestInv
      <4>3. 1 \in 1 .. Len(commands) /\ IsTransmit(commands[i + 1])
        BY <1>2, <4>1
      <4>4. commands[1].token < commands[i + 1].token
        BY <2>1, <4>1, <4>3 DEF RequestInv
      <4>5. QED
        BY <1>3, <2>2, <4>1, <4>2, <4>4
    <3>3. \A i, j \in 1 .. Len(commands') :
            i < j /\ IsTransmit(commands'[i]) /\ IsTransmit(commands'[j]) =>
              commands'[i].token < commands'[j].token
      BY <1>6
    <3>4. Begun + 1 <= requested
      BY <1>2, <1>3, <2>1, <2>2 DEF RequestInv
    <3>5. request'.token = Begun'
      BY <2>1, <2>2, <2>4
    <3>6. QED
      BY <1>1, <1>3, <2>4, <3>1, <3>2, <3>3, <3>4, <3>5 DEF RequestInv, IsTransmit
  <2>6. ModeInv'
    BY <1>1, <1>7, <2>1, <2>4 DEF ModeInv
  <2>7. QED
    BY <1>5, <2>3, <2>5, <2>6
<1>10. QED
  BY <1>8, <1>9

-----------------------------------------------------------------------------
(* The transmission in hand fails or succeeds, and is reported. *)
LEMMA TransmitStep ==
  ASSUME IInv, FinishTransmit \/ Notify
  PROVE  IInv'
<1> USE DEF IInv
<1>1. CASE FinishTransmit
  <2>1. /\ pc = "transmit" /\ pc' = "notify"
        /\ \E success \in BOOLEAN : request' = [request EXCEPT !.success = success]
        /\ UNCHANGED <<rx_enabled, commands, rx_channel, tx_events, submitted, received>>
        /\ UNCHANGED <<requested, reported, last_mode, after_stop>>
    BY <1>1 DEF FinishTransmit, channels, counts, history
  <2>2. /\ request'.token = request.token /\ request'.resume_receive = request.resume_receive
        /\ request' \in [token : Nat, resume_receive : BOOLEAN, success : BOOLEAN]
    BY <2>1 DEF TypeOK
  <2>3. TypeOK'
    BY <2>1, <2>2 DEF TypeOK, Places
  <2>4. Begun' = Begun /\ Busy' /\ Busy
    BY <2>1 DEF Begun, Busy
  <2>5. RequestInv'
    BY <2>1, <2>2, <2>4 DEF RequestInv
  <2>6. ModeInv'
    BY <2>1, <2>2, <2>4 DEF ModeInv
  <2>7. QED
    BY <2>1, <2>3, <2>5, <2>6 DEF WindowInv, StopHonouredAtBoundary, EventsMatchRequests
<1>2. CASE Notify
  <2>1. /\ pc = "notify" /\ pc' = "drain" /\ Len(tx_events) < TX_EVENT_CHANNEL_DEPTH
        /\ tx_events' = Append(tx_events, [token |-> request.token, success |-> request.success])
        /\ rx_enabled' = request.resume_receive /\ request' = NoRequest
        /\ UNCHANGED <<commands, rx_channel, submitted, received>>
        /\ UNCHANGED <<requested, reported, last_mode, after_stop>>
    BY <1>2 DEF Notify, counts, history
  <2>2. Busy /\ ~Busy' /\ request.token = Begun /\ Begun = Len(reported) + Len(tx_events) + 1
    BY <2>1 DEF Busy, Begun, RequestInv
  <2>3. /\ tx_events \in Seq(TxEvent) /\ Len(tx_events) \in Nat /\ Len(reported) \in Nat
        /\ [token |-> request.token, success |-> request.success] \in TxEvent
    BY DEF TypeOK, TxEvent
  <2>4. /\ tx_events' \in Seq(TxEvent) /\ Len(tx_events') = Len(tx_events) + 1
        /\ \A i \in 1 .. Len(tx_events) : tx_events'[i] = tx_events[i]
        /\ tx_events'[Len(tx_events) + 1].token = request.token
    BY <2>1, <2>3, AppendProperties
  <2>5. TypeOK'
    BY <2>1, <2>3, <2>4, RadioAssumption DEF TypeOK, Places, NoRequest
  <2>6. Begun' = Begun
    BY <2>1, <2>2, <2>3, <2>4 DEF Begun
  <2>7. RequestInv'
    BY <2>1, <2>2, <2>6 DEF RequestInv
  <2>8. EventsMatchRequests'
    <3>1. \A i \in 1 .. Len(tx_events') : tx_events'[i].token = Len(reported) + i
      <4> TAKE i \in 1 .. Len(tx_events')
      <4>1. CASE i \in 1 .. Len(tx_events)
        BY <2>4, <4>1 DEF EventsMatchRequests
      <4>2. CASE i = Len(tx_events) + 1
        BY <2>2, <2>3, <2>4, <4>2
      <4>3. QED
        BY <2>3, <2>4, <4>1, <4>2
    <3>2. Len(reported) + Len(tx_events') <= requested
      BY <2>2, <2>3, <2>4 DEF RequestInv
    <3>3. QED
      BY <2>1, <3>1, <3>2 DEF EventsMatchRequests
  <2>9. ModeInv'
    BY <2>1, <2>2 DEF ModeInv
  <2>10. QED
    BY <2>1, <2>5, <2>7, <2>8, <2>9 DEF WindowInv, StopHonouredAtBoundary
<1>3. QED
  BY <1>1, <1>2

(* Standby, and what becomes of a window: when one is opened the queue is empty
   and the receiver on, so nobody has said stop since. *)
LEMMA WindowStep ==
  ASSUME IInv, Standby \/ OpenWindow \/ Window \/ Deliver
  PROVE  IInv'
<1> USE DEF IInv
<1>1. /\ ~Busy /\ ~Busy' /\ pc' \in Places
      /\ UNCHANGED <<rx_enabled, request, commands, tx_events, submitted>>
      /\ UNCHANGED <<requested, reported, last_mode>>
  BY DEF Standby, OpenWindow, Window, WindowEndsEmpty, WindowReceives, Deliver, Busy, Places,
     channels, counts, history
<1>2. Begun' = Begun
  BY <1>1 DEF Begun
<1>3. RequestInv' /\ EventsMatchRequests' /\ ModeInv'
  BY <1>1, <1>2 DEF RequestInv, EventsMatchRequests, ModeInv
<1>4. after_stop \in Nat /\ last_mode \in BOOLEAN
  BY DEF TypeOK
<1>5. CASE OpenWindow
  <2>1. last_mode = TRUE
    BY <1>1, <1>5 DEF OpenWindow, ModeInv
  <2>2. after_stop = 0
    BY <1>4, <2>1 DEF WindowInv
  <2>3. QED
    BY <1>1, <1>3, <1>5, <2>2
    DEF OpenWindow, channels, counts, history, TypeOK, WindowInv, StopHonouredAtBoundary
<1>6. CASE Standby \/ Window
  <2>1. TypeOK'
    BY <1>1, <1>6, RadioAssumption
    DEF Standby, Window, WindowEndsEmpty, WindowReceives, channels, counts, history, TypeOK
  <2>2. QED
    BY <1>3, <1>6, <2>1
    DEF Standby, Window, WindowEndsEmpty, WindowReceives, channels, counts, history,
        WindowInv, StopHonouredAtBoundary
<1>7. CASE Deliver
  <2>1. after_stop = 0
    BY <1>7 DEF Deliver, WindowInv
  <2>2. after_stop' \in {0, 1} /\ (after_stop' > 0 => ~last_mode)
    BY <1>4, <1>7, <2>1 DEF Deliver
  <2>3. TypeOK'
    BY <1>1, <1>7, <2>2, RadioAssumption DEF Deliver, counts, TypeOK
  <2>4. QED
    BY <1>1, <1>3, <1>7, <2>2, <2>3 DEF Deliver, WindowInv, StopHonouredAtBoundary
<1>8. QED
  BY <1>5, <1>6, <1>7

-----------------------------------------------------------------------------
(* The invariant is inductive. *)
LEMMA StepHolds == IInv /\ [Next]_vars => IInv'
<1> SUFFICES ASSUME IInv, [Next]_vars PROVE IInv'
  OBVIOUS
<1>1. CASE set_receive_enabled \/ transmit
  BY <1>1, SubmitStep
<1>2. CASE TakeFrame \/ TakeEvent
  BY <1>2, TakeStep
<1>3. CASE HandleSetReceive \/ StartTransmit
  BY <1>3, CommandStep
<1>4. CASE FinishTransmit \/ Notify
  BY <1>4, TransmitStep
<1>5. CASE Standby \/ OpenWindow \/ Window \/ Deliver
  BY <1>5, WindowStep
<1>6. CASE UNCHANGED vars
  BY <1>6
  DEF vars, manager, channels, counts, history, IInv, TypeOK, RequestInv, EventsMatchRequests,
      ModeInv, WindowInv, StopHonouredAtBoundary, Begun, Busy
<1>7. QED
  BY <1>1, <1>2, <1>3, <1>4, <1>5, <1>6 DEF Next, Manager

(* Every reachable state satisfies the inductive invariant. *)
THEOREM InductiveInvariant == Spec => []IInv
<1>1. Init => IInv
  BY InitHolds
<1>2. IInv /\ [Next]_vars => IInv'
  BY StepHolds
<1>3. QED
  BY <1>1, <1>2, PTL DEF Spec

(* Types, and channels that never hold more than their depth. *)
THEOREM TypesHold == Spec => []TypeOK
<1>1. IInv => TypeOK
  BY DEF IInv
<1>2. QED
  BY <1>1, InductiveInvariant, PTL

(* Completions come one for each request and in the order of the requests. *)
THEOREM CompletionsInOrder == Spec => []EventsMatchRequests
<1>1. IInv => EventsMatchRequests
  BY DEF IInv
<1>2. QED
  BY <1>1, InductiveInvariant, PTL

(* An idle receiver is in the mode the newest command asked for, also when that
   was a transmission that failed. *)
THEOREM NewestCommandDecides == Spec => []ModeFollowsNewestCommand
<1>1. IInv => ModeFollowsNewestCommand
  BY DEF IInv, ModeInv, Busy, ModeFollowsNewestCommand
<1>2. QED
  BY <1>1, InductiveInvariant, PTL

(* After a stop at most the frame of the window then open still arrives. *)
THEOREM StopIsHonoured == Spec => []StopHonouredAtBoundary
<1>1. IInv => StopHonouredAtBoundary
  BY DEF IInv
<1>2. QED
  BY <1>1, InductiveInvariant, PTL
-----------------------------------------------------------------------------
(* GpsClock: the inductive invariant and its parts.                          *)

(* How far a wrong time accepted n times in a row can lead; by how much a time pair
   misses the truth; a pair that is at most that far from it. *)
Slack(n) == GPS_UTC_PROGRESS_TOLERANCE_MS * n
ErrorOf(pair) == pair.utc - (Epoch + pair.mono)
Near(pair, n) == ErrorOf(pair) <= Slack(n) /\ ErrorOf(pair) >= -(MaxLag + Slack(n))

(* A time is parsed before it is reported, and the next one an RMC interval later. *)
ReportInv ==
  /\ gps.utc = Clock!None <=> gps.utc_at = Clock!None
  /\ gps.utc # Clock!None => gps.utc_at <= now /\ next_rmc_at >= gps.utc_at + RMC_INTERVAL

Unseen == gps.utc \notin {Clock!None, last_gps_utc_seen}

(* A waiting signal is the state of the task; what is not waiting has been seen;
   what has not been seen was parsed since the signal waits. *)
SignalInv ==
  /\ Clock!Waiting => signal = gps /\ signalled_at <= now /\ now <= signalled_at + MaxLag
  /\ ~Clock!Waiting => ~Unseen
  /\ Clock!Waiting /\ Unseen => gps.utc_at >= signalled_at

(* The next report is an RMC interval later than the true time of a pair. *)
FollowsBy(pair) ==
  /\ next_rmc_at >= pair.utc - Epoch + RMC_INTERVAL
  /\ Unseen => gps.utc_at >= pair.utc - Epoch + RMC_INTERVAL

(* The accepted pair is as far from the truth as its hops allow; after a true pair
   the next report can only be later. *)
PairInv ==
  /\ accepted_gps_utc # Clock!NoPair /\ hops # Clock!None => Near(accepted_gps_utc, hops)
  /\ accepted_gps_utc # Clock!NoPair /\ hops = 0 => FollowsBy(accepted_gps_utc)
  /\ accepted_gps_utc = Clock!NoPair /\ true_streak >= 1 =>
       pending_gps_utc # Clock!NoPair /\ Near(pending_gps_utc, 0) /\ FollowsBy(pending_gps_utc)

AnchorInv ==
  /\ utc_anchor = accepted_gps_utc
  /\ time_syncs = IF utc_anchor = Clock!NoPair THEN 0 ELSE 1

FixInv ==
  /\ gps.fix => gps.online
  /\ latest_gps_state.fix => latest_gps_state.online

GpsInv ==
  /\ Clock!TypeOK
  /\ ReportInv
  /\ SignalInv
  /\ PairInv
  /\ AnchorInv
  /\ FixInv
  /\ Clock!FixEventsMatchState
  /\ Clock!TrueTimeIsBelieved

-----------------------------------------------------------------------------
(* The assumption on the constants, part by part. *)
LEMMA GpsParameters ==
  ASSUME Clock!GpsAssumption
  PROVE  /\ GPS_UTC_PROGRESS_TOLERANCE_MS \in Nat /\ RMC_INTERVAL \in Nat /\ MaxLag \in Nat
         /\ Epoch \in Nat /\ MaxTime \in Nat /\ Step \in Nat
         /\ MaxLag < RMC_INTERVAL /\ MaxLag <= GPS_UTC_PROGRESS_TOLERANCE_MS
         /\ Provisional \subseteq Nat
         /\ \A e \in Errors : e \in Int /\ Epoch + e \in Nat
  BY DEF Clock!GpsAssumption

(* What is in a state of the GPS task, and in a time pair. *)
LEMMA StateTypes ==
  ASSUME NEW state \in Clock!States
  PROVE  /\ state.utc \in Nat \cup {-1} /\ state.utc_at \in Nat \cup {-1}
         /\ state.position \in Nat \cup {-1}
         /\ state.online \in BOOLEAN /\ state.fix \in BOOLEAN
  BY DEF Clock!States, Clock!None

(* A sentence with coordinates. *)
WithPosition(state, t) == [state EXCEPT !.online = TRUE, !.fix = TRUE, !.position = t]

LEMMA Positioned ==
  ASSUME NEW state \in Clock!States, NEW t \in Nat
  PROVE  /\ WithPosition(state, t) \in Clock!States
         /\ WithPosition(state, t).utc = state.utc
         /\ WithPosition(state, t).utc_at = state.utc_at
         /\ WithPosition(state, t).online /\ WithPosition(state, t).fix
         /\ WithPosition(state, t).position # Clock!None
<1>. PICK new : new = [state EXCEPT !.online = TRUE, !.fix = TRUE, !.position = t]
  OBVIOUS
<1>1. new = [online |-> TRUE, fix |-> TRUE, position |-> t,
             utc |-> state.utc, utc_at |-> state.utc_at]
  BY DEF Clock!States
<1>2. state.utc \in Nat \cup {Clock!None} /\ state.utc_at \in Nat \cup {Clock!None}
  BY DEF Clock!States
<1>3. t # Clock!None
  BY DEF Clock!None
<1>4. /\ new \in Clock!States /\ new.utc = state.utc /\ new.utc_at = state.utc_at
      /\ new.online /\ new.fix /\ new.position # Clock!None
  BY <1>1, <1>2, <1>3 DEF Clock!States
<1>5. new = WithPosition(state, t)
  BY DEF WithPosition
<1>6. QED
  BY <1>4, <1>5

(* A time pair the loop holds has both its times; one it makes is a pair. *)
LEMMA PairTypes ==
  ASSUME NEW pair \in Clock!Pairs, pair # Clock!NoPair
  PROVE  pair.mono \in Nat /\ pair.utc \in Nat
  BY DEF Clock!Pairs

LEMMA NewPair ==
  ASSUME NEW mono \in Nat, NEW utc \in Nat
  PROVE  /\ [mono |-> mono, utc |-> utc] \in Clock!Pairs
         /\ [mono |-> mono, utc |-> utc] # Clock!NoPair
  BY DEF Clock!Pairs, Clock!NoPair, Clock!None

(* What is a number. *)
LEMMA NumberTypes ==
  ASSUME Clock!GpsAssumption, Clock!TypeOK
  PROVE  /\ now \in Nat /\ now <= MaxTime /\ next_rmc_at \in Nat
         /\ signalled_at \in Nat \cup {-1} /\ last_gps_utc_seen \in Nat \cup {-1}
         /\ gps.utc \in Nat \cup {-1} /\ gps.utc_at \in Nat \cup {-1}
         /\ true_streak \in Nat /\ time_syncs \in Nat /\ hops \in Nat \cup {-1}
  BY GpsParameters, StateTypes DEF Clock!TypeOK, Clock!None

-----------------------------------------------------------------------------
(* One more wrong time adds the tolerance. *)
LEMMA SlackNext ==
  ASSUME Clock!GpsAssumption, NEW n \in Nat
  PROVE  Slack(n) \in Nat /\ Slack(0) = 0 /\ Slack(n + 1) = Slack(n) + GPS_UTC_PROGRESS_TOLERANCE_MS
<1>1. GPS_UTC_PROGRESS_TOLERANCE_MS \in Nat
  BY GpsParameters
<1>2. QED
  BY <1>1 DEF Slack

(* The check of the loop, in numbers. *)
LEMMA SaneNumbers ==
  ASSUME Clock!GpsAssumption, NEW pair, pair.mono \in Nat, pair.utc \in Nat,
         NEW mono \in Nat, NEW utc \in Nat
  PROVE  Clock!gps_utc_progression_is_sane(pair, mono, utc) <=>
           /\ mono > pair.mono /\ utc > pair.utc
           /\ (mono - pair.mono) - (utc - pair.utc) <= GPS_UTC_PROGRESS_TOLERANCE_MS
           /\ (utc - pair.utc) - (mono - pair.mono) <= GPS_UTC_PROGRESS_TOLERANCE_MS
<1> DEFINE d == (mono - pair.mono) - (utc - pair.utc)
<1>1. d \in Int /\ (utc - pair.utc) - (mono - pair.mono) = -d
  OBVIOUS
<1>2. Clock!gps_utc_progression_is_sane(pair, mono, utc) <=>
        mono > pair.mono /\ utc > pair.utc /\ Clock!Abs(d) <= GPS_UTC_PROGRESS_TOLERANCE_MS
  BY DEF Clock!gps_utc_progression_is_sane
<1> HIDE DEF d
<1>3. Clock!Abs(d) <= GPS_UTC_PROGRESS_TOLERANCE_MS <=>
        d <= GPS_UTC_PROGRESS_TOLERANCE_MS /\ -d <= GPS_UTC_PROGRESS_TOLERANCE_MS
  BY <1>1, GpsParameters DEF Clock!Abs
<1>4. QED
  BY <1>1, <1>2, <1>3 DEF d

(* A time that passes the check is at most the tolerance further from the truth. *)
LEMMA SaneIsNear ==
  ASSUME Clock!GpsAssumption, NEW n \in Nat, NEW pair \in Clock!Pairs, pair # Clock!NoPair,
         NEW mono \in Nat, NEW utc \in Nat, NEW new, new = [mono |-> mono, utc |-> utc],
         Near(pair, n), Clock!gps_utc_progression_is_sane(pair, mono, utc)
  PROVE  Near(new, n + 1)
<1>1. pair.mono \in Nat /\ pair.utc \in Nat /\ new.mono = mono /\ new.utc = utc
  BY PairTypes
<1>2. /\ (mono - pair.mono) - (utc - pair.utc) <= GPS_UTC_PROGRESS_TOLERANCE_MS
      /\ (utc - pair.utc) - (mono - pair.mono) <= GPS_UTC_PROGRESS_TOLERANCE_MS
  BY <1>1, SaneNumbers
<1>3. /\ Slack(n) \in Nat /\ Slack(n + 1) = Slack(n) + GPS_UTC_PROGRESS_TOLERANCE_MS
      /\ GPS_UTC_PROGRESS_TOLERANCE_MS \in Nat /\ MaxLag \in Nat /\ Epoch \in Nat
  BY SlackNext, GpsParameters
<1>4. /\ pair.utc - (Epoch + pair.mono) <= Slack(n)
      /\ pair.utc - (Epoch + pair.mono) >= -(MaxLag + Slack(n))
  BY DEF Near, ErrorOf
<1>5. /\ new.utc - (Epoch + new.mono) <= Slack(n + 1)
      /\ new.utc - (Epoch + new.mono) >= -(MaxLag + Slack(n + 1))
  BY <1>1, <1>2, <1>3, <1>4
<1>6. QED
  BY <1>5 DEF Near, ErrorOf

-----------------------------------------------------------------------------
(* At power-on nothing has been reported. *)
LEMMA GpsInitHolds == ASSUME Clock!GpsAssumption, Clock!Init PROVE GpsInv
<1> USE DEF Clock!Init, Clock!Offline
<1>1. Clock!TypeOK
  <2>1. Clock!Offline \in Clock!States /\ Clock!NoPair \in Clock!Pairs
    BY DEF Clock!States, Clock!Pairs
  <2>2. now \in 0 .. MaxTime
    BY GpsParameters
  <2>3. gps \in Clock!States /\ latest_gps_state \in Clock!States /\ signal \in Clock!States
    BY <2>1
  <2>4. {pending_gps_utc, accepted_gps_utc, utc_anchor} \subseteq Clock!Pairs
    BY <2>1
  <2>5. next_rmc_at \in Nat /\ {time_syncs, true_streak} \subseteq Nat
    OBVIOUS
  <2> HIDE DEF Clock!Offline
  <2>6. QED
    BY <2>2, <2>3, <2>4, <2>5 DEF Clock!TypeOK
<1>2. ReportInv /\ SignalInv
  BY DEF ReportInv, SignalInv, Unseen, Clock!Waiting
<1>3. PairInv /\ AnchorInv
  BY DEF PairInv, AnchorInv
<1>4. FixInv /\ Clock!FixEventsMatchState /\ Clock!TrueTimeIsBelieved
  BY DEF FixInv, Clock!FixEventsMatchState, Clock!TrueTimeIsBelieved
<1>5. QED
  BY <1>1, <1>2, <1>3, <1>4 DEF GpsInv

(* Time passes, no longer than the loop lags. *)
LEMMA TickStep == ASSUME Clock!GpsAssumption, GpsInv, Clock!Tick PROVE GpsInv'
<1> USE DEF GpsInv
<1>1. PICK t \in Nat : /\ now' = t /\ now <= t /\ t <= MaxTime
                       /\ Clock!Waiting => t <= signalled_at + MaxLag
  <2>1. now \in Nat /\ Step \in Nat
    BY NumberTypes, GpsParameters
  <2>2. QED
    BY <2>1 DEF Clock!Tick
<1>2. UNCHANGED <<next_rmc_at, Clock!task, Clock!loop, Clock!log>>
  BY DEF Clock!Tick
<1>3. /\ now \in Nat /\ gps.utc_at \in Nat \cup {-1} /\ signalled_at \in Nat \cup {-1}
      /\ MaxLag \in Nat
  BY NumberTypes, GpsParameters
<1>4. Clock!TypeOK'
  BY <1>1, <1>2, GpsParameters DEF Clock!TypeOK, Clock!task, Clock!loop, Clock!log
<1>5. ReportInv'
  BY <1>1, <1>2, <1>3 DEF ReportInv, Clock!task
<1>6. SignalInv'
  BY <1>1, <1>2, <1>3 DEF SignalInv, Unseen, Clock!Waiting, Clock!task, Clock!loop, Clock!None
<1>7. PairInv'
  BY <1>2 DEF PairInv, FollowsBy, Unseen, Clock!task, Clock!loop, Clock!log
<1>8. AnchorInv' /\ FixInv' /\ Clock!FixEventsMatchState' /\ Clock!TrueTimeIsBelieved'
  BY <1>2 DEF AnchorInv, FixInv, Clock!FixEventsMatchState, Clock!TrueTimeIsBelieved,
              Clock!task, Clock!loop, Clock!log
<1>9. QED
  BY <1>4, <1>5, <1>6, <1>7, <1>8

(* A new state of the task: it keeps its UTC or has just parsed another. *)
LEMMA SignalStep ==
  ASSUME Clock!GpsAssumption, GpsInv, NEW state \in Clock!States, Clock!Signal(state),
         UNCHANGED <<now, Clock!loop, Clock!log>>,
         state.fix => state.online, state.fix <=> state.position # Clock!None,
         NEW next \in Nat, next_rmc_at' = next, next_rmc_at <= next,
         \/ state.utc = gps.utc /\ state.utc_at = gps.utc_at
         \/ /\ state.utc \in Nat /\ state.utc_at = now
            /\ now >= next_rmc_at /\ next = now + RMC_INTERVAL
  PROVE  GpsInv'
<1> USE DEF GpsInv
<1>1. /\ now \in Nat /\ next_rmc_at \in Nat
      /\ gps.utc \in Nat \cup {-1} /\ gps.utc_at \in Nat \cup {-1}
      /\ state.utc \in Nat \cup {-1} /\ state.utc_at \in Nat \cup {-1}
      /\ signalled_at \in Nat \cup {-1}
      /\ Epoch \in Nat /\ MaxLag \in Nat /\ RMC_INTERVAL \in Nat
  BY NumberTypes, StateTypes, GpsParameters
<1>2. /\ gps' = state /\ signal' = state /\ UNCHANGED <<now, Clock!loop, Clock!log>>
      /\ signalled_at' = IF Clock!Waiting THEN signalled_at ELSE now
  BY DEF Clock!Signal
<1>3. Clock!TypeOK'
  BY <1>1, <1>2 DEF Clock!TypeOK, Clock!loop, Clock!log, Clock!Waiting
<1>4. ReportInv'
  BY <1>1, <1>2 DEF ReportInv, Clock!None
<1>5. SignalInv'
  <2>1. signalled_at' # Clock!None /\ signalled_at' <= now /\ now <= signalled_at' + MaxLag
    BY <1>1, <1>2 DEF SignalInv, Clock!Waiting, Clock!None
  <2>2. ASSUME state.utc \notin {Clock!None, last_gps_utc_seen}
        PROVE  state.utc_at >= signalled_at'
    BY <1>1, <1>2, <2>1, <2>2 DEF SignalInv, Unseen, Clock!Waiting, Clock!None
  <2>3. QED
    BY <1>2, <2>1, <2>2 DEF SignalInv, Unseen, Clock!Waiting, Clock!loop
<1>6. \A pair \in Clock!Pairs : pair # Clock!NoPair /\ FollowsBy(pair) =>
        /\ next >= pair.utc - Epoch + RMC_INTERVAL
        /\ state.utc \notin {Clock!None, last_gps_utc_seen} =>
             state.utc_at >= pair.utc - Epoch + RMC_INTERVAL
  BY <1>1, PairTypes DEF FollowsBy, Unseen
<1>7. PairInv'
  BY <1>2, <1>6 DEF PairInv, FollowsBy, Unseen, Clock!loop, Clock!log, Clock!TypeOK
<1>8. AnchorInv' /\ FixInv' /\ Clock!TrueTimeIsBelieved'
  BY <1>2 DEF AnchorInv, FixInv, Clock!TrueTimeIsBelieved, Clock!loop, Clock!log
<1>9. Clock!FixEventsMatchState'
  BY <1>2 DEF Clock!FixEventsMatchState, Clock!loop, Clock!log
<1>10. QED
  BY <1>3, <1>4, <1>5, <1>7, <1>8, <1>9

(* The two sentences leave a state in which a fix has its position. *)
LEMMA GgaStep == ASSUME Clock!GpsAssumption, GpsInv, Clock!Gga PROVE GpsInv'
<1> USE DEF GpsInv
<1>1. PICK has_fix \in BOOLEAN, has_coordinates \in BOOLEAN :
        Clock!Signal(Clock!apply_gga(has_fix, has_coordinates))
  BY DEF Clock!Gga
<1> DEFINE state == Clock!apply_gga(has_fix, has_coordinates)
<1>2. now \in Nat /\ next_rmc_at \in Nat /\ gps \in Clock!States
  BY NumberTypes DEF Clock!TypeOK
<1>3. /\ state \in Clock!States /\ state.utc = gps.utc /\ state.utc_at = gps.utc_at
      /\ state.fix => state.online
      /\ state.fix <=> state.position # Clock!None
  <2>1. CASE ~has_fix
    BY <1>2, <2>1 DEF Clock!apply_gga, Clock!States, Clock!None
  <2>2. CASE has_fix /\ has_coordinates
    <3>1. state = WithPosition(gps, now)
      BY <2>2 DEF Clock!apply_gga, WithPosition
    <3>2. QED
      BY <1>2, <3>1, Positioned
  <2>3. CASE has_fix /\ ~has_coordinates
    BY <1>2, <2>3 DEF Clock!apply_gga, Clock!States, Clock!FixEventsMatchState
  <2>4. QED
    BY <2>1, <2>2, <2>3
<1>4. UNCHANGED <<now, next_rmc_at, Clock!loop, Clock!log>>
  BY DEF Clock!Gga
<1> HIDE DEF state
<1>5. QED
  BY <1>1, <1>2, <1>3, <1>4, SignalStep DEF state

LEMMA RmcStep == ASSUME Clock!GpsAssumption, GpsInv, Clock!Rmc PROVE GpsInv'
<1> USE DEF GpsInv
<1>1. PICK active \in BOOLEAN, has_coordinates \in BOOLEAN,
           utc \in Provisional \cup {Clock!None, Epoch + now} \cup {Epoch + now + e : e \in Errors} :
        Clock!Signal(Clock!apply_rmc(active, has_coordinates, utc))
  BY DEF Clock!Rmc
<1> DEFINE state == Clock!apply_rmc(active, has_coordinates, utc)
           new == IF utc = Clock!None THEN gps.utc ELSE utc
           new_at == IF utc = Clock!None THEN gps.utc_at ELSE now
<1>2. /\ now \in Nat /\ next_rmc_at \in Nat /\ RMC_INTERVAL \in Nat /\ gps \in Clock!States
      /\ gps.utc \in Nat \cup {Clock!None} /\ gps.utc_at \in Nat \cup {Clock!None}
  BY NumberTypes, GpsParameters DEF Clock!TypeOK, Clock!States
<1>3. utc \in Nat \cup {Clock!None}
  <2>1. \A e \in Errors : Epoch + now + e \in Nat
    BY <1>2, GpsParameters
  <2>2. Epoch + now \in Nat /\ Provisional \subseteq Nat
    BY <1>2, GpsParameters
  <2>3. QED
    BY <1>1, <2>1, <2>2
<1>4. /\ state \in Clock!States /\ state.utc = new /\ state.utc_at = new_at
      /\ state.fix => state.online
      /\ state.fix <=> state.position # Clock!None
  <2> DEFINE timed == [gps EXCEPT !.online = TRUE, !.utc = new, !.utc_at = new_at]
  <2>1. new \in Nat \cup {Clock!None} /\ new_at \in Nat \cup {Clock!None}
    BY <1>2, <1>3
  <2>2. state = IF ~active THEN [timed EXCEPT !.fix = FALSE, !.position = Clock!None]
                ELSE IF has_coordinates THEN [timed EXCEPT !.fix = TRUE, !.position = now]
                ELSE timed
    BY <1>2 DEF Clock!apply_rmc, Clock!States
  <2> HIDE DEF new, new_at, state
  <2>3. /\ timed \in Clock!States /\ timed.utc = new /\ timed.utc_at = new_at /\ timed.online
        /\ timed.fix = gps.fix /\ timed.position = gps.position
    BY <1>2, <2>1 DEF Clock!States
  <2> HIDE DEF timed
  <2>4. CASE ~active
    BY <1>2, <2>2, <2>3, <2>4 DEF Clock!States, Clock!None
  <2>5. CASE active /\ has_coordinates
    <3>1. state = WithPosition(timed, now)
      BY <2>2, <2>3, <2>5 DEF Clock!States, WithPosition
    <3>2. QED
      BY <1>2, <2>3, <3>1, Positioned
  <2>6. CASE active /\ ~has_coordinates
    BY <2>2, <2>3, <2>6 DEF Clock!FixEventsMatchState
  <2>7. QED
    BY <2>4, <2>5, <2>6
<1>5. /\ now >= next_rmc_at /\ next_rmc_at' = now + RMC_INTERVAL
      /\ UNCHANGED <<now, Clock!loop, Clock!log>>
  BY DEF Clock!Rmc
<1>6. now + RMC_INTERVAL \in Nat /\ next_rmc_at <= now + RMC_INTERVAL
  BY <1>2, <1>5
<1>7. \/ state.utc = gps.utc /\ state.utc_at = gps.utc_at
      \/ state.utc \in Nat /\ state.utc_at = now
  BY <1>3, <1>4
<1> HIDE DEF state
<1>8. QED
  BY <1>1, <1>4, <1>5, <1>6, <1>7, SignalStep DEF state

-----------------------------------------------------------------------------
(* A report not yet seen was parsed no longer ago than the lag. *)
LEMMA NewReport ==
  ASSUME Clock!GpsAssumption, GpsInv, Clock!Waiting, Unseen
  PROVE  /\ gps.utc \in Nat /\ gps.utc_at \in Nat
         /\ gps.utc_at <= now /\ now <= gps.utc_at + MaxLag
         /\ next_rmc_at >= gps.utc_at + RMC_INTERVAL
<1> USE DEF GpsInv
<1>1. /\ now \in Nat /\ gps.utc \in Nat \cup {-1} /\ gps.utc_at \in Nat \cup {-1}
      /\ signalled_at \in Nat \cup {-1} /\ MaxLag \in Nat
  BY NumberTypes, GpsParameters
<1>2. gps.utc # -1 /\ gps.utc_at # -1 /\ signalled_at # -1
  BY DEF Unseen, ReportInv, Clock!Waiting, Clock!None
<1>3. gps.utc_at <= now /\ next_rmc_at >= gps.utc_at + RMC_INTERVAL
  BY DEF Unseen, ReportInv
<1>4. gps.utc_at >= signalled_at /\ now <= signalled_at + MaxLag
  BY DEF SignalInv
<1>5. QED
  BY <1>1, <1>2, <1>3, <1>4

(* A true pair the loop holds makes the next true report believable. *)
LEMMA NextIsSane ==
  ASSUME Clock!GpsAssumption, GpsInv, Clock!Waiting, Unseen, Clock!IsTrue(gps),
         NEW pair \in Clock!Pairs, pair # Clock!NoPair, Near(pair, 0), FollowsBy(pair)
  PROVE  Clock!gps_utc_progression_is_sane(pair, now, gps.utc)
<1>1. /\ pair.mono \in Nat /\ pair.utc \in Nat /\ now \in Nat /\ gps.utc \in Nat
      /\ gps.utc_at \in Nat /\ gps.utc_at <= now /\ now <= gps.utc_at + MaxLag
  BY PairTypes, NumberTypes, NewReport DEF GpsInv
<1>2. /\ pair.utc - (Epoch + pair.mono) <= 0
      /\ pair.utc - (Epoch + pair.mono) >= -MaxLag
  <2>1. Slack(0) = 0 /\ MaxLag \in Nat
    BY SlackNext, GpsParameters
  <2>2. QED
    BY <2>1 DEF Near, ErrorOf
<1>3. gps.utc_at >= pair.utc - Epoch + RMC_INTERVAL /\ gps.utc = Epoch + gps.utc_at
  BY DEF FollowsBy, Clock!IsTrue
<1>4. /\ MaxLag \in Nat /\ RMC_INTERVAL \in Nat /\ Epoch \in Nat
      /\ GPS_UTC_PROGRESS_TOLERANCE_MS \in Nat
      /\ MaxLag < RMC_INTERVAL /\ MaxLag <= GPS_UTC_PROGRESS_TOLERANCE_MS
  BY GpsParameters
<1>5. /\ now > pair.mono /\ gps.utc > pair.utc
      /\ (now - pair.mono) - (gps.utc - pair.utc) <= GPS_UTC_PROGRESS_TOLERANCE_MS
      /\ (gps.utc - pair.utc) - (now - pair.mono) <= GPS_UTC_PROGRESS_TOLERANCE_MS
  BY <1>1, <1>2, <1>3, <1>4
<1>6. QED
  BY <1>1, <1>5, SaneNumbers

(* A report taken now is a pair; if it is true, the next RMC is after it. *)
LEMMA TakenPair ==
  ASSUME Clock!GpsAssumption, GpsInv, Clock!Waiting, Unseen,
         UNCHANGED <<now, next_rmc_at, gps>>, last_gps_utc_seen' = gps.utc,
         NEW pair, pair = [mono |-> now, utc |-> gps.utc]
  PROVE  /\ pair \in Clock!Pairs /\ pair # Clock!NoPair
         /\ Clock!IsTrue(gps) => Near(pair, 0) /\ FollowsBy(pair)'
<1>1. /\ now \in Nat /\ gps.utc \in Nat /\ gps.utc_at \in Nat
      /\ gps.utc_at <= now /\ now <= gps.utc_at + MaxLag
      /\ next_rmc_at >= gps.utc_at + RMC_INTERVAL
  BY NumberTypes, NewReport DEF GpsInv
<1>2. pair \in Clock!Pairs /\ pair # Clock!NoPair /\ pair.mono = now /\ pair.utc = gps.utc
  BY <1>1, NewPair
<1>3. ASSUME Clock!IsTrue(gps) PROVE Near(pair, 0) /\ FollowsBy(pair)'
  <2>1. gps.utc = Epoch + gps.utc_at
    BY <1>3 DEF Clock!IsTrue
  <2>2. /\ Slack(0) = 0 /\ MaxLag \in Nat /\ Epoch \in Nat /\ RMC_INTERVAL \in Nat
        /\ next_rmc_at \in Nat
    BY SlackNext, GpsParameters, NumberTypes DEF GpsInv
  <2>3. Near(pair, 0)
    BY <1>1, <1>2, <2>1, <2>2 DEF Near, ErrorOf
  <2>4. next_rmc_at >= pair.utc - Epoch + RMC_INTERVAL
    BY <1>1, <1>2, <2>1, <2>2
  <2>5. ~Unseen'
    BY DEF Unseen
  <2>6. QED
    BY <2>3, <2>4, <2>5 DEF FollowsBy
<1>4. QED
  BY <1>2, <1>3

(* What a new report leaves to be shown of the step that takes it. *)
LEMMA TakenReport ==
  ASSUME Clock!GpsAssumption, GpsInv, Clock!Waiting, Clock!NewUtc(gps.utc),
         UNCHANGED <<now, next_rmc_at, gps>>
  PROVE  /\ Unseen /\ signal = gps /\ gps.utc \in Nat /\ last_gps_utc_seen' = gps.utc
         /\ true_streak' \in Nat
         /\ true_streak' >= 1 => Clock!IsTrue(gps)
         /\ true_streak' >= 2 => Clock!IsTrue(gps) /\ true_streak >= 1
         /\ \A pair : FollowsBy(pair) => FollowsBy(pair)'
<1>1. Unseen /\ last_gps_utc_seen' = gps.utc
  BY DEF Clock!NewUtc, Unseen
<1>2. signal = gps
  BY DEF GpsInv, SignalInv
<1>3. gps.utc \in Nat /\ true_streak \in Nat
  BY <1>1, NewReport, NumberTypes DEF GpsInv
<1>4. true_streak' = IF Clock!IsTrue(gps) THEN true_streak + 1 ELSE 0
  BY <1>2 DEF Clock!NewUtc
<1>5. /\ true_streak' \in Nat
      /\ true_streak' >= 1 => Clock!IsTrue(gps)
      /\ true_streak' >= 2 => Clock!IsTrue(gps) /\ true_streak >= 1
  BY <1>3, <1>4
<1>6. ~Unseen'
  BY <1>1 DEF Unseen
<1>7. \A pair : FollowsBy(pair) => FollowsBy(pair)'
  BY <1>6 DEF FollowsBy
<1>8. QED
  BY <1>1, <1>2, <1>3, <1>5, <1>7

(* The step of a report that is let through: the anchor is moved, and no further
   than the tolerance. *)
LEMMA RefreshStep ==
  ASSUME Clock!GpsAssumption, GpsInv, Clock!Waiting, UNCHANGED <<now, next_rmc_at, gps>>,
         Clock!RefreshAnchor(gps.utc) \/ Clock!SyncTime(gps.utc)
  PROVE  /\ {pending_gps_utc', accepted_gps_utc', utc_anchor'} \subseteq Clock!Pairs
         /\ PairInv' /\ AnchorInv' /\ time_syncs' \in Nat /\ hops' \in Nat \cup {Clock!None}
         /\ utc_anchor' # Clock!NoPair /\ ~true_rejected'
<1> USE DEF GpsInv
<1>. PICK taken : taken = [mono |-> now, utc |-> gps.utc]
  OBVIOUS
<1>1. Clock!NewUtc(gps.utc)
  BY DEF Clock!RefreshAnchor, Clock!SyncTime
<1>2. Unseen /\ signal = gps /\ gps.utc \in Nat /\ last_gps_utc_seen' = gps.utc
  BY <1>1, TakenReport
<1>3. now \in Nat /\ hops \in Nat \cup {-1}
  BY NumberTypes
<1>4. /\ pending_gps_utc \in Clock!Pairs /\ accepted_gps_utc \in Clock!Pairs
      /\ utc_anchor \in Clock!Pairs
  BY DEF Clock!TypeOK
<1>5. /\ taken \in Clock!Pairs /\ taken # Clock!NoPair
      /\ Clock!IsTrue(gps) => Near(taken, 0) /\ FollowsBy(taken)'
  BY <1>2, TakenPair
<1>6. accepted_gps_utc' = taken /\ utc_anchor' = taken
  BY DEF Clock!RefreshAnchor, Clock!SyncTime
<1>7. /\ hops' \in Nat \cup {Clock!None}
      /\ hops' = 0 => Clock!IsTrue(gps)
      /\ hops' # Clock!None => Near(taken, hops')
  <2>1. CASE Clock!IsTrue(gps)
    <3>1. hops' = 0
      BY <1>2, <2>1 DEF Clock!RefreshAnchor, Clock!SyncTime
    <3>2. QED
      BY <1>5, <2>1, <3>1
  <2>2. CASE ~Clock!IsTrue(gps) /\ Clock!RefreshAnchor(gps.utc)
    <3>1. /\ accepted_gps_utc # Clock!NoPair
          /\ Clock!gps_utc_progression_is_sane(accepted_gps_utc, now, gps.utc)
          /\ hops' = IF hops = Clock!None THEN Clock!None ELSE hops + 1
      BY <1>2, <2>2 DEF Clock!RefreshAnchor
    <3>2. CASE hops = Clock!None
      BY <3>1, <3>2 DEF Clock!None
    <3>3. CASE hops # Clock!None
      <4>1. hops \in Nat /\ hops' = hops + 1 /\ Near(accepted_gps_utc, hops)
        BY <1>3, <3>1, <3>3 DEF PairInv, Clock!None
      <4>2. Near(taken, hops + 1)
        BY <1>2, <1>3, <1>4, <3>1, <4>1, SaneIsNear
      <4>3. QED
        BY <4>1, <4>2
    <3>4. QED
      BY <3>2, <3>3
  <2>3. CASE ~Clock!IsTrue(gps) /\ Clock!SyncTime(gps.utc)
    <3>1. /\ accepted_gps_utc = Clock!NoPair /\ pending_gps_utc # Clock!NoPair
          /\ Clock!gps_utc_progression_is_sane(pending_gps_utc, now, gps.utc)
          /\ hops' = IF true_streak >= 1 THEN 1 ELSE Clock!None
      BY <1>2, <2>3 DEF Clock!SyncTime
    <3>2. CASE true_streak >= 1
      <4>1. Near(pending_gps_utc, 0)
        BY <3>1, <3>2 DEF PairInv
      <4>2. Near(taken, 0 + 1)
        BY <1>2, <1>3, <1>4, <3>1, <4>1, SaneIsNear
      <4>3. QED
        BY <3>1, <3>2, <4>2
    <3>3. CASE ~(true_streak >= 1)
      BY <3>1, <3>3 DEF Clock!None
    <3>4. QED
      BY <3>2, <3>3
  <2>4. QED
    BY <2>1, <2>2, <2>3
<1>8. pending_gps_utc' \in {pending_gps_utc, Clock!NoPair}
  BY DEF Clock!RefreshAnchor, Clock!SyncTime
<1>9. PairInv'
  BY <1>5, <1>6, <1>7 DEF PairInv
<1>10. time_syncs' = 1
  <2>1. CASE Clock!RefreshAnchor(gps.utc)
    BY <2>1 DEF Clock!RefreshAnchor, AnchorInv
  <2>2. CASE Clock!SyncTime(gps.utc)
    BY <2>2 DEF Clock!SyncTime, AnchorInv
  <2>3. QED
    BY <2>1, <2>2
<1>11. AnchorInv' /\ time_syncs' \in Nat
  BY <1>5, <1>6, <1>10 DEF AnchorInv
<1>12. ~true_rejected'
  BY DEF Clock!RefreshAnchor, Clock!SyncTime, Clock!TrueTimeIsBelieved
<1>13. {pending_gps_utc', accepted_gps_utc', utc_anchor'} \subseteq Clock!Pairs
  BY <1>4, <1>5, <1>6, <1>8 DEF Clock!Pairs
<1>14. QED
  BY <1>5, <1>6, <1>7, <1>9, <1>11, <1>12, <1>13

(* The step that rejects what does not progress like a clock: the truth only when a
   wrong time has been accepted. *)
LEMMA RejectStep ==
  ASSUME Clock!GpsAssumption, GpsInv, Clock!Waiting, UNCHANGED <<now, next_rmc_at, gps>>,
         Clock!RejectUtc(gps.utc)
  PROVE  /\ {pending_gps_utc', accepted_gps_utc', utc_anchor'} \subseteq Clock!Pairs
         /\ PairInv' /\ AnchorInv' /\ time_syncs' \in Nat /\ hops' \in Nat \cup {Clock!None}
         /\ utc_anchor' # Clock!NoPair /\ ~true_rejected'
<1> USE DEF GpsInv
<1>1. /\ Clock!NewUtc(gps.utc) /\ accepted_gps_utc # Clock!NoPair
      /\ ~Clock!gps_utc_progression_is_sane(accepted_gps_utc, now, gps.utc)
      /\ UNCHANGED <<pending_gps_utc, accepted_gps_utc, utc_anchor, time_syncs, hops>>
  BY DEF Clock!RejectUtc
<1>2. /\ Unseen /\ signal = gps
      /\ \A pair : FollowsBy(pair) => FollowsBy(pair)'
  BY <1>1, TakenReport
<1>3. /\ pending_gps_utc \in Clock!Pairs /\ accepted_gps_utc \in Clock!Pairs
      /\ utc_anchor \in Clock!Pairs
      /\ time_syncs \in Nat /\ hops \in Nat \cup {Clock!None}
  BY DEF Clock!TypeOK
<1>4. ~(Clock!IsTrue(gps) /\ hops = 0)
  <2>1. SUFFICES ASSUME Clock!IsTrue(gps), hops = 0 PROVE FALSE
    OBVIOUS
  <2>2. Near(accepted_gps_utc, 0) /\ FollowsBy(accepted_gps_utc)
    BY <1>1, <2>1 DEF PairInv, Clock!None
  <2>3. QED
    BY <1>1, <1>2, <1>3, <2>1, <2>2, NextIsSane
<1>5. ~true_rejected'
  BY <1>2, <1>4 DEF Clock!RejectUtc, Clock!TrueTimeIsBelieved
<1>6. PairInv'
  BY <1>1, <1>2 DEF PairInv, FollowsBy
<1>7. AnchorInv'
  BY <1>1 DEF AnchorInv
<1>8. QED
  BY <1>1, <1>3, <1>5, <1>6, <1>7 DEF AnchorInv

(* The step that keeps a candidate: a true one that follows a true one would
   have been believed. *)
LEMMA CandidateStep ==
  ASSUME Clock!GpsAssumption, GpsInv, Clock!Waiting, UNCHANGED <<now, next_rmc_at, gps>>,
         Clock!KeepCandidate(gps.utc)
  PROVE  /\ {pending_gps_utc', accepted_gps_utc', utc_anchor'} \subseteq Clock!Pairs
         /\ PairInv' /\ AnchorInv' /\ time_syncs' \in Nat /\ hops' \in Nat \cup {Clock!None}
         /\ true_streak' < 2 /\ ~true_rejected'
<1> USE DEF GpsInv
<1>. PICK taken : taken = [mono |-> now, utc |-> gps.utc]
  OBVIOUS
<1>1. /\ Clock!NewUtc(gps.utc) /\ accepted_gps_utc = Clock!NoPair /\ pending_gps_utc' = taken
      /\ pending_gps_utc # Clock!NoPair =>
           ~Clock!gps_utc_progression_is_sane(pending_gps_utc, now, gps.utc)
      /\ UNCHANGED <<accepted_gps_utc, utc_anchor, time_syncs, hops, true_rejected>>
  BY DEF Clock!KeepCandidate
<1>2. /\ Unseen /\ last_gps_utc_seen' = gps.utc
      /\ true_streak' \in Nat
      /\ true_streak' >= 1 => Clock!IsTrue(gps)
      /\ true_streak' >= 2 => Clock!IsTrue(gps) /\ true_streak >= 1
  BY <1>1, TakenReport
<1>3. /\ pending_gps_utc \in Clock!Pairs /\ accepted_gps_utc \in Clock!Pairs
      /\ utc_anchor \in Clock!Pairs
      /\ time_syncs \in Nat /\ hops \in Nat \cup {Clock!None}
  BY DEF Clock!TypeOK
<1>4. /\ taken \in Clock!Pairs /\ taken # Clock!NoPair
      /\ Clock!IsTrue(gps) => Near(taken, 0) /\ FollowsBy(taken)'
  BY <1>2, TakenPair
<1>5. true_streak' < 2
  <2>1. SUFFICES ASSUME Clock!IsTrue(gps), true_streak >= 1 PROVE FALSE
    BY <1>2
  <2>2. pending_gps_utc # Clock!NoPair /\ Near(pending_gps_utc, 0) /\ FollowsBy(pending_gps_utc)
    BY <1>1, <2>1 DEF PairInv
  <2>3. QED
    BY <1>1, <1>2, <1>3, <2>1, <2>2, NextIsSane
<1>6. Clock!IsTrue(gps) => Near(pending_gps_utc', 0) /\ FollowsBy(pending_gps_utc)'
  BY <1>1, <1>4 DEF FollowsBy
<1>7. PairInv'
  BY <1>1, <1>2, <1>4, <1>6 DEF PairInv
<1>8. AnchorInv' /\ ~true_rejected'
  BY <1>1 DEF AnchorInv, Clock!TrueTimeIsBelieved
<1>9. QED
  BY <1>1, <1>3, <1>4, <1>5, <1>7, <1>8

(* What has been seen already changes nothing but what is shown. *)
LEMMA SameStep ==
  ASSUME Clock!GpsAssumption, GpsInv, UNCHANGED <<now, next_rmc_at, gps>>, Clock!SameUtc(gps.utc)
  PROVE  /\ {pending_gps_utc', accepted_gps_utc', utc_anchor'} \subseteq Clock!Pairs
         /\ PairInv' /\ AnchorInv' /\ time_syncs' \in Nat /\ hops' \in Nat \cup {Clock!None}
         /\ Clock!TrueTimeIsBelieved'
<1> USE DEF GpsInv
<1>1. UNCHANGED <<last_gps_utc_seen, pending_gps_utc, accepted_gps_utc, utc_anchor,
                  time_syncs, true_streak, hops, true_rejected>>
  BY DEF Clock!SameUtc
<1>2. PairInv' /\ AnchorInv' /\ Clock!TrueTimeIsBelieved'
  BY <1>1 DEF PairInv, FollowsBy, Unseen, AnchorInv, Clock!TrueTimeIsBelieved
<1>3. QED
  BY <1>1, <1>2 DEF Clock!TypeOK

(* The loop takes the newest state. *)
LEMMA TakeStateStep == ASSUME Clock!GpsAssumption, GpsInv, Clock!Take PROVE GpsInv'
<1> USE DEF GpsInv
<1>1. /\ Clock!Waiting /\ signal = gps /\ UNCHANGED <<now, next_rmc_at, gps>>
      /\ signal' = Clock!Offline /\ signalled_at' = Clock!None
      /\ latest_gps_state' = gps /\ fix_event' = Clock!FixEvent(latest_gps_state, gps)
  BY DEF Clock!Take, SignalInv
<1>2. \/ Clock!SameUtc(gps.utc) \/ Clock!RefreshAnchor(gps.utc) \/ Clock!RejectUtc(gps.utc)
      \/ Clock!SyncTime(gps.utc) \/ Clock!KeepCandidate(gps.utc)
  BY <1>1 DEF Clock!Take
<1>3. /\ {pending_gps_utc', accepted_gps_utc', utc_anchor'} \subseteq Clock!Pairs
      /\ PairInv' /\ AnchorInv' /\ time_syncs' \in Nat /\ hops' \in Nat \cup {Clock!None}
      /\ Clock!TrueTimeIsBelieved'
  <2>1. CASE Clock!SameUtc(gps.utc)
    BY <1>1, <2>1, SameStep
  <2>2. CASE Clock!RefreshAnchor(gps.utc) \/ Clock!SyncTime(gps.utc)
    BY <1>1, <2>2, RefreshStep DEF Clock!TrueTimeIsBelieved
  <2>3. CASE Clock!RejectUtc(gps.utc)
    BY <1>1, <2>3, RejectStep DEF Clock!TrueTimeIsBelieved
  <2>4. CASE Clock!KeepCandidate(gps.utc)
    <3>1. true_streak' \in Nat
      BY <1>1, <2>4, TakenReport DEF Clock!KeepCandidate
    <3>2. QED
      BY <1>1, <2>4, <3>1, CandidateStep DEF Clock!TrueTimeIsBelieved
  <2>5. QED
    BY <1>2, <2>1, <2>2, <2>3, <2>4
<1>4. last_gps_utc_seen' \in Nat \cup {Clock!None} /\ true_streak' \in Nat /\ ~Unseen'
  <2>1. CASE Clock!SameUtc(gps.utc)
    BY <1>1, <2>1 DEF Clock!SameUtc, Clock!TypeOK, Unseen
  <2>2. CASE Clock!NewUtc(gps.utc)
    BY <1>1, <2>2, TakenReport DEF Unseen
  <2>3. QED
    BY <1>2, <2>1, <2>2
    DEF Clock!RefreshAnchor, Clock!RejectUtc, Clock!SyncTime, Clock!KeepCandidate
<1>5. FixInv' /\ Clock!FixEventsMatchState'
  BY <1>1 DEF FixInv, Clock!FixEventsMatchState, Clock!FixEvent
<1>6. fix_event' \in {"none", "GPS_FIX_ACQUIRED", "GPS_FIX_LOST"}
  BY <1>1 DEF Clock!FixEvent, Clock!TypeOK
<1>7. true_rejected' \in BOOLEAN
  <2>1. true_rejected \in BOOLEAN
    BY DEF Clock!TypeOK
  <2>2. \/ true_rejected' = true_rejected
        \/ true_rejected' = (true_rejected \/ (Clock!IsTrue(gps) /\ hops = 0))
    BY <1>1, <1>2 DEF Clock!SameUtc, Clock!RefreshAnchor, Clock!RejectUtc, Clock!SyncTime,
                      Clock!KeepCandidate
  <2>3. QED
    BY <2>1, <2>2
<1>8. Clock!Offline \in Clock!States
  BY DEF Clock!States, Clock!Offline
<1>9. Clock!TypeOK'
  <2>1. signal' \in Clock!States /\ latest_gps_state' \in Clock!States /\ gps' \in Clock!States
    BY <1>1, <1>8 DEF Clock!TypeOK
  <2>2. {time_syncs', true_streak'} \subseteq Nat
    BY <1>3, <1>4
  <2>3. QED
    BY <1>1, <1>3, <1>4, <1>6, <1>7, <2>1, <2>2 DEF Clock!TypeOK
<1>10. ReportInv'
  BY <1>1 DEF ReportInv
<1>11. SignalInv'
  BY <1>1, <1>4 DEF SignalInv, Clock!Waiting
<1>12. QED
  BY <1>3, <1>5, <1>9, <1>10, <1>11

-----------------------------------------------------------------------------
(* Every step of the GPS task and of the loop preserves the invariant. *)
LEMMA GpsStepHolds == ASSUME Clock!GpsAssumption, GpsInv, [Clock!Next]_Clock!vars PROVE GpsInv'
<1>1. CASE Clock!Tick
  BY <1>1, TickStep
<1>2. CASE Clock!Gga
  BY <1>2, GgaStep
<1>3. CASE Clock!Rmc
  BY <1>3, RmcStep
<1>4. CASE Clock!Take
  BY <1>4, TakeStateStep
<1>5. CASE UNCHANGED Clock!vars
  BY <1>5 DEF Clock!vars, Clock!task, Clock!loop, Clock!log, GpsInv, Clock!TypeOK, ReportInv,
              SignalInv, Unseen, Clock!Waiting, PairInv, FollowsBy, AnchorInv, FixInv,
              Clock!FixEventsMatchState, Clock!TrueTimeIsBelieved
<1>6. QED
  BY <1>1, <1>2, <1>3, <1>4, <1>5 DEF Clock!Next

(* The inductive invariant of the GPS clock. *)
THEOREM GpsInvariance == Clock!GpsAssumption => (Clock!Spec => []GpsInv)
<1> SUFFICES ASSUME Clock!GpsAssumption PROVE Clock!Spec => []GpsInv
  OBVIOUS
<1>1. Clock!Init => GpsInv
  BY GpsInitHolds
<1>2. GpsInv /\ [Clock!Next]_Clock!vars => GpsInv'
  BY GpsStepHolds
<1>3. QED
  BY <1>1, <1>2, PTL DEF Clock!Spec

(* A fix is reported exactly with a position, and EVENT.LOG agrees with what the
   loop has seen, whichever states the signal drops. *)
THEOREM FixEventsMatchStateHolds ==
  Clock!GpsAssumption => (Clock!Spec => []FixEventsMatchState)
<1> SUFFICES ASSUME Clock!GpsAssumption PROVE Clock!Spec => []FixEventsMatchState
  OBVIOUS
<1>1. GpsInv => FixEventsMatchState
  BY DEF GpsInv, FixEventsMatchState
<1>2. QED
  BY <1>1, GpsInvariance, PTL

(* Two true times in a row synchronise the clock, and after an accepted true time
   none is rejected until a wrong one has been accepted, for every lag within the
   tolerance and whatever the wrong times are. *)
THEOREM TrueTimeIsBelievedHolds ==
  Clock!GpsAssumption => (Clock!Spec => []TrueTimeIsBelieved)
<1> SUFFICES ASSUME Clock!GpsAssumption PROVE Clock!Spec => []TrueTimeIsBelieved
  OBVIOUS
<1>1. GpsInv => TrueTimeIsBelieved
  BY DEF GpsInv, TrueTimeIsBelieved
<1>2. QED
  BY <1>1, GpsInvariance, PTL

(* The anchor is set once, and for every moment it gives the true UTC to within the
   lag and the tolerance for every wrong time accepted since a true one, whatever
   the wrong times are. *)
THEOREM AnchorIsTrueHolds ==
  Clock!GpsAssumption => (Clock!Spec => []AnchorIsTrue)
<1> SUFFICES ASSUME Clock!GpsAssumption PROVE Clock!Spec => []AnchorIsTrue
  OBVIOUS
<1>1. ASSUME GpsInv PROVE AnchorIsTrue
  <2> SUFFICES ASSUME utc_anchor # Clock!NoPair
               PROVE  /\ time_syncs = 1
                      /\ hops # Clock!None =>
                           /\ Clock!AnchorError <= GPS_UTC_PROGRESS_TOLERANCE_MS * hops
                           /\ Clock!AnchorError >=
                                -(MaxLag + GPS_UTC_PROGRESS_TOLERANCE_MS * hops)
    BY DEF AnchorIsTrue, Clock!AnchorIsTrue
  <2> USE <1>1 DEF GpsInv
  <2>1. time_syncs = 1 /\ utc_anchor = accepted_gps_utc
    BY DEF AnchorInv
  <2>2. utc_anchor.mono \in Nat /\ utc_anchor.utc \in Nat /\ now \in Nat /\ Epoch \in Nat
    BY PairTypes, NumberTypes, GpsParameters DEF Clock!TypeOK
  <2>3. Clock!AnchorError = ErrorOf(utc_anchor)
    BY <2>2 DEF Clock!AnchorError, Clock!utc_for_mono_ms, ErrorOf
  <2>4. hops # Clock!None => Near(utc_anchor, hops)
    BY <2>1 DEF PairInv
  <2>5. QED
    BY <2>1, <2>3, <2>4 DEF Near, Slack
<1>2. QED
  BY <1>1, GpsInvariance, PTL
=============================================================================
