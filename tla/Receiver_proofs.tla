--------------------------- MODULE Receiver_proofs ---------------------------
(***************************************************************************)
(* Proofs about the receiver process, for any number of connections, any   *)
(* channel capacities, any timeouts and any bounds.                        *)
(***************************************************************************)
EXTENDS Receiver, Management_proofs

USE ManagementAssumption, TransportAssumption, ReceiverAssumption

-----------------------------------------------------------------------------
(* The tasks and the loop call the book as module Management lets them.    *)

\* A step of a network task is one call of the book, or none.
LEMMA TaskCalls == TransportNext => [Next]_bookVars
<1> SUFFICES ASSUME TransportNext PROVE [Next]_bookVars
  OBVIOUS
<1>1. ASSUME NEW c \in Conn,
             \/ Connect(c) \/ LoseConnection(c) \/ NoticeLoss(c)
             \/ NoticeDatagramError(c) \/ Wake(c) \/ SendStopFrame(c)
             \/ OpenControl(c) \/ CloseControl(c) \/ ControlSendsStop(c)
      PROVE  UNCHANGED bookVars
  BY <1>1 DEF Connect, LoseConnection, NoticeLoss, NoticeDatagramError, Wake,
              SendStopFrame, OpenControl, CloseControl, ControlSendsStop
<1>2. ASSUME NEW c \in Conn, Unregister(c) \/ ControlClosed(c) PROVE Next
  BY <1>2 DEF Unregister, ControlClosed, Next
<1>3. ASSUME NEW c \in Conn,
             \/ ClientPing(c) \/ ClientClockSync(c) \/ ClientLatencyReport(c)
             \/ HeartbeatAges(c) /\ UNCHANGED transportVars
      PROVE  Next
  BY <1>3 DEF ClientPing, ClientClockSync, ClientLatencyReport, Next
<1>4. ASSUME NEW c \in Conn, NEW kind \in ClientCommandKind, ClientCommand(c, kind)
      PROVE  UNCHANGED bookVars
  BY <1>4 DEF ClientCommand
<1>5. ASSUME NEW kind \in OutsideCommandKind, NEW c \in Conn \cup {NoConn},
             OutsideCommand(kind, c)
      PROVE  UNCHANGED bookVars
  BY <1>5 DEF OutsideCommand
<1>6. ASSUME NEW s \in Source,
             OpenMedia(s) \/ ReadFrame(s) \/ ReadStop(s) \/ PushFrame(s)
      PROVE  UNCHANGED bookVars
  BY <1>6 DEF OpenMedia, ReadFrame, ReadStop, PushFrame
<1> QED
  BY <1>1, <1>2, <1>3, <1>4, <1>5, <1>6 DEF TransportNext

\* The head of a queue is one of its elements.
LEMMA HeadIsElement ==
    ASSUME NEW S, NEW q \in Seq(S), q # <<>>
    PROVE  Head(q) \in S
OBVIOUS

\* The frame the loop takes carries a sequence number within the bound.
LEMMA HeadOfFrames ==
    ASSUME TransportTypeOK, NextFrame("video")
    PROVE  Head(frameQ).seq \in 1..MaxSeq
<1>1. Head(frameQ) \in Frame /\ Head(frameQ).kind = "video"
  BY DEF TransportTypeOK, NextFrame
<1> QED
  BY <1>1 DEF Frame

\* A handler of the main loop makes one call of the book, or none.
LEMMA LoopCalls == ReceiverTypeOK /\ MainLoop => [Next]_bookVars
<1> SUFFICES ASSUME ReceiverTypeOK, MainLoop PROVE [Next]_bookVars
  OBVIOUS
<1>1. CASE HandleHello
  BY <1>1 DEF HandleHello, Next
<1>2. CASE HandleStart
  <2>1. StartSender(Head(cmdQ).conn) \in Sender
    BY DEF StartSender, Sender
  <2> QED
    BY <1>2, <2>1 DEF HandleStart, Next
<1>3. ASSUME NEW r \in StopReason, StopSession(r) PROVE Next
  BY <1>3 DEF Next
<1>4. CASE HandleStop
  BY <1>3, <1>4 DEF HandleStop, EndStream, CommandReason, StopReason
<1>5. CASE HandleGetStatus
  BY <1>5 DEF HandleGetStatus
<1>6. CASE HandleShutdown
  BY <1>3, <1>6 DEF HandleShutdown, StopReason
<1>7. CASE HandleStopFrame
  BY <1>3, <1>7 DEF HandleStopFrame, EndStream, StopReason
<1>8. CASE DiscardFrame
  BY <1>8 DEF DiscardFrame
<1>9. CASE PlayFrame
  <2>1. Head(frameQ).seq \in 1..MaxSeq
    BY <1>9, HeadOfFrames DEF PlayFrame, ReceiverTypeOK
  <2> QED
    BY <1>9, <2>1 DEF PlayFrame, Next
<1>10. CASE HandleSubmission
  <2>1. Head(submissions) \in 1..MaxSeq
    <3>1. submissions # <<>> /\ submissions \in Seq(1..MaxSeq)
      BY <1>10 DEF HandleSubmission, ReceiverTypeOK
    <3> QED
      BY <3>1, HeadIsElement
  <2> QED
    BY <1>10, <2>1 DEF HandleSubmission, Next
<1>11. CASE KeepLastFrame
  BY <1>11 DEF KeepLastFrame
<1>12. CASE IdleStop
  BY <1>3, <1>12 DEF IdleStop, EndStream, StopReason
<1> QED
  BY <1>1, <1>2, <1>4, <1>5, <1>6, <1>7, <1>8, <1>9, <1>10, <1>11, <1>12 DEF MainLoop

\* One step of the receiver is one call of the book, or none.
LEMMA Calls == ReceiverTypeOK /\ [ReceiverNext]_vars => [Next]_bookVars
<1>1. PlayerDies => UNCHANGED bookVars
  BY DEF PlayerDies
<1>2. UNCHANGED vars => UNCHANGED bookVars
  BY DEF vars
<1> QED
  BY <1>1, <1>2, TaskCalls, LoopCalls DEF ReceiverNext, Tasks

-----------------------------------------------------------------------------
(* Type correctness.                                                       *)

\* The process starts well typed.
LEMMA ReceiverInitType == ReceiverInit => ReceiverTypeOK
<1> SUFFICES ASSUME ReceiverInit PROVE ReceiverTypeOK
  OBVIOUS
<1>1. TypeOK
  BY InitType DEF ReceiverInit
<1>2. TransportTypeOK
  BY DEF ReceiverInit, TransportInit, TransportTypeOK, LinkState, CtlState, Source
<1>3. submissions \in Seq(1..MaxSeq)
  BY DEF ReceiverInit
<1> QED
  BY <1>1, <1>2, <1>3 DEF ReceiverInit, ReceiverTypeOK

\* A queue stays a queue when an element is added or taken.
LEMMA Queue ==
    ASSUME NEW S, NEW q \in Seq(S)
    PROVE  /\ \A m \in S : Append(q, m) \in Seq(S)
           /\ q # <<>> => Tail(q) \in Seq(S)
OBVIOUS

\* A channel stays a channel when a message is added or taken.
LEMMA Channel ==
    ASSUME NEW S, NEW q \in Seq(S), NEW cap \in Nat, Len(q) <= cap
    PROVE  /\ Len(q) < cap => \A m \in S : /\ Append(q, m) \in Seq(S)
                                          /\ Len(Append(q, m)) <= cap
           /\ q # <<>> => Tail(q) \in Seq(S) /\ Len(Tail(q)) <= cap
OBVIOUS

\* The network tasks keep both channels within their capacities, and every
\* command and frame in them well formed.
LEMMA TaskTypes == TransportTypeOK /\ TransportNext => TransportTypeOK'
<1> SUFFICES ASSUME TransportTypeOK, TransportNext PROVE TransportTypeOK'
  OBVIOUS
<1> USE DEF TransportTypeOK, transportVars
<1>1. ASSUME NEW c \in Conn,
             \/ Connect(c) \/ LoseConnection(c) \/ NoticeLoss(c)
             \/ NoticeDatagramError(c) \/ Wake(c) \/ Unregister(c)
      PROVE  TransportTypeOK'
  BY <1>1 DEF Connect, LoseConnection, NoticeLoss, NoticeDatagramError, Wake,
              Unregister, LinkState
<1>2. ASSUME NEW c \in Conn, SendStopFrame(c) PROVE TransportTypeOK'
  <2>1. StopFrame(c) \in Frame
    BY DEF StopFrame, Frame, Source
  <2>2. frameQ' \in Seq(Frame) /\ Len(frameQ') <= FrameCap
    BY <1>2, <2>1, Channel DEF SendStopFrame
  <2> QED
    BY <1>2, <2>2 DEF SendStopFrame, LinkState
<1>3. ASSUME NEW c \in Conn, CloseControl(c) \/ ControlClosed(c) PROVE TransportTypeOK'
  BY <1>3 DEF CloseControl, ControlClosed, CtlState
<1>4. ASSUME NEW cmd \in Command, Enqueued(cmd)
      PROVE  cmdQ' \in Seq(Command) /\ Len(cmdQ') <= CmdCap
  BY <1>4, Channel DEF Enqueued
<1>5. ASSUME NEW c \in Conn, OpenControl(c) \/ ControlSendsStop(c)
      PROVE  TransportTypeOK'
  <2>1. /\ [kind |-> "get_status", conn |-> c] \in Command
        /\ [kind |-> "stop", conn |-> c] \in Command
    BY DEF Command, ClientCommandKind, OutsideCommandKind
  <2>2. cmdQ' \in Seq(Command) /\ Len(cmdQ') <= CmdCap
    BY <1>4, <1>5, <2>1 DEF OpenControl, ControlSendsStop
  <2> QED
    BY <1>5, <2>2 DEF OpenControl, ControlSendsStop, CtlState
<1>6. ASSUME NEW c \in Conn, NEW kind \in ClientCommandKind, ClientCommand(c, kind)
      PROVE  TransportTypeOK'
  <2>1. [kind |-> kind, conn |-> c] \in Command
    BY DEF Command
  <2>2. cmdQ' \in Seq(Command) /\ Len(cmdQ') <= CmdCap
    BY <1>4, <1>6, <2>1 DEF ClientCommand
  <2>3. budget' \in [Conn \cup {NoConn} -> Nat]
    BY <1>6 DEF ClientCommand
  <2> QED
    BY <1>6, <2>2, <2>3 DEF ClientCommand
<1>7. ASSUME NEW kind \in OutsideCommandKind, NEW c \in Conn \cup {NoConn},
             OutsideCommand(kind, c)
      PROVE  TransportTypeOK'
  <2>1. [kind |-> kind, conn |-> c] \in Command
    BY DEF Command
  <2>2. cmdQ' \in Seq(Command) /\ Len(cmdQ') <= CmdCap
    BY <1>4, <1>7, <2>1 DEF OutsideCommand
  <2>3. budget' \in [Conn \cup {NoConn} -> Nat]
    BY <1>7 DEF OutsideCommand
  <2> QED
    BY <1>7, <2>2, <2>3 DEF OutsideCommand
<1>8. ASSUME NEW c \in Conn,
             \/ ClientPing(c) \/ ClientClockSync(c) \/ ClientLatencyReport(c)
             \/ HeartbeatAges(c) /\ UNCHANGED transportVars
      PROVE  TransportTypeOK'
  <2>1. UNCHANGED transportVars
    BY <1>8 DEF ClientPing, ClientClockSync, ClientLatencyReport
  <2> QED
    BY <2>1
<1> DEFINE MediaRecord == [stream : Nat, seq : 0..(MaxSeq + 1),
                           held : Frame \cup {NoFrame}]
<1>9. ASSUME NEW s \in Source, OpenMedia(s) \/ ReadFrame(s) \/ ReadStop(s)
      PROVE  TransportTypeOK'
  <2>1. media[s] \in MediaRecord
    OBVIOUS
  <2>2. ASSUME OpenMedia(s) PROVE media' \in [Source -> MediaRecord]
    BY <2>1, <2>2 DEF OpenMedia
  <2>3. ASSUME ReadFrame(s) PROVE media' \in [Source -> MediaRecord]
    <3>1. VideoFrame(s, media[s].stream, media[s].seq + 1) \in Frame
      BY <2>1, <2>3 DEF ReadFrame, VideoFrame, Frame
    <3> QED
      BY <2>1, <2>3, <3>1 DEF ReadFrame
  <2>4. ASSUME ReadStop(s) PROVE media' \in [Source -> MediaRecord]
    <3>1. StopFrame(s) \in Frame
      BY DEF StopFrame, Frame
    <3> QED
      BY <2>1, <2>4, <3>1 DEF ReadStop
  <2>5. UNCHANGED <<link, ctl, budget, cmdQ, frameQ>>
    BY <1>9 DEF OpenMedia, ReadFrame, ReadStop
  <2> QED
    BY <1>9, <2>2, <2>3, <2>4, <2>5
<1>10. ASSUME NEW s \in Source, PushFrame(s) PROVE TransportTypeOK'
  <2>1. media[s].held \in Frame
    BY <1>10 DEF PushFrame
  <2>2. frameQ' \in Seq(Frame) /\ Len(frameQ') <= FrameCap
    BY <1>10, <2>1, Channel DEF PushFrame
  <2>3. media' \in [Source -> MediaRecord]
    BY <1>10 DEF PushFrame
  <2> QED
    BY <1>10, <2>2, <2>3 DEF PushFrame
<1> QED
  BY <1>1, <1>2, <1>3, <1>5, <1>6, <1>7, <1>8, <1>9, <1>10 DEF TransportNext

\* A change of configuration leaves a configuration on record.
LEMMA PlayerTypes ==
    ASSUME ReceiverTypeOK, NEW mode \in {"dashboard", "composed"},
           EnsureConfiguration(mode)
    PROVE  engine' \in {"dashboard", "composed"} /\ playerAlive' \in BOOLEAN
BY DEF EnsureConfiguration, ReceiverTypeOK

\* What the main loop changes besides the book keeps its type.
LoopTypeOK ==
    /\ running \in BOOLEAN /\ streamingActive \in BOOLEAN
    /\ engine \in {"dashboard", "composed"}
    /\ playerAlive \in BOOLEAN /\ stallReported \in BOOLEAN
    /\ submissions \in Seq(1..MaxSeq)

\* Ending a stream empties the frame channel and keeps every type.
LEMMA EndStreamTypes ==
    ASSUME ReceiverTypeOK, NEW reason, EndStream(reason)
    PROVE  /\ frameQ' \in Seq(Frame) /\ Len(frameQ') <= FrameCap
           /\ streamingActive' \in BOOLEAN
           /\ engine' \in {"dashboard", "composed"} /\ playerAlive' \in BOOLEAN
<1>1. frameQ' \in Seq(Frame) /\ Len(frameQ') <= FrameCap
  BY DEF EndStream
<1> QED
  BY <1>1, PlayerTypes DEF EndStream

\* Every handler keeps the channels and the loop's own variables well typed.
LEMMA LoopTypes == ReceiverTypeOK /\ MainLoop => TransportTypeOK' /\ LoopTypeOK'
<1> SUFFICES ASSUME ReceiverTypeOK, MainLoop PROVE TransportTypeOK' /\ LoopTypeOK'
  OBVIOUS
<1> USE DEF LoopTypeOK
<1>1. cmdQ # <<>> => Tail(cmdQ) \in Seq(Command) /\ Len(Tail(cmdQ)) <= CmdCap
  BY Channel DEF ReceiverTypeOK, TransportTypeOK
<1>2. frameQ # <<>> => Tail(frameQ) \in Seq(Frame) /\ Len(Tail(frameQ)) <= FrameCap
  BY Channel DEF ReceiverTypeOK, TransportTypeOK
<1>3. ASSUME UNCHANGED taskVars,
             cmdQ' = cmdQ \/ (cmdQ # <<>> /\ cmdQ' = Tail(cmdQ)),
             frameQ' \in Seq(Frame) /\ Len(frameQ') <= FrameCap
      PROVE  TransportTypeOK'
  BY <1>1, <1>3 DEF taskVars, ReceiverTypeOK, TransportTypeOK
<1>4. frameQ \in Seq(Frame) /\ Len(frameQ) <= FrameCap
  BY DEF ReceiverTypeOK, TransportTypeOK
<1>5. CASE HandleHello \/ HandleStart \/ HandleGetStatus \/ HandleShutdown
  <2>1. TransportTypeOK'
    BY <1>3, <1>4, <1>5 DEF HandleHello, HandleStart, HandleGetStatus, HandleShutdown,
                            NextCommand
  <2> QED
    BY <1>5, <2>1 DEF HandleHello, HandleStart, HandleGetStatus, HandleShutdown,
                      loopVars, ReceiverTypeOK
<1>6. CASE HandleStop
  <2>1. TransportTypeOK'
    BY <1>3, <1>6, EndStreamTypes DEF HandleStop, NextCommand
  <2> QED
    BY <1>6, <2>1, EndStreamTypes DEF HandleStop, ReceiverTypeOK
<1>7. CASE HandleStopFrame \/ IdleStop
  <2>1. TransportTypeOK'
    BY <1>3, <1>7, EndStreamTypes DEF HandleStopFrame, IdleStop
  <2> QED
    BY <1>7, <2>1, EndStreamTypes DEF HandleStopFrame, IdleStop, ReceiverTypeOK
<1>8. CASE DiscardFrame
  <2>1. TransportTypeOK'
    BY <1>2, <1>3, <1>8 DEF DiscardFrame, NextFrame
  <2> QED
    BY <1>8, <2>1 DEF DiscardFrame, loopVars, ReceiverTypeOK
<1>9. CASE PlayFrame
  <2>1. TransportTypeOK'
    BY <1>2, <1>3, <1>9 DEF PlayFrame, NextFrame
  <2>2. engine' \in {"dashboard", "composed"} /\ playerAlive' \in BOOLEAN
    BY <1>9, PlayerTypes DEF PlayFrame
  <2>3. Head(frameQ).seq \in 1..MaxSeq
    BY <1>9, HeadOfFrames DEF PlayFrame, ReceiverTypeOK
  <2>4. stallReported' \in BOOLEAN
    BY <1>9 DEF PlayFrame, ReceiverTypeOK
  <2>5. submissions' \in Seq(1..MaxSeq)
    <3> DEFINE m == Head(frameQ).seq
    <3> DEFINE S == 1..MaxSeq
    <3>1. submissions' = submissions \/ submissions' = Append(submissions, m)
      BY <1>9 DEF PlayFrame
    <3>2. m \in S
      BY <2>3
    <3>3. submissions \in Seq(S)
      BY DEF ReceiverTypeOK
    <3>4. SUFFICES submissions' \in Seq(S)
      OBVIOUS
    <3> HIDE DEF m, S
    <3> QED
      BY <3>1, <3>2, <3>3, Queue
  <2> QED
    BY <1>9, <2>1, <2>2, <2>4, <2>5 DEF PlayFrame, ReceiverTypeOK
<1>10. CASE HandleSubmission \/ KeepLastFrame
  <2>1. TransportTypeOK'
    BY <1>10 DEF HandleSubmission, KeepLastFrame, transportVars, ReceiverTypeOK,
                 TransportTypeOK
  <2>2. \/ submissions' = submissions
        \/ submissions # <<>> /\ submissions' = Tail(submissions)
    BY <1>10 DEF HandleSubmission, KeepLastFrame
  <2>3. submissions \in Seq(1..MaxSeq)
    BY DEF ReceiverTypeOK
  <2>4. submissions' \in Seq(1..MaxSeq)
    <3> DEFINE S == 1..MaxSeq
    <3>1. submissions \in Seq(S)
      BY <2>3
    <3>2. SUFFICES submissions' \in Seq(S)
      OBVIOUS
    <3> HIDE DEF S
    <3>3. submissions # <<>> => Tail(submissions) \in Seq(S)
      BY <3>1, Queue
    <3> QED
      BY <2>2, <3>1, <3>3
  <2> QED
    BY <1>10, <2>1, <2>4 DEF HandleSubmission, KeepLastFrame, ReceiverTypeOK
<1> QED
  BY <1>5, <1>6, <1>7, <1>8, <1>9, <1>10 DEF MainLoop

\* One step of the process keeps every type.
LEMMA ReceiverTypeStep == ReceiverTypeOK /\ [ReceiverNext]_vars => ReceiverTypeOK'
<1> SUFFICES ASSUME ReceiverTypeOK, [ReceiverNext]_vars PROVE ReceiverTypeOK'
  OBVIOUS
<1>1. TypeOK'
  BY Calls, TypeStep DEF ReceiverTypeOK
<1>2. TransportTypeOK' /\ LoopTypeOK'
  <2>1. CASE MainLoop
    BY <2>1, LoopTypes
  <2>2. CASE Tasks
    <3>1. TransportTypeOK'
      BY <2>2, TaskTypes DEF Tasks, ReceiverTypeOK
    <3> QED
      BY <2>2, <3>1 DEF Tasks, loopVars, ReceiverTypeOK, LoopTypeOK
  <2>3. CASE PlayerDies
    BY <2>3 DEF PlayerDies, transportVars, ReceiverTypeOK, TransportTypeOK, LoopTypeOK
  <2>4. CASE UNCHANGED vars
    BY <2>4 DEF vars, transportVars, loopVars, ReceiverTypeOK, TransportTypeOK,
                LoopTypeOK
  <2> QED
    BY <2>1, <2>2, <2>3, <2>4 DEF ReceiverNext
<1> QED
  BY <1>1, <1>2 DEF ReceiverTypeOK, LoopTypeOK

\* In every behaviour of the process each variable has its type; in
\* particular neither channel ever holds more than its capacity.
THEOREM ReceiverTypeCorrect == ReceiverSafety => []ReceiverTypeOK
BY ReceiverInitType, ReceiverTypeStep, PTL DEF ReceiverSafety

-----------------------------------------------------------------------------
(* The process uses the session book as module Management describes, and   *)
(* the book's theorems are theorems of the process.                        *)

\* What happens to the session book is a behaviour of module Management, whose
\* operators the tasks and the loop are made of.
LEMMA ReceiverCallsBook == ReceiverSafety => Spec
<1>1. ReceiverInit => Init
  BY DEF ReceiverInit
<1> QED
  BY <1>1, Calls, ReceiverTypeCorrect, PTL DEF ReceiverSafety, Spec

\* In the whole process, whatever the interleaving, sessions are filed once
\* and in order, the portal shows as sharing only the owner of the session,
\* and a session's estimates are made with a clock from that session.
THEOREM ReceiverKeepsBook ==
    ReceiverSafety => [](SessionsEndOnce /\ SharingOnlyOwner /\ ClockSyncOfThisSession)
BY ReceiverCallsBook, EndOnce, OnlyOwnerShares, ClockIsOfSession, PTL

-----------------------------------------------------------------------------
(* The loop's flag, the book and the player.                               *)

\* No network task opens a session: only the main loop calls start().
LEMMA TaskSessions == TransportNext /\ session' # 0 => session # 0
<1> SUFFICES ASSUME TransportNext, session' # 0 PROVE session # 0
  OBVIOUS
<1>1. ASSUME NEW c \in Conn,
             \/ Connect(c) \/ LoseConnection(c) \/ NoticeLoss(c)
             \/ NoticeDatagramError(c) \/ Wake(c) \/ SendStopFrame(c)
             \/ OpenControl(c) \/ CloseControl(c) \/ ControlSendsStop(c)
      PROVE  session # 0
  BY <1>1 DEF Connect, LoseConnection, NoticeLoss, NoticeDatagramError, Wake,
              SendStopFrame, OpenControl, CloseControl, ControlSendsStop, bookVars
<1>2. ASSUME NEW c \in Conn, Unregister(c) \/ ControlClosed(c) PROVE session # 0
  BY <1>2 DEF Unregister, ControlClosed, ConnectionClosed, Finished
<1>3. ASSUME NEW c \in Conn,
             \/ ClientPing(c) \/ ClientClockSync(c) \/ ClientLatencyReport(c)
             \/ HeartbeatAges(c)
      PROVE  session # 0
  BY <1>3 DEF ClientPing, ClientClockSync, ClientLatencyReport, TouchConnection,
              RecordClockSync, RecordEstimatedLatency, HeartbeatAges, streamVars
<1>4. ASSUME NEW c \in Conn, NEW kind \in ClientCommandKind, ClientCommand(c, kind)
      PROVE  session # 0
  BY <1>4 DEF ClientCommand, bookVars
<1>5. ASSUME NEW kind \in OutsideCommandKind, NEW c \in Conn \cup {NoConn},
             OutsideCommand(kind, c)
      PROVE  session # 0
  BY <1>5 DEF OutsideCommand, bookVars
<1>6. ASSUME NEW s \in Source,
             OpenMedia(s) \/ ReadFrame(s) \/ ReadStop(s) \/ PushFrame(s)
      PROVE  session # 0
  BY <1>6 DEF OpenMedia, ReadFrame, ReadStop, PushFrame, bookVars
<1> QED
  BY <1>1, <1>2, <1>3, <1>4, <1>5, <1>6 DEF TransportNext

\* The loop opens a session only together with its flag, and clears the flag
\* only together with the session.
THEOREM SessionWhileStreaming == ReceiverSafety => []SessionOnlyWhileStreaming
<1>1. ReceiverInit => SessionOnlyWhileStreaming
  BY DEF ReceiverInit, Init, SessionOnlyWhileStreaming
<1>2. ReceiverTypeOK /\ SessionOnlyWhileStreaming /\ [ReceiverNext]_vars
        => SessionOnlyWhileStreaming'
  <2> SUFFICES ASSUME ReceiverTypeOK, session # 0 => streamingActive,
                      [ReceiverNext]_vars, session' # 0
               PROVE  streamingActive'
    BY DEF SessionOnlyWhileStreaming
  <2>1. ASSUME NEW reason, EndStream(reason) PROVE FALSE
    BY <2>1 DEF EndStream, StopSession, Finished
  <2>2. CASE HandleStop \/ HandleStopFrame \/ IdleStop
    BY <2>1, <2>2 DEF HandleStop, HandleStopFrame, IdleStop
  <2>3. CASE HandleStart \/ PlayFrame
    BY <2>3 DEF HandleStart, PlayFrame
  <2>4. CASE HandleShutdown
    BY <2>4 DEF HandleShutdown, StopSession, Finished
  <2>5. CASE HandleHello \/ HandleGetStatus
    <3>1. UNCHANGED <<session, streamingActive>>
      BY <2>5 DEF HandleHello, HandleGetStatus, Hello, bookVars, streamVars, loopVars
    <3> QED
      BY <3>1
  <2>6. CASE DiscardFrame \/ HandleSubmission \/ KeepLastFrame
    <3>1. UNCHANGED <<session, streamingActive>>
      BY <2>6 DEF DiscardFrame, HandleSubmission, KeepLastFrame, RecordReceiverLatency,
                  bookVars, loopVars
    <3> QED
      BY <3>1
  <2>7. CASE Tasks
    <3>1. UNCHANGED streamingActive
      BY <2>7 DEF Tasks, loopVars
    <3>2. session' # 0 => session # 0
      BY <2>7, TaskSessions DEF Tasks
    <3> QED
      BY <3>1, <3>2
  <2>8. CASE PlayerDies \/ UNCHANGED vars
    BY <2>8 DEF PlayerDies, vars, bookVars, loopVars
  <2> QED
    BY <2>2, <2>3, <2>4, <2>5, <2>6, <2>7, <2>8 DEF ReceiverNext, MainLoop
<1> QED
  BY <1>1, <1>2, ReceiverTypeCorrect, PTL DEF ReceiverSafety

\* The player is started for a stream only together with the flag, and the
\* flag is cleared only once the player has been told to show the dashboard.
THEOREM IdleShowsDashboard == ReceiverSafety => []DashboardWhenIdle
<1>1. ReceiverInit => DashboardWhenIdle
  BY DEF ReceiverInit, DashboardWhenIdle
<1>2. DashboardWhenIdle /\ [ReceiverNext]_vars => DashboardWhenIdle'
  <2> SUFFICES ASSUME DashboardWhenIdle, [ReceiverNext]_vars PROVE DashboardWhenIdle'
    OBVIOUS
  <2> USE DEF DashboardWhenIdle
  <2>1. CASE UNCHANGED <<streamingActive, engine, playerAlive>>
    BY <2>1
  <2>2. ASSUME NEW reason, EndStream(reason) PROVE DashboardWhenIdle'
    BY <2>2 DEF EndStream, EnsureConfiguration
  <2>3. CASE HandleStop \/ HandleStopFrame \/ IdleStop
    BY <2>2, <2>3 DEF HandleStop, HandleStopFrame, IdleStop
  <2>4. CASE HandleStart \/ PlayFrame
    BY <2>4 DEF HandleStart, PlayFrame
  <2>5. CASE \/ HandleHello \/ HandleGetStatus \/ HandleShutdown \/ DiscardFrame
             \/ HandleSubmission \/ KeepLastFrame
    BY <2>1, <2>5 DEF HandleHello, HandleGetStatus, HandleShutdown, DiscardFrame,
                      HandleSubmission, KeepLastFrame, loopVars
  <2>6. CASE Tasks \/ UNCHANGED vars
    BY <2>1, <2>6 DEF Tasks, vars, loopVars
  <2>7. CASE PlayerDies
    BY <2>7 DEF PlayerDies
  <2> QED
    BY <2>3, <2>4, <2>5, <2>6, <2>7 DEF ReceiverNext, MainLoop
<1> QED
  BY <1>1, <1>2, PTL DEF ReceiverSafety

=============================================================================
