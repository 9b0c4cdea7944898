------------------------------ MODULE Transport ------------------------------
(***************************************************************************)
(* The receiver's network tasks: src/webtransport_server.rs.               *)
(*                                                                         *)
(* Each WebTransport connection has a connection task (accepting streams), *)
(* one control-stream task and one media-stream task; a companion UDP      *)
(* socket is a further media source.  They share the session book with     *)
(* module Receiver's main loop, and feed it through two bounded channels:  *)
(* commands and frames.  A task whose channel is full waits.               *)
(*                                                                         *)
(* Abstractions: a media source yields complete access units in sequence   *)
(* order (module Reassembly has the packets); datagram frames are those of *)
(* the media task; a message the client sent before it vanished may still  *)
(* be read; a touch and the record that follows it are one step.           *)
(***************************************************************************)
EXTENDS Management

CONSTANTS
    Udp,          \* the companion UDP socket, a media source without a connection
    CmdCap,       \* CONTROL_CHANNEL_CAPACITY
    FrameCap,     \* FRAME_CHANNEL_CAPACITY
    Timed,        \* whether the clients send timing metadata with their frames
    MaxCommands,  \* bound: commands each client, and the outside (NoConn), sends
    MaxStreams    \* bound: media streams each source opens

Source == Conn \cup {Udp}

ASSUME TransportAssumption ==
    /\ Udp \notin Conn \cup {NoConn}
    /\ CmdCap \in Nat \ {0} /\ FrameCap \in Nat \ {0}
    /\ Timed \in BOOLEAN
    /\ MaxCommands \in [Conn \cup {NoConn} -> Nat]
    /\ MaxStreams \in [Source -> Nat]

VARIABLES
    link,     \* where each connection and its connection task are
    ctl,      \* where the control-stream task of each connection is
    budget,   \* commands each client (NoConn: the outside) may still send
    media,    \* per source: stream number, last sequence read, frame held
    cmdQ,     \* the command channel
    frameQ    \* the frame channel

transportVars == <<link, ctl, budget, media, cmdQ, frameQ>>

-----------------------------------------------------------------------------
LinkState == {"new", "open", "lost", "asleep", "leaving", "parting", "gone"}
CtlState == {"none", "open", "closing", "stopping", "ended"}
ClientCommandKind == {"hello", "start", "stop"}
OutsideCommandKind == {"hello", "start", "stop", "admin_stop", "shutdown", "get_status"}

Command == [kind : ClientCommandKind \cup OutsideCommandKind,
            conn : Conn \cup {NoConn}]

\* A frame and the number of its source's stream that carried it, which the
\* code does not know; properties refer to it.
StopFrame(s) == [kind |-> "stop", seq |-> 0, src |-> s, stream |-> 0]
VideoFrame(s, stream, seq) ==
    [kind |-> "video", seq |-> seq, src |-> s, stream |-> stream]
Frame == [kind : {"stop"}, seq : {0}, src : Source, stream : {0}]
    \cup [kind : {"video"}, seq : 1..MaxSeq, src : Source, stream : Nat]
NoFrame == [kind |-> "none", seq |-> 0, src |-> Udp, stream |-> 0]

TransportInit ==
    /\ link = [c \in Conn |-> "new"]
    /\ ctl = [c \in Conn |-> "none"]
    /\ budget = MaxCommands
    /\ media = [s \in Source |-> [stream |-> 0, seq |-> 0, held |-> NoFrame]]
    /\ cmdQ = <<>>
    /\ frameQ = <<>>

-----------------------------------------------------------------------------
(* Connections.                                                            *)

\* Admission passed and the session accepted.
Connect(c) ==
    /\ link[c] = "new"
    /\ link' = [link EXCEPT ![c] = "open"]
    /\ UNCHANGED <<ctl, budget, media, cmdQ, frameQ, bookVars>>

\* The peer closes, or QUIC's idle timeout gives it up.
LoseConnection(c) ==
    /\ link[c] = "open"
    /\ link' = [link EXCEPT ![c] = "lost"]
    /\ UNCHANGED <<ctl, budget, media, cmdQ, frameQ, bookVars>>

\* On a lost connection accept_uni and receive_datagram both fail, and
\* select! takes either: the first leaves the loop, ...
NoticeLoss(c) ==
    /\ link[c] = "lost"
    /\ link' = [link EXCEPT ![c] = "leaving"]
    /\ UNCHANGED <<ctl, budget, media, cmdQ, frameQ, bookVars>>

\* ... the second sleeps DATAGRAM_ERROR_RETRY_SEC and tries again.
NoticeDatagramError(c) ==
    /\ link[c] = "lost"
    /\ link' = [link EXCEPT ![c] = "asleep"]
    /\ UNCHANGED <<ctl, budget, media, cmdQ, frameQ, bookVars>>

\* Mutant of Wake: it retries the datagram without going back to select!.
WakeToDatagrams(c) == link[c] = "asleep" /\ UNCHANGED <<bookVars, transportVars>>

Wake(c) ==
    /\ link[c] = "asleep"
    /\ link' = [link EXCEPT ![c] = "lost"]
    /\ UNCHANGED <<ctl, budget, media, cmdQ, frameQ, bookVars>>

\* Mutant of SendStopFrame: try_send, and an error return when it is full.
TrySendStopFrame(c) ==
    /\ link[c] = "leaving"
    /\ IF Len(frameQ) < FrameCap
       THEN frameQ' = Append(frameQ, StopFrame(c)) /\ link' = [link EXCEPT ![c] = "parting"]
       ELSE UNCHANGED frameQ /\ link' = [link EXCEPT ![c] = "gone"]
    /\ UNCHANGED <<ctl, budget, media, cmdQ, bookVars>>

\* The connection task says stop, whoever owns the stream, and then
\* unregisters the connection.
SendStopFrame(c) ==
    /\ link[c] = "leaving"
    /\ Len(frameQ) < FrameCap
    /\ frameQ' = Append(frameQ, StopFrame(c))
    /\ link' = [link EXCEPT ![c] = "parting"]
    /\ UNCHANGED <<ctl, budget, media, cmdQ, bookVars>>

Unregister(c) ==
    /\ link[c] = "parting"
    /\ link' = [link EXCEPT ![c] = "gone"]
    /\ ConnectionClosed(c)
    /\ UNCHANGED <<ctl, budget, media, cmdQ, frameQ>>

-----------------------------------------------------------------------------
(* Control streams.                                                        *)

Enqueued(cmd) ==
    /\ Len(cmdQ) < CmdCap
    /\ cmdQ' = Append(cmdQ, cmd)

OpenControl(c) ==
    /\ link[c] = "open" /\ ctl[c] = "none"
    /\ Enqueued([kind |-> "get_status", conn |-> c])
    /\ ctl' = [ctl EXCEPT ![c] = "open"]
    /\ UNCHANGED <<link, budget, media, frameQ, bookVars>>

\* Hello, Start and Stop go to the main loop, stamped with the connection.
ClientCommand(c, kind) ==
    /\ ctl[c] = "open" /\ budget[c] > 0
    /\ Enqueued([kind |-> kind, conn |-> c])
    /\ budget' = [budget EXCEPT ![c] = @ - 1]
    /\ UNCHANGED <<link, ctl, media, frameQ, bookVars>>

\* A ping or a diagnostic: answered here, it only refreshes the connection.
ClientPing(c) ==
    /\ link[c] = "open" /\ ctl[c] = "open"
    /\ TouchConnection(c)
    /\ UNCHANGED transportVars

ClientClockSync(c) ==
    /\ Timed
    /\ link[c] = "open" /\ ctl[c] = "open"
    /\ RecordClockSync(c)
    /\ UNCHANGED transportVars

ClientLatencyReport(c) ==
    /\ Timed
    /\ link[c] = "open" /\ ctl[c] = "open"
    /\ \E seq \in 1..MaxSeq : RecordEstimatedLatency(c, seq)
    /\ UNCHANGED transportVars

\* The stream ends: its client finished it, or the connection was lost.
CloseControl(c) ==
    /\ ctl[c] = "open"
    /\ ctl' = [ctl EXCEPT ![c] = "closing"]
    /\ UNCHANGED <<link, budget, media, cmdQ, frameQ, bookVars>>

ControlClosed(c) ==
    /\ ctl[c] = "closing"
    /\ ctl' = [ctl EXCEPT ![c] = IF SenderWasActive(c) THEN "stopping" ELSE "ended"]
    /\ ConnectionClosed(c)
    /\ UNCHANGED <<link, budget, media, cmdQ, frameQ>>

ControlSendsStop(c) ==
    /\ ctl[c] = "stopping"
    /\ Enqueued([kind |-> "stop", conn |-> c])
    /\ ctl' = [ctl EXCEPT ![c] = "ended"]
    /\ UNCHANGED <<link, budget, media, frameQ, bookVars>>

\* The legacy WebSocket endpoint passes on any command as it is, and the
\* supervisor's socket sends its own.  A hello or a start from there is about the
\* connection it names; a hello that names none is that of "legacy", a
\* connection no task serves.
OutsideCommand(kind, c) ==
    /\ budget[NoConn] > 0
    /\ c \in Conn => kind \in {"hello", "start"}
    /\ c = NoConn => kind # "hello"
    /\ Enqueued([kind |-> kind, conn |-> c])
    /\ budget' = [budget EXCEPT ![NoConn] = @ - 1]
    /\ UNCHANGED <<link, ctl, media, frameQ, bookVars>>

-----------------------------------------------------------------------------
(* Media.                                                                  *)

\* A source has packets to read while its connection exists.
Sending(s) == s = Udp \/ (s \in Conn /\ link[s] # "new")

OpenMedia(s) ==
    /\ IF s = Udp THEN TRUE ELSE link[s] = "open"
    /\ media[s].stream < MaxStreams[s]
    /\ media' = [media EXCEPT ![s] = [stream |-> @.stream + 1, seq |-> 0, held |-> @.held]]
    /\ UNCHANGED <<link, ctl, budget, cmdQ, frameQ, bookVars>>

\* process_udp_chunk completes the next access unit; the task then holds it
\* until the frame channel takes it, even if the connection is lost.
ReadFrame(s) ==
    /\ Sending(s) /\ media[s].stream > 0
    /\ media[s].held = NoFrame
    /\ media[s].seq < MaxSeq
    /\ media' = [media EXCEPT ![s] =
                    [stream |-> @.stream, seq |-> @.seq + 1,
                     held |-> VideoFrame(s, @.stream, @.seq + 1)]]
    /\ UNCHANGED <<link, ctl, budget, cmdQ, frameQ, bookVars>>

\* A STOP packet; it is a stream's last.
ReadStop(s) ==
    /\ Sending(s) /\ media[s].stream > 0
    /\ media[s].held = NoFrame
    /\ media[s].seq <= MaxSeq
    /\ media' = [media EXCEPT ![s] =
                    [stream |-> @.stream, seq |-> MaxSeq + 1, held |-> StopFrame(s)]]
    /\ UNCHANGED <<link, ctl, budget, cmdQ, frameQ, bookVars>>

\* Mutant of PushFrame: an unbounded channel.
PushFrameUnbounded(s) ==
    /\ media[s].held # NoFrame
    /\ frameQ' = Append(frameQ, media[s].held)
    /\ media' = [media EXCEPT ![s].held = NoFrame]
    /\ UNCHANGED <<link, ctl, budget, cmdQ, bookVars>>

PushFrame(s) ==
    /\ media[s].held # NoFrame
    /\ Len(frameQ) < FrameCap
    /\ frameQ' = Append(frameQ, media[s].held)
    /\ media' = [media EXCEPT ![s].held = NoFrame]
    /\ UNCHANGED <<link, ctl, budget, cmdQ, bookVars>>

-----------------------------------------------------------------------------
TransportNext ==
    \/ \E c \in Conn :
        \/ Connect(c) \/ LoseConnection(c) \/ NoticeLoss(c)
        \/ NoticeDatagramError(c) \/ Wake(c)
        \/ SendStopFrame(c) \/ Unregister(c)
        \/ OpenControl(c) \/ CloseControl(c) \/ ControlClosed(c)
        \/ ControlSendsStop(c)
        \/ ClientPing(c) \/ ClientClockSync(c) \/ ClientLatencyReport(c)
        \/ \E kind \in ClientCommandKind : ClientCommand(c, kind)
        \/ HeartbeatAges(c) /\ UNCHANGED transportVars
    \/ \E kind \in OutsideCommandKind, c \in Conn \cup {NoConn} : OutsideCommand(kind, c)
    \/ \E s \in Source : OpenMedia(s) \/ ReadFrame(s) \/ ReadStop(s) \/ PushFrame(s)

TransportTypeOK ==
    /\ link \in [Conn -> LinkState]
    /\ ctl \in [Conn -> CtlState]
    /\ budget \in [Conn \cup {NoConn} -> Nat]
    /\ media \in [Source -> [stream : Nat, seq : 0..(MaxSeq + 1),
                             held : Frame \cup {NoFrame}]]
    /\ cmdQ \in Seq(Command) /\ Len(cmdQ) <= CmdCap
    /\ frameQ \in Seq(Frame) /\ Len(frameQ) <= FrameCap

=============================================================================
