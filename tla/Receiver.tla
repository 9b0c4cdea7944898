------------------------------- MODULE Receiver -------------------------------
(***************************************************************************)
(* The receiver process: the main loop of src/main.rs composed with the    *)
(* session book (Management) and the network tasks (Transport).            *)
(*                                                                         *)
(* One iteration of the loop's select! is one action: its handlers do not  *)
(* await.  The branches race: when several are ready, any may run.         *)
(*                                                                         *)
(* Abstractions: one codec; the player is a GStreamer child that lives or  *)
(* not, and takes frames without delay; the latency cadence (at most one   *)
(* acknowledgement a second) lets any submission be recorded or skipped;   *)
(* telemetry is not modelled.                                              *)
(***************************************************************************)
EXTENDS Transport

CONSTANTS
    IdleTimeout,   \* IDLE_TIMEOUT_SEC
    HealthPeriod,  \* seconds between health ticks, each of which restarts the timer
    PlayerMayFail  \* bound: whether the player's process may die or fail to start

ASSUME ReceiverAssumption ==
    /\ IdleTimeout \in Nat \ {0} /\ HealthPeriod \in Nat \ {0}
    /\ PlayerMayFail \in BOOLEAN

VARIABLES
    running,          \* the process has not returned from main
    streamingActive,  \* streaming_active
    engine,           \* the configuration the player was last started with
    playerAlive,      \* its child process lives
    stallReported,    \* media_stall_reported
    submissions       \* frames written to the player, not yet acknowledged

loopVars == <<running, streamingActive, engine, playerAlive, stallReported,
              submissions>>
vars == <<bookVars, transportVars, loopVars>>

taskVars == <<link, ctl, budget, media>>

ReceiverInit ==
    /\ Init
    /\ TransportInit
    /\ running = TRUE
    /\ streamingActive = FALSE
    /\ engine = "dashboard"
    /\ playerAlive = TRUE
    /\ stallReported = FALSE
    /\ submissions = <<>>

-----------------------------------------------------------------------------
(* The player.                                                             *)

\* Mutant of EnsureConfiguration: the new child is started before the old one
\* is killed, and a failure leaves the old one running.
StartBeforeKill(mode) ==
    \/ /\ engine = mode
       /\ UNCHANGED <<engine, playerAlive>>
    \/ /\ engine # mode
       /\ engine' = mode /\ playerAlive' = TRUE
    \/ /\ engine # mode /\ PlayerMayFail
       /\ UNCHANGED <<engine, playerAlive>>

\* ensure_configuration: nothing when the configuration is current, even if
\* the child has died; otherwise the child is killed and a new one started,
\* which may fail and leaves the old configuration on record.
EnsureConfiguration(mode) ==
    \/ /\ engine = mode
       /\ UNCHANGED <<engine, playerAlive>>
    \/ /\ engine # mode
       /\ engine' = mode /\ playerAlive' = TRUE
    \/ /\ engine # mode /\ PlayerMayFail
       /\ UNCHANGED engine /\ playerAlive' = FALSE

PlayerDies ==
    /\ PlayerMayFail /\ playerAlive
    /\ playerAlive' = FALSE
    /\ UNCHANGED <<bookVars, transportVars, running, streamingActive, engine,
                   stallReported, submissions>>

-----------------------------------------------------------------------------
(* Commands.                                                               *)

NextCommand(kinds) == cmdQ # <<>> /\ Head(cmdQ).kind \in kinds

\* Mutant of EndStream: the session is not closed.
EndStreamOnly(reason) ==
    /\ UNCHANGED bookVars
    /\ streamingActive' = FALSE
    /\ EnsureConfiguration("dashboard")
    /\ frameQ' = <<>>

\* Every way a stream ends: the book, the flag, the dashboard, and the frames
\* that are waiting.
EndStream(reason) ==
    /\ StopSession(reason)
    /\ streamingActive' = FALSE
    /\ EnsureConfiguration("dashboard")
    /\ frameQ' = <<>>

HandleHello ==
    /\ NextCommand({"hello"})
    /\ cmdQ' = Tail(cmdQ)
    /\ IF Head(cmdQ).conn \in Conn THEN Hello(Head(cmdQ).conn) ELSE UNCHANGED bookVars
    /\ UNCHANGED <<taskVars, frameQ, loopVars>>

\* The sender is looked up among the connections that have said hello.
StartSender(c) == IF c \in Sender THEN c ELSE NoConn

HandleStart ==
    /\ NextCommand({"start"})
    /\ cmdQ' = Tail(cmdQ)
    /\ StartSession(StartSender(Head(cmdQ).conn))
    /\ streamingActive' = TRUE
    /\ stallReported' = FALSE
    /\ UNCHANGED <<taskVars, frameQ, running, engine, playerAlive, submissions>>

CommandReason(kind) == IF kind = "stop" THEN "user_stop" ELSE "admin_stop"

HandleStop ==
    /\ NextCommand({"stop", "admin_stop"})
    /\ cmdQ' = Tail(cmdQ)
    /\ EndStream(CommandReason(Head(cmdQ).kind))
    /\ stallReported' = FALSE
    /\ UNCHANGED <<taskVars, running, submissions>>

HandleGetStatus ==
    /\ NextCommand({"get_status"})
    /\ cmdQ' = Tail(cmdQ)
    /\ UNCHANGED <<taskVars, frameQ, bookVars, loopVars>>

HandleShutdown ==
    /\ NextCommand({"shutdown"})
    /\ cmdQ' = Tail(cmdQ)
    /\ StopSession("shutdown")
    /\ running' = FALSE
    /\ UNCHANGED <<taskVars, frameQ, streamingActive, engine, playerAlive,
                   stallReported, submissions>>

-----------------------------------------------------------------------------
(* Frames.                                                                 *)

NextFrame(kind) == frameQ # <<>> /\ Head(frameQ).kind = kind

HandleStopFrame ==
    /\ NextFrame("stop")
    /\ EndStream("user_stop")
    /\ UNCHANGED <<taskVars, cmdQ, running, stallReported, submissions>>

\* A frame is wanted while a stream is active, and a first frame starts one.
Wanted(f) == streamingActive \/ f.seq <= 1

DiscardFrame ==
    /\ NextFrame("video") /\ ~Wanted(Head(frameQ))
    /\ frameQ' = Tail(frameQ)
    /\ UNCHANGED <<taskVars, cmdQ, bookVars, loopVars>>

\* A dead player takes frames until its writer thread has noticed; it never
\* acknowledges one.
PlayFrame ==
    /\ NextFrame("video") /\ Wanted(Head(frameQ))
    /\ frameQ' = Tail(frameQ)
    /\ streamingActive' = TRUE
    /\ EnsureConfiguration("composed")
    /\ \/ /\ RecordFrame(Head(frameQ).seq)
          /\ stallReported' = FALSE
          /\ submissions' = IF playerAlive' /\ Timed
                            THEN Append(submissions, Head(frameQ).seq)
                            ELSE submissions
       \/ /\ ~playerAlive'
          /\ UNCHANGED <<bookVars, stallReported, submissions>>
    /\ UNCHANGED <<taskVars, cmdQ, running>>

\* An acknowledgement from the writer thread; the cadence may skip it.  Neither
\* a stop nor a start throws away those on their way.
HandleSubmission ==
    /\ submissions # <<>>
    /\ submissions' = Tail(submissions)
    /\ \/ streamingActive /\ RecordReceiverLatency(Head(submissions))
       \/ UNCHANGED bookVars
    /\ UNCHANGED <<transportVars, running, streamingActive, engine, playerAlive,
                   stallReported>>

\* timeout(idle_timeout, rx.recv()) is created anew in every iteration, and
\* the health tick ends an iteration every HealthPeriod seconds: the timer
\* expires only if it is not the longer of the two and nothing else is ready.
IdleTimerExpires == IdleTimeout <= HealthPeriod /\ frameQ = <<>> /\ cmdQ = <<>>

KeepLastFrame ==
    /\ IdleTimerExpires /\ streamingActive
    /\ HeartbeatFresh
    /\ stallReported' = TRUE
    /\ UNCHANGED <<transportVars, bookVars, running, streamingActive, engine,
                   playerAlive, submissions>>

IdleStop ==
    /\ IdleTimerExpires /\ streamingActive
    /\ ~HeartbeatFresh
    /\ EndStream("idle_timeout")
    /\ stallReported' = FALSE
    /\ UNCHANGED <<taskVars, cmdQ, running, submissions>>

-----------------------------------------------------------------------------
MainLoop ==
    \/ HandleHello \/ HandleStart \/ HandleStop \/ HandleGetStatus \/ HandleShutdown
    \/ HandleStopFrame \/ DiscardFrame \/ PlayFrame
    \/ HandleSubmission
    \/ KeepLastFrame \/ IdleStop

Tasks == TransportNext /\ UNCHANGED loopVars

\* When main returns, every task goes with the process.
ReceiverNext == running /\ (MainLoop \/ Tasks \/ PlayerDies)

ReceiverSafety == ReceiverInit /\ [][ReceiverNext]_vars

\* The runtime polls every task that can make progress; select! picks at
\* random among the ready branches, so a connection task that keeps waking to
\* a lost connection does notice it.
TaskFairness ==
    /\ \A c \in Conn :
        /\ SF_vars(running /\ NoticeLoss(c) /\ UNCHANGED loopVars)
        /\ WF_vars(running /\ Wake(c) /\ UNCHANGED loopVars)
        /\ SF_vars(running /\ SendStopFrame(c) /\ UNCHANGED loopVars)
        /\ WF_vars(running /\ Unregister(c) /\ UNCHANGED loopVars)
        /\ WF_vars(running /\ link[c] # "open" /\ CloseControl(c) /\ UNCHANGED loopVars)
        /\ WF_vars(running /\ ControlClosed(c) /\ UNCHANGED loopVars)
        /\ SF_vars(running /\ ControlSendsStop(c) /\ UNCHANGED loopVars)
        /\ WF_vars(running /\ HeartbeatAges(c) /\ UNCHANGED <<transportVars, loopVars>>)
    /\ \A s \in Source : SF_vars(running /\ PushFrame(s) /\ UNCHANGED loopVars)

LoopFairness ==
    /\ WF_vars(running /\ (HandleHello \/ HandleStart \/ HandleStop
                           \/ HandleGetStatus \/ HandleShutdown))
    /\ WF_vars(running /\ (HandleStopFrame \/ DiscardFrame \/ PlayFrame))
    /\ WF_vars(running /\ HandleSubmission)
    /\ WF_vars(running /\ IdleStop)

ReceiverSpec == ReceiverSafety /\ TaskFairness /\ LoopFairness

-----------------------------------------------------------------------------
(* Properties.                                                             *)

\* Every variable of the receiver has its type.
ReceiverTypeOK ==
    /\ TypeOK
    /\ TransportTypeOK
    /\ running \in BOOLEAN /\ streamingActive \in BOOLEAN
    /\ engine \in {"dashboard", "composed"}
    /\ playerAlive \in BOOLEAN /\ stallReported \in BOOLEAN
    /\ submissions \in Seq(1..MaxSeq)

\* The book never holds a session the loop has forgotten: whatever stopped
\* the stream (a command, a stop frame of any connection, the idle timer)
\* closed the session with it.
SessionOnlyWhileStreaming == session # 0 => streamingActive

\* When nothing is streaming the player that runs shows the dashboard: no
\* frame that trails a stop, and no failed restart of the player, leaves it
\* running a stream's pipeline.
DashboardWhenIdle == ~streamingActive /\ playerAlive => engine = "dashboard"

\* Both tasks that serve c have told the book that it closed.
Departed(c) == link[c] = "gone" /\ ctl[c] \in {"none", "stopping", "ended"}

\* A Start of c was still queued then: handled late, it makes c the owner of a
\* session that no disconnect will end.
StartLeftBehind(c) ==
    Departed(c) /\ \E i \in DOMAIN cmdQ : cmdQ[i] = [kind |-> "start", conn |-> c]

\* A lost connection loses its session for good: from some moment on it owns
\* none, whichever of its tasks notices first and however long they wait for
\* room in the channels, except when a Start of its outlived both of them.
LostOwnerReleased ==
    \A c \in Conn :
        link[c] = "lost" ~> \/ ~running
                            \/ []~SenderWasActive(c)
                            \/ StartLeftBehind(c)

\* Every lost connection is unregistered in the end, although its task first
\* has to get its stop frame into a channel others keep filling.
LostConnectionUnregisters ==
    \A c \in Conn : link[c] = "lost" ~> ~running \/ link[c] = "gone"

\* What the idle timer is for: once every connection is gone and no media
\* comes, the display goes back to the dashboard.
Abandoned ==
    /\ \A c \in Conn : link[c] \in {"new", "gone"} /\ ctl[c] \in {"none", "ended"}
    /\ \A s \in Source : media[s].held = NoFrame
    /\ cmdQ = <<>> /\ frameQ = <<>>
AbandonedStreamReleased == <>[]Abandoned => <>[](~streamingActive \/ ~running)
=============================================================================
