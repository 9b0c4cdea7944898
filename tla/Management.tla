----------------------------- MODULE Management -----------------------------
(***************************************************************************)
(* The receiver's session book: src/management.rs.                         *)
(*                                                                         *)
(* Every method of ManagementState takes one mutex, so each is one action. *)
(* The methods are called by the connection tasks, the control-stream      *)
(* tasks and the main loop in any order; Next below lets every caller call *)
(* every method, and module Receiver restricts the calls to those its      *)
(* tasks make.                                                             *)
(*                                                                         *)
(* Abstractions: client metadata, codec configuration, counters, charts,   *)
(* the event ring and the health record are left out; the age of           *)
(* last_seen_at_sec is kept as "within the sender liveness timeout" or     *)
(* not; a clock synchronisation is the session during which it was         *)
(* recorded; a latency estimate is the sequence number it is for.          *)
(***************************************************************************)
EXTENDS Naturals, Sequences

CONSTANTS
    Conn,         \* WebTransport connection identifiers ("wt-<n>")
    NoConn,       \* a stream whose sender is not a known connection
    MaxHistory,   \* retained session records (MAX_HISTORY)
    MaxSessions,  \* bound: sessions started in one behaviour
    MaxSeq        \* bound: frame sequence numbers used by this module's Next

ASSUME ManagementAssumption ==
    /\ NoConn \notin Conn
    /\ MaxHistory \in Nat \ {0}
    /\ MaxSessions \in Nat
    /\ MaxSeq \in Nat

VARIABLES
    conns,        \* connections: the record hello() created, or absent
    session,      \* id of the active stream, 0 when there is none
    owner,        \* sender of the active stream
    lastSeq,      \* last_seq of the active stream, 0 for None
    estSeq,       \* seq of its latest latency estimate, 0 for None
    nextSession,  \* next_session
    history,      \* finished sessions, newest first
    clockSync     \* clock_syncs: which connections have one, and since when

bookVars == <<conns, session, owner, lastSeq, estSeq, nextSession, history,
              clockSync>>
streamVars == <<session, owner, lastSeq, estSeq, nextSession, history>>

-----------------------------------------------------------------------------
EndReason == {"user_stop", "admin_stop", "idle_timeout", "disconnect",
              "replaced", "shutdown"}

ConnRecord == [known : BOOLEAN, connected : BOOLEAN, sharing : BOOLEAN,
               fresh : BOOLEAN]

Unknown == [known |-> FALSE, connected |-> FALSE, sharing |-> FALSE,
            fresh |-> FALSE]

\* ClockSyncState; "during" is the session active when it was recorded.
ClockRecord == [synced : BOOLEAN, during : Nat]
NoClock == [synced |-> FALSE, during |-> 0]

SessionRecord == [id : Nat \ {0}, sender : Conn \cup {NoConn}, reason : EndReason]

Init ==
    /\ conns = [c \in Conn |-> Unknown]
    /\ session = 0
    /\ owner = NoConn
    /\ lastSeq = 0
    /\ estSeq = 0
    /\ nextSession = 1
    /\ history = <<>>
    /\ clockSync = [c \in Conn |-> NoClock]

-----------------------------------------------------------------------------
(* The pieces of a step that the methods share.                            *)

\* Mutants of Recorded: no truncation; push_back for push_front.
RecordedUntruncated(reason) ==
    <<[id |-> session, sender |-> owner, reason |-> reason]>> \o history
RecordedAtTheBack(reason) ==
    LET all == history \o <<[id |-> session, sender |-> owner, reason |-> reason]>>
    IN IF Len(all) > MaxHistory THEN SubSeq(all, 1, MaxHistory) ELSE all

\* history.push_front followed by the truncation to MAX_HISTORY.
Recorded(reason) ==
    LET all == <<[id |-> session, sender |-> owner, reason |-> reason]>> \o history
    IN IF Len(all) > MaxHistory THEN SubSeq(all, 1, MaxHistory) ELSE all

\* Mutant of Finished: the active stream is cloned, not taken.
FinishedAndKept(reason) ==
    /\ UNCHANGED <<session, owner, lastSeq, estSeq>>
    /\ history' = Recorded(reason)

\* finish_locked: the active stream moves to the history.
Finished(reason) ==
    /\ session' = 0
    /\ owner' = NoConn
    /\ lastSeq' = 0
    /\ estSeq' = 0
    /\ history' = Recorded(reason)

NotSharing(c) ==
    IF c \in Conn THEN [conns EXCEPT ![c].sharing = FALSE] ELSE conns

\* Mutant of SenderWasActive: any stream counts.
AnySenderWasActive(c) == session # 0

\* connection_closed returns this: whether the caller owned the stream.
SenderWasActive(c) == session # 0 /\ owner = c

\* active_sender_heartbeat_fresh.
HeartbeatFresh ==
    /\ session # 0
    /\ owner \in Conn
    /\ conns[owner].known /\ conns[owner].connected /\ conns[owner].fresh

-----------------------------------------------------------------------------
(* The methods.                                                            *)

\* insert() overwrites the whole record, the sharing flag included.
Hello(c) ==
    /\ conns' = [conns EXCEPT ![c] = [known |-> TRUE, connected |-> TRUE,
                                       sharing |-> FALSE, fresh |-> TRUE]]
    /\ UNCHANGED <<streamVars, clockSync>>

ConnectionClosed(c) ==
    /\ clockSync' = [clockSync EXCEPT ![c] = NoClock]
    /\ conns' = [conns EXCEPT ![c] =
                    IF @.known
                    THEN [@ EXCEPT !.connected = FALSE, !.sharing = FALSE,
                                   !.fresh = TRUE]
                    ELSE @]
    /\ UNCHANGED nextSession
    /\ IF SenderWasActive(c)
       THEN Finished("disconnect")
       ELSE UNCHANGED <<session, owner, lastSeq, estSeq, history>>

\* Refreshes a live connection; nothing happens for any other.
TouchConnection(c) ==
    /\ conns' = [conns EXCEPT ![c].fresh = @ \/ conns[c].connected]
    /\ UNCHANGED <<streamVars, clockSync>>

\* route_control_payload touches the connection before it records the clock.
RecordClockSync(c) ==
    /\ conns' = [conns EXCEPT ![c].fresh = @ \/ conns[c].connected]
    /\ clockSync' = IF conns[c].connected
                    THEN [clockSync EXCEPT ![c] = [synced |-> TRUE, during |-> session]]
                    ELSE clockSync
    /\ UNCHANGED streamVars

\* Mutant of ClockDropped: a new stream keeps its sender's clock.
ClockKept(sender) == clockSync

\* The clock synchronisation of a new stream's sender is removed.
ClockDropped(sender) ==
    IF sender \in Conn THEN [clockSync EXCEPT ![sender] = NoClock] ELSE clockSync

\* start(config, sender): a running stream is finished as "replaced" first.
StartSession(sender) ==
    /\ nextSession <= MaxSessions
    /\ session' = nextSession
    /\ nextSession' = nextSession + 1
    /\ owner' = sender
    /\ lastSeq' = 0
    /\ estSeq' = 0
    /\ history' = IF session # 0 THEN Recorded("replaced") ELSE history
    /\ LET idle == IF session # 0 THEN NotSharing(owner) ELSE conns
       IN conns' = IF sender \in Conn /\ idle[sender].known
                   THEN [idle EXCEPT ![sender].sharing = TRUE, ![sender].fresh = TRUE]
                   ELSE idle
    /\ clockSync' = ClockDropped(sender)

\* Mutant of StopSession: the sender keeps its sharing flag.
StopKeepsSharing(reason) ==
    /\ UNCHANGED <<nextSession, clockSync, conns>>
    /\ IF session # 0
       THEN Finished(reason)
       ELSE UNCHANGED <<session, owner, lastSeq, estSeq, history>>

\* stop(reason): idempotent.
StopSession(reason) ==
    /\ UNCHANGED <<nextSession, clockSync>>
    /\ IF session # 0
       THEN Finished(reason) /\ conns' = NotSharing(owner)
       ELSE UNCHANGED <<session, owner, lastSeq, estSeq, history, conns>>

\* record_frame: counts the frame and refreshes the owner of the stream.
RecordFrame(seq) ==
    /\ conns' = IF session # 0 /\ owner \in Conn /\ conns[owner].known
                THEN [conns EXCEPT ![owner].fresh = TRUE] ELSE conns
    /\ lastSeq' = IF session # 0 THEN seq ELSE lastSeq
    /\ UNCHANGED <<session, owner, estSeq, nextSession, history, clockSync>>

\* Mutant of ReportAccepted: an older frame's report is accepted too.
ReportAcceptedLate(c, seq) == session # 0 /\ owner = c /\ seq > 0 /\ seq <= lastSeq

\* record_estimated_latency, after the range checks on the sample.
ReportAccepted(c, seq) ==
    /\ session # 0 /\ owner = c
    /\ seq >= estSeq
    /\ seq > 0 /\ seq <= lastSeq

RecordEstimatedLatency(c, seq) ==
    /\ conns' = [conns EXCEPT ![c].fresh = @ \/ conns[c].connected]
    /\ estSeq' = IF ReportAccepted(c, seq) THEN seq ELSE estSeq
    /\ UNCHANGED <<session, owner, lastSeq, nextSession, history, clockSync>>

\* record_receiver_estimated_latency: the receiver's own estimate, made with
\* the owner's clock synchronisation.
ReceiverEstimateAccepted(seq) ==
    /\ session # 0 /\ owner \in Conn
    /\ clockSync[owner].synced
    /\ seq > estSeq

RecordReceiverLatency(seq) ==
    /\ estSeq' = IF ReceiverEstimateAccepted(seq) THEN seq ELSE estSeq
    /\ UNCHANGED <<conns, session, owner, lastSeq, nextSession, history, clockSync>>

\* Time passes: SENDER_LIVENESS_TIMEOUT_SEC since the last sign of life of c.
HeartbeatAges(c) ==
    /\ conns[c].fresh
    /\ conns' = [conns EXCEPT ![c].fresh = FALSE]
    /\ UNCHANGED <<streamVars, clockSync>>

-----------------------------------------------------------------------------
\* A session's sender is a connection the book knows: main.rs looks it up in
\* snapshot().connections and passes None when it is not there.
Sender == {c \in Conn : conns[c].known} \cup {NoConn}

StopReason == {"user_stop", "admin_stop", "idle_timeout", "shutdown"}

Next ==
    \/ \E c \in Conn :
        \/ Hello(c)
        \/ ConnectionClosed(c)
        \/ TouchConnection(c)
        \/ RecordClockSync(c)
        \/ HeartbeatAges(c)
        \/ \E seq \in 1..MaxSeq : RecordEstimatedLatency(c, seq)
    \/ \E s \in Sender : StartSession(s)
    \/ \E r \in StopReason : StopSession(r)
    \/ \E seq \in 1..MaxSeq : RecordFrame(seq) \/ RecordReceiverLatency(seq)

Spec == Init /\ [][Next]_bookVars

-----------------------------------------------------------------------------
(* Properties.                                                             *)

\* Every variable of the book has its type; ids are below next_session and
\* the history never holds more than MAX_HISTORY records.
TypeOK ==
    /\ conns \in [Conn -> ConnRecord]
    /\ session \in Nat
    /\ owner \in Conn \cup {NoConn}
    /\ lastSeq \in Nat
    /\ estSeq \in Nat
    /\ nextSession \in Nat \ {0}
    /\ history \in Seq(SessionRecord)
    /\ Len(history) <= MaxHistory
    /\ clockSync \in [Conn -> ClockRecord]

\* Whoever ends a session (the sender's Stop, the operator, the idle timer,
\* the loss of its connection, a newer Start, shutdown), and however those
\* calls race, finish_locked files it once: the retained records are distinct
\* sessions, newest first, and the session being shared is not among them.
SessionsEndOnce ==
    /\ \A i, j \in 1..Len(history) : i < j => history[j].id < history[i].id
    /\ \A i \in 1..Len(history) : history[i].id < nextSession
    /\ session # 0 =>
         /\ session = nextSession - 1
         /\ \A i \in 1..Len(history) : history[i].id < session

\* The portal marks a connection as sharing only while the active stream is
\* that connection's: start, stop and connection_closed keep the two places
\* the receiver remembers its sender (ActiveStream.sender and
\* ConnectionRecord.sharing) from contradicting each other.
SharingOnlyOwner ==
    \A c \in Conn : conns[c].sharing => session # 0 /\ owner = c

\* start() drops the sender's clock synchronisation, so the estimates of a
\* session are never made with one from before it, whatever came between.
ClockSyncOfThisSession ==
    session # 0 /\ owner \in Conn /\ clockSync[owner].synced
        => clockSync[owner].during = session

\* Within one session the latency estimate never goes back to an older frame,
\* though the sender's reports and the receiver's own estimates interleave,
\* and a new session starts with none.
EstimateNeverGoesBack ==
    [][IF session' = session THEN estSeq' >= estSeq ELSE estSeq' = 0]_bookVars

\* A connection that closed takes its session and its clock with it: closing
\* is the one call that ends a session as "disconnect", and only the session
\* whose sender is no longer connected.
DisconnectEndsOwnSession ==
    [][history' # history /\ history'[1].reason = "disconnect"
        => /\ session' = 0
           /\ owner \in Conn /\ ~conns'[owner].connected
           /\ ~clockSync'[owner].synced]_bookVars

\* The book implements the abstract register of sessions.
Book == INSTANCE SessionBook WITH
    Senders <- Conn \cup {NoConn}, NoSender <- NoConn, Reasons <- EndReason,
    active <- session, sender <- owner, begun <- nextSession - 1, record <- history
BookSpec == Book!Spec

=============================================================================
