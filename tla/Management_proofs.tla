-------------------------- MODULE Management_proofs --------------------------
(***************************************************************************)
(* Proofs about the session book, for any connections and any bounds.      *)
(***************************************************************************)
EXTENDS Management, SequenceTheorems, TLAPS

USE ManagementAssumption

-----------------------------------------------------------------------------
(* The history.                                                            *)

\* push_front and truncation keep a history that is bounded and well formed,
\* put the session that ends first, and shift the retained records by one.
LEMMA RecordedFacts ==
    ASSUME TypeOK, session # 0, NEW reason \in EndReason
    PROVE  /\ Recorded(reason) \in Seq(SessionRecord)
           /\ Len(Recorded(reason)) \in 1..MaxHistory
           /\ Len(Recorded(reason)) <= Len(history) + 1
           /\ Recorded(reason)[1] =
                [id |-> session, sender |-> owner, reason |-> reason]
           /\ \A i \in 2..Len(Recorded(reason)) :
                Recorded(reason)[i] = history[i - 1]
<1> DEFINE rec == [id |-> session, sender |-> owner, reason |-> reason]
           all == <<rec>> \o history
<1>1. rec \in SessionRecord
  BY DEF TypeOK, SessionRecord
<1>2. all \in Seq(SessionRecord) /\ Len(all) = Len(history) + 1
  BY <1>1 DEF TypeOK
<1>3. all[1] = rec /\ \A i \in 2..Len(all) : all[i] = history[i - 1]
  BY <1>1, <1>2 DEF TypeOK
<1> HIDE DEF all
<1>4. CASE Len(all) > MaxHistory
  <2>1. Recorded(reason) = SubSeq(all, 1, MaxHistory)
    BY <1>4 DEF Recorded, all
  <2>2. /\ SubSeq(all, 1, MaxHistory) \in Seq(SessionRecord)
        /\ Len(SubSeq(all, 1, MaxHistory)) = MaxHistory
        /\ \A i \in 1..MaxHistory : SubSeq(all, 1, MaxHistory)[i] = all[i]
    BY <1>2, <1>4
  <2> QED
    BY <1>2, <1>3, <1>4, <2>1, <2>2
<1>5. CASE ~(Len(all) > MaxHistory)
  <2>1. Recorded(reason) = all
    BY <1>5 DEF Recorded, all
  <2> QED
    BY <1>2, <1>3, <1>5, <2>1 DEF TypeOK
<1> QED
  BY <1>4, <1>5

-----------------------------------------------------------------------------
(* Type correctness.                                                       *)

\* Ending a session keeps the types of everything it changes.
LEMMA FinishedType ==
    ASSUME TypeOK, session # 0, NEW reason \in EndReason, Finished(reason)
    PROVE  /\ session' \in Nat /\ owner' \in Conn \cup {NoConn}
           /\ lastSeq' \in Nat /\ estSeq' \in Nat
           /\ history' \in Seq(SessionRecord) /\ Len(history') <= MaxHistory
<1>1. /\ Recorded(reason) \in Seq(SessionRecord)
      /\ Len(Recorded(reason)) \in 1..MaxHistory
  BY RecordedFacts
<1> QED
  BY <1>1 DEF Finished

\* Writing one flag of one connection leaves a book of connections.
LEMMA FlagType ==
    ASSUME TypeOK, NEW c, NEW b \in BOOLEAN
    PROVE  /\ NotSharing(c) \in [Conn -> ConnRecord]
           /\ c \in Conn => /\ [conns EXCEPT ![c].fresh = b] \in [Conn -> ConnRecord]
                            /\ [conns EXCEPT ![c].sharing = b] \in [Conn -> ConnRecord]
<1>1. conns \in [Conn -> ConnRecord]
  BY DEF TypeOK
<1>2. CASE c \in Conn
  <2>1. conns[c] \in ConnRecord
    BY <1>1, <1>2
  <2>2. ASSUME NEW v \in BOOLEAN
        PROVE  /\ [conns[c] EXCEPT !.fresh = v] \in ConnRecord
               /\ [conns[c] EXCEPT !.sharing = v] \in ConnRecord
    BY <2>1 DEF ConnRecord
  <2>3. ASSUME NEW r \in ConnRecord PROVE [conns EXCEPT ![c] = r] \in [Conn -> ConnRecord]
    BY <1>1
  <2>4. /\ [conns EXCEPT ![c].fresh = b] = [conns EXCEPT ![c] = [conns[c] EXCEPT !.fresh = b]]
        /\ \A v : [conns EXCEPT ![c].sharing = v] =
                     [conns EXCEPT ![c] = [conns[c] EXCEPT !.sharing = v]]
    BY <1>1, <1>2
  <2> QED
    BY <1>2, <2>2, <2>3, <2>4 DEF NotSharing
<1>3. CASE c \notin Conn
  BY <1>1, <1>3 DEF NotSharing
<1> QED
  BY <1>2, <1>3

\* The book starts well typed.
LEMMA InitType == Init => TypeOK
<1> SUFFICES ASSUME Init PROVE TypeOK
  OBVIOUS
<1>1. conns \in [Conn -> ConnRecord] /\ clockSync \in [Conn -> ClockRecord]
  BY DEF Init, Unknown, NoClock, ConnRecord, ClockRecord
<1>2. history \in Seq(SessionRecord) /\ Len(history) <= MaxHistory
  BY DEF Init
<1> QED
  BY <1>1, <1>2 DEF Init, TypeOK

\* Every call of a method, in any order, keeps the book well typed.
LEMMA TypeStep == TypeOK /\ [Next]_bookVars => TypeOK'
<1> SUFFICES ASSUME TypeOK, [Next]_bookVars PROVE TypeOK'
  OBVIOUS
<1> USE DEF TypeOK, ConnRecord, ClockRecord
<1>1. ASSUME NEW c \in Conn, Hello(c) PROVE TypeOK'
  BY <1>1 DEF Hello, streamVars
<1>2. ASSUME NEW c \in Conn, ConnectionClosed(c) PROVE TypeOK'
  <2>1. conns' \in [Conn -> ConnRecord] /\ clockSync' \in [Conn -> ClockRecord]
    BY <1>2 DEF ConnectionClosed, NoClock
  <2>2. CASE SenderWasActive(c)
    <3>1. session # 0 /\ "disconnect" \in EndReason /\ Finished("disconnect")
      BY <1>2, <2>2 DEF ConnectionClosed, SenderWasActive, EndReason
    <3> QED
      BY <1>2, <2>1, <3>1, FinishedType DEF ConnectionClosed
  <2>3. CASE ~SenderWasActive(c)
    BY <1>2, <2>1, <2>3 DEF ConnectionClosed
  <2> QED
    BY <2>2, <2>3
<1>3. ASSUME NEW c \in Conn, TouchConnection(c) PROVE TypeOK'
  BY <1>3 DEF TouchConnection, streamVars
<1>4. ASSUME NEW c \in Conn, RecordClockSync(c) PROVE TypeOK'
  BY <1>4 DEF RecordClockSync, streamVars
<1>5. ASSUME NEW c \in Conn, HeartbeatAges(c) PROVE TypeOK'
  BY <1>5 DEF HeartbeatAges, streamVars
<1>6. ASSUME NEW c \in Conn, NEW seq \in 1..MaxSeq, RecordEstimatedLatency(c, seq)
      PROVE  TypeOK'
  <2>1. conns[c].fresh \/ conns[c].connected \in BOOLEAN
    OBVIOUS
  <2>2. conns' \in [Conn -> ConnRecord]
    BY <1>6, <2>1, FlagType DEF RecordEstimatedLatency
  <2>3. estSeq' \in Nat
    BY <1>6 DEF RecordEstimatedLatency
  <2> QED
    BY <1>6, <2>2, <2>3 DEF RecordEstimatedLatency
<1>7. ASSUME NEW s \in Sender, StartSession(s) PROVE TypeOK'
  <2>1. s \in Conn \cup {NoConn}
    BY DEF Sender
  <2> DEFINE idle == IF session # 0 THEN NotSharing(owner) ELSE conns
  <2>2. conns' \in [Conn -> ConnRecord]
    <3>1. idle \in [Conn -> ConnRecord]
      BY FlagType
    <3>2. conns' = IF s \in Conn /\ idle[s].known
                   THEN [idle EXCEPT ![s].sharing = TRUE, ![s].fresh = TRUE]
                   ELSE idle
      BY <1>7 DEF StartSession, ClockDropped
    <3> HIDE DEF idle
    <3>3. s \in Conn =>
            [idle EXCEPT ![s].sharing = TRUE, ![s].fresh = TRUE] \in [Conn -> ConnRecord]
      BY <3>1
    <3> QED
      BY <3>1, <3>2, <3>3
  <2>4. clockSync' \in [Conn -> ClockRecord]
    BY <1>7, <2>1 DEF StartSession, ClockDropped, NoClock
  <2>3. history' \in Seq(SessionRecord) /\ Len(history') <= MaxHistory
    <3>1. CASE session # 0
      <4>1. "replaced" \in EndReason
        BY DEF EndReason
      <4> QED
        <5>1. history' = Recorded("replaced")
          BY <1>7, <3>1 DEF StartSession, ClockDropped
        <5>2. /\ Recorded("replaced") \in Seq(SessionRecord)
              /\ Len(Recorded("replaced")) \in 1..MaxHistory
          BY <3>1, <4>1, RecordedFacts
        <5> QED
          BY <5>1, <5>2
    <3>2. CASE session = 0
      BY <1>7, <3>2 DEF StartSession, ClockDropped
    <3> QED
      BY <3>1, <3>2
  <2> QED
    BY <1>7, <2>1, <2>2, <2>3, <2>4 DEF StartSession, ClockDropped
<1>8. ASSUME NEW r \in StopReason, StopSession(r) PROVE TypeOK'
  <2>1. r \in EndReason
    BY DEF StopReason, EndReason
  <2>2. CASE session # 0
    <3>1. Finished(r) /\ conns' \in [Conn -> ConnRecord]
      <4>1. NotSharing(owner) \in [Conn -> ConnRecord]
        BY FlagType
      <4> QED
        BY <1>8, <2>2, <4>1, Zenon DEF StopSession
    <3> QED
      BY <1>8, <2>1, <2>2, <3>1, FinishedType DEF StopSession
  <2>3. CASE session = 0
    BY <1>8, <2>3 DEF StopSession
  <2> QED
    BY <2>2, <2>3
<1>9. ASSUME NEW seq \in 1..MaxSeq, RecordFrame(seq) PROVE TypeOK'
  <2>1. conns' \in [Conn -> ConnRecord]
    BY <1>9 DEF RecordFrame
  <2>2. lastSeq' \in Nat
    BY <1>9 DEF RecordFrame
  <2> QED
    BY <1>9, <2>1, <2>2 DEF RecordFrame
<1>10. ASSUME NEW seq \in 1..MaxSeq, RecordReceiverLatency(seq) PROVE TypeOK'
  BY <1>10 DEF RecordReceiverLatency
<1>11. CASE UNCHANGED bookVars
  BY <1>11 DEF bookVars
<1> QED
  BY <1>1, <1>2, <1>3, <1>4, <1>5, <1>6, <1>7, <1>8, <1>9, <1>10, <1>11 DEF Next

\* In every behaviour the book has its types, and in particular its history
\* never outgrows MAX_HISTORY.
THEOREM TypeCorrect == Spec => []TypeOK
<1>1. Init => TypeOK
  BY InitType
<1>2. TypeOK /\ [Next]_bookVars => TypeOK'
  BY TypeStep
<1> QED
  BY <1>1, <1>2, PTL DEF Spec

-----------------------------------------------------------------------------
(* Sessions end once.                                                      *)

\* A call that does not start or end a session leaves these alone.
sessionVars == <<session, owner, nextSession, history>>

\* Hello, touches, clock synchronisations, frames, latency records and ageing
\* begin and end no session.
LEMMA QuietSteps ==
    ASSUME [Next]_bookVars,
           \A c \in Conn : ConnectionClosed(c) => ~SenderWasActive(c),
           \A s \in Sender : ~StartSession(s),
           \A r \in StopReason : StopSession(r) => session = 0
    PROVE  UNCHANGED sessionVars
<1> USE DEF sessionVars
<1>1. ASSUME NEW c \in Conn, Hello(c) PROVE UNCHANGED sessionVars
  BY <1>1 DEF Hello, streamVars
<1>2. ASSUME NEW c \in Conn, ConnectionClosed(c) PROVE UNCHANGED sessionVars
  BY <1>2 DEF ConnectionClosed
<1>3. ASSUME NEW c \in Conn, TouchConnection(c) \/ RecordClockSync(c) \/ HeartbeatAges(c)
      PROVE  UNCHANGED sessionVars
  BY <1>3 DEF TouchConnection, RecordClockSync, HeartbeatAges, streamVars
<1>4. ASSUME NEW c \in Conn, NEW seq \in 1..MaxSeq, RecordEstimatedLatency(c, seq)
      PROVE  UNCHANGED sessionVars
  BY <1>4 DEF RecordEstimatedLatency
<1>5. ASSUME NEW r \in StopReason, StopSession(r) PROVE UNCHANGED sessionVars
  BY <1>5 DEF StopSession
<1>6. ASSUME NEW seq \in 1..MaxSeq, RecordFrame(seq) \/ RecordReceiverLatency(seq)
      PROVE  UNCHANGED sessionVars
  BY <1>6 DEF RecordFrame, RecordReceiverLatency
<1>7. CASE UNCHANGED bookVars
  BY <1>7 DEF bookVars
<1> QED
  BY <1>1, <1>2, <1>3, <1>4, <1>5, <1>6, <1>7 DEF Next

\* What a step does to the sessions: nothing, end the active one, or start
\* the next one, replacing the active one if there is one.
LEMMA SessionSteps ==
    ASSUME [Next]_bookVars
    PROVE  \/ UNCHANGED sessionVars
           \/ \E c \in Conn : /\ ConnectionClosed(c) /\ SenderWasActive(c)
                             /\ Finished("disconnect") /\ UNCHANGED nextSession
           \/ \E r \in StopReason : /\ StopSession(r) /\ session # 0
                                   /\ Finished(r) /\ UNCHANGED nextSession
           \/ \E s \in Sender : StartSession(s)
<1>1. ASSUME NEW c \in Conn, ConnectionClosed(c), SenderWasActive(c)
      PROVE  Finished("disconnect") /\ UNCHANGED nextSession
  BY <1>1 DEF ConnectionClosed
<1>2. ASSUME NEW r \in StopReason, StopSession(r), session # 0
      PROVE  Finished(r) /\ UNCHANGED nextSession
  BY <1>2 DEF StopSession
<1> QED
  BY <1>1, <1>2, QuietSteps

\* The id of a retained record is a number.
LEMMA RecordIds ==
    ASSUME NEW h \in Seq(SessionRecord), NEW i \in 1..Len(h)
    PROVE  h[i].id \in Nat
<1>1. h[i] \in SessionRecord
  OBVIOUS
<1> QED
  BY <1>1 DEF SessionRecord

\* Filing the active session keeps the records in order and below the counter.
LEMMA FiledInOrder ==
    ASSUME TypeOK, SessionsEndOnce, session # 0, NEW reason \in EndReason,
           NEW h, h = Recorded(reason)
    PROVE  /\ \A i, j \in 1..Len(h) : i < j => h[j].id < h[i].id
           /\ \A i \in 1..Len(h) : h[i].id < nextSession
           /\ \A i \in 1..Len(h) : h[i].id \in Nat
<1>2. /\ h \in Seq(SessionRecord) /\ Len(h) \in 1..MaxHistory
      /\ Len(h) <= Len(history) + 1
      /\ h[1] = [id |-> session, sender |-> owner, reason |-> reason]
      /\ \A i \in 2..Len(h) : h[i] = history[i - 1]
  BY RecordedFacts
<1>3. /\ \A i, j \in 1..Len(history) : i < j => history[j].id < history[i].id
      /\ session = nextSession - 1
      /\ \A i \in 1..Len(history) : history[i].id < session
  BY DEF SessionsEndOnce
<1>4. session \in Nat /\ nextSession \in Nat /\ Len(history) \in Nat /\ Len(h) \in Nat
      /\ \A i \in 1..Len(history) : history[i].id \in Nat
  BY <1>2, RecordIds DEF TypeOK
<1>5. h[1].id = session
  BY <1>2
<1>6. \A i \in 2..Len(h) : i - 1 \in 1..Len(history) /\ h[i].id = history[i - 1].id
  BY <1>2, <1>4
<1>7. ASSUME NEW i \in 1..Len(h), NEW j \in 1..Len(h), i < j PROVE h[j].id < h[i].id
  <2>1. j \in 2..Len(h) /\ i \in Nat /\ j \in Nat
    BY <1>4, <1>7
  <2>2. CASE i = 1
    BY <1>3, <1>5, <1>6, <2>1, <2>2
  <2>3. CASE i # 1
    <3>1. i \in 2..Len(h) /\ i - 1 < j - 1
      BY <1>4, <1>7, <2>1, <2>3
    <3> QED
      BY <1>3, <1>6, <2>1, <3>1
  <2> QED
    BY <2>2, <2>3
<1>8. ASSUME NEW i \in 1..Len(h) PROVE h[i].id < nextSession /\ h[i].id \in Nat
  <2>1. CASE i = 1
    BY <1>3, <1>4, <1>5, <2>1
  <2>2. CASE i # 1
    <3>1. i \in 2..Len(h)
      BY <1>4, <2>2
    <3>2. i - 1 \in 1..Len(history) /\ h[i].id = history[i - 1].id
      BY <1>6, <3>1
    <3> QED
      BY <1>3, <1>4, <3>2
  <2> QED
    BY <2>1, <2>2
<1> QED
  BY <1>7, <1>8

\* finish_locked files the active session in order, once.
LEMMA EndOnceWhenFinished ==
    ASSUME TypeOK, SessionsEndOnce, session # 0, NEW reason \in EndReason,
           Finished(reason), UNCHANGED nextSession
    PROVE  SessionsEndOnce'
<1>1. session' = 0 /\ history' = Recorded(reason) /\ nextSession' = nextSession
  BY DEF Finished
<1>2. /\ \A i, j \in 1..Len(history') : i < j => history'[j].id < history'[i].id
      /\ \A i \in 1..Len(history') : history'[i].id < nextSession
  BY <1>1, FiledInOrder
<1> QED
  BY <1>1, <1>2 DEF SessionsEndOnce

\* start() files a session it replaces in order, and opens one with a new id.
LEMMA EndOnceWhenStarted ==
    ASSUME TypeOK, SessionsEndOnce, NEW s \in Sender, StartSession(s)
    PROVE  SessionsEndOnce'
<1>1. session' = nextSession /\ nextSession' = nextSession + 1 /\ nextSession \in Nat
  BY DEF StartSession, ClockDropped, TypeOK
<1>2. /\ \A i, j \in 1..Len(history') : i < j => history'[j].id < history'[i].id
      /\ \A i \in 1..Len(history') : history'[i].id < nextSession
      /\ \A i \in 1..Len(history') : history'[i].id \in Nat
  <2>1. CASE session = 0
    <3>1. history' = history
      BY <2>1 DEF StartSession, ClockDropped
    <3>2. \A i \in 1..Len(history) : history[i].id \in Nat
      BY RecordIds DEF TypeOK
    <3> QED
      BY <3>1, <3>2 DEF SessionsEndOnce
  <2>2. CASE session # 0
    <3>1. history' = Recorded("replaced") /\ "replaced" \in EndReason
      BY <2>2 DEF StartSession, ClockDropped, EndReason
    <3> QED
      BY <2>2, <3>1, FiledInOrder
  <2> QED
    BY <2>1, <2>2
<1>3. \A i \in 1..Len(history') : history'[i].id < nextSession'
  BY <1>1, <1>2
<1> QED
  BY <1>1, <1>2, <1>3 DEF SessionsEndOnce

\* However the calls of the tasks interleave, a session is filed once, in
\* order, and the active session is not in the history.
THEOREM EndOnce == Spec => []SessionsEndOnce
<1>1. Init => SessionsEndOnce
  BY DEF Init, SessionsEndOnce
<1>2. TypeOK /\ SessionsEndOnce /\ [Next]_bookVars => SessionsEndOnce'
  <2> SUFFICES ASSUME TypeOK, SessionsEndOnce, [Next]_bookVars PROVE SessionsEndOnce'
    OBVIOUS
  <2>1. CASE UNCHANGED sessionVars
    BY <2>1 DEF sessionVars, SessionsEndOnce
  <2>2. ASSUME NEW c \in Conn, SenderWasActive(c), Finished("disconnect"),
               UNCHANGED nextSession
        PROVE  SessionsEndOnce'
    <3>1. session # 0 /\ "disconnect" \in EndReason
      BY <2>2 DEF SenderWasActive, EndReason
    <3> QED
      BY <2>2, <3>1, EndOnceWhenFinished
  <2>3. ASSUME NEW r \in StopReason, session # 0, Finished(r), UNCHANGED nextSession
        PROVE  SessionsEndOnce'
    <3>1. r \in EndReason
      BY DEF StopReason, EndReason
    <3> QED
      BY <2>3, <3>1, EndOnceWhenFinished
  <2>4. ASSUME NEW s \in Sender, StartSession(s) PROVE SessionsEndOnce'
    BY <2>4, EndOnceWhenStarted
  <2> QED
    BY <2>1, <2>2, <2>3, <2>4, SessionSteps
<1> QED
  BY <1>1, <1>2, TypeCorrect, PTL DEF Spec

-----------------------------------------------------------------------------
(* Who is sharing, and with which clock.                                   *)

\* The calls that refresh a connection, or let its heartbeat age, write no
\* other flag of any connection and leave the stream and its owner alone.
Refreshing ==
    \/ \E c \in Conn : TouchConnection(c) \/ RecordClockSync(c) \/ HeartbeatAges(c)
    \/ \E c \in Conn, seq \in 1..MaxSeq : RecordEstimatedLatency(c, seq)
    \/ \E seq \in 1..MaxSeq : RecordFrame(seq) \/ RecordReceiverLatency(seq)

LEMMA RefreshingOnly ==
    ASSUME TypeOK, Refreshing, NEW d \in Conn
    PROVE  /\ conns'[d].connected = conns[d].connected
           /\ conns'[d].known = conns[d].known
           /\ conns'[d].sharing = conns[d].sharing
           /\ session' = session /\ owner' = owner
<1>1. session' = session /\ owner' = owner
  BY DEF Refreshing, TouchConnection, RecordClockSync, HeartbeatAges,
         RecordEstimatedLatency, RecordFrame, RecordReceiverLatency, streamVars
<1>2. conns \in [Conn -> ConnRecord]
  BY DEF TypeOK
<1>3. conns[d] \in ConnRecord
  BY <1>2
<1>4. conns' = conns \/ \E c \in Conn : \E b : conns' = [conns EXCEPT ![c].fresh = b]
  BY DEF Refreshing, TouchConnection, RecordClockSync, HeartbeatAges,
         RecordEstimatedLatency, RecordFrame, RecordReceiverLatency
<1>5. ASSUME NEW c \in Conn, NEW b, conns' = [conns EXCEPT ![c].fresh = b]
      PROVE  conns'[d] = conns[d] \/ conns'[d] = [conns[d] EXCEPT !.fresh = b]
  BY <1>2, <1>5
<1>6. conns'[d] = conns[d] \/ \E b : conns'[d] = [conns[d] EXCEPT !.fresh = b]
  BY <1>4, <1>5
<1> QED
  BY <1>1, <1>3, <1>6 DEF ConnRecord

\* SharingOnlyOwner is not inductive: closing a connection clears the flag
\* only of a connection the book knows.
SharingInv ==
    \A c \in Conn : conns[c].sharing => session # 0 /\ owner = c /\ conns[c].known

\* Whatever marks or keeps a connection as sharing, it owns the session after
\* the step and is known.
LEMMA SharingStep ==
    ASSUME TypeOK, SharingInv, [Next]_bookVars, NEW d \in Conn, conns'[d].sharing
    PROVE  session' # 0 /\ owner' = d /\ conns'[d].known
<1> DEFINE Goal == session' # 0 /\ owner' = d /\ conns'[d].known
<1> USE DEF TypeOK, ConnRecord, SharingInv
<1>1. ASSUME NEW c \in Conn, Hello(c) PROVE Goal
  BY <1>1 DEF Hello, streamVars
<1>2. ASSUME NEW c \in Conn, ConnectionClosed(c) PROVE Goal
  <2>1. conns[d].sharing
    BY <1>2 DEF ConnectionClosed
  <2>2. c # d
    BY <1>2, <2>1 DEF ConnectionClosed
  <2>3. conns'[d] = conns[d]
    BY <1>2, <2>2 DEF ConnectionClosed
  <2>4. ~SenderWasActive(c)
    BY <2>1, <2>2 DEF SenderWasActive
  <2> QED
    BY <1>2, <2>1, <2>3, <2>4 DEF ConnectionClosed
<1>3. CASE Refreshing
  BY <1>3, RefreshingOnly
<1>5. ASSUME NEW s \in Sender, StartSession(s) PROVE Goal
  <2> DEFINE idle == IF session # 0 THEN NotSharing(owner) ELSE conns
  <2>1. ~idle[d].sharing
    BY DEF NotSharing
  <2>2. idle \in [Conn -> ConnRecord]
    BY FlagType
  <2>3. conns' = IF s \in Conn /\ idle[s].known
                 THEN [idle EXCEPT ![s].sharing = TRUE, ![s].fresh = TRUE]
                 ELSE idle
    BY <1>5 DEF StartSession, ClockDropped
  <2> HIDE DEF idle
  <2>4. s = d /\ conns'[d].known
    BY <2>1, <2>2, <2>3
  <2> QED
    BY <1>5, <2>4 DEF StartSession, ClockDropped
<1>6. ASSUME NEW r \in StopReason, StopSession(r) PROVE Goal
  <2>1. CASE session # 0
    <3>1. conns' = NotSharing(owner)
      BY <1>6, <2>1 DEF StopSession
    <3>2. ~conns'[d].sharing
      BY <3>1 DEF NotSharing
    <3> QED
      BY <3>2
  <2>2. CASE session = 0
    BY <1>6, <2>2 DEF StopSession
  <2> QED
    BY <2>1, <2>2
<1>8. CASE UNCHANGED bookVars
  BY <1>8 DEF bookVars
<1> QED
  BY <1>1, <1>2, <1>3, <1>5, <1>6, <1>8 DEF Next, Refreshing

\* A connection is shown as sharing only while it owns the active session.
THEOREM OnlyOwnerShares == Spec => []SharingOnlyOwner
<1>1. Init => SharingInv
  BY DEF Init, Unknown, SharingInv
<1>2. TypeOK /\ SharingInv /\ [Next]_bookVars => SharingInv'
  BY SharingStep DEF SharingInv
<1>3. SharingInv => SharingOnlyOwner
  BY DEF SharingInv, SharingOnlyOwner
<1> QED
  BY <1>1, <1>2, <1>3, TypeCorrect, PTL DEF Spec

\* The clock the estimates of a session are made with was synchronised
\* during that session.
THEOREM ClockIsOfSession == Spec => []ClockSyncOfThisSession
<1>1. Init => ClockSyncOfThisSession
  BY DEF Init, ClockSyncOfThisSession
<1>2. TypeOK /\ ClockSyncOfThisSession /\ [Next]_bookVars => ClockSyncOfThisSession'
  <2> SUFFICES ASSUME TypeOK, ClockSyncOfThisSession, [Next]_bookVars,
                      session' # 0, owner' \in Conn, clockSync'[owner'].synced
               PROVE  clockSync'[owner'].during = session'
    BY DEF ClockSyncOfThisSession
  <2> DEFINE Goal == clockSync'[owner'].during = session'
  <2> USE DEF TypeOK, ClockRecord, ClockSyncOfThisSession
  <2>1. ASSUME NEW c \in Conn,
               Hello(c) \/ TouchConnection(c) \/ HeartbeatAges(c)
        PROVE  Goal
    BY <2>1 DEF Hello, TouchConnection, HeartbeatAges, streamVars
  <2>2. ASSUME NEW c \in Conn, ConnectionClosed(c) PROVE Goal
    BY <2>2 DEF ConnectionClosed, SenderWasActive, Finished, NoClock
  <2>3. ASSUME NEW c \in Conn, RecordClockSync(c) PROVE Goal
    BY <2>3 DEF RecordClockSync, streamVars
  <2>4. ASSUME NEW c \in Conn, NEW seq \in 1..MaxSeq, RecordEstimatedLatency(c, seq)
        PROVE  Goal
    BY <2>4 DEF RecordEstimatedLatency
  <2>5. ASSUME NEW s \in Sender, StartSession(s) PROVE Goal
    BY <2>5 DEF StartSession, ClockDropped, NoClock
  <2>6. ASSUME NEW r \in StopReason, StopSession(r) PROVE Goal
    BY <2>6 DEF StopSession, Finished
  <2>7. ASSUME NEW seq \in 1..MaxSeq, RecordFrame(seq) \/ RecordReceiverLatency(seq)
        PROVE  Goal
    BY <2>7 DEF RecordFrame, RecordReceiverLatency
  <2>8. CASE UNCHANGED bookVars
    BY <2>8 DEF bookVars
  <2> QED
    BY <2>1, <2>2, <2>3, <2>4, <2>5, <2>6, <2>7, <2>8 DEF Next
<1> QED
  BY <1>1, <1>2, TypeCorrect, PTL DEF Spec

-----------------------------------------------------------------------------
(* What a step may never do.                                               *)

\* A connection is connected only after its hello.
ConnectedKnown == \A c \in Conn : conns[c].connected => conns[c].known

\* No call connects a connection the book does not know.
LEMMA ConnectedKnownStep ==
    TypeOK /\ ConnectedKnown /\ [Next]_bookVars => ConnectedKnown'
<1> SUFFICES ASSUME TypeOK, ConnectedKnown, [Next]_bookVars,
                    NEW d \in Conn, conns'[d].connected
             PROVE  conns'[d].known
  BY DEF ConnectedKnown
<1> DEFINE Kept == conns'[d].connected = conns[d].connected
                   /\ conns'[d].known = conns[d].known
<1> USE DEF TypeOK, ConnRecord, ConnectedKnown
<1>1. ASSUME NEW c \in Conn, Hello(c) PROVE conns'[d].known
  BY <1>1 DEF Hello
<1>8. ASSUME NEW c \in Conn, ConnectionClosed(c) PROVE conns'[d].known
  BY <1>8 DEF ConnectionClosed
<1>2. CASE Refreshing
  BY <1>2, RefreshingOnly
<1>4. ASSUME NEW s \in Sender, StartSession(s) PROVE Kept
  <2> DEFINE idle == IF session # 0 THEN NotSharing(owner) ELSE conns
  <2>1. idle[d].connected = conns[d].connected /\ idle[d].known = conns[d].known
    BY DEF NotSharing
  <2>2. idle \in [Conn -> ConnRecord]
    BY FlagType
  <2>3. conns' = IF s \in Conn /\ idle[s].known
                 THEN [idle EXCEPT ![s].sharing = TRUE, ![s].fresh = TRUE]
                 ELSE idle
    BY <1>4 DEF StartSession, ClockDropped
  <2> HIDE DEF idle
  <2> QED
    BY <2>1, <2>2, <2>3
<1>5. ASSUME NEW r \in StopReason, StopSession(r) PROVE Kept
  <2>1. conns' = conns \/ conns' = NotSharing(owner)
    BY <1>5 DEF StopSession
  <2>2. \/ NotSharing(owner) = conns
        \/ NotSharing(owner) = [conns EXCEPT ![owner].sharing = FALSE]
    BY DEF NotSharing
  <2>3. CASE conns' = conns
    BY <2>3
  <2>4. CASE conns' = [conns EXCEPT ![owner].sharing = FALSE]
    BY <2>4
  <2> QED
    BY <2>1, <2>2, <2>3, <2>4
<1>7. CASE UNCHANGED bookVars
  BY <1>7 DEF bookVars
<1> QED
  BY <1>1, <1>2, <1>4, <1>5, <1>7, <1>8 DEF Next, Refreshing

\* Only the closing of its sender's connection ends a session as
\* "disconnect", and the connection's clock goes with it.
THEOREM DisconnectIsOwn == Spec => DisconnectEndsOwnSession
<1> DEFINE Owned == session' = 0 /\ owner \in Conn /\ ~conns'[owner].connected
                    /\ ~clockSync'[owner].synced
           Act == history' # history /\ history'[1].reason = "disconnect" => Owned
<1>1. TypeOK /\ ConnectedKnown /\ [Next]_bookVars => Act
  <2> SUFFICES ASSUME TypeOK, ConnectedKnown, [Next]_bookVars, history' # history,
                      history'[1].reason = "disconnect"
               PROVE  Owned
    OBVIOUS
  <2>1. ASSUME NEW reason \in EndReason, session # 0, history' = Recorded(reason)
        PROVE  reason = "disconnect"
    <3>1. Recorded(reason)[1] = [id |-> session, sender |-> owner, reason |-> reason]
      BY <2>1, RecordedFacts
    <3> QED
      BY <2>1, <3>1
  <2>2. ~UNCHANGED sessionVars
    BY DEF sessionVars
  <2>3. ASSUME NEW c \in Conn, ConnectionClosed(c), SenderWasActive(c) PROVE Owned
    <3>1. owner = c /\ session' = 0
      BY <2>3 DEF ConnectionClosed, SenderWasActive, Finished
    <3>2. ~clockSync'[c].synced
      BY <2>3 DEF ConnectionClosed, NoClock, TypeOK
    <3>3. ~conns'[c].connected
      BY <2>3 DEF ConnectionClosed, TypeOK, ConnRecord, ConnectedKnown
    <3> QED
      BY <3>1, <3>2, <3>3
  <2>4. ASSUME NEW r \in StopReason, session # 0, Finished(r) PROVE FALSE
    <3>1. r \in EndReason /\ r # "disconnect"
      BY DEF StopReason, EndReason
    <3> QED
      BY <2>1, <2>4, <3>1 DEF Finished
  <2>5. ASSUME NEW s \in Sender, StartSession(s) PROVE FALSE
    <3>1. session # 0 /\ history' = Recorded("replaced")
      BY <2>5 DEF StartSession, ClockDropped
    <3>2. "replaced" \in EndReason /\ "replaced" # "disconnect"
      BY DEF EndReason
    <3> QED
      BY <2>1, <3>1, <3>2
  <2> QED
    BY <2>2, <2>3, <2>4, <2>5, SessionSteps
<1>2. Init => ConnectedKnown
  BY DEF Init, Unknown, ConnectedKnown
<1> QED
  BY <1>1, <1>2, ConnectedKnownStep, TypeCorrect, PTL DEF Spec, DisconnectEndsOwnSession

\* The sender's reports and the receiver's own estimates, interleaved, never
\* take a session's estimate back to an older frame.
THEOREM EstimatesAdvance == Spec => EstimateNeverGoesBack
<1> DEFINE Act == IF session' = session THEN estSeq' >= estSeq ELSE estSeq' = 0
<1>1. TypeOK /\ SessionsEndOnce /\ [Next]_bookVars => Act
  <2> SUFFICES ASSUME TypeOK, SessionsEndOnce, [Next]_bookVars PROVE Act
    OBVIOUS
  <2> USE DEF TypeOK
  <2>1. ASSUME NEW c \in Conn,
               Hello(c) \/ TouchConnection(c) \/ RecordClockSync(c) \/ HeartbeatAges(c)
        PROVE  Act
    BY <2>1 DEF Hello, TouchConnection, RecordClockSync, HeartbeatAges, streamVars
  <2>2. ASSUME NEW reason, session # 0, Finished(reason) PROVE Act
    BY <2>2 DEF Finished
  <2>3. ASSUME NEW c \in Conn, ConnectionClosed(c) PROVE Act
    BY <2>2, <2>3 DEF ConnectionClosed, SenderWasActive
  <2>4. ASSUME NEW r \in StopReason, StopSession(r) PROVE Act
    BY <2>2, <2>4 DEF StopSession
  <2>5. ASSUME NEW s \in Sender, StartSession(s) PROVE Act
    <3>1. session' # session
      BY <2>5 DEF StartSession, ClockDropped, SessionsEndOnce
    <3> QED
      BY <2>5, <3>1 DEF StartSession, ClockDropped
  <2>6. ASSUME NEW c \in Conn, NEW seq \in 1..MaxSeq, RecordEstimatedLatency(c, seq)
        PROVE  Act
    BY <2>6 DEF RecordEstimatedLatency, ReportAccepted
  <2>7. ASSUME NEW seq \in 1..MaxSeq, RecordFrame(seq) \/ RecordReceiverLatency(seq)
        PROVE  Act
    BY <2>7 DEF RecordFrame, RecordReceiverLatency, ReceiverEstimateAccepted
  <2>8. CASE UNCHANGED bookVars
    BY <2>8 DEF bookVars
  <2> QED
    BY <2>1, <2>3, <2>4, <2>5, <2>6, <2>7, <2>8 DEF Next
<1> QED
  BY <1>1, TypeCorrect, EndOnce, PTL DEF Spec, EstimateNeverGoesBack

-----------------------------------------------------------------------------
(* The book implements the register of sessions.                           *)

\* Every behaviour of the book is one of the abstract register: its ten
\* methods come down to beginning, replacing and ending a session.
THEOREM Refinement == Spec => BookSpec
<1>1. Init => Book!Init
  BY DEF Init, Book!Init
<1>2. TypeOK /\ SessionsEndOnce /\ [Next]_bookVars => [Book!Next]_(Book!registerVars)
  <2> SUFFICES ASSUME TypeOK, SessionsEndOnce, [Next]_bookVars
               PROVE  [Book!Next]_(Book!registerVars)
    OBVIOUS
  <2> USE DEF Book!Next, Book!registerVars
  <2>1. CASE UNCHANGED sessionVars
    BY <2>1 DEF sessionVars
  <2>2. ASSUME NEW why \in EndReason \ {"replaced"}, session # 0, Finished(why),
               UNCHANGED nextSession
        PROVE  Book!Next
    <3>1. Book!End(why)
      BY <2>2 DEF Book!End, Book!Files, Book!Entry, Finished, Recorded
    <3> QED
      BY <3>1
  <2>3. ASSUME NEW c \in Conn, SenderWasActive(c), Finished("disconnect"),
               UNCHANGED nextSession
        PROVE  Book!Next
    BY <2>2, <2>3 DEF SenderWasActive, EndReason
  <2>4. ASSUME NEW r \in StopReason, session # 0, Finished(r), UNCHANGED nextSession
        PROVE  Book!Next
    BY <2>2, <2>4 DEF StopReason, EndReason
  <2>5. ASSUME NEW s \in Sender, StartSession(s) PROVE Book!Next
    <3>1. s \in Conn \cup {NoConn}
      BY DEF Sender
    <3>2. Book!Opens(s)
      BY <2>5 DEF StartSession, ClockDropped, Book!Opens, TypeOK
    <3>3. CASE session = 0
      BY <2>5, <3>1, <3>2, <3>3 DEF StartSession, ClockDropped, Book!Begin
    <3>4. CASE session # 0
      BY <2>5, <3>1, <3>2, <3>4
         DEF StartSession, ClockDropped, Book!Replace, Book!Files, Book!Entry, Recorded
    <3> QED
      BY <3>3, <3>4
  <2> QED
    BY <2>1, <2>3, <2>4, <2>5, SessionSteps
<1> QED
  BY <1>1, <1>2, TypeCorrect, EndOnce, PTL DEF Spec, BookSpec, Book!Spec

=============================================================================
