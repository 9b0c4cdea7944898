--------------------------- MODULE Playback_proofs ---------------------------
(***************************************************************************)
(* Proofs about the player and its feeders, for both idle modes, any       *)
(* number of encoder readers and any queue capacities.                     *)
(***************************************************************************)
EXTENDS Playback, TLAPS

USE PlaybackAssumption

-----------------------------------------------------------------------------
(* Types.                                                                  *)

LEMMA SlotFacts == ASSUME NEW p \in Slot
                   PROVE  Other(p) \in Slot /\ Other(p) # p /\ Other(Other(p)) = p
BY DEF Slot, Other

LEMMA StartedTypes ==
    ASSUME NEW m \in Mode
    PROVE  Started(m) \in Pipeline /\ Started(m).queue = <<>> /\ Started(m).child = "reading"
<1>1. ASSUME NEW q \in Seq(Buffer)
      PROVE  [mode |-> m, child |-> "reading", writer |-> "waiting", held |-> "nothing",
              queue |-> q] \in Pipeline
  BY DEF Pipeline
<1>2. <<>> \in Seq(Buffer)
  OBVIOUS
<1> QED
  BY <1>1, <1>2 DEF Started

LEMMA UnusedTypes == Unused \in Pipeline /\ Unused.queue = <<>> /\ Unused.child = "dead"
<1>1. ASSUME NEW x \in Pipeline
      PROVE  LET y == [x EXCEPT !.child = "dead", !.writer = "gone"]
             IN  y \in Pipeline /\ y.queue = x.queue /\ y.child = "dead"
  BY DEF Pipeline
<1> QED
  BY <1>1, StartedTypes DEF Unused, Mode

LEMMA InitTypes == Init => PlaybackTypeOK
<1> SUFFICES ASSUME Init PROVE PlaybackTypeOK
  OBVIOUS
<1>1. Started("dashboard") \in Pipeline /\ Unused \in Pipeline
  BY StartedTypes, UnusedTypes DEF Mode
<1>2. pipeline \in [Slot -> Pipeline]
  BY <1>1 DEF Init
<1>3. reader \in [Reader -> [at : {"none", "reading", "locking", "sending"}, chunk : BOOLEAN]]
  BY DEF Init
<1> QED
  BY <1>2, <1>3 DEF Init, PlaybackTypeOK, Slot, Mode

\* What stays of a pipeline when its queue takes a buffer or its writer moves on.
LEMMA QueueTypes ==
    ASSUME NEW x \in Pipeline, NEW b \in Buffer
    PROVE  /\ [x EXCEPT !.queue = Append(@, b)] \in Pipeline
           /\ Len(Append(x.queue, b)) = Len(x.queue) + 1
<1>1. x.queue \in Seq(Buffer)
  BY DEF Pipeline
<1>2. /\ Append(x.queue, b) \in Seq(Buffer)
      /\ Len(Append(x.queue, b)) = Len(x.queue) + 1
  BY <1>1
<1>3. ASSUME NEW q \in Seq(Buffer) PROVE [x EXCEPT !.queue = q] \in Pipeline
  BY DEF Pipeline
<1> QED
  BY <1>2, <1>3

\* Types of what the main loop, the threads and the players assign.
LEMMA MainTypes ==
    ASSUME PlaybackTypeOK, FrameArrives \/ StartArrives \/ StopArrives
    PROVE  PlaybackTypeOK'
BY DEF PlaybackTypeOK, FrameArrives, StartArrives, StopArrives, Ensures, Mode, mainVars, idleVars

LEMMA SwitchTypes == ASSUME PlaybackTypeOK, Switch PROVE PlaybackTypeOK'
<1>1. AfterSwitch \in {"ready", "submitting"}
  BY DEF AfterSwitch
<1>2. \A p \in Slot : pipeline[p] \in Pipeline
  BY DEF PlaybackTypeOK
<1>3. CASE Kills
  <2>1. [pipeline[engine] EXCEPT !.child = "dead"] \in Pipeline
    BY <1>2 DEF PlaybackTypeOK, Pipeline
  <2>2. pipeline' \in [Slot -> Pipeline]
    BY <1>3, <2>1 DEF Kills, PlaybackTypeOK
  <2> QED
    BY <1>3, <2>2 DEF Kills, PlaybackTypeOK, idleVars
<1>4. CASE Starts
  <2>1. Started(wants) \in Pipeline
    BY StartedTypes DEF PlaybackTypeOK
  <2>2. pipeline' \in [Slot -> Pipeline]
    BY <1>4, <2>1 DEF Starts, PlaybackTypeOK
  <2> QED
    BY <1>4, <2>2 DEF Starts, PlaybackTypeOK, idleVars
<1>5. CASE FailsToStart
  BY <1>1, <1>5 DEF FailsToStart, PlaybackTypeOK, idleVars
<1>6. CASE HandsOver
  BY <1>1, <1>6, SlotFacts DEF HandsOver, PlaybackTypeOK, idleVars
<1>7. CASE Submits
  <2>1. pipeline' \in [Slot -> Pipeline]
    <3>1. CASE Queue(engine, "frame")
      <4>1. [pipeline[engine] EXCEPT !.queue = Append(@, "frame")] \in Pipeline
        BY <1>2, QueueTypes DEF PlaybackTypeOK, Buffer
      <4> QED
        BY <3>1, <4>1 DEF Queue, PlaybackTypeOK
    <3> QED
      BY <1>7, <3>1 DEF Submits, PlaybackTypeOK
  <2> QED
    BY <1>7, <2>1 DEF Submits, PlaybackTypeOK, idleVars
<1> QED
  BY <1>3, <1>4, <1>5, <1>6, <1>7 DEF Switch

LEMMA PlayerTypes ==
    ASSUME PlaybackTypeOK, NEW p \in Slot, Writer(p) \/ PlayerChanges(p)
    PROVE  PlaybackTypeOK'
<1>1. pipeline[p] \in Pipeline
  BY DEF PlaybackTypeOK
<1>2. pipeline' \in [Slot -> Pipeline] /\ shown' \in Buffer \cup {"nothing"}
  <2>1. CASE WriterTakes(p)
    <3>1. /\ Head(pipeline[p].queue) \in Buffer /\ Tail(pipeline[p].queue) \in Seq(Buffer)
      BY <1>1, <2>1 DEF WriterTakes, Pipeline
    <3> DEFINE taken == [pipeline[p] EXCEPT !.writer = "writing",
                                            !.held = Head(pipeline[p].queue),
                                            !.queue = Tail(pipeline[p].queue)]
    <3>2. taken \in Pipeline
      BY <1>1, <3>1 DEF Pipeline
    <3>3. /\ pipeline \in [Slot -> Pipeline]
          /\ pipeline' = [pipeline EXCEPT ![p].writer = "writing",
                                          ![p].held = Head(pipeline[p].queue),
                                          ![p].queue = Tail(@)]
      BY <2>1 DEF WriterTakes, PlaybackTypeOK
    <3>4. pipeline' = [pipeline EXCEPT ![p] = taken]
      BY <1>1, <3>3 DEF Pipeline
    <3> QED
      BY <2>1, <3>2, <3>4 DEF WriterTakes, PlaybackTypeOK
  <2>2. CASE WriterWrites(p)
    <3>1. [pipeline[p] EXCEPT !.writer = "waiting", !.held = "nothing"] \in Pipeline
      BY <1>1 DEF Pipeline
    <3>2. pipeline' = [pipeline EXCEPT ![p] =
                         [@ EXCEPT !.writer = "waiting", !.held = "nothing"]]
      BY <1>1, <2>2 DEF WriterWrites, PlaybackTypeOK, Pipeline
    <3>3. pipeline[p].held \in Buffer \cup {"nothing"}
      BY <1>1 DEF Pipeline
    <3> QED
      BY <2>2, <3>1, <3>2, <3>3 DEF WriterWrites, PlaybackTypeOK
  <2>3. CASE WriterFails(p)
    <3>1. [pipeline[p] EXCEPT !.writer = "gone", !.held = "nothing", !.queue = <<>>]
            \in Pipeline
      <4>1. ASSUME NEW q \in Seq(Buffer)
            PROVE  [pipeline[p] EXCEPT !.writer = "gone", !.held = "nothing", !.queue = q]
                     \in Pipeline
        BY <1>1 DEF Pipeline
      <4>2. <<>> \in Seq(Buffer)
        OBVIOUS
      <4> QED
        BY <4>1, <4>2
    <3>2. pipeline' = [pipeline EXCEPT ![p] =
                         [@ EXCEPT !.writer = "gone", !.held = "nothing", !.queue = <<>>]]
      BY <1>1, <2>3 DEF WriterFails, PlaybackTypeOK, Pipeline
    <3> QED
      BY <2>3, <3>1, <3>2 DEF WriterFails, PlaybackTypeOK
  <2>4. CASE PlayerChanges(p)
    <3>1. PICK c \in {"reading", "stalled", "dead"} :
            pipeline' = [pipeline EXCEPT ![p].child = c]
      BY <2>4 DEF PlayerChanges
    <3>2. [pipeline[p] EXCEPT !.child = c] \in Pipeline
      BY <1>1 DEF Pipeline
    <3> QED
      BY <2>4, <3>1, <3>2 DEF PlayerChanges, PlaybackTypeOK
  <2> QED
    BY <2>1, <2>2, <2>3, <2>4 DEF Writer
<1> QED
  BY <1>2 DEF Writer, WriterTakes, WriterWrites, WriterFails, PlayerChanges, PlaybackTypeOK,
              mainVars, idleVars

\* A dashboard frame that a feeding thread puts into the shared queue.
LEMMA DashboardQueued ==
    ASSUME PlaybackTypeOK, Queue(shared, "dashboard")
    PROVE  pipeline' \in [Slot -> Pipeline]
<1>1. [pipeline[shared] EXCEPT !.queue = Append(@, "dashboard")] \in Pipeline
  BY QueueTypes DEF PlaybackTypeOK, Buffer
<1> QED
  BY <1>1 DEF Queue, PlaybackTypeOK

LEMMA FeederTypes == ASSUME PlaybackTypeOK, Feeder PROVE PlaybackTypeOK'
<1>1. CASE FeederLooks
  <2>1. ASSUME NEW r \in Reader
        PROVE  [reader EXCEPT ![r].at = "reading"]
                 \in [Reader -> [at : {"none", "reading", "locking", "sending"},
                                 chunk : BOOLEAN]]
    BY DEF PlaybackTypeOK
  <2>2. /\ \/ UNCHANGED <<encoder, reader>>
           \/ encoder' = NoOne /\ UNCHANGED reader
           \/ \E r \in Reader : encoder' = r /\ reader' = [reader EXCEPT ![r].at = "reading"]
        /\ broken' = broken \/ broken' = FALSE
        /\ feeder' = feeder \/ feeder' = "drawing"
    BY <1>1, Zenon DEF FeederLooks
  <2>3. /\ reader' \in [Reader -> [at : {"none", "reading", "locking", "sending"},
                                  chunk : BOOLEAN]]
        /\ encoder' \in Reader \cup {NoOne}
        /\ broken' \in BOOLEAN
        /\ feeder' \in {"checking", "drawing"}
    BY <2>1, <2>2, Zenon DEF PlaybackTypeOK
  <2>4. UNCHANGED <<idleCodec, active, main, wants, engine, shared, pipeline, lock, shown>>
    BY <1>1 DEF FeederLooks, mainVars
  <2> QED
    BY <2>3, <2>4, Zenon DEF PlaybackTypeOK
<1>2. CASE FeederSends
  BY <1>2, DashboardQueued DEF FeederSends, PlaybackTypeOK, mainVars
<1>3. CASE FeederEncodes
  <2>1. \/ UNCHANGED reader
        \/ encoder \in Reader /\ reader' = [reader EXCEPT ![encoder].chunk = TRUE]
    BY <1>3 DEF FeederEncodes, PlaybackTypeOK
  <2>2. reader' \in [Reader -> [at : {"none", "reading", "locking", "sending"},
                                chunk : BOOLEAN]]
    BY <2>1 DEF PlaybackTypeOK
  <2> QED
    BY <1>3, <2>2 DEF FeederEncodes, PlaybackTypeOK, mainVars
<1> QED
  BY <1>1, <1>2, <1>3 DEF Feeder

LEMMA EncoderTypes == ASSUME PlaybackTypeOK, EncoderDies PROVE PlaybackTypeOK'
BY DEF EncoderDies, PlaybackTypeOK, mainVars

LEMMA ReaderTypes ==
    ASSUME PlaybackTypeOK, NEW r \in Reader, ReaderThread(r)
    PROVE  PlaybackTypeOK'
<1>1. CASE ReaderReads(r)
  <2>1. \/ reader' = [reader EXCEPT ![r] = [at |-> "locking", chunk |-> FALSE]]
        \/ reader' = [reader EXCEPT ![r].at = "none"]
    BY <1>1 DEF ReaderReads
  <2>2. reader' \in [Reader -> [at : {"none", "reading", "locking", "sending"},
                                chunk : BOOLEAN]]
    <3>1. ASSUME NEW x \in [at : {"none", "reading", "locking", "sending"}, chunk : BOOLEAN]
          PROVE  [x EXCEPT !.at = "none"]
                   \in [at : {"none", "reading", "locking", "sending"}, chunk : BOOLEAN]
      OBVIOUS
    <3>2. [at |-> "locking", chunk |-> FALSE]
            \in [at : {"none", "reading", "locking", "sending"}, chunk : BOOLEAN]
      OBVIOUS
    <3>3. /\ reader \in [Reader -> [at : {"none", "reading", "locking", "sending"},
                                  chunk : BOOLEAN]]
          /\ \E x \in [at : {"none", "reading", "locking", "sending"}, chunk : BOOLEAN] :
                reader' = [reader EXCEPT ![r] = x]
      BY <2>1, <3>1, <3>2 DEF PlaybackTypeOK
    <3> QED
      BY <3>3
  <2> QED
    BY <1>1, <2>2 DEF ReaderReads, PlaybackTypeOK, mainVars
<1>2. CASE ReaderLocks(r)
  BY <1>2 DEF ReaderLocks, PlaybackTypeOK, mainVars
<1>3. CASE ReaderSends(r)
  BY <1>3, DashboardQueued DEF ReaderSends, PlaybackTypeOK, mainVars
<1> QED
  BY <1>1, <1>2, <1>3 DEF ReaderThread

LEMMA NextTypes == PlaybackTypeOK /\ [Next]_vars => PlaybackTypeOK'
<1> SUFFICES ASSUME PlaybackTypeOK, [Next]_vars PROVE PlaybackTypeOK'
  OBVIOUS
<1>1. CASE UNCHANGED vars
  BY <1>1 DEF vars, mainVars, idleVars, PlaybackTypeOK
<1> QED
  BY <1>1, MainTypes, SwitchTypes, PlayerTypes, FeederTypes, EncoderTypes, ReaderTypes DEF Next

\* Every variable keeps its type, for any readers and any queue capacities.
THEOREM PlaybackTypeCorrect == Spec => []PlaybackTypeOK
BY InitTypes, NextTypes, PTL DEF Spec

-----------------------------------------------------------------------------
(* One player at a time, and queues within their capacity.                 *)

\* Outside a switch the engine's player is the only one that may live; during
\* one the old player is dead before the new one is started, and stays so until
\* the engine is replaced.
SwitchInv ==
    /\ main # "handing" => pipeline[Other(engine)].child = "dead"
    /\ main \in {"starting", "handing"} => pipeline[engine].child = "dead"

QueuesBounded == \A p \in Slot : Len(pipeline[p].queue) <= Capacity(p)

PlaybackInv == PlaybackTypeOK /\ SwitchInv /\ QueuesBounded

LEMMA CapacityIsNat == ASSUME NEW p \in Slot PROVE Capacity(p) \in Nat \ {0}
BY DEF Capacity

\* A buffer goes into a queue only when it has room.
LEMMA QueueKeeps ==
    ASSUME PlaybackInv, NEW p \in Slot, NEW b \in Buffer, Room(p), Queue(p, b),
           UNCHANGED idleCodec
    PROVE  /\ QueuesBounded'
           /\ \A q \in Slot : pipeline'[q].child = pipeline[q].child
<1>1. \A q \in Slot : pipeline[q] \in Pipeline
  BY DEF PlaybackInv, PlaybackTypeOK
<1>2. \A q \in Slot : /\ pipeline'[q].mode = pipeline[q].mode
                      /\ pipeline'[q].child = pipeline[q].child
                      /\ q # p => pipeline'[q].queue = pipeline[q].queue
  BY <1>1 DEF Queue, PlaybackInv, PlaybackTypeOK, Pipeline
<1>3. pipeline'[p].queue = Append(pipeline[p].queue, b)
  BY <1>1 DEF Queue, PlaybackInv, PlaybackTypeOK, Pipeline
<1>4. \A q \in Slot : Capacity(q)' = Capacity(q)
  BY <1>2 DEF Capacity
<1>5. pipeline[p].queue \in Seq(Buffer)
  BY <1>1 DEF Pipeline
<1>6. Len(pipeline'[p].queue) = Len(pipeline[p].queue) + 1
      /\ Len(pipeline[p].queue) \in Nat /\ Len(pipeline[p].queue) < Capacity(p)
  BY <1>3, <1>5 DEF Room
<1>7. Len(pipeline'[p].queue) <= Capacity(p)
  BY <1>6, CapacityIsNat
<1> QED
  BY <1>2, <1>4, <1>7 DEF QueuesBounded, PlaybackInv

\* The queues that are as they were, or empty, are within their capacity.
LEMMA QueuesKept ==
    ASSUME PlaybackInv, UNCHANGED idleCodec,
           \A p \in Slot : \/ pipeline'[p].queue = <<>>
                           \/ /\ pipeline'[p].mode = pipeline[p].mode
                              /\ Len(pipeline'[p].queue) <= Len(pipeline[p].queue)
                              /\ Len(pipeline'[p].queue) \in Nat
    PROVE  QueuesBounded'
<1>1. \A p \in Slot : pipeline[p] \in Pipeline
  BY DEF PlaybackInv, PlaybackTypeOK
<1>2. \A p \in Slot : Len(pipeline[p].queue) \in Nat
  BY <1>1 DEF Pipeline
<1>3. \A p \in Slot : Capacity(p)' \in Nat
  BY DEF Capacity
<1>4. \A p \in Slot : pipeline'[p].mode = pipeline[p].mode => Capacity(p)' = Capacity(p)
  BY DEF Capacity
<1>5. \A p \in Slot : Len(pipeline[p].queue) <= Capacity(p) /\ Capacity(p) \in Nat
  BY CapacityIsNat DEF PlaybackInv, QueuesBounded
<1>6. ASSUME NEW p \in Slot PROVE Len(pipeline'[p].queue) <= Capacity(p)'
  <2>1. CASE pipeline'[p].queue = <<>>
    <3>1. Len(pipeline'[p].queue) = 0
      BY <2>1
    <3> QED
      BY <1>3, <3>1
  <2>2. CASE /\ pipeline'[p].mode = pipeline[p].mode
             /\ Len(pipeline'[p].queue) <= Len(pipeline[p].queue)
             /\ Len(pipeline'[p].queue) \in Nat
    BY <1>2, <1>4, <1>5, <2>2
  <2> QED
    BY <2>1, <2>2
<1> QED
  BY <1>6 DEF QueuesBounded

LEMMA MainInv ==
    ASSUME PlaybackInv, FrameArrives \/ StartArrives \/ StopArrives
    PROVE  SwitchInv' /\ QueuesBounded'
<1>1. UNCHANGED <<idleCodec, pipeline, engine>> /\ main = "ready"
      /\ main' \in {"ready", "killing", "submitting"}
  BY DEF FrameArrives, StartArrives, StopArrives, Ensures, mainVars
<1>2. SwitchInv'
  BY <1>1 DEF SwitchInv, PlaybackInv, Other
<1>3. QueuesBounded'
  BY <1>1 DEF QueuesBounded, PlaybackInv, Capacity
<1> QED
  BY <1>2, <1>3

LEMMA SwitchKeepsInv ==
    ASSUME PlaybackInv, Switch PROVE SwitchInv' /\ QueuesBounded'
<1>1. /\ pipeline \in [Slot -> Pipeline] /\ engine \in Slot /\ wants \in Mode
      /\ \A p \in Slot : pipeline[p].queue \in Seq(Buffer)
      /\ Other(engine) \in Slot /\ Other(engine) # engine /\ Other(Other(engine)) = engine
  BY SlotFacts DEF PlaybackInv, PlaybackTypeOK, Pipeline
<1>2. \A p \in Slot : Len(pipeline[p].queue) \in Nat
  BY <1>1
<1>3. AfterSwitch \in {"ready", "submitting"}
  BY DEF AfterSwitch
<1>4. CASE Kills
  <2>1. \A p \in Slot : /\ pipeline'[p].mode = pipeline[p].mode
                         /\ pipeline'[p].queue = pipeline[p].queue
                         /\ p # engine => pipeline'[p] = pipeline[p]
    BY <1>1, <1>4 DEF Kills, Pipeline
  <2>2. QueuesBounded'
    BY <1>2, <1>4, <2>1, QueuesKept DEF Kills
  <2>3. pipeline'[engine].child = "dead"
    BY <1>1, <1>4 DEF Kills, Pipeline
  <2>4. SwitchInv'
    BY <1>1, <1>4, <2>1, <2>3 DEF Kills, SwitchInv, PlaybackInv, Other
  <2> QED
    BY <2>2, <2>4
<1>5. CASE Starts
  <2>1. /\ pipeline'[Other(engine)] = Started(wants) /\ pipeline'[engine] = pipeline[engine]
        /\ \A p \in Slot : p # Other(engine) => pipeline'[p] = pipeline[p]
    BY <1>1, <1>5 DEF Starts
  <2>2. QueuesBounded'
    BY <1>1, <1>2, <1>5, <2>1, StartedTypes, QueuesKept DEF Starts
  <2>3. SwitchInv'
    BY <1>5, <2>1 DEF Starts, SwitchInv, PlaybackInv
  <2> QED
    BY <2>2, <2>3
<1>6. CASE FailsToStart
  <2>1. QueuesBounded'
    BY <1>2, <1>6, QueuesKept DEF FailsToStart
  <2>2. SwitchInv'
    BY <1>3, <1>6 DEF FailsToStart, SwitchInv, PlaybackInv, Other
  <2> QED
    BY <2>1, <2>2
<1>7. CASE HandsOver
  <2>1. QueuesBounded'
    BY <1>2, <1>7, QueuesKept DEF HandsOver
  <2>2. engine' = Other(engine) /\ Other(engine)' = engine
    BY <1>1, <1>7 DEF HandsOver, Other
  <2>3. SwitchInv'
    BY <1>3, <1>7, <2>2 DEF HandsOver, SwitchInv, PlaybackInv
  <2> QED
    BY <2>1, <2>3
<1>8. CASE Submits
  <2>1. QueuesBounded' /\ \A q \in Slot : pipeline'[q].child = pipeline[q].child
    <3>1. CASE Room(engine) /\ Queue(engine, "frame")
      BY <1>1, <1>8, <3>1, QueueKeeps DEF Submits, Buffer
    <3>2. CASE UNCHANGED pipeline
      BY <1>2, <1>8, <3>2, QueuesKept DEF Submits
    <3> QED
      BY <1>8, <3>1, <3>2 DEF Submits
  <2>2. SwitchInv'
    BY <1>1, <1>8, <2>1 DEF Submits, SwitchInv, PlaybackInv, Other
  <2> QED
    BY <2>1, <2>2
<1> QED
  BY <1>4, <1>5, <1>6, <1>7, <1>8 DEF Switch

LEMMA PlayerInv ==
    ASSUME PlaybackInv, NEW p \in Slot, Writer(p) \/ PlayerChanges(p)
    PROVE  SwitchInv' /\ QueuesBounded'
<1>1. /\ \A q \in Slot : pipeline[q] \in Pipeline
      /\ \A q \in Slot : pipeline[q].queue \in Seq(Buffer)
      /\ engine \in Slot /\ Other(engine) \in Slot
  BY SlotFacts DEF PlaybackInv, PlaybackTypeOK, Pipeline
<1>2. \A q \in Slot : Len(pipeline[q].queue) \in Nat
  BY <1>1
<1>3. UNCHANGED <<idleCodec, main, engine>>
  BY DEF Writer, WriterTakes, WriterWrites, WriterFails, PlayerChanges, mainVars
<1>4. ASSUME NEW q \in Slot
      PROVE  /\ pipeline'[q].mode = pipeline[q].mode
             /\ pipeline[q].child = "dead" => pipeline'[q].child = "dead"
             /\ \/ pipeline'[q].queue = <<>>
                \/ pipeline'[q].queue = pipeline[q].queue
                \/ /\ pipeline[q].queue # <<>>
                   /\ pipeline'[q].queue = Tail(pipeline[q].queue)
  <2>1. CASE WriterTakes(p)
    BY <1>1, <2>1 DEF WriterTakes, PlaybackInv, PlaybackTypeOK, Pipeline
  <2>2. CASE WriterWrites(p)
    BY <1>1, <2>2 DEF WriterWrites, PlaybackInv, PlaybackTypeOK, Pipeline
  <2>3. CASE WriterFails(p)
    BY <1>1, <2>3 DEF WriterFails, PlaybackInv, PlaybackTypeOK, Pipeline
  <2>4. CASE PlayerChanges(p)
    BY <1>1, <2>4 DEF PlayerChanges, PlaybackInv, PlaybackTypeOK, Pipeline
  <2> QED
    BY <2>1, <2>2, <2>3, <2>4 DEF Writer
<1>5. \A q \in Slot : pipeline[q].queue # <<>> =>
                        /\ Len(Tail(pipeline[q].queue)) <= Len(pipeline[q].queue)
                        /\ Len(Tail(pipeline[q].queue)) \in Nat
  BY <1>1
<1>6. QueuesBounded'
  <2>1. ASSUME NEW q \in Slot
        PROVE  \/ pipeline'[q].queue = <<>>
               \/ /\ pipeline'[q].mode = pipeline[q].mode
                  /\ Len(pipeline'[q].queue) <= Len(pipeline[q].queue)
                  /\ Len(pipeline'[q].queue) \in Nat
    <3>1. CASE pipeline'[q].queue = pipeline[q].queue
      BY <1>2, <1>4, <3>1
    <3>2. CASE pipeline[q].queue # <<>> /\ pipeline'[q].queue = Tail(pipeline[q].queue)
      BY <1>4, <1>5, <3>2
    <3> QED
      BY <1>4, <3>1, <3>2
  <2> QED
    BY <1>3, <2>1, QueuesKept
<1>7. SwitchInv'
  BY <1>1, <1>3, <1>4 DEF SwitchInv, PlaybackInv, Other
<1> QED
  BY <1>6, <1>7

LEMMA IdleInv ==
    ASSUME PlaybackInv, Feeder \/ EncoderDies \/ \E r \in Reader : ReaderThread(r)
    PROVE  SwitchInv' /\ QueuesBounded'
<1>1. shared \in Slot /\ engine \in Slot /\ Other(engine) \in Slot
  BY SlotFacts DEF PlaybackInv, PlaybackTypeOK
<1>2. \A p \in Slot : Len(pipeline[p].queue) \in Nat
  BY DEF PlaybackInv, PlaybackTypeOK, Pipeline
<1>3. /\ UNCHANGED <<idleCodec, main, engine>>
      /\ (UNCHANGED pipeline \/ (Room(shared) /\ Queue(shared, "dashboard")))
  <2>1. CASE FeederLooks \/ FeederEncodes \/ EncoderDies
    BY <2>1 DEF FeederLooks, FeederEncodes, EncoderDies, mainVars
  <2>2. CASE FeederSends
    BY <2>2 DEF FeederSends, mainVars
  <2>3. ASSUME NEW r \in Reader, ReaderReads(r) \/ ReaderLocks(r)
        PROVE  UNCHANGED <<idleCodec, main, engine, pipeline>>
    BY <2>3 DEF ReaderReads, ReaderLocks, mainVars
  <2>4. ASSUME NEW r \in Reader, ReaderSends(r)
        PROVE  /\ UNCHANGED <<idleCodec, main, engine>>
               /\ (UNCHANGED pipeline \/ (Room(shared) /\ Queue(shared, "dashboard")))
    BY <2>4 DEF ReaderSends, mainVars
  <2> QED
    BY <2>1, <2>2, <2>3, <2>4 DEF Feeder, ReaderThread
<1>4. QueuesBounded' /\ \A q \in Slot : pipeline'[q].child = pipeline[q].child
  <2>1. CASE UNCHANGED pipeline
    BY <1>2, <1>3, <2>1, QueuesKept
  <2>2. CASE Room(shared) /\ Queue(shared, "dashboard")
    BY <1>1, <1>3, <2>2, QueueKeeps DEF Buffer
  <2> QED
    BY <1>3, <2>1, <2>2
<1>5. SwitchInv'
  BY <1>1, <1>3, <1>4 DEF SwitchInv, PlaybackInv, Other
<1> QED
  BY <1>4, <1>5

LEMMA InitInv == Init => PlaybackInv
<1> SUFFICES ASSUME Init PROVE PlaybackInv
  OBVIOUS
<1>1. SwitchInv
  BY UnusedTypes DEF Init, SwitchInv, Slot, Other
<1>2. \A p \in Slot : pipeline[p].queue = <<>>
  BY StartedTypes, UnusedTypes DEF Init, Mode
<1>3. QueuesBounded
  BY <1>2, CapacityIsNat DEF QueuesBounded
<1> QED
  BY <1>1, <1>3, InitTypes DEF PlaybackInv

LEMMA NextInv == PlaybackInv /\ [Next]_vars => PlaybackInv'
<1> SUFFICES ASSUME PlaybackInv, [Next]_vars PROVE PlaybackInv'
  OBVIOUS
<1>1. PlaybackTypeOK'
  BY NextTypes DEF PlaybackInv
<1>2. CASE UNCHANGED vars
  BY <1>1, <1>2 DEF vars, mainVars, PlaybackInv, SwitchInv, QueuesBounded, Capacity, Other
<1> QED
  BY <1>1, <1>2, MainInv, SwitchKeepsInv, PlayerInv, IdleInv DEF Next, PlaybackInv

\* At no moment of a switch do two players live, whatever the old and the new
\* one do meanwhile and whether the new one starts, and no queue exceeds its
\* capacity (ensure_configuration, start_persistent_playback).
THEOREM OnePlayerAtATime == Spec => []OnePlayer
<1>1. PlaybackInv => OnePlayer
  <2> SUFFICES ASSUME PlaybackInv PROVE OnePlayer
    OBVIOUS
  <2>1. engine \in Slot /\ Other(engine) \in Slot
    BY SlotFacts DEF PlaybackInv, PlaybackTypeOK
  <2>2. \E p \in Slot : pipeline[p].child = "dead"
    BY <2>1 DEF PlaybackInv, SwitchInv
  <2> QED
    BY <2>2 DEF PlaybackInv, QueuesBounded, OnePlayer
<1> QED
  BY <1>1, InitInv, NextInv, PTL DEF Spec
=============================================================================
