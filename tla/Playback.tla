------------------------------ MODULE Playback ------------------------------
(***************************************************************************)
(* The player and who writes to it: src/playback.rs, the idle thread of    *)
(* src/dashboard.rs, and the part of the main loop of src/main.rs that     *)
(* switches pipelines and hands frames over.                               *)
(*                                                                         *)
(* A pipeline is a GStreamer child, a writer thread that feeds it and a    *)
(* bounded queue before the thread.  The main loop owns the pipeline; the  *)
(* idle thread reaches it through dashboard_writer, a mutex around the     *)
(* queue's sender, directly (raw mode) or through an encoder process and   *)
(* a thread that reads the encoder's output (HEVC mode).                   *)
(*                                                                         *)
(* Abstractions: one stream codec; a player takes a buffer whole or not at *)
(* all; an encoder's pipe holds one chunk.  At most two pipelines matter:  *)
(* one that neither the engine nor dashboard_writer refers to has no       *)
(* senders and a child that is dead.                                       *)
(***************************************************************************)
EXTENDS Naturals, Sequences

CONSTANTS
    IdleCodecs,      \* IDLE_DASHBOARD_MODE: "raw", "hevc"
    Reader, NoOne,   \* threads that read an encoder's output; nobody
    RawCapacity,     \* RAW_QUEUE_CAPACITY
    EncodedCapacity  \* ENCODED_QUEUE_CAPACITY

ASSUME PlaybackAssumption ==
    /\ IdleCodecs \subseteq {"raw", "hevc"}
    /\ NoOne \notin Reader
    /\ {RawCapacity, EncodedCapacity} \subseteq Nat \ {0}

VARIABLES
    idleCodec,  \* the mode of this process
    active,     \* streaming_active
    main,       \* where the main loop is
    wants,      \* the configuration it asks for, "composed" for a frame
    pipeline,   \* the two pipelines
    engine,     \* the one the engine owns
    shared,     \* the one dashboard_writer sends to
    lock,       \* who holds dashboard_writer's mutex
    shown,      \* what the running player was last given (history)
    feeder,     \* where the idle thread is
    encoder,    \* the reader of the encoder it feeds, or NoOne
    broken,     \* the process of that encoder has died
    reader      \* per reader: where it is, and whether a chunk is in its pipe

mainVars == <<main, wants, engine, shared>>
idleVars == <<feeder, encoder, broken, reader>>
vars == <<idleCodec, active, mainVars, pipeline, lock, shown, idleVars>>

-----------------------------------------------------------------------------
Slot == {1, 2}
Other(p) == 3 - p
Mode == {"dashboard", "composed"}
Buffer == {"dashboard", "frame"}

Pipeline == [mode : Mode, child : {"reading", "stalled", "dead"},
             writer : {"waiting", "writing", "gone"},
             held : Buffer \cup {"nothing"}, queue : Seq(Buffer)]

Started(m) == [mode |-> m, child |-> "reading", writer |-> "waiting",
               held |-> "nothing", queue |-> <<>>]
Unused == [Started("dashboard") EXCEPT !.child = "dead", !.writer = "gone"]

Capacity(p) == IF idleCodec = "raw" /\ pipeline[p].mode = "dashboard"
               THEN RawCapacity ELSE EncodedCapacity

Gone(p) == pipeline[p].writer = "gone"
Room(p) == ~Gone(p) /\ Len(pipeline[p].queue) < Capacity(p)
Queue(p, b) == pipeline' = [pipeline EXCEPT ![p].queue = Append(@, b)]

Init ==
    /\ idleCodec \in IdleCodecs
    /\ active = FALSE
    /\ main = "ready" /\ wants = "dashboard"
    /\ pipeline = [p \in Slot |-> IF p = 1 THEN Started("dashboard") ELSE Unused]
    /\ engine = 1 /\ shared = 1 /\ lock = NoOne
    /\ shown = "nothing"
    /\ feeder = "checking" /\ encoder = NoOne /\ broken = FALSE
    /\ reader = [r \in Reader |-> [at |-> "none", chunk |-> FALSE]]

-----------------------------------------------------------------------------
(* The main loop.                                                          *)

\* ensure_configuration returns at once if the configuration is the one on
\* record, whether its child lives or not.
Ensures(m) ==
    /\ wants' = m
    /\ main' = IF pipeline[engine].mode # m THEN "killing"
               ELSE IF m = "composed" THEN "submitting" ELSE "ready"

\* A frame of a stream; a first one sets streaming_active before the player is
\* switched.
FrameArrives ==
    /\ main = "ready"
    /\ \E first \in BOOLEAN :
        /\ first \/ active
        /\ active' = TRUE
        /\ Ensures("composed")
    /\ UNCHANGED <<idleCodec, pipeline, engine, shared, lock, shown, idleVars>>

\* Start sets the flag and leaves the player to the first frame.
StartArrives ==
    /\ main = "ready"
    /\ active' = TRUE
    /\ UNCHANGED <<idleCodec, mainVars, pipeline, lock, shown, idleVars>>

\* Stop, the stop frame, the idle timeout.
StopArrives ==
    /\ main = "ready"
    /\ active' = FALSE
    /\ Ensures("dashboard")
    /\ UNCHANGED <<idleCodec, pipeline, engine, shared, lock, shown, idleVars>>

\* Mutant of Kills: the old player is left to end by itself.
LeavesRunning ==
    /\ main = "killing"
    /\ main' = "starting"
    /\ UNCHANGED <<idleCodec, active, wants, pipeline, engine, shared, lock, shown,
                   idleVars>>

\* Mutant of Kills: dashboard_writer is locked first.
KillsUnderLock ==
    /\ main = "killing" /\ lock = NoOne
    /\ pipeline' = [pipeline EXCEPT ![engine].child = "dead"]
    /\ main' = "starting"
    /\ UNCHANGED <<idleCodec, active, wants, engine, shared, lock, shown, idleVars>>

\* kill and wait.
Kills ==
    /\ main = "killing"
    /\ pipeline' = [pipeline EXCEPT ![engine].child = "dead"]
    /\ main' = "starting"
    /\ UNCHANGED <<idleCodec, active, wants, engine, shared, lock, shown, idleVars>>

\* start_persistent_playback.
Starts ==
    /\ main = "starting"
    /\ pipeline' = [pipeline EXCEPT ![Other(engine)] = Started(wants)]
    /\ shown' = "nothing"
    /\ main' = "handing"
    /\ UNCHANGED <<idleCodec, active, wants, engine, shared, lock, idleVars>>

AfterSwitch == IF wants = "composed" THEN "submitting" ELSE "ready"

\* It fails: the old configuration stays on record, with a dead child, and the
\* caller goes on as if it had not.
FailsToStart ==
    /\ main = "starting"
    /\ main' = AfterSwitch
    /\ UNCHANGED <<idleCodec, active, wants, engine, shared, pipeline, lock, shown,
                   idleVars>>

\* Mutant of HandsOver: dashboard_writer gets the sender of the old pipeline.
HandsOverOldSender ==
    /\ main = "handing" /\ lock = NoOne
    /\ engine' = Other(engine) /\ shared' = engine
    /\ main' = AfterSwitch
    /\ UNCHANGED <<idleCodec, active, wants, pipeline, lock, shown, idleVars>>

\* The new sender is put into dashboard_writer, under its mutex, and the old
\* engine is dropped.
HandsOver ==
    /\ main = "handing" /\ lock = NoOne
    /\ engine' = Other(engine) /\ shared' = engine'
    /\ main' = AfterSwitch
    /\ UNCHANGED <<idleCodec, active, wants, pipeline, lock, shown, idleVars>>

\* writer_tx.send: waits for room, and fails when the writer thread is gone.
Submits ==
    /\ main = "submitting"
    /\ \/ Room(engine) /\ Queue(engine, "frame")
       \/ Gone(engine) /\ UNCHANGED pipeline
    /\ main' = "ready"
    /\ UNCHANGED <<idleCodec, active, wants, engine, shared, lock, shown, idleVars>>

-----------------------------------------------------------------------------
(* The writer threads and the players.                                     *)

WriterTakes(p) ==
    /\ pipeline[p].writer = "waiting" /\ pipeline[p].queue # <<>>
    /\ pipeline' = [pipeline EXCEPT ![p].writer = "writing",
                                    ![p].held = Head(pipeline[p].queue),
                                    ![p].queue = Tail(@)]
    /\ UNCHANGED <<idleCodec, active, mainVars, lock, shown, idleVars>>

WriterWrites(p) ==
    /\ pipeline[p].writer = "writing" /\ pipeline[p].child = "reading"
    /\ shown' = pipeline[p].held
    /\ pipeline' = [pipeline EXCEPT ![p].writer = "waiting", ![p].held = "nothing"]
    /\ UNCHANGED <<idleCodec, active, mainVars, lock, idleVars>>

\* A write to a dead player fails, the thread ends, the queue goes with it.
WriterFails(p) ==
    /\ pipeline[p].writer = "writing" /\ pipeline[p].child = "dead"
    /\ pipeline' = [pipeline EXCEPT ![p].writer = "gone", ![p].held = "nothing",
                                    ![p].queue = <<>>]
    /\ UNCHANGED <<idleCodec, active, mainVars, lock, shown, idleVars>>

Writer(p) == WriterTakes(p) \/ WriterWrites(p) \/ WriterFails(p)

\* A player stalls on the display, recovers, or dies.
PlayerChanges(p) ==
    /\ pipeline[p].child # "dead"
    /\ \E c \in {"reading", "stalled", "dead"} \ {pipeline[p].child} :
          pipeline' = [pipeline EXCEPT ![p].child = c]
    /\ UNCHANGED <<idleCodec, active, mainVars, lock, shown, idleVars>>

-----------------------------------------------------------------------------
(* The idle thread.                                                        *)

\* It looks at streaming_active; in HEVC mode it starts or ends the encoder.  A
\* start that fails leaves it without one for this pass.  (A reader that is not
\* in use is one whose thread has ended.)
FeederLooks ==
    /\ feeder = "checking"
    /\ \/ /\ ~active
          /\ \/ (idleCodec = "raw" \/ encoder # NoOne) /\ UNCHANGED <<encoder, reader>>
             \/ /\ idleCodec = "hevc" /\ encoder = NoOne
                /\ \E r \in Reader :
                    /\ reader[r].at = "none"
                    /\ \/ encoder' = r /\ reader' = [reader EXCEPT ![r].at = "reading"]
                       \/ UNCHANGED <<encoder, reader>>
          /\ feeder' = "drawing" /\ UNCHANGED broken
       \/ /\ active /\ encoder # NoOne
          /\ encoder' = NoOne /\ broken' = FALSE /\ UNCHANGED <<feeder, reader>>
    /\ UNCHANGED <<idleCodec, active, mainVars, pipeline, lock, shown>>

\* Raw mode: try_send of the frame that was drawn, dropped if there is no room.
FeederSends ==
    /\ feeder = "drawing" /\ idleCodec = "raw" /\ lock = NoOne
    /\ IF Room(shared) THEN Queue(shared, "dashboard") ELSE UNCHANGED pipeline
    /\ feeder' = "checking"
    /\ UNCHANGED <<idleCodec, active, mainVars, lock, shown, encoder, broken, reader>>

\* HEVC mode: the frame is written to the encoder, which waits for its reader.  A
\* write to one that has died fails, and the encoder is kept all the same; with
\* none there is nothing to write to.
FeederEncodes ==
    /\ feeder = "drawing" /\ idleCodec = "hevc"
    /\ IF encoder = NoOne \/ broken THEN UNCHANGED reader
       ELSE /\ ~reader[encoder].chunk
            /\ reader' = [reader EXCEPT ![encoder].chunk = TRUE]
    /\ feeder' = "checking"
    /\ UNCHANGED <<idleCodec, active, mainVars, pipeline, lock, shown, encoder, broken>>

\* The encoder's process ends by itself.
EncoderDies ==
    /\ encoder # NoOne /\ ~broken
    /\ broken' = TRUE
    /\ UNCHANGED <<idleCodec, active, mainVars, pipeline, lock, shown, feeder, encoder,
                   reader>>

Feeder == FeederLooks \/ FeederSends \/ FeederEncodes

\* A reader takes a chunk, or ends with its encoder.
ReaderReads(r) ==
    /\ reader[r].at = "reading"
    /\ \/ reader[r].chunk /\ reader' = [reader EXCEPT ![r] = [at |-> "locking", chunk |-> FALSE]]
       \/ ~reader[r].chunk /\ (encoder # r \/ broken) /\ reader' = [reader EXCEPT ![r].at = "none"]
    /\ UNCHANGED <<idleCodec, active, mainVars, pipeline, lock, shown, feeder, encoder,
                   broken>>

ReaderLocks(r) ==
    /\ reader[r].at = "locking" /\ lock = NoOne
    /\ lock' = r
    /\ reader' = [reader EXCEPT ![r].at = "sending"]
    /\ UNCHANGED <<idleCodec, active, mainVars, pipeline, shown, feeder, encoder, broken>>

\* A blocking send, with the mutex held.
ReaderSends(r) ==
    /\ reader[r].at = "sending"
    /\ \/ Room(shared) /\ Queue(shared, "dashboard")
       \/ Gone(shared) /\ UNCHANGED pipeline
    /\ lock' = NoOne
    /\ reader' = [reader EXCEPT ![r].at = "reading"]
    /\ UNCHANGED <<idleCodec, active, mainVars, shown, feeder, encoder, broken>>

ReaderThread(r) == ReaderReads(r) \/ ReaderLocks(r) \/ ReaderSends(r)

-----------------------------------------------------------------------------
Switch == Kills \/ Starts \/ FailsToStart \/ HandsOver \/ Submits

Next == \/ FrameArrives \/ StartArrives \/ StopArrives \/ Switch
        \/ \E p \in Slot : Writer(p) \/ PlayerChanges(p)
        \/ Feeder \/ EncoderDies
        \/ \E r \in Reader : ReaderThread(r)

Spec == Init /\ [][Next]_vars

\* Threads are scheduled, and a mutex that is free again and again is obtained.
\* Nothing is assumed of the players, of the encoder or of who streams.
PlaybackSpec ==
    /\ Spec
    /\ WF_vars(Kills \/ Starts \/ FailsToStart \/ Submits) /\ SF_vars(HandsOver)
    /\ \A p \in Slot : WF_vars(Writer(p))
    /\ WF_vars(Feeder)
    /\ \A r \in Reader : WF_vars(ReaderReads(r) \/ ReaderSends(r)) /\ SF_vars(ReaderLocks(r))

-----------------------------------------------------------------------------
(* Properties.                                                             *)

\* Every variable has its type.
PlaybackTypeOK ==
    /\ idleCodec \in {"raw", "hevc"} /\ active \in BOOLEAN
    /\ main \in {"ready", "killing", "starting", "handing", "submitting"}
    /\ wants \in Mode
    /\ pipeline \in [Slot -> Pipeline]
    /\ engine \in Slot /\ shared \in Slot
    /\ lock \in Reader \cup {NoOne}
    /\ shown \in Buffer \cup {"nothing"}
    /\ feeder \in {"checking", "drawing"}
    /\ encoder \in Reader \cup {NoOne} /\ broken \in BOOLEAN
    /\ reader \in [Reader -> [at : {"none", "reading", "locking", "sending"},
                              chunk : BOOLEAN]]

\* The display has one master: at no moment of a switch do two players live, and
\* queues stay within their capacity whoever fills them (playback.rs:154).
OnePlayer ==
    /\ \E p \in Slot : pipeline[p].child = "dead"
    /\ \A p \in Slot : Len(pipeline[p].queue) <= Capacity(p)

\* A switch ends, although a thread may hold dashboard_writer while it waits
\* for a queue that a stalled player keeps full (dashboard.rs:153, playback.rs:165).
\* A frame is handed over in the end, unless its player stalls (main.rs:510).
MainGoesOn ==
    /\ main \in {"killing", "starting", "handing"} ~> main \in {"ready", "submitting"}
    /\ main = "submitting" ~> main = "ready" \/ pipeline[engine].child = "stalled"

\* However many streams there were, once streaming has ended for good and the
\* dashboard's player reads, the player is given new dashboard frames again and
\* again: neither the dashboard of an earlier time nor a frozen picture will do.
\* In HEVC mode this needs an encoder: one that dies is neither noticed nor
\* replaced until a stream has come and gone, and a start that fails is tried
\* again at every pass for as long as it fails (playback.rs:166, dashboard.rs:191,
\* 232).
Resting == ~active /\ main = "ready" /\ pipeline[engine].mode = "dashboard"
           /\ pipeline[engine].child = "reading"
EncoderWorks == ~broken /\ (idleCodec = "hevc" /\ feeder = "drawing" => encoder # NoOne)
Refreshed == WriterWrites(engine) /\ pipeline[engine].held = "dashboard"
DashboardReturns == <>[](Resting /\ EncoderWorks) => []<><<Refreshed>>_vars
=============================================================================
