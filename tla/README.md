# A TLA+ model of LLrdc-casting

LLrdc-casting turns a small ARM board into a wireless display. A browser pairs with
the board, encodes its screen and sends H.264 or HEVC access units over WebTransport;
the board reassembles them and hands them to a GStreamer player on the display. A second
process on the board, the manager, keeps the receiver process alive and serves an
administration portal.

The modules in this directory are translated from the Rust and TypeScript sources.
TLC checks them on small instances; TLAPS proves the most important properties for
every value of the constants. `PROJECT.json` links each definition to the lines it
models, each property to the hazards it is about, and each disagreement between the
code and its own words to the run that shows it.

    tlc -config SupervisorWatch.cfg MCSupervisor.tla      # any run of the table below
    tlapm Supervisor_proofs.tla                           # any of the proof modules

## 1. The system

| part | source | state it keeps | operations | talks to |
|---|---|---|---|---|
| session book | `src/management.rs` | connections, the active stream and its sender, sequence and latency marks, clock synchronisations, history of sessions, event ring | `hello`, `connection_closed`, `touch_connection`, `record_clock_sync`, `start`, `stop`, `record_frame`, `record_estimated_latency`, `record_receiver_estimated_latency`, `event` | called under one mutex by every network task and the main loop; read by the IPC task |
| network tasks | `src/webtransport_server.rs`, `src/http_server.rs` | one connection task, one control task and one media task for each WebTransport connection; a companion UDP socket; an older WebSocket endpoint | accept, read, forward, clean up | two bounded channels to the main loop: commands (32) and frames (2); the session book; the reassembly |
| main loop | `src/main.rs` | `streaming_active`, the idle timer, the health tick, the queue of playback acknowledgements | one `select!` over commands, frames, acknowledgements and timers | session book, player, dashboard |
| player | `src/playback.rs` | the configuration it was last started with, a child process, a writer thread and its queue | `ensure_configuration`, a blocking send to the writer | GStreamer child; acknowledges frames to the main loop |
| idle dashboard | `src/dashboard.rs` | the idle thread, in HEVC mode an encoder process and a thread that reads it | draws each second while nothing streams, feeds the player | the player's queue, through a shared mutex; `streaming_active`; the pairing code |
| reassembly | `src/v4l2_decoder.rs` | `LAST_COMPLETED_SEQ` (an atomic), `ASSEMBLIES` (under a mutex), both global | `process_udp_chunk`, `reset_decoder_pipeline` | called by every media task, the UDP task and the main loop |
| watchdog | `src/supervisor.rs`, `src/receiver_ipc.rs` | the child, receiver state and generation, backoff, the two deadlines, the marks of what was logged | spawn, poll, terminate, restart, apply settings | a Unix socket to the receiver; a command channel (16) from the portal |
| portal | `src/admin.rs` | sessions, requests in progress | settings, restart, stop, update | watchdog, updater |
| pairing | `src/local_pairing.rs`, `src/cloud_discovery.rs`, `cloudflare/worker` | the current code and its deadline, attempts, cloud status; the Worker's row for the receiver | rotate, adopt, validate, register; the Worker registers and pairs | dashboard, IPC task, admission; the Worker over HTTPS |
| admission | `src/webtransport_server.rs`, `src/cloud_discovery.rs` | tokens that were used | judge, verify under a mutex, accept | pairing code; the Worker's tokens |
| updater | `src/update.rs`, `device/llrdc-update.sh` | request file, status file, images | request, check, replace, roll back | portal, the systemd unit |
| operational log | `src/operational_log.rs`, `src/config.rs` | pending lines, segments, health | append, flush, rotate, prune | watchdog |
| sender | `client/src/lib/*.ts` | transport, encoder worker, congestion and latency state | start, stop, send, adapt | WebTransport |

What is hard, and therefore what the modules are about:

* **Who owns the stream.** A session can be ended by its sender's Stop, the operator, a
  stop frame, the idle timer, the end of a control stream, the connection task or a newer
  Start, from three tasks and over two channels. Correct means: each session is filed once;
  the book, the loop's flag, the connection's `sharing` flag and the player agree.
* **Bounded channels.** The frame channel holds two frames; media tasks, the UDP task and
  closing connection tasks all wait for it. Correct means: a lost connection still cleans up.
* **Stale reads.** `process_udp_chunk` reads the counter before it takes the mutex; a portal
  handler reads the generation before its restart is queued; playback acknowledgements outlive
  their session.
* **Timers.** The idle timer against the health tick; the startup and heartbeat deadlines
  against one missed answer.
* **Blocking under a lock.** The encoder's reader sends to the player's bounded queue while it
  holds the mutex that a switch of players needs. Correct means: one player at a time, and every
  switch ends.
* **Codes and tokens in time.** A pairing code is issued by the local timer or by the Worker,
  shown, cleared, consumed elsewhere and renewed; answers get lost after the Worker has acted; a
  token must be accepted once although each connection reads the clock before it takes the mutex.
* **Files that survive.** The manager's log is appended to, rotated and pruned; the manager may stop,
  the power fail, or a call return an error between any two of those steps.
* **Crash and replacement.** A receiver may crash, hang, block or be restarted on request
  at any moment; correct means one receiver at a time, always one again, on the settings
  that were applied, and its journal logged once.

The complete list, with lines, is under `hazards` in `PROJECT.json`; entries without a
property say why.

## 2. Modules

| module | models | state ↔ code | actions ↔ code |
|---|---|---|---|
| `SessionBook` | the abstract register of sessions: at most one active, a bounded newest-first record | - | begin, replace, end |
| `Management` | `src/management.rs`; refines `SessionBook` | `conns` = `connections`, `session`/`owner`/`lastSeq`/`estSeq` = the fields of `ActiveStream`, `history`, `clockSync` = `clock_syncs` | one action for each method, since each takes the mutex once |
| `Transport` | the network tasks | `link`, `ctl`, `media` = where each connection's three tasks are; `cmdQ`, `frameQ` = the channels | one action for each step between awaits; a send to a full channel is not enabled |
| `Receiver` | `src/main.rs` composed with `Management` and `Transport` | `streamingActive`, `engine` and `playerAlive` (the player), `submissions` (the acknowledgement queue) | one action for each branch of `select!`: no handler awaits |
| `Reassembly` | `src/v4l2_decoder.rs` | `lastCompleted`, `assemblies`; `phase`, `packet`, `seen` = where each call is and what it has read; `reliable`, `run`, `sent` = the sources | a call is read-and-decide, two reset steps, assemble under the mutex |
| `Supervisor` | `run_supervisor`, the portal's requests, the receiver processes as the watchdog sees them | `step`, `child`, `victim` = the task's position and locals; `state`, `generation`, `failures`, `retryIn`, `age`, `silence`, `seenEvents`, `seenSessions` = the fields of the shared state and the loop; `proc` = the processes; `request` = the portal tasks | each await of a tick ends a step; `terminate_child` is ask, then in time or killed |
| `Playback` | `src/playback.rs`, the idle thread and the encoder's reader of `src/dashboard.rs`, the part of the main loop that switches and submits | `pipeline` = child, writer thread and queue of a `PlaybackEngine`; `engine`, `shared` = the loop's engine and `dashboard_writer`; `lock` its mutex; `feeder`, `encoder`, `reader` = the idle side | `ensure_configuration` is compare, kill, start or fail, hand over under the mutex; a blocking send is enabled when there is room or no receiver |
| `Pairing` | `src/local_pairing.rs`, `spawn_registration`, the readers of the code, the Worker's row | `code`, `left`, `attempts`, `cloudStatus`, ... = `PairingData`; `registration`, `answer`, `outcome` = the task; `listed` = the row in `active_receivers` | one action for each section under the mutex, so the fallback and a dashboard frame are two each |
| `Admission` | the start of `handle_connection`, `ConnectionTokenVerifier` | `task` = each connection and the time it has read; `seen` = the replay cache | `verify` is judge (reads the clock), then sweep, evict and insert under the mutex |
| `Journal` | `src/operational_log.rs` | `segment` = the files with how much is on the card; `pending`, `dirty`, `healthy` = `Inner`; `call`, `step`, `target` = where the method is | one action for each system call; faults: a call fails, the manager stops, the power fails |
| `MC*` | symmetry sets and constants given as functions | | |
| `*_proofs` | theorems and proofs about the module they are named after | | |

`Transport` extends `Management` and `Receiver` extends `Transport`: the tasks and the loop call
the book's methods as parts of their own steps, and the lemma `ReceiverCallsBook` carries what is
proved of the book alone over to the process. `Reassembly` and `Supervisor` are
not composed with `Receiver` yet: `Transport`'s media tasks yield complete access units, and
`Supervisor`'s processes are lifecycles. `Playback` refines what `Receiver` takes as one step
(`EnsureConfiguration`) and shares its control: `streaming_active` is set before the switch, a failed start leaves
the old configuration on record. `Pairing` decides whether a code is valid, which `Admission` takes
as either; `Journal` is the file behind the watchdog's reports.

### Abstractions

*Management.* Client metadata, codec settings, counters, charts and the health record are left
out, since no step depends on them. The age of `last_seen_at_sec` is "within the 90 s sender
liveness timeout" or not. A clock synchronisation is the session it was recorded in; an estimate
is the sequence number it is for, after the range checks on the sample.

*Transport.* Access units come in sequence order from each source. Datagram frames are the media
task's. A browser sends hello, start and stop (what `streamer.ts` sends); every other command kind
comes from outside (the WebSocket endpoint, the supervisor's socket). The WebSocket endpoint forwards whatever
parses, so an outside hello or start may name any connection, or one no task serves. A message the client had
sent before its connection was lost may still be read. A touch and the record after it are one step. A
STOP packet is taken as the last of its stream. Draining the frame channel on a stop leaves the
frames that waiting senders still hold, which is what the code's `try_recv` loop does when
the senders run after it. Telemetry and `RestartReceiver` (nothing sends it; it ends like Shutdown)
are not modelled.

*Receiver.* One codec; the player takes frames without delay, may die, and may fail to start; the
one-second latency cadence lets any acknowledgement be recorded or skipped. An acknowledgement carries, as history, the session
its frame was played in.

*Playback.* One stream codec, so two configurations. A player takes a buffer whole or not at all. At most two
pipelines matter: one that neither the engine nor `dashboard_writer` refers to has no senders and a dead child. The
encoder's pipes hold one chunk together. An encoder may fail to start, and then the next look tries again; one that has died
is kept, its writes fail, and its reader ends. Frames the network brings are always possible, so nothing is assumed of who streams.

*Pairing.* Deadlines are the ticks left of them; clocks of receiver and Worker run alike, as `saturating_sub` on
the two assumes. An expired attempt window is reset when the peer is next seen, so an absent entry and one whose window is
over are the same. A retry may come at any time, which covers every `retry_delay`. The Worker has one receiver; its
rate limits, nonces and cleanup can only refuse or delay a request (`RequestFails`). A request the receiver has given up may
still reach the Worker (`WorkerRegistersLate`). `consumed` is the history of codes a client has used at the Worker. The request has
no timeout in the code, and none here: nothing is assumed about how long an answer takes.

*Admission.* A token is one the Worker signed for this receiver, with its own `jti`; signature and encoding checks happen
before any state is touched and refuse everything else. The clock does not go back.

*Journal.* A segment is a sequence of marks: an event's text, a part of one, a newline. A power failure leaves of each
file a prefix that contains what was synced; renames are in force when they return, in order, as on a file system with an ordered
metadata journal. Each call may fail: a step of the rotation up to the last sync of the directory, an open (which may leave an
empty file), a write, a sync. Which events reach `append_event` is up to the environment, so aggregation and redaction are left out, as are `recent` (read by the portal only),
incident excerpts and the archive.

*Reassembly.* A payload is the access unit it was cut from, so mixing two is visible. A source reads
either a reliable stream, whose packets hold a whole access unit each (what `sendAccessUnit` writes), or datagrams, whose access units all have `Chunks`
chunks and are lost, duplicated, delayed and reordered; which sources are which is chosen at the start.
`completed` is a history of what each returned frame was made of. A malformed packet is ignored, but after its
number has been acted on: it may reset (`ReceiveMalformed`).

*Supervisor.* Settings are version numbers. The output ring, metrics, `restart_count` and failure texts are
left out. `try_wait` fails only of a process that is no longer there to be waited for, and its two arms for an exit and an
error do the same, so `ChildExited` stands for both. `carried` is the history of what the receiver had reported by its last answered snapshot.
Starting a process and registering it under the lock are two steps, because the new process runs in between. The
process states are: booting, serving, *stuck* (its main task is blocked while the IPC task answers),
*hung* (nothing answers), stopping, exited.

## 3. Runs

| run | question | instance | distinct states |
|---|---|---|---|
| `book` | the book's properties under every order of calls, and that it implements `SessionBook` | 2 connections, 3 sessions, history of 2, 2 sequence numbers | 354 000 |
| `media` | frames, reports, acknowledgements, the idle timer, an operator's command and a failing player through a full frame channel | 1 client with 2 commands and timing metadata, 1 outside command, a stream of 2 frames, frame channel of 1 | 3.4 million |
| `release` | a lost connection is released for good without the idle timer | 1 client with 2 commands, the UDP sender, default timeouts | 15 000 |
| `reassembly` | sources with overlapping numbers, losses, duplicates, reordering; restarted streams against the loop's two-step reset, the list at its limit; a reliable stream loses nothing | 2 sources, 2 streams in all, of 3 access units from one source and 1 from the other, 2 chunks, list of 2 | 4.3 million |
| `watchdog` | one receiver at a time, `ready` is true, a restart shown as done has its settings in force, what snapshots carried is logged exactly once | 2 receivers, 1 fault, 2 requests, 2 reports of each receiver, event list of 1 | 5.0 million |
| `watchdog_live` | tries again, replaces a hung receiver, honours a restart | 3 receivers, 1 fault, 1 request | 276 000 |
| `playback` | one player, the loop gets through a switch and a send, the dashboard returns | both dashboard modes, 1 encoder reader, the code's queue capacities (2 and 1) | 175 000 |
| `pairing` | a cloud code is listed as long as it is accepted, or was consumed, a frame shows a code that lived, the fallback spares a valid code, an expired code is replaced | 2 codes, 1 peer, lifetimes of 2 ticks, every setting of the process | 523 000 |
| `admission` | each token admits once, the cache keeps its limit | 2 connections, 3 tokens (one never valid), cache of 1, 4 seconds | 18 000 |
| `journal` | order, acknowledged events, bounded damage, one report of a broken stream | 3 segments of one line, 3 events and the reports, 2 stops or failing calls | 925 000 |

Why the bounds are enough. In the book two connections suffice for every pair of rivals (an owner
and somebody else), three sessions with a history of two for replacement and truncation. A
frame channel of one is full after one frame, so every wait happens; the command channel of two in `Receiver`
fills with two commands. In `release` the media come from the UDP sender, which competes with the connection task for
the frame channel after the client is gone; the client's own media task does so in `media`. In `Reassembly` a list of two evicts
on the third of a stream's access units, and the other source's single unit has the number that the first begins with (`Units`); `RestartWindow` (5 in
the code) is 1 so that numbers on both sides of it occur. In `Supervisor` the
deadlines keep their order (heartbeat 10 s, startup 30 s, stable 300 s are 0, 1, 2 or 1, 2, 3)
and clocks saturate just above them; two receivers are one and its replacement, and the liveness run has a third, so that a replacement may fail too; the backoff table is the
code's. `RingSize` is smaller than the reports a receiver makes, so that its event list overflows.
`CmdCap`, `FrameCap`, `MaxHistory`, `CommandCap`, `RingSize` and `MaxInFlight`
are the code's limits made small (32, 2, 10000, 16, `MAX_EVENTS` and `MAX_IN_FLIGHT`); `MaxSessions`, `MaxSeq`, `Units`, `MaxCommands`,
`MaxStreams`, `MaxRuns`, `MaxSpawn`, `MaxFaults`, `MaxRequests` and `MaxReports` bound the behaviours and have
no counterpart in the code. `MaxSessions` is at least the number of starts an instance can make, so it
never blocks a start. Where receivers run out, the liveness properties say so (`NoneLeft`).
In `Receiver` one client suffices for TLC, since what two of them can do to the book is in `book` and the
safety properties of the loop are proved for any number of connections. In `Pairing` two codes are an old one and a new
one, and lifetimes of two ticks let a code expire while a task is anywhere; the attempt limit of one is reached by one guess.
In `Admission` two connections are a rival and a late one; a cache of one evicts at the second token. In `Journal` a segment is full
after one line, so that with three segments every rotation removes, renames and prunes; two stops (`MaxFaults`) interrupt a report
and the report of that; `RecentLimit` and `Budget` are small enough to cut. `MaxEvents`, `MaxFaults` and `LastSecond` bound the behaviours.
The queue capacities of `Playback` are the code's. Its one encoder reader makes the idle thread wait for the old
encoder's reader before it starts another, which the code does not; `OnePlayer` is proved for any number of readers.

Deadlock is checked in the book, the reassembly, the playback, the pairing and the admission, which never stop. The receiver's runs do not
check it, because `Shutdown` ends the process and clients stop sending; the watchdog's do not,
because with an unreadable configuration, or with every bound used up, it rightly waits for a request; the
journal's does not, because its events, stops and errors are bounded.

Symmetry is used in safety runs only.

Two runs end with a counterexample (`idle_timer_starved`, `timer_beats_cloud`): see the disagreements below.

### Fairness

`ReceiverSpec`: the runtime polls every task that can make progress (weak fairness of each task's
steps). tokio's bounded channel serves waiters in order, so a sender that is repeatedly able
to send does (strong fairness of `SendStopFrame`, `ControlSendsStop`, `PushFrame`).
`select!` starts at a random branch, so a connection task that keeps waking to a lost connection does take the
branch that leaves (`NoticeLoss`, strong). Clients are not fair: they may stop at any time.

`LiveSpec` of the watchdog: its task and its interval go on (weak, `Tick` as a whole), time
passes, a command that is offered again and again is taken (strong, the same `select!`), a waiting handler
gets its place in the channel (strong). The receiver processes are not fair: a process may boot for ever, hang or
never exit, and the properties hold nevertheless.

`PairingSpec`: the fallback loop goes on (weak; it sleeps five seconds between two looks) and time passes (weak). The
registration, the Worker, the network and the clients are not fair: `ExpiredIsReplaced` holds without them.

`PlaybackSpec`: the main loop, the writer threads, the idle thread and the encoder's reader are scheduled (weak), and each gets a mutex
that is free again and again (strong: `HandsOver`, `ReaderLocks`). Players are not fair: one may stall for
ever. `MainGoesOn` therefore promises that a frame is handed over unless its own player stalls, and
that a switch always ends, because the loop kills the old player before it asks for the mutex: the reader that holds it
waits for a queue that a dead player's writer thread will give up. `DashboardReturns` says that when, from some moment on, nothing streams, the player reads
and the encoder works, dashboard frames are written to the engine's player again and again: the frames drawn at boot do not count. It needs the
working encoder, since one that dies meanwhile is never replaced (`dashboard.rs:191`); neither encoder nor player is fair.

`LostOwnerReleased` promises that a lost connection owns no session from some moment on. It excepts `StartLeftBehind`, a Start that is
still queued when both tasks of its connection are done: handled after that, it makes the departed connection owner of a session, and no disconnect
will end it. Without the exception TLC violates the property.

### Disagreements between the code and its own words

Two runs check one property each, a sentence of the repository, and TLC ends them with a counterexample (`findings`):

* `idle_timer_starved`: the idle timeout is created anew in each iteration of `select!`, and the 2 s health tick ends
  iterations. With the default 30 s it never elapses, and an abandoned stream keeps the display (`main.rs:551`, `:565`, `server.sh:152`).
* `timer_beats_cloud`: "the local timer never replaces a valid cloud code while the receiver is online"
  (`local_pairing.rs:179`). The timer looks under one lock and rotates under another; a cloud code adopted in between is
  replaced. `FallbackSparesValidCode` says what is left: a valid code that is replaced was issued in that window.

The models contain other behaviours that stand beside a sentence that says otherwise. They were read off the code, and no
property is stated that the code would break:

* "a new session therefore cannot inherit congestion or timing state from its predecessor" (`LATENCY_AND_CONGESTION.md:173`):
  acknowledgements that wait when a session ends are recorded in the next one, if that has a clock (`HandleSubmission`;
  `main.rs:174`), whose later reports with smaller numbers are then refused as old;
* "a different paired client must never keep another client's stream alive" (`management.rs:324`): `record_frame` refreshes the
  session's owner for whoever's frame it is (`PlayFrame`; `management.rs:482`);
* "drop stale chunks from older already-completed frames" (`v4l2_decoder.rs:127`): a late datagram of an older frame is taken for a
  restarted stream (`Restarts`; line 130); the decoder is reset, and the older frame may be returned after the newer one;
* a first frame still held by a media task when a stop is handled starts the stream again ("do not let trailing packets
  after an explicit stop ...", `main.rs:439`);
* once a receiver is older than the startup deadline, a single missed snapshot ends it, ready or not, as "did not become ready"
  (`supervisor.rs:280`), and a receiver that answers but never becomes ready passes no deadline and is kept;
* the idle thread looks at `streaming_active`, draws and then sends, so a dashboard frame may still go into a stream's
  pipeline although the feeder is said to be stopped before (`main.rs:445`).

Others no document rules out: any client's disconnect stops whoever's stream is active; a Start handled after
its connection closed opens a session without an owner to end it; a hello handled late marks a connection as
connected for ever; a player that died is not started again until the configuration changes, and an encoder of the dashboard
that died not until the next stream has ended; what a receiver reports after its last answered snapshot is lost when it dies, and events beyond
the list's size are never logged; buffered log lines are lost when a write fails and the log calls itself healthy
at the next event; a code that a client has consumed at the Worker is shown, and `READY` said, until the next registration, which is
45 s away or as long as a request without a timeout hangs; a token is used up although `accept` may fail after it.

## 4. Proofs

All theorems hold for every set of connections and portal tasks, every capacity, deadline and bound that
satisfies the named assumption of its module (positive capacities, ordered deadlines, distinct model values).
There are no other assumptions. (`MarksAssumption` of the log says that a newline is no event's text, and that a missing file is not an empty one.)

**`Management_proofs`.** `TypeOK` is inductive by itself (`TypeCorrect`). So is `SessionsEndOnce` beside it
(`EndOnce`): a filed record has the active session's id, which is above every filed one and below
`next_session`. `SharingOnlyOwner` is not inductive: a connection that
shares must also be *known*, or `connection_closed` would leave its flag standing while it ends the
session; `SharingInv` adds that (`OnlyOwnerShares`). `DisconnectEndsOwnSession` needs that a connected
connection is known (`ConnectedKnown`). `EstimatesAdvance` and `ClockIsOfSession` follow from the
same facts, and `Refinement` maps every call to a step of `SessionBook` or a stutter: the mapping takes `active` to the
active stream's id and `begun` to `next_session - 1`.

**`Receiver_proofs`.** `ReceiverTypeCorrect` bounds both channels and types every task.
Each step of the tasks and the loop is a call of the book or leaves it alone, which holds by the way the module is built (the lemma
`ReceiverCallsBook`) and carries the book's theorems over (`ReceiverKeepsBook`). `SessionWhileStreaming`
and `IdleShowsDashboard` are inductive with the type invariant: every way to end a stream clears the flag, closes the
session and asks for the dashboard, and a failed restart of the player leaves no player.

**`Supervisor_proofs`.** The inductive invariant `WatchInv` is the type invariant and five parts:

* `AliveIsOwned`: a live process is the supervised one, or the one a requested restart has taken out of
  `child` and still waits for. Without it nothing connects the processes with the loop's locals.
* `LoopState`: what `child`, `victim` and `state` are at each await.
* `ReadyMeansReady` and `ReadyHasBooted`: `ready` is said by the supervised process, after it has read its settings.
* `RequestsCovered`: a request that waits has its restart queued, or there is no receiver, or the receiver runs on
  the settings applied, will read them, or ended before it could become ready. This is what a restart that
  overtakes another one, or a crash between the two, must not break.

From it: `SupervisorTypeCorrect`, `AtMostOneReceiver`, `ReadyIsTrue` and `AppliedSettingsInForce`. `SnapshotsLoggedOnce`
proves `JournalExact` over what the last snapshot carried, the loop's mark and what was logged: the mark is what the snapshot
carried, cut at the list's size, and as long as it has not been cut, exactly the events up to it are in the log. The process records are handled by `EnterLemma`, `BecomesLemma` and `ReceiverLemma`, the queue by `AppendLemma` and `TailLemma`.

**`Playback_proofs`.** `OnePlayer` is not inductive: it needs to know where in a switch the loop is. `SwitchInv` says
that outside a hand-over the pipeline the engine does not own is dead, and that from the kill to the hand-over the engine's own is.
With `QueuesBounded`, the type invariant and one lemma for each thread (`MainInv`, `PlayerInv`, `IdleInv`) this gives
`OnePlayerAtATime`, for any capacities and any number of readers.

**`Pairing_proofs`.** `ReadersInv` says that there is no code before the first is issued, that a frame that is drawn began with a
valid code or finds none, and that a valid code under a fallback about to rotate was issued after it looked; `FrameCodeWasLive` and `FallbackSpares`
follow. `CloudInv` carries `Backed` (the code is the listed one, for no longer, or was consumed) from the answer
through adoption to the next attempt, over a listing that is consumed, renewed, runs out, or is touched by a request that comes late. `CloudCodeIsListed` follows.

**`Admission_proofs`.** `AdmittedOnce` needs two parts: `Readings`, a task that waits for the mutex has read a time at which its token was
valid, and `Remembered`, an admitted token is in the cache, excused, or has expired with nobody waiting to present it. The
second is what a sweep by a stale or a later reading must keep. `CacheBounded` is the cardinality argument for the limit.

**`Reassembly_proofs`.** The list of assemblies is rewritten by `Vec::retain`, so the first lemmas say what keeping some elements
of a sequence in their order preserves, and `AssembleFacts` what one call does to the list: what it keeps, with the
packet, and when the packet has completed a frame. Three invariants follow, each on its own hypotheses about who sends.

* `FrameInv`: for any number of tasks, no number has two assemblies, and with timing metadata each chunk is of the access
  unit its assembly is for (`AssembliesAreDistinct`, `FramesUnmixed`).
* `SourceInv`, for one source: what is in flight, and the packet of a call that has decided to assemble, is newer than the counter,
  and the counter is zero between the two steps of the call's own reset (`NothingOlderInFlight`, `CounterGoesForward`). Between two
  resets frames therefore come out in order; across one they need not (a late datagram, section 3).
* `LosslessInv`, for one reliable source: nothing is in flight, the counter is at the last unit sent or was reset, and
  all units but the one being sent have been returned (`NothingLost`, which is `ReliableStreamIsLossless`).

**`Journal_proofs`.** The operator lemmas say what an append, a rename, a pruning and a power failure do to the marks of each file.
`JournalTypeCorrect` goes with `CallInv` (which method can be at which step, and that nothing is pending when an event is
written) and `RotationInv` (the place a rename goes to is free). The other four results rest on it:

* `LogInOrder`: every step but an append only *moves* texts, none of them past another (`Moved`); an append is of an event later than
  all in the files, which for a critical event needs `FreshInv`: it is in no file, and not pending, before it is written.
* `ReportedAsWrittenStays`: an acknowledged event is *settled*, that is, wherever its text is, its newline follows, both on the
  card (`AckInv`). One lemma for each kind of step shows that a settled event stays so and is lost only into `dropped`
  (`Carried`); that the event is settled when it is acknowledged needs `WrittenInv`, how the current segment
  ends while it is written, and the order, since its text must be nowhere else.
* `DamageBounded`: a settled event can be read if and only if its line begins where a line begins (`SettledReads`), and
  no step changes that. What is counted is therefore the lines already spoilt and, in `Due`, the open line that will spoil the next: only a
  fault opens one (`SpoilingStep`), and the event behind it closes it.
* `ReportedOnce`: what could not be read never becomes readable once acknowledged, and of two readable events the one that is not
  among the recent is the earlier (`EarlierThanRecent`). `OneReportPerStart` is about acknowledged reports that can be read: a
  report whose call failed may be in the file or not, and a start after it lost with the power, so that for larger
  bounds a second report may rightly follow it; no report of those was promised.

`DamageIsBounded` and `OneReportPerStart` count and compare over whole files, so the strengthened invariants were checked by TLC on the
run's instance before they were proved.

Only model-checked: the liveness properties (`NeverGivesUp`, `HungReceiverReplaced`, `RestartHonoured`, `LostOwnerReleased`,
`LostConnectionUnregisters`, `MainGoesOn`, `DashboardReturns`, `ExpiredIsReplaced`), since temporal fairness and ENABLED are beyond the
prover. Every invariant and every action property that a passing run checks is a theorem. The runs that find a
disagreement are counterexamples and need no proof.

## 5. Not modelled, and the plan

Left out for good: rendering and display ioctls (`text.rs`, `drm_kms.rs`), certificates and system
readers (`cert.rs`, `net.rs`, `clock.rs`, `sys_monitor.rs`), the configuration document (`config.rs`: a predicate on values and one
atomic rename), the pure functions of the client on pixels and byte strings, the pages, scripts
and test tools. They are input, output or pure data with no order of steps to get wrong.

Not modelled although a model would say something, in the order of what it would add:

1. The host updater (`update.rs`, `llrdc-update.sh`): a request, the cast check, the replacement, the
   health check and the rollback, with the agent stopping between any two steps. Most of its state is the host's
   (containers, images, systemd), so a model of it would rest on external definitions; its two hazards are listed.
2. The sender (`streamer.ts`) composed with `Receiver` as one cast: acknowledgement timeouts and worker restarts. What it sends, and when, is
   already what `Transport` and `Reassembly` take as their environment.
3. `LatencyCoordinator` and the congestion controller: small numeric automata, covered by unit tests.
4. The Worker's rate limits and cleanup, and several receivers in one table.
5. Players that outlive a crashed receiver: `Playback` composed with `Supervisor`.
6. Proofs: an abstract log (what is acknowledged, what is lost) that `Journal` implements, and one of the receiver's life that
   `Supervisor` does.

Every module that is proved about avoids recursive operators and writes its invariants as conjunctions of named parts. Where the code
filters or rewrites a list (`Vec::retain`, `prune_segments`), the operator is the set of sequences with the positions that are kept, in
their order; the set has one element, and a proof can take hold of the positions.
