----------------------------- MODULE Supervisor -----------------------------
(***************************************************************************)
(* The manager's watchdog: run_supervisor in src/supervisor.rs, the portal *)
(* requests it serves (src/admin.rs) and the receiver processes it starts, *)
(* polls over src/receiver_ipc.rs, terminates and replaces.                *)
(*                                                                         *)
(* One task runs the loop; each await in a tick is a step boundary here.   *)
(* Abstractions: a process is its lifecycle, the settings it read and how  *)
(* many events and sessions it has to report; settings are version         *)
(* numbers; the two deadlines count from one clock that advances on its    *)
(* own; metrics, the output ring, restart_count and failure texts are left *)
(* out.                                                                    *)
(***************************************************************************)
EXTENDS Naturals, Sequences

CONSTANTS
    Admin,              \* portal handlers and the certificate rotation task
    StartupDeadline,    \* STARTUP_DEADLINE
    HeartbeatDeadline,  \* HEARTBEAT_DEADLINE
    StableReset,        \* STABLE_RESET
    CommandCap,         \* capacity of the command channel
    RingSize,           \* MAX_EVENTS of the receiver's event list
    MaxSpawn,           \* bound: receivers started
    MaxFaults,          \* bound: crashes, hangs, missed polls, failed starts
    MaxRequests,        \* bound: requests to the portal
    MaxReports          \* bound: events and sessions of one receiver, together

ASSUME SupervisorAssumption ==
    /\ HeartbeatDeadline \in Nat /\ StartupDeadline \in Nat /\ StableReset \in Nat
    /\ HeartbeatDeadline < StartupDeadline /\ StartupDeadline < StableReset
    /\ CommandCap \in Nat \ {0} /\ RingSize \in Nat \ {0}
    /\ MaxSpawn \in Nat /\ MaxFaults \in Nat /\ MaxRequests \in Nat
    /\ MaxReports \in Nat

VARIABLES
    step,           \* where the supervisor's task is
    child,          \* the process in `child`, or 0
    victim,         \* the process terminate_child is about, and its reason
    state,          \* receiver_state
    generation,     \* receiver_generation
    failures,       \* consecutive_failures
    retryIn,        \* time until next_retry; 0 when none is pending
    age,            \* time since startup_at
    silence,        \* time since last_heartbeat
    seenEvents,     \* seen_events
    seenSessions,   \* seen_sessions
    configError,    \* configuration_error
    settings,       \* version of the settings on disk
    commands,       \* the command channel
    request,        \* each portal task's request
    proc,           \* the receiver processes
    logged,         \* history: times this generation's reports were logged
    carried,        \* history: what its receiver had reported by the last snapshot
    faults,         \* counts against MaxFaults
    requests        \* counts against MaxRequests

loop == <<step, child, victim>>
watch == <<state, generation, failures, retryIn>>
journal == <<seenEvents, seenSessions, logged, carried>>
clock == <<age, silence>>
portal == <<configError, settings, request, requests>>
vars == <<loop, watch, clock, journal, portal, commands, proc, faults>>

-----------------------------------------------------------------------------
Pid == 1..MaxSpawn
Reports == 1..MaxReports
Phase == {"none", "booting", "serving", "stuck", "hung", "stopping", "exited"}

\* "stuck": the main task is blocked while the IPC task answers; "hung":
\* nothing answers; "stopping": the shutdown command was accepted.
Process == [phase : Phase, ready : BOOLEAN, config : 0..MaxRequests,
            events : 0..MaxReports, sessions : 0..MaxReports]
NoProcess == [phase |-> "none", ready |-> FALSE, config |-> 0,
              events |-> 0, sessions |-> 0]

Alive(p) == proc[p].phase \notin {"none", "exited"}
Answers(p) == proc[p].phase \in {"serving", "stuck"}
NoneLeft == \A p \in Pid : proc[p].phase # "none"
Enter(p, phase) == [proc EXCEPT ![p] = [@ EXCEPT !.phase = phase]]
Fresh(p) == proc[p].phase = "none" /\ \A q \in 1..(p - 1) : proc[q].phase # "none"

Idle == [at |-> "idle", target |-> 0, applied |-> 0]
Command == [kind : {"restart", "stop"}, by : Admin]
NothingLogged == [r \in Reports |-> 0]
NothingCarried == [events |-> 0, sessions |-> 0]

AgeCap == StableReset
SilenceCap == HeartbeatDeadline + 1

Init ==
    /\ step = "select" /\ child = 0
    /\ victim = [pid |-> 0, reason |-> "none"]
    /\ configError \in BOOLEAN
    /\ state = IF configError THEN "configuration_error" ELSE "starting"
    /\ generation = 0 /\ failures = 0 /\ retryIn = 0
    /\ age = 0 /\ silence = 0
    /\ seenEvents = 0 /\ seenSessions = {}
    /\ settings = 0
    /\ commands = <<>>
    /\ request = [a \in Admin |-> Idle]
    /\ proc = [p \in Pid |-> NoProcess]
    /\ logged = [events |-> NothingLogged, sessions |-> NothingLogged]
    /\ carried = NothingCarried
    /\ faults = 0 /\ requests = 0

-----------------------------------------------------------------------------
(* Failures and restarts.                                                  *)

Backoff(n) == IF n = 0 THEN 1 ELSE IF n <= 5 THEN <<1, 2, 4, 8, 16>>[n] ELSE 30

\* Mutant of ScheduleFailure: the state is left as it was.
FailureUnseen ==
    /\ failures' = failures + 1
    /\ retryIn' = Backoff(failures + 1)
    /\ UNCHANGED <<state, generation>>

ScheduleFailure ==
    /\ state' = "backoff"
    /\ failures' = failures + 1
    /\ retryIn' = Backoff(failures + 1)
    /\ UNCHANGED generation

ScheduleRequestedRestart ==
    /\ state' = "restarting"
    /\ retryIn' = 0
    /\ UNCHANGED <<generation, failures>>

-----------------------------------------------------------------------------
(* The tick.                                                               *)

\* Mutant of MayStart: not while the state is "backoff".
MayStartUnlessBackoff ==
    child = 0 /\ ~configError /\ retryIn = 0 /\ state # "backoff"

MayStart == child = 0 /\ ~configError /\ retryIn = 0

\* command.spawn().  The new process runs from here on; it is registered
\* under the lock in the next step.
SpawnReceiver ==
    /\ step = "select" /\ MayStart
    /\ \E p \in Pid :
        /\ Fresh(p)
        /\ child' = p
        /\ proc' = Enter(p, "booting")
    /\ step' = "register"
    /\ UNCHANGED <<victim, watch, clock, journal, portal, commands, faults>>

SpawnFails ==
    /\ step = "select" /\ MayStart
    /\ faults < MaxFaults /\ faults' = faults + 1
    /\ ScheduleFailure
    /\ UNCHANGED <<loop, clock, journal, portal, commands, proc>>

\* Mutant of FreshMarks: the marks of the last receiver's journal stay.
KeptMarks == UNCHANGED <<seenEvents, seenSessions>>

FreshMarks == seenEvents' = 0 /\ seenSessions' = {}

RegisterReceiver ==
    /\ step = "register"
    /\ step' = "check"
    /\ generation' = generation + 1
    /\ state' = "starting" /\ retryIn' = 0
    /\ age' = 0 /\ silence' = 0
    /\ FreshMarks
    /\ logged' = [events |-> NothingLogged, sessions |-> NothingLogged]
    /\ carried' = NothingCarried
    /\ UNCHANGED <<child, victim, failures, portal, commands, proc, faults>>

\* try_wait, at a tick or right after a start.
Waits == child # 0 /\ step \in {"select", "check"}

\* The child has been waited for, or cannot be: waitpid fails only of a process
\* that is no longer there.  Both arms do the same.
ChildExited ==
    /\ Waits /\ ~Alive(child)
    /\ step' = "select" /\ child' = 0
    /\ ScheduleFailure
    /\ UNCHANGED <<victim, clock, journal, portal, commands, proc, faults>>

ChildRuns ==
    /\ Waits /\ Alive(child)
    /\ step' = "poll"
    /\ UNCHANGED <<child, victim, watch, clock, journal, portal, commands, proc, faults>>

\* The receiver's event list keeps the last RingSize events; those after the
\* first seenEvents places of it are logged.
RingLength(p) == IF proc[p].events < RingSize THEN proc[p].events ELSE RingSize
NewEvents(p) ==
    LET skipped == IF RingLength(p) < seenEvents THEN 0 ELSE seenEvents IN
    (proc[p].events - RingLength(p) + skipped + 1)..proc[p].events
NewSessions(p) == 1..proc[p].sessions \ seenSessions

LogOnce(counts, new) == [r \in Reports |-> IF r \in new THEN counts[r] + 1 ELSE counts[r]]

\* The snapshot arrives: it is the heartbeat.
SnapshotArrives ==
    /\ step = "poll" /\ Answers(child)
    /\ step' = "select"
    /\ silence' = 0
    /\ logged' = [events |-> LogOnce(logged.events, NewEvents(child)),
                  sessions |-> LogOnce(logged.sessions, NewSessions(child))]
    /\ seenEvents' = RingLength(child)
    /\ seenSessions' = seenSessions \cup 1..proc[child].sessions
    /\ carried' = [events |-> proc[child].events, sessions |-> proc[child].sessions]
    /\ state' = IF proc[child].ready THEN "ready" ELSE state
    /\ failures' = IF age >= StableReset THEN 0 ELSE failures
    /\ UNCHANGED <<child, victim, generation, retryIn, age, portal, commands, proc, faults>>

\* Mutant of Overdue: silence never ends a receiver.
NeverOverdue == "none"

\* Which deadline a missing snapshot has passed; startup is looked at first.
Overdue ==
    IF age > StartupDeadline THEN "startup_timeout"
    ELSE IF silence > HeartbeatDeadline THEN "heartbeat_loss"
    ELSE "none"

\* The request fails or times out: always when the receiver does not answer,
\* and sometimes when it is only slow.
SnapshotMissing ==
    /\ step = "poll"
    /\ IF Answers(child) THEN faults < MaxFaults /\ faults' = faults + 1
       ELSE UNCHANGED faults
    /\ IF Overdue = "none"
       THEN step' = "select" /\ UNCHANGED victim
       ELSE step' = "ask" /\ victim' = [pid |-> child, reason |-> Overdue]
    /\ UNCHANGED <<child, watch, clock, journal, portal, commands, proc>>

-----------------------------------------------------------------------------
(* terminate_child.                                                        *)

\* The Shutdown request; its answer is ignored.
AskToStop ==
    /\ step = "ask"
    /\ step' = "grace"
    /\ IF proc[victim.pid].phase = "serving"
       THEN proc' = Enter(victim.pid, "stopping")
       ELSE UNCHANGED proc
    /\ UNCHANGED <<child, victim, watch, clock, journal, portal, commands, faults>>

\* Afterwards a tick goes back to select!, to find the exit at the next one; a
\* requested restart waits for the process and schedules the next at once.
AfterTermination ==
    /\ step' = "select"
    /\ victim' = [pid |-> 0, reason |-> "none"]
    /\ IF victim.reason = "restart" THEN ScheduleRequestedRestart ELSE UNCHANGED watch

StopsInTime ==
    /\ step = "grace" /\ ~Alive(victim.pid)
    /\ AfterTermination
    /\ UNCHANGED <<child, clock, journal, portal, commands, proc, faults>>

\* Mutant of Killed: the process survives.
Spared(p) == UNCHANGED proc

Killed(p) == proc' = Enter(p, "exited")

\* GRACEFUL_SHUTDOWN passes: SIGTERM, then SIGKILL, to the process group.
KillGroup ==
    /\ step = "grace" /\ Alive(victim.pid)
    /\ Killed(victim.pid)
    /\ AfterTermination
    /\ UNCHANGED <<child, clock, journal, portal, commands, faults>>

-----------------------------------------------------------------------------
(* Commands.                                                               *)

\* A stop is passed on to the receiver (AdminStop of module Receiver).
HandleStopSharing ==
    /\ step = "select" /\ commands # <<>> /\ Head(commands).kind = "stop"
    /\ commands' = Tail(commands)
    /\ UNCHANGED <<loop, watch, clock, journal, portal, proc, faults>>

\* Mutant of HandleRestart: it is dropped.
RestartIgnored ==
    /\ step = "select" /\ commands # <<>> /\ Head(commands).kind = "restart"
    /\ commands' = Tail(commands)
    /\ UNCHANGED <<loop, watch, clock, journal, portal, proc, faults>>

HandleRestart ==
    /\ step = "select" /\ commands # <<>> /\ Head(commands).kind = "restart"
    /\ commands' = Tail(commands)
    /\ child' = 0
    /\ IF child # 0
       THEN /\ step' = "ask"
            /\ victim' = [pid |-> child, reason |-> "restart"]
            /\ UNCHANGED watch
       ELSE ScheduleRequestedRestart /\ UNCHANGED <<step, victim>>
    /\ UNCHANGED <<clock, journal, portal, proc, faults>>

-----------------------------------------------------------------------------
(* The portal.                                                             *)

\* Mutant of Room: the channel takes any number of commands.
AlwaysRoom == TRUE

Room == Len(commands) < CommandCap

PortalUnchanged == UNCHANGED <<loop, watch, clock, journal, configError, settings>>

\* apply_settings: the new document is on disk and an error in the old one
\* is forgotten.  A restart follows.
ApplySettings(a) ==
    /\ request[a].at = "idle" /\ requests < MaxRequests
    /\ requests' = requests + 1
    /\ settings' = settings + 1
    /\ configError' = FALSE
    /\ request' = [request EXCEPT ![a] =
                     [at |-> "applied", target |-> 0, applied |-> settings + 1]]
    /\ UNCHANGED <<loop, watch, clock, journal, commands, proc, faults>>

\* restart(): the generation to wait for is read before the command is sent.
RequestRestart(a) ==
    /\ \/ request[a].at = "applied" /\ UNCHANGED requests
       \/ request[a].at = "idle" /\ requests < MaxRequests /\ requests' = requests + 1
    /\ request' = [request EXCEPT ![a] =
                     [at |-> "sending", target |-> generation + 1, applied |-> @.applied]]
    /\ PortalUnchanged /\ UNCHANGED <<commands, proc, faults>>

SendRestart(a) ==
    /\ request[a].at = "sending" /\ Room
    /\ commands' = Append(commands, [kind |-> "restart", by |-> a])
    /\ request' = [request EXCEPT ![a] =
                     [at |-> "waiting", target |-> @.target, applied |-> @.applied]]
    /\ PortalUnchanged /\ UNCHANGED <<requests, proc, faults>>

\* stop_sharing(): only while the receiver is ready.
RequestStop(a) ==
    /\ request[a].at = "idle" /\ requests < MaxRequests
    /\ state = "ready" /\ Room
    /\ requests' = requests + 1
    /\ commands' = Append(commands, [kind |-> "stop", by |-> a])
    /\ PortalUnchanged /\ UNCHANGED <<request, proc, faults>>

\* The portal's page has seen the generation it waits for, ready.
PortalSatisfied(a) ==
    /\ request[a].at = "waiting"
    /\ generation >= request[a].target /\ state = "ready"
    /\ request' = [request EXCEPT ![a] = Idle]
    /\ PortalUnchanged /\ UNCHANGED <<requests, commands, proc, faults>>

-----------------------------------------------------------------------------
(* The receiver processes and time.                                        *)

OnlyReceivers == UNCHANGED <<loop, watch, clock, journal, portal, commands>>
Becomes(p, changed) == proc' = [proc EXCEPT ![p] = changed] /\ OnlyReceivers

\* It reads its settings and its IPC socket is up.
Boots(p) ==
    /\ proc[p].phase = "booting"
    /\ Becomes(p, [proc[p] EXCEPT !.phase = "serving", !.config = settings])
    /\ UNCHANGED faults

BecomesReady(p) ==
    /\ proc[p].phase = "serving" /\ ~proc[p].ready
    /\ Becomes(p, [proc[p] EXCEPT !.ready = TRUE]) /\ UNCHANGED faults

Quiet(p) == proc[p].events + proc[p].sessions >= MaxReports

RecordsEvent(p) ==
    /\ Answers(p) /\ ~Quiet(p)
    /\ Becomes(p, [proc[p] EXCEPT !.events = @ + 1]) /\ UNCHANGED faults

FilesSession(p) ==
    /\ proc[p].phase = "serving" /\ proc[p].ready /\ ~Quiet(p)
    /\ Becomes(p, [proc[p] EXCEPT !.sessions = @ + 1]) /\ UNCHANGED faults

StopsGracefully(p) ==
    /\ proc[p].phase = "stopping"
    /\ proc' = Enter(p, "exited") /\ OnlyReceivers /\ UNCHANGED faults

\* It crashes, blocks its main task, or hangs altogether.
Fails(p, phase) ==
    /\ Alive(p) /\ phase \in {"exited", "stuck", "hung"}
    /\ phase = "stuck" => proc[p].phase = "serving"
    /\ faults < MaxFaults /\ faults' = faults + 1
    /\ proc' = Enter(p, phase) /\ OnlyReceivers

TimePasses ==
    /\ age' = IF age < AgeCap THEN age + 1 ELSE age
    /\ silence' = IF silence < SilenceCap THEN silence + 1 ELSE silence
    /\ retryIn' = IF retryIn > 0 THEN retryIn - 1 ELSE 0
    /\ <<age', silence', retryIn'>> # <<age, silence, retryIn>>
    /\ UNCHANGED <<loop, state, generation, failures, journal, portal,
                   commands, proc, faults>>

-----------------------------------------------------------------------------
Tick ==
    \/ SpawnReceiver \/ SpawnFails \/ RegisterReceiver
    \/ ChildExited \/ ChildRuns \/ SnapshotArrives \/ SnapshotMissing
    \/ AskToStop \/ StopsInTime \/ KillGroup

HandleCommand == HandleStopSharing \/ HandleRestart

Portal(a) ==
    \/ ApplySettings(a) \/ RequestRestart(a) \/ SendRestart(a)
    \/ RequestStop(a) \/ PortalSatisfied(a)

Receiver(p) ==
    \/ Boots(p) \/ BecomesReady(p) \/ StopsGracefully(p)
    \/ RecordsEvent(p) \/ FilesSession(p)
    \/ \E phase \in Phase : Fails(p, phase)

Next ==
    \/ Tick
    \/ HandleCommand
    \/ \E a \in Admin : Portal(a)
    \/ \E p \in Pid : Receiver(p)
    \/ TimePasses

Spec == Init /\ [][Next]_vars

\* The runtime keeps polling the task, its interval keeps ticking and time
\* passes; select! takes a ready branch at random, so a command that is
\* offered again and again is taken; started handlers go on to send.
Fairness ==
    /\ WF_vars(Tick)
    /\ SF_vars(HandleCommand)
    /\ WF_vars(TimePasses)
    /\ \A a \in Admin : SF_vars(SendRestart(a))
    /\ \A a \in Admin : WF_vars(request[a].at = "applied" /\ RequestRestart(a))

LiveSpec == Spec /\ Fairness

-----------------------------------------------------------------------------
(* Properties.                                                             *)

LoopTypeOK ==
    /\ step \in {"select", "register", "check", "poll", "ask", "grace"}
    /\ child \in 0..MaxSpawn
    /\ victim \in [pid : 0..MaxSpawn,
                   reason : {"none", "restart", "startup_timeout", "heartbeat_loss"}]
    /\ step \in {"ask", "grace"} <=> victim.reason # "none"

WatchTypeOK ==
    /\ state \in {"configuration_error", "starting", "ready", "backoff", "restarting"}
    /\ generation \in Nat /\ failures \in Nat /\ retryIn \in Nat
    /\ age \in 0..AgeCap /\ silence \in 0..SilenceCap

JournalTypeOK ==
    /\ seenEvents \in 0..MaxReports /\ seenSessions \subseteq Reports
    /\ logged \in [events : [Reports -> Nat], sessions : [Reports -> Nat]]
    /\ carried \in [events : 0..MaxReports, sessions : 0..MaxReports]

PortalTypeOK ==
    /\ configError \in BOOLEAN /\ settings \in 0..requests
    /\ commands \in Seq(Command) /\ Len(commands) <= CommandCap
    /\ request \in [Admin -> [at : {"idle", "applied", "sending", "waiting"},
                             target : Nat, applied : 0..MaxRequests]]
    /\ requests \in 0..MaxRequests

ProcTypeOK == proc \in [Pid -> Process] /\ faults \in 0..MaxFaults

\* Every variable has its type, the queue never outgrows its channel, and a
\* victim is on record only while it is being terminated.
TypeOK == LoopTypeOK /\ WatchTypeOK /\ JournalTypeOK /\ PortalTypeOK /\ ProcTypeOK

\* Crashes, hangs, timeouts and requested restarts in any order: there are
\* never two live receivers, which would share the display, the ports and the
\* IPC socket.
OneReceiver == \A p, q \in Pid : Alive(p) /\ Alive(q) => p = q

\* The portal's /health: the watchdog calls the receiver ready only if the
\* very process it supervises has said so, or is being restarted on request.
ReadyMeansReady ==
    state = "ready" => \/ victim.reason = "restart"
                       \/ child # 0 /\ proc[child].ready

\* "Receiver restarted; settings are active.": when the page sees the
\* generation it was told to wait for, the applied settings are in force or
\* the restart that brings them in is still queued: a receiver of that
\* generation that started in between does not leave the device on the old ones.
SettingsInForce ==
    \A a \in Admin :
        (/\ request[a].at = "waiting" /\ generation >= request[a].target
         /\ state = "ready" /\ child # 0) =>
            \/ proc[child].config >= request[a].applied
            \/ \E i \in DOMAIN commands : commands[i] = [kind |-> "restart", by |-> a]

\* What a snapshot carried is logged, once: each session the receiver of this
\* generation had reported by its last answered snapshot, and each event as long
\* as its list had not overflowed by then; nothing is logged twice, however many
\* snapshots are missed or old reports repeated, and nothing the receiver did not
\* report, although its numbers start where its predecessor's did.  What it
\* reported after its last snapshot is lost when it dies, and once its list is
\* full its later events are not logged.
JournalExact ==
    \A r \in Reports :
        /\ logged.sessions[r] = IF r <= carried.sessions THEN 1 ELSE 0
        /\ logged.events[r] <= IF r <= carried.events THEN 1 ELSE 0
        /\ r <= carried.events /\ carried.events <= RingSize => logged.events[r] = 1

\* A device without a receiver gets one again, however often it failed.
NeverGivesUp == (child = 0 /\ ~configError) ~> (child # 0 \/ NoneLeft)

\* A receiver that hangs, with its process alive, does not stay.
HungReceiverReplaced ==
    \A p \in Pid : (proc[p].phase = "hung") ~> (proc[p].phase = "exited")

\* The generation a portal request was told to wait for is reached.
RestartHonoured ==
    \A a \in Admin : (request[a].at = "waiting" /\ ~configError)
                        ~> (generation >= request[a].target \/ NoneLeft)
=============================================================================
