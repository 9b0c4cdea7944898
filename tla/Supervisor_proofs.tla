-------------------------- MODULE Supervisor_proofs --------------------------
(***************************************************************************)
(* Proofs about the watchdog, for any number of portal tasks, any          *)
(* deadlines and any bounds on failures, requests and receivers started.   *)
(***************************************************************************)
EXTENDS Supervisor, TLAPS

USE SupervisorAssumption

-----------------------------------------------------------------------------
(* The inductive invariant.                                                *)

\* Whose process may be alive: the supervised one, or the one a requested
\* restart has taken out of `child` and still waits for.
AliveIsOwned ==
    \A p \in Pid : Alive(p) => p = child \/ (p = victim.pid /\ victim.reason = "restart")

\* What the loop's local variables are at each of its steps.
LoopState ==
    /\ victim.reason = "restart" => child = 0
    /\ victim.reason \in {"startup_timeout", "heartbeat_loss"} => child = victim.pid
    /\ victim.reason # "none" => victim.pid # 0
    /\ step \in {"register", "check", "poll"} => child # 0
    /\ step = "register" => state # "ready"

\* A process is ready only after it has read its settings.
ReadyHasBooted == \A p \in Pid : proc[p].phase \in {"none", "booting"} => ~proc[p].ready

Queued(a) == \E i \in DOMAIN commands : commands[i] = [kind |-> "restart", by |-> a]

\* The process runs on settings n or newer, or will read them, or ended
\* before it could become ready.
Covered(p, n) ==
    \/ proc[p].phase = "booting"
    \/ proc[p].config >= n
    \/ ~proc[p].ready /\ proc[p].phase \in {"hung", "exited"}

\* A request whose restart is neither queued nor under way is covered.
RequestsCovered ==
    \A a \in Admin :
        /\ request[a].applied <= settings
        /\ request[a].at = "waiting" =>
             Queued(a) \/ child = 0 \/ Covered(child, request[a].applied)

WatchInv ==
    /\ TypeOK
    /\ AliveIsOwned
    /\ LoopState
    /\ ReadyMeansReady
    /\ ReadyHasBooted
    /\ RequestsCovered

-----------------------------------------------------------------------------
(* The processes.                                                          *)

\* Entering a phase changes the phase of one process and nothing else.
LEMMA EnterLemma ==
    ASSUME proc \in [Pid -> Process], NEW p \in Pid, NEW phase \in Phase
    PROVE  /\ Enter(p, phase) \in [Pid -> Process]
           /\ \A q \in Pid \ {p} : Enter(p, phase)[q] = proc[q]
           /\ Enter(p, phase)[p].phase = phase
           /\ Enter(p, phase)[p].ready = proc[p].ready
           /\ Enter(p, phase)[p].config = proc[p].config
           /\ Enter(p, phase)[p].events = proc[p].events
           /\ Enter(p, phase)[p].sessions = proc[p].sessions
<1> DEFINE r == proc[p]
<1>1. r \in Process
  OBVIOUS
<1>2. /\ [r EXCEPT !.phase = phase] \in Process
      /\ [r EXCEPT !.phase = phase].phase = phase
      /\ [r EXCEPT !.phase = phase].ready = r.ready
      /\ [r EXCEPT !.phase = phase].config = r.config
      /\ [r EXCEPT !.phase = phase].events = r.events
      /\ [r EXCEPT !.phase = phase].sessions = r.sessions
  <2> HIDE DEF r
  <2> QED
    BY <1>1 DEF Process
<1>3. Enter(p, phase) = [proc EXCEPT ![p] = [r EXCEPT !.phase = phase]]
  BY DEF Enter
<1> HIDE DEF r
<1>4. \A x \in Process : /\ [proc EXCEPT ![p] = x] \in [Pid -> Process]
                        /\ \A q \in Pid \ {p} : [proc EXCEPT ![p] = x][q] = proc[q]
                        /\ [proc EXCEPT ![p] = x][p] = x
  OBVIOUS
<1>5. r = proc[p]
  BY DEF r
<1> QED
  BY <1>2, <1>3, <1>4, <1>5, Zenon

\* The same of a process that is given another record.
LEMMA BecomesLemma ==
    ASSUME proc \in [Pid -> Process], NEW p \in Pid, NEW r \in Process, Becomes(p, r)
    PROVE  /\ OnlyReceivers
           /\ proc' \in [Pid -> Process]
           /\ \A q \in Pid \ {p} : proc'[q] = proc[q]
           /\ proc'[p] = r
  BY DEF Becomes

\* What a process reports is counted.
LEMMA EventsAreNat ==
    ASSUME proc \in [Pid -> Process], NEW p \in Pid
    PROVE  proc[p].events \in Nat /\ proc[p].sessions \in Nat
  BY DEF Process

\* What a receiver process does on its own: it was alive, it boots at most once
\* and becomes ready only afterwards, and what it has reported stays.
LEMMA ReceiverLemma ==
    ASSUME TypeOK, NEW p \in Pid, Receiver(p)
    PROVE  /\ OnlyReceivers
           /\ ProcTypeOK'
           /\ \A q \in Pid \ {p} : proc'[q] = proc[q]
           /\ proc[p].phase \notin {"none", "exited"}
           /\ proc'[p].phase # "none"
           /\ proc'[p].phase = "booting" => proc[p].phase = "booting"
           /\ proc[p].ready => proc'[p].ready
           /\ proc'[p].events >= proc[p].events
           /\ proc'[p].sessions >= proc[p].sessions
           /\ proc'[p].ready => proc[p].ready \/ proc[p].phase = "serving"
           /\ proc[p].phase = "booting" =>
                \/ proc'[p].phase = "serving" /\ proc'[p].config = settings
                \/ /\ proc'[p].phase \in {"hung", "exited"}
                   /\ proc'[p].ready = proc[p].ready
           /\ proc[p].phase # "booting" => proc'[p].config = proc[p].config
           /\ ~proc[p].ready /\ proc[p].phase = "hung" =>
                ~proc'[p].ready /\ proc'[p].phase \in {"hung", "exited"}
<1>1. proc \in [Pid -> Process] /\ faults \in 0..MaxFaults
  BY DEF TypeOK, ProcTypeOK
<1>2. settings \in 0..MaxRequests
  BY DEF TypeOK, PortalTypeOK
<1> DEFINE r == proc[p]
<1>3. r \in Process
  BY <1>1
<1>4. r = proc[p]
  OBVIOUS
<1>5. CASE Boots(p)
  <2> DEFINE s == [r EXCEPT !.phase = "serving", !.config = settings]
  <2>1. Becomes(p, s) /\ r.phase = "booting" /\ UNCHANGED faults
    BY <1>5 DEF Boots
  <2> HIDE DEF r
  <2>2. s \in Process /\ s.phase = "serving" /\ s.config = settings /\ s.ready = r.ready
    BY <1>2, <1>3 DEF Process, Phase
  <2>3. s.events >= r.events /\ s.sessions >= r.sessions
    BY <1>3 DEF Process
  <2> HIDE DEF s
  <2> QED
    BY <1>1, <1>4, <2>1, <2>2, <2>3, BecomesLemma DEF ProcTypeOK
<1>6. CASE BecomesReady(p)
  <2> DEFINE s == [r EXCEPT !.ready = TRUE]
  <2>1. Becomes(p, s) /\ r.phase = "serving" /\ UNCHANGED faults
    BY <1>6 DEF BecomesReady
  <2> HIDE DEF r
  <2>2. s \in Process /\ s.phase = r.phase /\ s.config = r.config /\ s.ready = TRUE
    BY <1>3 DEF Process
  <2>3. s.events >= r.events /\ s.sessions >= r.sessions
    BY <1>3 DEF Process
  <2> HIDE DEF s
  <2> QED
    BY <1>1, <1>4, <2>1, <2>2, <2>3, BecomesLemma DEF ProcTypeOK
<1>7. CASE RecordsEvent(p)
  <2> DEFINE s == [r EXCEPT !.events = @ + 1]
  <2>1. /\ Becomes(p, s) /\ r.phase \in {"serving", "stuck"} /\ UNCHANGED faults
        /\ ~(r.events + r.sessions >= MaxReports)
    BY <1>7 DEF RecordsEvent, Answers, Quiet
  <2> HIDE DEF r
  <2>2. s \in Process /\ s.phase = r.phase /\ s.config = r.config /\ s.ready = r.ready
    BY <1>3, <2>1, SupervisorAssumption DEF Process, SupervisorAssumption
  <2>3. s.events >= r.events /\ s.sessions >= r.sessions
    BY <1>3 DEF Process
  <2> HIDE DEF s
  <2> QED
    BY <1>1, <1>4, <2>1, <2>2, <2>3, BecomesLemma DEF ProcTypeOK
<1>8. CASE FilesSession(p)
  <2> DEFINE s == [r EXCEPT !.sessions = @ + 1]
  <2>1. /\ Becomes(p, s) /\ r.phase = "serving" /\ UNCHANGED faults
        /\ ~(r.events + r.sessions >= MaxReports)
    BY <1>8 DEF FilesSession, Quiet
  <2> HIDE DEF r
  <2>2. s \in Process /\ s.phase = r.phase /\ s.config = r.config /\ s.ready = r.ready
    BY <1>3, <2>1, SupervisorAssumption DEF Process, SupervisorAssumption
  <2>3. s.events >= r.events /\ s.sessions >= r.sessions
    BY <1>3 DEF Process
  <2> HIDE DEF s
  <2> QED
    BY <1>1, <1>4, <2>1, <2>2, <2>3, BecomesLemma DEF ProcTypeOK
<1>9. CASE StopsGracefully(p)
  <2> "exited" \in Phase
    BY DEF Phase
  <2> QED
    BY <1>1, <1>9, EnterLemma, EventsAreNat DEF StopsGracefully, ProcTypeOK
<1>10. ASSUME NEW phase \in Phase, Fails(p, phase)
       PROVE  /\ OnlyReceivers /\ proc' = Enter(p, phase)
              /\ faults' \in 0..MaxFaults
              /\ proc[p].phase \notin {"none", "exited"}
              /\ phase \in {"exited", "stuck", "hung"}
              /\ phase = "stuck" => proc[p].phase = "serving"
  BY <1>1, <1>10 DEF Fails, Alive
<1>11. CASE \E phase \in Phase : Fails(p, phase)
  BY <1>1, <1>10, <1>11, EnterLemma, EventsAreNat DEF ProcTypeOK
<1> QED
  BY <1>5, <1>6, <1>7, <1>8, <1>9, <1>11 DEF Receiver

-----------------------------------------------------------------------------
(* Type correctness.                                                       *)

\* A part whose variables stay keeps its type.
LEMMA TypeFrame ==
    ASSUME TypeOK
    PROVE  /\ UNCHANGED loop => LoopTypeOK'
           /\ UNCHANGED <<watch, clock>> => WatchTypeOK'
           /\ UNCHANGED journal => JournalTypeOK'
           /\ UNCHANGED <<portal, commands>> => PortalTypeOK'
           /\ UNCHANGED <<proc, faults>> => ProcTypeOK'
<1>1. UNCHANGED loop => LoopTypeOK'
  BY DEF TypeOK, LoopTypeOK, loop
<1>2. UNCHANGED <<watch, clock>> => WatchTypeOK'
  BY DEF TypeOK, WatchTypeOK, watch, clock
<1>3. UNCHANGED journal => JournalTypeOK'
  BY DEF TypeOK, JournalTypeOK, journal
<1>4. UNCHANGED <<portal, commands>> => PortalTypeOK'
  BY DEF TypeOK, PortalTypeOK, portal
<1>5. UNCHANGED <<proc, faults>> => ProcTypeOK'
  BY DEF TypeOK, ProcTypeOK
<1> QED
  BY <1>1, <1>2, <1>3, <1>4, <1>5

\* Every step keeps the variables well typed.
LEMMA TypeStep ==
    ASSUME TypeOK, LoopState, [Next]_vars
    PROVE  TypeOK'
<1> USE TypeFrame
<1> USE DEF loop, watch, clock, journal, portal
<1>1. \A n \in Nat : Backoff(n) \in Nat
  BY DEF Backoff
<1>2. CASE SpawnReceiver
  <2>1. LoopTypeOK'
    BY <1>2 DEF SpawnReceiver, TypeOK, LoopTypeOK, Pid
  <2>2. ProcTypeOK'
    <3> "booting" \in Phase
      BY DEF Phase
    <3> QED
      BY <1>2, EnterLemma DEF SpawnReceiver, TypeOK, ProcTypeOK
  <2> QED
    BY <1>2, <2>1, <2>2 DEF SpawnReceiver, TypeOK
<1>3. CASE SpawnFails
  <2>1. WatchTypeOK'
    BY <1>3, <1>1 DEF SpawnFails, ScheduleFailure, TypeOK, WatchTypeOK
  <2>2. ProcTypeOK'
    BY <1>3 DEF SpawnFails, TypeOK, ProcTypeOK
  <2> QED
    BY <1>3, <2>1, <2>2 DEF SpawnFails, TypeOK
<1>4. CASE RegisterReceiver
  <2>1. LoopTypeOK'
    BY <1>4 DEF RegisterReceiver, TypeOK, LoopTypeOK
  <2>2. WatchTypeOK'
    BY <1>4 DEF RegisterReceiver, TypeOK, WatchTypeOK, AgeCap, SilenceCap
  <2>3. JournalTypeOK'
    BY <1>4 DEF RegisterReceiver, FreshMarks, NothingLogged, NothingCarried,
                JournalTypeOK, Reports
  <2> QED
    BY <1>4, <2>1, <2>2, <2>3 DEF RegisterReceiver, TypeOK
<1>5. CASE ChildExited
  <2>1. LoopTypeOK'
    BY <1>5 DEF ChildExited, Waits, TypeOK, LoopTypeOK
  <2>2. WatchTypeOK'
    BY <1>5, <1>1 DEF ChildExited, ScheduleFailure, TypeOK, WatchTypeOK
  <2> QED
    BY <1>5, <2>1, <2>2 DEF ChildExited, TypeOK
<1>6. CASE ChildRuns
  <2>1. LoopTypeOK'
    BY <1>6 DEF ChildRuns, Waits, TypeOK, LoopTypeOK
  <2> QED
    BY <1>6, <2>1 DEF ChildRuns, TypeOK
<1>7. CASE SnapshotArrives
  <2>1. LoopTypeOK'
    BY <1>7 DEF SnapshotArrives, TypeOK, LoopTypeOK
  <2>2. WatchTypeOK'
    BY <1>7 DEF SnapshotArrives, TypeOK, WatchTypeOK, AgeCap, SilenceCap
  <2>3. JournalTypeOK'
    <3>1. child \in Pid
      BY <1>7 DEF SnapshotArrives, LoopState, TypeOK, LoopTypeOK, Pid
    <3>2. proc[child].events \in 0..MaxReports /\ proc[child].sessions \in 0..MaxReports
      BY <3>1 DEF TypeOK, ProcTypeOK, Process
    <3>3. RingLength(child) \in 0..MaxReports
      BY <3>2 DEF RingLength
    <3>4. \A new, counts : counts \in [Reports -> Nat] => LogOnce(counts, new) \in [Reports -> Nat]
      BY DEF LogOnce
    <3>5. seenEvents' \in 0..MaxReports /\ seenSessions' \subseteq Reports
      <4>1. 1..proc[child].sessions \subseteq Reports
        BY <3>2 DEF Reports
      <4>2. seenSessions \subseteq Reports
        BY DEF TypeOK, JournalTypeOK
      <4> HIDE DEF Reports
      <4> QED
        BY <1>7, <3>3, <4>1, <4>2 DEF SnapshotArrives
    <3>6. logged' \in [events : [Reports -> Nat], sessions : [Reports -> Nat]]
      <4>1. /\ logged.events \in [Reports -> Nat]
            /\ logged.sessions \in [Reports -> Nat]
        BY DEF TypeOK, JournalTypeOK
      <4>2. logged' = [events |-> LogOnce(logged.events, NewEvents(child)),
                       sessions |-> LogOnce(logged.sessions, NewSessions(child))]
        BY <1>7 DEF SnapshotArrives
      <4> QED
        BY <3>4, <4>1, <4>2
    <3>7. carried' \in [events : 0..MaxReports, sessions : 0..MaxReports]
      BY <1>7, <3>2 DEF SnapshotArrives
    <3> QED
      BY <3>5, <3>6, <3>7 DEF JournalTypeOK
  <2> QED
    BY <1>7, <2>1, <2>2, <2>3 DEF SnapshotArrives, TypeOK
<1>8. CASE SnapshotMissing
  <2>1. LoopTypeOK'
    BY <1>8 DEF SnapshotMissing, Overdue, TypeOK, LoopTypeOK
  <2>2. ProcTypeOK'
    BY <1>8 DEF SnapshotMissing, TypeOK, ProcTypeOK
  <2> QED
    BY <1>8, <2>1, <2>2 DEF SnapshotMissing, TypeOK
<1>9. CASE AskToStop
  <2>1. LoopTypeOK'
    BY <1>9 DEF AskToStop, TypeOK, LoopTypeOK
  <2>2. ProcTypeOK'
    <3>1. "stopping" \in Phase
      BY DEF Phase
    <3>2. CASE UNCHANGED proc
      BY <1>9, <3>2 DEF AskToStop, TypeOK, ProcTypeOK
    <3>3. CASE proc[victim.pid].phase = "serving" /\ victim.pid # 0
      <4>1. victim.pid \in Pid
        BY <3>3 DEF TypeOK, LoopTypeOK, Pid
      <4> QED
        BY <1>9, <3>1, <3>3, <4>1, EnterLemma DEF AskToStop, TypeOK, ProcTypeOK
    <3>4. victim.pid # 0
      BY <1>9 DEF AskToStop, LoopState, TypeOK, LoopTypeOK
    <3> QED
      BY <1>9, <3>2, <3>3, <3>4 DEF AskToStop
  <2> QED
    BY <1>9, <2>1, <2>2 DEF AskToStop, TypeOK
<1>10. CASE StopsInTime
  <2>1. LoopTypeOK'
    BY <1>10 DEF StopsInTime, AfterTermination, TypeOK, LoopTypeOK
  <2>2. WatchTypeOK'
    BY <1>10 DEF StopsInTime, AfterTermination, ScheduleRequestedRestart,
                 TypeOK, WatchTypeOK
  <2> QED
    BY <1>10, <2>1, <2>2 DEF StopsInTime, TypeOK
<1>11. CASE KillGroup
  <2>1. LoopTypeOK'
    BY <1>11 DEF KillGroup, AfterTermination, TypeOK, LoopTypeOK
  <2>2. WatchTypeOK'
    BY <1>11 DEF KillGroup, AfterTermination, ScheduleRequestedRestart, TypeOK,
                 WatchTypeOK
  <2>3. ProcTypeOK'
    <3>1. "exited" \in Phase
      BY DEF Phase
    <3>2. victim.pid \in Pid
      BY <1>11 DEF KillGroup, LoopState, TypeOK, LoopTypeOK, Pid
    <3> QED
      BY <1>11, <3>1, <3>2, EnterLemma DEF KillGroup, Killed, TypeOK, ProcTypeOK
  <2> QED
    BY <1>11, <2>1, <2>2, <2>3 DEF KillGroup, TypeOK
<1>12. CASE HandleStopSharing
  <2>1. PortalTypeOK'
    BY <1>12 DEF HandleStopSharing, TypeOK, PortalTypeOK
  <2> QED
    BY <1>12, <2>1 DEF HandleStopSharing, TypeOK
<1>13. CASE HandleRestart
  <2>1. LoopTypeOK'
    BY <1>13 DEF HandleRestart, TypeOK, LoopTypeOK
  <2>2. WatchTypeOK'
    BY <1>13 DEF HandleRestart, ScheduleRequestedRestart, TypeOK, WatchTypeOK
  <2>3. PortalTypeOK'
    BY <1>13 DEF HandleRestart, TypeOK, PortalTypeOK
  <2> QED
    BY <1>13, <2>1, <2>2, <2>3 DEF HandleRestart, TypeOK
<1>14. ASSUME NEW a \in Admin, ApplySettings(a) PROVE TypeOK'
  <2>1. PortalTypeOK'
    <3>1. requests + 1 \in 0..MaxRequests /\ settings + 1 \in 0..(requests + 1)
      BY <1>14 DEF ApplySettings, TypeOK, PortalTypeOK
    <3>2. [at |-> "applied", target |-> 0, applied |-> settings + 1]
            \in [at : {"idle", "applied", "sending", "waiting"},
                target : Nat, applied : 0..MaxRequests]
      BY <3>1 DEF TypeOK, PortalTypeOK
    <3> QED
      BY <1>14, <3>1, <3>2 DEF ApplySettings, TypeOK, PortalTypeOK
  <2> QED
    BY <1>14, <2>1 DEF ApplySettings, TypeOK
<1>15. ASSUME NEW a \in Admin, RequestRestart(a) PROVE TypeOK'
  <2>1. PortalTypeOK'
    BY <1>15 DEF RequestRestart, PortalUnchanged, TypeOK, PortalTypeOK,
                 WatchTypeOK
  <2> QED
    BY <1>15, <2>1 DEF RequestRestart, PortalUnchanged, TypeOK
<1>16. ASSUME NEW a \in Admin, SendRestart(a) PROVE TypeOK'
  <2>1. PortalTypeOK'
    BY <1>16 DEF SendRestart, PortalUnchanged, Room, Command, TypeOK,
                 PortalTypeOK
  <2> QED
    BY <1>16, <2>1 DEF SendRestart, PortalUnchanged, TypeOK
<1>17. ASSUME NEW a \in Admin, RequestStop(a) PROVE TypeOK'
  <2>1. PortalTypeOK'
    BY <1>17 DEF RequestStop, PortalUnchanged, Room, Command, TypeOK,
                 PortalTypeOK
  <2> QED
    BY <1>17, <2>1 DEF RequestStop, PortalUnchanged, TypeOK
<1>18. ASSUME NEW a \in Admin, PortalSatisfied(a) PROVE TypeOK'
  <2>1. PortalTypeOK'
    BY <1>18 DEF PortalSatisfied, PortalUnchanged, Idle, TypeOK, PortalTypeOK
  <2> QED
    BY <1>18, <2>1 DEF PortalSatisfied, PortalUnchanged, TypeOK
<1>19. CASE TimePasses
  <2>1. WatchTypeOK'
    BY <1>19 DEF TimePasses, TypeOK, WatchTypeOK, AgeCap, SilenceCap
  <2> QED
    BY <1>19, <2>1 DEF TimePasses, TypeOK
<1>20. ASSUME NEW p \in Pid, Receiver(p) PROVE TypeOK'
  BY <1>20, ReceiverLemma DEF TypeOK, OnlyReceivers
<1>21. CASE UNCHANGED vars
  BY <1>21 DEF TypeOK, vars
<1> QED
  BY <1>2, <1>3, <1>4, <1>5, <1>6, <1>7, <1>8, <1>9, <1>10, <1>11, <1>12, <1>13,
     <1>14, <1>15, <1>16, <1>17, <1>18, <1>19, <1>20, <1>21
     DEF Next, Tick, HandleCommand, Portal

-----------------------------------------------------------------------------
(* The loop and the processes.                                             *)

\* What is not a step of the watchdog's task leaves its variables alone, and
\* touches processes only as they themselves do.
LEMMA OutsideLemma ==
    ASSUME TypeOK, [Next]_vars, ~Tick, ~HandleRestart
    PROVE  /\ UNCHANGED <<loop, state, generation, journal>>
           /\ UNCHANGED proc \/ \E p \in Pid : Receiver(p)
<1> USE DEF loop, watch, journal, vars
<1>1. CASE HandleStopSharing
  BY <1>1 DEF HandleStopSharing
<1>2. ASSUME NEW a \in Admin, Portal(a)
      PROVE  UNCHANGED <<loop, state, generation, journal>> /\ UNCHANGED proc
  BY <1>2 DEF Portal, ApplySettings, RequestRestart, SendRestart, RequestStop,
              PortalSatisfied, PortalUnchanged
<1>3. ASSUME NEW p \in Pid, Receiver(p)
      PROVE  UNCHANGED <<loop, state, generation, journal>>
  BY <1>3, ReceiverLemma DEF OnlyReceivers
<1>4. CASE TimePasses
  BY <1>4 DEF TimePasses
<1>5. CASE UNCHANGED vars
  BY <1>5
<1> QED
  BY <1>1, <1>2, <1>3, <1>4, <1>5 DEF Next, HandleCommand

\* The loop's local variables stay in step with where it is.
LEMMA LoopStep ==
    ASSUME TypeOK, LoopState, ReadyMeansReady, [Next]_vars
    PROVE  LoopState'
<1> USE DEF LoopState, loop, watch
<1>1. CASE Tick
  <2> USE DEF TypeOK, LoopTypeOK
  <2>1. CASE SpawnReceiver
    BY <2>1 DEF SpawnReceiver, MayStart, ReadyMeansReady, Pid
  <2>2. CASE SpawnFails
    BY <2>2 DEF SpawnFails, ScheduleFailure
  <2>3. CASE RegisterReceiver
    BY <2>3 DEF RegisterReceiver
  <2>4. CASE ChildExited
    BY <2>4 DEF ChildExited, Waits
  <2>5. CASE ChildRuns
    BY <2>5 DEF ChildRuns, Waits
  <2>6. CASE SnapshotArrives
    BY <2>6 DEF SnapshotArrives
  <2>7. CASE SnapshotMissing
    BY <2>7 DEF SnapshotMissing, Overdue
  <2>8. CASE AskToStop
    BY <2>8 DEF AskToStop
  <2>9. CASE StopsInTime \/ KillGroup
    BY <2>9 DEF StopsInTime, KillGroup, AfterTermination
  <2> QED
    BY <1>1, <2>1, <2>2, <2>3, <2>4, <2>5, <2>6, <2>7, <2>8, <2>9 DEF Tick
<1>2. CASE HandleRestart
  BY <1>2 DEF HandleRestart, ScheduleRequestedRestart, TypeOK, LoopTypeOK
<1>3. CASE ~Tick /\ ~HandleRestart
  BY <1>3, OutsideLemma
<1> QED
  BY <1>1, <1>2, <1>3

\* No step starts a process while another may be alive, or loses one that is.
LEMMA OwnedStep ==
    ASSUME TypeOK, LoopState, AliveIsOwned, [Next]_vars
    PROVE  AliveIsOwned'
<1> USE DEF AliveIsOwned, Alive, loop, watch
<1>0. proc \in [Pid -> Process]
  BY DEF TypeOK, ProcTypeOK
<1>1. CASE Tick
  <2>1. CASE SpawnReceiver
    <3>1. PICK p \in Pid : Fresh(p) /\ child' = p /\ proc' = Enter(p, "booting")
      BY <2>1 DEF SpawnReceiver
    <3>2. "booting" \in Phase
      BY DEF Phase
    <3>3. child = 0 /\ victim.reason = "none" /\ UNCHANGED victim
      BY <2>1 DEF SpawnReceiver, MayStart, TypeOK, LoopTypeOK
    <3>4. \A q \in Pid : proc[q].phase \in {"none", "exited"}
      BY <3>3 DEF Pid
    <3> QED
      BY <1>0, <3>1, <3>2, <3>3, <3>4, EnterLemma
  <2>2. CASE SpawnFails \/ RegisterReceiver \/ ChildRuns \/ SnapshotArrives
    BY <2>2 DEF SpawnFails, RegisterReceiver, ChildRuns, SnapshotArrives
  <2>3. CASE ChildExited
    BY <2>3 DEF ChildExited
  <2>4. CASE SnapshotMissing
    BY <2>4 DEF SnapshotMissing, Overdue, TypeOK, LoopTypeOK
  <2>5. CASE AskToStop
    <3>1. CASE UNCHANGED proc
      BY <2>5, <3>1 DEF AskToStop
    <3>2. CASE proc' = Enter(victim.pid, "stopping") /\ proc[victim.pid].phase = "serving"
      <4>1. victim.pid \in Pid /\ "stopping" \in Phase
        BY <2>5 DEF AskToStop, LoopState, TypeOK, LoopTypeOK, Pid, Phase
      <4> QED
        BY <1>0, <2>5, <3>2, <4>1, EnterLemma DEF AskToStop
    <3> QED
      BY <2>5, <3>1, <3>2 DEF AskToStop
  <2>6. CASE StopsInTime
    BY <2>6 DEF StopsInTime, AfterTermination, LoopState, TypeOK, LoopTypeOK
  <2>7. CASE KillGroup
    <3>1. victim.pid \in Pid /\ "exited" \in Phase
      BY <2>7 DEF KillGroup, LoopState, TypeOK, LoopTypeOK, Pid, Phase
    <3> QED
      BY <1>0, <2>7, <3>1, EnterLemma
         DEF KillGroup, Killed, AfterTermination, LoopState
  <2> QED
    BY <1>1, <2>1, <2>2, <2>3, <2>4, <2>5, <2>6, <2>7 DEF Tick
<1>2. CASE HandleRestart
  BY <1>2 DEF HandleRestart, TypeOK, LoopTypeOK, Pid
<1>3. CASE ~Tick /\ ~HandleRestart
  BY <1>3, OutsideLemma, ReceiverLemma
<1> QED
  BY <1>1, <1>2, <1>3

\* The watchdog stays truthful about readiness.
LEMMA ReadyStep ==
    ASSUME TypeOK, LoopState, ReadyMeansReady, [Next]_vars
    PROVE  ReadyMeansReady'
<1> USE DEF ReadyMeansReady, loop, watch
<1>0. proc \in [Pid -> Process] /\ child \in 0..MaxSpawn
  BY DEF TypeOK, ProcTypeOK, LoopTypeOK
<1>1. CASE Tick
  <2>1. CASE SpawnReceiver
    BY <2>1 DEF SpawnReceiver, MayStart, TypeOK, LoopTypeOK
  <2>2. CASE SpawnFails \/ RegisterReceiver \/ ChildExited
    BY <2>2 DEF SpawnFails, RegisterReceiver, ChildExited, ScheduleFailure
  <2>3. CASE ChildRuns
    BY <2>3 DEF ChildRuns
  <2>4. CASE SnapshotArrives
    <3>1. proc[child].ready \in BOOLEAN /\ child # 0
      BY <2>4, <1>0 DEF SnapshotArrives, LoopState, Process, Pid
    <3> QED
      BY <2>4, <3>1 DEF SnapshotArrives, TypeOK, LoopTypeOK
  <2>5. CASE SnapshotMissing
    BY <2>5 DEF SnapshotMissing, TypeOK, LoopTypeOK
  <2>6. CASE AskToStop
    <3>1. CASE UNCHANGED proc
      BY <2>6, <3>1 DEF AskToStop
    <3>2. CASE proc' = Enter(victim.pid, "stopping")
      <4>1. victim.pid \in Pid /\ "stopping" \in Phase
        BY <2>6 DEF AskToStop, LoopState, TypeOK, LoopTypeOK, Pid, Phase
      <4> QED
        BY <1>0, <2>6, <3>2, <4>1, EnterLemma DEF AskToStop, Pid
    <3> QED
      BY <2>6, <3>1, <3>2 DEF AskToStop
  <2>7. CASE StopsInTime
    BY <2>7 DEF StopsInTime, AfterTermination, ScheduleRequestedRestart
  <2>8. CASE KillGroup
    <3>1. victim.pid \in Pid /\ "exited" \in Phase
      BY <2>8 DEF KillGroup, LoopState, TypeOK, LoopTypeOK, Pid, Phase
    <3>2. proc'[child].ready = proc[child].ready \/ child = 0
      BY <1>0, <2>8, <3>1, EnterLemma DEF KillGroup, Killed, Pid
    <3>3. /\ UNCHANGED child
          /\ state' = "ready" => state = "ready" /\ victim.reason # "restart"
      BY <2>8 DEF KillGroup, AfterTermination, ScheduleRequestedRestart
    <3> QED
      BY <3>2, <3>3
  <2> QED
    BY <1>1, <2>1, <2>2, <2>3, <2>4, <2>5, <2>6, <2>7, <2>8 DEF Tick
<1>2. CASE HandleRestart
  BY <1>2 DEF HandleRestart, ScheduleRequestedRestart, TypeOK, LoopTypeOK
<1>3. CASE ~Tick /\ ~HandleRestart
  BY <1>0, <1>3, OutsideLemma, ReceiverLemma DEF Pid
<1> QED
  BY <1>1, <1>2, <1>3

\* No step makes a process ready before it has booted.
LEMMA BootedStep ==
    ASSUME TypeOK, LoopState, ReadyHasBooted, [Next]_vars
    PROVE  ReadyHasBooted'
<1> USE DEF ReadyHasBooted, loop, watch
<1>0. proc \in [Pid -> Process]
  BY DEF TypeOK, ProcTypeOK
<1>1. CASE Tick
  <2>1. CASE SpawnReceiver
    <3>1. PICK p \in Pid : Fresh(p) /\ proc' = Enter(p, "booting")
      BY <2>1 DEF SpawnReceiver
    <3>2. "booting" \in Phase
      BY DEF Phase
    <3> QED
      BY <1>0, <3>1, <3>2, EnterLemma DEF Fresh
  <2>2. CASE UNCHANGED proc
    BY <2>2
  <2>3. CASE AskToStop /\ proc' = Enter(victim.pid, "stopping")
    <3>1. victim.pid \in Pid /\ "stopping" \in Phase
      BY <2>3 DEF AskToStop, LoopState, TypeOK, LoopTypeOK, Pid, Phase
    <3> QED
      BY <1>0, <2>3, <3>1, EnterLemma
  <2>4. CASE KillGroup
    <3>1. victim.pid \in Pid /\ "exited" \in Phase
      BY <2>4 DEF KillGroup, LoopState, TypeOK, LoopTypeOK, Pid, Phase
    <3> QED
      BY <1>0, <2>4, <3>1, EnterLemma DEF KillGroup, Killed
  <2> QED
    BY <1>1, <2>1, <2>2, <2>3, <2>4
       DEF Tick, SpawnFails, RegisterReceiver, ChildExited, ChildRuns,
           SnapshotArrives, SnapshotMissing, AskToStop, StopsInTime
<1>2. CASE HandleRestart
  BY <1>2 DEF HandleRestart
<1>3. CASE ~Tick /\ ~HandleRestart
  BY <1>0, <1>3, OutsideLemma, ReceiverLemma
<1> QED
  BY <1>1, <1>2, <1>3

-----------------------------------------------------------------------------
(* The portal's requests.                                                  *)

\* A command stays queued when another one is added behind it.
LEMMA AppendLemma ==
    ASSUME NEW s \in Seq(Command), NEW c \in Command
    PROVE  /\ \A i \in DOMAIN s : i \in DOMAIN Append(s, c) /\ Append(s, c)[i] = s[i]
           /\ Len(s) + 1 \in DOMAIN Append(s, c) /\ Append(s, c)[Len(s) + 1] = c
  OBVIOUS

\* A command stays queued when a different one is taken from the front.
LEMMA TailLemma ==
    ASSUME NEW s \in Seq(Command), s # <<>>, NEW i \in DOMAIN s, s[i] # Head(s)
    PROVE  i - 1 \in DOMAIN Tail(s) /\ Tail(s)[i - 1] = s[i]
  OBVIOUS

\* A request that waits stays covered: whoever takes its restart off the queue
\* takes the receiver away too, and the next one reads newer settings.
LEMMA CoveredStep ==
    ASSUME TypeOK, LoopState, ReadyHasBooted, RequestsCovered, [Next]_vars
    PROVE  RequestsCovered'
<1> USE DEF RequestsCovered, loop, watch, portal
<1>0. /\ proc \in [Pid -> Process] /\ proc' \in [Pid -> Process]
      /\ child \in 0..MaxSpawn
      /\ settings \in 0..MaxRequests /\ settings' \in 0..MaxRequests
      /\ commands \in Seq(Command)
      /\ request \in [Admin -> [at : {"idle", "applied", "sending", "waiting"},
                              target : Nat, applied : 0..MaxRequests]]
  <2>1. TypeOK'
    BY TypeStep
  <2>2. proc \in [Pid -> Process] /\ child \in 0..MaxSpawn
    BY DEF TypeOK, ProcTypeOK, LoopTypeOK
  <2>3. proc' \in [Pid -> Process]
    BY <2>1 DEF TypeOK, ProcTypeOK
  <2>4. settings \in 0..requests /\ requests \in 0..MaxRequests
    BY DEF TypeOK, PortalTypeOK
  <2>5. settings' \in 0..requests' /\ requests' \in 0..MaxRequests
    BY <2>1 DEF TypeOK, PortalTypeOK
  <2>6. settings \in 0..MaxRequests /\ settings' \in 0..MaxRequests
    BY <2>4, <2>5
  <2> QED
    BY <2>2, <2>3, <2>6 DEF TypeOK, PortalTypeOK
<1>1. CASE Tick
  <2>1. UNCHANGED <<portal, commands>>
    BY <1>1 DEF Tick, SpawnReceiver, SpawnFails, RegisterReceiver, ChildExited,
                ChildRuns, SnapshotArrives, SnapshotMissing, AskToStop,
                StopsInTime, KillGroup
  <2>2. \A a \in Admin : Queued(a)' = Queued(a)
    BY <2>1 DEF Queued
  <2>3. CASE SpawnReceiver
    <3>1. PICK p \in Pid : child' = p /\ proc' = Enter(p, "booting")
      BY <2>3 DEF SpawnReceiver
    <3>2. "booting" \in Phase
      BY DEF Phase
    <3> QED
      BY <1>0, <2>1, <3>1, <3>2, EnterLemma DEF Covered
  <2>4. CASE child' = 0
    BY <2>1, <2>4
  <2>5. CASE UNCHANGED <<child, proc>>
    BY <2>1, <2>2, <2>5 DEF Covered
  <2>6. CASE child # 0 /\ UNCHANGED child /\ (AskToStop \/ KillGroup) /\ proc' # proc
    <3>1. child \in Pid
      BY <1>0, <2>6 DEF Pid
    <3>2. victim.pid \in Pid /\ victim.pid = child /\ {"exited", "stopping"} \subseteq Phase
      BY <2>6 DEF AskToStop, KillGroup, LoopState, TypeOK, LoopTypeOK, Pid, Phase
    <3>3. /\ proc'[child].config = proc[child].config
          /\ proc'[child].ready = proc[child].ready
          /\ \/ proc'[child].phase = "exited"
             \/ proc[child].phase = "serving" /\ proc'[child].phase = "stopping"
      BY <1>0, <2>6, <3>2, EnterLemma DEF AskToStop, KillGroup, Killed
    <3>4. proc[child].phase \in {"none", "booting"} => ~proc[child].ready
      BY <3>1 DEF ReadyHasBooted
    <3>5. \A a \in Admin : Covered(child, request[a].applied)
                             => Covered(child, request[a].applied)'
      BY <1>0, <2>1, <2>6, <3>1, <3>3, <3>4 DEF Covered, Process
    <3> QED
      BY <2>1, <2>2, <2>6, <3>5
  <2>7. CASE child = 0 /\ UNCHANGED child
    BY <2>1, <2>7
  <2> QED
    BY <1>1, <2>3, <2>4, <2>5, <2>6, <2>7
       DEF Tick, SpawnFails, RegisterReceiver, ChildExited, ChildRuns,
           SnapshotArrives, SnapshotMissing, AskToStop, StopsInTime, KillGroup
<1>2. CASE HandleRestart
  BY <1>2 DEF HandleRestart
<1>3. CASE HandleStopSharing
  <2>1. \A a \in Admin : Queued(a) => Queued(a)'
    <3> SUFFICES ASSUME NEW a \in Admin, Queued(a) PROVE Queued(a)'
      OBVIOUS
    <3>1. PICK i \in DOMAIN commands : commands[i] = [kind |-> "restart", by |-> a]
      BY DEF Queued
    <3>2. commands # <<>> /\ commands' = Tail(commands) /\ commands[i] # Head(commands)
      BY <1>3, <3>1 DEF HandleStopSharing
    <3>3. i - 1 \in DOMAIN commands' /\ commands'[i - 1] = commands[i]
      BY <1>0, <3>2, TailLemma
    <3> QED
      BY <3>1, <3>3 DEF Queued
  <2> QED
    BY <1>3, <2>1 DEF HandleStopSharing, Covered
<1>4. ASSUME NEW a \in Admin, NEW c \in Command, commands' = Append(commands, c)
      PROVE  /\ \A b \in Admin : Queued(b) => Queued(b)'
             /\ c = [kind |-> "restart", by |-> a] => Queued(a)'
  BY <1>0, <1>4, AppendLemma DEF Queued
<1>5. ASSUME NEW a \in Admin, Portal(a) PROVE RequestsCovered'
  <2>1. CASE ApplySettings(a)
    BY <1>0, <2>1 DEF ApplySettings, Queued, Covered
  <2>2. CASE RequestRestart(a)
    BY <1>0, <2>2 DEF RequestRestart, PortalUnchanged, Queued, Covered
  <2>3. CASE SendRestart(a)
    <3>1. [kind |-> "restart", by |-> a] \in Command
      BY DEF Command
    <3>2. (\A b \in Admin : Queued(b) => Queued(b)') /\ Queued(a)'
      BY <1>4, <2>3, <3>1 DEF SendRestart
    <3> QED
      BY <1>0, <2>3, <3>2 DEF SendRestart, PortalUnchanged, Covered
  <2>4. CASE RequestStop(a)
    <3>1. [kind |-> "stop", by |-> a] \in Command
      BY DEF Command
    <3>2. \A b \in Admin : Queued(b) => Queued(b)'
      BY <1>4, <2>4, <3>1 DEF RequestStop
    <3> QED
      BY <2>4, <3>2 DEF RequestStop, PortalUnchanged, Covered
  <2>5. CASE PortalSatisfied(a)
    BY <1>0, <2>5 DEF PortalSatisfied, PortalUnchanged, Idle, Queued, Covered
  <2> QED
    BY <1>5, <2>1, <2>2, <2>3, <2>4, <2>5 DEF Portal
<1>6. ASSUME NEW p \in Pid, Receiver(p) PROVE RequestsCovered'
  <2>1. OnlyReceivers
    BY <1>6, ReceiverLemma
  <2>2. \A a \in Admin : Queued(a)' = Queued(a)
    BY <2>1 DEF OnlyReceivers, Queued
  <2>3. \A a \in Admin : child = p /\ Covered(p, request[a].applied)
                           => Covered(p, request[a].applied)'
    BY <1>0, <1>6, <2>1, ReceiverLemma
       DEF OnlyReceivers, Covered, ReadyHasBooted, Process
  <2>4. \A a \in Admin : child # 0 /\ child # p /\ Covered(child, request[a].applied)
                           => Covered(child, request[a].applied)'
    BY <1>0, <1>6, <2>1, ReceiverLemma DEF OnlyReceivers, Covered, Pid
  <2> QED
    BY <2>1, <2>2, <2>3, <2>4 DEF OnlyReceivers
<1>7. CASE TimePasses \/ UNCHANGED vars
  BY <1>7 DEF TimePasses, vars, Queued, Covered
<1> QED
  BY <1>1, <1>2, <1>3, <1>5, <1>6, <1>7 DEF Next, HandleCommand

-----------------------------------------------------------------------------
(* The journal.                                                            *)

\* The marks are about the process in `child`.
Supervised == child # 0 /\ step # "register"

\* The marks are what the last snapshot carried, the events cut to the list's
\* size, and a process never takes back a report.
JournalInv ==
    /\ seenEvents = IF carried.events < RingSize THEN carried.events ELSE RingSize
    /\ seenSessions = 1..carried.sessions
    /\ Supervised => /\ carried.events <= proc[child].events
                     /\ carried.sessions <= proc[child].sessions
    /\ JournalExact

\* No step takes back what a process has reported.
LEMMA ReportsGrow ==
    ASSUME TypeOK, LoopState, [Next]_vars, NEW p \in Pid
    PROVE  proc'[p].events >= proc[p].events /\ proc'[p].sessions >= proc[p].sessions
<1>0. proc \in [Pid -> Process] /\ proc[p].events \in Nat /\ proc[p].sessions \in Nat
  BY EventsAreNat DEF TypeOK, ProcTypeOK
<1>1. ASSUME NEW q \in Pid, NEW phase \in Phase, proc' = Enter(q, phase)
      PROVE  proc'[p].events >= proc[p].events /\ proc'[p].sessions >= proc[p].sessions
  BY <1>0, <1>1, EnterLemma
<1>2. CASE UNCHANGED proc
  BY <1>0, <1>2
<1>3. CASE SpawnReceiver
  BY <1>1, <1>3 DEF SpawnReceiver, Phase
<1>4. CASE AskToStop
  BY <1>1, <1>2, <1>4 DEF AskToStop, LoopState, TypeOK, LoopTypeOK, Pid, Phase
<1>5. CASE KillGroup
  BY <1>1, <1>5 DEF KillGroup, Killed, LoopState, TypeOK, LoopTypeOK, Pid, Phase
<1>6. CASE ~Tick /\ ~HandleRestart
  BY <1>0, <1>6, OutsideLemma, ReceiverLemma
<1> QED
  BY <1>2, <1>3, <1>4, <1>5, <1>6
     DEF Tick, SpawnFails, RegisterReceiver, ChildExited, ChildRuns,
         SnapshotArrives, SnapshotMissing, StopsInTime, HandleRestart

\* Only a registration and a snapshot touch the marks, and between the two the
\* supervised process stays the same.
LEMMA MarksStay ==
    ASSUME TypeOK, LoopState, [Next]_vars, ~RegisterReceiver, ~SnapshotArrives
    PROVE  /\ UNCHANGED journal
           /\ Supervised' => Supervised /\ child' = child
<1> USE DEF Supervised, loop
<1>1. CASE Tick
  BY <1>1 DEF Tick, SpawnReceiver, SpawnFails, ChildExited, ChildRuns, Waits,
              SnapshotMissing, AskToStop, StopsInTime, KillGroup, AfterTermination
<1>2. CASE HandleRestart
  BY <1>2 DEF HandleRestart
<1>3. CASE ~Tick /\ ~HandleRestart
  BY <1>3, OutsideLemma
<1> QED
  BY <1>1, <1>2, <1>3

\* A snapshot logs exactly what is new in it, as long as no event was pushed out
\* of the list, and nothing again.
LEMMA SnapshotKeepsJournal ==
    ASSUME TypeOK, LoopState, JournalInv, SnapshotArrives
    PROVE  JournalInv'
<1> DEFINE n == proc[child].events
           m == proc[child].sessions
           c == carried.events
           d == carried.sessions
           new == NewEvents(child)
<1>1. child \in Pid /\ Supervised /\ proc \in [Pid -> Process]
  BY DEF SnapshotArrives, LoopState, TypeOK, LoopTypeOK, ProcTypeOK, Pid, Supervised
<1>2. /\ n \in Nat /\ m \in Nat /\ c \in Nat /\ d \in Nat
      /\ RingSize \in Nat \ {0} /\ seenEvents \in Nat
  BY <1>1, EventsAreNat DEF SupervisorAssumption, TypeOK, JournalTypeOK
<1>3. /\ logged.events \in [Reports -> Nat]
      /\ logged.sessions \in [Reports -> Nat]
  BY DEF TypeOK, JournalTypeOK
<1>4. /\ UNCHANGED <<child, proc>>
      /\ logged'.events = LogOnce(logged.events, new)
      /\ logged'.sessions = LogOnce(logged.sessions, NewSessions(child))
      /\ seenEvents' = RingLength(child)
      /\ seenSessions' = seenSessions \cup 1..m
      /\ carried'.events = n /\ carried'.sessions = m
  BY DEF SnapshotArrives
<1>5. /\ c <= n /\ d <= m
      /\ seenEvents = IF c < RingSize THEN c ELSE RingSize
      /\ seenSessions = 1..d
  BY <1>1 DEF JournalInv
<1>6. seenEvents' = IF n < RingSize THEN n ELSE RingSize
  BY <1>4 DEF RingLength
<1>7. seenSessions' = 1..m
  BY <1>2, <1>4, <1>5
<1>8. \A r \in Reports : r \in new => c < r /\ r <= n
  BY <1>2, <1>5 DEF NewEvents, RingLength, Reports
<1>9. n <= RingSize => \A r \in Reports : c < r /\ r <= n => r \in new
  BY <1>2, <1>5 DEF NewEvents, RingLength, Reports
<1>10. JournalExact'
  <2> SUFFICES ASSUME NEW r \in Reports
               PROVE  /\ logged'.sessions[r] = IF r <= m THEN 1 ELSE 0
                      /\ logged'.events[r] <= IF r <= n THEN 1 ELSE 0
                      /\ r <= n /\ n <= RingSize => logged'.events[r] = 1
    BY <1>4 DEF JournalExact
  <2>1. /\ r \in Nat /\ 1 <= r
        /\ logged.events[r] \in Nat /\ logged.sessions[r] \in Nat
    BY <1>3 DEF Reports
  <2>2. /\ logged.sessions[r] = IF r <= d THEN 1 ELSE 0
        /\ logged.events[r] <= IF r <= c THEN 1 ELSE 0
        /\ r <= c /\ c <= RingSize => logged.events[r] = 1
    BY DEF JournalInv, JournalExact
  <2>3. logged'.sessions[r] = IF r \in 1..m /\ r \notin 1..d
                              THEN logged.sessions[r] + 1 ELSE logged.sessions[r]
    BY <1>4, <1>5 DEF LogOnce, NewSessions
  <2>4. logged'.events[r] = IF r \in new THEN logged.events[r] + 1 ELSE logged.events[r]
    BY <1>4 DEF LogOnce
  <2>5. logged'.sessions[r] = IF r <= m THEN 1 ELSE 0
    BY <1>2, <1>5, <2>1, <2>2, <2>3
  <2>6. logged'.events[r] <= IF r <= n THEN 1 ELSE 0
    <3>1. CASE r \in new
      BY <1>2, <1>8, <2>1, <2>2, <2>4, <3>1
    <3>2. CASE r \notin new
      BY <1>2, <1>5, <2>1, <2>2, <2>4, <3>2
    <3> QED
      BY <3>1, <3>2
  <2>7. r <= n /\ n <= RingSize => logged'.events[r] = 1
    <3> SUFFICES ASSUME r <= n, n <= RingSize PROVE logged'.events[r] = 1
      OBVIOUS
    <3>1. CASE r <= c
      BY <1>2, <1>5, <1>8, <2>1, <2>2, <2>4, <3>1
    <3>2. CASE c < r
      BY <1>2, <1>9, <2>1, <2>2, <2>4, <3>2
    <3> QED
      BY <1>2, <2>1, <3>1, <3>2
  <2> QED
    BY <2>5, <2>6, <2>7
<1>11. n <= n /\ m <= m
  BY <1>2
<1> QED
  BY <1>4, <1>6, <1>7, <1>10, <1>11 DEF JournalInv

\* Every step keeps the journal exact.
LEMMA JournalStep ==
    ASSUME TypeOK, LoopState, JournalInv, [Next]_vars
    PROVE  JournalInv'
<1>0. RingSize \in Nat \ {0}
  BY DEF SupervisorAssumption
<1>1. CASE RegisterReceiver
  <2>1. /\ seenEvents' = 0 /\ seenSessions' = {}
        /\ logged' = [events |-> NothingLogged, sessions |-> NothingLogged]
        /\ carried'.events = 0 /\ carried'.sessions = 0
        /\ UNCHANGED <<child, proc>>
    BY <1>1 DEF RegisterReceiver, FreshMarks, NothingCarried
  <2>2. /\ child \in Pid
        /\ proc[child].events \in Nat /\ proc[child].sessions \in Nat
    BY <1>1, EventsAreNat DEF RegisterReceiver, LoopState, TypeOK, LoopTypeOK, ProcTypeOK, Pid
  <2>3. JournalExact'
    BY <2>1 DEF JournalExact, NothingLogged, Reports
  <2>4. 0 <= proc[child].events /\ 0 <= proc[child].sessions /\ 1..0 = {}
    BY <2>2
  <2> QED
    BY <1>0, <2>1, <2>3, <2>4 DEF JournalInv
<1>2. CASE SnapshotArrives
  BY <1>2, SnapshotKeepsJournal
<1>3. CASE ~RegisterReceiver /\ ~SnapshotArrives
  <2>1. /\ UNCHANGED <<seenEvents, seenSessions, logged, carried>>
        /\ Supervised' => Supervised /\ child' = child
    BY <1>3, MarksStay DEF journal
  <2>2. JournalExact'
    BY <2>1 DEF JournalInv, JournalExact
  <2>3. Supervised' => /\ carried.events <= proc'[child'].events
                       /\ carried.sessions <= proc'[child'].sessions
    <3> SUFFICES ASSUME Supervised'
                 PROVE  /\ carried.events <= proc'[child'].events
                        /\ carried.sessions <= proc'[child'].sessions
      OBVIOUS
    <3>1. child \in Pid /\ child' = child
      BY <2>1 DEF Supervised, TypeOK, LoopTypeOK, Pid
    <3>2. proc \in [Pid -> Process] /\ proc' \in [Pid -> Process]
      BY TypeStep DEF TypeOK, ProcTypeOK
    <3>3. /\ proc[child].events \in Nat /\ proc[child].sessions \in Nat
          /\ proc'[child].events \in Nat /\ proc'[child].sessions \in Nat
      BY <3>1, <3>2 DEF Process
    <3>4. carried.events \in Nat /\ carried.sessions \in Nat
      BY DEF TypeOK, JournalTypeOK
    <3>5. carried.events <= proc[child].events /\ carried.sessions <= proc[child].sessions
      BY <2>1 DEF JournalInv
    <3>6. /\ proc'[child].events >= proc[child].events
          /\ proc'[child].sessions >= proc[child].sessions
      BY <3>1, ReportsGrow
    <3> QED
      BY <3>1, <3>3, <3>4, <3>5, <3>6
  <2> QED
    BY <2>1, <2>2, <2>3 DEF JournalInv
<1> QED
  BY <1>1, <1>2, <1>3

-----------------------------------------------------------------------------
(* The theorems.                                                           *)

\* The manager starts in the invariant.
LEMMA WatchInit == Init => WatchInv
<1> SUFFICES ASSUME Init PROVE WatchInv
  OBVIOUS
<1>1. TypeOK
  <2>1. LoopTypeOK /\ WatchTypeOK
    BY DEF Init, LoopTypeOK, WatchTypeOK, AgeCap, SilenceCap
  <2>2. JournalTypeOK
    BY DEF Init, JournalTypeOK, NothingLogged, NothingCarried
  <2>3. PortalTypeOK
    BY DEF Init, PortalTypeOK, Idle
  <2>4. ProcTypeOK
    <3>1. NoProcess \in Process
      BY DEF NoProcess, Process, Phase
    <3> QED
      BY <3>1 DEF Init, ProcTypeOK
  <2> QED
    BY <2>1, <2>2, <2>3, <2>4 DEF TypeOK
<1>2. AliveIsOwned /\ ReadyHasBooted
  BY DEF Init, AliveIsOwned, ReadyHasBooted, Alive, NoProcess
<1>3. LoopState /\ ReadyMeansReady
  <2>1. state # "ready"
    <3>1. CASE configError
      BY <3>1 DEF Init
    <3>2. CASE ~configError
      BY <3>2 DEF Init
    <3> QED
      BY <3>1, <3>2
  <2>2. step = "select" /\ child = 0 /\ victim.reason = "none"
    BY DEF Init
  <2> QED
    BY <2>1, <2>2 DEF LoopState, ReadyMeansReady
<1>4. RequestsCovered
  <2>1. \A a \in Admin : request[a].at = "idle" /\ request[a].applied = 0
    BY DEF Init, Idle
  <2>2. \A a \in Admin : request[a].applied <= settings
    <3>1. settings = 0 /\ 0 <= 0
      BY DEF Init
    <3> QED
      BY <2>1, <3>1, Zenon
  <2>3. \A a \in Admin : request[a].at # "waiting"
    BY <2>1
  <2> QED
    BY <2>2, <2>3, Zenon DEF RequestsCovered
<1> QED
  BY <1>1, <1>2, <1>3, <1>4 DEF WatchInv

\* The invariant is inductive.
LEMMA WatchInductive == Spec => []WatchInv
<1>1. WatchInv /\ [Next]_vars => WatchInv'
  BY TypeStep, LoopStep, OwnedStep, ReadyStep, BootedStep, CoveredStep DEF WatchInv
<1> QED
  BY <1>1, WatchInit, PTL DEF Spec

\* Every variable of the watchdog keeps its type, and the command queue its
\* capacity.
THEOREM SupervisorTypeCorrect == Spec => []TypeOK
<1>1. WatchInv => TypeOK
  BY DEF WatchInv
<1> QED
  BY <1>1, WatchInductive, PTL

\* terminate_child and spawn_receiver (src/supervisor.rs) never leave two live
\* receivers, in any order of crashes, hangs, timeouts and requested restarts.
THEOREM AtMostOneReceiver == Spec => []OneReceiver
<1>1. WatchInv => OneReceiver
  BY DEF WatchInv, AliveIsOwned, LoopState, OneReceiver, TypeOK, LoopTypeOK, Pid
<1> QED
  BY <1>1, WatchInductive, PTL

\* receiver_state is "ready" (src/supervisor.rs) only of a receiver that said so.
THEOREM ReadyIsTrue == Spec => []ReadyMeansReady
<1>1. WatchInv => ReadyMeansReady
  BY DEF WatchInv
<1> QED
  BY <1>1, WatchInductive, PTL

\* What the portal shows as an accepted restart (apply_settings and restart,
\* src/supervisor.rs) runs on the applied settings, or will after a restart
\* that is queued.
THEOREM AppliedSettingsInForce == Spec => []SettingsInForce
<1>1. WatchInv => SettingsInForce
  <2> SUFFICES ASSUME WatchInv, NEW a \in Admin, request[a].at = "waiting",
                      state = "ready", child # 0
               PROVE  proc[child].config >= request[a].applied \/ Queued(a)
    BY DEF SettingsInForce, Queued
  <2>1. child \in Pid
    BY DEF WatchInv, TypeOK, LoopTypeOK, Pid
  <2>2. proc[child].ready
    BY DEF WatchInv, LoopState, ReadyMeansReady
  <2>3. proc[child].phase # "booting"
    BY <2>1, <2>2 DEF WatchInv, ReadyHasBooted
  <2> QED
    BY <2>2, <2>3 DEF WatchInv, RequestsCovered, Covered
<1> QED
  BY <1>1, WatchInductive, PTL

\* seen_events and seen_sessions (src/supervisor.rs, run_supervisor): of all that
\* a snapshot of the running receiver has carried, each session, and each event
\* while its list has not overflowed, is in the log exactly once, and nothing else
\* is.  It says nothing of what a receiver reports after its last snapshot.
THEOREM SnapshotsLoggedOnce == Spec => []JournalExact
<1>1. Init => JournalInv
  <2> SUFFICES ASSUME Init PROVE JournalInv
    OBVIOUS
  <2>1. /\ RingSize \in Nat \ {0} /\ seenEvents = 0 /\ seenSessions = {} /\ child = 0
        /\ carried.events = 0 /\ carried.sessions = 0
    BY DEF Init, NothingCarried, SupervisorAssumption
  <2>2. logged = [events |-> NothingLogged, sessions |-> NothingLogged]
    BY DEF Init
  <2>3. JournalExact
    BY <2>1, <2>2 DEF JournalExact, NothingLogged, Reports
  <2>4. 1..0 = {}
    OBVIOUS
  <2> QED
    BY <2>1, <2>3, <2>4 DEF JournalInv, Supervised
<1>2. WatchInv /\ JournalInv /\ [Next]_vars => JournalInv'
  BY JournalStep DEF WatchInv
<1>3. JournalInv => JournalExact
  BY DEF JournalInv
<1> QED
  BY <1>1, <1>2, <1>3, WatchInductive, PTL DEF Spec

=============================================================================
