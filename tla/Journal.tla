------------------------------- MODULE Journal -------------------------------
(***************************************************************************)
(* The operational log of the manager: src/operational_log.rs.             *)
(*                                                                         *)
(* Every method holds one mutex, so calls do not overlap; what makes the   *)
(* log hard is that the manager may stop, or the power fail, between any   *)
(* two system calls, that each of them may fail, and that the next life    *)
(* appends to what it finds.                                               *)
(*                                                                         *)
(* Abstractions: a segment is a sequence of marks, each an event's text, a *)
(* part of one, or a newline; its length is counted in marks.  Renames are *)
(* in force, in order, when they return (an ordered metadata journal).     *)
(* Aggregation in event() decides which events reach append_event, so an   *)
(* event here is one that does.  recent in memory, read by the portal      *)
(* only, the incident excerpts and the archive are left out.               *)
(***************************************************************************)
EXTENDS Naturals, Sequences, FiniteSets

CONSTANTS
    Newline, Fragment, \* marks that are not an event's text
    Absent,            \* no such file
    Segments,          \* SEGMENT_COUNT
    SegmentMarks,      \* SEGMENT_BYTES
    Budget,            \* events of each class that pruning keeps
    RecentLimit,       \* RECENT_LIMIT
    Logged,            \* the kinds of events the manager logs
    MaxEvents,         \* bound: events and reports
    MaxFaults          \* bound: stops, power failures and failing calls, together

Kind == {"stream_start", "stream_stop", "stream_summary", "connection", "incident", "unclean"}

ASSUME JournalAssumption ==
    /\ Segments \in Nat \ {0, 1}
    /\ {SegmentMarks, Budget, RecentLimit} \subseteq Nat \ {0}
    /\ Logged \subseteq Kind \ {"unclean"}
    /\ {MaxEvents, MaxFaults} \subseteq Nat

\* What a segment holds is told apart: texts are numbers, the other marks are not,
\* and a missing file is not an empty one.
ASSUME MarksAssumption ==
    /\ Newline \notin Nat /\ Fragment \notin Nat /\ Newline # Fragment
    /\ Absent \notin [marks : Seq(Nat \cup {Newline, Fragment}), durable : Nat]

VARIABLES
    segment,  \* index -> Absent or [marks, durable]
    pending,  \* pending
    dirty,    \* pending_since_sync
    healthy,  \* healthy
    call,     \* the method that runs: none, flush, sync, critical
    step,     \* where it is
    target,   \* the index rotation or pruning works on, 0 outside
    resume,   \* where it goes on after a rotation, "filing" outside
    kind,     \* the kind of each event so far (history)
    expired,  \* events older than thirty days: the first of them
    dropped,  \* events a rotation or pruning removed (history)
    acked,    \* critical events that were reported as written (history)
    stops, errors

fileVars == <<segment, dropped>>
callVars == <<call, step, target, resume>>
memoryVars == <<pending, dirty, healthy>>
historyVars == <<kind, expired, acked, stops, errors>>
vars == <<fileVars, callVars, memoryVars, historyVars>>

-----------------------------------------------------------------------------
(* Files.                                                                  *)

Index == 0..Segments - 1
Event == 1..Len(kind)
Text(m) == m \notin {Newline, Fragment}

Marks(i) == IF segment[i] = Absent THEN <<>> ELSE segment[i].marks
Empty == [marks |-> <<>>, durable |-> 0]

\* str::lines and from_str: the k-th mark is a line of its own.
IsLine(s, k) ==
    /\ Text(s[k])
    /\ k = 1 \/ s[k - 1] = Newline
    /\ k = Len(s) \/ s[k + 1] = Newline

\* Every line of the segment can be read.
Parses(s) == \A k \in DOMAIN s : s[k] # Newline => IsLine(s, k)

\* The events that can be read back from the segment.
Readable(s) == {s[k] : k \in {n \in DOMAIN s : IsLine(s, n)}}

AllReadable == UNION {Readable(Marks(i)) : i \in Index}

\* The k latest of a set of events.
Latest(S, k) == {e \in S : Cardinality({f \in S : f > e}) < k}

\* OpenOptions::append creates a file that is not there.
Append0(m) ==
    segment' = [segment EXCEPT ![0] =
        [marks |-> Marks(0) \o m, durable |-> IF @ = Absent THEN 0 ELSE @.durable]]

Full == Len(Marks(0)) >= SegmentMarks

Class(e) == CASE kind[e] = "stream_summary" -> "session"
              [] kind[e] = "connection" -> "connection"
              [] OTHER -> "general"

-----------------------------------------------------------------------------
Init ==
    /\ segment = [i \in Index |-> Absent] /\ dropped = {}
    /\ call = "none" /\ step = "opening" /\ target = 0 /\ resume = "filing"
    /\ pending = <<>> /\ dirty = FALSE /\ healthy = TRUE
    /\ kind = <<>> /\ expired = 0 /\ acked = {} /\ stops = 0 /\ errors = 0

Begin(c) == call' = c /\ step' = "flushing"

\* The event of a critical call is the last one numbered.
TheEvent == Len(kind)

\* What open() recovers: the last RECENT_LIMIT events that can be read.
Recent == Latest(AllReadable, RecentLimit)

Ends == {"stream_stop", "stream_summary", "unclean"}

\* An earlier life ended in the middle of a stream.
UncleanShutdown ==
    \E s \in Recent : /\ kind[s] = "stream_start"
                      /\ \A e \in Recent : kind[e] \in Ends => e < s

\* Mutant of Opens: the report is not looked for.
OpensRepeatedly ==
    /\ step = "opening"
    /\ IF Len(kind) < MaxEvents /\ \E s \in Recent : kind[s] = "stream_start"
       THEN Begin("critical") /\ kind' = Append(kind, "unclean")
       ELSE call' = "none" /\ step' = "ready" /\ UNCHANGED kind
    /\ UNCHANGED <<fileVars, target, resume, memoryVars, expired, acked, stops, errors>>

\* open().  MaxEvents leaves room for the reports.
Opens ==
    /\ step = "opening"
    /\ IF UncleanShutdown
       THEN Begin("critical") /\ kind' = Append(kind, "unclean")
       ELSE call' = "none" /\ step' = "ready" /\ UNCHANGED kind
    /\ UNCHANGED <<fileVars, target, resume, memoryVars, expired, acked, stops, errors>>

\* Mutant of Batch: pending_since_sync is left alone.
BatchQuietly ==
    /\ step = "ready" /\ Len(kind) < MaxEvents
    /\ \E k \in Logged \ {"incident"} : kind' = Append(kind, k)
    /\ pending' = Append(pending, Len(kind'))
    /\ healthy' = TRUE
    /\ UNCHANGED <<fileVars, callVars, dirty, expired, acked, stops, errors>>

\* event() that is not critical: batched, and the log is called healthy.
Batch ==
    /\ step = "ready" /\ Len(kind) < MaxEvents
    /\ \E k \in Logged \ {"incident"} : kind' = Append(kind, k)
    /\ pending' = Append(pending, Len(kind'))
    /\ dirty' = TRUE /\ healthy' = TRUE
    /\ UNCHANGED <<fileVars, callVars, expired, acked, stops, errors>>

\* event() that is critical.
Critical ==
    /\ step = "ready" /\ Len(kind) < MaxEvents
    /\ "incident" \in Logged
    /\ kind' = Append(kind, "incident")
    /\ Begin("critical")
    /\ UNCHANGED <<fileVars, target, resume, memoryVars, expired, acked, stops, errors>>

\* flush() and sync(), every ten seconds and every minute; without pending lines,
\* and with nothing written since the last one, they do nothing.
Flush ==
    /\ step = "ready"
    /\ \/ pending # <<>> /\ Begin("flush")
       \/ dirty /\ Begin("sync")
    /\ UNCHANGED <<fileVars, target, resume, memoryVars, historyVars>>

\* The month passes for the oldest events.
Ages ==
    /\ step = "ready" /\ expired < Len(kind)
    /\ expired' = expired + 1
    /\ UNCHANGED <<fileVars, callVars, memoryVars, kind, acked, stops, errors>>

\* Where flush_pending returns to.
Flushed ==
    /\ step' = CASE call = "flush" -> "ready" [] call = "sync" -> "saving"
                 [] call = "critical" -> "room"
    /\ call' = IF call = "flush" THEN "none" ELSE call

\* flush_pending begins.
FlushBegins ==
    /\ step = "flushing"
    /\ \/ pending = <<>> /\ Flushed /\ UNCHANGED resume
       \/ pending # <<>> /\ Full /\ step' = "removing" /\ resume' = "filing"
          /\ UNCHANGED call
       \/ pending # <<>> /\ ~Full /\ step' = "filing" /\ UNCHANGED <<call, resume>>
    /\ UNCHANGED <<fileVars, target, memoryVars, historyVars>>

\* open_journal of flush_pending, with or without a rotation before it.
OpensFile ==
    /\ step = "filing"
    /\ Append0(<<>>)
    /\ step' = "draining"
    /\ UNCHANGED <<dropped, call, target, resume, memoryVars, historyVars>>

\* One write_all of the loop.
Drains ==
    /\ step = "draining" /\ pending # <<>>
    /\ Append0(<<Head(pending), Newline>>)
    /\ pending' = Tail(pending)
    /\ UNCHANGED <<dropped, callVars, dirty, healthy, historyVars>>

Drained ==
    /\ step = "draining" /\ pending = <<>>
    /\ Flushed
    /\ UNCHANGED <<fileVars, target, resume, memoryVars, historyVars>>

\* rotate_if_needed before a critical event.
MakesRoom ==
    /\ step = "room"
    /\ \/ Full /\ step' = "removing" /\ resume' = "writing"
       \/ ~Full /\ step' = "writing" /\ UNCHANGED resume
    /\ UNCHANGED <<fileVars, call, target, memoryVars, historyVars>>

\* Mutant of Writes: without its newline.
WritesBare ==
    /\ step = "writing"
    /\ Append0(<<TheEvent>>)
    /\ step' = "saving"
    /\ UNCHANGED <<dropped, call, target, resume, memoryVars, historyVars>>

\* The critical event's text, then ...
Writes ==
    /\ step = "writing"
    /\ Append0(<<TheEvent>>)
    /\ step' = "ending"
    /\ UNCHANGED <<dropped, call, target, resume, memoryVars, historyVars>>

\* ... its newline.
EndsLine ==
    /\ step = "ending"
    /\ Append0(<<Newline>>)
    /\ step' = "saving"
    /\ UNCHANGED <<dropped, call, target, resume, memoryVars, historyVars>>

\* Mutant of Saves: the data are not on the card yet.
SavesNothing ==
    /\ step = "saving"
    /\ step' = "ready" /\ call' = "none" /\ healthy' = TRUE
    /\ dirty' = (dirty /\ call # "sync")
    /\ acked' = IF call = "critical" THEN acked \cup {TheEvent} ELSE acked
    /\ UNCHANGED <<fileVars, target, resume, pending, kind, expired, stops, errors>>

\* sync_data of the current segment.
Saves ==
    /\ step = "saving" /\ segment[0] # Absent
    /\ segment' = [segment EXCEPT ![0].durable = Len(Marks(0))]
    /\ step' = "ready" /\ call' = "none" /\ healthy' = TRUE
    /\ dirty' = (dirty /\ call # "sync")
    /\ acked' = IF call = "critical" THEN acked \cup {TheEvent} ELSE acked
    /\ UNCHANGED <<dropped, target, resume, pending, kind, expired, stops, errors>>

\* sync() when a rotation that failed has left no current segment.
NothingToSave ==
    /\ step = "saving" /\ segment[0] = Absent
    /\ step' = "ready" /\ call' = "none" /\ healthy' = FALSE
    /\ UNCHANGED <<fileVars, target, resume, pending, dirty, historyVars>>

-----------------------------------------------------------------------------
(* Rotation and pruning.                                                   *)

\* Every event's text in the marks.
Texts(s) == {s[k] : k \in {n \in DOMAIN s : Text(s[n])}}

RemovesOldest ==
    /\ step = "removing"
    /\ dropped' = dropped \cup Texts(Marks(Segments - 1))
    /\ segment' = [segment EXCEPT ![Segments - 1] = Absent]
    /\ step' = "renaming" /\ target' = Segments - 2
    /\ UNCHANGED <<call, resume, memoryVars, historyVars>>

\* Mutant of Renames: a copy is left behind.
RenamesByCopy ==
    /\ step = "renaming"
    /\ segment' = IF segment[target] = Absent THEN segment
                  ELSE [segment EXCEPT ![target + 1] = segment[target]]
    /\ IF target = 0 THEN step' = "creating" /\ UNCHANGED target
       ELSE target' = target - 1 /\ UNCHANGED step
    /\ UNCHANGED <<dropped, call, resume, memoryVars, historyVars>>

\* rename(target, target + 1), from the oldest on.
Renames ==
    /\ step = "renaming"
    /\ segment' = IF segment[target] = Absent THEN segment
                  ELSE [segment EXCEPT ![target + 1] = segment[target], ![target] = Absent]
    /\ IF target = 0 THEN step' = "creating" /\ UNCHANGED target
       ELSE target' = target - 1 /\ UNCHANGED step
    /\ UNCHANGED <<dropped, call, resume, memoryVars, historyVars>>

Creates ==
    /\ step = "creating"
    /\ segment' = [segment EXCEPT ![0] = Empty]
    /\ step' = "pruning" /\ target' = 0
    /\ UNCHANGED <<dropped, call, resume, memoryVars, historyVars>>

\* The events of one class in the segments that can be read, up to the i-th.
Counted(i, c) ==
    {e \in UNION {Readable(Marks(j)) : j \in {n \in 0..i : Parses(Marks(n))}} :
        Class(e) = c /\ e > expired}

Retained(i) ==
    {e \in Readable(Marks(i)) : e \in Latest(Counted(i, Class(e)), Budget)}

\* The segment rewritten with the events at the positions in K, in the order they
\* had, each on a line of its own.  There is one such sequence.
Rewritten(s, K) ==
    {[n \in 1..(2 * Cardinality(K)) |-> IF n % 2 = 1 THEN s[f[(n + 1) \div 2]] ELSE Newline] :
        f \in {g \in [1..Cardinality(K) -> K] :
                 \A m, n \in 1..Cardinality(K) : m < n => g[m] < g[n]}}

\* prune_segments, one segment: written beside the old one, synced, renamed.  A
\* segment with a line that cannot be read is left alone.
Prunes ==
    /\ step = "pruning"
    /\ IF segment[target] # Absent /\ Parses(Marks(target))
       THEN LET s == Marks(target) IN
            /\ \E kept \in Rewritten(s, {k \in DOMAIN s : s[k] \in Retained(target)}) :
                 segment' = [segment EXCEPT ![target] =
                                [marks |-> kept, durable |-> Len(kept)]]
            /\ dropped' = dropped \cup (Texts(s) \ Retained(target))
       ELSE UNCHANGED fileVars
    /\ IF target = Segments - 1
       THEN step' = resume /\ target' = 0 /\ resume' = "filing"
       ELSE target' = target + 1 /\ UNCHANGED <<step, resume>>
    /\ UNCHANGED <<call, memoryVars, historyVars>>

-----------------------------------------------------------------------------
(* Faults.                                                                 *)

\* A system call fails, and the call ends there: a step of the rotation, the last
\* sync of its directory and an open ("filing", "writing"), a write or a sync.  The
\* drain that a failed write ends drops the lines still in it, an open that fails
\* leaves them pending.  A file may have been created, if empty, and a failed write
\* may leave a part of its line, or all but the newline.
Fails ==
    /\ stops + errors < MaxFaults
    /\ \/ step \in {"removing", "renaming", "creating", "pruning", "filing", "writing",
                    "ending", "saving"}
       \/ step = "draining" /\ pending # <<>>
    /\ errors' = errors + 1
    /\ step' = "ready" /\ call' = "none" /\ healthy' = FALSE
    /\ pending' = IF step = "draining" THEN <<>> ELSE pending
    /\ \/ UNCHANGED segment
       \/ step \in {"creating", "filing", "writing"} /\ Append0(<<>>)
       \/ step \in {"draining", "writing"} /\ Append0(<<Fragment>>)
       \/ step = "draining" /\ Append0(<<Head(pending)>>)
    /\ target' = 0 /\ resume' = "filing"
    /\ UNCHANGED <<dropped, dirty, kind, expired, acked, stops>>

\* What a power failure leaves of a file: a prefix, all that was synced at least.
Survivors(old) ==
    IF old = Absent THEN {Absent}
    ELSE {[marks |-> SubSeq(old.marks, 1, n), durable |-> n] :
            n \in old.durable..Len(old.marks)}
         \cup {[marks |-> Append(SubSeq(old.marks, 1, n), Fragment), durable |-> n + 1] :
            n \in {m \in old.durable..(Len(old.marks) - 1) : Text(old.marks[m + 1])}}

Restarts ==
    /\ step # "opening" /\ stops + errors < MaxFaults
    /\ stops' = stops + 1
    /\ step' = "opening" /\ call' = "none"
    /\ pending' = <<>> /\ dirty' = FALSE /\ healthy' = TRUE
    /\ target' = 0 /\ resume' = "filing"
    /\ UNCHANGED <<dropped, kind, expired, acked, errors>>

\* The manager stops, however it does: nothing flushes the list.
ManagerStops == Restarts /\ UNCHANGED segment

\* The power fails.
PowerFails ==
    /\ Restarts
    /\ segment' \in {s \in [Index -> UNION {Survivors(segment[i]) : i \in Index}] :
                        \A i \in Index : s[i] \in Survivors(segment[i])}

Next == \/ Opens \/ Batch \/ Critical \/ Flush \/ Ages
        \/ FlushBegins \/ OpensFile \/ Drains \/ Drained \/ MakesRoom \/ Writes \/ EndsLine
        \/ Saves \/ NothingToSave
        \/ RemovesOldest \/ Renames \/ Creates \/ Prunes
        \/ Fails \/ ManagerStops \/ PowerFails

Spec == Init /\ [][Next]_vars

-----------------------------------------------------------------------------
(* Properties.                                                             *)

\* A file as the log can leave it.
File == [marks : Seq(Event \cup {Newline, Fragment}), durable : Nat]

JournalTypeOK ==
    /\ segment \in [Index -> File \cup {Absent}]
    /\ \A i \in Index : segment[i] # Absent => segment[i].durable <= Len(Marks(i))
    /\ pending \in Seq(Event) /\ dirty \in BOOLEAN /\ healthy \in BOOLEAN
    /\ call \in {"none", "flush", "sync", "critical"}
    /\ step \in {"opening", "ready", "flushing", "filing", "draining", "room", "writing",
                 "ending", "saving", "removing", "renaming", "creating", "pruning"}
    /\ pending # <<>> => dirty
    /\ (step \in {"opening", "ready"}) = (call = "none")
    /\ target \in Index /\ resume \in {"filing", "writing"}
    /\ kind \in Seq(Kind) /\ expired \in 0..Len(kind)
    /\ dropped \subseteq Event /\ acked \subseteq Event

\* Read from the oldest segment on, and then in memory, the log is in the order
\* of the events and has none of them twice, also between two renames and after
\* a rotation that was interrupted or failed (operational_log.rs:203).
OrderKept ==
    /\ \A i, j \in Index : \A k \in DOMAIN Marks(i), l \in DOMAIN Marks(j) :
          /\ Text(Marks(i)[k]) /\ Text(Marks(j)[l])
          /\ i > j \/ (i = j /\ k < l)
          => Marks(i)[k] < Marks(j)[l]
    /\ \A i \in Index : \A e \in Texts(Marks(i)), n \in DOMAIN pending : e < pending[n]
    /\ \A m, n \in DOMAIN pending : m < n => pending[m] < pending[n]

\* A critical event that event() has reported as written is on the card, whatever
\* fails or stops later, until rotation or pruning takes it (operational_log.rs:171).
AcknowledgedKept ==
    \A e \in acked \ dropped : \E i \in Index :
        segment[i] # Absent /\ \E k \in 1..segment[i].durable : segment[i].marks[k] = e

\* A line that was left without its newline spoils the next one: each interruption
\* costs one critical event at most (operational_log.rs:171, :185).
DamageIsBounded ==
    Cardinality({e \in acked \ dropped : e \notin AllReadable}) <= stops + errors

\* A stream that an earlier life left open is reported once, however often the
\* manager stops: while a report that was written can be read there is no other
\* without a stream in between (operational_log.rs:55).
OneReportPerStart ==
    \A r \in acked \cap AllReadable, q \in Event :
        kind[r] = "unclean" /\ kind[q] = "unclean" /\ r < q =>
            \E s \in Event : r < s /\ s < q /\ kind[s] = "stream_start"

=============================================================================
