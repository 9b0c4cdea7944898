----------------------------- MODULE Reassembly -----------------------------
(***************************************************************************)
(* Access-unit reassembly: process_udp_chunk in src/v4l2_decoder.rs.       *)
(*                                                                         *)
(* One process-wide counter (LAST_COMPLETED_SEQ, an atomic) and one list   *)
(* of assemblies (under a mutex) serve every media task and the UDP task;  *)
(* the main loop resets both when a stream ends.  A call reads the counter *)
(* first and takes the mutex later: what the counter said may be stale by  *)
(* then, and a reset is two steps.                                         *)
(*                                                                         *)
(* Abstractions: a payload is the access unit it was cut from; of the      *)
(* packets that are ignored as malformed only those count whose number has *)
(* reset the pipeline before the rest of them was looked at; a source      *)
(* reads either a reliable stream, which has an access unit in each        *)
(* packet, or datagrams, which all have the same number of chunks; the age *)
(* of an assembly is "older than ASSEMBLY_TTL" or not.                     *)
(***************************************************************************)
EXTENDS Naturals, Sequences, FiniteSets

CONSTANTS
    Task,           \* the media tasks
    Loop,           \* the main loop, which only resets
    Chunks,         \* chunks of an access unit sent in datagrams
    MaxInFlight,    \* MAX_IN_FLIGHT
    RestartWindow,  \* the 5 of "seq <= 5": a restarted stream's first numbers
    Timed,          \* packets carry timing metadata, which tells access units apart
    MaxSeq,         \* bound: access units of a stream
    Units,          \* bound: access units of a stream of each source
    MaxRuns         \* bound: streams the sources send, each one after the other

ASSUME ReassemblyAssumption ==
    /\ IsFiniteSet(Task) /\ Loop \notin Task
    /\ Chunks \in Nat \ {0} /\ MaxInFlight \in Nat \ {0}
    /\ RestartWindow \in Nat \ {0} /\ MaxSeq \in Nat /\ MaxRuns \in Nat
    /\ Timed \in BOOLEAN

ASSUME UnitsAssumption == Units \in [Task -> 0..MaxSeq]

VARIABLES
    lastCompleted,  \* LAST_COMPLETED_SEQ
    assemblies,     \* ASSEMBLIES, oldest first
    phase,          \* where each call is
    packet,         \* the packet each task's call is about
    seen,           \* last_seq: what that call read of lastCompleted
    reliable,       \* the tasks that read a reliable stream
    run,            \* the stream each source is sending
    sent,           \* packets of it a reliable source has had read
    completed       \* history: what each frame returned to the caller was cut from

vars == <<lastCompleted, assemblies, phase, packet, seen, reliable, run, sent,
          completed>>
sourceVars == <<reliable, run, sent>>

-----------------------------------------------------------------------------
AccessUnit == [src : Task, run : 1..MaxRuns, seq : 1..MaxSeq]
ChunkIndex == 0..(Chunks - 1)
Packet == [au : AccessUnit, chunk : ChunkIndex]
StopPacket == [stop |-> TRUE]
NoPayload == [payload |-> FALSE]

Assembly == [au : AccessUnit, slots : [ChunkIndex -> AccessUnit \cup {NoPayload}],
             expired : BOOLEAN]

\* "reset" and "clear" are the two steps of reset_decoder_pipeline.
Phase == {"idle", "reset", "clear", "assemble"}

Init ==
    /\ lastCompleted = 0
    /\ assemblies = <<>>
    /\ phase = [x \in Task \cup {Loop} |-> "idle"]
    /\ packet = [t \in Task |-> StopPacket]
    /\ seen = [t \in Task |-> 0]
    /\ reliable \in SUBSET Task
    /\ run = [t \in Task |-> 0]
    /\ sent = [t \in Task |-> 0]
    /\ completed = {}

-----------------------------------------------------------------------------
(* The sources.                                                            *)

\* The streams opened so far, whoever sends them.
Streams == {s \in Task \X (1..MaxRuns) : s[2] <= run[s[1]]}

OpenStream(t) ==
    /\ phase[t] = "idle"
    /\ Cardinality(Streams) < MaxRuns
    /\ run' = [run EXCEPT ![t] = @ + 1]
    /\ sent' = [sent EXCEPT ![t] = 0]
    /\ UNCHANGED <<lastCompleted, assemblies, phase, packet, seen, reliable, completed>>

ChunksOf(au) == IF au.src \in reliable THEN 1 ELSE Chunks

\* A reliable source's packets are read once each, in order; a datagram
\* source's are lost, duplicated, delayed and reordered.
Arrives(t, p) ==
    /\ p.au.src = t /\ p.au.seq <= Units[t] /\ p.chunk < ChunksOf(p.au)
    /\ IF t \in reliable
       THEN p.au.run = run[t] /\ p.au.seq = sent[t] + 1
       ELSE p.au.run <= run[t]

-----------------------------------------------------------------------------
(* process_udp_chunk.                                                      *)

\* Mutant of Stale: only the frame just completed is.
StaleDuplicate(seq, last) == seq = last /\ last > 0

Stale(seq, last) == seq <= last /\ last > 0

\* Mutant of Restarts: a lower number only.
RestartsBelow(seq, last) == seq < last

\* A stale number that is low, or below the last, is taken for a restart.
Restarts(seq, last) == seq <= RestartWindow \/ seq < last

ReceivePacket(t, p) ==
    /\ phase[t] = "idle"
    /\ Arrives(t, p)
    /\ sent' = [sent EXCEPT ![t] = IF t \in reliable THEN @ + 1 ELSE @]
    /\ packet' = [packet EXCEPT ![t] = p]
    /\ seen' = [seen EXCEPT ![t] = lastCompleted]
    /\ phase' = [phase EXCEPT ![t] =
                    IF ~Stale(p.au.seq, lastCompleted) THEN "assemble"
                    ELSE IF Restarts(p.au.seq, lastCompleted) THEN "reset"
                    ELSE "idle"]
    /\ UNCHANGED <<lastCompleted, assemblies, reliable, run, completed>>

ResetsOnly(t) ==
    /\ phase[t] = "idle" /\ run[t] > 0
    /\ packet' = [packet EXCEPT ![t] = StopPacket]
    /\ phase' = [phase EXCEPT ![t] = "reset"]
    /\ UNCHANGED <<lastCompleted, assemblies, seen, sourceVars, completed>>

ReceiveStop(t) == ResetsOnly(t)

\* The number is acted on before dimensions, chunk counts and timing are checked
\* and the packet is ignored.
ReceiveMalformed(t, seq) ==
    /\ Stale(seq, lastCompleted) /\ Restarts(seq, lastCompleted)
    /\ ResetsOnly(t)

\* The main loop's handlers reset when a stream ends.
LoopResets ==
    /\ phase[Loop] = "idle"
    /\ phase' = [phase EXCEPT ![Loop] = "reset"]
    /\ UNCHANGED <<lastCompleted, assemblies, packet, seen, sourceVars, completed>>

ResetCounter(x) ==
    /\ phase[x] = "reset"
    /\ lastCompleted' = 0
    /\ phase' = [phase EXCEPT ![x] = "clear"]
    /\ UNCHANGED <<assemblies, packet, seen, sourceVars, completed>>

ClearAssemblies(x) ==
    /\ phase[x] = "clear"
    /\ assemblies' = <<>>
    /\ phase' = [phase EXCEPT ![x] =
                    IF x = Loop THEN "idle"
                    ELSE IF packet[x] = StopPacket THEN "idle" ELSE "assemble"]
    /\ UNCHANGED <<lastCompleted, packet, seen, sourceVars, completed>>

\* Mutant of SameMetadata: it is not compared.
AnyMetadata(e, p) == TRUE

\* Dimensions and codec are the same for all; the number of chunks and the
\* timing tell units apart.
SameMetadata(e, p) == ChunksOf(e.au) = ChunksOf(p.au) /\ (Timed => e.au = p.au)

\* Mutant of Matches: an assembly is looked up by all of its metadata.
MatchesMetadata(e, p) == e.au.seq = p.au.seq /\ SameMetadata(e, p)

Matches(e, p) == e.au.seq = p.au.seq

NewAssembly(p) ==
    [au |-> p.au, expired |-> FALSE,
     slots |-> [c \in ChunkIndex |-> IF c = p.chunk THEN p.au ELSE NoPayload]]

\* Mutant of WithRoom: the list grows.
Unbounded(q) == q

\* At the limit the oldest assembly is evicted.
WithRoom(q) == IF Len(q) = MaxInFlight THEN Tail(q) ELSE q

\* A chunk fills its slot if that is empty; one whose metadata does not match
\* is ignored.
Filled(e, p) ==
    IF SameMetadata(e, p) /\ e.slots[p.chunk] = NoPayload
    THEN [e EXCEPT !.slots[p.chunk] = p.au] ELSE e

Slots(e) == {e.slots[c] : c \in 0..(ChunksOf(e.au) - 1)}
Full(e) == NoPayload \notin Slots(e)

\* Vec::retain: the elements of q at the positions in I, in their order.  There
\* is one such sequence.
Retained(q, I) ==
    {[n \in 1..Cardinality(I) |-> q[f[n]]] :
        f \in {g \in [1..Cardinality(I) -> I] :
                 \A m, n \in 1..Cardinality(I) : m < n => g[m] < g[n]}}

\* Mutant of Newer: older assemblies stay.
NotCompleted(q, seq) == Retained(q, {i \in DOMAIN q : q[i].au.seq # seq})

Newer(q, seq) == Retained(q, {i \in DOMAIN q : q[i].au.seq > seq})

\* Expired assemblies are dropped, and those not newer than last.
Live(q, last) == Retained(q, {i \in DOMAIN q : ~q[i].expired /\ q[i].au.seq > last})

\* The list after the packet: its chunk is in the assembly of its number, or in
\* a new one.
WithPacket(q, p) ==
    IF \E i \in DOMAIN q : Matches(q[i], p)
    THEN [i \in DOMAIN q |-> IF Matches(q[i], p) THEN Filled(q[i], p) ELSE q[i]]
    ELSE Append(WithRoom(q), NewAssembly(p))

\* Where the packet has completed its frame.
Done(q, p) == {i \in DOMAIN q : Matches(q[i], p) /\ Full(q[i]) /\ SameMetadata(q[i], p)}

\* The section under the mutex; the counter is as it was when the call began.
\* The call's locals end with it.
Assemble(t) ==
    /\ phase[t] = "assemble"
    /\ phase' = [phase EXCEPT ![t] = "idle"]
    /\ \E kept \in Live(assemblies, seen[t]) :
        LET p == packet[t]
            now == WithPacket(kept, p)
        IN IF Done(now, p) # {}
           THEN /\ lastCompleted' = p.au.seq
                /\ assemblies' \in Newer(now, p.au.seq)
                /\ completed' = completed \cup {Slots(now[i]) : i \in Done(now, p)}
           ELSE assemblies' = now /\ UNCHANGED <<lastCompleted, completed>>
    /\ packet' = [packet EXCEPT ![t] = StopPacket]
    /\ seen' = [seen EXCEPT ![t] = 0]
    /\ UNCHANGED sourceVars

\* ASSEMBLY_TTL passes since the first packet of the oldest live assembly.
AssemblyExpires ==
    /\ \E i \in DOMAIN assemblies :
        /\ ~assemblies[i].expired
        /\ \A j \in 1..(i - 1) : assemblies[j].expired
        /\ assemblies' = [assemblies EXCEPT ![i].expired = TRUE]
    /\ UNCHANGED <<lastCompleted, phase, packet, seen, sourceVars, completed>>

-----------------------------------------------------------------------------
Next ==
    \/ \E t \in Task :
        \/ OpenStream(t)
        \/ \E p \in Packet : ReceivePacket(t, p)
        \/ ReceiveStop(t)
        \/ \E seq \in 0..MaxSeq : ReceiveMalformed(t, seq)
        \/ Assemble(t)
    \/ \E x \in Task \cup {Loop} : ResetCounter(x) \/ ClearAssemblies(x)
    \/ LoopResets
    \/ AssemblyExpires

Spec == Init /\ [][Next]_vars

-----------------------------------------------------------------------------
(* Properties.                                                             *)

\* Every variable has its type, and the list of assemblies never outgrows
\* MAX_IN_FLIGHT.
TypeOK ==
    /\ lastCompleted \in 0..MaxSeq
    /\ assemblies \in Seq(Assembly) /\ Len(assemblies) <= MaxInFlight
    /\ phase \in [Task \cup {Loop} -> Phase]
    /\ packet \in [Task -> Packet \cup {StopPacket}]
    /\ seen \in [Task -> 0..MaxSeq]
    /\ reliable \subseteq Task
    /\ run \in [Task -> 0..MaxRuns]
    /\ sent \in [Task -> 0..MaxSeq]
    /\ completed \subseteq SUBSET AccessUnit

\* However packets of several sources interleave with resets, there is at
\* most one assembly for a sequence number: no chunk goes to a second one
\* that could never be completed.
OneAssemblyPerFrame ==
    \A i, j \in DOMAIN assemblies :
        assemblies[i].au.seq = assemblies[j].au.seq => i = j

\* When packets carry timing metadata, a frame that is returned is made of the
\* chunks of one access unit, although the sources' sequence numbers overlap.
UnmixedFrames == Timed => \A frame \in completed : Cardinality(frame) = 1

Alone(t) == \A u \in Task \ {t} : run[u] = 0

\* Completing a frame purges every older assembly: with one source, whatever the
\* main loop resets between a call's reading of the counter and its turn at the
\* list, nothing in flight is as old as the frame completed last, so that until
\* the counter is reset frames come out in the order of their numbers.  A late
\* datagram of an older frame does reset it, and that frame may then be returned
\* after the newer one (v4l2_decoder.rs:239, :206, :130).
OnlyNewerInFlight ==
    (\E t \in Task : Alone(t)) =>
        \A i \in DOMAIN assemblies : assemblies[i].au.seq > lastCompleted

\* With one source the counter goes back only by a reset.
CompletedGoesForward ==
    [][(\E t \in Task : Alone(t)) =>
            lastCompleted' >= lastCompleted \/ lastCompleted' = 0]_vars

\* The browser's way of sending: every access unit is returned, also the first
\* of a stream that starts its numbers again, and whenever the main loop resets.
ReliableStreamIsLossless ==
    \A t \in reliable : Alone(t) /\ phase[t] = "idle" =>
        \A n \in 1..sent[t] : {[src |-> t, run |-> run[t], seq |-> n]} \in completed

=============================================================================
