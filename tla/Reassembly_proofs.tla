-------------------------- MODULE Reassembly_proofs --------------------------
(***************************************************************************)
(* Proofs about access-unit reassembly, for any number of media tasks and  *)
(* chunks, any limit on the assemblies in flight, and any streams.         *)
(***************************************************************************)
EXTENDS Reassembly, TLAPS, FiniteSetTheorems, SequenceTheorems

USE ReassemblyAssumption

-----------------------------------------------------------------------------
(* The list of assemblies.                                                 *)

\* Vec::retain keeps elements of the list, in their order, and no more of them
\* than there were.
LEMMA RetainedFacts ==
    ASSUME NEW S, NEW q \in Seq(S), NEW I \in SUBSET DOMAIN q, NEW r \in Retained(q, I)
    PROVE  /\ r \in Seq(S) /\ Len(r) <= Len(q)
           /\ I = {} => r = <<>>
           /\ \E f \in [DOMAIN r -> I] :
                /\ \A m, n \in DOMAIN r : f[m] = f[n] => m = n
                /\ \A n \in DOMAIN r : r[n] = q[f[n]]
<1> DEFINE N == Cardinality(I)
<1>1. IsFiniteSet(DOMAIN q) /\ Cardinality(DOMAIN q) = Len(q)
  <2>1. DOMAIN q = 1..Len(q) /\ Len(q) \in Nat
    OBVIOUS
  <2> QED
    BY <2>1, FS_Interval
<1>2. IsFiniteSet(I) /\ N <= Len(q)
  BY <1>1, FS_Subset
<1>3. N \in Nat /\ (I = {} => N = 0)
  BY <1>2, FS_CardinalityType, FS_EmptySet
<1>4. PICK f \in [1..N -> I] : /\ \A m, n \in 1..N : m < n => f[m] < f[n]
                               /\ r = [n \in 1..N |-> q[f[n]]]
  BY DEF Retained
<1> HIDE DEF N
<1>5. \A n \in 1..N : f[n] \in I /\ f[n] \in DOMAIN q /\ q[f[n]] \in S
  BY <1>4
<1>6. r \in Seq(S) /\ Len(r) = N /\ DOMAIN r = 1..N
  BY <1>3, <1>4, <1>5
<1>7. \A m, n \in 1..N : f[m] = f[n] => m = n
  <2> SUFFICES ASSUME NEW m \in 1..N, NEW n \in 1..N, f[m] = f[n], m # n PROVE FALSE
    OBVIOUS
  <2>1. DOMAIN q \subseteq Nat /\ f[m] \in Nat /\ f[n] \in Nat
    BY <1>5
  <2>2. m < n \/ n < m
    BY <1>3
  <2> QED
    BY <1>4, <2>1, <2>2
<1> QED
  BY <1>2, <1>3, <1>4, <1>6, <1>7 DEF N

\* Keeping nothing leaves nothing.
LEMMA RetainedNone ==
    ASSUME NEW S, NEW q \in Seq(S), NEW r \in Retained(q, {})
    PROVE  r = <<>>
<1>1. PICK I \in SUBSET DOMAIN q : I = {}
  OBVIOUS
<1>2. r \in Retained(q, I)
  BY <1>1
<1> QED
  BY <1>1, <1>2, RetainedFacts

\* A packet is not a stop, and a slot that holds an access unit is not empty.
LEMMA Distinctions ==
    /\ \A p \in Packet : p # StopPacket
    /\ \A a \in AccessUnit : a # NoPayload
<1>1. ASSUME NEW p \in Packet PROVE p # StopPacket
  <2>1. DOMAIN p = {"au", "chunk"} /\ DOMAIN StopPacket = {"stop"}
    BY DEF Packet, StopPacket
  <2> QED
    BY <2>1
<1>2. ASSUME NEW a \in AccessUnit PROVE a # NoPayload
  <2>1. DOMAIN a = {"src", "run", "seq"} /\ DOMAIN NoPayload = {"payload"}
    BY DEF AccessUnit, NoPayload
  <2> QED
    BY <2>1
<1> QED
  BY <1>1, <1>2

LEMMA ChunksOfFacts ==
    ASSUME NEW au \in AccessUnit
    PROVE  ChunksOf(au) \in 1..Chunks /\ 0..(ChunksOf(au) - 1) \subseteq ChunkIndex
                                      /\ 0 \in 0..(ChunksOf(au) - 1)
  BY DEF ChunksOf, ChunkIndex

LEMMA NewAssemblyType ==
    ASSUME NEW p \in Packet PROVE NewAssembly(p) \in Assembly
<1>1. p.au \in AccessUnit /\ p.chunk \in ChunkIndex
  BY DEF Packet
<1> QED
  BY <1>1 DEF NewAssembly, Assembly

\* A chunk that fits fills its slot and nothing else changes.
LEMMA FilledFacts ==
    ASSUME NEW e \in Assembly, NEW p \in Packet
    PROVE  /\ Filled(e, p) \in Assembly
           /\ Filled(e, p).au = e.au
           /\ \A c \in ChunkIndex :
                \/ Filled(e, p).slots[c] = e.slots[c]
                \/ Filled(e, p).slots[c] = p.au /\ SameMetadata(e, p)
<1>1. /\ p.au \in AccessUnit /\ p.chunk \in ChunkIndex
      /\ e.slots \in [ChunkIndex -> AccessUnit \cup {NoPayload}]
  BY DEF Packet, Assembly
<1> DEFINE s == [e.slots EXCEPT ![p.chunk] = p.au]
<1>2. s \in [ChunkIndex -> AccessUnit \cup {NoPayload}]
  BY <1>1
<1>3. \A c \in ChunkIndex : s[c] = e.slots[c] \/ s[c] = p.au
  BY <1>1
<1>4. [e EXCEPT !.slots[p.chunk] = p.au] = [e EXCEPT !.slots = s]
  OBVIOUS
<1> HIDE DEF s
<1>5. /\ [e EXCEPT !.slots = s] \in Assembly
      /\ [e EXCEPT !.slots = s].au = e.au
      /\ [e EXCEPT !.slots = s].slots = s
  BY <1>2 DEF Assembly
<1> QED
  BY <1>3, <1>4, <1>5 DEF Filled

\* The list keeps its type and its limit when a packet comes in.
LEMMA WithPacketType ==
    ASSUME NEW q \in Seq(Assembly), Len(q) <= MaxInFlight, NEW p \in Packet
    PROVE  WithPacket(q, p) \in Seq(Assembly) /\ Len(WithPacket(q, p)) <= MaxInFlight
<1>1. CASE \E i \in DOMAIN q : Matches(q[i], p)
  <2> DEFINE F(i) == IF Matches(q[i], p) THEN Filled(q[i], p) ELSE q[i]
  <2>1. \A i \in 1..Len(q) : F(i) \in Assembly
    BY FilledFacts
  <2>2. DOMAIN q = 1..Len(q) /\ Len(q) \in Nat
    OBVIOUS
  <2>3. WithPacket(q, p) = [i \in 1..Len(q) |-> F(i)]
    BY <1>1, <2>2 DEF WithPacket
  <2> HIDE DEF F
  <2> QED
    BY <2>1, <2>2, <2>3
<1>2. CASE ~\E i \in DOMAIN q : Matches(q[i], p)
  <2>1. WithRoom(q) \in Seq(Assembly) /\ Len(WithRoom(q)) < MaxInFlight
    BY DEF WithRoom
  <2> QED
    BY <1>2, <2>1, NewAssemblyType DEF WithPacket
<1> QED
  BY <1>1, <1>2

\* Every assembly of the list that comes in was there before, under the same
\* access unit, or is the one of the packet, which then had none.
LEMMA WithPacketFacts ==
    ASSUME NEW q \in Seq(Assembly), Len(q) <= MaxInFlight, NEW p \in Packet
    PROVE  LET now == WithPacket(q, p) IN
           \/ /\ DOMAIN now = DOMAIN q
              /\ \A i \in DOMAIN q :
                   now[i] = q[i] \/ (now[i] = Filled(q[i], p) /\ Matches(q[i], p))
           \/ /\ \A i \in DOMAIN q : ~Matches(q[i], p)
              /\ \E d \in {0, 1} : \A i \in DOMAIN now :
                   \/ i + d \in DOMAIN q /\ now[i] = q[i + d]
                   \/ i = Len(now) /\ now[i] = NewAssembly(p)
<1> DEFINE now == WithPacket(q, p)
<1>1. CASE \E i \in DOMAIN q : Matches(q[i], p)
  <2>1. now = [i \in DOMAIN q |-> IF Matches(q[i], p) THEN Filled(q[i], p) ELSE q[i]]
    BY <1>1 DEF WithPacket
  <2> QED
    BY <2>1
<1>2. CASE \A i \in DOMAIN q : ~Matches(q[i], p)
  <2>1. now = Append(WithRoom(q), NewAssembly(p))
    BY <1>2 DEF WithPacket
  <2>2. PICK d \in {0, 1} : /\ WithRoom(q) \in Seq(Assembly)
                            /\ \A i \in DOMAIN WithRoom(q) :
                                 i + d \in DOMAIN q /\ WithRoom(q)[i] = q[i + d]
    <3>1. CASE Len(q) = MaxInFlight
      <4>1. q # <<>> /\ WithRoom(q) = Tail(q)
        BY <3>1 DEF WithRoom
      <4>2. \A i \in DOMAIN Tail(q) : i + 1 \in DOMAIN q /\ Tail(q)[i] = q[i + 1]
        BY <4>1
      <4> QED
        BY <4>1, <4>2
    <3>2. CASE Len(q) # MaxInFlight
      BY <3>2 DEF WithRoom
    <3> QED
      BY <3>1, <3>2
  <2> DEFINE w == WithRoom(q)
             a == NewAssembly(p)
  <2>3. a \in Assembly
    BY NewAssemblyType
  <2>4. w \in Seq(Assembly) /\ now = Append(w, a)
    BY <2>1, <2>2
  <2> HIDE DEF w, a, now
  <2>5. Len(now) = Len(w) + 1 /\ \A i \in DOMAIN now :
            (i \in DOMAIN w /\ now[i] = w[i]) \/ (i = Len(now) /\ now[i] = a)
    BY <2>3, <2>4
  <2> QED
    BY <1>2, <2>2, <2>5 DEF w, a, now
<1> QED
  BY <1>1, <1>2

-----------------------------------------------------------------------------
(* Type correctness.                                                       *)

\* What one call of process_udp_chunk does to the list, in the terms the
\* invariants need: what is kept of it, what it is with the packet, and what it
\* is when the packet has completed a frame.
LEMMA AssembleFacts ==
    ASSUME TypeOK, NEW t \in Task, Assemble(t), packet[t] \in Packet
    PROVE  \E kept \in Live(assemblies, seen[t]) :
              LET p == packet[t]
                  now == WithPacket(kept, p) IN
              /\ kept \in Seq(Assembly) /\ Len(kept) <= MaxInFlight
              /\ now \in Seq(Assembly) /\ Len(now) <= MaxInFlight
              /\ assemblies' \in Seq(Assembly) /\ Len(assemblies') <= MaxInFlight
              /\ \/ /\ Done(now, p) # {}
                    /\ lastCompleted' = p.au.seq
                    /\ assemblies' \in Newer(now, p.au.seq)
                    /\ completed' = completed \cup {Slots(now[i]) : i \in Done(now, p)}
                 \/ /\ Done(now, p) = {}
                    /\ assemblies' = now /\ UNCHANGED <<lastCompleted, completed>>
<1> DEFINE p == packet[t]
<1>1. PICK kept \in Live(assemblies, seen[t]) :
         \/ /\ Done(WithPacket(kept, p), p) # {}
            /\ lastCompleted' = p.au.seq
            /\ assemblies' \in Newer(WithPacket(kept, p), p.au.seq)
            /\ completed' = completed \cup
                 {Slots(WithPacket(kept, p)[i]) : i \in Done(WithPacket(kept, p), p)}
         \/ /\ Done(WithPacket(kept, p), p) = {}
            /\ assemblies' = WithPacket(kept, p) /\ UNCHANGED <<lastCompleted, completed>>
  BY DEF Assemble
<1>2. assemblies \in Seq(Assembly) /\ Len(assemblies) <= MaxInFlight
  BY DEF TypeOK
<1>3. kept \in Seq(Assembly) /\ Len(kept) <= MaxInFlight
  <2> DEFINE I == {i \in DOMAIN assemblies : ~assemblies[i].expired
                                             /\ assemblies[i].au.seq > seen[t]}
  <2>1. I \in SUBSET DOMAIN assemblies /\ kept \in Retained(assemblies, I)
    BY <1>1 DEF Live
  <2> HIDE DEF I
  <2>2. kept \in Seq(Assembly) /\ Len(kept) <= Len(assemblies)
    BY <1>2, <2>1, RetainedFacts
  <2> QED
    BY <1>2, <2>2
<1> DEFINE now == WithPacket(kept, p)
<1>4. now \in Seq(Assembly) /\ Len(now) <= MaxInFlight
  BY <1>3, WithPacketType
<1>5. ASSUME assemblies' \in Newer(now, p.au.seq)
      PROVE  assemblies' \in Seq(Assembly) /\ Len(assemblies') <= MaxInFlight
  <2> HIDE DEF now
  <2> DEFINE I == {i \in DOMAIN now : now[i].au.seq > p.au.seq}
  <2>1. I \in SUBSET DOMAIN now /\ assemblies' \in Retained(now, I)
    BY <1>5 DEF Newer
  <2> HIDE DEF I
  <2>2. assemblies' \in Seq(Assembly) /\ Len(assemblies') <= Len(now)
    BY <1>4, <2>1, RetainedFacts
  <2> QED
    BY <1>4, <2>2
<1> QED
  BY <1>1, <1>3, <1>4, <1>5

\* The frame that is returned is cut from access units, and its chunks are all
\* there.
LEMMA SlotsFacts ==
    ASSUME NEW e \in Assembly, Full(e)
    PROVE  Slots(e) \subseteq AccessUnit
<1>1. e.au \in AccessUnit /\ e.slots \in [ChunkIndex -> AccessUnit \cup {NoPayload}]
  BY DEF Assembly
<1> QED
  BY <1>1, ChunksOfFacts DEF Full, Slots

\* A source that sends another stream has not sent MaxRuns of them.
LEMMA StreamsBound ==
    ASSUME TypeOK, NEW t \in Task, OpenStream(t)
    PROVE  run[t] < MaxRuns
<1> SUFFICES ASSUME run[t] = MaxRuns PROVE FALSE
  BY DEF TypeOK
<1>1. IsFiniteSet(Task \X (1..MaxRuns)) /\ IsFiniteSet({t})
  <2>1. IsFiniteSet(1..MaxRuns)
    BY FS_Interval
  <2> QED
    BY <2>1, FS_Product, FS_Singleton
<1>2. Streams \subseteq Task \X (1..MaxRuns)
  BY DEF Streams
<1>3. IsFiniteSet(Streams)
  BY <1>1, <1>2, FS_Subset
<1>4. {t} \X (1..MaxRuns) \in SUBSET Streams
  BY DEF Streams, TypeOK
<1>5. Cardinality({t} \X (1..MaxRuns)) <= Cardinality(Streams)
  BY <1>3, <1>4, FS_Subset
<1>6. Cardinality({t} \X (1..MaxRuns)) = 1 * MaxRuns
  <2>1. IsFiniteSet(1..MaxRuns) /\ Cardinality(1..MaxRuns) = MaxRuns
    BY FS_Interval
  <2>2. Cardinality({t}) = 1
    BY FS_Singleton
  <2> QED
    BY <1>1, <2>1, <2>2, FS_Product
<1>7. Cardinality(Streams) \in Nat
  BY <1>3, FS_CardinalityType
<1> QED
  BY <1>5, <1>6, <1>7 DEF OpenStream

\* A task that assembles does so about a packet.
PacketHeld == \A t \in Task : phase[t] = "assemble" => packet[t] \in Packet

LEMMA InitTypes == Init => TypeOK /\ PacketHeld
  BY DEF Init, TypeOK, PacketHeld, Phase

LEMMA PacketHeldKept == TypeOK /\ PacketHeld /\ [Next]_vars => PacketHeld'
<1> SUFFICES ASSUME TypeOK, PacketHeld, [Next]_vars PROVE PacketHeld'
  OBVIOUS
<1> USE DEF TypeOK, PacketHeld, sourceVars
<1>1. ASSUME NEW t \in Task, OpenStream(t) PROVE PacketHeld'
  BY <1>1 DEF OpenStream
<1>2. ASSUME NEW t \in Task, NEW p \in Packet, ReceivePacket(t, p) PROVE PacketHeld'
  BY <1>2 DEF ReceivePacket
<1>3. ASSUME NEW t \in Task, ResetsOnly(t) PROVE PacketHeld'
  BY <1>3 DEF ResetsOnly
<1>4. ASSUME NEW t \in Task, Assemble(t) PROVE PacketHeld'
  <2>1. /\ phase' = [phase EXCEPT ![t] = "idle"]
        /\ packet' = [packet EXCEPT ![t] = StopPacket]
    BY <1>4 DEF Assemble
  <2> QED
    BY <2>1
<1>5. ASSUME NEW x \in Task \cup {Loop}, ResetCounter(x) PROVE PacketHeld'
  BY <1>5 DEF ResetCounter
<1>6. ASSUME NEW x \in Task \cup {Loop}, ClearAssemblies(x) PROVE PacketHeld'
  BY <1>6 DEF ClearAssemblies
<1>7. CASE LoopResets
  BY <1>7 DEF LoopResets
<1>8. CASE AssemblyExpires
  BY <1>8 DEF AssemblyExpires
<1>9. CASE UNCHANGED vars
  BY <1>9 DEF vars
<1> QED
  BY <1>1, <1>2, <1>3, <1>4, <1>5, <1>6, <1>7, <1>8, <1>9
     DEF Next, ReceiveStop, ReceiveMalformed

LEMMA NextTypes == TypeOK /\ PacketHeld /\ [Next]_vars => TypeOK'
<1> SUFFICES ASSUME TypeOK, PacketHeld, [Next]_vars PROVE TypeOK'
  OBVIOUS
<1> USE DEF sourceVars
<1>1. ASSUME NEW t \in Task, OpenStream(t) PROVE TypeOK'
  <2>1. run[t] < MaxRuns
    BY <1>1, StreamsBound
  <2>2. run' \in [Task -> 0..MaxRuns] /\ sent' \in [Task -> 0..MaxSeq]
    BY <1>1, <2>1 DEF OpenStream, TypeOK
  <2> QED
    BY <1>1, <2>2 DEF OpenStream, TypeOK
<1>2. ASSUME NEW t \in Task, NEW p \in Packet, ReceivePacket(t, p) PROVE TypeOK'
  <2>1. t \in reliable => sent[t] + 1 \in 0..MaxSeq
    BY <1>2 DEF ReceivePacket, Arrives, Packet, AccessUnit, TypeOK
  <2>2. sent' \in [Task -> 0..MaxSeq]
    BY <1>2, <2>1 DEF ReceivePacket, TypeOK
  <2>3. /\ phase' \in [Task \cup {Loop} -> Phase]
        /\ packet' \in [Task -> Packet \cup {StopPacket}]
        /\ seen' \in [Task -> 0..MaxSeq]
    BY <1>2 DEF ReceivePacket, TypeOK, Phase
  <2> QED
    BY <1>2, <2>2, <2>3 DEF ReceivePacket, TypeOK
<1>3. ASSUME NEW t \in Task, ResetsOnly(t) PROVE TypeOK'
  BY <1>3 DEF ResetsOnly, TypeOK, Phase
<1>4. ASSUME NEW t \in Task, Assemble(t) PROVE TypeOK'
  <2>1. packet[t] \in Packet
    BY <1>4 DEF Assemble, PacketHeld
  <2>2. packet[t].au.seq \in 0..MaxSeq
    BY <2>1 DEF Packet, AccessUnit
  <2>3. PICK kept \in Live(assemblies, seen[t]) :
          LET now == WithPacket(kept, packet[t]) IN
          /\ now \in Seq(Assembly)
          /\ \/ /\ lastCompleted' = packet[t].au.seq
                /\ completed' = completed \cup
                      {Slots(now[i]) : i \in Done(now, packet[t])}
             \/ UNCHANGED <<lastCompleted, completed>>
    BY <1>4, <2>1, AssembleFacts
  <2>4. assemblies' \in Seq(Assembly) /\ Len(assemblies') <= MaxInFlight
    BY <1>4, <2>1, AssembleFacts
  <2>5. \A i \in Done(WithPacket(kept, packet[t]), packet[t]) :
          Slots(WithPacket(kept, packet[t])[i]) \subseteq AccessUnit
    BY <2>3, SlotsFacts DEF Done
  <2>6. completed' \subseteq SUBSET AccessUnit /\ lastCompleted' \in 0..MaxSeq
    <3> DEFINE D == Done(WithPacket(kept, packet[t]), packet[t])
               frame(i) == Slots(WithPacket(kept, packet[t])[i])
    <3>1. \/ completed' = completed \cup {frame(i) : i \in D}
          \/ completed' = completed
      BY <2>3
    <3>2. {frame(i) : i \in D} \subseteq SUBSET AccessUnit
      BY <2>5
    <3>3. completed \subseteq SUBSET AccessUnit
      BY DEF TypeOK
    <3>4. completed' \subseteq SUBSET AccessUnit
      <4> HIDE DEF D, frame
      <4> QED
        BY <3>1, <3>2, <3>3
    <3> QED
      BY <2>2, <2>3, <3>4 DEF TypeOK
  <2>7. /\ phase' \in [Task \cup {Loop} -> Phase]
        /\ packet' \in [Task -> Packet \cup {StopPacket}]
        /\ seen' \in [Task -> 0..MaxSeq]
        /\ UNCHANGED <<reliable, run, sent>>
    BY <1>4 DEF Assemble, TypeOK, Phase, sourceVars
  <2> QED
    BY <2>4, <2>6, <2>7 DEF TypeOK
<1>5. ASSUME NEW x \in Task \cup {Loop}, ResetCounter(x) PROVE TypeOK'
  BY <1>5 DEF ResetCounter, TypeOK, Phase
<1>6. ASSUME NEW x \in Task \cup {Loop}, ClearAssemblies(x) PROVE TypeOK'
  BY <1>6 DEF ClearAssemblies, TypeOK, Phase
<1>7. CASE LoopResets
  BY <1>7 DEF LoopResets, TypeOK, Phase
<1>8. CASE AssemblyExpires
  <2>1. PICK i \in DOMAIN assemblies : assemblies' = [assemblies EXCEPT ![i].expired = TRUE]
    BY <1>8 DEF AssemblyExpires
  <2>2. assemblies \in Seq(Assembly) /\ assemblies[i] \in Assembly
    BY DEF TypeOK
  <2>3. [assemblies[i] EXCEPT !.expired = TRUE] \in Assembly
    BY <2>2 DEF Assembly
  <2>4. assemblies' \in Seq(Assembly) /\ Len(assemblies') = Len(assemblies)
    BY <2>1, <2>2, <2>3
  <2> QED
    BY <1>8, <2>4 DEF AssemblyExpires, TypeOK
<1>9. CASE UNCHANGED vars
  BY <1>9 DEF vars, TypeOK
<1> QED
  BY <1>1, <1>2, <1>3, <1>4, <1>5, <1>6, <1>7, <1>8, <1>9
     DEF Next, ReceiveStop, ReceiveMalformed

LEMMA TypesInductive == Spec => [](TypeOK /\ PacketHeld)
  BY InitTypes, NextTypes, PacketHeldKept, PTL DEF Spec

\* Every variable keeps its type, and the list of assemblies never outgrows
\* MAX_IN_FLIGHT (src/v4l2_decoder.rs, process_udp_chunk), whoever sends.
THEOREM ReassemblyTypeCorrect == Spec => []TypeOK
  BY TypesInductive, PTL

-----------------------------------------------------------------------------
(* Frames: one assembly for a number, and nothing else in it.              *)

Distinct(q) == \A i, j \in DOMAIN q : q[i].au.seq = q[j].au.seq => i = j

\* Every chunk an assembly holds was cut from the access unit it is for.
Pure(e) == \A c \in ChunkIndex : e.slots[c] \in {e.au, NoPayload}

FrameInv ==
    /\ OneAssemblyPerFrame
    /\ Timed => \A i \in DOMAIN assemblies : Pure(assemblies[i])
    /\ UnmixedFrames

\* What is kept of a list has no number twice, and only elements of it.
LEMMA RetainedKeeps ==
    ASSUME NEW q \in Seq(Assembly), NEW I \in SUBSET DOMAIN q, NEW r \in Retained(q, I)
    PROVE  /\ Distinct(q) => Distinct(r)
           /\ \A n \in DOMAIN r : \E i \in I : r[n] = q[i]
<1>1. PICK f \in [DOMAIN r -> I] : /\ \A m, n \in DOMAIN r : f[m] = f[n] => m = n
                                   /\ \A n \in DOMAIN r : r[n] = q[f[n]]
  BY RetainedFacts
<1>2. \A n \in DOMAIN r : f[n] \in I /\ f[n] \in DOMAIN q
  BY <1>1
<1>3. ASSUME Distinct(q), NEW m \in DOMAIN r, NEW n \in DOMAIN r, r[m].au.seq = r[n].au.seq
      PROVE  m = n
  <2>1. q[f[m]].au.seq = q[f[n]].au.seq
    BY <1>1, <1>3
  <2>2. f[m] = f[n]
    BY <1>2, <1>3, <2>1 DEF Distinct
  <2> QED
    BY <1>1, <2>2
<1> QED
  BY <1>1, <1>2, <1>3 DEF Distinct

\* The same of the two uses of Vec::retain in process_udp_chunk.
LEMMA LiveKeeps ==
    ASSUME NEW q \in Seq(Assembly), NEW n, NEW r \in Live(q, n)
    PROVE  /\ Distinct(q) => Distinct(r)
           /\ \A k \in DOMAIN r : \E i \in DOMAIN q : r[k] = q[i]
<1> DEFINE I == {i \in DOMAIN q : ~q[i].expired /\ q[i].au.seq > n}
<1>1. I \in SUBSET DOMAIN q /\ r \in Retained(q, I)
  BY DEF Live
<1> HIDE DEF I
<1> QED
  BY <1>1, RetainedKeeps

LEMMA NewerKeeps ==
    ASSUME NEW q \in Seq(Assembly), NEW n, NEW r \in Newer(q, n)
    PROVE  /\ Distinct(q) => Distinct(r)
           /\ \A k \in DOMAIN r : \E i \in DOMAIN q : r[k] = q[i] /\ q[i].au.seq > n
<1> DEFINE I == {i \in DOMAIN q : q[i].au.seq > n}
<1>1. I \in SUBSET DOMAIN q /\ r \in Retained(q, I)
  BY DEF Newer
<1>2. \A i \in I : q[i].au.seq > n
  OBVIOUS
<1> HIDE DEF I
<1> QED
  BY <1>1, <1>2, RetainedKeeps

\* A packet never brings in a second assembly for its number, nor a chunk of
\* another access unit when packets carry timing metadata.
LEMMA WithPacketKeeps ==
    ASSUME NEW q \in Seq(Assembly), Len(q) <= MaxInFlight, NEW p \in Packet
    PROVE  /\ Distinct(q) => Distinct(WithPacket(q, p))
           /\ Timed /\ (\A i \in DOMAIN q : Pure(q[i])) =>
                \A i \in DOMAIN WithPacket(q, p) : Pure(WithPacket(q, p)[i])
<1> DEFINE now == WithPacket(q, p)
<1>1. \A i \in DOMAIN q : /\ Filled(q[i], p).au = q[i].au
                          /\ Timed /\ Pure(q[i]) => Pure(Filled(q[i], p))
  <2> SUFFICES ASSUME NEW i \in DOMAIN q
               PROVE  /\ Filled(q[i], p).au = q[i].au
                      /\ Timed /\ Pure(q[i]) => Pure(Filled(q[i], p))
    OBVIOUS
  <2>1. q[i] \in Assembly
    OBVIOUS
  <2> QED
    BY <2>1, FilledFacts DEF Pure, SameMetadata
<1>2. NewAssembly(p).au = p.au /\ Pure(NewAssembly(p))
  BY DEF NewAssembly, Pure
<1>3. CASE /\ DOMAIN now = DOMAIN q
           /\ \A i \in DOMAIN q :
                now[i] = q[i] \/ (now[i] = Filled(q[i], p) /\ Matches(q[i], p))
  BY <1>1, <1>3 DEF Distinct
<1>4. CASE /\ \A i \in DOMAIN q : ~Matches(q[i], p)
           /\ \E d \in {0, 1} : \A i \in DOMAIN now :
                \/ i + d \in DOMAIN q /\ now[i] = q[i + d]
                \/ i = Len(now) /\ now[i] = NewAssembly(p)
  <2>1. PICK d \in {0, 1} : \A i \in DOMAIN now :
          \/ i + d \in DOMAIN q /\ now[i] = q[i + d]
          \/ i = Len(now) /\ now[i] = NewAssembly(p)
    BY <1>4
  <2>2. DOMAIN now \subseteq Nat
    BY WithPacketType
  <2>3. \A i \in DOMAIN q : q[i].au.seq # p.au.seq
    BY <1>4 DEF Matches
  <2> HIDE DEF now
  <2>4. ASSUME Distinct(q), NEW i \in DOMAIN now, NEW j \in DOMAIN now,
               now[i].au.seq = now[j].au.seq
        PROVE  i = j
    <3>1. CASE i + d \in DOMAIN q /\ now[i] = q[i + d] /\ j + d \in DOMAIN q /\ now[j] = q[j + d]
      BY <2>2, <2>4, <3>1 DEF Distinct
    <3> QED
      BY <1>2, <2>1, <2>3, <2>4, <3>1
  <2>5. (\A i \in DOMAIN q : Pure(q[i])) => \A i \in DOMAIN now : Pure(now[i])
    BY <1>2, <2>1
  <2> QED
    BY <2>4, <2>5 DEF Distinct, now
<1> QED
  BY <1>3, <1>4, WithPacketFacts

\* A frame that has all its chunks, all of its own access unit, is that unit.
LEMMA PureFrame ==
    ASSUME NEW e \in Assembly, Pure(e), Full(e)
    PROVE  Cardinality(Slots(e)) = 1
<1>1. e.au \in AccessUnit
  BY DEF Assembly
<1>2. Slots(e) = {e.au}
  BY <1>1, ChunksOfFacts DEF Slots, Full, Pure
<1> QED
  BY <1>2, FS_Singleton

LEMMA FramesAssembled ==
    ASSUME TypeOK, PacketHeld, FrameInv, NEW t \in Task, Assemble(t)
    PROVE  FrameInv'
<1> DEFINE p == packet[t]
<1>1. p \in Packet
  BY DEF Assemble, PacketHeld
<1>2. PICK kept \in Live(assemblies, seen[t]) :
        /\ kept \in Seq(Assembly) /\ Len(kept) <= MaxInFlight
        /\ WithPacket(kept, p) \in Seq(Assembly)
        /\ \/ /\ assemblies' \in Newer(WithPacket(kept, p), p.au.seq)
              /\ completed' = completed \cup
                   {Slots(WithPacket(kept, p)[i]) : i \in Done(WithPacket(kept, p), p)}
           \/ assemblies' = WithPacket(kept, p) /\ UNCHANGED completed
  BY <1>1, AssembleFacts
<1> DEFINE now == WithPacket(kept, p)
<1>3. assemblies \in Seq(Assembly) /\ Distinct(assemblies)
  BY DEF TypeOK, FrameInv, OneAssemblyPerFrame, Distinct
<1>4. Distinct(kept) /\ (Timed => \A i \in DOMAIN kept : Pure(kept[i]))
  <2>1. Distinct(kept) /\ \A k \in DOMAIN kept : \E i \in DOMAIN assemblies : kept[k] = assemblies[i]
    BY <1>2, <1>3, LiveKeeps
  <2> QED
    BY <2>1 DEF FrameInv
<1>5. Distinct(now) /\ (Timed => \A i \in DOMAIN now : Pure(now[i]))
  BY <1>1, <1>2, <1>4, WithPacketKeeps
<1>6. Timed => \A i \in Done(now, p) : Cardinality(Slots(now[i])) = 1
  BY <1>2, <1>5, PureFrame DEF Done
<1>7. UnmixedFrames'
  BY <1>2, <1>6 DEF FrameInv, UnmixedFrames
<1>8. Distinct(assemblies') /\ (Timed => \A i \in DOMAIN assemblies' : Pure(assemblies'[i]))
  <2>1. CASE assemblies' = now
    BY <1>5, <2>1
  <2>2. CASE assemblies' \in Newer(now, p.au.seq)
    <3>1. /\ Distinct(assemblies')
          /\ \A k \in DOMAIN assemblies' : \E i \in DOMAIN now : assemblies'[k] = now[i]
      BY <1>2, <1>5, <2>2, NewerKeeps
    <3> QED
      BY <1>5, <3>1
  <2> QED
    BY <1>2, <2>1, <2>2
<1> QED
  BY <1>7, <1>8 DEF FrameInv, OneAssemblyPerFrame, Distinct

LEMMA FramesKept == TypeOK /\ PacketHeld /\ FrameInv /\ [Next]_vars => FrameInv'
<1> SUFFICES ASSUME TypeOK, PacketHeld, FrameInv, [Next]_vars PROVE FrameInv'
  OBVIOUS
<1>1. CASE UNCHANGED <<assemblies, completed>>
  BY <1>1 DEF FrameInv, OneAssemblyPerFrame, UnmixedFrames
<1>2. CASE assemblies' = <<>> /\ UNCHANGED completed
  BY <1>2 DEF FrameInv, OneAssemblyPerFrame, UnmixedFrames
<1>3. ASSUME NEW t \in Task, Assemble(t) PROVE FrameInv'
  BY <1>3, FramesAssembled
<1>4. CASE AssemblyExpires
  <2>1. PICK i \in DOMAIN assemblies : assemblies' = [assemblies EXCEPT ![i].expired = TRUE]
    BY <1>4 DEF AssemblyExpires
  <2>2. assemblies \in Seq(Assembly) /\ assemblies[i] \in Assembly
    BY DEF TypeOK
  <2>3. LET e == [assemblies[i] EXCEPT !.expired = TRUE] IN
        e.au = assemblies[i].au /\ e.slots = assemblies[i].slots
    BY <2>2 DEF Assembly
  <2>4. /\ DOMAIN assemblies' = DOMAIN assemblies
        /\ \A j \in DOMAIN assemblies : /\ assemblies'[j].au = assemblies[j].au
                                        /\ assemblies'[j].slots = assemblies[j].slots
    BY <2>1, <2>2, <2>3
  <2>5. UNCHANGED completed
    BY <1>4 DEF AssemblyExpires
  <2> QED
    BY <2>4, <2>5 DEF FrameInv, OneAssemblyPerFrame, UnmixedFrames, Pure
<1> QED
  BY <1>1, <1>2, <1>3, <1>4
     DEF Next, OpenStream, ReceivePacket, ReceiveStop, ReceiveMalformed, ResetsOnly,
         ResetCounter, ClearAssemblies,
         LoopResets, vars

LEMMA FramesInit == Init => FrameInv
  BY DEF Init, FrameInv, OneAssemblyPerFrame, UnmixedFrames

LEMMA FramesInductive == Spec => []FrameInv
  BY FramesInit, FramesKept, TypesInductive, PTL DEF Spec

\* However the packets of any number of tasks interleave with each other and with
\* resets, process_udp_chunk (src/v4l2_decoder.rs) keeps one assembly at most for
\* a sequence number.
THEOREM AssembliesAreDistinct == Spec => []OneAssemblyPerFrame
<1>1. FrameInv => OneAssemblyPerFrame
  BY DEF FrameInv
<1> QED
  BY <1>1, FramesInductive, PTL

\* With timing metadata a frame that process_udp_chunk returns holds the chunks
\* of one access unit only, for any overlap of the sources' numbers.
THEOREM FramesUnmixed == Spec => []UnmixedFrames
<1>1. FrameInv => UnmixedFrames
  BY DEF FrameInv
<1> QED
  BY <1>1, FramesInductive, PTL

-----------------------------------------------------------------------------
(* One source: the counter and the frames in flight.                       *)

\* A task whose call is not over reads a stream.
CallsHaveStreams == \A t \in Task : phase[t] # "idle" => run[t] > 0

\* What the counter is to the one source's list and to the call it is in.
SourceInv ==
    \A t \in Task : Alone(t) =>
        /\ \A i \in DOMAIN assemblies : assemblies[i].au.seq > lastCompleted
        /\ phase[t] = "clear" => lastCompleted = 0
        /\ phase[t] = "assemble" => packet[t].au.seq > lastCompleted

\* The call is about a packet of the reliable stream, not a stop.
Reading(t) == phase[t] # "idle" /\ packet[t] # StopPacket

Returned(t, n) == {[src |-> t, run |-> run[t], seq |-> n]} \in completed

\* Where a reliable source that is alone stands: it leaves nothing in flight,
\* the counter is at the unit it has sent last, or was reset, and all but the
\* unit it is sending have been returned.
LosslessInv ==
    \A t \in reliable : Alone(t) =>
        /\ assemblies = <<>>
        /\ Reading(t) =>
             /\ sent[t] > 0
             /\ packet[t] = [au |-> [src |-> t, run |-> run[t], seq |-> sent[t]],
                             chunk |-> 0]
             /\ \A n \in 1..(sent[t] - 1) : Returned(t, n)
        /\ ~Reading(t) =>
             /\ sent[t] > 0 => lastCompleted \in {0, sent[t]}
             /\ \A n \in 1..sent[t] : Returned(t, n)

\* A stream is never unsent: a source that is alone was so before, and only its
\* own stream may be new.
LEMMA AloneBefore ==
    ASSUME TypeOK, [Next]_vars, NEW t \in Task, Alone(t)'
    PROVE  /\ Alone(t)
           /\ UNCHANGED run \/ OpenStream(t)
<1>1. ASSUME NEW u \in Task, OpenStream(u) PROVE Alone(t) /\ u = t
  <2>1. run \in [Task -> Nat] /\ run' = [run EXCEPT ![u] = @ + 1]
    BY <1>1 DEF OpenStream, TypeOK
  <2>2. u = t
    BY <2>1 DEF Alone
  <2> QED
    BY <2>1, <2>2 DEF Alone
<1>2. CASE UNCHANGED run
  BY <1>2 DEF Alone
<1> QED
  BY <1>1, <1>2
     DEF Next, ReceivePacket, ReceiveStop, ReceiveMalformed, ResetsOnly,
         Assemble, ResetCounter, ClearAssemblies,
         LoopResets, AssemblyExpires, sourceVars, vars

LEMMA CallsKept == TypeOK /\ CallsHaveStreams /\ [Next]_vars => CallsHaveStreams'
<1> SUFFICES ASSUME TypeOK, CallsHaveStreams, [Next]_vars PROVE CallsHaveStreams'
  OBVIOUS
<1> USE DEF CallsHaveStreams, TypeOK, sourceVars
<1>1. ASSUME NEW t \in Task, OpenStream(t) PROVE CallsHaveStreams'
  BY <1>1 DEF OpenStream
<1>2. ASSUME NEW t \in Task, NEW p \in Packet, ReceivePacket(t, p) PROVE CallsHaveStreams'
  <2>1. run[t] > 0
    BY <1>2 DEF ReceivePacket, Arrives, Packet, AccessUnit
  <2>2. /\ UNCHANGED run
        /\ \A u \in Task \ {t} : phase'[u] = phase[u]
    BY <1>2 DEF ReceivePacket
  <2> QED
    BY <2>1, <2>2
<1>3. ASSUME NEW t \in Task, ResetsOnly(t) PROVE CallsHaveStreams'
  BY <1>3 DEF ResetsOnly
<1>4. ASSUME NEW t \in Task, Assemble(t) PROVE CallsHaveStreams'
  <2>1. phase' = [phase EXCEPT ![t] = "idle"] /\ UNCHANGED run
    BY <1>4 DEF Assemble
  <2> QED
    BY <2>1
<1>5. ASSUME NEW x \in Task \cup {Loop}, ResetCounter(x) PROVE CallsHaveStreams'
  BY <1>5 DEF ResetCounter
<1>6. ASSUME NEW x \in Task \cup {Loop}, ClearAssemblies(x) PROVE CallsHaveStreams'
  BY <1>6 DEF ClearAssemblies
<1>7. CASE LoopResets
  BY <1>7 DEF LoopResets
<1>8. CASE AssemblyExpires
  BY <1>8 DEF AssemblyExpires
<1>9. CASE UNCHANGED vars
  BY <1>9 DEF vars
<1> QED
  BY <1>1, <1>2, <1>3, <1>4, <1>5, <1>6, <1>7, <1>8, <1>9
     DEF Next, ReceiveStop, ReceiveMalformed

\* What the list holds beyond a number, it held before or is the packet's.
LEMMA AssembledNewer ==
    ASSUME TypeOK, PacketHeld, NEW t \in Task, Assemble(t),
           \A i \in DOMAIN assemblies : assemblies[i].au.seq > lastCompleted,
           packet[t].au.seq > lastCompleted
    PROVE  /\ \A i \in DOMAIN assemblies' : assemblies'[i].au.seq > lastCompleted'
           /\ lastCompleted' >= lastCompleted
<1> DEFINE p == packet[t]
<1>1. p \in Packet
  BY DEF Assemble, PacketHeld
<1>2. p.au.seq \in Nat /\ lastCompleted \in Nat
  BY <1>1 DEF Packet, AccessUnit, TypeOK
<1>3. PICK kept \in Live(assemblies, seen[t]) :
        /\ kept \in Seq(Assembly) /\ Len(kept) <= MaxInFlight
        /\ WithPacket(kept, p) \in Seq(Assembly)
        /\ \/ lastCompleted' = p.au.seq /\ assemblies' \in Newer(WithPacket(kept, p), p.au.seq)
           \/ assemblies' = WithPacket(kept, p) /\ UNCHANGED lastCompleted
  BY <1>1, AssembleFacts
<1>4. \A i \in DOMAIN kept : kept[i].au.seq > lastCompleted
  BY <1>3, LiveKeeps DEF TypeOK
<1> DEFINE now == WithPacket(kept, p)
<1>5. \A i \in DOMAIN now : now[i].au.seq > lastCompleted
  <2>1. \A i \in DOMAIN kept : Filled(kept[i], p).au = kept[i].au
    <3>1. \A i \in DOMAIN kept : kept[i] \in Assembly
      BY <1>3
    <3> QED
      BY <1>1, <3>1, FilledFacts
  <2>2. NewAssembly(p).au = p.au
    BY DEF NewAssembly
  <2>3. \A i \in DOMAIN now : \/ \E j \in DOMAIN kept : now[i].au = kept[j].au
                              \/ now[i].au = p.au
    BY <1>1, <1>3, <2>1, <2>2, WithPacketFacts
  <2> QED
    BY <1>4, <2>3
<1>6. CASE assemblies' = now /\ UNCHANGED lastCompleted
  BY <1>2, <1>5, <1>6
<1>7. CASE lastCompleted' = p.au.seq /\ assemblies' \in Newer(now, p.au.seq)
  <2>1. \A k \in DOMAIN assemblies' : \E i \in DOMAIN now :
           assemblies'[k] = now[i] /\ now[i].au.seq > p.au.seq
    BY <1>3, <1>7, NewerKeeps
  <2> QED
    BY <1>2, <1>7, <2>1
<1> QED
  BY <1>3, <1>6, <1>7

\* With one source the invariant of the counter is kept, and the counter goes
\* back only to zero.
LEMMA SourceStep ==
    ASSUME TypeOK, PacketHeld, CallsHaveStreams, SourceInv, [Next]_vars,
           NEW t \in Task, Alone(t)'
    PROVE  /\ \A i \in DOMAIN assemblies' : assemblies'[i].au.seq > lastCompleted'
           /\ phase'[t] = "clear" => lastCompleted' = 0
           /\ phase'[t] = "assemble" => packet'[t].au.seq > lastCompleted'
           /\ lastCompleted' >= lastCompleted \/ lastCompleted' = 0
<1> DEFINE Goal == /\ \A i \in DOMAIN assemblies' : assemblies'[i].au.seq > lastCompleted'
                   /\ phase'[t] = "clear" => lastCompleted' = 0
                   /\ phase'[t] = "assemble" => packet'[t].au.seq > lastCompleted'
                   /\ lastCompleted' >= lastCompleted \/ lastCompleted' = 0
<1>1. /\ Alone(t)
      /\ \A i \in DOMAIN assemblies : assemblies[i].au.seq > lastCompleted
      /\ phase[t] = "clear" => lastCompleted = 0
      /\ phase[t] = "assemble" => packet[t].au.seq > lastCompleted
  BY AloneBefore DEF SourceInv
<1>2. /\ lastCompleted \in Nat /\ phase \in [Task \cup {Loop} -> Phase] /\ Loop # t
      /\ packet \in [Task -> Packet \cup {StopPacket}]
  BY DEF TypeOK
<1>3. \A i \in DOMAIN assemblies : assemblies[i].au.seq \in Nat \ {0}
  <2>1. \A i \in DOMAIN assemblies : assemblies[i] \in Assembly
    BY DEF TypeOK
  <2>2. \A e \in Assembly : e.au.seq \in Nat \ {0}
    BY DEF Assembly, AccessUnit
  <2> QED
    BY <2>1, <2>2
<1>4. \A p \in Packet : p.au.seq \in Nat \ {0}
  BY DEF Packet, AccessUnit
<1>5. ASSUME NEW u \in Task, OpenStream(u) PROVE Goal
  BY <1>1, <1>2, <1>5 DEF OpenStream
<1>6. ASSUME NEW u \in Task, NEW p \in Packet, ReceivePacket(u, p) PROVE Goal
  <2>1. UNCHANGED <<lastCompleted, assemblies>>
    BY <1>6 DEF ReceivePacket
  <2>2. CASE u = t
    <3>1. packet'[t] = p /\ (phase'[t] = "assemble" => ~Stale(p.au.seq, lastCompleted))
                         /\ phase'[t] # "clear"
      BY <1>2, <1>6, <2>2 DEF ReceivePacket
    <3>2. ~Stale(p.au.seq, lastCompleted) => p.au.seq > lastCompleted
      BY <1>2, <1>4 DEF Stale
    <3> QED
      BY <1>1, <1>2, <2>1, <3>1, <3>2
  <2>3. CASE u # t
    <3>1. phase'[t] = phase[t] /\ packet'[t] = packet[t]
      BY <1>2, <1>6, <2>3 DEF ReceivePacket
    <3> QED
      BY <1>1, <1>2, <2>1, <3>1
  <2> QED
    BY <2>2, <2>3
<1>7. ASSUME NEW u \in Task, ResetsOnly(u) PROVE Goal
  <2>1. /\ UNCHANGED <<lastCompleted, assemblies>>
        /\ \/ phase'[t] = phase[t] /\ packet'[t] = packet[t]
           \/ phase'[t] = "reset"
    BY <1>2, <1>7 DEF ResetsOnly
  <2> QED
    BY <1>1, <1>2, <2>1
<1>8. ASSUME NEW u \in Task, Assemble(u) PROVE Goal
  <2>1. u = t
    BY <1>1, <1>8 DEF Assemble, CallsHaveStreams, Alone
  <2>2. phase[t] = "assemble" /\ phase'[t] = "idle"
    BY <1>2, <1>8, <2>1 DEF Assemble
  <2> QED
    BY <1>1, <1>8, <2>1, <2>2, AssembledNewer
<1>9. ASSUME NEW x \in Task \cup {Loop}, ResetCounter(x) PROVE Goal
  <2>1. /\ lastCompleted' = 0 /\ UNCHANGED <<assemblies, packet>>
        /\ phase'[t] \in {"clear", phase[t]}
    BY <1>2, <1>9 DEF ResetCounter
  <2>2. phase[t] = "assemble" => packet[t] \in Packet
    BY DEF PacketHeld
  <2> QED
    BY <1>3, <1>4, <2>1, <2>2
<1>10. ASSUME NEW x \in Task \cup {Loop}, ClearAssemblies(x) PROVE Goal
  <2>1. /\ assemblies' = <<>> /\ UNCHANGED <<lastCompleted, packet>>
    BY <1>10 DEF ClearAssemblies
  <2>2. CASE x = t
    <3>1. phase[t] = "clear" /\ phase'[t] \in {"idle", "assemble"}
          /\ (phase'[t] = "assemble" => packet[t] # StopPacket)
      BY <1>2, <1>10, <2>2 DEF ClearAssemblies
    <3> QED
      BY <1>1, <1>2, <1>4, <2>1, <3>1
  <2>3. CASE x # t
    <3>1. phase'[t] = phase[t]
      BY <1>2, <1>10, <2>3 DEF ClearAssemblies
    <3> QED
      BY <1>1, <1>2, <2>1, <3>1
  <2> QED
    BY <2>2, <2>3
<1>11. CASE LoopResets
  BY <1>1, <1>2, <1>11 DEF LoopResets
<1>12. CASE AssemblyExpires
  <2>1. PICK i \in DOMAIN assemblies : assemblies' = [assemblies EXCEPT ![i].expired = TRUE]
    BY <1>12 DEF AssemblyExpires
  <2>2. assemblies[i] \in Assembly
    BY DEF TypeOK
  <2>3. [assemblies[i] EXCEPT !.expired = TRUE].au = assemblies[i].au
    BY <2>2 DEF Assembly
  <2>4. DOMAIN assemblies' = DOMAIN assemblies
        /\ \A j \in DOMAIN assemblies : assemblies'[j].au = assemblies[j].au
    BY <2>1, <2>3
  <2>5. UNCHANGED <<lastCompleted, phase, packet>>
    BY <1>12 DEF AssemblyExpires
  <2> QED
    BY <1>1, <1>2, <2>4, <2>5
<1>13. CASE UNCHANGED vars
  BY <1>1, <1>2, <1>13 DEF vars
<1> QED
  BY <1>5, <1>6, <1>7, <1>8, <1>9, <1>10, <1>11, <1>12, <1>13
     DEF Next, ReceiveStop, ReceiveMalformed

LEMMA SourceInductive == Spec => [](TypeOK /\ PacketHeld /\ CallsHaveStreams /\ SourceInv)
<1>1. Init => CallsHaveStreams /\ SourceInv
  BY DEF Init, CallsHaveStreams, SourceInv
<1>2. TypeOK /\ PacketHeld /\ CallsHaveStreams /\ SourceInv /\ [Next]_vars => SourceInv'
  BY SourceStep DEF SourceInv
<1> QED
  BY <1>1, <1>2, CallsKept, TypesInductive, PTL DEF Spec

\* With one source, and whatever the main loop resets meanwhile, completing a
\* frame leaves nothing older in process_udp_chunk's list (src/v4l2_decoder.rs).
THEOREM NothingOlderInFlight == Spec => []OnlyNewerInFlight
<1>1. SourceInv => OnlyNewerInFlight
  BY DEF SourceInv, OnlyNewerInFlight
<1> QED
  BY <1>1, SourceInductive, PTL

\* With one source LAST_COMPLETED_SEQ goes back only by a reset.
THEOREM CounterGoesForward == Spec => CompletedGoesForward
<1>1. TypeOK /\ PacketHeld /\ CallsHaveStreams /\ SourceInv /\ [Next]_vars =>
        [(\E t \in Task : Alone(t)) =>
            lastCompleted' >= lastCompleted \/ lastCompleted' = 0]_vars
  <2> SUFFICES ASSUME TypeOK, PacketHeld, CallsHaveStreams, SourceInv, [Next]_vars,
                      NEW t \in Task, Alone(t)
               PROVE  lastCompleted' >= lastCompleted \/ lastCompleted' = 0
    OBVIOUS
  <2>1. CASE Alone(t)'
    BY <2>1, SourceStep
  <2>2. CASE ~Alone(t)'
    <3>1. run' # run
      BY <2>2 DEF Alone
    <3>2. UNCHANGED lastCompleted
      BY <3>1 DEF Next, OpenStream, ReceivePacket, ReceiveStop, ReceiveMalformed, ResetsOnly,
         Assemble, ResetCounter,
                  ClearAssemblies, LoopResets, AssemblyExpires, sourceVars, vars
    <3> QED
      BY <3>2 DEF TypeOK
  <2> QED
    BY <2>1, <2>2
<1> QED
  BY <1>1, SourceInductive, PTL DEF Spec, CompletedGoesForward

-----------------------------------------------------------------------------
(* One reliable source: nothing is lost.                                   *)

\* A packet that reaches an empty list and is its whole access unit completes
\* its frame, and the list is empty again.
LEMMA WholeUnit ==
    ASSUME TypeOK, PacketHeld, NEW t \in Task, Assemble(t), assemblies = <<>>,
           packet[t].chunk = 0, packet[t].au.src \in reliable
    PROVE  /\ lastCompleted' = packet[t].au.seq
           /\ assemblies' = <<>>
           /\ {packet[t].au} \in completed'
<1> DEFINE p == packet[t]
           e == NewAssembly(p)
<1>1. p \in Packet
  BY DEF Assemble, PacketHeld
<1>2. p.au \in AccessUnit /\ p.au.seq \in Nat
  BY <1>1 DEF Packet, AccessUnit
<1>3. e.au = p.au /\ e.slots[0] = p.au
  BY DEF NewAssembly, ChunkIndex
<1>4. ChunksOf(e.au) = 1 /\ Slots(e) = {p.au}
  BY <1>3 DEF ChunksOf, Slots
<1>5. Full(e) /\ Matches(e, p) /\ SameMetadata(e, p)
  BY <1>2, <1>3, <1>4, Distinctions DEF Full, Matches, SameMetadata
<1>6. PICK kept \in Live(assemblies, seen[t]) :
        LET now == WithPacket(kept, p) IN
        \/ /\ lastCompleted' = p.au.seq
           /\ assemblies' \in Newer(now, p.au.seq)
           /\ completed' = completed \cup {Slots(now[i]) : i \in Done(now, p)}
        \/ Done(now, p) = {}
  BY <1>1, AssembleFacts
<1>7. kept = <<>>
  <2>1. assemblies \in Seq(Assembly) /\ DOMAIN assemblies = {}
    BY DEF TypeOK
  <2>2. kept \in Retained(assemblies, {})
    BY <2>1, <1>6 DEF Live
  <2> QED
    BY <2>1, <2>2, RetainedNone
<1> HIDE DEF e
<1>8. WithPacket(kept, p) = <<e>>
  <2>1. ~\E i \in DOMAIN kept : Matches(kept[i], p)
    BY <1>7
  <2>2. WithRoom(kept) = <<>>
    BY <1>7 DEF WithRoom
  <2> QED
    BY <2>1, <2>2 DEF WithPacket, e
<1>9. Done(<<e>>, p) = {1}
  BY <1>5 DEF Done
<1>10. /\ lastCompleted' = p.au.seq /\ assemblies' \in Newer(<<e>>, p.au.seq)
       /\ {p.au} \in completed'
  <2>1. /\ lastCompleted' = p.au.seq
        /\ assemblies' \in Newer(<<e>>, p.au.seq)
        /\ completed' = completed \cup {Slots(<<e>>[i]) : i \in {1}}
    BY <1>6, <1>8, <1>9
  <2>2. Slots(<<e>>[1]) = {p.au}
    BY <1>4 DEF e
  <2> QED
    BY <2>1, <2>2
<1>11. assemblies' = <<>>
  <2>1. {i \in DOMAIN <<e>> : <<e>>[i].au.seq > p.au.seq} = {}
    BY <1>2, <1>3 DEF e
  <2>2. assemblies' \in Retained(<<e>>, {})
    BY <1>10, <2>1 DEF Newer
  <2>3. <<e>> \in Seq(Assembly)
    BY <1>1, NewAssemblyType DEF e
  <2> QED
    BY <2>2, <2>3, RetainedNone
<1> QED
  BY <1>10, <1>11

\* What has been returned stays returned.
LEMMA ReturnedStays ==
    ASSUME [Next]_vars PROVE completed \subseteq completed'
<1>1. ASSUME NEW t \in Task, Assemble(t) PROVE completed \subseteq completed'
  BY <1>1 DEF Assemble
<1>2. CASE UNCHANGED completed
  BY <1>2
<1> QED
  BY <1>1, <1>2
     DEF Next, OpenStream, ReceivePacket, ReceiveStop, ReceiveMalformed, ResetsOnly,
         ResetCounter, ClearAssemblies,
         LoopResets, AssemblyExpires, vars

\* Where the source stands after a step that leaves its stream and its call alone.
LEMMA LosslessFrame ==
    ASSUME NEW t \in reliable, TypeOK, LosslessInv, Alone(t), [Next]_vars,
           UNCHANGED <<run, sent>>, packet'[t] = packet[t],
           Reading(t)' = Reading(t), assemblies' \in {assemblies, <<>>},
           lastCompleted' \in {lastCompleted, 0}
    PROVE  /\ assemblies' = <<>>
           /\ Reading(t)' =>
                /\ sent'[t] > 0
                /\ packet'[t] = [au |-> [src |-> t, run |-> run'[t], seq |-> sent'[t]],
                                 chunk |-> 0]
                /\ \A n \in 1..(sent'[t] - 1) : Returned(t, n)'
           /\ ~Reading(t)' =>
                /\ sent'[t] > 0 => lastCompleted' \in {0, sent'[t]}
                /\ \A n \in 1..sent'[t] : Returned(t, n)'
<1>1. \A n : Returned(t, n) => Returned(t, n)'
  BY ReturnedStays DEF Returned
<1> QED
  BY <1>1 DEF LosslessInv

LEMMA LosslessStep ==
    ASSUME TypeOK, PacketHeld, CallsHaveStreams, LosslessInv, [Next]_vars
    PROVE  LosslessInv'
<1> SUFFICES ASSUME NEW t \in reliable, Alone(t)'
             PROVE
        /\ assemblies' = <<>>
        /\ Reading(t)' =>
             /\ sent'[t] > 0
             /\ packet'[t] = [au |-> [src |-> t, run |-> run'[t], seq |-> sent'[t]],
                             chunk |-> 0]
             /\ \A n \in 1..(sent'[t] - 1) : Returned(t, n)'
        /\ ~Reading(t)' =>
             /\ sent'[t] > 0 => lastCompleted' \in {0, sent'[t]}
             /\ \A n \in 1..sent'[t] : Returned(t, n)'
  <2>1. UNCHANGED reliable
    BY DEF Next, OpenStream, ReceivePacket, ReceiveStop, ReceiveMalformed, ResetsOnly,
         Assemble, ResetCounter,
           ClearAssemblies, LoopResets, AssemblyExpires, sourceVars, vars
  <2> QED
    BY <2>1 DEF LosslessInv
<1> DEFINE Goal ==
        /\ assemblies' = <<>>
        /\ Reading(t)' =>
             /\ sent'[t] > 0
             /\ packet'[t] = [au |-> [src |-> t, run |-> run'[t], seq |-> sent'[t]],
                             chunk |-> 0]
             /\ \A n \in 1..(sent'[t] - 1) : Returned(t, n)'
        /\ ~Reading(t)' =>
             /\ sent'[t] > 0 => lastCompleted' \in {0, sent'[t]}
             /\ \A n \in 1..sent'[t] : Returned(t, n)'
<1>1. t \in Task /\ Alone(t) /\ (UNCHANGED run \/ OpenStream(t))
  BY AloneBefore DEF TypeOK
<1>2. /\ assemblies = <<>>
      /\ Reading(t) =>
           /\ sent[t] > 0
           /\ packet[t] = [au |-> [src |-> t, run |-> run[t], seq |-> sent[t]], chunk |-> 0]
           /\ \A n \in 1..(sent[t] - 1) : Returned(t, n)
      /\ ~Reading(t) =>
           /\ sent[t] > 0 => lastCompleted \in {0, sent[t]}
           /\ \A n \in 1..sent[t] : Returned(t, n)
  BY <1>1 DEF LosslessInv
<1>3. /\ lastCompleted \in Nat /\ sent \in [Task -> Nat] /\ Loop # t
      /\ phase \in [Task \cup {Loop} -> Phase]
      /\ packet \in [Task -> Packet \cup {StopPacket}]
  BY DEF TypeOK
<1>4. \A u \in Task : phase[u] # "idle" => u = t
  BY <1>1 DEF CallsHaveStreams, Alone
<1>5. ASSUME NEW u \in Task, OpenStream(u) PROVE Goal
  <2>1. u = t
    BY <1>1, <1>5 DEF OpenStream, Alone, TypeOK
  <2>2. sent'[t] = 0 /\ UNCHANGED <<assemblies, phase, packet>> /\ phase[t] = "idle"
    BY <1>3, <1>5, <2>1 DEF OpenStream
  <2> QED
    BY <1>2, <2>2 DEF Reading
<1>6. ASSUME NEW u \in Task, NEW p \in Packet, ReceivePacket(u, p) PROVE Goal
  <2>1. u = t
    <3>1. run[u] > 0
      BY <1>6 DEF ReceivePacket, Arrives, Packet, AccessUnit, TypeOK
    <3> QED
      BY <1>1, <3>1 DEF Alone
  <2>2. /\ ~Reading(t) /\ packet'[t] = p /\ sent'[t] = sent[t] + 1
        /\ UNCHANGED <<lastCompleted, assemblies, run, completed>>
    BY <1>3, <1>6, <2>1 DEF ReceivePacket, Reading, sourceVars
  <2>3. p = [au |-> [src |-> t, run |-> run[t], seq |-> sent[t] + 1], chunk |-> 0]
    <3>1. /\ p.au.src = t /\ p.au.run = run[t] /\ p.au.seq = sent[t] + 1
          /\ p.chunk < 1 /\ p.au \in AccessUnit /\ p.chunk \in ChunkIndex
      BY <1>6, <2>1 DEF ReceivePacket, Arrives, ChunksOf, Packet
    <3>2. p.chunk = 0
      BY <3>1 DEF ChunkIndex
    <3>3. p.au = [src |-> t, run |-> run[t], seq |-> sent[t] + 1]
      BY <3>1 DEF AccessUnit
    <3> QED
      BY <3>2, <3>3 DEF Packet
  <2>4. Stale(p.au.seq, lastCompleted) => Restarts(p.au.seq, lastCompleted)
    <3>1. p.au.seq = sent[t] + 1 /\ sent[t] \in Nat /\ lastCompleted \in Nat
      BY <1>1, <1>3, <2>3
    <3>2. CASE sent[t] = 0
      BY <3>1, <3>2 DEF Restarts
    <3>3. CASE sent[t] > 0
      <4>1. lastCompleted \in {0, sent[t]}
        BY <1>2, <2>2, <3>3
      <4> QED
        BY <3>1, <4>1 DEF Stale
    <3> QED
      BY <3>1, <3>2, <3>3
  <2>5. phase'[t] \in {"assemble", "reset"}
    BY <1>3, <1>6, <2>1, <2>4 DEF ReceivePacket
  <2>6. Reading(t)'
    BY <2>2, <2>5, Distinctions DEF Reading
  <2>7. \A n \in 1..sent[t] : Returned(t, n)'
    BY <1>2, <2>2 DEF Returned
  <2>8. sent[t] + 1 > 0 /\ (sent[t] + 1) - 1 = sent[t]
    BY <1>1, <1>3
  <2> QED
    BY <1>2, <2>2, <2>3, <2>6, <2>7, <2>8
<1>7. ASSUME NEW u \in Task, ResetsOnly(u) PROVE Goal
  <2>1. u = t
    BY <1>1, <1>7 DEF ResetsOnly, Alone, TypeOK
  <2>2. /\ ~Reading(t) /\ ~Reading(t)'
        /\ UNCHANGED <<lastCompleted, assemblies, run, sent, completed>>
    BY <1>3, <1>7, <2>1 DEF ResetsOnly, Reading, sourceVars
  <2> QED
    BY <1>2, <2>2 DEF Returned
<1>8. ASSUME NEW u \in Task, Assemble(u) PROVE Goal
  <2>1. u = t /\ phase[t] = "assemble"
    BY <1>4, <1>8 DEF Assemble
  <2>2. Reading(t)
    BY <2>1, Distinctions DEF Reading, PacketHeld
  <2>3. /\ ~Reading(t)'
        /\ UNCHANGED <<run, sent>>
    BY <1>3, <1>8, <2>1 DEF Assemble, Reading, sourceVars
  <2>4. packet[t].chunk = 0 /\ packet[t].au = [src |-> t, run |-> run[t], seq |-> sent[t]]
    BY <1>2, <2>2
  <2>5. lastCompleted' = sent[t] /\ assemblies' = <<>> /\ Returned(t, sent[t])'
    <3>1. packet[t].au.src = t /\ packet[t].au.seq = sent[t]
      BY <2>4
    <3>2. /\ lastCompleted' = packet[t].au.seq
          /\ assemblies' = <<>>
          /\ {packet[t].au} \in completed'
      BY <1>1, <1>2, <1>8, <2>1, <2>4, <3>1, WholeUnit
    <3> QED
      BY <2>3, <2>4, <3>1, <3>2 DEF Returned
  <2>6. \A n \in 1..(sent[t] - 1) : Returned(t, n)'
    BY <1>2, <2>2, <2>3, ReturnedStays DEF Returned
  <2>7. \A n \in 1..sent[t] : n = sent[t] \/ n \in 1..(sent[t] - 1)
    <3>1. sent[t] \in Nat
      BY <1>1, <1>3
    <3> QED
      BY <3>1
  <2> QED
    BY <2>3, <2>5, <2>6, <2>7
<1>9. ASSUME NEW x \in Task \cup {Loop}, ResetCounter(x) PROVE Goal
  <2>1. /\ lastCompleted' = 0 /\ UNCHANGED <<assemblies, packet, run, sent>>
        /\ phase'[t] = phase[t] \/ (phase[t] = "reset" /\ phase'[t] = "clear")
    BY <1>3, <1>9 DEF ResetCounter, sourceVars
  <2> QED
    BY <1>1, <2>1, LosslessFrame DEF Reading
<1>10. ASSUME NEW x \in Task \cup {Loop}, ClearAssemblies(x) PROVE Goal
  <2>1. /\ assemblies' = <<>> /\ UNCHANGED <<lastCompleted, packet, run, sent>>
    BY <1>10 DEF ClearAssemblies, sourceVars
  <2>2. Reading(t)' = Reading(t)
    <3>1. CASE x = t
      BY <1>3, <1>10, <2>1, <3>1 DEF ClearAssemblies, Reading
    <3>2. CASE x # t
      BY <1>3, <1>10, <2>1, <3>2 DEF ClearAssemblies, Reading
    <3> QED
      BY <3>1, <3>2
  <2> QED
    BY <1>1, <2>1, <2>2, LosslessFrame
<1>11. CASE LoopResets
  <2>1. /\ phase'[t] = phase[t]
        /\ UNCHANGED <<lastCompleted, assemblies, packet, run, sent>>
    BY <1>3, <1>11 DEF LoopResets, sourceVars
  <2> QED
    BY <1>1, <2>1, LosslessFrame DEF Reading
<1>12. CASE AssemblyExpires
  BY <1>2, <1>12 DEF AssemblyExpires
<1>13. CASE UNCHANGED vars
  BY <1>1, <1>13, LosslessFrame DEF vars, Reading
<1> QED
  BY <1>5, <1>6, <1>7, <1>8, <1>9, <1>10, <1>11, <1>12, <1>13
     DEF Next, ReceiveStop, ReceiveMalformed

\* The browser's way of sending (src/client/src/lib/streamer.ts), with no other
\* source: process_udp_chunk returns every access unit of every stream, however
\* often the numbers start again and whenever the main loop resets.
THEOREM NothingLost == Spec => []ReliableStreamIsLossless
<1>1. Init => LosslessInv
  BY DEF Init, LosslessInv, Reading
<1>2. TypeOK /\ LosslessInv => ReliableStreamIsLossless
  BY DEF TypeOK, LosslessInv, ReliableStreamIsLossless, Reading, Returned
<1> QED
  BY <1>1, <1>2, LosslessStep, SourceInductive, PTL DEF Spec

=============================================================================
