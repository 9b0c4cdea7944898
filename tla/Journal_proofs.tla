---------------------------- MODULE Journal_proofs ----------------------------
(***************************************************************************)
(* Proofs about the operational log, for any number and size of segments,  *)
(* any budgets, and any number of events, stops and failing calls.         *)
(***************************************************************************)
EXTENDS Journal, TLAPS, FiniteSetTheorems, SequenceTheorems

USE JournalAssumption

-----------------------------------------------------------------------------
(* Marks and files.                                                        *)

Mark == Event \cup {Newline, Fragment}

\* A text is an event's, and no event's text is one of the other marks.
LEMMA TextFacts ==
    ASSUME kind \in Seq(Kind)
    PROVE  /\ \A m \in Mark : Text(m) <=> m \in Event
           /\ \A e \in Event : e \in Nat /\ e # Newline /\ e # Fragment
           /\ Newline # Fragment
<1>1. Event \subseteq Nat
  BY DEF Event
<1> QED
  BY <1>1, MarksAssumption DEF Text, Mark

\* A file that is there is not missing.
LEMMA FileIsThere == kind \in Seq(Kind) => Absent \notin File
<1> SUFFICES ASSUME kind \in Seq(Kind), NEW f \in File PROVE f # Absent
  OBVIOUS
<1>1. f \in [marks : Seq(Nat \cup {Newline, Fragment}), durable : Nat]
  <2>1. Event \cup {Newline, Fragment} \subseteq Nat \cup {Newline, Fragment}
    BY DEF Event
  <2>2. Seq(Event \cup {Newline, Fragment}) \subseteq Seq(Nat \cup {Newline, Fragment})
    BY <2>1
  <2> QED
    BY <2>2 DEF File
<1> QED
  BY <1>1, MarksAssumption

LEMMA FirstSegment == 0 \in Index /\ Segments - 1 \in Index /\ Segments - 2 \in Index
  BY DEF Index

\* What TypeOK says of a segment.
LEMMA MarksFacts ==
    ASSUME JournalTypeOK, NEW i \in Index
    PROVE  /\ Marks(i) \in Seq(Mark)
           /\ segment[i] # Absent =>
                /\ segment[i] \in File
                /\ Marks(i) = segment[i].marks
                /\ segment[i].durable \in Nat /\ segment[i].durable <= Len(Marks(i))
           /\ segment[i] = Absent => Marks(i) = <<>>
  BY DEF JournalTypeOK, Marks, File, Mark

\* An append changes the current segment only, and only at its end.
LEMMA AppendFacts ==
    ASSUME JournalTypeOK, NEW m \in Seq(Mark), Append0(m)
    PROVE  /\ segment' \in [Index -> File \cup {Absent}]
           /\ segment'[0] # Absent
           /\ segment[0] = Absent => segment'[0].durable = 0
           /\ segment[0] # Absent => segment'[0].durable = segment[0].durable
           /\ Marks(0)' = Marks(0) \o m
           /\ \A i \in Index \ {0} : segment'[i] = segment[i] /\ Marks(i)' = Marks(i)
<1> DEFINE d == IF segment[0] = Absent THEN 0 ELSE segment[0].durable
           new == [marks |-> Marks(0) \o m, durable |-> d]
<1>1. 0 \in Index /\ segment \in [Index -> File \cup {Absent}] /\ Absent \notin File
  BY FirstSegment, FileIsThere DEF JournalTypeOK
<1>2. Marks(0) \o m \in Seq(Mark) /\ d \in Nat
  BY <1>1, MarksFacts
<1>3. new \in File /\ new.marks = Marks(0) \o m /\ new.durable = d
  BY <1>2 DEF File, Mark
<1>4. segment' = [segment EXCEPT ![0] = new]
  BY <1>1 DEF Append0
<1> HIDE DEF new
<1>5. segment' \in [Index -> File \cup {Absent}] /\ segment'[0] = new
      /\ \A i \in Index \ {0} : segment'[i] = segment[i]
  BY <1>1, <1>3, <1>4
<1> QED
  BY <1>1, <1>3, <1>5 DEF Marks

\* Opening the current segment adds no marks to it.
LEMMA OpenFacts ==
    ASSUME JournalTypeOK, Append0(<<>>)
    PROVE  /\ \A i \in Index : Marks(i)' = Marks(i)
           /\ \A i \in Index : segment[i] # Absent =>
                /\ segment[i].durable \in Nat /\ segment'[i].durable \in Nat
                /\ segment[i].durable <= segment'[i].durable
<1>1. <<>> \in Seq(Mark) /\ Marks(0) \in Seq(Mark)
  BY FirstSegment, MarksFacts
<1>2. Marks(0) \o <<>> = Marks(0)
  BY <1>1
<1>3. \A i \in Index : Marks(i)' = Marks(i)
  BY <1>1, <1>2, AppendFacts
<1>4. \A i \in Index : segment[i] # Absent =>
        segment[i].durable \in Nat /\ segment'[i].durable = segment[i].durable
  BY <1>1, AppendFacts, MarksFacts
<1> QED
  BY <1>3, <1>4

\* The positions in a sequence with one or two marks more.
LEMMA OneMore ==
    ASSUME NEW S, NEW s \in Seq(S), NEW a \in S
    PROVE  /\ Len(s \o <<a>>) = Len(s) + 1
           /\ DOMAIN (s \o <<a>>) = DOMAIN s \cup {Len(s) + 1}
           /\ Len(s) \in Nat /\ DOMAIN s = 1..Len(s) /\ Len(s) + 1 \notin DOMAIN s
           /\ \A k \in DOMAIN s : (s \o <<a>>)[k] = s[k]
           /\ (s \o <<a>>)[Len(s) + 1] = a
<1>1. <<a>> \in Seq(S) /\ Len(<<a>>) = 1 /\ <<a>>[1] = a /\ Len(s) \in Nat
  OBVIOUS
<1>2. s \o <<a>> \in Seq(S) /\ Len(s \o <<a>>) = Len(s) + 1 /\ DOMAIN s = 1..Len(s)
  BY <1>1
<1>3. DOMAIN (s \o <<a>>) = 1..(Len(s) + 1)
  BY <1>1, <1>2
<1> QED
  BY <1>1, <1>2, <1>3

LEMMA TwoMore ==
    ASSUME NEW S, NEW s \in Seq(S), NEW a \in S, NEW b \in S
    PROVE  /\ Len(s \o <<a, b>>) = Len(s) + 2
           /\ DOMAIN (s \o <<a, b>>) = DOMAIN s \cup {Len(s) + 1, Len(s) + 2}
           /\ Len(s) \in Nat /\ DOMAIN s = 1..Len(s)
           /\ \A k \in DOMAIN s : (s \o <<a, b>>)[k] = s[k]
           /\ (s \o <<a, b>>)[Len(s) + 1] = a /\ (s \o <<a, b>>)[Len(s) + 2] = b
<1>1. /\ <<a, b>> \in Seq(S) /\ Len(<<a, b>>) = 2 /\ <<a, b>>[1] = a /\ <<a, b>>[2] = b
      /\ Len(s) \in Nat
  OBVIOUS
<1>2. s \o <<a, b>> \in Seq(S) /\ Len(s \o <<a, b>>) = Len(s) + 2 /\ DOMAIN s = 1..Len(s)
  BY <1>1
<1>3. DOMAIN (s \o <<a, b>>) = 1..(Len(s) + 2)
  BY <1>1, <1>2
<1> QED
  BY <1>1, <1>2, <1>3

\* f leads from the N lines of r to the positions in K of s that they had.
LinesOf(r, s, K, N, f) ==
    /\ Len(r) = 2 * N
    /\ \A m, n \in 1..N : m < n => f[m] < f[n]
    /\ \A k \in K : \E n \in 1..N : f[n] = k
    /\ \A n \in 1..N : r[2 * n - 1] = s[f[n]] /\ r[2 * n] = Newline

\* The events that pruning keeps are lines of the new segment.
LEMMA RewrittenLines ==
    ASSUME NEW S, Newline \in S, NEW s \in Seq(S), NEW K \in SUBSET DOMAIN s,
           NEW r \in Rewritten(s, K)
    PROVE  r \in Seq(S) /\ \E N \in Nat : \E f \in [1..N -> K] : LinesOf(r, s, K, N, f)
<1> DEFINE N == Cardinality(K)
<1>1. IsFiniteSet(K) /\ N \in Nat
  <2>1. DOMAIN s = 1..Len(s) /\ Len(s) \in Nat
    OBVIOUS
  <2>2. IsFiniteSet(DOMAIN s)
    BY <2>1, FS_Interval
  <2> QED
    BY <2>2, FS_Subset, FS_CardinalityType
<1>2. PICK f \in [1..N -> K] :
        /\ \A m, n \in 1..N : m < n => f[m] < f[n]
        /\ r = [n \in 1..(2 * N) |-> IF n % 2 = 1 THEN s[f[(n + 1) \div 2]] ELSE Newline]
  BY DEF Rewritten
<1>3. \A k \in K : \E n \in 1..N : f[n] = k
  <2>1. \A m, n \in 1..N : f[m] = f[n] => m = n
    <3> SUFFICES ASSUME NEW m \in 1..N, NEW n \in 1..N, f[m] = f[n], m # n PROVE FALSE
      OBVIOUS
    <3>1. f[m] \in Nat /\ (m < n \/ n < m)
      BY <1>1
    <3> QED
      BY <1>2, <3>1
  <2>2. IsFiniteSet(1..N) /\ Cardinality(1..N) = N
    BY <1>1, FS_Interval
  <2>3. f \in Injection(1..N, K)
    BY <2>1 DEF Injection, IsInjective
  <2>4. f \in Surjection(1..N, K)
    BY <1>1, <2>2, <2>3, FS_Injection
  <2> QED
    BY <2>4 DEF Surjection
<1> HIDE DEF N
<1>4. \A n \in 1..(2 * N) :
        n % 2 = 1 => (n + 1) \div 2 \in 1..N
  BY <1>1
<1>5. \A n \in 1..(2 * N) : r[n] \in S
  BY <1>2, <1>4
<1>6. r \in Seq(S) /\ Len(r) = 2 * N
  BY <1>1, <1>2, <1>5
<1>7. ASSUME NEW n \in 1..N PROVE r[2 * n - 1] = s[f[n]] /\ r[2 * n] = Newline
  <2>1. /\ 2 * n - 1 \in 1..(2 * N) /\ 2 * n \in 1..(2 * N)
        /\ (2 * n - 1) % 2 = 1 /\ ((2 * n - 1) + 1) \div 2 = n /\ (2 * n) % 2 # 1
    BY <1>1
  <2> QED
    BY <1>2, <2>1
<1>8. LinesOf(r, s, K, N, f)
  BY <1>2, <1>3, <1>6, <1>7 DEF LinesOf
<1> QED
  BY <1>1, <1>6, <1>8

\* A segment that was rewritten holds the kept events, in the order they had, each
\* on a line of its own that is ended.
LEMMA RewrittenFacts ==
    ASSUME NEW S, Newline \in S, NEW s \in Seq(S), NEW K \in SUBSET DOMAIN s,
           NEW r \in Rewritten(s, K), \A k \in K : Text(s[k])
    PROVE  /\ r \in Seq(S)
           /\ Len(r) > 0 => r[Len(r)] = Newline
           /\ \A j \in DOMAIN r : r[j] # Newline =>
                /\ IsLine(r, j) /\ j < Len(r) /\ r[j + 1] = Newline
                /\ \E k \in K : r[j] = s[k]
           /\ \A k \in K : \E j \in DOMAIN r : r[j] = s[k] /\ IsLine(r, j)
           /\ \A j, l \in DOMAIN r : j < l /\ r[j] # Newline /\ r[l] # Newline =>
                \E a, b \in K : a < b /\ r[j] = s[a] /\ r[l] = s[b]
<1>0. r \in Seq(S)
  BY RewrittenLines
<1>01. PICK N \in Nat : \E f \in [1..N -> K] : LinesOf(r, s, K, N, f)
  BY RewrittenLines
<1>02. PICK f \in [1..N -> K] : LinesOf(r, s, K, N, f)
  BY <1>01
<1>1. /\ Len(r) = 2 * N
      /\ \A m, n \in 1..N : m < n => f[m] < f[n]
      /\ \A k \in K : \E n \in 1..N : f[n] = k
      /\ \A n \in 1..N : r[2 * n - 1] = s[f[n]] /\ r[2 * n] = Newline
  BY <1>02 DEF LinesOf
<1>2. DOMAIN r = 1..(2 * N)
  BY <1>0, <1>1
<1>3. ASSUME NEW n \in 1..N
      PROVE  /\ 2 * n - 1 \in DOMAIN r /\ IsLine(r, 2 * n - 1) /\ 2 * n - 1 < Len(r)
             /\ r[(2 * n - 1) + 1] = Newline
  <2>1. 2 * n - 1 \in 1..(2 * N) /\ 2 * n - 1 < 2 * N /\ (2 * n - 1) + 1 = 2 * n
    OBVIOUS
  <2>2. Text(r[2 * n - 1])
    BY <1>1
  <2>3. n = 1 \/ r[(2 * n - 1) - 1] = Newline
    <3> SUFFICES ASSUME n # 1 PROVE r[(2 * n - 1) - 1] = Newline
      OBVIOUS
    <3>1. n - 1 \in 1..N /\ 2 * (n - 1) = (2 * n - 1) - 1
      OBVIOUS
    <3> QED
      BY <1>1, <3>1
  <2>4. n = 1 => 2 * n - 1 = 1
    OBVIOUS
  <2> QED
    BY <1>1, <1>2, <2>1, <2>2, <2>3, <2>4 DEF IsLine
<1>4. \A j \in DOMAIN r : r[j] # Newline => \E n \in 1..N : j = 2 * n - 1
  <2> SUFFICES ASSUME NEW j \in 1..(2 * N), r[j] # Newline
               PROVE  \E n \in 1..N : j = 2 * n - 1
    BY <1>2
  <2>1. \E n \in 1..N : j = 2 * n - 1 \/ j = 2 * n
    <3>1. (j + 1) \div 2 \in 1..N
          /\ (j = 2 * ((j + 1) \div 2) - 1 \/ j = 2 * ((j + 1) \div 2))
      OBVIOUS
    <3> QED
      BY <3>1
  <2> QED
    BY <1>1, <2>1
<1>5. Len(r) > 0 => r[Len(r)] = Newline
  <2>1. Len(r) > 0 => N \in 1..N
    BY <1>1
  <2> QED
    BY <1>1, <2>1
<1>6. ASSUME NEW j \in DOMAIN r, r[j] # Newline
      PROVE  /\ IsLine(r, j) /\ j < Len(r) /\ r[j + 1] = Newline
             /\ \E k \in K : r[j] = s[k]
  <2>1. PICK n \in 1..N : j = 2 * n - 1
    BY <1>4, <1>6
  <2>2. f[n] \in K /\ r[j] = s[f[n]]
    BY <1>1, <2>1
  <2> QED
    BY <1>3, <2>1, <2>2
<1>7. ASSUME NEW j \in DOMAIN r, NEW l \in DOMAIN r, j < l, r[j] # Newline, r[l] # Newline
      PROVE  \E a, b \in K : a < b /\ r[j] = s[a] /\ r[l] = s[b]
  <2>1. PICK m \in 1..N : j = 2 * m - 1
    BY <1>4, <1>7
  <2>2. PICK n \in 1..N : l = 2 * n - 1
    BY <1>4, <1>7
  <2>3. m < n
    BY <1>7, <2>1, <2>2
  <2>4. f[m] \in K /\ f[n] \in K /\ f[m] < f[n] /\ r[j] = s[f[m]] /\ r[l] = s[f[n]]
    BY <1>1, <2>1, <2>2, <2>3
  <2> QED
    BY <2>4
<1>8. ASSUME NEW k \in K PROVE \E j \in DOMAIN r : r[j] = s[k] /\ IsLine(r, j)
  <2>1. PICK n \in 1..N : f[n] = k
    BY <1>1
  <2> QED
    BY <1>1, <1>3, <2>1
<1> QED
  BY <1>0, <1>5, <1>6, <1>7, <1>8

\* What a power failure leaves of a file is on the card; what was synced is as it
\* was, and behind it there is at most a torn line in a text's place.
LEMMA SurvivorFacts ==
    ASSUME NEW old \in File \cup {Absent}, old # Absent => old.durable <= Len(old.marks),
           kind \in Seq(Kind), NEW new \in Survivors(old)
    PROVE  /\ new \in File \cup {Absent}
           /\ new = Absent <=> old = Absent
           /\ old # Absent =>
                /\ new.durable = Len(new.marks) /\ old.durable <= Len(new.marks)
                /\ Len(new.marks) <= Len(old.marks)
                /\ \A k \in DOMAIN new.marks :
                     \/ new.marks[k] = old.marks[k]
                     \/ k > old.durable /\ new.marks[k] = Fragment
<1>1. CASE old = Absent
  BY <1>1 DEF Survivors
<1>2. CASE old # Absent
  <2>1. old \in File /\ old.marks \in Seq(Mark) /\ old.durable \in Nat
        /\ Len(old.marks) \in Nat
    BY <1>2 DEF File, Mark
  <2>2. CASE new \in {[marks |-> SubSeq(old.marks, 1, n), durable |-> n] :
                        n \in old.durable..Len(old.marks)}
    <3>1. PICK n \in old.durable..Len(old.marks) :
            new = [marks |-> SubSeq(old.marks, 1, n), durable |-> n]
      BY <2>2
    <3>2. /\ SubSeq(old.marks, 1, n) \in Seq(Mark) /\ Len(SubSeq(old.marks, 1, n)) = n
          /\ \A k \in 1..n : SubSeq(old.marks, 1, n)[k] = old.marks[k]
      BY <2>1
    <3>3. new \in File
      BY <2>1, <3>1, <3>2 DEF File, Mark
    <3>4. DOMAIN new.marks = 1..n /\ new.marks = SubSeq(old.marks, 1, n)
          /\ new.durable = n
      BY <3>1, <3>2
    <3> QED
      BY <1>2, <2>1, <3>2, <3>3, <3>4, FileIsThere
  <2>3. CASE new \in {[marks |-> Append(SubSeq(old.marks, 1, n), Fragment), durable |-> n + 1] :
                        n \in {m \in old.durable..(Len(old.marks) - 1) : Text(old.marks[m + 1])}}
    <3>1. PICK n \in old.durable..(Len(old.marks) - 1) :
            new = [marks |-> Append(SubSeq(old.marks, 1, n), Fragment), durable |-> n + 1]
      BY <2>3
    <3> DEFINE q == SubSeq(old.marks, 1, n)
    <3>2. /\ q \in Seq(Mark) /\ Len(q) = n
          /\ \A k \in 1..n : q[k] = old.marks[k]
      BY <2>1
    <3> HIDE DEF q
    <3>3. /\ Append(q, Fragment) \in Seq(Mark) /\ Len(Append(q, Fragment)) = n + 1
          /\ \A k \in 1..n : Append(q, Fragment)[k] = old.marks[k]
          /\ Append(q, Fragment)[n + 1] = Fragment
      BY <2>1, <3>2 DEF Mark
    <3>4. new = [marks |-> Append(q, Fragment), durable |-> n + 1]
      BY <3>1 DEF q
    <3>5. new \in File
      BY <2>1, <3>3, <3>4 DEF File, Mark
    <3>6. /\ new.marks = Append(q, Fragment) /\ new.durable = n + 1
          /\ DOMAIN new.marks = 1..(n + 1) /\ n + 1 > old.durable
          /\ n + 1 <= Len(old.marks) /\ old.durable <= n + 1
      BY <2>1, <3>3, <3>4
    <3>7. \A k \in DOMAIN new.marks :
            \/ new.marks[k] = old.marks[k]
            \/ k > old.durable /\ new.marks[k] = Fragment
      BY <3>3, <3>6
    <3> QED
      BY <1>2, <3>3, <3>5, <3>6, <3>7, FileIsThere
  <2> QED
    BY <1>2, <2>2, <2>3 DEF Survivors
<1> QED
  BY <1>1, <1>2

\* The same, for all segments.
LEMMA PowerFacts ==
    ASSUME JournalTypeOK, PowerFails
    PROVE  /\ segment' \in [Index -> File \cup {Absent}]
           /\ \A i \in Index :
                /\ segment'[i] = Absent <=> segment[i] = Absent
                /\ segment[i] # Absent =>
                     /\ segment'[i].durable = Len(Marks(i)')
                     /\ segment[i].durable <= Len(Marks(i)')
                /\ Len(Marks(i)') <= Len(Marks(i))
                /\ \A k \in DOMAIN Marks(i)' :
                     /\ k \in DOMAIN Marks(i)
                     /\ \/ Marks(i)'[k] = Marks(i)[k]
                        \/ k > segment[i].durable /\ Marks(i)'[k] = Fragment
<1>1. /\ segment' \in [Index -> UNION {Survivors(segment[i]) : i \in Index}]
      /\ \A i \in Index : segment'[i] \in Survivors(segment[i])
  BY DEF PowerFails
<1>2. ASSUME NEW i \in Index
      PROVE  /\ segment[i] \in File \cup {Absent}
             /\ segment[i] # Absent => segment[i].durable <= Len(segment[i].marks)
             /\ kind \in Seq(Kind)
  BY MarksFacts DEF JournalTypeOK
<1>3. ASSUME NEW i \in Index
      PROVE  /\ segment'[i] \in File \cup {Absent}
             /\ segment'[i] = Absent <=> segment[i] = Absent
             /\ segment[i] # Absent =>
                  LET old == segment[i]
                      new == segment'[i] IN
                  /\ new.durable = Len(new.marks) /\ old.durable <= Len(new.marks)
                  /\ Len(new.marks) <= Len(old.marks)
                  /\ \A k \in DOMAIN new.marks :
                       \/ new.marks[k] = old.marks[k]
                       \/ k > old.durable /\ new.marks[k] = Fragment
  BY <1>1, <1>2, SurvivorFacts
<1>4. segment' \in [Index -> File \cup {Absent}]
  BY <1>1, <1>3
<1>5. ASSUME NEW i \in Index
      PROVE  /\ segment'[i] = Absent <=> segment[i] = Absent
             /\ segment[i] # Absent =>
                  /\ segment'[i].durable = Len(Marks(i)')
                  /\ segment[i].durable <= Len(Marks(i)')
             /\ Len(Marks(i)') <= Len(Marks(i))
             /\ \A k \in DOMAIN Marks(i)' :
                  /\ k \in DOMAIN Marks(i)
                  /\ \/ Marks(i)'[k] = Marks(i)[k]
                     \/ k > segment[i].durable /\ Marks(i)'[k] = Fragment
  <2>1. CASE segment[i] = Absent
    BY <1>3, <2>1 DEF Marks
  <2>2. CASE segment[i] # Absent
    <3>1. segment'[i] \in File /\ segment[i] \in File
      BY <1>2, <1>3, <2>2
    <3>2. /\ Marks(i)' = segment'[i].marks /\ Marks(i) = segment[i].marks
          /\ Marks(i)' \in Seq(Mark) /\ Marks(i) \in Seq(Mark)
      BY <1>3, <2>2, <3>1 DEF Marks, File, Mark
    <3> QED
      BY <1>3, <2>2, <3>2
  <2> QED
    BY <2>1, <2>2
<1> QED
  BY <1>4, <1>5

\* The positions of a segment that pruning keeps.
KeptAt(i) == {k \in DOMAIN Marks(i) : Marks(i)[k] \in Retained(i)}

\* Pruning leaves a segment alone or rewrites it, and leaves the others alone.
LEMMA PruneFacts ==
    ASSUME JournalTypeOK, Prunes, NEW t \in Index, t = target
    PROVE  \/ UNCHANGED fileVars
           \/ /\ segment[t] # Absent /\ Parses(Marks(t))
              /\ segment' \in [Index -> File \cup {Absent}]
              /\ Marks(t)' \in Rewritten(Marks(t), KeptAt(t))
              /\ segment'[t] # Absent
              /\ segment'[t].durable = Len(Marks(t)')
              /\ \A i \in Index \ {t} : segment'[i] = segment[i] /\ Marks(i)' = Marks(i)
              /\ dropped' = dropped \cup (Texts(Marks(t)) \ Retained(t))
<1> SUFFICES ASSUME ~UNCHANGED fileVars
             PROVE  /\ segment[t] # Absent /\ Parses(Marks(t))
                    /\ segment' \in [Index -> File \cup {Absent}]
                    /\ Marks(t)' \in Rewritten(Marks(t), KeptAt(t))
                    /\ segment'[t] # Absent
                    /\ segment'[t].durable = Len(Marks(t)')
                    /\ \A i \in Index \ {t} :
                          segment'[i] = segment[i] /\ Marks(i)' = Marks(i)
                    /\ dropped' = dropped \cup (Texts(Marks(t)) \ Retained(t))
  OBVIOUS
<1>1. PICK kept \in Rewritten(Marks(t), KeptAt(t)) :
        /\ segment[t] # Absent /\ Parses(Marks(t))
        /\ segment' = [segment EXCEPT ![t] = [marks |-> kept, durable |-> Len(kept)]]
        /\ dropped' = dropped \cup (Texts(Marks(t)) \ Retained(t))
  BY DEF Prunes, KeptAt
<1>2. /\ segment \in [Index -> File \cup {Absent}]
      /\ kind \in Seq(Kind) /\ Marks(t) \in Seq(Mark)
  BY MarksFacts DEF JournalTypeOK
<1>3. KeptAt(t) \in SUBSET DOMAIN Marks(t) /\ Newline \in Mark
  BY DEF KeptAt, Mark
<1>4. kept \in Seq(Mark)
  BY <1>2, <1>3, RewrittenLines
<1> DEFINE new == [marks |-> kept, durable |-> Len(kept)]
<1>5. new \in File /\ new.marks = kept /\ new.durable = Len(kept)
  BY <1>4 DEF File, Mark
<1>6. segment' = [segment EXCEPT ![t] = new]
  BY <1>1
<1> HIDE DEF new
<1>7. /\ segment' \in [Index -> File \cup {Absent}] /\ segment'[t] = new
      /\ \A i \in Index \ {t} : segment'[i] = segment[i]
  BY <1>2, <1>5, <1>6
<1>8. new # Absent
  BY <1>2, <1>5, FileIsThere
<1>9. Marks(t)' = kept /\ \A i \in Index \ {t} : Marks(i)' = Marks(i)
  BY <1>5, <1>7, <1>8 DEF Marks
<1> QED
  BY <1>1, <1>5, <1>7, <1>8, <1>9

\* A rename moves a segment to a place that was empty.
LEMMA RenameFacts ==
    ASSUME JournalTypeOK, Renames, NEW t \in Index, t = target, t + 1 \in Index
    PROVE  \/ segment[t] = Absent /\ UNCHANGED segment
           \/ /\ segment[t] # Absent
              /\ segment' \in [Index -> File \cup {Absent}]
              /\ segment'[t + 1] = segment[t] /\ segment'[t] = Absent
              /\ Marks(t + 1)' = Marks(t) /\ Marks(t)' = <<>>
              /\ \A i \in Index \ {t, t + 1} : segment'[i] = segment[i] /\ Marks(i)' = Marks(i)
<1>1. segment \in [Index -> File \cup {Absent}] /\ t # t + 1
  BY DEF JournalTypeOK, Index
<1>2. CASE segment[t] = Absent
  BY <1>2 DEF Renames
<1>3. CASE segment[t] # Absent
  <2>1. segment' = [segment EXCEPT ![t + 1] = segment[t], ![t] = Absent]
    BY <1>3 DEF Renames
  <2>2. /\ segment' \in [Index -> File \cup {Absent}]
        /\ segment'[t + 1] = segment[t] /\ segment'[t] = Absent
        /\ \A i \in Index \ {t, t + 1} : segment'[i] = segment[i]
    BY <1>1, <2>1
  <2> QED
    BY <1>3, <2>2 DEF Marks
<1> QED
  BY <1>2, <1>3

\* A file of a shorter history is one of a longer history.
LEMMA HistoryGrows ==
    ASSUME kind \in Seq(Kind), NEW k \in Kind, kind' = Append(kind, k)
    PROVE  /\ kind' \in Seq(Kind) /\ Len(kind') = Len(kind) + 1
           /\ Event' = Event \cup {Len(kind')} /\ Len(kind') \notin Event
           /\ \A e \in Event : kind'[e] = kind[e]
           /\ kind'[Len(kind')] = k
           /\ File \subseteq File' /\ Seq(Event) \subseteq Seq(Event')
<1>1. /\ kind' \in Seq(Kind) /\ Len(kind') = Len(kind) + 1 /\ Len(kind) \in Nat
      /\ \A e \in 1..Len(kind) : kind'[e] = kind[e]
      /\ kind'[Len(kind')] = k
  OBVIOUS
<1>2. Event' = Event \cup {Len(kind')} /\ Len(kind') \notin Event
  BY <1>1 DEF Event
<1>3. Event \cup {Newline, Fragment} \subseteq Event' \cup {Newline, Fragment}
      /\ Event \subseteq Event'
  BY <1>2
<1>4. Seq(Event) \subseteq Seq(Event')
      /\ Seq(Event \cup {Newline, Fragment}) \subseteq Seq(Event' \cup {Newline, Fragment})
  BY <1>3
<1>5. File \subseteq File'
  BY <1>4 DEF File
<1> QED
  BY <1>1, <1>2, <1>4, <1>5 DEF Event

LEMMA SameHistory ==
    ASSUME UNCHANGED kind
    PROVE  Event' = Event /\ File' = File /\ TheEvent' = TheEvent
  BY DEF Event, File, TheEvent

-----------------------------------------------------------------------------
(* Where a call is.                                                        *)

Rotating == {"removing", "renaming", "creating", "pruning"}

\* Nothing is pending any more.
Flushing ==
    /\ step \notin {"room", "writing", "ending", "saving"}
    /\ step \in Rotating => resume = "filing"

\* Which call is where, and what it has done before it is there.
CallInv ==
    /\ step \in {"room", "writing", "ending"} => call = "critical"
    /\ step = "saving" => call \in {"critical", "sync"}
    /\ step \in Rotating /\ resume = "writing" => call = "critical"
    /\ ~Flushing => pending = <<>>
    /\ call = "critical" => Len(kind) > 0

\* A rename and the creation of the new segment find their place empty.
RotationInv ==
    /\ step = "renaming" => target + 1 \in Index /\ segment[target + 1] = Absent
    /\ step = "creating" => segment[0] = Absent

\* TypeOK but for the segments.
ControlOK ==
    /\ pending \in Seq(Event) /\ dirty \in BOOLEAN /\ healthy \in BOOLEAN
    /\ call \in {"none", "flush", "sync", "critical"}
    /\ step \in {"opening", "ready", "flushing", "filing", "draining", "room", "writing",
                 "ending", "saving", "removing", "renaming", "creating", "pruning"}
    /\ pending # <<>> => dirty
    /\ (step \in {"opening", "ready"}) = (call = "none")
    /\ target \in Index /\ resume \in {"filing", "writing"}
    /\ kind \in Seq(Kind) /\ expired \in 0..Len(kind)
    /\ dropped \subseteq Event /\ acked \subseteq Event

LEMMA JournalInit == Init => JournalTypeOK /\ CallInv /\ RotationInv
  BY FirstSegment DEF Init, JournalTypeOK, CallInv, RotationInv, Flushing, Rotating, Event

\* A history that grows by the event of a call that begins, or that is batched.
LEMMA EventBegins ==
    ASSUME JournalTypeOK, NEW k \in Kind, kind' = Append(kind, k),
           UNCHANGED <<segment, dropped, acked, expired, target, resume>>
    PROVE  /\ segment' \in [Index -> (File \cup {Absent})']
           /\ \A i \in Index : segment'[i] # Absent => segment'[i].durable <= Len(Marks(i)')
           /\ kind' \in Seq(Kind) /\ expired' \in 0..Len(kind')
           /\ dropped' \subseteq Event' /\ acked' \subseteq Event'
           /\ pending \in Seq(Event') /\ Append(pending, Len(kind')) \in Seq(Event')
           /\ target' \in Index /\ resume' \in {"filing", "writing"}
           /\ Len(kind') > 0
<1>1. /\ kind' \in Seq(Kind) /\ Len(kind') = Len(kind) + 1 /\ Len(kind) \in Nat
      /\ Event' = Event \cup {Len(kind')}
      /\ File \subseteq File' /\ Seq(Event) \subseteq Seq(Event')
  BY HistoryGrows DEF JournalTypeOK
<1>2. segment' \in [Index -> (File \cup {Absent})']
  BY <1>1 DEF JournalTypeOK
<1>3. \A i \in Index : Marks(i)' = Marks(i)
  BY DEF Marks
<1>4. pending \in Seq(Event') /\ Append(pending, Len(kind')) \in Seq(Event')
  BY <1>1 DEF JournalTypeOK
<1> QED
  BY <1>1, <1>2, <1>3, <1>4 DEF JournalTypeOK

\* The segments stay files, no longer synced than they are long.
SegmentsOK ==
    /\ segment \in [Index -> File \cup {Absent}]
    /\ \A i \in Index : segment[i] # Absent => segment[i].durable <= Len(Marks(i))

LEMMA SegmentsSame ==
    ASSUME JournalTypeOK, UNCHANGED segment, UNCHANGED kind PROVE SegmentsOK'
  BY SameHistory DEF JournalTypeOK, SegmentsOK, Marks

LEMMA SegmentsAppend ==
    ASSUME JournalTypeOK, NEW m \in Seq(Mark), Append0(m), UNCHANGED kind PROVE SegmentsOK'
<1>1. /\ segment' \in [Index -> File \cup {Absent}]
      /\ segment[0] = Absent => segment'[0].durable = 0
      /\ segment[0] # Absent => segment'[0].durable = segment[0].durable
      /\ Marks(0)' = Marks(0) \o m
      /\ \A i \in Index \ {0} : segment'[i] = segment[i] /\ Marks(i)' = Marks(i)
  BY AppendFacts
<1>2. Marks(0) \in Seq(Mark) /\ (segment[0] # Absent =>
          segment[0].durable \in Nat /\ segment[0].durable <= Len(Marks(0)))
  BY FirstSegment, MarksFacts
<1>3. Len(Marks(0)') = Len(Marks(0)) + Len(m) /\ Len(m) \in Nat /\ Len(Marks(0)) \in Nat
  BY <1>1, <1>2
<1>4. segment'[0].durable <= Len(Marks(0)')
  BY <1>1, <1>2, <1>3
<1>5. \A i \in Index \ {0} : segment'[i] # Absent => segment'[i].durable <= Len(Marks(i)')
  BY <1>1, MarksFacts
<1> QED
  BY <1>1, <1>4, <1>5, SameHistory DEF SegmentsOK

LEMMA SegmentsStep ==
    ASSUME JournalTypeOK, CallInv, RotationInv, [Next]_vars PROVE SegmentsOK'
<1>1. 0 \in Index /\ Segments - 1 \in Index
  BY FirstSegment
<1>2. /\ segment \in [Index -> File \cup {Absent}] /\ target \in Index /\ kind \in Seq(Kind)
      /\ pending \in Seq(Event) /\ Absent \notin File
  BY FileIsThere DEF JournalTypeOK
<1>3. CASE Opens
  <2>1. CASE UncleanShutdown
    <3>1. kind' = Append(kind, "unclean")
          /\ UNCHANGED <<segment, dropped, acked, expired, target, resume>>
      BY <1>3, <2>1 DEF Opens, fileVars
    <3> QED
      BY <3>1, EventBegins DEF Kind, SegmentsOK
  <2>2. CASE ~UncleanShutdown
    BY <1>3, <2>2, SegmentsSame DEF Opens, fileVars
  <2> QED
    BY <2>1, <2>2
<1>4. CASE Batch
  <2>1. PICK k \in Kind : kind' = Append(kind, k)
    BY <1>4 DEF Batch
  <2>2. UNCHANGED <<segment, dropped, acked, expired, target, resume>>
    BY <1>4 DEF Batch, fileVars, callVars
  <2> QED
    BY <2>1, <2>2, EventBegins DEF SegmentsOK
<1>5. CASE Critical
  <2>1. kind' = Append(kind, "incident")
        /\ UNCHANGED <<segment, dropped, acked, expired, target, resume>>
    BY <1>5 DEF Critical, fileVars
  <2> QED
    BY <2>1, EventBegins DEF Kind, SegmentsOK
<1>6. CASE Flush
  BY <1>6, SegmentsSame DEF Flush, fileVars, historyVars
<1>7. CASE Ages
  BY <1>7, SegmentsSame DEF Ages, fileVars
<1>8. CASE FlushBegins \/ Drained \/ MakesRoom \/ NothingToSave
  BY <1>8, SegmentsSame DEF FlushBegins, Drained, MakesRoom, NothingToSave, fileVars,
                             historyVars
<1>21. CASE OpensFile
  <2>1. <<>> \in Seq(Mark)
    OBVIOUS
  <2> QED
    BY <1>21, <2>1, SegmentsAppend DEF OpensFile, historyVars
<1>9. CASE Drains
  <2>1. <<Head(pending), Newline>> \in Seq(Mark)
    BY <1>2, <1>9 DEF Drains, Mark
  <2> QED
    BY <1>9, <2>1, SegmentsAppend DEF Drains, historyVars
<1>10. CASE Writes
  <2>1. <<TheEvent>> \in Seq(Mark)
    BY <1>2, <1>10 DEF Writes, CallInv, TheEvent, Event, Mark
  <2> QED
    BY <1>10, <2>1, SegmentsAppend DEF Writes, historyVars
<1>11. CASE EndsLine
  <2>1. <<Newline>> \in Seq(Mark)
    BY DEF Mark
  <2> QED
    BY <1>11, <2>1, SegmentsAppend DEF EndsLine, historyVars
<1>12. CASE Saves
  <2> DEFINE new == [segment[0] EXCEPT !.durable = Len(Marks(0))]
  <2>1. segment' = [segment EXCEPT ![0] = new] /\ UNCHANGED kind /\ segment[0] # Absent
    BY <1>12 DEF Saves
  <2>2. /\ segment[0] \in File /\ Marks(0) = segment[0].marks /\ Marks(0) \in Seq(Mark)
    BY <1>1, <2>1, MarksFacts
  <2>3. new \in File /\ new.marks = Marks(0) /\ new.durable = Len(Marks(0))
    BY <2>2 DEF File
  <2> HIDE DEF new
  <2>4. /\ segment' \in [Index -> File \cup {Absent}] /\ segment'[0] = new
        /\ \A i \in Index \ {0} : segment'[i] = segment[i]
    BY <1>1, <1>2, <2>1, <2>3
  <2>5. Marks(0)' = Marks(0) /\ \A i \in Index \ {0} : Marks(i)' = Marks(i)
    BY <1>2, <2>3, <2>4 DEF Marks
  <2>6. segment'[0].durable <= Len(Marks(0)')
    BY <2>2, <2>3, <2>4, <2>5
  <2>7. \A i \in Index \ {0} : segment'[i] # Absent => segment'[i].durable <= Len(Marks(i)')
    BY <2>4, <2>5, MarksFacts
  <2> QED
    BY <2>1, <2>4, <2>6, <2>7, SameHistory DEF SegmentsOK
<1>13. CASE RemovesOldest
  <2>1. segment' = [segment EXCEPT ![Segments - 1] = Absent] /\ UNCHANGED kind
    BY <1>13 DEF RemovesOldest, historyVars
  <2>2. \A i \in Index : \/ segment'[i] = Absent
                         \/ segment'[i] = segment[i] /\ Marks(i)' = Marks(i)
    BY <1>1, <1>2, <2>1 DEF Marks
  <2>3. segment' \in [Index -> File \cup {Absent}]
    BY <1>2, <2>1
  <2> QED
    BY <2>1, <2>2, <2>3, SameHistory, MarksFacts DEF SegmentsOK
<1>14. CASE Renames
  <2>1. PICK t \in Index : t = target
    BY <1>2
  <2>2. t + 1 \in Index /\ UNCHANGED kind
    BY <1>14, <2>1 DEF Renames, RotationInv, historyVars
  <2>3. \/ segment[t] = Absent /\ UNCHANGED segment
        \/ /\ segment[t] # Absent
           /\ segment' \in [Index -> File \cup {Absent}]
           /\ segment'[t + 1] = segment[t] /\ segment'[t] = Absent
           /\ Marks(t + 1)' = Marks(t) /\ Marks(t)' = <<>>
           /\ \A i \in Index \ {t, t + 1} : segment'[i] = segment[i] /\ Marks(i)' = Marks(i)
    BY <1>14, <2>1, <2>2, RenameFacts
  <2> QED
    BY <2>2, <2>3, SegmentsSame, SameHistory, MarksFacts DEF SegmentsOK
<1>15. CASE Creates
  <2>1. segment' = [segment EXCEPT ![0] = Empty] /\ UNCHANGED kind
    BY <1>15 DEF Creates, historyVars
  <2>2. Empty \in File /\ Empty.durable = 0 /\ Empty.marks = <<>>
    BY DEF Empty, File
  <2>3. /\ segment' \in [Index -> File \cup {Absent}] /\ segment'[0] = Empty
        /\ \A i \in Index \ {0} : segment'[i] = segment[i]
    BY <1>1, <1>2, <2>1, <2>2
  <2>4. Marks(0)' = <<>> /\ \A i \in Index \ {0} : Marks(i)' = Marks(i)
    BY <1>2, <2>2, <2>3 DEF Marks
  <2>5. segment'[0].durable <= Len(Marks(0)')
    BY <2>2, <2>3, <2>4
  <2> QED
    BY <2>1, <2>3, <2>4, <2>5, SameHistory, MarksFacts DEF SegmentsOK
<1>16. CASE Prunes
  <2>1. PICK t \in Index : t = target
    BY <1>2
  <2>2. UNCHANGED kind
    BY <1>16 DEF Prunes, historyVars
  <2>3. CASE UNCHANGED fileVars
    BY <2>2, <2>3, SegmentsSame DEF fileVars
  <2>4. CASE ~UNCHANGED fileVars
    <3>1. /\ segment' \in [Index -> File \cup {Absent}]
          /\ Marks(t)' \in Rewritten(Marks(t), KeptAt(t))
          /\ segment'[t].durable = Len(Marks(t)')
          /\ \A i \in Index \ {t} : segment'[i] = segment[i] /\ Marks(i)' = Marks(i)
      BY <1>16, <2>1, <2>4, PruneFacts
    <3>2. Marks(t)' \in Seq(Mark)
      <4>1. Marks(t) \in Seq(Mark) /\ KeptAt(t) \in SUBSET DOMAIN Marks(t) /\ Newline \in Mark
        BY MarksFacts DEF KeptAt, Mark
      <4> QED
        BY <3>1, <4>1, RewrittenLines
    <3>3. segment'[t].durable <= Len(Marks(t)')
      BY <3>1, <3>2
    <3> QED
      BY <2>2, <3>1, <3>3, SameHistory, MarksFacts DEF SegmentsOK
  <2> QED
    BY <2>3, <2>4
<1>17. CASE Fails
  <2>1. UNCHANGED kind
    BY <1>17 DEF Fails
  <2>2. /\ <<>> \in Seq(Mark) /\ <<Fragment>> \in Seq(Mark)
        /\ (pending # <<>> => <<Head(pending)>> \in Seq(Mark))
    BY <1>2 DEF Mark
  <2>3. step = "draining" => pending # <<>>
    BY <1>17 DEF Fails
  <2> QED
    BY <1>17, <2>1, <2>2, <2>3, SegmentsSame, SegmentsAppend DEF Fails
<1>18. CASE ManagerStops
  BY <1>18, SegmentsSame DEF ManagerStops, Restarts
<1>19. CASE PowerFails
  <2>1. UNCHANGED kind
    BY <1>19 DEF PowerFails, Restarts
  <2>2. \A i \in Index : segment'[i] # Absent =>
          segment'[i].durable = Len(Marks(i)') /\ Len(Marks(i)') <= Len(Marks(i))
    BY <1>19, PowerFacts
  <2>3. segment' \in [Index -> File \cup {Absent}]
    BY <1>19, PowerFacts
  <2>4. \A i \in Index : segment'[i] # Absent => Marks(i)' \in Seq(Mark)
    BY <2>3 DEF Marks, File, Mark
  <2>5. \A i \in Index : segment'[i] # Absent => segment'[i].durable <= Len(Marks(i)')
    BY <2>2, <2>4
  <2> QED
    BY <2>1, <2>3, <2>5, SameHistory DEF SegmentsOK
<1>20. CASE UNCHANGED vars
  BY <1>20, SegmentsSame DEF vars, fileVars, historyVars
<1> QED
  BY <1>3, <1>4, <1>5, <1>6, <1>7, <1>8, <1>9, <1>10, <1>11, <1>12, <1>13, <1>14, <1>15,
     <1>16, <1>17, <1>18, <1>19, <1>20, <1>21 DEF Next

LEMMA CallStep ==
    ASSUME JournalTypeOK, CallInv, RotationInv, [Next]_vars
    PROVE  ControlOK' /\ CallInv' /\ RotationInv'
<1> DEFINE Goal == ControlOK' /\ CallInv' /\ RotationInv'
<1>1. ControlOK /\ 0 \in Index /\ Segments - 1 \in Index /\ Segments - 2 \in Index
      /\ (Segments - 2) + 1 = Segments - 1
  BY FirstSegment DEF JournalTypeOK, ControlOK
<1>2. UNCHANGED kind => Event' = Event
  BY SameHistory
<1>3. segment \in [Index -> File \cup {Absent}]
  BY DEF JournalTypeOK
<1>4. CASE Opens
  <2>1. CASE UncleanShutdown
    <3>1. /\ call' = "critical" /\ step' = "flushing" /\ kind' = Append(kind, "unclean")
          /\ UNCHANGED <<segment, dropped, acked, expired, target, resume>>
          /\ UNCHANGED memoryVars
      BY <1>4, <2>1 DEF Opens, fileVars, Begin
    <3>2. "unclean" \in Kind
      BY DEF Kind
    <3> QED
      BY <1>1, <3>1, <3>2, EventBegins
         DEF ControlOK, CallInv, RotationInv, Flushing, Rotating, memoryVars
  <2>2. CASE ~UncleanShutdown
    BY <1>1, <1>2, <1>4, <2>2
       DEF Opens, fileVars, memoryVars, ControlOK, CallInv, RotationInv, Flushing, Rotating
  <2> QED
    BY <2>1, <2>2
<1>5. CASE Batch
  <2>1. PICK k \in Kind : kind' = Append(kind, k)
    BY <1>5 DEF Batch
  <2>2. /\ pending' = Append(pending, Len(kind'))
        /\ dirty' = TRUE /\ healthy' = TRUE /\ step = "ready"
        /\ UNCHANGED <<segment, dropped, acked, expired, target, resume, call, step>>
    BY <1>5 DEF Batch, fileVars, callVars
  <2> QED
    BY <1>1, <2>1, <2>2, EventBegins DEF ControlOK, CallInv, RotationInv, Flushing, Rotating
<1>6. CASE Critical
  <2>1. /\ call' = "critical" /\ step' = "flushing" /\ kind' = Append(kind, "incident")
        /\ UNCHANGED <<segment, dropped, acked, expired, target, resume>>
        /\ UNCHANGED memoryVars
    BY <1>6 DEF Critical, fileVars, Begin
  <2>2. "incident" \in Kind
    BY DEF Kind
  <2> QED
    BY <1>1, <2>1, <2>2, EventBegins
       DEF ControlOK, CallInv, RotationInv, Flushing, Rotating, memoryVars
<1>7. CASE Flush
  BY <1>1, <1>2, <1>7
     DEF Flush, Begin, fileVars, memoryVars, historyVars, ControlOK, CallInv, RotationInv,
         Flushing, Rotating
<1>8. CASE Ages
  BY <1>1, <1>2, <1>8
     DEF Ages, fileVars, callVars, memoryVars, ControlOK, CallInv, RotationInv,
         Flushing, Rotating
<1>9. CASE FlushBegins
  BY <1>1, <1>2, <1>9
     DEF FlushBegins, Flushed, fileVars, memoryVars, historyVars, ControlOK, CallInv,
         RotationInv, Flushing, Rotating
<1>24. CASE OpensFile
  BY <1>1, <1>2, <1>24
     DEF OpensFile, memoryVars, historyVars, ControlOK, CallInv, RotationInv, Flushing, Rotating
<1>10. CASE Drains
  <2>1. pending' \in Seq(Event) /\ (pending' # <<>> => dirty')
    BY <1>1, <1>10 DEF Drains, ControlOK
  <2> QED
    BY <1>1, <1>2, <1>10, <2>1
       DEF Drains, callVars, historyVars, ControlOK, CallInv, RotationInv, Flushing, Rotating
<1>11. CASE Drained
  BY <1>1, <1>2, <1>11
     DEF Drained, Flushed, fileVars, memoryVars, historyVars, ControlOK, CallInv,
         RotationInv, Flushing, Rotating
<1>12. CASE MakesRoom
  BY <1>1, <1>2, <1>12
     DEF MakesRoom, fileVars, memoryVars, historyVars, ControlOK, CallInv,
         RotationInv, Flushing, Rotating
<1>13. CASE Writes
  BY <1>1, <1>2, <1>13
     DEF Writes, memoryVars, historyVars, ControlOK, CallInv, RotationInv, Flushing, Rotating
<1>14. CASE EndsLine
  BY <1>1, <1>2, <1>14
     DEF EndsLine, memoryVars, historyVars, ControlOK, CallInv, RotationInv, Flushing, Rotating
<1>15. CASE Saves
  <2>1. acked' \subseteq Event
    BY <1>1, <1>15 DEF Saves, ControlOK, CallInv, TheEvent, Event
  <2>2. pending = <<>>
    BY <1>15 DEF Saves, CallInv, Flushing
  <2> QED
    BY <1>1, <1>2, <1>15, <2>1, <2>2
       DEF Saves, ControlOK, CallInv, RotationInv, Flushing, Rotating
<1>16. CASE NothingToSave
  BY <1>1, <1>2, <1>16
     DEF NothingToSave, fileVars, historyVars, ControlOK, CallInv, RotationInv,
         Flushing, Rotating
<1>17. CASE RemovesOldest
  <2>1. Texts(Marks(Segments - 1)) \subseteq Event
    BY <1>1, MarksFacts, TextFacts DEF Texts, ControlOK
  <2>2. segment'[(Segments - 2) + 1] = Absent
    BY <1>1, <1>3, <1>17 DEF RemovesOldest
  <2> QED
    BY <1>1, <1>2, <1>17, <2>1, <2>2
       DEF RemovesOldest, memoryVars, historyVars, ControlOK, CallInv, RotationInv,
           Flushing, Rotating
<1>18. CASE Renames
  <2>1. PICK t \in Index : t = target
    BY <1>1 DEF ControlOK
  <2>2. t + 1 \in Index
    BY <1>18, <2>1 DEF Renames, RotationInv
  <2>3. segment'[t] = Absent
    BY <1>18, <2>1, <2>2, RenameFacts
  <2>4. CASE target = 0
    BY <1>1, <1>2, <1>18, <2>1, <2>3, <2>4
       DEF Renames, memoryVars, historyVars, ControlOK, CallInv, RotationInv,
           Flushing, Rotating
  <2>5. CASE target # 0
    <3>1. target' = t - 1 /\ t - 1 \in Index /\ (t - 1) + 1 = t /\ step' = "renaming"
      BY <1>18, <2>1, <2>5 DEF Renames, Index
    <3> QED
      BY <1>1, <1>2, <1>18, <2>1, <2>3, <3>1
         DEF Renames, memoryVars, historyVars, ControlOK, CallInv, RotationInv,
             Flushing, Rotating
  <2> QED
    BY <2>4, <2>5
<1>19. CASE Creates
  BY <1>1, <1>2, <1>19
     DEF Creates, memoryVars, historyVars, ControlOK, CallInv, RotationInv,
         Flushing, Rotating
<1>20. CASE Prunes
  <2>1. Texts(Marks(target)) \subseteq Event
    BY <1>1, MarksFacts, TextFacts DEF Texts, ControlOK
  <2>2. dropped' \subseteq Event
    BY <1>1, <1>20, <2>1 DEF Prunes, fileVars, ControlOK
  <2>3. target # Segments - 1 => target + 1 \in Index
    BY <1>1 DEF ControlOK, Index
  <2> QED
    BY <1>1, <1>2, <1>20, <2>2, <2>3
       DEF Prunes, memoryVars, historyVars, ControlOK, CallInv, RotationInv,
           Flushing, Rotating
<1>21. CASE Fails
  <2>1. /\ pending' \in {pending, <<>>} /\ step' = "ready" /\ call' = "none"
        /\ healthy' = FALSE
        /\ target' = 0 /\ resume' = "filing"
        /\ UNCHANGED <<dropped, dirty, kind, expired, acked>>
    BY <1>21 DEF Fails
  <2>2. pending' \in Seq(Event) /\ (pending' # <<>> => dirty')
    <3>1. <<>> \in Seq(Event)
      OBVIOUS
    <3>2. CASE pending' = pending
      BY <1>1, <2>1, <3>2 DEF ControlOK
    <3>3. CASE pending' = <<>>
      BY <3>1, <3>3
    <3> QED
      BY <2>1, <3>2, <3>3
  <2>3. ControlOK'
    BY <1>1, <1>2, <2>1, <2>2 DEF ControlOK, Index
  <2> QED
    BY <2>1, <2>3 DEF CallInv, RotationInv, Flushing, Rotating
<1>22. ASSUME Restarts PROVE Goal
  <2>1. /\ pending' = <<>> /\ step' = "opening" /\ call' = "none"
        /\ healthy' = TRUE /\ dirty' = FALSE
        /\ target' = 0 /\ resume' = "filing"
        /\ UNCHANGED <<dropped, kind, expired, acked>>
    BY <1>22 DEF Restarts
  <2>2. pending' \in Seq(Event) /\ (pending' # <<>> => dirty')
    BY <2>1
  <2>3. ControlOK'
    BY <1>1, <1>2, <2>1, <2>2 DEF ControlOK, Index
  <2> QED
    BY <2>1, <2>3 DEF CallInv, RotationInv, Flushing, Rotating
<1>23. CASE UNCHANGED vars
  BY <1>1, <1>2, <1>23
     DEF vars, fileVars, callVars, memoryVars, historyVars, ControlOK, CallInv, RotationInv,
         Flushing, Rotating
<1> QED
  BY <1>4, <1>5, <1>6, <1>7, <1>8, <1>9, <1>10, <1>11, <1>12, <1>13, <1>14, <1>15,
     <1>16, <1>17, <1>18, <1>19, <1>20, <1>21, <1>22, <1>23, <1>24
     DEF Next, ManagerStops, PowerFails

LEMMA JournalTypesInductive == Spec => [](JournalTypeOK /\ CallInv /\ RotationInv)
<1>1. JournalTypeOK /\ CallInv /\ RotationInv /\ [Next]_vars
        => (JournalTypeOK /\ CallInv /\ RotationInv)'
  <2>1. SegmentsOK' /\ ControlOK' => JournalTypeOK'
    BY DEF SegmentsOK, ControlOK, JournalTypeOK
  <2> QED
    BY <2>1, SegmentsStep, CallStep
<1> QED
  BY <1>1, JournalInit, PTL DEF Spec

\* Whatever stops or fails in the middle of a call of OperationalLog, its files and
\* its memory are well formed, and sync() skips nothing that is pending.
THEOREM JournalTypeCorrect == Spec => []JournalTypeOK
  BY JournalTypesInductive, PTL

-----------------------------------------------------------------------------
(* The order of the log.                                                   *)

\* The k-th mark of the i-th segment is read before the l-th of the j-th.
Before(i, k, j, l) == i > j \/ (i = j /\ k < l)

\* Each text of the new segments was there before, and two of them in the same
\* order.
Moved ==
    /\ \A i \in Index : \A k \in DOMAIN Marks(i)' : Text(Marks(i)'[k]) =>
          \E a \in Index : \E c \in DOMAIN Marks(a) : Marks(a)[c] = Marks(i)'[k]
    /\ \A i, j \in Index : \A k \in DOMAIN Marks(i)', l \in DOMAIN Marks(j)' :
          Text(Marks(i)'[k]) /\ Text(Marks(j)'[l]) /\ Before(i, k, j, l) =>
            \E a, b \in Index : \E c \in DOMAIN Marks(a), d \in DOMAIN Marks(b) :
                /\ Before(a, c, b, d)
                /\ Marks(a)[c] = Marks(i)'[k] /\ Marks(b)[d] = Marks(j)'[l]

LEMMA OrderMoves ==
    ASSUME OrderKept, Moved, pending' = pending \/ pending' = <<>>
    PROVE  OrderKept'
<1>1. ASSUME NEW i \in Index, NEW j \in Index,
             NEW k \in DOMAIN Marks(i)', NEW l \in DOMAIN Marks(j)',
             Text(Marks(i)'[k]), Text(Marks(j)'[l]), i > j \/ (i = j /\ k < l)
      PROVE  Marks(i)'[k] < Marks(j)'[l]
  BY <1>1 DEF Moved, Before, OrderKept
<1>2. ASSUME NEW i \in Index, NEW e \in Texts(Marks(i)'), NEW n \in DOMAIN pending'
      PROVE  e < pending'[n]
  <2>1. PICK k \in DOMAIN Marks(i)' : Marks(i)'[k] = e /\ Text(e)
    BY <1>2 DEF Texts
  <2>2. PICK a \in Index : \E c \in DOMAIN Marks(a) : Marks(a)[c] = e
    BY <2>1 DEF Moved
  <2>3. e \in Texts(Marks(a))
    BY <2>1, <2>2 DEF Texts
  <2> QED
    BY <1>2, <2>3 DEF OrderKept
<1>3. ASSUME NEW m \in DOMAIN pending', NEW n \in DOMAIN pending', m < n
      PROVE  pending'[m] < pending'[n]
  BY <1>3 DEF OrderKept
<1> QED
  BY <1>1, <1>2, <1>3 DEF OrderKept, Texts

LEMMA OrderStays ==
    ASSUME OrderKept, UNCHANGED segment, pending' = pending \/ pending' = <<>>
    PROVE  OrderKept'
<1>1. \A i : Marks(i)' = Marks(i)
  BY DEF Marks
<1>2. Moved
  BY <1>1 DEF Moved
<1> QED
  BY <1>2, OrderMoves

\* Appending one text, later than all the log holds and earlier than what is
\* still pending.
LEMMA OrderAppends ==
    ASSUME JournalTypeOK, OrderKept, NEW e \in Event, NEW m \in {<<e>>, <<e, Newline>>},
           Append0(m),
           \A i \in Index : \A k \in DOMAIN Marks(i) : Text(Marks(i)[k]) => Marks(i)[k] < e,
           pending' \in Seq(Nat),
           \A n \in DOMAIN pending' : e < pending'[n] /\
              \E l \in DOMAIN pending : pending'[n] = pending[l],
           \A l, n \in DOMAIN pending' : l < n => pending'[l] < pending'[n]
    PROVE  OrderKept'
<1>0. 0 \in Index /\ kind \in Seq(Kind) /\ Marks(0) \in Seq(Mark) /\ m \in Seq(Mark)
  <2>1. e \in Mark /\ Newline \in Mark
    BY DEF Mark
  <2>2. <<e>> \in Seq(Mark) /\ <<e, Newline>> \in Seq(Mark)
    BY <2>1
  <2>3. m \in Seq(Mark)
    BY <2>2
  <2> QED
    BY <2>3, FirstSegment, MarksFacts DEF JournalTypeOK
<1>1. /\ Marks(0)' = Marks(0) \o m
      /\ \A i \in Index \ {0} : Marks(i)' = Marks(i)
  BY <1>0, AppendFacts
<1>2. \A k \in DOMAIN Marks(0)' : Text(Marks(0)'[k]) =>
        \/ k \in DOMAIN Marks(0) /\ Marks(0)'[k] = Marks(0)[k]
        \/ k = Len(Marks(0)) + 1 /\ Marks(0)'[k] = e
  <2>1. /\ Len(Marks(0)) \in Nat /\ Len(m) \in 1..2
        /\ m[1] = e /\ (Len(m) = 2 => m[2] = Newline)
    BY <1>0
  <2>2. /\ DOMAIN Marks(0)' = 1..(Len(Marks(0)) + Len(m))
        /\ \A k \in 1..Len(Marks(0)) : k \in DOMAIN Marks(0) /\ Marks(0)'[k] = Marks(0)[k]
        /\ \A k \in 1..Len(m) : Marks(0)'[Len(Marks(0)) + k] = m[k]
    BY <1>0, <1>1
  <2>3. ASSUME NEW k \in DOMAIN Marks(0)', Text(Marks(0)'[k]), k > Len(Marks(0))
        PROVE  k = Len(Marks(0)) + 1 /\ Marks(0)'[k] = e
    <3>1. k = Len(Marks(0)) + 1 \/ (k = Len(Marks(0)) + 2 /\ Len(m) = 2)
      <4>1. \A L \in Nat, n \in 1..2 : \A x \in 1..(L + n) :
              x > L => x = L + 1 \/ (x = L + 2 /\ n = 2)
        OBVIOUS
      <4>2. k \in 1..(Len(Marks(0)) + Len(m))
        BY <2>2
      <4> QED
        BY <2>1, <2>3, <4>1, <4>2
    <3>2. CASE k = Len(Marks(0)) + 1
      BY <2>1, <2>2, <3>2
    <3>3. CASE k = Len(Marks(0)) + 2 /\ Len(m) = 2
      BY <2>1, <2>2, <2>3, <3>3 DEF Text
    <3> QED
      BY <3>1, <3>2, <3>3
  <2> QED
    BY <2>1, <2>2, <2>3
<1>3. ASSUME NEW i \in Index, NEW k \in DOMAIN Marks(i)', Text(Marks(i)'[k])
      PROVE  \/ k \in DOMAIN Marks(i) /\ Marks(i)'[k] = Marks(i)[k]
             \/ i = 0 /\ k = Len(Marks(0)) + 1 /\ Marks(i)'[k] = e
  BY <1>1, <1>2, <1>3
<1>4. ASSUME NEW i \in Index, NEW j \in Index,
             NEW k \in DOMAIN Marks(i)', NEW l \in DOMAIN Marks(j)',
             Text(Marks(i)'[k]), Text(Marks(j)'[l]), i > j \/ (i = j /\ k < l)
      PROVE  Marks(i)'[k] < Marks(j)'[l]
  <2>1. i \in Nat /\ j \in Nat /\ (k \in DOMAIN Marks(0) => k <= Len(Marks(0)))
        /\ (l \in DOMAIN Marks(0) => l <= Len(Marks(0)) /\ l \in Nat)
        /\ Len(Marks(0)) \in Nat
    BY <1>0 DEF Index
  <2>2. CASE k \in DOMAIN Marks(i) /\ Marks(i)'[k] = Marks(i)[k]
    <3>1. CASE l \in DOMAIN Marks(j) /\ Marks(j)'[l] = Marks(j)[l]
      BY <1>4, <2>2, <3>1 DEF OrderKept
    <3>2. CASE j = 0 /\ l = Len(Marks(0)) + 1 /\ Marks(j)'[l] = e
      BY <1>4, <2>2, <3>2
    <3> QED
      BY <1>3, <1>4, <3>1, <3>2
  <2>3. CASE i = 0 /\ k = Len(Marks(0)) + 1 /\ Marks(i)'[k] = e
    <3>1. j = 0 /\ k < l
      BY <1>4, <2>1, <2>3
    <3> QED
      BY <1>3, <1>4, <2>1, <2>3, <3>1
  <2> QED
    BY <1>3, <1>4, <2>2, <2>3
<1>5. ASSUME NEW i \in Index, NEW f \in Texts(Marks(i)'), NEW n \in DOMAIN pending'
      PROVE  f < pending'[n]
  <2>1. PICK k \in DOMAIN Marks(i)' : Marks(i)'[k] = f /\ Text(f)
    BY <1>5 DEF Texts
  <2>2. CASE k \in DOMAIN Marks(i) /\ Marks(i)'[k] = Marks(i)[k]
    <3>1. f \in Texts(Marks(i))
      BY <2>1, <2>2 DEF Texts
    <3> QED
      BY <3>1 DEF OrderKept
  <2>3. CASE Marks(i)'[k] = e
    BY <2>1, <2>3
  <2> QED
    BY <1>3, <2>1, <2>2, <2>3
<1> QED
  BY <1>4, <1>5 DEF OrderKept, Texts

LEMMA MovedInPlace ==
    ASSUME \A i \in Index : \A k \in DOMAIN Marks(i)' : Text(Marks(i)'[k]) =>
              k \in DOMAIN Marks(i) /\ Marks(i)'[k] = Marks(i)[k]
    PROVE  Moved
  BY DEF Moved

\* Rotation, pruning and a power failure put no text where it was not, and none
\* before another that was read before it.
LEMMA FilesMove ==
    ASSUME JournalTypeOK, RotationInv,
           RemovesOldest \/ Renames \/ Creates \/ Prunes \/ PowerFails
    PROVE  Moved
<1>0. /\ 0 \in Index /\ Segments - 1 \in Index /\ Index \subseteq Nat
      /\ segment \in [Index -> File \cup {Absent}] /\ target \in Index
      /\ Absent \notin File
  BY FirstSegment, FileIsThere DEF JournalTypeOK, Index
<1>1. CASE RemovesOldest
  <2>1. \A i \in Index : Marks(i)' = Marks(i) \/ Marks(i)' = <<>>
    BY <1>0, <1>1 DEF RemovesOldest, Marks
  <2> QED
    BY <2>1, MovedInPlace
<1>2. CASE Renames
  <2>1. PICK t \in Index : t = target
    BY <1>0
  <2>2. t + 1 \in Index
    BY <1>2, <2>1 DEF Renames, RotationInv
  <2>3. CASE UNCHANGED segment
    <3>1. \A i : Marks(i)' = Marks(i)
      BY <2>3 DEF Marks
    <3> QED
      BY <3>1, MovedInPlace
  <2>4. CASE ~UNCHANGED segment
    <3>1. /\ Marks(t + 1)' = Marks(t) /\ Marks(t)' = <<>>
          /\ \A i \in Index \ {t, t + 1} : Marks(i)' = Marks(i)
      BY <1>2, <2>1, <2>2, <2>4, RenameFacts
    <3> DEFINE from == [i \in Index |-> IF i = t + 1 THEN t ELSE i]
    <3>2. \A i \in Index : from[i] \in Index
      BY <2>1
    <3>3. \A i \in Index : Marks(i)' = <<>> \/ (i # t /\ Marks(i)' = Marks(from[i]))
      BY <3>1
    <3>4. \A i, j \in Index : i # t /\ j # t /\ i > j => from[i] > from[j]
      BY <1>0, <2>1
    <3>5. \A i, j \in Index : i = j => from[i] = from[j]
      OBVIOUS
    <3> HIDE DEF from
    <3> QED
      BY <3>2, <3>3, <3>4, <3>5 DEF Moved, Before
  <2> QED
    BY <2>3, <2>4
<1>3. CASE Creates
  <2>1. \A i \in Index : Marks(i)' = Marks(i) \/ Marks(i)' = <<>>
    BY <1>0, <1>3 DEF Creates, Marks, Empty
  <2> QED
    BY <2>1, MovedInPlace
<1>4. CASE Prunes
  <2>1. PICK t \in Index : t = target
    BY <1>0
  <2>2. CASE UNCHANGED fileVars
    <3>1. \A i : Marks(i)' = Marks(i)
      BY <2>2 DEF Marks, fileVars
    <3> QED
      BY <3>1, MovedInPlace
  <2>3. CASE ~UNCHANGED fileVars
    <3>1. /\ Marks(t)' \in Rewritten(Marks(t), KeptAt(t))
          /\ \A i \in Index \ {t} : Marks(i)' = Marks(i)
      BY <1>4, <2>1, <2>3, PruneFacts
    <3>2. /\ Marks(t) \in Seq(Mark) /\ KeptAt(t) \in SUBSET DOMAIN Marks(t)
          /\ Newline \in Mark /\ \A k \in KeptAt(t) : Text(Marks(t)[k])
      BY MarksFacts DEF KeptAt, Mark, Retained, Readable, IsLine
    <3>3. /\ \A j \in DOMAIN Marks(t)' : Marks(t)'[j] # Newline =>
               \E k \in KeptAt(t) : Marks(t)'[j] = Marks(t)[k]
          /\ \A j, l \in DOMAIN Marks(t)' :
               j < l /\ Marks(t)'[j] # Newline /\ Marks(t)'[l] # Newline =>
               \E a, b \in KeptAt(t) :
                  a < b /\ Marks(t)'[j] = Marks(t)[a] /\ Marks(t)'[l] = Marks(t)[b]
      <4> DEFINE s == Marks(t)
                 r == Marks(t)'
                 K == KeptAt(t)
      <4>1. /\ r \in Rewritten(s, K) /\ s \in Seq(Mark) /\ K \in SUBSET DOMAIN s
            /\ Newline \in Mark /\ \A k \in K : Text(s[k])
        BY <3>1, <3>2
      <4> HIDE DEF s, r, K
      <4>2. \A j \in DOMAIN r : r[j] # Newline =>
               /\ IsLine(r, j) /\ j < Len(r) /\ r[j + 1] = Newline
               /\ \E k \in K : r[j] = s[k]
        BY <4>1, RewrittenFacts
      <4>3. \A j, l \in DOMAIN r : j < l /\ r[j] # Newline /\ r[l] # Newline =>
               \E a, b \in K : a < b /\ r[j] = s[a] /\ r[l] = s[b]
        BY <4>1, RewrittenFacts
      <4> QED
        BY <4>2, <4>3 DEF s, r, K
    <3>4. \A m : Text(m) => m # Newline
      BY DEF Text
    <3>5. \A i \in Index : \A k \in DOMAIN Marks(i)' : Text(Marks(i)'[k]) =>
            \E c \in DOMAIN Marks(i) : Marks(i)[c] = Marks(i)'[k]
      BY <3>1, <3>2, <3>3, <3>4
    <3>6. \A i \in Index : \A k, l \in DOMAIN Marks(i)' :
            Text(Marks(i)'[k]) /\ Text(Marks(i)'[l]) /\ k < l =>
            \E c, d \in DOMAIN Marks(i) :
              c < d /\ Marks(i)[c] = Marks(i)'[k] /\ Marks(i)[d] = Marks(i)'[l]
      BY <3>1, <3>2, <3>3, <3>4
    <3>7. ASSUME NEW i \in Index, NEW j \in Index,
                 NEW k \in DOMAIN Marks(i)', NEW l \in DOMAIN Marks(j)',
                 Text(Marks(i)'[k]), Text(Marks(j)'[l]), Before(i, k, j, l)
          PROVE  \E a, b \in Index : \E c \in DOMAIN Marks(a), d \in DOMAIN Marks(b) :
                    /\ Before(a, c, b, d)
                    /\ Marks(a)[c] = Marks(i)'[k] /\ Marks(b)[d] = Marks(j)'[l]
      <4>1. CASE i > j
        BY <3>5, <3>7, <4>1 DEF Before
      <4>2. CASE i = j /\ k < l
        BY <3>6, <3>7, <4>2 DEF Before
      <4> QED
        BY <3>7, <4>1, <4>2 DEF Before
    <3> QED
      BY <3>5, <3>7 DEF Moved
  <2> QED
    BY <2>2, <2>3
<1>5. CASE PowerFails
  <2>1. \A i \in Index : \A k \in DOMAIN Marks(i)' : Text(Marks(i)'[k]) =>
          k \in DOMAIN Marks(i) /\ Marks(i)'[k] = Marks(i)[k]
    BY <1>5, PowerFacts DEF Text
  <2> QED
    BY <2>1, MovedInPlace
<1> QED
  BY <1>1, <1>2, <1>3, <1>4, <1>5

\* A critical event that is not in the file yet is later than all that is.
Unwritten == call = "critical" /\ step \notin {"ending", "saving"}

FreshInv ==
    /\ Unwritten => \A i \in Index : \A k \in DOMAIN Marks(i) : Marks(i)[k] # TheEvent
    /\ call = "critical" => \A n \in DOMAIN pending : pending[n] # TheEvent

\* What moves stays fresh, and what is not a text is no event.
LEMMA FreshMoves ==
    ASSUME JournalTypeOK, CallInv, FreshInv, Moved, UNCHANGED kind,
           pending' = pending \/ pending' = <<>>,
           call' = "critical" => call = "critical", Unwritten' => Unwritten
    PROVE  FreshInv'
<1>1. TheEvent' = TheEvent /\ kind \in Seq(Kind)
  BY SameHistory DEF JournalTypeOK
<1>2. ASSUME Unwritten', NEW i \in Index, NEW k \in DOMAIN Marks(i)' PROVE Marks(i)'[k] # TheEvent
  <2>1. Unwritten /\ TheEvent \in Event
    <3>1. Unwritten /\ Len(kind) > 0 /\ Len(kind) \in Nat
      BY <1>1, <1>2 DEF CallInv, Unwritten
    <3> QED
      BY <3>1 DEF TheEvent, Event
  <2> QED
    BY <1>1, <1>2, <2>1, TextFacts DEF Moved, FreshInv, Mark
<1>3. call' = "critical" => \A n \in DOMAIN pending' : pending'[n] # TheEvent
  BY DEF FreshInv
<1> QED
  BY <1>1, <1>2, <1>3 DEF FreshInv

\* Appending marks that are no texts, or saving, moves nothing.
LEMMA NoTextMoves ==
    ASSUME JournalTypeOK, NEW a \in {Newline, Fragment}, Append0(<<a>>)
    PROVE  Moved
<1>1. Marks(0) \in Seq(Mark) /\ a \in Mark /\ <<a>> \in Seq(Mark) /\ ~Text(a)
  BY FirstSegment, MarksFacts DEF Mark, Text
<1>2. Marks(0)' = Marks(0) \o <<a>> /\ \A i \in Index \ {0} : Marks(i)' = Marks(i)
  BY <1>1, AppendFacts
<1>3. \A k \in DOMAIN Marks(0)' : Text(Marks(0)'[k]) =>
        k \in DOMAIN Marks(0) /\ Marks(0)'[k] = Marks(0)[k]
  <2>1. /\ DOMAIN (Marks(0) \o <<a>>) = DOMAIN Marks(0) \cup {Len(Marks(0)) + 1}
        /\ \A k \in DOMAIN Marks(0) : (Marks(0) \o <<a>>)[k] = Marks(0)[k]
        /\ (Marks(0) \o <<a>>)[Len(Marks(0)) + 1] = a
    BY <1>1, OneMore
  <2> QED
    BY <1>1, <1>2, <2>1
<1> QED
  BY <1>2, <1>3, MovedInPlace

LEMMA SameMoves == ASSUME \A i \in Index : Marks(i)' = Marks(i) PROVE Moved
  BY MovedInPlace

LEMMA SavesMarks ==
    ASSUME JournalTypeOK, Saves PROVE \A i \in Index : Marks(i)' = Marks(i)
<1>1. /\ segment[0] # Absent /\ 0 \in Index /\ segment[0] \in File /\ Absent \notin File
      /\ segment \in [Index -> File \cup {Absent}] /\ Marks(0) = segment[0].marks
      /\ Marks(0) \in Seq(Mark)
  BY FirstSegment, FileIsThere, MarksFacts DEF Saves, JournalTypeOK
<1> DEFINE new == [segment[0] EXCEPT !.durable = Len(Marks(0))]
<1>2. segment' = [segment EXCEPT ![0] = new]
  BY DEF Saves
<1>3. new \in File /\ new.marks = Marks(0)
  BY <1>1 DEF File
<1> HIDE DEF new
<1> QED
  BY <1>1, <1>2, <1>3 DEF Marks

LEMMA OrderInit == Init => OrderKept /\ FreshInv
  BY DEF Init, OrderKept, FreshInv, Unwritten, Marks, Texts

LEMMA OrderStep ==
    ASSUME JournalTypeOK, CallInv, RotationInv, OrderKept, FreshInv, [Next]_vars
    PROVE  OrderKept' /\ FreshInv'
<1>0. /\ kind \in Seq(Kind) /\ Len(kind) \in Nat /\ pending \in Seq(Event) /\ 0 \in Index
      /\ \A i \in Index : Marks(i) \in Seq(Mark)
      /\ \A e \in Event : e \in Nat /\ e <= Len(kind)
  BY FirstSegment, MarksFacts DEF JournalTypeOK, Event
<1>00. \A i \in Index : \A k \in DOMAIN Marks(i) :
          Marks(i)[k] \in Mark /\ (Text(Marks(i)[k]) => Marks(i)[k] \in Event)
  BY <1>0, TextFacts
<1>1. ASSUME Moved, UNCHANGED kind, pending' = pending \/ pending' = <<>>,
             call' = "critical" => call = "critical", Unwritten' => Unwritten
      PROVE  OrderKept' /\ FreshInv'
  BY <1>1, OrderMoves, FreshMoves
<1>2. ASSUME UNCHANGED <<segment, kind>>, pending' = pending \/ pending' = <<>>,
             call' = "critical" => call = "critical", Unwritten' => Unwritten
      PROVE  OrderKept' /\ FreshInv'
  <2>1. \A i \in Index : Marks(i)' = Marks(i)
    BY <1>2 DEF Marks
  <2> QED
    BY <1>1, <1>2, <2>1, SameMoves
<1>3. ASSUME NEW k \in Kind, kind' = Append(kind, k), UNCHANGED <<segment, pending>>
      PROVE  OrderKept' /\ FreshInv'
  <2>1. TheEvent' = Len(kind) + 1 /\ TheEvent' \in Nat /\ TheEvent' \notin Event
    BY <1>0, <1>3, HistoryGrows DEF TheEvent
  <2>2. \A i : Marks(i)' = Marks(i)
    BY <1>3 DEF Marks
  <2>3. \A i \in Index : \A n \in DOMAIN Marks(i)' : Marks(i)'[n] # TheEvent'
    BY <1>00, <2>1, <2>2, MarksAssumption DEF Mark
  <2>4. \A n \in DOMAIN pending' : pending'[n] # TheEvent'
    BY <1>0, <1>3, <2>1
  <2> QED
    BY <1>3, <2>3, <2>4, OrderStays DEF FreshInv
<1>4. CASE Opens
  <2>1. CASE UncleanShutdown
    BY <1>3, <1>4, <2>1 DEF Opens, Kind, fileVars, memoryVars
  <2>2. CASE ~UncleanShutdown
    BY <1>2, <1>4, <2>2 DEF Opens, fileVars, memoryVars, Unwritten
  <2> QED
    BY <2>1, <2>2
<1>5. CASE Critical
  BY <1>3, <1>5 DEF Critical, Kind, fileVars, memoryVars
<1>6. CASE Batch
  <2>1. /\ \E k \in Kind : kind' = Append(kind, k)
        /\ pending' = Append(pending, Len(kind')) /\ step = "ready" /\ call' = call
        /\ UNCHANGED segment
    BY <1>6 DEF Batch, fileVars, callVars
  <2>2. Len(kind') = Len(kind) + 1
    BY <1>0, <2>1, HistoryGrows
  <2>3. \A i : Marks(i)' = Marks(i)
    BY <2>1 DEF Marks
  <2>4. /\ DOMAIN pending = 1..Len(pending) /\ Len(pending) \in Nat
        /\ DOMAIN pending' = 1..(Len(pending) + 1)
        /\ \A n \in 1..Len(pending) : pending'[n] = pending[n] /\ pending[n] \in Event
        /\ pending'[Len(pending) + 1] = Len(kind) + 1
    BY <1>0, <2>1, <2>2
  <2>5. \A n \in DOMAIN pending' : n \in DOMAIN pending \/ n = Len(pending) + 1
    BY <2>4
  <2>6. ASSUME NEW i \in Index, NEW e \in Texts(Marks(i)'), NEW n \in DOMAIN pending'
        PROVE  e < pending'[n]
    <3>1. e \in Event /\ e \in Texts(Marks(i))
      BY <1>00, <2>3, <2>6 DEF Texts
    <3>2. CASE n \in DOMAIN pending
      BY <2>4, <3>1, <3>2 DEF OrderKept
    <3>3. CASE n = Len(pending) + 1
      BY <1>0, <2>4, <3>1, <3>3
    <3> QED
      BY <2>5, <3>2, <3>3
  <2>7. ASSUME NEW m \in DOMAIN pending', NEW n \in DOMAIN pending', m < n
        PROVE  pending'[m] < pending'[n]
    <3>1. m \in DOMAIN pending
      BY <2>4, <2>7
    <3>2. CASE n \in DOMAIN pending
      BY <2>4, <2>7, <3>1, <3>2 DEF OrderKept
    <3>3. CASE n = Len(pending) + 1
      BY <1>0, <2>4, <3>1, <3>3
    <3> QED
      BY <2>5, <3>2, <3>3
  <2>8. OrderKept'
    BY <2>3, <2>6, <2>7 DEF OrderKept
  <2>9. call = "none"
    BY <2>1 DEF JournalTypeOK
  <2> QED
    BY <2>1, <2>8, <2>9 DEF FreshInv, Unwritten
<1>7. CASE Flush \/ Ages \/ FlushBegins \/ Drained \/ MakesRoom \/ NothingToSave
  <2>1. UNCHANGED <<segment, kind, pending>>
    BY <1>7 DEF Flush, Ages, FlushBegins, Drained, MakesRoom, NothingToSave,
                fileVars, memoryVars, historyVars
  <2>2. /\ call' = "critical" => call = "critical"
        /\ Unwritten' => Unwritten
    BY <1>7 DEF Flush, Begin, Ages, FlushBegins, Flushed, Drained, MakesRoom, NothingToSave,
                callVars, Unwritten
  <2> QED
    BY <1>2, <2>1, <2>2
<1>17. CASE OpensFile
  <2>1. Moved
    BY <1>17, OpenFacts, SameMoves DEF OpensFile
  <2> QED
    BY <1>1, <1>17, <2>1 DEF OpensFile, memoryVars, historyVars, Unwritten
<1>8. CASE Drains
  <2> DEFINE e == Head(pending)
  <2>1. /\ pending # <<>> /\ Append0(<<e, Newline>>) /\ pending' = Tail(pending)
        /\ UNCHANGED <<call, step, kind>>
    BY <1>8 DEF Drains, callVars, historyVars
  <2>2. /\ Len(pending) \in Nat \ {0} /\ DOMAIN pending = 1..Len(pending)
        /\ e = pending[1] /\ e \in Event
        /\ pending' \in Seq(Event) /\ DOMAIN pending' = 1..(Len(pending) - 1)
        /\ \A n \in DOMAIN pending' :
              pending'[n] = pending[n + 1] /\ n + 1 \in DOMAIN pending /\ 1 < n + 1
    <3>1. Len(pending) \in Nat \ {0} /\ DOMAIN pending = 1..Len(pending)
      BY <1>0, <2>1
    <3>2. e = pending[1] /\ e \in Event
      <4>1. e = pending[1] /\ 1 \in DOMAIN pending
        BY <1>0, <2>1, <3>1
      <4> HIDE DEF e
      <4> QED
        BY <1>0, <4>1
    <3>3. pending' \in Seq(Event) /\ DOMAIN pending' = 1..(Len(pending) - 1)
      BY <1>0, <2>1, <3>1
    <3>4. \A n \in DOMAIN pending' : pending'[n] = pending[n + 1]
      BY <1>0, <2>1, <3>1, <3>3
    <3>5. \A n \in DOMAIN pending' : n + 1 \in DOMAIN pending /\ 1 < n + 1
      BY <3>1, <3>3
    <3> QED
      BY <3>1, <3>2, <3>3, <3>4, <3>5
  <2>3. pending' \in Seq(Nat)
    BY <1>0, <2>2
  <2>4. \A i \in Index : \A k \in DOMAIN Marks(i) : Text(Marks(i)[k]) => Marks(i)[k] < e
    <3>1. 1 \in DOMAIN pending
      BY <2>2
    <3> QED
      BY <2>2, <3>1 DEF OrderKept, Texts
  <2>5. \A n \in DOMAIN pending' :
          e < pending'[n] /\ \E l \in DOMAIN pending : pending'[n] = pending[l]
    BY <2>2 DEF OrderKept
  <2>6. \A l, n \in DOMAIN pending' : l < n => pending'[l] < pending'[n]
    <3>1. \A l, n \in DOMAIN pending' : l < n => l + 1 < n + 1
      BY <2>2
    <3> QED
      BY <2>2, <3>1 DEF OrderKept
  <2>7. OrderKept'
    <3>1. <<e, Newline>> \in {<<e>>, <<e, Newline>>}
      OBVIOUS
    <3> HIDE DEF e
    <3> QED
      BY <2>1, <2>2, <2>3, <2>4, <2>5, <2>6, <3>1, OrderAppends
  <2>8. call = "critical" => \A n \in DOMAIN pending' : pending'[n] # TheEvent
    BY <2>2 DEF FreshInv
  <2>9. ASSUME Unwritten', NEW i \in Index, NEW k \in DOMAIN Marks(i)'
        PROVE  Marks(i)'[k] # TheEvent
    <3>1. Unwritten /\ call = "critical" /\ e # TheEvent
      BY <2>1, <2>2, <2>9 DEF Unwritten, FreshInv
    <3>2. TheEvent # Newline
      BY <1>0, MarksAssumption DEF TheEvent
    <3>3. <<e, Newline>> \in Seq(Mark)
      BY <2>2 DEF Mark
    <3>4. Marks(0)' = Marks(0) \o <<e, Newline>>
          /\ \A j \in Index \ {0} : Marks(j)' = Marks(j)
      BY <2>1, <3>3, AppendFacts
    <3>5. \A n \in DOMAIN Marks(0)' : \/ n \in DOMAIN Marks(0) /\ Marks(0)'[n] = Marks(0)[n]
                                      \/ Marks(0)'[n] \in {e, Newline}
      <4>1. e \in Mark /\ Newline \in Mark /\ Marks(0) \in Seq(Mark)
        BY <1>0, <2>2 DEF Mark
      <4> HIDE DEF e
      <4>2. /\ DOMAIN (Marks(0) \o <<e, Newline>>)
                = DOMAIN Marks(0) \cup {Len(Marks(0)) + 1, Len(Marks(0)) + 2}
            /\ \A n \in DOMAIN Marks(0) : (Marks(0) \o <<e, Newline>>)[n] = Marks(0)[n]
            /\ (Marks(0) \o <<e, Newline>>)[Len(Marks(0)) + 1] = e
            /\ (Marks(0) \o <<e, Newline>>)[Len(Marks(0)) + 2] = Newline
        BY <4>1, TwoMore
      <4> QED
        BY <3>4, <4>2
    <3> QED
      BY <1>0, <3>1, <3>2, <3>4, <3>5 DEF FreshInv
  <2> QED
    BY <2>1, <2>7, <2>8, <2>9, SameHistory DEF FreshInv
<1>9. CASE Writes
  <2>1. Append0(<<TheEvent>>) /\ call = "critical" /\ pending = <<>> /\ pending' = <<>>
        /\ step = "writing" /\ step' = "ending" /\ UNCHANGED kind
    BY <1>9 DEF Writes, CallInv, Flushing, memoryVars, historyVars
  <2>2. TheEvent \in Event /\ Unwritten
    BY <1>0, <2>1 DEF TheEvent, Event, CallInv, Unwritten
  <2>3. \A i \in Index : \A k \in DOMAIN Marks(i) : Text(Marks(i)[k]) => Marks(i)[k] < TheEvent
    BY <1>0, <1>00, <2>2 DEF FreshInv, TheEvent
  <2>4. OrderKept'
    <3>1. <<TheEvent>> \in {<<TheEvent>>, <<TheEvent, Newline>>} /\ pending' \in Seq(Nat)
          /\ DOMAIN pending' = {}
      BY <2>1
    <3> QED
      BY <2>1, <2>2, <2>3, <3>1, OrderAppends
  <2> QED
    BY <2>1, <2>4 DEF FreshInv, Unwritten
<1>10. CASE EndsLine
  <2>1. Append0(<<Newline>>) /\ pending' = pending /\ call' = call /\ step' = "saving"
        /\ UNCHANGED kind
    BY <1>10 DEF EndsLine, memoryVars, historyVars
  <2>2. Moved
    BY <2>1, NoTextMoves
  <2> QED
    BY <1>1, <2>1, <2>2 DEF Unwritten
<1>11. CASE Saves
  <2>1. Moved
    BY <1>11, SavesMarks, SameMoves
  <2> QED
    BY <1>1, <1>11, <2>1 DEF Saves, Unwritten
<1>12. CASE RemovesOldest \/ Renames \/ Creates \/ Prunes
  <2>1. Moved
    BY <1>12, FilesMove
  <2>2. /\ UNCHANGED <<kind, pending, call>>
        /\ step \in Rotating
    BY <1>12 DEF RemovesOldest, Renames, Creates, Prunes, memoryVars, historyVars, Rotating
  <2>3. Unwritten' => Unwritten
    BY <2>2 DEF Unwritten, Rotating
  <2> QED
    BY <1>1, <2>1, <2>2, <2>3
<1>13. CASE Fails
  <2>1. call' = "none" /\ UNCHANGED kind /\ (pending' = pending \/ pending' = <<>>)
    BY <1>13 DEF Fails
  <2>2. FreshInv'
    BY <2>1 DEF FreshInv, Unwritten
  <2>3. CASE UNCHANGED segment
    BY <2>1, <2>2, <2>3, OrderStays
  <2>6. CASE Append0(<<>>)
    BY <2>1, <2>2, <2>6, OpenFacts, SameMoves, OrderMoves
  <2>4. CASE Append0(<<Fragment>>)
    <3>1. Moved
      BY <2>4, NoTextMoves
    <3> QED
      BY <2>1, <2>2, <3>1, OrderMoves
  <2>5. CASE step = "draining" /\ Append0(<<Head(pending)>>)
    <3> DEFINE e == Head(pending)
    <3>1. pending # <<>> /\ pending' = <<>>
      BY <1>13, <2>5 DEF Fails
    <3>2. e \in Event /\ 1 \in DOMAIN pending /\ e = pending[1]
      BY <1>0, <3>1
    <3>3. \A i \in Index : \A k \in DOMAIN Marks(i) : Text(Marks(i)[k]) => Marks(i)[k] < e
      BY <3>2 DEF OrderKept, Texts
    <3>4. <<e>> \in {<<e>>, <<e, Newline>>} /\ pending' \in Seq(Nat) /\ DOMAIN pending' = {}
      BY <3>1
    <3>5. Append0(<<e>>)
      BY <2>5
    <3> HIDE DEF e
    <3>6. OrderKept'
      BY <3>2, <3>3, <3>4, <3>5, OrderAppends
    <3> QED
      BY <2>2, <3>6
  <2> QED
    BY <1>13, <2>3, <2>4, <2>5, <2>6 DEF Fails
<1>14. CASE ManagerStops
  BY <1>2, <1>14 DEF ManagerStops, Restarts, Unwritten
<1>15. CASE PowerFails
  <2>1. Moved
    BY <1>15, FilesMove
  <2>2. UNCHANGED kind /\ pending' = <<>> /\ call' = "none"
    BY <1>15 DEF PowerFails, Restarts
  <2> QED
    BY <1>1, <2>1, <2>2 DEF Unwritten
<1>16. CASE UNCHANGED vars
  BY <1>2, <1>16 DEF vars, fileVars, callVars, memoryVars, historyVars, Unwritten
<1> QED
  BY <1>4, <1>5, <1>6, <1>7, <1>8, <1>9, <1>10, <1>11, <1>12, <1>13, <1>14, <1>15, <1>16,
     <1>17 DEF Next

LEMMA OrderInductive ==
    Spec => [](JournalTypeOK /\ CallInv /\ RotationInv /\ OrderKept /\ FreshInv)
<1>1. JournalTypeOK /\ CallInv /\ RotationInv /\ OrderKept /\ FreshInv /\ [Next]_vars
        => (OrderKept /\ FreshInv)'
  BY OrderStep
<1> QED
  BY <1>1, OrderInit, JournalTypesInductive, PTL DEF Spec

\* However a rotation, a flush or a rewriting is interrupted, the log reads in the
\* order of the events, and none is there twice (operational_log.rs:203).
THEOREM LogInOrder == Spec => []OrderKept
  BY OrderInductive, PTL

-----------------------------------------------------------------------------
(* What was reported as written.                                           *)

Occurs(e) == \E i \in Index : \E k \in DOMAIN Marks(i) : Marks(i)[k] = e

\* The line of e begins where a line begins.
GoodLine(e) ==
    \E i \in Index : \E k \in DOMAIN Marks(i) :
        Marks(i)[k] = e /\ (k = 1 \/ Marks(i)[k - 1] = Newline)

\* Wherever e is, its line is ended, and on the card.
Settled(e) ==
    \A i \in Index : \A k \in DOMAIN Marks(i) : Marks(i)[k] = e =>
        k < segment[i].durable /\ Marks(i)[k + 1] = Newline

\* A step that leaves a settled event settled.  Unless it drops the event, it
\* keeps it, and its line can be read afterwards if it could before; in no case
\* does a line that could not be read become one that can.
Carried(e) ==
    /\ Settled(e)'
    /\ e \notin dropped' => (Occurs(e) => Occurs(e)') /\ (GoodLine(e) => GoodLine(e)')
    /\ GoodLine(e)' => GoodLine(e)

LEMMA CarriedInPlace ==
    ASSUME NEW e, Settled(e), \A i \in Index : Marks(i)' = Marks(i),
           \A i \in Index : segment[i] # Absent =>
              /\ segment[i].durable \in Nat /\ segment'[i].durable \in Nat
              /\ segment[i].durable <= segment'[i].durable,
           \A i \in Index : Marks(i) \in Seq(Mark)
    PROVE  Carried(e)
<1>1. Occurs(e)' <=> Occurs(e)
  BY DEF Occurs
<1>2. GoodLine(e)' <=> GoodLine(e)
  BY DEF GoodLine
<1>3. ASSUME NEW i \in Index, NEW k \in DOMAIN Marks(i)', Marks(i)'[k] = e
      PROVE  k < segment'[i].durable /\ Marks(i)'[k + 1] = Newline
  <2>1. k \in DOMAIN Marks(i) /\ k \in Nat /\ segment[i] # Absent
    BY <1>3 DEF Marks
  <2>2. k < segment[i].durable /\ Marks(i)[k + 1] = Newline
    BY <1>3, <2>1 DEF Settled
  <2> QED
    BY <2>1, <2>2
<1> QED
  BY <1>1, <1>2, <1>3 DEF Carried, Settled

\* Marks of a file behind another's are its own or the other's.
LEMMA Appended ==
    ASSUME NEW S, NEW s \in Seq(S), NEW m \in Seq(S)
    PROVE  /\ DOMAIN s \subseteq DOMAIN (s \o m)
           /\ \A k \in DOMAIN s : (s \o m)[k] = s[k]
           /\ \A k \in DOMAIN (s \o m) :
                k \in DOMAIN s \/ \E n \in DOMAIN m : (s \o m)[k] = m[n]
<1>1. \A k \in DOMAIN (s \o m) : k \notin DOMAIN s =>
        k - Len(s) \in DOMAIN m /\ (s \o m)[k] = m[k - Len(s)]
  OBVIOUS
<1> QED
  BY <1>1

LEMMA CarriedAppend ==
    ASSUME JournalTypeOK, NEW e \in acked, Settled(e), NEW m \in Seq(Mark), Append0(m),
           \A n \in DOMAIN m : m[n] # e
    PROVE  Carried(e)
<1>1. /\ segment[0] # Absent => segment'[0].durable = segment[0].durable
      /\ Marks(0)' = Marks(0) \o m
      /\ \A i \in Index \ {0} : segment'[i] = segment[i] /\ Marks(i)' = Marks(i)
  BY AppendFacts
<1>2. 0 \in Index /\ \A i \in Index :
        /\ Marks(i) \in Seq(Mark) /\ DOMAIN Marks(i) = 1..Len(Marks(i)) /\ Len(Marks(i)) \in Nat
        /\ segment[i] # Absent =>
             segment[i].durable \in Nat /\ segment[i].durable <= Len(Marks(i))
        /\ segment[i] = Absent => DOMAIN Marks(i) = {}
  BY FirstSegment, MarksFacts
<1>3. /\ DOMAIN Marks(0) \subseteq DOMAIN Marks(0)'
      /\ \A k \in DOMAIN Marks(0) : Marks(0)'[k] = Marks(0)[k]
      /\ \A k \in DOMAIN Marks(0)' :
           k \in DOMAIN Marks(0) \/ \E n \in DOMAIN m : Marks(0)'[k] = m[n]
  <2>1. Marks(0) \in Seq(Mark)
    BY <1>2
  <2>2. /\ DOMAIN Marks(0) \subseteq DOMAIN (Marks(0) \o m)
        /\ \A k \in DOMAIN Marks(0) : (Marks(0) \o m)[k] = Marks(0)[k]
        /\ \A k \in DOMAIN (Marks(0) \o m) :
             k \in DOMAIN Marks(0) \/ \E n \in DOMAIN m : (Marks(0) \o m)[k] = m[n]
    BY <2>1, Appended
  <2> QED
    BY <1>1, <2>2
<1>4. \A i \in Index :
        /\ DOMAIN Marks(i) \subseteq DOMAIN Marks(i)'
        /\ \A k \in DOMAIN Marks(i) : Marks(i)'[k] = Marks(i)[k]
        /\ \A k \in DOMAIN Marks(i)' : Marks(i)'[k] = e => k \in DOMAIN Marks(i)
        /\ segment[i] # Absent => segment'[i].durable = segment[i].durable
  <2> SUFFICES ASSUME NEW i \in Index
               PROVE  /\ DOMAIN Marks(i) \subseteq DOMAIN Marks(i)'
                      /\ \A k \in DOMAIN Marks(i) : Marks(i)'[k] = Marks(i)[k]
                      /\ \A k \in DOMAIN Marks(i)' : Marks(i)'[k] = e => k \in DOMAIN Marks(i)
                      /\ segment[i] # Absent => segment'[i].durable = segment[i].durable
    OBVIOUS
  <2>1. CASE i = 0
    BY <1>1, <1>3, <2>1
  <2>2. CASE i # 0
    BY <1>1, <2>2
  <2> QED
    BY <2>1, <2>2
<1>5. \A i \in Index : \A k \in DOMAIN Marks(i) : k = 1 \/ k - 1 \in DOMAIN Marks(i)
  BY <1>2
<1>6. Occurs(e) => Occurs(e)'
  BY <1>4 DEF Occurs
<1>7. ASSUME NEW i \in Index, NEW k \in DOMAIN Marks(i)
      PROVE  /\ k \in DOMAIN Marks(i)' /\ Marks(i)'[k] = Marks(i)[k]
             /\ k = 1 \/ Marks(i)'[k - 1] = Marks(i)[k - 1]
  BY <1>4, <1>5
<1>8. GoodLine(e) => GoodLine(e)'
  <2> SUFFICES ASSUME NEW i \in Index, NEW k \in DOMAIN Marks(i), Marks(i)[k] = e,
                      k = 1 \/ Marks(i)[k - 1] = Newline
               PROVE  \E j \in DOMAIN Marks(i)' :
                         Marks(i)'[j] = e /\ (j = 1 \/ Marks(i)'[j - 1] = Newline)
    BY DEF GoodLine
  <2>1. k \in DOMAIN Marks(i)'
    BY <1>7
  <2> WITNESS k \in DOMAIN Marks(i)'
  <2> QED
    BY <1>7
<1>9. GoodLine(e)' => GoodLine(e)
  <2> SUFFICES ASSUME NEW i \in Index, NEW k \in DOMAIN Marks(i)', Marks(i)'[k] = e,
                      k = 1 \/ Marks(i)'[k - 1] = Newline
               PROVE  \E j \in DOMAIN Marks(i) :
                         Marks(i)[j] = e /\ (j = 1 \/ Marks(i)[j - 1] = Newline)
    BY DEF GoodLine
  <2>1. k \in DOMAIN Marks(i)
    BY <1>4
  <2> WITNESS k \in DOMAIN Marks(i)
  <2> QED
    BY <1>7, <2>1
<1>10. ASSUME NEW i \in Index, NEW k \in DOMAIN Marks(i)', Marks(i)'[k] = e
      PROVE  k < segment'[i].durable /\ Marks(i)'[k + 1] = Newline
  <2>1. /\ k \in DOMAIN Marks(i) /\ Marks(i)[k] = e /\ segment[i] # Absent
        /\ segment'[i].durable = segment[i].durable
    BY <1>2, <1>4, <1>10
  <2>2. k < segment[i].durable /\ Marks(i)[k + 1] = Newline
    BY <2>1 DEF Settled
  <2>3. k + 1 \in DOMAIN Marks(i)
    BY <1>2, <2>1, <2>2
  <2> QED
    BY <1>4, <2>1, <2>2, <2>3
<1> QED
  BY <1>6, <1>8, <1>9, <1>10 DEF Carried, Settled

\* A segment that goes away takes the event with it, or held none.
LEMMA CarriedWithout ==
    ASSUME JournalTypeOK, NEW e \in acked, Settled(e), NEW z \in Index,
           Marks(z)' = <<>>, e \in dropped' \/ \A k \in DOMAIN Marks(z) : Marks(z)[k] # e,
           \A i \in Index \ {z} : segment'[i] = segment[i] /\ Marks(i)' = Marks(i)
    PROVE  Carried(e)
<1>1. e \notin dropped' => (Occurs(e) => Occurs(e)') /\ (GoodLine(e) => GoodLine(e)')
  BY DEF Occurs, GoodLine
<1>2. ASSUME NEW i \in Index, NEW k \in DOMAIN Marks(i)' PROVE i # z
  <2>1. CASE i = z
    BY <1>2, <2>1
  <2> QED
    BY <2>1
<1>3. GoodLine(e)' => GoodLine(e)
  <2> SUFFICES ASSUME NEW i \in Index, NEW k \in DOMAIN Marks(i)', Marks(i)'[k] = e,
                      k = 1 \/ Marks(i)'[k - 1] = Newline
               PROVE  \E j \in DOMAIN Marks(i) :
                         Marks(i)[j] = e /\ (j = 1 \/ Marks(i)[j - 1] = Newline)
    BY DEF GoodLine
  <2>1. Marks(i)' = Marks(i)
    BY <1>2
  <2> QED
    BY <2>1
<1>4. Settled(e)'
  BY DEF Settled
<1> QED
  BY <1>1, <1>3, <1>4 DEF Carried

LEMMA CarriedRenames ==
    ASSUME JournalTypeOK, RotationInv, NEW e \in acked, Settled(e), Renames
    PROVE  Carried(e)
<1>1. PICK t \in Index : t = target
  BY DEF JournalTypeOK
<1>2. t + 1 \in Index /\ segment[t + 1] = Absent
  BY <1>1 DEF Renames, RotationInv
<1>3. CASE UNCHANGED segment
  <2>1. \A i \in Index : Marks(i)' = Marks(i)
    BY <1>3 DEF Marks
  <2> QED
    BY <1>3, <2>1, CarriedInPlace, MarksFacts
<1>4. CASE ~UNCHANGED segment
  <2>1. /\ segment'[t + 1] = segment[t]
        /\ Marks(t + 1)' = Marks(t) /\ Marks(t)' = <<>>
        /\ \A i \in Index \ {t, t + 1} : segment'[i] = segment[i] /\ Marks(i)' = Marks(i)
    BY <1>1, <1>2, <1>4, RenameFacts
  <2>2. DOMAIN Marks(t + 1) = {} /\ DOMAIN Marks(t)' = {} /\ t # t + 1
    BY <1>2, <2>1 DEF Marks, Index
  <2> DEFINE to == [i \in Index |-> IF i = t THEN t + 1 ELSE i]
             from == [i \in Index |-> IF i = t + 1 THEN t ELSE i]
  <2>3. \A i \in Index : to[i] \in Index
          /\ (DOMAIN Marks(i) # {} => Marks(to[i])' = Marks(i))
    BY <1>2, <2>1, <2>2
  <2>4. \A i \in Index : from[i] \in Index
          /\ (DOMAIN Marks(i)' # {} =>
                Marks(i)' = Marks(from[i]) /\ segment'[i] = segment[from[i]])
    BY <1>2, <2>1, <2>2
  <2> HIDE DEF to, from
  <2>5. (Occurs(e) => Occurs(e)') /\ (GoodLine(e) => GoodLine(e)')
    BY <2>3 DEF Occurs, GoodLine
  <2>6. GoodLine(e)' => GoodLine(e)
    BY <2>4 DEF GoodLine
  <2>7. Settled(e)'
    BY <2>4 DEF Settled
  <2> QED
    BY <2>5, <2>6, <2>7 DEF Carried
<1> QED
  BY <1>3, <1>4

LEMMA CarriedPower ==
    ASSUME JournalTypeOK, NEW e \in acked, Settled(e), PowerFails
    PROVE  Carried(e)
<1>1. \A i \in Index :
        /\ Marks(i) \in Seq(Mark) /\ DOMAIN Marks(i) = 1..Len(Marks(i)) /\ Len(Marks(i)) \in Nat
        /\ segment[i] # Absent => segment[i].durable \in Nat
        /\ segment[i] = Absent => DOMAIN Marks(i) = {}
  BY MarksFacts
<1>2. \A i \in Index :
        /\ segment[i] # Absent =>
             /\ segment'[i].durable = Len(Marks(i)')
             /\ segment[i].durable <= Len(Marks(i)')
        /\ \A k \in DOMAIN Marks(i)' :
             /\ k \in DOMAIN Marks(i)
             /\ \/ Marks(i)'[k] = Marks(i)[k]
                \/ k > segment[i].durable /\ Marks(i)'[k] = Fragment
  BY PowerFacts
<1>3. e # Fragment
  BY TextFacts DEF JournalTypeOK
<1>4. \A i \in Index : DOMAIN Marks(i)' = 1..Len(Marks(i)') /\ Len(Marks(i)') \in Nat
  <2>1. \A i \in Index : segment'[i] \in File \cup {Absent}
    BY PowerFacts
  <2> QED
    BY <2>1 DEF Marks, File
\* What was on the card is where it was.
<1>5. ASSUME NEW i \in Index, NEW k \in DOMAIN Marks(i), segment[i] # Absent,
             k <= segment[i].durable
      PROVE  k \in DOMAIN Marks(i)' /\ Marks(i)'[k] = Marks(i)[k]
  <2>1. k \in DOMAIN Marks(i)'
    BY <1>1, <1>2, <1>4, <1>5
  <2> QED
    BY <1>1, <1>2, <1>5, <2>1
<1>6. ASSUME NEW i \in Index, NEW k \in DOMAIN Marks(i), Marks(i)[k] = e
      PROVE  /\ segment[i] # Absent /\ k < segment[i].durable
             /\ k + 1 \in DOMAIN Marks(i) /\ Marks(i)[k + 1] = Newline
             /\ k + 1 \in DOMAIN Marks(i)' /\ Marks(i)'[k + 1] = Newline
             /\ k \in DOMAIN Marks(i)' /\ Marks(i)'[k] = e
             /\ k = 1 \/ (k - 1 \in DOMAIN Marks(i) /\ Marks(i)'[k - 1] = Marks(i)[k - 1])
  <2>1. segment[i] # Absent /\ k < segment[i].durable /\ Marks(i)[k + 1] = Newline
    BY <1>1, <1>6 DEF Settled
  <2>2. segment[i].durable <= Len(Marks(i))
    BY <2>1, MarksFacts
  <2>3. /\ k + 1 \in DOMAIN Marks(i) /\ k + 1 <= segment[i].durable
        /\ k <= segment[i].durable
        /\ k = 1 \/ (k - 1 \in DOMAIN Marks(i) /\ k - 1 <= segment[i].durable)
    BY <1>1, <2>1, <2>2
  <2> QED
    BY <1>5, <1>6, <2>1, <2>3
<1>7. ASSUME NEW i \in Index, NEW k \in DOMAIN Marks(i)', Marks(i)'[k] = e
      PROVE  k \in DOMAIN Marks(i) /\ Marks(i)[k] = e
  BY <1>2, <1>3, <1>7
<1>8. (Occurs(e) => Occurs(e)') /\ (GoodLine(e) => GoodLine(e)')
  <2>1. Occurs(e) => Occurs(e)'
    BY <1>6 DEF Occurs
  <2>2. ASSUME NEW i \in Index, NEW k \in DOMAIN Marks(i), Marks(i)[k] = e,
               k = 1 \/ Marks(i)[k - 1] = Newline
        PROVE  \E j \in DOMAIN Marks(i)' :
                  Marks(i)'[j] = e /\ (j = 1 \/ Marks(i)'[j - 1] = Newline)
    <3>1. /\ k \in DOMAIN Marks(i)' /\ Marks(i)'[k] = e
          /\ k = 1 \/ Marks(i)'[k - 1] = Marks(i)[k - 1]
      BY <1>6, <2>2
    <3> QED
      BY <2>2, <3>1
  <2> QED
    BY <2>1, <2>2 DEF GoodLine
<1>9. GoodLine(e)' => GoodLine(e)
  BY <1>6, <1>7 DEF GoodLine
<1>10. Settled(e)'
  <2> SUFFICES ASSUME NEW i \in Index, NEW k \in DOMAIN Marks(i)', Marks(i)'[k] = e
               PROVE  k < segment'[i].durable /\ Marks(i)'[k + 1] = Newline
    BY DEF Settled
  <2>1. k \in DOMAIN Marks(i) /\ Marks(i)[k] = e
    BY <1>7
  <2> QED
    BY <1>2, <1>4, <1>6, <2>1
<1> QED
  BY <1>8, <1>9, <1>10 DEF Carried

LEMMA CarriedPrunes ==
    ASSUME JournalTypeOK, NEW e \in acked, Settled(e), Prunes
    PROVE  Carried(e)
<1>1. PICK t \in Index : t = target
  BY DEF JournalTypeOK
<1>2. CASE UNCHANGED fileVars
  <2>1. UNCHANGED segment /\ \A i \in Index : Marks(i)' = Marks(i)
    BY <1>2 DEF Marks, fileVars
  <2> QED
    BY <2>1, CarriedInPlace, MarksFacts
<1>3. CASE ~UNCHANGED fileVars
  <2>1. /\ Marks(t)' \in Rewritten(Marks(t), KeptAt(t))
        /\ segment'[t].durable = Len(Marks(t)')
        /\ \A i \in Index \ {t} : segment'[i] = segment[i] /\ Marks(i)' = Marks(i)
        /\ dropped' = dropped \cup (Texts(Marks(t)) \ Retained(t))
    BY <1>1, <1>3, PruneFacts
  <2>2. /\ Marks(t) \in Seq(Mark) /\ KeptAt(t) \in SUBSET DOMAIN Marks(t)
        /\ Newline \in Mark /\ \A k \in KeptAt(t) : Text(Marks(t)[k])
    BY MarksFacts DEF KeptAt, Mark, Retained, Readable, IsLine
  <2>3. /\ \A j \in DOMAIN Marks(t)' : Marks(t)'[j] # Newline =>
             /\ IsLine(Marks(t)', j) /\ j < Len(Marks(t)') /\ Marks(t)'[j + 1] = Newline
             /\ \E k \in KeptAt(t) : Marks(t)'[j] = Marks(t)[k]
        /\ \A k \in KeptAt(t) : \E j \in DOMAIN Marks(t)' :
             Marks(t)'[j] = Marks(t)[k] /\ IsLine(Marks(t)', j)
    BY <2>1, <2>2, RewrittenFacts
  <2>4. e # Newline /\ Text(e)
    BY TextFacts DEF JournalTypeOK, Mark
  <2>5. \A k \in DOMAIN Marks(t) : Marks(t)[k] = e /\ e \notin dropped' => k \in KeptAt(t)
    BY <2>1, <2>4 DEF KeptAt, Texts
  <2>6. \A k \in DOMAIN Marks(t) : Marks(t)[k] = e /\ e \notin dropped' =>
          \E j \in DOMAIN Marks(t)' :
            Marks(t)'[j] = e /\ (j = 1 \/ Marks(t)'[j - 1] = Newline)
    BY <2>3, <2>5 DEF IsLine
  <2>7. e \notin dropped' => (Occurs(e) => Occurs(e)') /\ (GoodLine(e) => GoodLine(e)')
    BY <2>1, <2>6 DEF Occurs, GoodLine
  <2>8. \A j \in DOMAIN Marks(t)' : Marks(t)'[j] = e =>
          \E k \in DOMAIN Marks(t) :
            Marks(t)[k] = e /\ (k = 1 \/ Marks(t)[k - 1] = Newline)
    <3> SUFFICES ASSUME NEW j \in DOMAIN Marks(t)', Marks(t)'[j] = e
                 PROVE  \E k \in DOMAIN Marks(t) :
                          Marks(t)[k] = e /\ (k = 1 \/ Marks(t)[k - 1] = Newline)
      OBVIOUS
    <3>1. e \in Readable(Marks(t))
      BY <2>3, <2>4 DEF KeptAt, Retained
    <3> QED
      BY <3>1 DEF Readable, IsLine
  <2>9. GoodLine(e)' => GoodLine(e)
    BY <2>1, <2>8 DEF GoodLine
  <2>10. Settled(e)'
    BY <2>1, <2>3, <2>4 DEF Settled
  <2> QED
    BY <2>7, <2>9, <2>10 DEF Carried
<1> QED
  BY <1>2, <1>3

\* Nothing that was reported as written is written once more.
NotAcked ==
    /\ call = "critical" => TheEvent \notin acked
    /\ \A n \in DOMAIN pending : pending[n] \notin acked

\* What a critical call has written so far ends the current segment.
WrittenInv ==
    call = "critical" =>
        /\ step = "ending" => Len(Marks(0)) > 0 /\ Marks(0)[Len(Marks(0))] = TheEvent
        /\ step = "saving" => /\ Len(Marks(0)) > 1
                              /\ Marks(0)[Len(Marks(0)) - 1] = TheEvent
                              /\ Marks(0)[Len(Marks(0))] = Newline

AckInv == \A e \in acked : Settled(e)

Kept == \A e \in acked \ dropped : Occurs(e)

LEMMA NotAckedStep ==
    ASSUME JournalTypeOK, FreshInv, NotAcked, [Next]_vars
    PROVE  NotAcked'
<1>0. /\ kind \in Seq(Kind) /\ Len(kind) \in Nat /\ pending \in Seq(Event)
      /\ acked \subseteq Event
  BY DEF JournalTypeOK
<1>1. ASSUME UNCHANGED <<kind, acked>>, call' = "critical" => call = "critical",
             pending' = pending \/ pending' = <<>>
      PROVE  NotAcked'
  BY <1>1, SameHistory DEF NotAcked
<1>2. ASSUME NEW k \in Kind, kind' = Append(kind, k), UNCHANGED acked,
             \/ pending' = pending
             \/ pending' = Append(pending, Len(kind')) /\ call' = "none"
      PROVE  NotAcked'
  <2>1. TheEvent' = Len(kind') /\ Len(kind') \notin Event
    BY <1>0, <1>2, HistoryGrows DEF TheEvent
  <2>2. \A n \in DOMAIN pending' : pending'[n] \notin acked
    <3>1. CASE pending' = pending
      BY <3>1 DEF NotAcked
    <3>2. CASE pending' = Append(pending, Len(kind'))
      <4>1. \A n \in DOMAIN pending' : \/ n \in DOMAIN pending /\ pending'[n] = pending[n]
                                       \/ pending'[n] = Len(kind')
        BY <1>0, <3>2
      <4> QED
        BY <1>0, <2>1, <4>1 DEF NotAcked
    <3> QED
      BY <1>2, <3>1, <3>2
  <2> QED
    BY <1>0, <1>2, <2>1, <2>2 DEF NotAcked
<1>3. CASE Opens
  <2>1. CASE UncleanShutdown
    BY <1>2, <1>3, <2>1 DEF Opens, Kind, memoryVars
  <2>2. CASE ~UncleanShutdown
    BY <1>1, <1>3, <2>2 DEF Opens, memoryVars
  <2> QED
    BY <2>1, <2>2
<1>4. CASE Batch
  <2>1. call' = call /\ call = "none"
    BY <1>4 DEF Batch, callVars, JournalTypeOK
  <2> QED
    BY <1>2, <1>4, <2>1 DEF Batch
<1>5. CASE Critical
  BY <1>2, <1>5 DEF Critical, Kind, memoryVars
<1>6. CASE Flush \/ Ages \/ FlushBegins \/ Drained \/ MakesRoom \/ NothingToSave
  BY <1>1, <1>6 DEF Flush, Begin, Ages, FlushBegins, Flushed, Drained, MakesRoom, NothingToSave,
                    callVars, memoryVars, historyVars
<1>7. CASE Drains
  <2>1. pending # <<>> /\ pending' = Tail(pending) /\ UNCHANGED <<call, kind, acked>>
    BY <1>7 DEF Drains, callVars, historyVars
  <2>2. \A n \in DOMAIN pending' : n + 1 \in DOMAIN pending /\ pending'[n] = pending[n + 1]
    BY <1>0, <2>1
  <2> QED
    BY <2>1, <2>2, SameHistory DEF NotAcked
<1>8. CASE OpensFile \/ Writes \/ EndsLine \/ RemovesOldest \/ Renames \/ Creates \/ Prunes
  BY <1>1, <1>8 DEF OpensFile, Writes, EndsLine, RemovesOldest, Renames, Creates, Prunes,
                    memoryVars, historyVars
<1>9. CASE Saves
  <2>1. /\ call' = "none" /\ UNCHANGED <<kind, pending>>
        /\ acked' = IF call = "critical" THEN acked \cup {TheEvent} ELSE acked
    BY <1>9 DEF Saves
  <2> QED
    BY <2>1 DEF NotAcked, FreshInv
<1>10. CASE Fails \/ ManagerStops \/ PowerFails
  BY <1>1, <1>10 DEF Fails, ManagerStops, PowerFails, Restarts
<1>11. CASE UNCHANGED vars
  BY <1>1, <1>11 DEF vars, callVars, memoryVars, historyVars
<1> QED
  BY <1>3, <1>4, <1>5, <1>6, <1>7, <1>8, <1>9, <1>10, <1>11 DEF Next

LEMMA WrittenStep ==
    ASSUME JournalTypeOK, CallInv, WrittenInv, [Next]_vars
    PROVE  WrittenInv'
<1>0. /\ kind \in Seq(Kind) /\ Marks(0) \in Seq(Mark) /\ Newline \in Mark
      /\ (step \in {"opening", "ready"}) = (call = "none")
      /\ resume \in {"filing", "writing"}
  BY FirstSegment, MarksFacts DEF JournalTypeOK, Mark
<1>1. ASSUME call' = "critical" => step' \notin {"ending", "saving"} PROVE WrittenInv'
  BY <1>1 DEF WrittenInv
<1>2. CASE Writes
  <2>1. TheEvent \in Mark /\ <<TheEvent>> \in Seq(Mark)
    <3>1. Len(kind) > 0
      BY <1>2 DEF Writes, CallInv
    <3> QED
      BY <1>0, <3>1 DEF TheEvent, Event, Mark
  <2>2. /\ Append0(<<TheEvent>>) /\ step' = "ending" /\ UNCHANGED kind
    BY <1>2 DEF Writes, historyVars
  <2>3. Marks(0)' = Marks(0) \o <<TheEvent>>
    BY <2>1, <2>2, AppendFacts
  <2>4. /\ Len(Marks(0) \o <<TheEvent>>) = Len(Marks(0)) + 1 /\ Len(Marks(0)) \in Nat
        /\ (Marks(0) \o <<TheEvent>>)[Len(Marks(0)) + 1] = TheEvent
    BY <1>0, <2>1, OneMore
  <2> QED
    BY <2>2, <2>3, <2>4, SameHistory DEF WrittenInv
<1>3. CASE EndsLine
  <2>1. <<Newline>> \in Seq(Mark)
    BY <1>0
  <2>2. /\ Append0(<<Newline>>) /\ step = "ending" /\ step' = "saving" /\ call' = call
        /\ UNCHANGED kind
    BY <1>3 DEF EndsLine, historyVars
  <2>3. Marks(0)' = Marks(0) \o <<Newline>>
    BY <2>1, <2>2, AppendFacts
  <2>4. /\ Len(Marks(0) \o <<Newline>>) = Len(Marks(0)) + 1 /\ Len(Marks(0)) \in Nat
        /\ DOMAIN Marks(0) = 1..Len(Marks(0))
        /\ \A k \in DOMAIN Marks(0) : (Marks(0) \o <<Newline>>)[k] = Marks(0)[k]
        /\ (Marks(0) \o <<Newline>>)[Len(Marks(0)) + 1] = Newline
    BY <1>0, OneMore
  <2>5. call = "critical" => Len(Marks(0)) > 0 /\ Marks(0)[Len(Marks(0))] = TheEvent
    BY <2>2 DEF WrittenInv
  <2>6. Len(Marks(0)') - 1 = Len(Marks(0)) /\ Len(Marks(0)') = Len(Marks(0)) + 1
    BY <2>3, <2>4
  <2>7. call = "critical" =>
          Len(Marks(0)') > 1 /\ Marks(0)'[Len(Marks(0))] = TheEvent
          /\ Marks(0)'[Len(Marks(0)) + 1] = Newline
    BY <2>3, <2>4, <2>5, <2>6
  <2> QED
    BY <2>2, <2>6, <2>7, SameHistory DEF WrittenInv
<1>4. CASE Opens \/ Batch \/ Critical \/ Flush \/ Ages
  BY <1>0, <1>1, <1>4 DEF Opens, Batch, Critical, Flush, Ages, Begin, callVars
<1>5. CASE FlushBegins \/ Drained
  BY <1>0, <1>1, <1>5 DEF FlushBegins, Drained, Flushed
<1>6. CASE OpensFile \/ Drains \/ MakesRoom \/ Saves \/ NothingToSave
  BY <1>0, <1>1, <1>6 DEF OpensFile, Drains, MakesRoom, Saves, NothingToSave, callVars
<1>7. CASE RemovesOldest \/ Renames \/ Creates \/ Prunes
  BY <1>0, <1>1, <1>7 DEF RemovesOldest, Renames, Creates, Prunes
<1>8. CASE Fails \/ ManagerStops \/ PowerFails
  BY <1>1, <1>8 DEF Fails, ManagerStops, PowerFails, Restarts
<1>9. CASE UNCHANGED vars
  <2>1. Marks(0)' = Marks(0) /\ UNCHANGED <<call, step, kind>>
    BY <1>9 DEF vars, fileVars, callVars, historyVars, Marks
  <2> QED
    BY <2>1, SameHistory DEF WrittenInv
<1> QED
  BY <1>2, <1>3, <1>4, <1>5, <1>6, <1>7, <1>8, <1>9 DEF Next

\* No step of the log spoils what was settled.
LEMMA CarriedStep ==
    ASSUME JournalTypeOK, CallInv, RotationInv, NotAcked, [Next]_vars,
           NEW e \in acked, Settled(e)
    PROVE  Carried(e)
<1>0. /\ kind \in Seq(Kind) /\ 0 \in Index /\ Segments - 1 \in Index
      /\ pending \in Seq(Event) /\ e \in Event /\ Newline \in Mark /\ Fragment \in Mark
      /\ e # Newline /\ e # Fragment /\ Text(e)
      /\ segment \in [Index -> File \cup {Absent}] /\ Absent \notin File
  BY FirstSegment, FileIsThere, TextFacts DEF JournalTypeOK, Mark
<1>1. ASSUME UNCHANGED segment PROVE Carried(e)
  <2>1. \A i \in Index : Marks(i)' = Marks(i)
    BY <1>1 DEF Marks
  <2> QED
    BY <1>1, <2>1, CarriedInPlace, MarksFacts
<1>2. ASSUME NEW a \in Mark, a # e, Append0(<<a>>) PROVE Carried(e)
  <2>1. <<a>> \in Seq(Mark) /\ \A n \in DOMAIN <<a>> : <<a>>[n] # e
    BY <1>2
  <2> QED
    BY <1>2, <2>1, CarriedAppend
<1>3. CASE Opens \/ Batch \/ Critical \/ Flush \/ Ages \/ FlushBegins \/ Drained \/ MakesRoom
        \/ NothingToSave \/ ManagerStops
  BY <1>1, <1>3 DEF Opens, Batch, Critical, Flush, Ages, FlushBegins, Drained, MakesRoom,
                    NothingToSave, ManagerStops, fileVars
<1>15. ASSUME Append0(<<>>) PROVE Carried(e)
  BY <1>15, OpenFacts, CarriedInPlace, MarksFacts
<1>16. CASE OpensFile
  BY <1>15, <1>16 DEF OpensFile
<1>4. CASE Drains
  <2> DEFINE h == Head(pending)
  <2>1. Append0(<<h, Newline>>) /\ pending # <<>>
    BY <1>4 DEF Drains
  <2>2. h \in Event /\ h # e
    <3>1. 1 \in DOMAIN pending /\ h = pending[1]
      BY <1>0, <2>1
    <3> QED
      BY <1>0, <3>1 DEF NotAcked
  <2> HIDE DEF h
  <2>3. <<h, Newline>> \in Seq(Mark) /\ \A n \in DOMAIN <<h, Newline>> : <<h, Newline>>[n] # e
    BY <1>0, <2>2 DEF Mark
  <2> QED
    BY <2>1, <2>3, CarriedAppend
<1>5. CASE Writes
  <2>1. Append0(<<TheEvent>>) /\ TheEvent # e /\ Len(kind) > 0
    BY <1>5 DEF Writes, NotAcked, CallInv
  <2>2. TheEvent \in Mark
    BY <1>0, <2>1 DEF TheEvent, Event, Mark
  <2> QED
    BY <1>2, <2>1, <2>2
<1>6. CASE EndsLine
  BY <1>0, <1>2, <1>6 DEF EndsLine
<1>7. CASE Saves
  <2>1. \A i \in Index : Marks(i)' = Marks(i)
    BY <1>7, SavesMarks
  <2>2. \A i \in Index : segment[i] # Absent =>
          /\ segment[i].durable \in Nat /\ segment'[i].durable \in Nat
          /\ segment[i].durable <= segment'[i].durable
    <3>1. segment[0] # Absent /\ segment[0] \in File /\ Len(Marks(0)) \in Nat
          /\ segment[0].durable <= Len(Marks(0)) /\ segment[0].durable \in Nat
      BY <1>0, <1>7, MarksFacts DEF Saves
    <3>2. segment'[0].durable = Len(Marks(0)) /\ \A i \in Index \ {0} : segment'[i] = segment[i]
      <4>1. segment' = [segment EXCEPT ![0] = [segment[0] EXCEPT !.durable = Len(Marks(0))]]
        BY <1>7 DEF Saves
      <4> QED
        BY <1>0, <3>1, <4>1 DEF File
    <3> QED
      BY <3>1, <3>2, MarksFacts
  <2> QED
    BY <2>1, <2>2, CarriedInPlace, MarksFacts
<1>8. CASE RemovesOldest
  <2> DEFINE z == Segments - 1
  <2>1. dropped' = dropped \cup Texts(Marks(z)) /\ segment' = [segment EXCEPT ![z] = Absent]
    BY <1>8 DEF RemovesOldest
  <2>2. Marks(z)' = <<>> /\ \A i \in Index \ {z} : segment'[i] = segment[i] /\ Marks(i)' = Marks(i)
    BY <1>0, <2>1 DEF Marks
  <2>3. e \in dropped' \/ \A k \in DOMAIN Marks(z) : Marks(z)[k] # e
    BY <1>0, <2>1 DEF Texts
  <2>4. z \in Index
    BY <1>0
  <2> HIDE DEF z
  <2> QED
    BY <2>2, <2>3, <2>4, CarriedWithout
<1>9. CASE Renames
  BY <1>9, CarriedRenames
<1>10. CASE Creates
  <2>1. segment[0] = Absent /\ segment' = [segment EXCEPT ![0] = Empty]
    BY <1>10 DEF Creates, RotationInv
  <2>2. Empty # Absent
    <3>1. Empty \in File
      BY DEF Empty, File
    <3> QED
      BY <1>0, <3>1
  <2>3. /\ Marks(0)' = <<>> /\ DOMAIN Marks(0) = {}
        /\ \A i \in Index \ {0} : segment'[i] = segment[i] /\ Marks(i)' = Marks(i)
    BY <1>0, <2>1, <2>2 DEF Marks, Empty
  <2> QED
    BY <1>0, <2>3, CarriedWithout
<1>11. CASE Prunes
  BY <1>11, CarriedPrunes
<1>12. CASE Fails
  <2>1. CASE step = "draining" /\ Append0(<<Head(pending)>>)
    <3> DEFINE h == Head(pending)
    <3>1. pending # <<>>
      BY <1>12, <2>1 DEF Fails
    <3>2. 1 \in DOMAIN pending /\ h = pending[1]
      BY <1>0, <3>1
    <3>3. h \in Mark /\ h # e
      BY <1>0, <3>2 DEF NotAcked, Mark
    <3>4. Append0(<<h>>)
      BY <2>1
    <3> HIDE DEF h
    <3> QED
      BY <1>2, <3>3, <3>4
  <2> QED
    BY <1>0, <1>1, <1>2, <1>12, <1>15, <2>1 DEF Fails
<1>13. CASE PowerFails
  BY <1>13, CarriedPower
<1>14. CASE UNCHANGED vars
  BY <1>1, <1>14 DEF vars, fileVars
<1> QED
  BY <1>3, <1>4, <1>5, <1>6, <1>7, <1>8, <1>9, <1>10, <1>11, <1>12, <1>13, <1>14,
     <1>16 DEF Next

\* What becomes acknowledged is there once, ended and saved.
LEMMA SavedIsSettled ==
    ASSUME JournalTypeOK, CallInv, OrderKept, WrittenInv, Saves, call = "critical"
    PROVE  Settled(TheEvent)' /\ Occurs(TheEvent)'
<1>0. /\ kind \in Seq(Kind) /\ 0 \in Index /\ Absent \notin File
      /\ segment \in [Index -> File \cup {Absent}]
      /\ \A i \in Index : Marks(i) \in Seq(Mark) /\ DOMAIN Marks(i) \subseteq Nat
      /\ Len(Marks(0)) \in Nat /\ DOMAIN Marks(0) = 1..Len(Marks(0))
  BY FirstSegment, FileIsThere, MarksFacts DEF JournalTypeOK
<1>1. /\ TheEvent' = TheEvent /\ \A i \in Index : Marks(i)' = Marks(i)
      /\ step = "saving" /\ segment[0] # Absent
      /\ segment' = [segment EXCEPT ![0] = [segment[0] EXCEPT !.durable = Len(Marks(0))]]
  BY SavesMarks, SameHistory DEF Saves
<1> DEFINE n == Len(Marks(0)) - 1
<1>2. /\ n \in DOMAIN Marks(0) /\ n + 1 = Len(Marks(0))
      /\ Marks(0)[n] = TheEvent /\ Marks(0)[n + 1] = Newline
  BY <1>0, <1>1 DEF WrittenInv
<1>3. segment'[0].durable = Len(Marks(0))
  BY <1>0, <1>1 DEF File
<1>4. TheEvent \in Nat /\ Text(TheEvent)
  BY <1>0, MarksAssumption DEF TheEvent, Text
<1> HIDE DEF n
<1>5. ASSUME NEW i \in Index, NEW k \in DOMAIN Marks(i), Marks(i)[k] = TheEvent
      PROVE  i = 0 /\ k = n
  <2>1. i \in Nat /\ k \in Nat /\ n \in Nat
    BY <1>0, <1>2 DEF Index
  <2>2. ~ (TheEvent < TheEvent)
    BY <1>4
  <2>3. ASSUME NEW a \in Index, NEW b \in Index,
               NEW c \in DOMAIN Marks(a), NEW d \in DOMAIN Marks(b),
               Marks(a)[c] = TheEvent, Marks(b)[d] = TheEvent, a > b \/ (a = b /\ c < d)
        PROVE  FALSE
    BY <1>4, <2>2, <2>3 DEF OrderKept
  <2>4. ~(i > 0) /\ ~(i = 0 /\ k < n)
    BY <1>0, <1>2, <1>5, <2>3
  <2>5. ~(0 = i /\ n < k)
    BY <1>0, <1>2, <1>5, <2>3
  <2> QED
    BY <2>1, <2>4, <2>5
<1>6. Occurs(TheEvent)'
  BY <1>0, <1>1, <1>2 DEF Occurs
<1>7. Settled(TheEvent)'
  <2> SUFFICES ASSUME NEW i \in Index, NEW k \in DOMAIN Marks(i), Marks(i)[k] = TheEvent
               PROVE  k < segment'[i].durable /\ Marks(i)[k + 1] = Newline
    BY <1>1 DEF Settled
  <2> QED
    BY <1>0, <1>2, <1>3, <1>5
<1> QED
  BY <1>6, <1>7

LEMMA AckStep ==
    ASSUME JournalTypeOK, CallInv, RotationInv, OrderKept, NotAcked, WrittenInv,
           AckInv, Kept, [Next]_vars
    PROVE  AckInv' /\ Kept'
<1>1. \A e \in acked : Carried(e)
  BY CarriedStep DEF AckInv
<1>2. dropped \subseteq dropped'
  BY DEF Next, Opens, Batch, Critical, Flush, Ages, FlushBegins, OpensFile, Drains, Drained,
         MakesRoom, Writes, EndsLine, Saves, NothingToSave, RemovesOldest, Renames, Creates,
         Prunes, Fails, ManagerStops, PowerFails, Restarts, vars, fileVars
<1>3. ASSUME NEW e \in acked PROVE Settled(e)' /\ (e \notin dropped' => Occurs(e)')
  BY <1>1, <1>2, <1>3 DEF Carried, Kept
<1>4. \/ acked' = acked
      \/ /\ Saves /\ call = "critical"
         /\ acked' = acked \cup {TheEvent} /\ TheEvent' = TheEvent
  <2>1. Saves => UNCHANGED kind /\
          acked' = IF call = "critical" THEN acked \cup {TheEvent} ELSE acked
    BY DEF Saves
  <2>2. ~Saves => acked' = acked
    BY DEF Next, Opens, Batch, Critical, Flush, Ages, FlushBegins, OpensFile, Drains, Drained,
           MakesRoom, Writes, EndsLine, NothingToSave, RemovesOldest, Renames, Creates,
           Prunes, Fails, ManagerStops, PowerFails, Restarts, vars, historyVars
  <2> QED
    BY <2>1, <2>2, SameHistory
<1>5. CASE acked' = acked
  BY <1>3, <1>5 DEF AckInv, Kept
<1>6. CASE acked' # acked
  <2>1. /\ Settled(TheEvent)' /\ Occurs(TheEvent)' /\ TheEvent' = TheEvent
        /\ acked' = acked \cup {TheEvent}
    BY <1>4, <1>6, SavedIsSettled
  <2>2. \A e \in acked' : e \in acked \/ e = TheEvent'
    BY <2>1
  <2>3. ASSUME NEW e, e = TheEvent' PROVE Settled(e)' /\ Occurs(e)'
    BY <2>1, <2>3 DEF Settled, Occurs
  <2> QED
    BY <1>3, <2>2, <2>3 DEF AckInv, Kept
<1> QED
  BY <1>5, <1>6

LEMMA AckInit == Init => NotAcked /\ WrittenInv /\ AckInv /\ Kept
  BY DEF Init, NotAcked, WrittenInv, AckInv, Kept

JournalInv ==
    /\ JournalTypeOK /\ CallInv /\ RotationInv
    /\ OrderKept /\ FreshInv
    /\ NotAcked /\ WrittenInv /\ AckInv /\ Kept

LEMMA JournalInductive == Spec => []JournalInv
<1>1. JournalTypeOK /\ CallInv /\ RotationInv /\ OrderKept /\ FreshInv
        /\ NotAcked /\ WrittenInv /\ AckInv /\ Kept /\ [Next]_vars
        => (NotAcked /\ WrittenInv /\ AckInv /\ Kept)'
  BY NotAckedStep, WrittenStep, AckStep
<1> QED
  BY <1>1, AckInit, OrderInductive, PTL DEF Spec, JournalInv

\* A critical event that was reported as written stays on the card until rotation or
\* pruning takes it, whatever fails or stops (operational_log.rs:171).
THEOREM ReportedAsWrittenStays == Spec => []AcknowledgedKept
<1>1. JournalInv => AcknowledgedKept
  <2> SUFFICES ASSUME JournalInv, NEW e \in acked \ dropped
               PROVE  \E i \in Index : segment[i] # Absent /\
                        \E k \in 1..segment[i].durable : segment[i].marks[k] = e
    BY DEF AcknowledgedKept
  <2>1. PICK i \in Index : \E k \in DOMAIN Marks(i) : Marks(i)[k] = e
    BY DEF JournalInv, Kept, Occurs
  <2>2. PICK k \in DOMAIN Marks(i) : Marks(i)[k] = e
    BY <2>1
  <2>3. k < segment[i].durable
    BY <2>2 DEF JournalInv, AckInv, Settled
  <2>4. /\ segment[i] # Absent /\ Marks(i) = segment[i].marks
        /\ segment[i].durable \in Nat /\ k \in Nat /\ k >= 1
    BY <2>2, MarksFacts DEF JournalInv
  <2>5. k \in 1..segment[i].durable
    BY <2>3, <2>4
  <2> QED
    BY <2>2, <2>4, <2>5
<1> QED
  BY <1>1, JournalInductive, PTL

-----------------------------------------------------------------------------
(* What can be read back.                                                  *)

\* An acknowledged event can be read when its line begins where a line begins.
ReadWhenGood == \A e \in acked : e \in AllReadable <=> GoodLine(e)

LEMMA SettledReads == JournalTypeOK /\ AckInv => ReadWhenGood
<1> SUFFICES ASSUME JournalTypeOK, AckInv, NEW e \in acked
             PROVE  e \in AllReadable <=> GoodLine(e)
  BY DEF ReadWhenGood
<1>1. Text(e)
  BY TextFacts DEF JournalTypeOK, Mark
<1>2. \A i \in Index : \A k \in DOMAIN Marks(i) : Marks(i)[k] = e =>
        (IsLine(Marks(i), k) <=> k = 1 \/ Marks(i)[k - 1] = Newline)
  BY <1>1 DEF IsLine, AckInv, Settled
<1>3. e \in AllReadable <=> \E i \in Index : e \in Readable(Marks(i))
  BY DEF AllReadable
<1>4. \A i \in Index : e \in Readable(Marks(i)) <=>
        \E k \in DOMAIN Marks(i) : IsLine(Marks(i), k) /\ Marks(i)[k] = e
  BY DEF Readable
<1> QED
  BY <1>2, <1>3, <1>4 DEF GoodLine

LEMMA ReadableEvents == JournalTypeOK => AllReadable \subseteq Event /\ IsFiniteSet(AllReadable)
<1> SUFFICES ASSUME JournalTypeOK
             PROVE  AllReadable \subseteq Event /\ IsFiniteSet(AllReadable)
  OBVIOUS
<1>1. \A i \in Index : Readable(Marks(i)) \subseteq Event
  <2> SUFFICES ASSUME NEW i \in Index, NEW k \in DOMAIN Marks(i), IsLine(Marks(i), k)
               PROVE  Marks(i)[k] \in Event
    BY DEF Readable
  <2>1. Marks(i)[k] \in Mark /\ Text(Marks(i)[k])
    BY MarksFacts DEF IsLine
  <2> QED
    BY <2>1, TextFacts DEF JournalTypeOK
<1>2. AllReadable \subseteq Event
  BY <1>1 DEF AllReadable
<1>3. IsFiniteSet(Event)
  BY FS_Interval DEF Event, JournalTypeOK
<1> QED
  BY <1>2, <1>3, FS_Subset

\* Of two events that can be read, the one that is not among the last is the earlier.
LEMMA EarlierThanRecent ==
    ASSUME JournalTypeOK, NEW r \in AllReadable \ Recent, NEW s \in Recent
    PROVE  r < s
<1> DEFINE After(e) == {f \in AllReadable : f > e}
<1>1. AllReadable \subseteq Nat /\ IsFiniteSet(AllReadable) /\ RecentLimit \in Nat
  BY ReadableEvents DEF Event
<1>2. s \in AllReadable /\ Cardinality(After(s)) < RecentLimit
      /\ ~(Cardinality(After(r)) < RecentLimit)
  BY DEF Recent, Latest
<1>3. SUFFICES ASSUME ~(r < s) PROVE FALSE
  OBVIOUS
<1>4. After(r) \subseteq After(s)
  <2>1. r \in Nat /\ s \in Nat
    BY <1>1, <1>2
  <2>2. \A f \in Nat : f > r => f > s
    BY <1>3, <2>1
  <2> QED
    BY <1>1, <2>2
<1>5. IsFiniteSet(After(s)) /\ IsFiniteSet(After(r))
  <2>1. After(s) \subseteq AllReadable /\ After(r) \subseteq AllReadable
    OBVIOUS
  <2> HIDE DEF After
  <2> QED
    BY <1>1, <2>1, FS_Subset
<1> HIDE DEF After
<1>6. Cardinality(After(r)) <= Cardinality(After(s))
  BY <1>4, <1>5, FS_Subset
<1>7. Cardinality(After(r)) \in Nat /\ Cardinality(After(s)) \in Nat
  BY <1>5, FS_CardinalityType
<1> QED
  BY <1>1, <1>2, <1>6, <1>7

\* Which steps add an event, and which acknowledge one.
LEMMA HistoryStep ==
    ASSUME JournalTypeOK, [Next]_vars
    PROVE  /\ \/ UNCHANGED kind
              \/ Opens /\ UncleanShutdown /\ kind' = Append(kind, "unclean")
              \/ \E k \in Kind \ {"unclean"} : kind' = Append(kind, k)
           /\ \/ UNCHANGED acked
              \/ /\ Saves /\ UNCHANGED kind /\ call = "critical"
                 /\ acked' = acked \cup {TheEvent}
<1>1. \/ UNCHANGED kind
      \/ Opens /\ UncleanShutdown /\ kind' = Append(kind, "unclean")
      \/ \E k \in Kind \ {"unclean"} : kind' = Append(kind, k)
  <2>1. CASE Opens
    BY <2>1 DEF Opens
  <2>2. CASE Batch \/ Critical
    BY <2>2 DEF Batch, Critical, Kind
  <2>3. CASE ~(Opens \/ Batch \/ Critical)
    BY <2>3 DEF Next, Flush, Ages, FlushBegins, OpensFile, Drains, Drained, MakesRoom, Writes,
                EndsLine, Saves, NothingToSave, RemovesOldest, Renames, Creates, Prunes, Fails,
                ManagerStops, PowerFails, Restarts, vars, historyVars
  <2> QED
    BY <2>1, <2>2, <2>3
<1>2. \/ UNCHANGED acked
      \/ /\ Saves /\ UNCHANGED kind /\ call = "critical"
         /\ acked' = acked \cup {TheEvent}
  <2>1. CASE Saves
    BY <2>1 DEF Saves
  <2>2. CASE ~Saves
    BY <2>2 DEF Next, Opens, Batch, Critical, Flush, Ages, FlushBegins, OpensFile, Drains,
                Drained, MakesRoom, Writes, EndsLine, NothingToSave, RemovesOldest, Renames, Creates,
                Prunes, Fails, ManagerStops, PowerFails, Restarts, vars, historyVars
  <2> QED
    BY <2>1, <2>2
<1> QED
  BY <1>1, <1>2

LEMMA ReportStep ==
    ASSUME JournalInv, ReadWhenGood, ReadWhenGood', OneReportPerStart, [Next]_vars
    PROVE  OneReportPerStart'
<1>0. /\ kind \in Seq(Kind) /\ Len(kind) \in Nat /\ acked \subseteq Event
      /\ \A e : e \in Event <=> e \in Nat /\ 1 <= e /\ e <= Len(kind)
  BY DEF JournalInv, JournalTypeOK, Event
<1> SUFFICES ASSUME NEW r \in acked', r \in AllReadable', NEW q \in Event',
                    kind'[r] = "unclean", kind'[q] = "unclean", r < q
             PROVE  \E s \in Event' : r < s /\ s < q /\ kind'[s] = "stream_start"
  BY DEF OneReportPerStart
\* The history is the same, but for one event at most.
<1>1. /\ Event \subseteq Event' /\ \A e \in Event : kind'[e] = kind[e]
      /\ q \in Event \/ (q \notin Event /\ kind' # kind /\ \A e \in Event : e < q)
  <2>1. CASE UNCHANGED kind
    BY <2>1, SameHistory
  <2>2. CASE ~UNCHANGED kind
    <3>1. PICK k \in Kind : kind' = Append(kind, k)
      BY <2>2, HistoryStep DEF JournalInv, Kind
    <3>2. /\ Len(kind') = Len(kind) + 1 /\ Event' = Event \cup {Len(kind')}
          /\ \A e \in Event : kind'[e] = kind[e]
      BY <1>0, <3>1, HistoryGrows
    <3>3. \A e \in Event : e < Len(kind')
      BY <1>0, <3>2
    <3>4. q \in Event \/ q = Len(kind')
      BY <3>2
    <3>5. Len(kind') \notin Event
      BY <1>0, <3>2
    <3> QED
      BY <2>2, <3>2, <3>3, <3>4, <3>5
  <2> QED
    BY <2>1, <2>2
\* The report that was written before is not the one that is acknowledged now.
<1>2. r \in acked
  <2>1. CASE acked' = acked
    BY <2>1
  <2>2. CASE acked' # acked
    <3>1. acked' = acked \cup {TheEvent} /\ UNCHANGED kind
      BY <2>2, HistoryStep DEF JournalInv
    <3>2. r \in acked \/ r = Len(kind)
      BY <3>1 DEF TheEvent
    <3>3. q \in Event
      BY <3>1, <1>1
    <3> QED
      BY <1>0, <3>2, <3>3
  <2> QED
    BY <2>1, <2>2
\* It could be read before.
<1>3. r \in AllReadable
  <2>1. GoodLine(r)'
    BY DEF ReadWhenGood, GoodLine
  <2>2. Carried(r)
    BY <1>2, CarriedStep DEF JournalInv, AckInv
  <2> QED
    BY <1>2, <2>1, <2>2 DEF Carried, ReadWhenGood
<1>4. r \in Event /\ kind[r] = "unclean"
  BY <1>0, <1>1, <1>2
<1>5. CASE q \in Event
  BY <1>1, <1>2, <1>3, <1>4, <1>5 DEF OneReportPerStart
<1>6. CASE q \notin Event
  <2>1. UncleanShutdown /\ \A e \in Event : e < q
    <3>1. kind' # kind
      BY <1>1, <1>6
    <3>2. ASSUME NEW k \in Kind \ {"unclean"}, kind' = Append(kind, k) PROVE FALSE
      <4>1. kind'[Len(kind')] = k /\ Event' = Event \cup {Len(kind')}
        BY <1>0, <3>2, HistoryGrows
      <4> QED
        BY <1>6, <4>1
    <3> QED
      BY <1>1, <1>6, <3>1, <3>2, HistoryStep DEF JournalInv
  <2>2. PICK s \in Recent : /\ kind[s] = "stream_start"
                            /\ \A e \in Recent : kind[e] \in Ends => e < s
    BY <2>1 DEF UncleanShutdown
  <2>3. r < s
    <3>1. CASE r \in Recent
      BY <1>4, <2>2, <3>1 DEF Ends
    <3>2. CASE r \notin Recent
      BY <1>3, <3>2, EarlierThanRecent DEF JournalInv
    <3> QED
      BY <3>1, <3>2
  <2>4. s \in Event
    BY ReadableEvents DEF JournalInv, Recent, Latest
  <2> QED
    BY <1>1, <2>1, <2>2, <2>3, <2>4
<1> QED
  BY <1>5, <1>6

\* While a report that was reported as written can be read, a stream is not reported
\* again, however often the manager stops (operational_log.rs:55).
THEOREM ReportedOnce == Spec => []OneReportPerStart
<1>1. Init => OneReportPerStart
  BY DEF Init, OneReportPerStart
<1>2. JournalInv => ReadWhenGood
  BY SettledReads DEF JournalInv
<1>3. JournalInv /\ ReadWhenGood /\ ReadWhenGood' /\ OneReportPerStart /\ [Next]_vars
        => OneReportPerStart'
  BY ReportStep
<1> QED
  BY <1>1, <1>2, <1>3, JournalInductive, PTL DEF Spec

-----------------------------------------------------------------------------
(* What a line without its newline costs.                                  *)

Damaged == {e \in acked \ dropped : e \notin AllReadable}

\* The last line of the segment has no newline.
Open(s) == Len(s) > 0 /\ s[Len(s)] # Newline

WritesCritical == call = "critical" /\ step \in {"ending", "saving"}

\* Where the text of the critical event is.
At == IF step = "ending" THEN Len(Marks(0)) ELSE Len(Marks(0)) - 1

\* The next critical event, or the one being written, is behind such a line.
Spoiling ==
    IF WritesCritical THEN At > 1 /\ Marks(0)[At - 1] # Newline ELSE Open(Marks(0))

Due == IF Spoiling THEN 1 ELSE 0

Faults == stops + errors

\* Every fault pays for one line: spoilt already, or about to be.
DamageInv ==
    /\ stops \in Nat /\ errors \in Nat
    /\ Cardinality(Damaged) + Due <= Faults

LEMMA DamagedFinite ==
    JournalTypeOK => /\ IsFiniteSet(Damaged) /\ Cardinality(Damaged) \in Nat
                     /\ Damaged \subseteq Event
<1> SUFFICES ASSUME JournalTypeOK
             PROVE  /\ IsFiniteSet(Damaged) /\ Cardinality(Damaged) \in Nat
                    /\ Damaged \subseteq Event
  OBVIOUS
<1>1. IsFiniteSet(Event)
  BY FS_Interval DEF Event, JournalTypeOK
<1>2. Damaged \subseteq Event
  BY DEF Damaged, JournalTypeOK
<1> QED
  BY <1>1, <1>2, FS_Subset, FS_CardinalityType

LEMMA DueFacts ==
    /\ Due \in {0, 1} /\ (Spoiling => Due = 1) /\ (~Spoiling => Due = 0)
    /\ Due' \in {0, 1} /\ (Spoiling' => Due' = 1) /\ (~Spoiling' => Due' = 0)
  BY DEF Due

\* Only a fault leaves a line without its newline.
LEMMA SpoilingStep ==
    ASSUME JournalInv, [Next]_vars, ~(Fails \/ ManagerStops \/ PowerFails), Spoiling'
    PROVE  Spoiling
<1>0. /\ kind \in Seq(Kind) /\ Marks(0) \in Seq(Mark) /\ Newline \in Mark /\ 0 \in Index
      /\ Len(Marks(0)) \in Nat /\ DOMAIN Marks(0) = 1..Len(Marks(0))
      /\ (step \in {"opening", "ready"}) = (call = "none")
      /\ resume \in {"filing", "writing"}
      /\ JournalTypeOK /\ CallInv /\ RotationInv /\ WrittenInv
  BY FirstSegment, MarksFacts DEF JournalInv, JournalTypeOK, Mark
<1>1. ASSUME Marks(0)' = Marks(0), ~WritesCritical, ~WritesCritical' PROVE Spoiling
  BY <1>1 DEF Spoiling
<1>2. ASSUME UNCHANGED segment, ~WritesCritical, ~WritesCritical' PROVE Spoiling
  <2>1. Marks(0)' = Marks(0)
    BY <1>2 DEF Marks
  <2> QED
    BY <1>1, <1>2, <2>1
<1>3. ASSUME ~WritesCritical', Len(Marks(0)') > 0 => Marks(0)'[Len(Marks(0)')] = Newline
      PROVE  FALSE
  BY <1>3 DEF Spoiling, Open
<1>4. CASE Opens \/ Batch \/ Critical \/ Flush \/ Ages
  <2>1. UNCHANGED segment /\ ~WritesCritical /\ ~WritesCritical'
    BY <1>0, <1>4 DEF Opens, Batch, Critical, Flush, Ages, Begin, callVars, fileVars,
                      WritesCritical
  <2> QED
    BY <1>2, <2>1
<1>5. CASE FlushBegins \/ Drained
  <2>1. UNCHANGED segment /\ ~WritesCritical /\ ~WritesCritical'
    BY <1>0, <1>5 DEF FlushBegins, Drained, Flushed, fileVars, WritesCritical
  <2> QED
    BY <1>2, <2>1
<1>6. CASE MakesRoom
  <2>1. UNCHANGED segment /\ ~WritesCritical /\ ~WritesCritical'
    BY <1>6 DEF MakesRoom, fileVars, WritesCritical
  <2> QED
    BY <1>2, <2>1
<1>17. CASE OpensFile
  BY <1>0, <1>1, <1>17, OpenFacts DEF OpensFile, WritesCritical
<1>7. CASE Drains
  <2> DEFINE h == Head(pending)
  <2>1. Append0(<<h, Newline>>) /\ pending # <<>> /\ ~WritesCritical'
    BY <1>7 DEF Drains, callVars, WritesCritical
  <2>2. h \in Mark
    BY <1>0, <2>1 DEF JournalTypeOK, Mark
  <2> HIDE DEF h
  <2>3. <<h, Newline>> \in Seq(Mark)
    BY <1>0, <2>2
  <2>4. Marks(0)' = Marks(0) \o <<h, Newline>>
    BY <1>0, <2>1, <2>3, AppendFacts
  <2>5. /\ Len(Marks(0) \o <<h, Newline>>) = Len(Marks(0)) + 2
        /\ (Marks(0) \o <<h, Newline>>)[Len(Marks(0)) + 2] = Newline
    BY <1>0, <2>2, TwoMore
  <2> QED
    BY <1>3, <2>1, <2>4, <2>5
<1>8. CASE Writes
  <2>1. /\ Append0(<<TheEvent>>) /\ step = "writing" /\ step' = "ending" /\ call' = call
        /\ call = "critical" /\ Len(kind) > 0
    BY <1>0, <1>8 DEF Writes, CallInv
  <2>2. TheEvent \in Mark /\ <<TheEvent>> \in Seq(Mark)
    BY <1>0, <2>1 DEF TheEvent, Event, Mark
  <2>3. Marks(0)' = Marks(0) \o <<TheEvent>>
    BY <1>0, <2>1, <2>2, AppendFacts
  <2>4. /\ Len(Marks(0) \o <<TheEvent>>) = Len(Marks(0)) + 1
        /\ \A k \in DOMAIN Marks(0) : (Marks(0) \o <<TheEvent>>)[k] = Marks(0)[k]
    BY <1>0, <2>2, OneMore
  <2>5. WritesCritical' /\ ~WritesCritical /\ At' = Len(Marks(0)) + 1
    BY <2>1, <2>3, <2>4 DEF WritesCritical, At
  <2>6. Len(Marks(0)) + 1 > 1 /\ Marks(0)'[Len(Marks(0)) + 1 - 1] # Newline
    BY <2>5 DEF Spoiling
  <2>7. /\ Len(Marks(0)) > 0 /\ Len(Marks(0)) + 1 - 1 = Len(Marks(0))
        /\ Len(Marks(0)) \in DOMAIN Marks(0)
    BY <1>0, <2>6
  <2>8. Len(Marks(0)) > 0 /\ Marks(0)[Len(Marks(0))] # Newline
    BY <2>3, <2>4, <2>6, <2>7
  <2> QED
    BY <2>5, <2>8 DEF Spoiling, Open
<1>9. CASE EndsLine
  <2>1. /\ Append0(<<Newline>>) /\ step = "ending" /\ step' = "saving" /\ call' = call
        /\ call = "critical"
    BY <1>0, <1>9 DEF EndsLine, CallInv
  <2>2. <<Newline>> \in Seq(Mark)
    BY <1>0
  <2>3. Marks(0)' = Marks(0) \o <<Newline>>
    BY <1>0, <2>1, <2>2, AppendFacts
  <2>4. /\ Len(Marks(0) \o <<Newline>>) = Len(Marks(0)) + 1
        /\ \A k \in DOMAIN Marks(0) : (Marks(0) \o <<Newline>>)[k] = Marks(0)[k]
    BY <1>0, OneMore
  <2>5. WritesCritical' /\ WritesCritical /\ At' = Len(Marks(0)) /\ At = Len(Marks(0))
    BY <1>0, <2>1, <2>3, <2>4 DEF WritesCritical, At
  <2>6. Len(Marks(0)) > 1 /\ Marks(0)'[Len(Marks(0)) - 1] # Newline
    BY <2>5 DEF Spoiling
  <2>7. Marks(0)[Len(Marks(0)) - 1] # Newline
    <3>1. Len(Marks(0)) - 1 \in DOMAIN Marks(0)
      BY <1>0, <2>6
    <3> QED
      BY <2>3, <2>4, <2>6, <3>1
  <2> QED
    BY <2>5, <2>6, <2>7 DEF Spoiling
<1>10. CASE Saves
  <2>1. Marks(0)' = Marks(0) /\ step = "saving" /\ ~WritesCritical'
    BY <1>0, <1>10, SavesMarks DEF Saves, WritesCritical
  <2>2. CASE call = "critical"
    BY <1>0, <1>3, <2>1, <2>2 DEF WrittenInv
  <2>3. CASE call # "critical"
    BY <1>1, <2>1, <2>3 DEF WritesCritical
  <2> QED
    BY <2>2, <2>3
<1>11. CASE NothingToSave
  <2>1. UNCHANGED segment /\ Marks(0) = <<>> /\ step = "saving" /\ ~WritesCritical'
    BY <1>11 DEF NothingToSave, fileVars, WritesCritical, Marks
  <2>2. Marks(0)' = <<>>
    BY <2>1 DEF Marks
  <2> QED
    BY <1>3, <2>1, <2>2
<1>12. CASE RemovesOldest
  <2>1. segment' = [segment EXCEPT ![Segments - 1] = Absent] /\ Segments - 1 # 0
    BY <1>12 DEF RemovesOldest
  <2>2. Marks(0)' = Marks(0)
    BY <1>0, <2>1 DEF Marks, JournalTypeOK
  <2> QED
    BY <1>1, <1>12, <2>2 DEF RemovesOldest, WritesCritical
<1>13. CASE Renames
  <2>1. PICK t \in Index : t = target
    BY <1>0 DEF JournalTypeOK
  <2>2. t + 1 \in Index /\ t + 1 # 0 /\ t \in Nat
    BY <1>0, <1>13, <2>1 DEF Renames, RotationInv, Index
  <2>3. UNCHANGED segment \/ Marks(0)' = Marks(0) \/ Marks(0)' = <<>>
    <3>1. \/ UNCHANGED segment
          \/ /\ Marks(t)' = <<>>
             /\ \A i \in Index \ {t, t + 1} : Marks(i)' = Marks(i)
      BY <1>0, <1>13, <2>1, <2>2, RenameFacts
    <3> QED
      BY <1>0, <2>2, <3>1
  <2>4. ~WritesCritical /\ ~WritesCritical'
    BY <1>13 DEF Renames, WritesCritical
  <2> QED
    BY <1>1, <1>2, <1>3, <2>3, <2>4
<1>14. CASE Creates
  <2>1. segment' = [segment EXCEPT ![0] = Empty] /\ ~WritesCritical'
    BY <1>14 DEF Creates, WritesCritical
  <2>2. Marks(0)' = <<>>
    BY <1>0, <2>1 DEF Marks, Empty, JournalTypeOK
  <2> QED
    BY <1>3, <2>1, <2>2
<1>15. CASE Prunes
  <2>1. PICK t \in Index : t = target
    BY <1>0 DEF JournalTypeOK
  <2>2. ~WritesCritical /\ ~WritesCritical'
    BY <1>0, <1>15 DEF Prunes, WritesCritical
  <2>3. CASE UNCHANGED fileVars
    BY <1>2, <2>2, <2>3 DEF fileVars
  <2>4. CASE ~UNCHANGED fileVars
    <3>1. /\ Marks(t)' \in Rewritten(Marks(t), KeptAt(t))
          /\ \A i \in Index \ {t} : Marks(i)' = Marks(i)
      BY <1>0, <1>15, <2>1, <2>4, PruneFacts
    <3>2. CASE t = 0
      <4>1. /\ KeptAt(0) \in SUBSET DOMAIN Marks(0)
            /\ \A k \in KeptAt(0) : Text(Marks(0)[k])
        BY DEF KeptAt, Retained, Readable, IsLine
      <4>2. Marks(0)' \in Rewritten(Marks(0), KeptAt(0))
        BY <3>1, <3>2
      <4>3. Len(Marks(0)') > 0 => Marks(0)'[Len(Marks(0)')] = Newline
        BY <1>0, <4>1, <4>2, RewrittenFacts
      <4> QED
        BY <1>3, <2>2, <4>3
    <3>3. CASE t # 0
      BY <1>0, <1>1, <2>2, <3>1, <3>3
    <3> QED
      BY <3>2, <3>3
  <2> QED
    BY <2>3, <2>4
<1>16. CASE UNCHANGED vars
  <2>1. UNCHANGED <<segment, call, step>>
    BY <1>16 DEF vars, fileVars, callVars
  <2>2. Marks(0)' = Marks(0)
    BY <2>1 DEF Marks
  <2> QED
    BY <2>1, <2>2 DEF Spoiling, WritesCritical, At
<1> QED
  BY <1>4, <1>5, <1>6, <1>7, <1>8, <1>9, <1>10, <1>11, <1>12, <1>13, <1>14, <1>15, <1>16,
     <1>17 DEF Next

\* A critical event that is acknowledged behind a line with its newline can be read.
LEMMA SavedIsGood ==
    ASSUME JournalInv, Saves, call = "critical", ~Spoiling
    PROVE  GoodLine(TheEvent)'
<1>1. /\ step = "saving" /\ UNCHANGED kind /\ 0 \in Index /\ Marks(0)' = Marks(0)
      /\ Len(Marks(0)) \in Nat /\ DOMAIN Marks(0) = 1..Len(Marks(0))
      /\ Len(Marks(0)) > 1 /\ Marks(0)[Len(Marks(0)) - 1] = TheEvent
  <2>1. Marks(0) \in Seq(Mark)
    BY FirstSegment, MarksFacts DEF JournalInv
  <2> QED
    BY <2>1, FirstSegment, SavesMarks DEF Saves, JournalInv, WrittenInv
<1> DEFINE n == Len(Marks(0)) - 1
<1>2. n \in DOMAIN Marks(0) /\ (n = 1 \/ Marks(0)[n - 1] = Newline)
  <2>1. n \in DOMAIN Marks(0) /\ (n = 1 \/ n > 1)
    <3>1. n \in Nat /\ n >= 1 /\ n <= Len(Marks(0))
      BY <1>1
    <3> HIDE DEF n
    <3> QED
      BY <1>1, <3>1
  <2>2. At = n /\ WritesCritical
    BY <1>1 DEF WritesCritical, At
  <2>3. ~(At > 1 /\ Marks(0)[At - 1] # Newline)
    BY <2>2 DEF Spoiling
  <2> HIDE DEF n
  <2> QED
    BY <2>1, <2>2, <2>3
<1>3. Marks(0)[n] = TheEvent /\ TheEvent' = TheEvent
  BY <1>1, SameHistory
<1> HIDE DEF n
<1> QED
  BY <1>1, <1>2, <1>3 DEF GoodLine

LEMMA DamageStep ==
    ASSUME JournalInv, ReadWhenGood, ReadWhenGood', DamageInv, [Next]_vars
    PROVE  DamageInv'
<1>0. IsFiniteSet(Damaged) /\ Cardinality(Damaged) \in Nat /\ acked \subseteq Event
  <2>1. acked \subseteq Event
    BY DEF JournalInv, JournalTypeOK
  <2> QED
    BY <2>1, DamagedFinite DEF JournalInv
<1>1. dropped \subseteq dropped'
  BY DEF Next, Opens, Batch, Critical, Flush, Ages, FlushBegins, OpensFile, Drains, Drained,
         MakesRoom, Writes, EndsLine, Saves, NothingToSave, RemovesOldest, Renames, Creates,
         Prunes, Fails, ManagerStops, PowerFails, Restarts, vars, fileVars
\* A line that could be read still can, so the spoilt ones were spoilt before.
<1>2. \A e \in acked : e \in Damaged' => e \in Damaged
  <2> SUFFICES ASSUME NEW e \in acked, e \in Damaged' PROVE e \in Damaged
    OBVIOUS
  <2>1. Carried(e)
    BY CarriedStep DEF JournalInv, AckInv
  <2>2. e \in acked' /\ e \notin dropped' /\ e \notin AllReadable'
    BY DEF Damaged
  <2>3. ~(GoodLine(e)')
    BY <2>2 DEF ReadWhenGood, GoodLine
  <2> QED
    BY <1>1, <2>1, <2>2, <2>3 DEF Carried, Damaged, ReadWhenGood
<1>3. /\ stops' \in Nat /\ errors' \in Nat /\ Faults \in Nat /\ Faults' \in Nat
      /\ IF Fails \/ ManagerStops \/ PowerFails THEN Faults' = Faults + 1 ELSE Faults' = Faults
  <2>1. CASE Fails \/ ManagerStops \/ PowerFails
    BY <2>1 DEF Fails, ManagerStops, PowerFails, Restarts, DamageInv, Faults
  <2>2. CASE ~(Fails \/ ManagerStops \/ PowerFails)
    <3>1. UNCHANGED <<stops, errors>>
      BY <2>2 DEF Next, Opens, Batch, Critical, Flush, Ages, FlushBegins, OpensFile, Drains,
                  Drained, MakesRoom, Writes, EndsLine, Saves, NothingToSave, RemovesOldest, Renames,
                  Creates, Prunes, vars, historyVars
    <3> QED
      BY <2>2, <3>1 DEF DamageInv, Faults
  <2> QED
    BY <2>1, <2>2
<1>4. (Cardinality(Damaged))' = Cardinality(Damaged')
  OBVIOUS
<1> SUFFICES Cardinality(Damaged') + Due' <= Faults'
  BY <1>3, <1>4 DEF DamageInv
<1>5. CASE acked' = acked
  <2>1. Damaged' \subseteq Damaged
    BY <1>2, <1>5 DEF Damaged
  <2>2. Cardinality(Damaged') <= Cardinality(Damaged) /\ Cardinality(Damaged') \in Nat
    BY <1>0, <2>1, FS_Subset, FS_CardinalityType
  <2>3. CASE Fails \/ ManagerStops \/ PowerFails
    BY <1>0, <1>3, <2>2, <2>3, DueFacts DEF DamageInv
  <2>4. CASE ~(Fails \/ ManagerStops \/ PowerFails)
    <3>1. Spoiling' => Spoiling
      BY <2>4, SpoilingStep
    <3> QED
      BY <1>0, <1>3, <2>2, <2>4, <3>1, DueFacts DEF DamageInv
  <2> QED
    BY <2>3, <2>4
<1>6. CASE acked' # acked
  <2>1. Saves /\ call = "critical" /\ acked' = acked \cup {TheEvent} /\ UNCHANGED kind
    BY <1>6, HistoryStep DEF JournalInv
  \* Its newline is there, so the next event is safe.
  <2>2. ~Spoiling'
    <3>1. Marks(0)' = Marks(0) /\ ~WritesCritical' /\ Marks(0)[Len(Marks(0))] = Newline
      BY <2>1, FirstSegment, SavesMarks DEF Saves, JournalInv, WrittenInv, WritesCritical
    <3> QED
      BY <3>1 DEF Spoiling, Open
  <2>3. CASE Spoiling
    <3>1. Damaged' \subseteq Damaged \cup {TheEvent}
      BY <1>2, <2>1 DEF Damaged
    <3>2. /\ IsFiniteSet(Damaged \cup {TheEvent})
          /\ Cardinality(Damaged \cup {TheEvent}) <= Cardinality(Damaged) + 1
      <4>1. /\ IsFiniteSet(Damaged \cup {TheEvent})
            /\ \/ Cardinality(Damaged \cup {TheEvent}) = Cardinality(Damaged)
               \/ Cardinality(Damaged \cup {TheEvent}) = Cardinality(Damaged) + 1
        BY <1>0, FS_AddElement, Zenon
      <4> QED
        BY <1>0, <4>1
    <3>3. /\ Cardinality(Damaged') <= Cardinality(Damaged \cup {TheEvent})
          /\ Cardinality(Damaged') \in Nat /\ Cardinality(Damaged \cup {TheEvent}) \in Nat
      BY <3>1, <3>2, FS_Subset, FS_CardinalityType
    <3> QED
      BY <1>0, <1>3, <2>2, <2>3, <3>2, <3>3, DueFacts DEF DamageInv
  <2>4. CASE ~Spoiling
    <3>1. Damaged' \subseteq Damaged
      <4>1. GoodLine(TheEvent)' /\ TheEvent' = TheEvent
        BY <2>1, <2>4, SavedIsGood, SameHistory
      <4>2. TheEvent \notin Damaged'
        BY <2>1, <4>1 DEF Damaged, ReadWhenGood, GoodLine
      <4> QED
        BY <1>2, <2>1, <4>2 DEF Damaged
    <3>2. Cardinality(Damaged') <= Cardinality(Damaged) /\ Cardinality(Damaged') \in Nat
      BY <1>0, <3>1, FS_Subset, FS_CardinalityType
    <3> QED
      BY <1>0, <1>3, <2>2, <2>4, <3>2, DueFacts DEF DamageInv
  <2> QED
    BY <2>3, <2>4
<1> QED
  BY <1>5, <1>6

\* Each interruption costs one critical event at most: the one written behind the line
\* that was left without its newline (operational_log.rs:171, :185).
THEOREM DamageBounded == Spec => []DamageIsBounded
<1>1. Init => DamageInv
  <2> SUFFICES ASSUME Init PROVE DamageInv
    OBVIOUS
  <2>1. Damaged = {} /\ stops = 0 /\ errors = 0
    BY DEF Init, Damaged
  <2>2. ~Spoiling
    BY FirstSegment DEF Init, Spoiling, WritesCritical, Open, Marks
  <2> QED
    BY <2>1, <2>2, FS_EmptySet, DueFacts DEF DamageInv, Faults
<1>2. JournalInv => ReadWhenGood
  BY SettledReads DEF JournalInv
<1>3. JournalInv /\ ReadWhenGood /\ ReadWhenGood' /\ DamageInv /\ [Next]_vars => DamageInv'
  BY DamageStep
<1>4. JournalInv /\ DamageInv => DamageIsBounded
  <2> SUFFICES ASSUME JournalInv, DamageInv PROVE Cardinality(Damaged) <= stops + errors
    BY DEF DamageIsBounded, Damaged
  <2>1. Cardinality(Damaged) \in Nat
    BY DamagedFinite DEF JournalInv
  <2> QED
    BY <2>1, DueFacts DEF DamageInv, Faults
<1> QED
  BY <1>1, <1>2, <1>3, <1>4, JournalInductive, PTL DEF Spec

=============================================================================
