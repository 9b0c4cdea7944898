--------------------------- MODULE Admission_proofs ---------------------------
(***************************************************************************)
(* Proofs about the admission of connections, for any number of tasks and  *)
(* tokens, any lifetimes, any size of the replay cache and any clock.      *)
(***************************************************************************)
EXTENDS Admission, FiniteSetTheorems, TLAPS

USE AdmissionAssumption

-----------------------------------------------------------------------------
(* Types.                                                                  *)

LEMMA InitTypes == Init => AdmissionTypeOK
BY DEF Init, AdmissionTypeOK, TaskRecord, Idle

\* A task's record keeps its type through the steps that only move the task.
LEMMA MovesTypes ==
    ASSUME AdmissionTypeOK, NEW c \in Task,
           Requests(c) \/ Judges(c) \/ Accepts(c) \/ Closes(c)
    PROVE  AdmissionTypeOK'
<1>1. Idle \in TaskRecord /\ Idle.at = "idle"
  BY DEF Idle, TaskRecord, AdmissionTypeOK
<1>2. /\ UNCHANGED <<clock, required, verifier, seen, admitted, again, excused>>
      /\ \E r \in TaskRecord : /\ r.at \in {"judging", "waiting"} => r.token # NoToken
                               /\ task' = [task EXCEPT ![c] = r]
  <2>1. CASE Requests(c)
    <3>1. PICK t \in Token \cup {NoToken} :
            task' = [task EXCEPT ![c] = [at |-> IF t = NoToken THEN "accepting" ELSE "judging",
                                         token |-> t, read |-> 0]]
      BY <2>1 DEF Requests
    <3>2. [at |-> IF t = NoToken THEN "accepting" ELSE "judging", token |-> t, read |-> 0]
            \in TaskRecord
      BY DEF TaskRecord
    <3>3. UNCHANGED <<clock, required, verifier, seen, admitted, again, excused>>
      BY <2>1 DEF Requests, historyVars
    <3> QED
      BY <3>1, <3>2, <3>3
  <2>2. CASE Judges(c)
    <3>1. task[c] \in TaskRecord /\ task[c].token # NoToken
      BY <2>2 DEF Judges, AdmissionTypeOK
    <3>2. [task[c] EXCEPT !.at = "waiting", !.read = clock] \in TaskRecord
      BY <3>1 DEF TaskRecord, AdmissionTypeOK
    <3>3. [task[c] EXCEPT !.at = "waiting", !.read = clock].token # NoToken
      BY <3>1 DEF TaskRecord
    <3>4. \/ task' = [task EXCEPT ![c] = [task[c] EXCEPT !.at = "waiting", !.read = clock]]
          \/ task' = [task EXCEPT ![c] = Idle]
      BY <2>2 DEF Judges, AdmissionTypeOK
    <3>5. UNCHANGED <<clock, required, verifier, seen, admitted, again, excused>>
      BY <2>2 DEF Judges, historyVars
    <3> QED
      BY <1>1, <3>2, <3>3, <3>4, <3>5
  <2>3. CASE Accepts(c)
    <3>1. task[c] \in TaskRecord
      BY DEF AdmissionTypeOK
    <3>2. [task[c] EXCEPT !.at = "open"] \in TaskRecord
          /\ [task[c] EXCEPT !.at = "open"].at = "open"
      BY <3>1 DEF TaskRecord
    <3>3. \/ task' = [task EXCEPT ![c] = [task[c] EXCEPT !.at = "open"]]
          \/ task' = [task EXCEPT ![c] = Idle]
      BY <2>3 DEF Accepts, AdmissionTypeOK
    <3>4. UNCHANGED <<clock, required, verifier, seen, admitted, again, excused>>
      BY <2>3 DEF Accepts, historyVars
    <3> QED
      BY <1>1, <3>2, <3>3, <3>4
  <2>4. CASE Closes(c)
    BY <1>1, <2>4 DEF Closes, historyVars
  <2> QED
    BY <2>1, <2>2, <2>3, <2>4
<1> QED
  BY <1>2 DEF AdmissionTypeOK

LEMMA VerifiesTypes ==
    ASSUME AdmissionTypeOK, NEW c \in Task, Verifies(c)
    PROVE  AdmissionTypeOK'
<1> DEFINE t == task[c].token
           kept == Kept(task[c].read)
<1>1. task[c] \in TaskRecord /\ t \in Token
  BY DEF Verifies, AdmissionTypeOK, TaskRecord
<1>2. Idle \in TaskRecord /\ Idle.at = "idle"
  BY DEF Idle, TaskRecord, AdmissionTypeOK
<1>3. [task[c] EXCEPT !.at = "accepting"] \in TaskRecord
      /\ [task[c] EXCEPT !.at = "accepting"].at = "accepting"
  BY <1>1 DEF TaskRecord
<1>4. \/ task' = [task EXCEPT ![c] = Idle]
      \/ task' = [task EXCEPT ![c] = [task[c] EXCEPT !.at = "accepting"]]
  BY DEF Verifies, AdmissionTypeOK
<1>5. task' \in [Task -> TaskRecord]
      /\ \A d \in Task : task'[d].at \in {"judging", "waiting"} => task'[d].token # NoToken
  BY <1>2, <1>3, <1>4 DEF AdmissionTypeOK
<1>6. kept \subseteq Token /\ SweptBehind(c) \subseteq Token
      /\ \A out \in Evictions(kept) : out \subseteq Token
  BY DEF Kept, SweptBehind, Evictions, AdmissionTypeOK
<1>7. /\ seen' \subseteq Token /\ admitted' \subseteq Token
      /\ again' \subseteq Token /\ excused' \subseteq Token
  BY <1>1, <1>6 DEF Verifies, AdmissionTypeOK
<1> QED
  BY <1>5, <1>7 DEF Verifies, AdmissionTypeOK

LEMMA NextTypes == AdmissionTypeOK /\ [Next]_vars => AdmissionTypeOK'
<1> SUFFICES ASSUME AdmissionTypeOK, [Next]_vars PROVE AdmissionTypeOK'
  OBVIOUS
<1>1. CASE Second
  BY <1>1 DEF Second, AdmissionTypeOK, historyVars
<1>2. CASE UNCHANGED vars
  BY <1>2 DEF vars, historyVars, AdmissionTypeOK
<1> QED
  BY <1>1, <1>2, MovesTypes, VerifiesTypes DEF Next

\* Every variable keeps its type, for any tokens and any number of tasks.
THEOREM AdmissionTypeCorrect == Spec => []AdmissionTypeOK
BY InitTypes, NextTypes, PTL DEF Spec

-----------------------------------------------------------------------------
(* A token admits one connection.                                          *)

\* A task that waits for the mutex has read a time at which its token had not
\* expired.
Readings ==
    \A c \in Task : task[c].at = "waiting" =>
        task[c].read <= clock /\ Expiry(task[c].token) > task[c].read

\* What was admitted is still in the cache, or excused, or has expired and
\* nobody waits with it.
Remembered ==
    \A t \in admitted :
        \/ t \in seen \/ t \in excused
        \/ Expiry(t) <= clock /\ \A c \in Task : task[c].at = "waiting" => task[c].token # t

AdmissionInv == AdmissionTypeOK /\ Readings /\ Remembered /\ AdmittedOnce

LEMMA ExpiryIsNat == ASSUME NEW t \in Token PROVE Expiry(t) \in Nat
BY DEF Expiry

\* The cache is kept within its limit: at the limit one entry goes for the one
\* that comes.
LEMMA CacheBounded ==
    ASSUME AdmissionTypeOK, Cardinality(seen) <= CacheLimit,
           NEW kept, kept \subseteq seen, NEW t \in Token, t \notin kept,
           NEW out \in Evictions(kept)
    PROVE  Cardinality((kept \ out) \cup {t}) <= CacheLimit
<1>1. IsFiniteSet(seen)
  BY FS_Subset DEF AdmissionTypeOK
<1>2. IsFiniteSet(kept) /\ Cardinality(kept) <= Cardinality(seen)
  BY <1>1, FS_Subset
<1>3. Cardinality(kept) \in Nat /\ Cardinality(seen) \in Nat
  BY <1>1, <1>2, FS_CardinalityType
<1>4. CASE Cardinality(kept) < CacheLimit
  <2>1. (kept \ out) \cup {t} = kept \cup {t}
    BY <1>4 DEF Evictions
  <2>2. Cardinality(kept \cup {t}) = Cardinality(kept) + 1
    BY <1>2, FS_AddElement
  <2> QED
    BY <1>3, <1>4, <2>1, <2>2
<1>5. CASE ~(Cardinality(kept) < CacheLimit)
  <2>1. PICK u \in kept : out = {u}
    BY <1>5 DEF Evictions
  <2>2. IsFiniteSet(kept \ {u}) /\ Cardinality(kept \ {u}) = Cardinality(kept) - 1
    BY <1>2, FS_RemoveElement
  <2>3. Cardinality((kept \ {u}) \cup {t}) = Cardinality(kept \ {u}) + 1
    BY <2>2, FS_AddElement
  <2> QED
    BY <1>2, <1>3, <1>5, <2>1, <2>2, <2>3
<1> QED
  BY <1>4, <1>5

LEMMA MovesInv ==
    ASSUME AdmissionInv, NEW c \in Task,
           Requests(c) \/ Judges(c) \/ Accepts(c) \/ Closes(c)
    PROVE  Readings' /\ Remembered' /\ AdmittedOnce'
<1>1. UNCHANGED <<clock, seen, admitted, again, excused>>
  BY DEF Requests, Judges, Accepts, Closes, historyVars
<1>2. \A d \in Task \ {c} : task'[d] = task[d]
  BY DEF AdmissionInv, AdmissionTypeOK, Requests, Judges, Accepts, Closes
<1>3. ASSUME task'[c].at = "waiting"
      PROVE  /\ task'[c].read = clock
             /\ task'[c].token \in Token
             /\ Expiry(task'[c].token) > clock
  <2>1. Judges(c)
    BY <1>3 DEF AdmissionInv, AdmissionTypeOK, Requests, Accepts, Closes, Idle, TaskRecord
  <2>2. task[c] \in TaskRecord /\ task[c].token \in Token
    BY <2>1 DEF Judges, AdmissionInv, AdmissionTypeOK, TaskRecord
  <2>3. /\ Timely(task[c].token, clock)
        /\ task'[c] = [task[c] EXCEPT !.at = "waiting", !.read = clock]
    BY <1>3, <2>1 DEF Judges, Idle, AdmissionInv, AdmissionTypeOK
  <2> QED
    BY <2>2, <2>3 DEF Timely, TaskRecord
<1>4. clock \in Nat
  BY DEF AdmissionInv, AdmissionTypeOK
<1>5. Readings'
  BY <1>1, <1>2, <1>3, <1>4, ExpiryIsNat DEF Readings, AdmissionInv, Expiry
<1>6. Remembered'
  <2> SUFFICES ASSUME NEW t \in admitted, t \notin seen, t \notin excused
               PROVE  /\ Expiry(t) <= clock
                      /\ \A d \in Task : task'[d].at = "waiting" => task'[d].token # t
    BY <1>1 DEF Remembered, Expiry
  <2>1. Expiry(t) <= clock /\ \A d \in Task : task[d].at = "waiting" => task[d].token # t
    BY DEF AdmissionInv, Remembered
  <2>2. Expiry(t) \in Nat
    BY ExpiryIsNat DEF AdmissionInv, AdmissionTypeOK
  <2>3. task'[c].at = "waiting" => task'[c].token # t
    BY <1>3, <1>4, <2>1, <2>2
  <2> QED
    BY <1>2, <2>1, <2>3
<1>7. AdmittedOnce'
  BY <1>1 DEF AdmissionInv, AdmittedOnce
<1> QED
  BY <1>5, <1>6, <1>7

LEMMA VerifiesInv ==
    ASSUME AdmissionInv, NEW c \in Task, Verifies(c)
    PROVE  Readings' /\ Remembered' /\ AdmittedOnce'
<1> DEFINE t == task[c].token
           now == task[c].read
           kept == Kept(now)
<1>1. /\ task[c] \in TaskRecord /\ task[c].at = "waiting"
      /\ t \in Token /\ now \in Nat /\ clock \in Nat
      /\ now <= clock /\ Expiry(t) > now
  BY DEF Verifies, AdmissionInv, AdmissionTypeOK, TaskRecord, Readings
<1>2. /\ UNCHANGED clock
      /\ \A d \in Task \ {c} : task'[d] = task[d]
      /\ task'[c].at # "waiting"
  BY <1>1 DEF Verifies, Idle, AdmissionInv, AdmissionTypeOK, TaskRecord
<1>3. Readings'
  BY <1>2 DEF Readings, AdmissionInv, Expiry
<1>4. /\ kept \subseteq seen
      /\ \A u \in seen \ kept : Expiry(u) <= clock
  <2>1. \A u \in seen : Expiry(u) \in Nat
    BY ExpiryIsNat DEF AdmissionInv, AdmissionTypeOK
  <2> QED
    BY <1>1, <2>1 DEF Kept
<1>5. PICK out \in Evictions(kept) \cup {{}} :
        /\ seen' = (kept \ out) \cup {t}
        /\ excused' = excused \cup SweptBehind(c) \cup out
        /\ admitted' \subseteq admitted \cup {t}
  <2>1. CASE t \in kept
    <3>1. seen' = kept /\ excused' = excused \cup SweptBehind(c) /\ admitted' = admitted
      BY <2>1 DEF Verifies
    <3>2. /\ seen' = (kept \ {}) \cup {t} /\ admitted' \subseteq admitted \cup {t}
          /\ excused' = excused \cup SweptBehind(c) \cup {}
      BY <2>1, <3>1
    <3> QED
      BY <3>2
  <2>2. CASE t \notin kept
    <3>1. \E out \in Evictions(kept) :
            /\ seen' = (kept \ out) \cup {t}
            /\ excused' = excused \cup SweptBehind(c) \cup out
      BY <2>2 DEF Verifies
    <3>2. admitted' = admitted \cup {t}
      BY <2>2 DEF Verifies
    <3> QED
      BY <3>1, <3>2
  <2> QED
    BY <2>1, <2>2
<1>6. Remembered'
  <2> SUFFICES ASSUME NEW u \in admitted', u \notin seen', u \notin excused'
               PROVE  /\ Expiry(u) <= clock
                      /\ \A d \in Task : task'[d].at = "waiting" => task'[d].token # u
    BY <1>2 DEF Remembered, Expiry
  <2>1. u \in admitted /\ u \notin kept /\ u \notin SweptBehind(c) /\ u \notin excused
    BY <1>5
  <2>2. CASE u \in seen
    <3>1. \A d \in Task : task[d].at = "waiting" => task[d].token # u
      BY <2>1, <2>2 DEF SweptBehind
    <3> QED
      BY <1>2, <1>4, <2>1, <2>2, <3>1
  <2>3. CASE u \notin seen
    <3>1. Expiry(u) <= clock /\ \A d \in Task : task[d].at = "waiting" => task[d].token # u
      BY <2>1, <2>3 DEF AdmissionInv, Remembered
    <3> QED
      BY <1>2, <3>1
  <2> QED
    BY <2>2, <2>3
<1>7. again' \subseteq excused'
  <2>1. t \in admitted /\ t \notin kept => t \in excused
    <3>1. t \in seen => t \in kept
      BY <1>1 DEF Kept
    <3>2. ~(\A d \in Task : task[d].at = "waiting" => task[d].token # t)
      BY <1>1
    <3> QED
      BY <3>1, <3>2 DEF AdmissionInv, Remembered
  <2>2. again' \subseteq again \cup {u \in {t} : t \in admitted /\ t \notin kept}
    BY DEF Verifies
  <2> QED
    BY <1>5, <2>1, <2>2 DEF AdmissionInv, AdmittedOnce
<1>8. Cardinality(seen') <= CacheLimit
  <2>1. CASE t \in kept
    <3>1. seen' = kept
      BY <2>1 DEF Verifies
    <3>2. IsFiniteSet(seen)
      BY FS_Subset DEF AdmissionInv, AdmissionTypeOK
    <3>3. Cardinality(kept) <= Cardinality(seen)
          /\ Cardinality(kept) \in Nat /\ Cardinality(seen) \in Nat
      BY <1>4, <3>2, FS_Subset, FS_CardinalityType
    <3> QED
      BY <3>1, <3>3 DEF AdmissionInv, AdmittedOnce
  <2>2. CASE t \notin kept
    <3>1. PICK gone \in Evictions(kept) : seen' = (kept \ gone) \cup {t}
      BY <2>2 DEF Verifies
    <3> QED
      BY <1>1, <1>4, <2>2, <3>1, CacheBounded DEF AdmissionInv, AdmittedOnce
  <2> QED
    BY <2>1, <2>2
<1> QED
  BY <1>3, <1>6, <1>7, <1>8 DEF AdmittedOnce

LEMMA InitInv == Init => AdmissionInv
BY InitTypes, FS_EmptySet
   DEF Init, Idle, AdmissionInv, Readings, Remembered, AdmittedOnce

LEMMA SecondInv ==
    ASSUME AdmissionInv, Second
    PROVE  Readings' /\ Remembered' /\ AdmittedOnce'
<1>1. clock \in Nat /\ clock' = clock + 1
  BY DEF Second, AdmissionInv, AdmissionTypeOK
<1>2. UNCHANGED <<task, seen, admitted, again, excused>>
  BY DEF Second, historyVars
<1>3. \A c \in Task : task[c].read \in Nat
  BY DEF AdmissionInv, AdmissionTypeOK, TaskRecord
<1>4. \A t \in admitted : Expiry(t) \in Nat
  BY ExpiryIsNat DEF AdmissionInv, AdmissionTypeOK
<1>5. Readings'
  BY <1>1, <1>2, <1>3 DEF Readings, AdmissionInv, Expiry
<1>6. Remembered'
  BY <1>1, <1>2, <1>4 DEF Remembered, AdmissionInv, Expiry
<1> QED
  BY <1>2, <1>5, <1>6 DEF AdmissionInv, AdmittedOnce

LEMMA NextInv == AdmissionInv /\ [Next]_vars => AdmissionInv'
<1> SUFFICES ASSUME AdmissionInv, [Next]_vars PROVE AdmissionInv'
  OBVIOUS
<1>1. AdmissionTypeOK'
  BY NextTypes DEF AdmissionInv
<1>2. CASE UNCHANGED vars
  BY <1>1, <1>2 DEF vars, historyVars, AdmissionInv, Readings, Remembered, AdmittedOnce,
                    Expiry
<1> QED
  BY <1>1, <1>2, MovesInv, VerifiesInv, SecondInv DEF Next, AdmissionInv

\* However many connections present a token at once, and however long each is
\* between its look at the clock and the mutex, the token admits one of them,
\* unless it was evicted at the limit or swept behind a waiting task; and the
\* cache stays within its limit (ConnectionTokenVerifier::verify).
THEOREM TokenAdmitsOnce == Spec => []AdmittedOnce
<1>1. AdmissionInv => AdmittedOnce
  BY DEF AdmissionInv
<1> QED
  BY <1>1, InitInv, NextInv, PTL DEF Spec
=============================================================================
