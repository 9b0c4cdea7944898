------------------------------ MODULE Admission ------------------------------
(***************************************************************************)
(* The admission of a WebTransport connection: handle_connection of        *)
(* src/webtransport_server.rs up to accept(), and the verifier of the      *)
(* Worker's connection tokens, ConnectionTokenVerifier of                  *)
(* src/cloud_discovery.rs.                                                 *)
(*                                                                         *)
(* verify reads the clock and judges the token before it takes the mutex   *)
(* of the tokens seen, and sweeps them by that reading: other connections  *)
(* may have swept them by a later one meanwhile.                           *)
(*                                                                         *)
(* Abstractions: a token is one the Worker signed for this receiver, with  *)
(* its own jti; whether a code is valid is decided by module Pairing, and  *)
(* here either may be the case; the clock does not go back.                *)
(***************************************************************************)
EXTENDS Naturals, FiniteSets

CONSTANTS
    Task,          \* connection tasks
    Token, NoToken,
    Issued,        \* iat of each token, by the Worker's clock
    Lifetime,      \* exp - iat (the Worker's CONNECTION_TTL_SECONDS)
    Skew,          \* PAIRING_TOKEN_ISSUED_AT_SKEW_SEC
    MaxLifetime,   \* PAIRING_TOKEN_MAX_LIFETIME_SEC
    CacheLimit,    \* PAIRING_REPLAY_CACHE_LIMIT
    LastSecond     \* bound

ASSUME AdmissionAssumption ==
    /\ NoToken \notin Token
    /\ Issued \in [Token -> Nat] /\ Lifetime \in [Token -> Nat]
    /\ {Skew, MaxLifetime, LastSecond} \subseteq Nat /\ CacheLimit \in Nat \ {0}
    /\ IsFiniteSet(Token)

VARIABLES
    clock,     \* unix_seconds
    required,  \* local_pairing_code_required of this process
    verifier,  \* the process has a token verifier
    task,      \* per task: where it is, its token, the time verify has read
    seen,      \* the verifier's tokens
    admitted,  \* tokens that were admitted once (history)
    again,     \* tokens that were admitted a second time (history)
    excused    \* tokens that were evicted, or swept behind a waiting task (history)

historyVars == <<admitted, again, excused>>
vars == <<clock, required, verifier, task, seen, historyVars>>

-----------------------------------------------------------------------------
TaskRecord == [at : {"idle", "judging", "waiting", "accepting", "open"},
               token : Token \cup {NoToken}, read : 0..LastSecond]
Idle == [at |-> "idle", token |-> NoToken, read |-> 0]

Expiry(t) == Issued[t] + Lifetime[t]

Init ==
    /\ clock = 0
    /\ required \in BOOLEAN /\ verifier \in BOOLEAN
    /\ task = [c \in Task |-> Idle]
    /\ seen = {} /\ admitted = {} /\ again = {} /\ excused = {}

\* pairing_admission: a token needs a code beside it, and so does everybody
\* when codes are required.
NeedsCode(t) == required \/ t # NoToken

\* A request, with or without a code and a token.  What is refused at once
\* leaves nothing behind but a line in the log; a valid code is not used up.
Requests(c) ==
    /\ task[c].at = "idle"
    /\ \E t \in Token \cup {NoToken}, code \in {"none", "valid"} :
        /\ NeedsCode(t) => code = "valid"
        /\ t # NoToken => verifier
        /\ task' = [task EXCEPT ![c] = [at |-> IF t = NoToken THEN "accepting" ELSE "judging",
                                        token |-> t, read |-> 0]]
    /\ UNCHANGED <<clock, required, verifier, seen, historyVars>>

Timely(t, now) ==
    /\ Issued[t] <= now + Skew
    /\ Expiry(t) > now
    /\ Lifetime[t] > 0 /\ Lifetime[t] <= MaxLifetime

\* The first half of verify; the signature is checked after it.
Judges(c) ==
    /\ task[c].at = "judging"
    /\ task' = [task EXCEPT ![c] = IF Timely(task[c].token, clock)
                                   THEN [@ EXCEPT !.at = "waiting", !.read = clock]
                                   ELSE Idle]
    /\ UNCHANGED <<clock, required, verifier, seen, historyVars>>

\* Mutant of Kept: what expires this second is swept too early, and by one.
KeptStrictly(now) == {t \in seen : Expiry(t) > now + 1}

\* retain.
Kept(now) == {t \in seen : Expiry(t) > now}

\* At the limit, one of the tokens that expire first goes.
Evictions(S) ==
    IF Cardinality(S) < CacheLimit THEN {{}}
    ELSE {{t} : t \in {u \in S : \A s \in S : Expiry(u) <= Expiry(s)}}

\* Tokens a sweep takes away although a task that read the clock earlier
\* still waits to present them.
SweptBehind(c) ==
    {t \in seen \ Kept(task[c].read) :
        \E d \in Task : task[d].at = "waiting" /\ task[d].token = t}

\* The second half of verify, under the mutex.
Verifies(c) ==
    /\ task[c].at = "waiting"
    /\ LET t == task[c].token
           kept == Kept(task[c].read) IN
       IF t \in kept
       THEN /\ seen' = kept
            /\ excused' = excused \cup SweptBehind(c)
            /\ task' = [task EXCEPT ![c] = Idle]
            /\ UNCHANGED <<admitted, again>>
       ELSE /\ \E out \in Evictions(kept) :
                /\ seen' = (kept \ out) \cup {t}
                /\ excused' = excused \cup SweptBehind(c) \cup out
            /\ task' = [task EXCEPT ![c].at = "accepting"]
            /\ admitted' = admitted \cup {t}
            /\ again' = IF t \in admitted THEN again \cup {t} ELSE again
    /\ UNCHANGED <<clock, required, verifier>>

\* accept() is awaited after the token was used up; it may fail.
Accepts(c) ==
    /\ task[c].at = "accepting"
    /\ \/ task' = [task EXCEPT ![c].at = "open"]
       \/ task' = [task EXCEPT ![c] = Idle]
    /\ UNCHANGED <<clock, required, verifier, seen, historyVars>>

Closes(c) ==
    /\ task[c].at = "open"
    /\ task' = [task EXCEPT ![c] = Idle]
    /\ UNCHANGED <<clock, required, verifier, seen, historyVars>>

Second ==
    /\ clock < LastSecond
    /\ clock' = clock + 1
    /\ UNCHANGED <<required, verifier, task, seen, historyVars>>

Next == \/ \E c \in Task : Requests(c) \/ Judges(c) \/ Verifies(c) \/ Accepts(c) \/ Closes(c)
        \/ Second

Spec == Init /\ [][Next]_vars

-----------------------------------------------------------------------------
(* Properties.                                                             *)

\* Every variable has its type.
AdmissionTypeOK ==
    /\ clock \in 0..LastSecond
    /\ required \in BOOLEAN /\ verifier \in BOOLEAN
    /\ task \in [Task -> TaskRecord]
    /\ \A c \in Task : task[c].at \in {"judging", "waiting"} => task[c].token # NoToken
    /\ seen \subseteq Token /\ admitted \subseteq Token
    /\ again \subseteq Token /\ excused \subseteq Token

\* A token admits one connection, however many present it at once and however
\* long each is between its look at the clock and the mutex, unless it was
\* evicted at the limit or swept behind a task that was waiting with it; and the
\* cache never exceeds its limit (cloud_discovery.rs:100, :118).
AdmittedOnce == again \subseteq excused /\ Cardinality(seen) <= CacheLimit
=============================================================================
