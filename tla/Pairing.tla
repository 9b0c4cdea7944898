------------------------------- MODULE Pairing -------------------------------
(***************************************************************************)
(* The pairing code of a receiver: src/local_pairing.rs, the registration  *)
(* task of src/cloud_discovery.rs, the readers of the code (the idle       *)
(* dashboard, the IPC task, the admission of a connection) and the         *)
(* discovery Worker the receiver registers with.                           *)
(*                                                                         *)
(* Every method of PairingState takes one mutex and is one step; the       *)
(* fallback timer, the registration and the dashboard take it several      *)
(* times, with anything in between.                                        *)
(*                                                                         *)
(* Abstractions: a deadline is the number of ticks that are left of it, an *)
(* attempt entry that is absent is one whose window is over (both are      *)
(* reset when used), and a retry may come at any time, so retry_delay is   *)
(* left out.                                                               *)
(***************************************************************************)
EXTENDS Naturals

CONSTANTS
    Peer,          \* remote addresses that present a code
    Code, NoCode,  \* pairing codes; none, or a text that is no code
    CodeTtl,       \* ticks a local code lives (PAIRING_CODE_TTL_SEC)
    CloudTtl,      \* ticks the Worker lists a code (PAIRING_CODE_TTL_SECONDS)
    AttemptWindow, \* ticks of an attempt window (PAIRING_ATTEMPT_WINDOW_SEC)
    AttemptLimit   \* wrong codes in a window (PAIRING_ATTEMPT_LIMIT)

ASSUME PairingAssumption ==
    /\ NoCode \notin Code
    /\ {CodeTtl, CloudTtl, AttemptWindow, AttemptLimit} \subseteq Nat \ {0}

VARIABLES
    boot,          \* settings of this process: a fixed code, required, cloud
    code,          \* snapshot.code
    issuer,        \* who issued it last: "local", "cloud" (history)
    left,          \* ticks to expires_at, 0 when past or None
    localStatus,   \* snapshot.local_status
    attempts,      \* failed_attempts: count and ticks left of the window
    cloudStatus,   \* snapshot.cloud_status
    cloudIp,       \* snapshot.cloud_ip is Some
    fallback,      \* where spawn_local_pairing's task is
    registration,  \* where spawn_registration's task is
    answer,        \* the response it holds or waits for
    outcome,       \* the status it will publish after an attempt
    listed,        \* the Worker's row for this receiver
    late,          \* a request that was given up may still reach the Worker
    consumed,      \* codes paired with since they were last listed (history)
    dashboard,     \* where the dashboard's push_frame is
    live,          \* the code was valid since the frame began (history)
    sinceCheck     \* a code was issued since the fallback looked (history)

codeVars == <<code, issuer, left, localStatus, attempts, live, sinceCheck>>
cloudVars == <<cloudStatus, cloudIp>>
workerVars == <<registration, answer, outcome, listed, late, consumed>>
vars == <<boot, codeVars, cloudVars, workerVars, fallback, dashboard>>

-----------------------------------------------------------------------------
Attempts == [count : 0..AttemptLimit, left : 0..AttemptWindow]
NoAttempts == [count |-> 0, left |-> 0]

Listing == [code : Code \cup {NoCode}, left : 0..CloudTtl]
NoListing == [code |-> NoCode, left |-> 0]

Statuses == {"WAITING", "READY", "FAILED", "DISABLED", "UNCONFIGURED"}

Boots == {b \in [fixed : Code \cup {NoCode}, required : BOOLEAN, cloud : BOOLEAN] :
            ~(b.fixed # NoCode /\ b.cloud)}

Valid == code # NoCode /\ left > 0

\* dashboard_code: the code on record, expired or not.
DashboardCode ==
    IF boot.required \/ cloudStatus # "DISABLED" THEN code ELSE NoCode

Init ==
    /\ boot \in Boots
    /\ code = NoCode /\ issuer = "none" /\ left = 0
    /\ localStatus = IF boot.required THEN "WAITING" ELSE "DISABLED"
    /\ attempts = [p \in Peer |-> NoAttempts]
    /\ cloudStatus = IF boot.cloud THEN "WAITING" ELSE "DISABLED"
    /\ cloudIp = FALSE
    /\ fallback = "checking"
    /\ registration = IF boot.cloud THEN "starting" ELSE "off"
    /\ answer = NoListing /\ outcome = "WAITING" /\ listed = NoListing
    /\ late = FALSE /\ consumed = {}
    /\ dashboard = "idle" /\ live = FALSE /\ sinceCheck = FALSE

-----------------------------------------------------------------------------
(* The code.                                                               *)

\* What rotate_code and adopt_cloud_code write.
Issue(k, by, ttl) ==
    /\ code' = k /\ issuer' = by /\ left' = ttl
    /\ localStatus' = IF boot.required THEN "READY" ELSE "DISABLED"
    /\ attempts' = [p \in Peer |-> NoAttempts]
    /\ live' = TRUE /\ sinceCheck' = TRUE

\* Mutants of FallbackNeeded: an expired code counts as a code; any code does
\* not.
FallbackNeededIfNone == code = NoCode
FallbackNeededAlways == TRUE

FallbackNeeded == code = NoCode \/ left = 0

\* ensure_fallback_code decides under one lock ...
FallbackChecks ==
    /\ fallback = "checking"
    /\ FallbackNeeded
    /\ fallback' = "rotating"
    /\ sinceCheck' = FALSE
    /\ UNCHANGED <<boot, code, issuer, left, localStatus, attempts, live,
                   cloudVars, workerVars, dashboard>>

\* ... and rotates under another.
FallbackRotates ==
    /\ fallback = "rotating"
    /\ \E k \in IF boot.fixed # NoCode THEN {boot.fixed} ELSE Code :
          Issue(k, "local", CodeTtl)
    /\ fallback' = "checking"
    /\ UNCHANGED <<boot, cloudVars, workerVars, dashboard>>

\* Mutant of ExpiryNoted: an expired code stays on record.
ExpiryOverlooked == UNCHANGED <<code, localStatus>>

\* snapshot() takes an expired code off the record; expires_at is None only
\* before the first code.
ExpiryNoted ==
    IF left = 0 /\ issuer # "none"
    THEN code' = NoCode /\ localStatus' = IF boot.required THEN "EXPIRED" ELSE "DISABLED"
    ELSE UNCHANGED <<code, localStatus>>

\* snapshot() for the manager, by the IPC task.
Snapshot ==
    /\ ExpiryNoted
    /\ UNCHANGED <<boot, issuer, left, attempts, live, sinceCheck, cloudVars,
                   workerVars, fallback, dashboard>>

\* push_frame takes a snapshot ...
DashboardBegins ==
    /\ dashboard = "idle"
    /\ ExpiryNoted
    /\ live' = (left > 0)
    /\ dashboard' = "drawing"
    /\ UNCHANGED <<boot, issuer, left, attempts, sinceCheck, cloudVars,
                   workerVars, fallback>>

\* ... and then asks for the code it draws.
DashboardDraws ==
    /\ dashboard = "drawing"
    /\ dashboard' = "idle"
    /\ UNCHANGED <<boot, codeVars, cloudVars, workerVars, fallback>>

\* The peer's entry as validate_code finds or makes it.
Attempt(p) == IF attempts[p].left = 0
              THEN [count |-> 0, left |-> AttemptWindow] ELSE attempts[p]

\* The limit is looked at before the answer; success counts nothing and
\* clears nothing.
Counted(a, wrong) ==
    IF wrong /\ a.count < AttemptLimit THEN [a EXCEPT !.count = @ + 1] ELSE a

\* validate_code, and with it the admission of a connection by a code.
ValidateCode(p, k) ==
    /\ attempts' = [attempts EXCEPT ![p] = Counted(Attempt(p), ~(Valid /\ k = code))]
    /\ UNCHANGED <<boot, code, issuer, left, localStatus, live, sinceCheck,
                   cloudVars, workerVars, fallback, dashboard>>

-----------------------------------------------------------------------------
(* The registration with the Worker.                                       *)

RegistrationStarts ==
    /\ registration = "starting"
    /\ \/ registration' = "looking" /\ UNCHANGED cloudVars
       \/ /\ registration' = "off"
          /\ cloudStatus' = "UNCONFIGURED" /\ cloudIp' = FALSE
    /\ UNCHANGED <<boot, codeVars, answer, outcome, listed, late, consumed, fallback,
                   dashboard>>

\* get_preferred_private_ipv4.
LooksForAddress ==
    /\ registration = "looking"
    /\ \/ registration' = "posting" /\ UNCHANGED outcome
       \/ registration' = "clearing" /\ outcome' = "WAITING"
    /\ UNCHANGED <<boot, codeVars, cloudVars, answer, listed, late, consumed, fallback,
                   dashboard>>

\* The Worker lists the receiver: a code that is listed stays, with a new
\* deadline, else a new one is drawn.
Lists ==
    \E k \in IF listed.left > 0 THEN {listed.code} ELSE Code :
        /\ listed' = [code |-> k, left |-> CloudTtl]
        /\ consumed' = consumed \ {k}

WorkerRegisters ==
    /\ registration = "posting"
    /\ Lists
    /\ answer' = listed'
    /\ registration' = "answered"
    /\ UNCHANGED <<boot, codeVars, cloudVars, outcome, late, fallback, dashboard>>

\* A request nobody waits for any more arrives.
WorkerRegistersLate ==
    /\ late
    /\ Lists
    /\ late' = FALSE
    /\ UNCHANGED <<boot, codeVars, cloudVars, registration, answer, outcome, fallback,
                   dashboard>>

\* handlePair: a client's code is consumed.
WorkerPairs ==
    /\ listed.left > 0
    /\ listed' = NoListing
    /\ consumed' = consumed \cup {listed.code}
    /\ UNCHANGED <<boot, codeVars, cloudVars, registration, answer, outcome, late,
                   fallback, dashboard>>

\* No answer, a refusal, or an answer that cannot be read; the Worker may have
\* listed the receiver all the same, or do so later.
RequestFails ==
    /\ registration \in {"posting", "answered"}
    /\ registration' = "clearing"
    /\ answer' = NoListing
    /\ outcome' = "FAILED"
    /\ late' \in IF registration = "posting" THEN BOOLEAN ELSE {late}
    /\ UNCHANGED <<boot, codeVars, cloudVars, listed, consumed, fallback, dashboard>>

\* Mutant of AdoptsCode: the code gets a whole lifetime, whatever its answer
\* took.
AdoptsFullLifetime ==
    /\ registration = "answered"
    /\ IF answer.left > 0
       THEN /\ Issue(answer.code, "cloud", CloudTtl)
            /\ registration' = "adopted" /\ outcome' = "READY"
       ELSE /\ registration' = "clearing" /\ outcome' = "FAILED"
            /\ UNCHANGED codeVars
    /\ answer' = NoListing
    /\ UNCHANGED <<boot, cloudVars, listed, late, consumed, fallback, dashboard>>

\* adopt_cloud_code, refused when the code has run out on its way.
AdoptsCode ==
    /\ registration = "answered"
    /\ IF answer.left > 0
       THEN /\ Issue(answer.code, "cloud", answer.left)
            /\ registration' = "adopted" /\ outcome' = "READY"
       ELSE /\ registration' = "clearing" /\ outcome' = "FAILED"
            /\ UNCHANGED codeVars
    /\ answer' = NoListing
    /\ UNCHANGED <<boot, cloudVars, listed, late, consumed, fallback, dashboard>>

\* set_cloud_ip and ...
SetsAddress ==
    /\ registration \in {"adopted", "clearing"}
    /\ cloudIp' = (registration = "adopted")
    /\ registration' = "naming"
    /\ UNCHANGED <<boot, codeVars, cloudStatus, answer, outcome, listed, late, consumed,
                   fallback, dashboard>>

\* ... set_cloud_status take the lock one after the other.
SetsStatus ==
    /\ registration = "naming"
    /\ cloudStatus' = outcome
    /\ registration' = "resting"
    /\ UNCHANGED <<boot, codeVars, cloudIp, answer, outcome, listed, late, consumed,
                   fallback, dashboard>>

\* The sleep after an attempt.
TriesAgain ==
    /\ registration = "resting"
    /\ registration' = "looking"
    /\ UNCHANGED <<boot, codeVars, cloudVars, answer, outcome, listed, late, consumed,
                   fallback, dashboard>>

-----------------------------------------------------------------------------
Less(n) == IF n > 0 THEN n - 1 ELSE 0

\* Time passes for every deadline.
Tick ==
    /\ left' = Less(left)
    /\ attempts' = [p \in Peer |-> [attempts[p] EXCEPT !.left = Less(@)]]
    /\ answer' = [answer EXCEPT !.left = Less(@)]
    /\ listed' = [listed EXCEPT !.left = Less(@)]
    /\ UNCHANGED <<boot, code, issuer, localStatus, live, sinceCheck, cloudVars,
                   registration, outcome, late, consumed, fallback, dashboard>>

Registration == RegistrationStarts \/ LooksForAddress \/ RequestFails \/ AdoptsCode
                \/ SetsAddress \/ SetsStatus \/ TriesAgain
Worker == WorkerRegisters \/ WorkerRegistersLate \/ WorkerPairs
Fallback == FallbackChecks \/ FallbackRotates
Readers == \/ Snapshot \/ DashboardBegins \/ DashboardDraws
           \/ \E p \in Peer, k \in Code \cup {NoCode} : ValidateCode(p, k)

Next == Registration \/ Worker \/ Fallback \/ Readers \/ Tick

Spec == Init /\ [][Next]_vars

\* The fallback loop never ends, and time passes.  Nothing is assumed of the
\* network, of the Worker or of who presents codes.
PairingSpec == Spec /\ WF_vars(Fallback) /\ WF_vars(Tick)

-----------------------------------------------------------------------------
(* Properties.                                                             *)

TypeOK ==
    /\ boot \in Boots
    /\ code \in Code \cup {NoCode}
    /\ issuer \in {"none", "local", "cloud"}
    /\ left \in 0..(CodeTtl + CloudTtl)
    /\ localStatus \in {"WAITING", "READY", "EXPIRED", "DISABLED"}
    /\ attempts \in [Peer -> Attempts]
    /\ cloudStatus \in Statuses /\ cloudIp \in BOOLEAN
    /\ fallback \in {"checking", "rotating"}
    /\ registration \in {"off", "starting", "looking", "posting", "answered",
                         "adopted", "clearing", "naming", "resting"}
    /\ answer \in Listing /\ listed \in Listing
    /\ outcome \in Statuses
    /\ late \in BOOLEAN /\ consumed \subseteq Code \cup {NoCode}
    /\ dashboard \in {"idle", "drawing"}
    /\ live \in BOOLEAN /\ sinceCheck \in BOOLEAN

\* A code the receiver took from the Worker and still accepts is one the Worker
\* lists for it, for at least as long as the receiver accepts it, unless a client
\* has already consumed it there: nothing else makes the code on the screen
\* useless.  It holds in every state: with a registration in flight for however
\* long, after answers that were lost when the Worker had acted on them, and with
\* requests that reach the Worker after the receiver gave them up.  (A consumed
\* code is shown, and READY said, until the next registration;
\* cloud_discovery.rs:254-263, worker index.ts:375-393.)
CloudCodeAgrees ==
    issuer = "cloud" /\ Valid
    => (code = listed.code /\ left <= listed.left) \/ code \in consumed

\* The dashboard asks for the code a second time after its snapshot: what it
\* draws was valid at some moment of this frame (dashboard.rs:52, :58).
FrameShowsLiveCode ==
    dashboard = "drawing" /\ DashboardCode # NoCode => live

\* "the local timer never replaces a valid cloud code while the receiver is
\* online" (local_pairing.rs:180): the code does not keep this.  The timer
\* decides under one lock and rotates under another (lines 82, 86), and the
\* registration may adopt a code in between.
TimerSparesCloudCode ==
    [][FallbackRotates => ~(Valid /\ issuer = "cloud" /\ cloudStatus = "READY")]_vars

\* What is left of that promise, for the codes of either source: a valid code
\* the timer replaces was issued after the timer looked, so that a code costs no
\* other its life in more than this one window (local_pairing.rs:82, :86).
FallbackSparesValidCode ==
    [][FallbackRotates /\ Valid => sinceCheck]_vars

\* A code that is missing or has expired is replaced, whatever the network
\* does and however often it expires (local_pairing.rs:179).
ExpiredIsReplaced == ~Valid ~> Valid
=============================================================================
