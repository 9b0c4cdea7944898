---------------------------- MODULE Pairing_proofs ----------------------------
(***************************************************************************)
(* Proofs about the pairing code, for any peers and codes, any lifetimes   *)
(* of a code, any attempt window and limit.                                *)
(***************************************************************************)
EXTENDS Pairing, TLAPS

USE PairingAssumption

-----------------------------------------------------------------------------
(* Types.                                                                  *)

LEMMA NoneTypes == NoAttempts \in Attempts /\ NoListing \in Listing
BY DEF NoAttempts, Attempts, NoListing, Listing

LEMMA InitTypes == Init => TypeOK
<1> SUFFICES ASSUME Init PROVE TypeOK
  OBVIOUS
<1>1. attempts \in [Peer -> Attempts] /\ answer \in Listing /\ listed \in Listing
  BY NoneTypes DEF Init
<1>2. left \in 0..(CodeTtl + CloudTtl)
  BY DEF Init
<1> QED
  BY <1>1, <1>2 DEF Init, TypeOK, Statuses

LEMMA LessTypes == ASSUME NEW m \in Nat, NEW n \in 0..m
                   PROVE  Less(n) \in 0..m /\ Less(n) <= n /\ (Less(n) > 0 => n > 0)
BY DEF Less

LEMMA IssueTypes ==
    ASSUME TypeOK, NEW k \in Code, NEW by \in {"local", "cloud"},
           NEW ttl \in 0..(CodeTtl + CloudTtl), Issue(k, by, ttl)
    PROVE  /\ code' \in Code \cup {NoCode} /\ issuer' \in {"none", "local", "cloud"}
           /\ left' \in 0..(CodeTtl + CloudTtl)
           /\ localStatus' \in {"WAITING", "READY", "EXPIRED", "DISABLED"}
           /\ attempts' \in [Peer -> Attempts]
           /\ live' \in BOOLEAN /\ sinceCheck' \in BOOLEAN
<1>1. attempts' \in [Peer -> Attempts]
  BY NoneTypes DEF Issue
<1> QED
  BY <1>1 DEF Issue

LEMMA FallbackTypes == ASSUME TypeOK, Fallback PROVE TypeOK'
<1>1. CASE FallbackChecks
  <2>1. /\ fallback' = "rotating" /\ sinceCheck' = FALSE
        /\ UNCHANGED <<boot, code, issuer, left, localStatus, attempts, live, cloudStatus,
                       cloudIp, registration, answer, outcome, listed, late, consumed,
                       dashboard>>
    BY <1>1 DEF FallbackChecks, cloudVars, workerVars
  <2>2. fallback' \in {"checking", "rotating"} /\ sinceCheck' \in BOOLEAN
    BY <2>1
  <2> QED
    BY <2>1, <2>2 DEF TypeOK
<1>2. CASE FallbackRotates
  <2>1. PICK k \in Code : Issue(k, "local", CodeTtl)
    BY <1>2 DEF FallbackRotates, TypeOK, Boots
  <2>2. CodeTtl \in 0..(CodeTtl + CloudTtl)
    OBVIOUS
  <2> QED
    BY <1>2, <2>1, <2>2, IssueTypes DEF FallbackRotates, TypeOK, cloudVars, workerVars
<1> QED
  BY <1>1, <1>2 DEF Fallback

LEMMA ReaderTypes == ASSUME TypeOK, Readers PROVE TypeOK'
<1>1. ASSUME ExpiryNoted
      PROVE  /\ code' \in Code \cup {NoCode}
             /\ localStatus' \in {"WAITING", "READY", "EXPIRED", "DISABLED"}
  BY <1>1 DEF ExpiryNoted, TypeOK
<1>2. CASE Snapshot
  BY <1>1, <1>2 DEF Snapshot, TypeOK, cloudVars, workerVars
<1>3. CASE DashboardBegins
  BY <1>1, <1>3 DEF DashboardBegins, TypeOK, cloudVars, workerVars
<1>4. CASE DashboardDraws
  BY <1>4 DEF DashboardDraws, TypeOK, codeVars, cloudVars, workerVars
<1>5. ASSUME NEW p \in Peer, NEW k, ValidateCode(p, k) PROVE TypeOK'
  <2>1. Attempt(p) \in Attempts
    BY DEF Attempt, Attempts, TypeOK
  <2>2. \A a \in Attempts, wrong \in BOOLEAN : Counted(a, wrong) \in Attempts
    BY DEF Counted, Attempts
  <2>3. attempts' \in [Peer -> Attempts]
    BY <1>5, <2>1, <2>2 DEF ValidateCode, TypeOK
  <2> QED
    BY <1>5, <2>3 DEF ValidateCode, TypeOK, cloudVars, workerVars
<1> QED
  BY <1>2, <1>3, <1>4, <1>5 DEF Readers

LEMMA RegistrationTypes == ASSUME TypeOK, Registration PROVE TypeOK'
<1>1. CASE RegistrationStarts
  <2>1. /\ registration' \in {"looking", "off"}
        /\ cloudStatus' \in Statuses /\ cloudIp' \in BOOLEAN
    BY <1>1 DEF RegistrationStarts, TypeOK, Statuses, cloudVars
  <2> QED
    BY <1>1, <2>1 DEF RegistrationStarts, TypeOK, codeVars
<1>2. CASE LooksForAddress
  BY <1>2 DEF LooksForAddress, TypeOK, Statuses, codeVars, cloudVars
<1>3. CASE RequestFails
  BY <1>3, NoneTypes DEF RequestFails, TypeOK, Statuses, codeVars, cloudVars
<1>4. CASE AdoptsCode
  <2>1. CASE answer.left > 0
    <3>1. answer.code \in Code \cup {NoCode} /\ answer.left \in 0..(CodeTtl + CloudTtl)
      BY DEF TypeOK, Listing
    <3>2. /\ code' \in Code \cup {NoCode} /\ issuer' \in {"none", "local", "cloud"}
          /\ left' \in 0..(CodeTtl + CloudTtl)
          /\ localStatus' \in {"WAITING", "READY", "EXPIRED", "DISABLED"}
          /\ attempts' \in [Peer -> Attempts]
          /\ live' \in BOOLEAN /\ sinceCheck' \in BOOLEAN
      BY <1>4, <2>1, <3>1, NoneTypes DEF AdoptsCode, Issue
    <3> QED
      BY <1>4, <2>1, <3>2, NoneTypes DEF AdoptsCode, TypeOK, Statuses, cloudVars
  <2>2. CASE ~(answer.left > 0)
    BY <1>4, <2>2, NoneTypes DEF AdoptsCode, TypeOK, Statuses, codeVars, cloudVars
  <2> QED
    BY <2>1, <2>2
<1>5. CASE SetsAddress
  BY <1>5 DEF SetsAddress, TypeOK, codeVars
<1>6. CASE SetsStatus
  BY <1>6 DEF SetsStatus, TypeOK, codeVars
<1>7. CASE TriesAgain
  BY <1>7 DEF TriesAgain, TypeOK, codeVars, cloudVars
<1> QED
  BY <1>1, <1>2, <1>3, <1>4, <1>5, <1>6, <1>7 DEF Registration

LEMMA ListsTypes ==
    ASSUME TypeOK, Lists
    PROVE  listed' \in Listing /\ consumed' \subseteq Code \cup {NoCode}
<1>1. PICK k \in Code \cup {NoCode} : listed' = [code |-> k, left |-> CloudTtl]
                                    /\ consumed' = consumed \ {k}
  BY DEF Lists, TypeOK, Listing
<1> QED
  BY <1>1 DEF TypeOK, Listing

LEMMA WorkerTypes == ASSUME TypeOK, Worker PROVE TypeOK'
<1>1. CASE WorkerRegisters
  <2>1. listed' \in Listing /\ answer' \in Listing /\ consumed' \subseteq Code \cup {NoCode}
    BY <1>1, ListsTypes DEF WorkerRegisters
  <2> QED
    BY <1>1, <2>1 DEF WorkerRegisters, TypeOK, codeVars, cloudVars
<1>2. CASE WorkerRegistersLate
  <2>1. listed' \in Listing /\ consumed' \subseteq Code \cup {NoCode}
    BY <1>2, ListsTypes DEF WorkerRegistersLate
  <2>2. /\ late' = FALSE
        /\ UNCHANGED <<boot, code, issuer, left, localStatus, attempts, live, sinceCheck,
                       cloudStatus, cloudIp, registration, answer, outcome, fallback,
                       dashboard>>
    BY <1>2 DEF WorkerRegistersLate, codeVars, cloudVars
  <2> QED
    <3>1. late' \in BOOLEAN
      BY <2>2
    <3> QED
      BY <2>1, <2>2, <3>1 DEF TypeOK
<1>3. CASE WorkerPairs
  <2>1. listed' \in Listing /\ consumed' \subseteq Code \cup {NoCode}
    BY <1>3, NoneTypes DEF WorkerPairs, TypeOK, Listing
  <2>2. UNCHANGED <<boot, code, issuer, left, localStatus, attempts, live, sinceCheck,
                    cloudStatus, cloudIp, registration, answer, outcome, late, fallback,
                    dashboard>>
    BY <1>3 DEF WorkerPairs, codeVars, cloudVars
  <2> QED
    BY <2>1, <2>2 DEF TypeOK
<1> QED
  BY <1>1, <1>2, <1>3 DEF Worker

LEMMA TickTypes == ASSUME TypeOK, Tick PROVE TypeOK'
<1>1. left' \in 0..(CodeTtl + CloudTtl)
  BY LessTypes DEF Tick, TypeOK
<1>2. \A l \in Listing : [l EXCEPT !.left = Less(@)] \in Listing
  BY LessTypes DEF Listing
<1>3. \A a \in Attempts : [a EXCEPT !.left = Less(@)] \in Attempts
  BY LessTypes DEF Attempts
<1>4. answer' \in Listing /\ listed' \in Listing
  BY <1>2 DEF Tick, TypeOK
<1>5. attempts' \in [Peer -> Attempts]
  BY <1>3 DEF Tick, TypeOK
<1> QED
  BY <1>1, <1>4, <1>5 DEF Tick, TypeOK, cloudVars

LEMMA NextTypes == TypeOK /\ [Next]_vars => TypeOK'
<1> SUFFICES ASSUME TypeOK, [Next]_vars PROVE TypeOK'
  OBVIOUS
<1>1. CASE UNCHANGED vars
  BY <1>1 DEF vars, codeVars, cloudVars, workerVars, TypeOK
<1> QED
  BY <1>1, FallbackTypes, ReaderTypes, RegistrationTypes, WorkerTypes, TickTypes DEF Next

\* Every variable keeps its type: above all the count of wrong codes of a
\* peer stays within the limit (validate_code).
THEOREM PairingTypeCorrect == Spec => []TypeOK
BY InitTypes, NextTypes, PTL DEF Spec

-----------------------------------------------------------------------------
(* The fallback and the dashboard.                                         *)

\* There is no code before the first is issued; what a frame is about to show
\* was valid; a valid code under a fallback that has decided to rotate was
\* issued after it looked.
ReadersInv ==
    /\ issuer = "none" => code = NoCode
    /\ dashboard = "drawing" => code = NoCode \/ live
    /\ fallback = "rotating" /\ Valid => sinceCheck

LEMMA ExpiryKeeps ==
    ASSUME ReadersInv, ExpiryNoted
    PROVE  /\ issuer = "none" => code' = NoCode
           /\ code' = NoCode \/ code' = code
           /\ left = 0 => code' = NoCode
BY DEF ExpiryNoted, ReadersInv

LEMMA ReadersInvKept == TypeOK /\ ReadersInv /\ [Next]_vars => ReadersInv'
<1> SUFFICES ASSUME TypeOK, ReadersInv, [Next]_vars PROVE ReadersInv'
  OBVIOUS
<1>1. CASE FallbackChecks
  BY <1>1 DEF FallbackChecks, FallbackNeeded, ReadersInv, Valid, TypeOK
<1>2. CASE FallbackRotates
  BY <1>2 DEF FallbackRotates, Issue, ReadersInv
<1>3. CASE Snapshot
  BY <1>3, ExpiryKeeps DEF Snapshot, ReadersInv, Valid
<1>4. CASE DashboardBegins
  <2>1. left \in Nat /\ live' = (left > 0) /\ UNCHANGED <<issuer, left, sinceCheck, fallback>>
    BY <1>4 DEF DashboardBegins, TypeOK
  <2>2. code' = NoCode \/ live'
    <3>1. left > 0 => live'
      BY <2>1, Zenon
    <3>2. left = 0 => code' = NoCode
      BY <1>4, ExpiryKeeps DEF DashboardBegins
    <3>3. left = 0 \/ left > 0
      BY <2>1
    <3> QED
      BY <3>1, <3>2, <3>3, Zenon
  <2>3. /\ issuer = "none" => code' = NoCode
        /\ code' = NoCode \/ code' = code
    BY <1>4, ExpiryKeeps DEF DashboardBegins
  <2> QED
    BY <2>1, <2>2, <2>3 DEF ReadersInv, Valid
<1>5. CASE DashboardDraws
  BY <1>5 DEF DashboardDraws, ReadersInv, Valid, codeVars
<1>6. ASSUME NEW p \in Peer, NEW k, ValidateCode(p, k) PROVE ReadersInv'
  BY <1>6 DEF ValidateCode, ReadersInv, Valid
<1>7. CASE Tick
  <2>1. left' > 0 => left > 0
    BY <1>7, LessTypes DEF Tick, TypeOK
  <2> QED
    BY <1>7, <2>1 DEF Tick, ReadersInv, Valid
<1>8. CASE AdoptsCode
  BY <1>8 DEF AdoptsCode, Issue, ReadersInv, Valid, codeVars
<1>9. ASSUME UNCHANGED <<codeVars, fallback, dashboard>> PROVE ReadersInv'
  BY <1>9 DEF ReadersInv, Valid, codeVars
<1>10. CASE RegistrationStarts \/ LooksForAddress \/ RequestFails \/ SetsAddress
            \/ SetsStatus \/ TriesAgain \/ Worker
  <2>1. UNCHANGED <<codeVars, fallback, dashboard>>
    BY <1>10 DEF RegistrationStarts, LooksForAddress, RequestFails, SetsAddress,
                 SetsStatus, TriesAgain, Worker, WorkerRegisters, WorkerRegistersLate, WorkerPairs
  <2> QED
    BY <1>9, <2>1
<1>11. CASE UNCHANGED vars
  BY <1>9, <1>11 DEF vars
<1> QED
  BY <1>1, <1>2, <1>3, <1>4, <1>5, <1>6, <1>7, <1>8, <1>10, <1>11
     DEF Next, Fallback, Readers, Registration

LEMMA ReadersInvInit == Init => ReadersInv
BY DEF Init, ReadersInv

\* What the dashboard draws was a valid code at some moment of the frame,
\* although it asks twice and codes come and expire in between (push_frame).
THEOREM FrameCodeWasLive == Spec => []FrameShowsLiveCode
<1>1. ReadersInv => FrameShowsLiveCode
  BY DEF ReadersInv, FrameShowsLiveCode, DashboardCode
<1> QED
  BY <1>1, InitTypes, NextTypes, ReadersInvInit, ReadersInvKept, PTL DEF Spec

\* The fallback, which decides under one lock and rotates under another, never
\* replaces a valid code that was there when it looked (ensure_fallback_code).
THEOREM FallbackSpares == Spec => FallbackSparesValidCode
<1>1. ReadersInv /\ [Next]_vars => [FallbackRotates /\ Valid => sinceCheck]_vars
  BY DEF ReadersInv, FallbackRotates
<1> QED
  BY <1>1, InitTypes, NextTypes, ReadersInvInit, ReadersInvKept, PTL
     DEF Spec, FallbackSparesValidCode

-----------------------------------------------------------------------------
(* The code the Worker lists.                                              *)

\* A Worker that lists l and has consumed the codes in c pairs code k for the next
\* n ticks, or has paired it already.
Backed(l, c, k, n) == (k = l.code /\ n <= l.left) \/ k \in c

\* Both the code the receiver took from the Worker and the one in the answer
\* that is on its way are backed; neither lives longer than the Worker's codes
\* do, so that a code drawn a second time is backed again.
CloudInv ==
    /\ issuer = "cloud" /\ Valid => left <= CloudTtl /\ Backed(listed, consumed, code, left)
    /\ answer.left > 0 => Backed(listed, consumed, answer.code, answer.left)

LEMMA CloudInvInit == Init => CloudInv
BY DEF Init, CloudInv, NoListing

\* Renewing or drawing a listing, and consuming it, leave every code backed that
\* was.
LEMMA ListsBacks ==
    ASSUME TypeOK, Lists, NEW k, NEW n \in 1..CloudTtl,
           Backed(listed, consumed, k, n)
    PROVE  Backed(listed', consumed', k, n)
<1>1. PICK d \in IF listed.left > 0 THEN {listed.code} ELSE Code :
         listed' = [code |-> d, left |-> CloudTtl] /\ consumed' = consumed \ {d}
  BY DEF Lists
<1>2. listed'.code = d /\ listed'.left = CloudTtl
  BY <1>1
<1>3. listed.left \in Nat
  BY DEF TypeOK, Listing
<1>4. CASE k = d
  BY <1>2, <1>4 DEF Backed
<1>5. CASE k # d
  <2>1. k \in consumed
    BY <1>1, <1>3, <1>5 DEF Backed
  <2> QED
    BY <1>1, <1>5, <2>1 DEF Backed
<1> QED
  BY <1>4, <1>5

LEMMA WorkerKeeps == ASSUME TypeOK, CloudInv, Worker PROVE CloudInv'
<1>1. /\ left \in Nat /\ answer.left \in 0..CloudTtl /\ answer \in Listing
      /\ listed.left \in Nat
  BY DEF TypeOK, Listing
<1>2. UNCHANGED <<code, issuer, left>>
  BY DEF Worker, WorkerRegisters, WorkerRegistersLate, WorkerPairs, codeVars
<1>3. CASE WorkerRegisters
  <2>1. Lists /\ answer' = listed'
    BY <1>3 DEF WorkerRegisters
  <2>2. Backed(listed', consumed', answer'.code, answer'.left)
    <3>1. listed'.left \in Nat /\ answer'.code = listed'.code /\ answer'.left = listed'.left
      BY <2>1, ListsTypes DEF Listing
    <3> QED
      BY <3>1 DEF Backed
  <2>3. issuer = "cloud" /\ Valid => Backed(listed', consumed', code, left)
    BY <1>1, <2>1, ListsBacks DEF CloudInv, Valid
  <2> QED
    BY <1>2, <2>2, <2>3 DEF CloudInv, Valid, Backed
<1>4. CASE WorkerRegistersLate
  <2>1. Lists /\ UNCHANGED answer
    BY <1>4 DEF WorkerRegistersLate
  <2>2. answer.left > 0 => Backed(listed', consumed', answer.code, answer.left)
    BY <1>1, <2>1, ListsBacks DEF CloudInv
  <2>3. issuer = "cloud" /\ Valid => Backed(listed', consumed', code, left)
    BY <1>1, <2>1, ListsBacks DEF CloudInv, Valid
  <2> QED
    BY <1>2, <2>1, <2>2, <2>3 DEF CloudInv, Valid, Backed
<1>5. CASE WorkerPairs
  <2>1. consumed' = consumed \cup {listed.code} /\ UNCHANGED answer
    BY <1>5 DEF WorkerPairs
  <2>2. \A k, n : Backed(listed, consumed, k, n) => k \in consumed'
    BY <2>1 DEF Backed
  <2> QED
    BY <1>2, <2>1, <2>2 DEF CloudInv, Valid, Backed
<1> QED
  BY <1>3, <1>4, <1>5 DEF Worker

LEMMA RegistrationKeeps == ASSUME TypeOK, CloudInv, Registration PROVE CloudInv'
<1>1. UNCHANGED <<listed, consumed>>
  BY DEF Registration, RegistrationStarts, LooksForAddress, RequestFails, AdoptsCode,
         SetsAddress, SetsStatus, TriesAgain
<1>2. CASE UNCHANGED <<codeVars, answer>>
  BY <1>1, <1>2 DEF CloudInv, Backed, Valid, codeVars
<1>3. CASE UNCHANGED codeVars /\ answer' = NoListing
  BY <1>1, <1>3 DEF CloudInv, Backed, Valid, codeVars, NoListing
<1>4. CASE Issue(answer.code, "cloud", answer.left) /\ answer.left > 0 /\ answer' = NoListing
  <2>1. code' = answer.code /\ left' = answer.left /\ answer'.left = 0
    BY <1>4 DEF Issue, NoListing
  <2>2. answer.left <= CloudTtl /\ Backed(listed, consumed, answer.code, answer.left)
    BY <1>4 DEF CloudInv, TypeOK, Listing
  <2> QED
    BY <1>1, <2>1, <2>2 DEF CloudInv, Backed
<1>5. \/ UNCHANGED <<codeVars, answer>>
      \/ UNCHANGED codeVars /\ answer' = NoListing
      \/ Issue(answer.code, "cloud", answer.left) /\ answer.left > 0 /\ answer' = NoListing
  BY DEF Registration, RegistrationStarts, LooksForAddress, RequestFails, AdoptsCode,
         SetsAddress, SetsStatus, TriesAgain
<1> QED
  BY <1>2, <1>3, <1>4, <1>5

\* A code that expires on the receiver, or is replaced there by its own, needs no
\* Worker.
LEMMA CodeKeeps == ASSUME CloudInv, Fallback \/ Readers PROVE CloudInv'
<1>1. UNCHANGED <<answer, listed, consumed>>
  BY DEF Fallback, FallbackChecks, FallbackRotates, Readers, Snapshot, DashboardBegins,
         DashboardDraws, ValidateCode, workerVars
<1>2. \/ issuer' = "local"
      \/ UNCHANGED <<issuer, left>> /\ (code' = code \/ code' = NoCode)
  <2>1. CASE FallbackRotates
    BY <2>1 DEF FallbackRotates, Issue
  <2>2. CASE Snapshot \/ DashboardBegins
    BY <2>2 DEF Snapshot, DashboardBegins, ExpiryNoted
  <2>3. CASE FallbackChecks \/ DashboardDraws
             \/ \E p \in Peer, k \in Code \cup {NoCode} : ValidateCode(p, k)
    BY <2>3 DEF FallbackChecks, DashboardDraws, ValidateCode, codeVars
  <2> QED
    BY <2>1, <2>2, <2>3 DEF Fallback, Readers
<1> QED
  BY <1>1, <1>2 DEF CloudInv, Backed, Valid

LEMMA TickKeeps == ASSUME TypeOK, CloudInv, Tick PROVE CloudInv'
<1>1. /\ answer \in Listing /\ listed \in Listing
      /\ left \in Nat /\ answer.left \in Nat /\ listed.left \in Nat
  BY DEF TypeOK, Listing
<1>2. /\ answer'.code = answer.code /\ answer'.left = Less(answer.left)
      /\ listed'.code = listed.code /\ listed'.left = Less(listed.left)
      /\ left' = Less(left)
  BY <1>1 DEF Tick, Listing
<1>3. UNCHANGED <<consumed, code, issuer>>
  BY DEF Tick
<1>4. ASSUME NEW k, NEW n \in Nat, Backed(listed, consumed, k, n)
      PROVE  Backed(listed', consumed', k, Less(n))
  BY <1>1, <1>2, <1>3, <1>4 DEF Backed, Less
<1>5. /\ left' > 0 => left > 0
      /\ answer'.left > 0 => answer.left > 0
      /\ left <= CloudTtl => left' <= CloudTtl
  BY <1>1, <1>2 DEF Less
<1>6. issuer = "cloud" /\ Valid => Backed(listed', consumed', code, Less(left))
  BY <1>1, <1>4 DEF CloudInv
<1>7. answer.left > 0 => Backed(listed', consumed', answer.code, Less(answer.left))
  BY <1>1, <1>4 DEF CloudInv
<1>8. issuer' = "cloud" /\ Valid'
        => left' <= CloudTtl /\ Backed(listed', consumed', code', left')
  BY <1>2, <1>3, <1>5, <1>6 DEF CloudInv, Valid, Backed
<1>9. answer'.left > 0 => Backed(listed', consumed', answer'.code, answer'.left)
  BY <1>2, <1>3, <1>5, <1>7 DEF Backed
<1> QED
  BY <1>8, <1>9 DEF CloudInv

LEMMA CloudInvKept == TypeOK /\ CloudInv /\ [Next]_vars => CloudInv'
<1> SUFFICES ASSUME TypeOK, CloudInv, [Next]_vars PROVE CloudInv'
  OBVIOUS
<1>1. CASE UNCHANGED vars
  BY <1>1 DEF vars, codeVars, workerVars, CloudInv, Backed, Valid
<1> QED
  BY <1>1, RegistrationKeeps, WorkerKeeps, CodeKeeps, TickKeeps DEF Next

\* A cloud code the receiver accepts is listed by the Worker for at least as long
\* as the receiver accepts it, or has been consumed there: with a registration in
\* flight, after lost answers and with requests that arrive late
\* (spawn_registration, handleRegistration, handlePair).
THEOREM CloudCodeIsListed == Spec => []CloudCodeAgrees
<1>1. CloudInv => CloudCodeAgrees
  BY DEF CloudInv, Backed, CloudCodeAgrees
<1> QED
  BY <1>1, InitTypes, NextTypes, CloudInvInit, CloudInvKept, PTL DEF Spec
=============================================================================
