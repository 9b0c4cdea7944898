---------------------------- MODULE SessionBook -----------------------------
(***************************************************************************)
(* What the receiver's session book promises its readers (the admin        *)
(* portal, the watchdog and the update agent): sessions are numbered from  *)
(* one, at most one is active, and each that ends is recorded once, with   *)
(* the sender it had, in the order in which they ended; a bounded number   *)
(* of records is retained, the newest first.  The rules of                 *)
(* ManagementState::start, stop and finish_locked (src/management.rs).     *)
(***************************************************************************)
EXTENDS Naturals, Sequences

CONSTANTS Senders, NoSender, Reasons, MaxHistory

VARIABLES active,   \* the active session, 0 when there is none
          sender,   \* its sender, NoSender when there is none
          begun,    \* how many sessions have begun
          record    \* the sessions that ended, newest first

registerVars == <<active, sender, begun, record>>

Init == active = 0 /\ sender = NoSender /\ begun = 0 /\ record = <<>>

Entry(why) == [id |-> active, sender |-> sender, reason |-> why]

Files(why) ==
    LET all == <<Entry(why)>> \o record
    IN record' = IF Len(all) > MaxHistory THEN SubSeq(all, 1, MaxHistory) ELSE all

Opens(s) == active' = begun + 1 /\ sender' = s /\ begun' = begun + 1

Begin(s) == active = 0 /\ Opens(s) /\ UNCHANGED record

Replace(s) == active # 0 /\ Opens(s) /\ Files("replaced")

End(why) ==
    /\ active # 0
    /\ Files(why)
    /\ active' = 0 /\ sender' = NoSender
    /\ UNCHANGED begun

Next ==
    \/ \E s \in Senders : Begin(s) \/ Replace(s)
    \/ \E why \in Reasons \ {"replaced"} : End(why)

Spec == Init /\ [][Next]_registerVars

=============================================================================
