\* Two connections, three sessions, a history of two: replacement, a truncated
\* history and a reused sender all happen.
CONSTANTS
    Conn = {c1, c2}
    NoConn = NoConn
    MaxHistory = 2
    MaxSessions = 3
    MaxSeq = 2
SPECIFICATION Spec
SYMMETRY ConnSymmetry
INVARIANTS
    TypeOK
    SessionsEndOnce
    SharingOnlyOwner
    ClockSyncOfThisSession
PROPERTIES
    EstimateNeverGoesBack
    DisconnectEndsOwnSession
    BookSpec
