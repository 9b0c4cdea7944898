\* One client with timing metadata and one command from outside, a stream of
\* two frames, a player that may die and may fail to start, an idle timer that
\* expires.
CONSTANTS
    Conn = {c1}
    NoConn = NoConn
    Udp = Udp
    MaxHistory = 1
    MaxSessions = 6
    MaxSeq = 2
    CmdCap = 2
    FrameCap = 1
    MaxCommands <- MCCommands
    MaxStreams <- MCStreams
    ClientCommands = 2
    OutsideCommands = 1
    ClientStreams = 1
    UdpStreams = 0
    Timed = TRUE
    PlayerMayFail = TRUE
    IdleTimeout = 1
    HealthPeriod = 2
SPECIFICATION ReceiverSafety
INVARIANTS
    ReceiverTypeOK
    DashboardWhenIdle
    SessionOnlyWhileStreaming
CHECK_DEADLOCK FALSE
