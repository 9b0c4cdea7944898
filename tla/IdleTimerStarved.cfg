\* The default timeouts: IDLE_TIMEOUT_SEC = 30, a health tick every 2 seconds.
CONSTANTS
    Conn = {c1}
    NoConn = NoConn
    Udp = Udp
    MaxHistory = 1
    MaxSessions = 6
    MaxSeq = 1
    CmdCap = 2
    FrameCap = 1
    MaxCommands <- MCCommands
    MaxStreams <- MCStreams
    ClientCommands = 1
    OutsideCommands = 0
    ClientStreams = 0
    UdpStreams = 1
    Timed = FALSE
    PlayerMayFail = FALSE
    IdleTimeout = 30
    HealthPeriod = 2
SPECIFICATION ReceiverSpec
PROPERTIES
    AbandonedStreamReleased
CHECK_DEADLOCK FALSE
