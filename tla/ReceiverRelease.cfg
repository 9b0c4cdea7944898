\* Liveness of the release of a lost client, without help of the idle timer;
\* the companion socket keeps filling the frame channel.
CONSTANTS
    Conn = {c1}
    NoConn = NoConn
    Udp = Udp
    MaxHistory = 1
    MaxSessions = 6
    MaxSeq = 1
    CmdCap = 2
    FrameCap = 1
    MaxCommands <- MCCommands
    MaxStreams <- MCStreams
    ClientCommands = 2
    OutsideCommands = 0
    ClientStreams = 0
    UdpStreams = 1
    Timed = FALSE
    PlayerMayFail = FALSE
    IdleTimeout = 30
    HealthPeriod = 2
SPECIFICATION ReceiverSpec
PROPERTIES
    LostOwnerReleased
    LostConnectionUnregisters
CHECK_DEADLOCK FALSE
