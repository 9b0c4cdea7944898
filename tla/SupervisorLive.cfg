\* The watchdog's promises under failures and one request.
CONSTANTS
    Admin = {a1}
    StartupDeadline = 1
    HeartbeatDeadline = 0
    StableReset = 2
    CommandCap = 1
    RingSize = 2
    MaxSpawn = 3
    MaxFaults = 1
    MaxRequests = 1
    MaxReports = 0
SPECIFICATION LiveSpec
PROPERTIES
    NeverGivesUp
    HungReceiverReplaced
    RestartHonoured
CHECK_DEADLOCK FALSE
