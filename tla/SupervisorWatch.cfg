\* Failures and a portal task's settings, restart and stop race the watchdog;
\* a receiver and its replacement each report two events or sessions, of which
\* the list holds one event.
CONSTANTS
    Admin = {a1}
    StartupDeadline = 1
    HeartbeatDeadline = 0
    StableReset = 2
    CommandCap = 1
    RingSize = 1
    MaxSpawn = 2
    MaxFaults = 1
    MaxRequests = 2
    MaxReports = 2
SPECIFICATION Spec
INVARIANTS
    TypeOK
    OneReceiver
    ReadyMeansReady
    SettingsInForce
    JournalExact
CHECK_DEADLOCK FALSE
