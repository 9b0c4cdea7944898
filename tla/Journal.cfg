\* Three segments of one line each, three events and the reports, two stops or
\* failing calls.
CONSTANTS
    Newline = Newline
    Fragment = Fragment
    Absent = Absent
    Segments = 3
    SegmentMarks = 2
    Budget = 2
    RecentLimit = 3
    Logged = {"stream_start", "stream_summary", "incident"}
    MaxEvents = 3
    MaxFaults = 2
SPECIFICATION Spec
INVARIANTS
    JournalTypeOK
    OrderKept
    AcknowledgedKept
    
    OneReportPerStart
CHECK_DEADLOCK FALSE
