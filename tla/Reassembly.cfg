\* Two sources whose sequence numbers overlap, each reliable or of datagrams, that
\* start their numbers again, and the main loop resetting.
CONSTANTS
    t1 = t1
    t2 = t2
    Task = {t1, t2}
    Loop = Loop
    Chunks = 2
    MaxInFlight = 2
    RestartWindow = 1
    Timed = TRUE
    MaxSeq = 3
    Units <- MCUnits
    MaxRuns = 2
SPECIFICATION Spec
INVARIANTS
    TypeOK
    OneAssemblyPerFrame
    UnmixedFrames
    OnlyNewerInFlight
    ReliableStreamIsLossless
PROPERTIES
    CompletedGoesForward
