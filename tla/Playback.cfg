\* Both modes; one encoder reader; the code's queue capacities.
CONSTANTS
    IdleCodecs = {"raw", "hevc"}
    Reader = {r1}
    NoOne = NoOne
    RawCapacity = 2
    EncodedCapacity = 1
SPECIFICATION PlaybackSpec
INVARIANTS
    OnePlayer
PROPERTIES
    MainGoesOn
    DashboardReturns
