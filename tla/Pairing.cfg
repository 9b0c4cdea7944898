\* One peer, two codes, lifetimes of two ticks, one wrong code in a window of
\* two ticks; every setting of the process.
CONSTANTS
    Peer = {p1}
    Code = {k1, k2}
    NoCode = NoCode
    CodeTtl = 2
    CloudTtl = 2
    AttemptWindow = 2
    AttemptLimit = 1
SPECIFICATION PairingSpec
INVARIANTS
    CloudCodeAgrees
    FrameShowsLiveCode
PROPERTIES
    FallbackSparesValidCode
    ExpiredIsReplaced
