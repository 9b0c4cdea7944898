\* Two connections, three tokens of which one is never timely, room for one.
CONSTANTS
    t1 = t1
    t2 = t2
    t3 = t3
    Task = {c1, c2}
    Token <- MCToken
    NoToken = NoToken
    Issued <- MCIssued
    Lifetime <- MCLifetime
    Skew = 0
    MaxLifetime = 2
    CacheLimit = 1
    LastSecond = 4
SPECIFICATION Spec
INVARIANTS
    AdmittedOnce
