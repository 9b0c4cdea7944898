\* The instance of Pairing.cfg, with the local timer's promise as its one property.
CONSTANTS
    Peer = {p1}
    Code = {k1, k2}
    NoCode = NoCode
    CodeTtl = 2
    CloudTtl = 2
    AttemptWindow = 2
    AttemptLimit = 1
SPECIFICATION PairingSpec
PROPERTIES
    TimerSparesCloudCode
