SPECIFICATION Spec
CONSTANTS
    NoLimit = NoLimit
    NoReconnect = NoReconnect
    FloatMax = 8
    I32Max = 6
    U32Size = 4
    Streams = {s1, s2}
    Connectors <- MCConnectors
    Asked <- MCAsked
    Served <- MCServed
    StreamLimit = 2
    MaxTroubles = 2
INVARIANT
    OnlySoundRequests
PROPERTIES
    AllComeBack
    RevokedIsFinal
CHECK_DEADLOCK FALSE
