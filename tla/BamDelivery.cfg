SPECIFICATION BamSpec
CONSTANTS
    NoLimit = NoLimit
    NoReconnect = NoReconnect
    FloatMax = 8
    I32Max = 6
    U32Size = 4
    SLOT_FRAMING = FALSE
    Updates <- BamDeliveryUpdates
    Statuses <- MCStatuses
    Policies <- MCPolicies
    WireCap = 3
    MaxPublished = 5
INVARIANTS
    OpenStreamIsComplete
    HeldInOrder
PROPERTIES
    KeepsPromise
    SettlesComplete
