SPECIFICATION DeliverySpec
CONSTANTS
    NoLimit = NoLimit
    NoReconnect = NoReconnect
    FloatMax = 8
    I32Max = 6
    U32Size = 4
    SLOT_FRAMING = TRUE
    Updates <- DeliveryUpdates
    Statuses <- MCStatuses
    Policies <- MCPolicies
    MaxSlot = 2
    MaxFrames = 2
    MaxTxs = 2
    WireCap = 3
INVARIANT
    CompleteSlots
PROPERTY
    FollowsContract
