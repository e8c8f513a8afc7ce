SPECIFICATION DeliverySpec
CONSTANTS
    NoLimit = NoLimit
    NoReconnect = NoReconnect
    FloatMax = 8
    I32Max = 6
    U32Size = 4
    SLOT_FRAMING = TRUE
    Updates <- DeliveryUpdates
    Statuses <- MCStatuses
    Policies <- MCPolicies
    MaxSlot = 2
    MaxFrames = 2
    MaxTxs = 1
    WireCap = 2
PROPERTY
    WireDrains
