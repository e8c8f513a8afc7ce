SPECIFICATION HistorySpec
CONSTANTS
    NoLimit = NoLimit
    NoReconnect = NoReconnect
    FloatMax = 8
    I32Max = 6
    U32Size = 6
    SLOT_FRAMING = FALSE
    Updates <- MCUpdates
    Statuses <- MCStatuses
    Policies <- MCPolicies
PROPERTY
    AttemptsAreFailedAttempts
