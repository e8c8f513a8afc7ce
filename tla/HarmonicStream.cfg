SPECIFICATION Spec
CONSTANTS
    NoLimit = NoLimit
    NoReconnect = NoReconnect
    FloatMax = 8
    I32Max = 6
    U32Size = 6
    SLOT_FRAMING = TRUE
    Updates <- MCHarmonicUpdates
    Statuses <- MCStatuses
    Policies <- MCPolicies
INVARIANTS
    NoLostWakeup
    StreamInv
PROPERTIES
    KeepsPromise
    SeenFromOutside
    BackoffNeverShrinks
    DownIsTransient
    AnswersAreTaken
