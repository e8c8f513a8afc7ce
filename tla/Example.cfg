SPECIFICATION Spec
CONSTANTS
    NoLimit = NoLimit
    NoReconnect = NoReconnect
    FloatMax = 8
    I32Max = 6
    U32Size = 2
    MAX_FILTERS = 1
    MAX_ACCOUNTS_PER_LIST = 2
    MAX_SIGNATURES_PER_FILTER = 1
    MAX_INSTRUCTION_FILTERS = 1
    MAX_MEMCMPS_PER_INSTRUCTION = 1
    MAX_MEMCMP_BYTES = 2
    MAX_INSTRUCTION_DATA_BYTES = 3
    USizeSize = 8
    NoSize = NoSize
    LongNames = {}
    Bytes = {1, 2}
    Programs = {"p"}
    ArgsGiven <- MCArgs
    Payloads <- MCPayloads
    TxUniverse <- TxsOf
INVARIANTS
    RequestMeansTheArgs
    LoggedIsReported
    LeavesForCause
CHECK_DEADLOCK FALSE
