SPECIFICATION Spec
CONSTANTS
    MAX_FILTERS = 2
    MAX_ACCOUNTS_PER_LIST = 1
    MAX_SIGNATURES_PER_FILTER = 1
    MAX_INSTRUCTION_FILTERS = 1
    MAX_MEMCMPS_PER_INSTRUCTION = 2
    MAX_MEMCMP_BYTES = 2
    MAX_INSTRUCTION_DATA_BYTES = 3
    USizeSize = 8
    NoSize = NoSize
    Bytes = {0, 1}
    Accounts = {"a"}
    Signatures = {"sig"}
    Outcomes = {0}
    Instructions <- MCInstructions
    Names = {"a", "b", "long"}
    LongNames = {"long"}
    MaxCalls = 4
INVARIANTS
    AcceptedCanMatch
    RefusedCannotMatch
    AcceptedIsServable
CHECK_DEADLOCK FALSE
