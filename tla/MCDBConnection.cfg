SPECIFICATION ConnSpec
CONSTANTS
    MAX_RETRIES = 5
    AllocMayFail = TRUE
INVARIANTS
    HandlesWhenConnected
    TroubleFreeIsExact
PROPERTIES
    CallReturns
    FourOutcomes
