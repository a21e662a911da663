SPECIFICATION BusySpec
CONSTANTS
    MAX_RETRIES = 5
    AllocMayFail = FALSE
PROPERTY FailoverSurvived
