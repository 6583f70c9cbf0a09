\* Up to three pages; the SDK sends a request three times at most.
SPECIFICATION ClientSpec
CONSTANTS
    Keys <- FiveKeys
    PageSize = 2
    DeletesFail = FALSE
    MaxAttempts = 3
INVARIANTS
    ClientTypeOK
    EverythingIsDeleted
PROPERTIES
    AnswersWereTrue
    CallsReturn
CHECK_DEADLOCK FALSE
