\* DeleteObjects may keep keys although it answers 200.
SPECIFICATION Spec
CONSTANTS
    Keys <- FiveKeys
    PageSize = 2
    DeletesFail = TRUE
INVARIANTS
    EverythingIsDeleted
CHECK_DEADLOCK FALSE
