\* Pages of two keys, so that a lookup takes up to three requests.
SPECIFICATION FairSpec
CONSTANTS
    Keys <- FiveKeys
    PageSize = 2
    RefreshAfter = 2
    TokenLifetime = 4
INVARIANTS
    TypeOK
    TokensAreValid
    ConnectionsAreBounded
PROPERTIES
    CallsAreAtomic
    CallsReturn
    OutagesEnd
CHECK_DEADLOCK FALSE
