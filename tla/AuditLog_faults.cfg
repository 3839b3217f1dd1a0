SPECIFICATION FairSpec
CONSTANTS
    e1 = e1
    e2 = e2
    e3 = e3
    Entries = {e1, e2, e3}
    Poison = {e3}
    MaxAttempts = 4
    NoEntry = NoEntry
    MaxFaults = 2
CHECK_DEADLOCK FALSE
INVARIANTS
    TypeOK
    DuplicatesNeedFaults
PROPERTIES
    TrailSpec
    LettersEnd
