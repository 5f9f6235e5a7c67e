\* Both kinds of notice repeat; storage fails and the process restarts.
SPECIFICATION FairSpec
CONSTANTS
    Events = {u1}
    Handlers = {h1, h2}
    RawOutcomes = {4960, 10000}
    Scale = 100
    NbDigits = 14
    CreateNotices = 2
    CloseNotices = 2
    None = None
    Unreliable = TRUE
INVARIANTS
    TypeOK
    RowsAreConsistent
    AttestationsDecode
PROPERTIES
    LateCloseIsAttested
CHECK_DEADLOCK FALSE
