\* A close that was heard, with a storage outage.
SPECIFICATION FairSpec
CONSTANTS
    Events = {u1}
    Handlers = {h1, h2}
    RawOutcomes = {4960}
    Scale = 100
    NbDigits = 14
    CreateNotices = 1
    CloseNotices = 1
    None = None
    Unreliable = TRUE
PROPERTY
    HeardCloseIsAttested
CHECK_DEADLOCK FALSE
