\* The four listeners of one chain; a peer that closes normally ends it all.
SPECIFICATION FairSpec
CONSTANTS
    Listeners = {CreateDLC, SetStatusFunded, CloseDLC, PostCloseDLC}
    Unreliable = TRUE
INVARIANTS
    TypeOK
    HeldOnce
    OpenMeansAsked
PROPERTIES
    CallsAreKept
    
CHECK_DEADLOCK FALSE
