\* Overlapping calls from a fresh and from a used account.
SPECIFICATION FairSpec
CONSTANTS
    Requests = {r1, r2, r3}
    StacksChains = {s1}
    EvmChains = {e1}
    FirstNonces = {0, 1}
    Unset = Unset
    Unreliable = TRUE
INVARIANTS
    TypeOK
    NoncesAreDistinct
    StacksGapsAreLost
    EvmWaitsForPending
PROPERTIES
    UsedNoncesLeaveNoGap
    EvmCallersAreAnswered
CHECK_DEADLOCK FALSE
