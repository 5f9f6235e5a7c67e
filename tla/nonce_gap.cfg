\* One call fails after it has taken a nonce.
SPECIFICATION FairSpec
CONSTANTS
    Requests = {r1, r2}
    StacksChains = {s1}
    EvmChains = {}
    FirstNonces = {0, 1}
    Unset = Unset
    Unreliable = TRUE
PROPERTY
    AcceptedIsMined
CHECK_DEADLOCK FALSE
