\* CreateDLC is notified once: the attestor is the oracle wallets rely on.
SPECIFICATION Spec
CONSTANTS
    Events = {u1, u2}
    Handlers = {h1, h2}
    RawOutcomes = {4960, 10000}
    Scale = 100
    NbDigits = 14
    CreateNotices = 1
    CloseNotices = 2
    None = None
    Unreliable = TRUE
INVARIANTS
    NoncesSignOneOutcome
    OffersStayClosable
PROPERTIES
    ImplementsOracle
CHECK_DEADLOCK FALSE
