\* One contract, two attestors that may disagree, one check at a time.
SPECIFICATION FairSpec
CONSTANTS
    o1 = o1
    Offers <- OneOffer
    Contracts = {c1}
    OfferOf <- AllAnswerO1
    Attestors = {a1, a2}
    Outcomes = {x, y}
    NoTx = NoTx
    RefundTx = RefundTx
    NoContract = NoContract
    Checkers = {k1}
    Acceptors = {h1}
    NB_CONFIRMATIONS = 2
    Unreliable = TRUE
    LateStates = {"Signed"}
    MaxLate = 1
INVARIANTS
    TypeOK
    RowsMatchBitcoin
    StaleReadsStillHold
    CetsAreFullyAttested
    SignedContractsAreStored
    NotificationsAreTrue
PROPERTIES
    ChecksOnlyAdvance
    ImplementsContractLife
    FundedRowsAreConfirmed
    ExpiredRowsSettle
    AttestedRowsClose
