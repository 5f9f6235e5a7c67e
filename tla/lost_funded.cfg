\* The retry announced by periodic_check, for the funded message.
SPECIFICATION FairSpec
CONSTANTS
    o1 = o1
    Offers <- OneOffer
    Contracts = {c1}
    OfferOf <- AllAnswerO1
    Attestors = {a1}
    Outcomes = {x}
    NoTx = NoTx
    RefundTx = RefundTx
    NoContract = NoContract
    Checkers = {k1}
    Acceptors = {h1}
    NB_CONFIRMATIONS = 2
    Unreliable = TRUE
    LateStates = {"Signed", "Confirmed", "PreClosed", "Closed", "Refunded"}
    MaxLate = 1
PROPERTY
    FundedIsReported
