\* One offer, one coin, two ways to accept; repeated and late messages, restarts.
SPECIFICATION ExchangeSpec
CONSTANTS
    o1 = o1
    u1 = u1
    Offers <- OneOffer
    Contracts = {c1, c2}
    OfferOf <- AllAnswerO1
    Utxos = {u1}
    InputsOf <- AllSpendU1
    Invalid = {}
    Attestors = {a1}
    Outcomes = {}
    NoTx = NoTx
    RefundTx = RefundTx
    NoContract = NoContract
    Checkers = {}
    Acceptors = {h1, h2}
    Calls = {w1}
    Refreshers = {r1}
    PageChecks = {p1}
    NB_CONFIRMATIONS = 2
    Unreliable = TRUE
    LateStates = {"Signed", "Confirmed", "PreClosed", "Closed", "Refunded"}
    MaxLate = 1
SYMMETRY ExchangeSymmetry

    
PROPERTY
    ImplementsPage
