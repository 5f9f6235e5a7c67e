\* Two offers that compete for a coin, two calls at a time, all failures.
SPECIFICATION Spec
CONSTANTS
    o1 = o1  o2 = o2  c1 = c1  c2 = c2  c3 = c3  u1 = u1
    Offers = {o1, o2}
    Contracts = {c1, c2, c3}
    Utxos = {u1}
    OfferOf <- TwoOffers
    InputsOf <- SharedCoin
    Invalid = {c1}
    Calls = {h1, h2}
    Refreshers = {r1}
    Checkers = {k1}
    NoContract = NoContract
    Unreliable = TRUE
SYMMETRY CallSymmetry
INVARIANTS
    TypeOK
    AnswersAreTrue
    
    CoinsAreKnown
