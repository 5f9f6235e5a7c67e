\* One offer, no failures: reject_offer of an offer that could not be accepted.
SPECIFICATION Spec
CONSTANTS
    o1 = o1  o2 = o2  c1 = c1  c2 = c2  c3 = c3  u1 = u1
    Offers = {o1}
    Contracts = {c1}
    Utxos = {u1}
    OfferOf <- OneOffer
    InputsOf <- OneCoin
    Invalid = {}
    Calls = {h1}
    Refreshers = {r1}
    Checkers = {k1}
    NoContract = NoContract
    Unreliable = FALSE
INVARIANT
    RejectedIsNotOffered
