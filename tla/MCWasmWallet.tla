---------------------------- MODULE MCWasmWallet ----------------------------
\* Instances of WasmWallet for TLC.
EXTENDS WasmWallet, TLC

CONSTANTS o1, o2, c1, c2, c3, u1

CallSymmetry == Permutations(Calls)

\* Two ways to accept the first offer; the second offer competes with it for
\* the same coin.
TwoOffers == (c1 :> o1) @@ (c2 :> o1) @@ (c3 :> o2)
SharedCoin == (c1 :> {u1}) @@ (c2 :> {u1}) @@ (c3 :> {u1})

OneOffer == (c1 :> o1)
OneCoin == (c1 :> {u1})
=============================================================================
