--------------------------- MODULE MCDlcExchange ---------------------------
(***************************************************************************)
(* Instances of DlcExchange for TLC.                                       *)
(***************************************************************************)
EXTENDS DlcExchange, TLC

CONSTANTS o1, u1

\* Every contract is a way to accept the one offer, with the one coin.
OneOffer == {o1}
AllAnswerO1 == [c \in Contracts |-> o1]
AllSpendU1 == [c \in Contracts |-> {u1}]

ExchangeSymmetry == Permutations(Contracts) \cup Permutations(Acceptors)
=============================================================================
