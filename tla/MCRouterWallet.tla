--------------------------- MODULE MCRouterWallet ---------------------------
(***************************************************************************)
(* Instances of RouterWallet for TLC.                                      *)
(***************************************************************************)
EXTENDS RouterWallet

\* Every accept message answers the same offer.
CONSTANT o1
OneOffer == {o1}
AllAnswerO1 == [c \in Contracts |-> o1]
=============================================================================
