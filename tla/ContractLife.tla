---------------------------- MODULE ContractLife ----------------------------
(***************************************************************************)
(* What a DLC promises to its two parties and to the smart contract that   *)
(* created it, whatever the router wallet does in between: bitcoin is      *)
(* locked only by a contract the router has signed; it is paid out once,   *)
(* by the CET of the outcome all attestors agree on, or by the refund once *)
(* the lock time has passed; a final payout is never undone; and what is   *)
(* reported has happened.  There are no requests, rows, checks, failures   *)
(* or confirmations here: RouterWallet is shown to implement it.           *)
(***************************************************************************)
CONSTANTS Offers, Contracts, OfferOf, Outcomes, NoTx, RefundTx

VARIABLES
    signed,   \* contracts whose Sign message was handed out
    locked,   \* contracts whose funding transaction is final
    agreed,   \* <<o, x>>: all attestors have attested x for offer o
    expired,  \* offers whose lock time has passed
    payout,   \* the transaction that pays a contract out
    final,    \* contracts whose payout is final
    reports   \* what the smart contract has been told

lifeVars == <<signed, locked, agreed, expired, payout, final, reports>>

Init ==
    /\ signed = {} /\ locked = {} /\ agreed = {} /\ expired = {}
    /\ payout = [c \in Contracts |-> NoTx]
    /\ final = {} /\ reports = {}

Sign(c) ==
    /\ signed' = signed \cup {c}
    /\ UNCHANGED <<locked, agreed, expired, payout, final, reports>>

Lock(c) ==
    /\ c \in signed
    /\ locked' = locked \cup {c}
    /\ UNCHANGED <<signed, agreed, expired, payout, final, reports>>

\* Attestors that have agreed never come to agree on something else.
Agree(o, x) ==
    /\ \A y \in Outcomes : <<o, y>> \notin agreed
    /\ agreed' = agreed \cup {<<o, x>>}
    /\ UNCHANGED <<signed, locked, expired, payout, final, reports>>

Expire(o) ==
    /\ expired' = expired \cup {o}
    /\ UNCHANGED <<signed, locked, agreed, payout, final, reports>>

\* The payout of a locked contract is chosen once.
PayOut(c, tx) ==
    /\ c \in locked /\ payout[c] = NoTx
    /\ payout' = [payout EXCEPT ![c] = tx]
    /\ UNCHANGED <<signed, locked, agreed, expired, final, reports>>

Close(c) == \E x \in Outcomes : <<OfferOf[c], x>> \in agreed /\ PayOut(c, x)

Refund(c) == OfferOf[c] \in expired /\ PayOut(c, RefundTx)

Finalise(c) ==
    /\ payout[c] # NoTx
    /\ final' = final \cup {c}
    /\ UNCHANGED <<signed, locked, agreed, expired, payout, reports>>

\* set-status-funded and post-close-dlc.
Report(c) ==
    /\ c \in locked
    /\ \E report \in {[kind |-> "funded", id |-> c, cet |-> NoTx]} \cup
                     {[kind |-> "closed", id |-> c, cet |-> x] :
                          x \in Outcomes \cap {payout[c]}} :
          reports' = reports \cup {report}
    /\ UNCHANGED <<signed, locked, agreed, expired, payout, final>>

Next ==
    \/ \E c \in Contracts : \/ Sign(c) \/ Lock(c) \/ Close(c) \/ Refund(c)
                            \/ Finalise(c) \/ Report(c)
    \/ \E o \in Offers : Expire(o) \/ \E x \in Outcomes : Agree(o, x)

Spec == Init /\ [][Next]_lifeVars
=============================================================================
