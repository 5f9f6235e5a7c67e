------------------------- MODULE RouterWalletProofs -------------------------
(***************************************************************************)
(* Proofs about RouterWallet, for any number of offers, contracts,         *)
(* attestors, outcomes, overlapping checks and accept requests.            *)
(***************************************************************************)
EXTENDS RouterWallet, TLAPS

\* A write that outlived its caller is as true as the row it was meant to be.
LateWritesAreTrue ==
    \A w \in late : RowIsTrue(w.id, w.row) /\ w.row.state # "None"

\* The inductive invariant: no conjunct is inductive without the others.
IInv ==
    /\ TypeOK
    /\ RowsMatchBitcoin
    /\ LateWritesAreTrue
    /\ StaleReadsStillHold
    /\ CetsAreFullyAttested
    /\ SignedContractsAreStored
    /\ NotificationsAreTrue

\* The facts about Bitcoin, the attestors and storage that no step undoes.
\* Everything a handler keeps across an await is one of them.
Persists ==
    /\ \A c \in Contracts : fund[c] = NB_CONFIRMATIONS
                                => fund'[c] = NB_CONFIRMATIONS
    /\ \A c \in Contracts : spend[c].tx # NoTx => spend'[c].tx = spend[c].tx
    /\ \A c \in Contracts : spend[c].confs = NB_CONFIRMATIONS
                                => spend'[c].confs = NB_CONFIRMATIONS
    /\ \A o \in Offers, a \in Attestors :
          att[o][a] # NoTx => att'[o][a] = att[o][a]
    /\ \A c \in Contracts : fin[c].state # "None" => fin'[c].state # "None"

-----------------------------------------------------------------------------
\* Init establishes the invariant: nothing is stored, sent or in flight.
LEMMA InitIInv == Init => IInv
<1> SUFFICES ASSUME Init PROVE IInv
  OBVIOUS
<1> USE ConstantsAssumption
<1>1. TypeOK
  BY DEF Init, TypeOK, Row, SpendTx, Checker, Acceptor, IdleChecker,
         IdleAcceptor, NoRow, CETs, Passes
<1>2. RowsMatchBitcoin /\ LateWritesAreTrue
  BY DEF Init, RowsMatchBitcoin, LateWritesAreTrue, RowIsTrue, NoRow
<1>3. StaleReadsStillHold
  BY DEF Init, StaleReadsStillHold, HandlerFacts, IdleChecker
<1>4. CetsAreFullyAttested
  BY DEF Init, CetsAreFullyAttested
<1>5. SignedContractsAreStored /\ NotificationsAreTrue
  BY DEF Init, SignedContractsAreStored, NotificationsAreTrue
<1>6. QED
  BY <1>1, <1>2, <1>3, <1>4, <1>5 DEF IInv

-----------------------------------------------------------------------------
\* What the remote calls do to storage and to Bitcoin, whatever they answer.
LEMMA StoreEffect ==
    ASSUME NEW c, NEW row, NEW ok,
           StoreUpdate(c, row, ok) \/ StoreCreate(c, row, ok)
    PROVE  fin' = fin \/ fin' = [fin EXCEPT ![c] = row]
BY DEF StoreUpdate, StoreCreate

\* A write is the only one that may be left behind by a store call.
LEMMA LateEffect ==
    ASSUME NEW c, NEW row, NEW ok,
           StoreUpdate(c, row, ok) \/ StoreCreate(c, row, ok)
    PROVE  \A w \in late' \ late :
              /\ w.kind \in {"update", "create"} /\ w.id = c /\ w.row = row
              /\ w = [kind |-> w.kind, id |-> w.id, row |-> w.row]
BY DEF StoreUpdate, StoreCreate, MayLandLater

LEMMA BroadcastEffect ==
    ASSUME NEW c, NEW tx, NEW ok, Broadcast(c, tx, ok)
    PROVE  \/ spend' = spend
           \/ /\ spend[c].tx = NoTx \/ spend[c].tx = tx
              /\ spend' = [spend EXCEPT ![c].tx = tx]
BY DEF Broadcast

\* A call that succeeds has had its effect.
LEMMA BroadcastSucceeds ==
    ASSUME NEW c, NEW tx, Broadcast(c, tx, TRUE)
    PROVE  spend' = [spend EXCEPT ![c].tx = tx]
BY DEF Broadcast

LEMMA StoreSucceeds ==
    ASSUME NEW c, NEW row,
           StoreUpdate(c, row, TRUE) \/ StoreCreate(c, row, TRUE)
    PROVE  fin' = [fin EXCEPT ![c] = row]
BY DEF StoreUpdate, StoreCreate

\* RowIsTrue in the next state, for a contract and a row of this state.
TrueNext(c, row) ==
    /\ row.state \notin {"None", "Signed"} => fund'[c] = NB_CONFIRMATIONS
    /\ row.state \in {"PreClosed", "Closed"} =>
          row.cet \in Outcomes /\ spend'[c].tx = row.cet
    /\ row.state = "Closed" => spend'[c].confs = NB_CONFIRMATIONS
    /\ row.state = "Refunded" => spend'[c].tx = RefundTx

\* HandlerFacts(k) in the next state, spelled out.
FactsNext(k) ==
    LET h == chk'[k] IN
    /\ h.pass = "Confirmed" => \A r \in h.todo : TrueNext(r.id, ConfirmedRow)
    /\ h.pass = "PreClosed" =>
          \A r \in h.todo : TrueNext(r.id, [state |-> "PreClosed", cet |-> r.cet])
    /\ h.pc \in {"cetConfs", "cetSend"} =>
          /\ h.cur \in Contracts /\ TrueNext(h.cur, ConfirmedRow)
          /\ h.write.state = "PreClosed" /\ h.write.cet \in Outcomes
          /\ \A a \in Attestors : att'[OfferOf[h.cur]][a] = h.write.cet
    /\ h.pc \in {"refundTime", "refundConfs", "refundSend"} =>
          /\ h.cur \in Contracts /\ TrueNext(h.cur, ConfirmedRow)
          /\ h.write = RefundedRow
    /\ h.pc = "update" =>
          /\ h.cur \in Contracts /\ TrueNext(h.cur, h.write)
          /\ h.write.state \notin {"None", "Signed"}
    /\ \A c \in h.funded : TrueNext(c, ConfirmedRow)
    /\ \A r \in h.closed : TrueNext(r.id, [state |-> "PreClosed", cet |-> r.cet])

\* Both spellings agree.
LEMMA FactsNextHold ==
    ASSUME NEW k, FactsNext(k)
    PROVE  HandlerFacts(k)'
BY DEF FactsNext, HandlerFacts, TrueNext, RowIsTrue, ConfirmedRow, RefundedRow

\* A row that is true on Bitcoin stays true: finality and first-seen spends.
LEMMA RowStaysTrue ==
    ASSUME NEW c \in Contracts, NEW row, RowIsTrue(c, row), Persists
    PROVE  TrueNext(c, row)
BY ConstantsAssumption DEF RowIsTrue, TrueNext, Persists

\* What a check keeps is still true after a step that leaves it alone.
LEMMA FactsStayTrue ==
    ASSUME NEW k \in Checkers, TypeOK, HandlerFacts(k), Persists,
           chk'[k] = chk[k]
    PROVE  FactsNext(k)
<1> DEFINE h == chk[k]
<1>1. h \in Checker
  BY DEF TypeOK
<1>2. \A r \in h.todo \cup h.closed : r.id \in Contracts
  BY <1>1 DEF Checker, ListedRow
<1>3. h.funded \subseteq Contracts
  BY <1>1 DEF Checker
<1>4. h.pass = "Confirmed" => \A r \in h.todo : TrueNext(r.id, ConfirmedRow)
  BY <1>2, RowStaysTrue DEF HandlerFacts
<1>5. h.pass = "PreClosed" => \A r \in h.todo :
         TrueNext(r.id, [state |-> "PreClosed", cet |-> r.cet])
  BY <1>2, RowStaysTrue DEF HandlerFacts
<1>6. h.pc \in {"cetConfs", "cetSend"} =>
         /\ h.cur \in Contracts /\ TrueNext(h.cur, ConfirmedRow)
         /\ h.write.state = "PreClosed" /\ h.write.cet \in Outcomes
         /\ \A a \in Attestors : att'[OfferOf[h.cur]][a] = h.write.cet
  BY RowStaysTrue, ConstantsAssumption DEF HandlerFacts, Persists
<1>7. h.pc \in {"refundTime", "refundConfs", "refundSend"} =>
         /\ h.cur \in Contracts /\ TrueNext(h.cur, ConfirmedRow)
         /\ h.write = RefundedRow
  BY RowStaysTrue DEF HandlerFacts
<1>8. h.pc = "update" => /\ h.cur \in Contracts /\ TrueNext(h.cur, h.write)
                         /\ h.write.state \notin {"None", "Signed"}
  BY RowStaysTrue DEF HandlerFacts
<1>9. /\ \A c \in h.funded : TrueNext(c, ConfirmedRow)
      /\ \A r \in h.closed :
            TrueNext(r.id, [state |-> "PreClosed", cet |-> r.cet])
  BY <1>2, <1>3, RowStaysTrue DEF HandlerFacts
<1>10. QED
  BY <1>4, <1>5, <1>6, <1>7, <1>8, <1>9 DEF FactsNext

\* Every step of the system preserves these facts.
LEMMA StepsPersist == IInv /\ [Next]_vars => Persists
<1> SUFFICES ASSUME IInv, [Next]_vars PROVE Persists
  OBVIOUS
<1> USE ConstantsAssumption
<1>t. TypeOK /\ StaleReadsStillHold /\ LateWritesAreTrue
  BY DEF IInv
<1>u. ASSUME UNCHANGED <<fin, fund, spend, att>> PROVE Persists
  BY <1>u DEF Persists
<1>f. ASSUME NEW c \in Contracts, NEW row, NEW ok, row.state # "None",
             StoreUpdate(c, row, ok) \/ StoreCreate(c, row, ok),
             UNCHANGED <<fund, spend, att>>
      PROVE  Persists
  <2>1. fin \in [Contracts -> Row]
    BY <1>t DEF TypeOK
  <2>2. fin' = fin \/ fin' = [fin EXCEPT ![c] = row]
    BY <1>f, StoreEffect
  <2>3. QED
    BY <1>f, <2>1, <2>2 DEF Persists
<1>b. ASSUME NEW c \in Contracts, NEW tx, NEW ok, Broadcast(c, tx, ok),
             UNCHANGED <<fin, fund, att>>
      PROVE  Persists
  <2>1. spend \in [Contracts -> SpendTx]
    BY <1>t DEF TypeOK
  <2>2. \/ spend' = spend
        \/ /\ spend[c].tx = NoTx \/ spend[c].tx = tx
           /\ spend' = [spend EXCEPT ![c].tx = tx]
    BY <1>b, BroadcastEffect
  <2>3. QED
    BY <1>b, <2>1, <2>2 DEF Persists, SpendTx
<1>1. ASSUME NEW k \in Checkers, CheckerStep(k) \/ CancelCheck(k) PROVE Persists
  <2>1. chk[k] \in Checker /\ HandlerFacts(k)
    BY <1>t DEF TypeOK, StaleReadsStillHold
  <2>2. CASE CloseContractSend(k)
    BY <2>1, <2>2, <1>b DEF CloseContractSend, HandlerFacts, storage
  <2>3. CASE CheckRefundSend(k)
    BY <2>1, <2>3, <1>b DEF CheckRefundSend, HandlerFacts, storage
  <2>4. CASE UpdateChecked(k)
    BY <2>1, <2>4, <1>f DEF UpdateChecked, HandlerFacts, bitcoin
  <2>5. CASE /\ ~CloseContractSend(k) /\ ~CheckRefundSend(k)
             /\ ~UpdateChecked(k)
    BY <1>1, <2>5, <1>u
       DEF CheckerStep, CancelCheck, StartCheck, ListContracts, EndPass,
           CheckSignedContract, CheckConfirmedContract,
           CloseContractConfirmations, CheckRefundTime,
           CheckRefundConfirmations, CheckPreclosedContract, LookupAffected,
           EndLookup, SetStatusFunded, PostCloseDlc, EndCheck, storage, bitcoin
  <2>6. QED
    BY <2>2, <2>3, <2>4, <2>5
<1>2. ASSUME NEW h \in Acceptors, AcceptorStep(h) \/ CancelAccept(h)
      PROVE  Persists
  <2>1. acc[h] \in Acceptor
    BY <1>t DEF TypeOK
  <2>2. CASE UpdateSigned(h)
    <3>1. acc[h].cur \in Contracts /\ SignedRow.state # "None"
      BY <2>1, <2>2 DEF UpdateSigned, Acceptor, SignedRow
    <3>2. QED
      BY <2>2, <3>1, <1>f DEF UpdateSigned, bitcoin
  <2>3. CASE CreateSigned(h)
    <3>1. acc[h].cur \in Contracts /\ SignedRow.state # "None"
      BY <2>1, <2>3 DEF CreateSigned, Acceptor, SignedRow
    <3>2. QED
      BY <2>3, <3>1, <1>f DEF CreateSigned, bitcoin
  <2>4. CASE ~UpdateSigned(h) /\ ~CreateSigned(h)
    BY <1>2, <2>4, <1>u
       DEF AcceptorStep, CancelAccept, OnAcceptMessage, AcceptFailOnError,
           DeleteOffered, storage, bitcoin
  <2>5. QED
    BY <2>2, <2>3, <2>4
<1>3. CASE Environment
  <2>1. ASSUME NEW c \in Contracts, MineFund(c) \/ ReorgFund(c) PROVE Persists
    BY <2>1, <1>t DEF MineFund, ReorgFund, Persists, TypeOK, storage
  <2>2. ASSUME NEW c \in Contracts, MineSpend(c) \/ ReorgSpend(c) PROVE Persists
    <3>1. \/ spend[c].confs < NB_CONFIRMATIONS
             /\ spend' = [spend EXCEPT ![c].confs = @ + 1]
          \/ spend[c].confs \in 1 .. NB_CONFIRMATIONS - 1
             /\ spend' = [spend EXCEPT ![c].confs = 0]
      BY <2>2 DEF MineSpend, ReorgSpend
    <3>2. UNCHANGED <<fin, fund, att>>
      BY <2>2 DEF MineSpend, ReorgSpend, storage
    <3>3. spend \in [Contracts -> SpendTx] /\ NB_CONFIRMATIONS \in Nat
      BY <1>t DEF TypeOK
    <3>4. QED
      BY <3>1, <3>2, <3>3 DEF Persists, SpendTx
  <2>3. ASSUME NEW c \in Contracts, AcceptorRefund(c) PROVE Persists
    BY <2>3, <1>t DEF AcceptorRefund, Persists, TypeOK, SpendTx, storage
  <2>4. ASSUME NEW o \in Offers, NEW a \in Attestors, Attest(o, a)
        PROVE  Persists
    BY <2>4, <1>t DEF Attest, Persists, TypeOK, storage, bitcoin
  <2>5. ASSUME NEW o \in Offers, SendOffer(o) \/ Expire(o) PROVE Persists
    BY <2>5, <1>u DEF SendOffer, Expire, storage, bitcoin
  <2>6. CASE Stabilise
    BY <2>6, <1>u DEF Stabilise, bitcoin
  <2>7. ASSUME NEW w \in late, LandLate(w) PROVE Persists
    <3>1. /\ fin \in [Contracts -> Row] /\ w.id \in Contracts
          /\ w.row.state # "None"
      BY <1>t DEF TypeOK, LateWrite, LateWritesAreTrue
    <3>2. fin' = fin \/ fin' = [fin EXCEPT ![w.id] = w.row]
      BY <2>7 DEF LandLate
    <3>3. UNCHANGED <<fund, spend, att>>
      BY <2>7 DEF LandLate, bitcoin
    <3>4. QED
      BY <3>1, <3>2, <3>3 DEF Persists
  <2>8. QED
    BY <1>3, <2>1, <2>2, <2>3, <2>4, <2>5, <2>6, <2>7 DEF Environment
<1>4. CASE UNCHANGED vars
  BY <1>4, <1>u DEF vars
<1>5. QED
  BY <1>1, <1>2, <1>3, <1>4 DEF Next

-----------------------------------------------------------------------------
\* Every step keeps the types.
LEMMA StepsKeepTypes == IInv /\ [Next]_vars => TypeOK'
<1> SUFFICES ASSUME IInv, [Next]_vars PROVE TypeOK'
  OBVIOUS
<1> USE ConstantsAssumption
<1>t. TypeOK /\ StaleReadsStillHold
  BY DEF IInv
<1>r. NoRow \in Row /\ SignedRow \in Row /\ ConfirmedRow \in Row
      /\ RefundedRow \in Row /\ IdleChecker \in Checker
      /\ IdleAcceptor \in Acceptor
  BY DEF NoRow, SignedRow, ConfirmedRow, RefundedRow, Row, CETs, IdleChecker,
         Checker, Passes, IdleAcceptor, Acceptor
<1>k. chk \in [Checkers -> Checker]
  BY <1>t DEF TypeOK
<1>f. ASSUME NEW c \in Contracts, NEW row \in Row, NEW ok,
             StoreUpdate(c, row, ok) \/ StoreCreate(c, row, ok)
      PROVE  fin' \in [Contracts -> Row] /\ late' \subseteq LateWrite
  <2>1. fin' \in [Contracts -> Row]
    BY <1>f, <1>t, StoreEffect DEF TypeOK
  <2>2. \A w \in late' \ late : w \in LateWrite
    BY <1>f, LateEffect DEF LateWrite
  <2>3. QED
    BY <2>1, <2>2, <1>t DEF TypeOK
<1>b. ASSUME NEW c \in Contracts, NEW tx \in CETs \cup {RefundTx}, NEW ok,
             Broadcast(c, tx, ok)
      PROVE  spend' \in [Contracts -> SpendTx]
  <2>1. spend \in [Contracts -> SpendTx]
    BY <1>t DEF TypeOK
  <2>2. spend' = spend \/ spend' = [spend EXCEPT ![c].tx = tx]
    BY <1>b, BroadcastEffect
  <2>3. QED
    BY <2>1, <2>2 DEF SpendTx
<1>1. ASSUME NEW k \in Checkers, CheckerStep(k) \/ CancelCheck(k) PROVE TypeOK'
  <2>1. chk[k] \in Checker /\ HandlerFacts(k)
    BY <1>t DEF TypeOK, StaleReadsStillHold
  <2>c. ASSUME chk' = [chk EXCEPT ![k] = IdleChecker]
        PROVE  chk' \in [Checkers -> Checker]
    BY <2>c, <1>k, <1>r
  <2>g. ASSUME NEW pc \in {"list", "check", "cetSend", "refundConfs",
                           "refundSend", "update", "notify"}, Goto(k, pc)
        PROVE  chk' \in [Checkers -> Checker]
    BY <2>g, <2>1, <1>t DEF Goto, TypeOK, Checker
  <2>d. ASSUME Drop(k) PROVE chk' \in [Checkers -> Checker]
    BY <2>d, <2>1, <1>r, <1>t DEF Drop, TypeOK, Checker
  <2>e. ASSUME NEW c \in chk[k].todo, Done(k, c)
        PROVE  chk' \in [Checkers -> Checker]
    BY <2>e, <2>1, <1>r, <1>t DEF Done, TypeOK, Checker
  <2>h. ASSUME NEW c \in chk[k].todo, NEW row \in Row,
               NEW pc \in {"update", "cetConfs", "refundTime"},
               Take(k, c, pc, row)
        PROVE  chk' \in [Checkers -> Checker]
    BY <2>h, <2>1, <1>t DEF Take, TypeOK, Checker, ListedRow
  <2>2. CASE StartCheck(k) \/ EndLookup(k)
    <3>1. chk' \in [Checkers -> Checker]
      BY <2>2, <2>g DEF StartCheck, EndLookup
    <3>2. QED
      BY <2>2, <3>1, <1>t DEF StartCheck, EndLookup, TypeOK, storage, messages,
                              bitcoin
  <2>3. CASE ListContracts(k)
    <3>1. RowsInState(chk[k].pass) \in SUBSET ListedRow
      BY <1>t DEF RowsInState, ListedRow, TypeOK, Row
    <3>2. chk' \in [Checkers -> Checker]
      <4>1. \/ chk' = [chk EXCEPT ![k].pc = "check",
                                   ![k].todo = RowsInState(chk[k].pass)]
            \/ chk' = [chk EXCEPT ![k] = IdleChecker]
        BY <2>3 DEF ListContracts
      <4>2. CASE chk' = [chk EXCEPT ![k].pc = "check",
                                    ![k].todo = RowsInState(chk[k].pass)]
        BY <3>1, <4>2, <2>1, <1>k DEF Checker
      <4>3. QED
        BY <4>1, <4>2, <2>c
    <3>3. QED
      BY <2>3, <3>2, <1>t DEF ListContracts, TypeOK, storage, messages, bitcoin
  <2>4. CASE EndPass(k)
    <3>1. chk' \in [Checkers -> Checker]
      BY <2>4, <2>1, <1>t DEF EndPass, TypeOK, Checker, Passes
    <3>2. QED
      BY <2>4, <3>1, <1>t DEF EndPass, TypeOK, storage, messages, bitcoin
  <2>5. CASE CheckSignedContract(k)
    <3>1. chk' \in [Checkers -> Checker]
      BY <2>5, <2>e, <2>h, <1>r DEF CheckSignedContract
    <3>2. QED
      BY <2>5, <3>1, <1>t DEF CheckSignedContract, TypeOK, storage, messages,
                              bitcoin
  <2>6. CASE CheckConfirmedContract(k)
    <3>1. \A x \in Outcomes : [state |-> "PreClosed", cet |-> x] \in Row
      BY DEF Row, CETs
    <3>2. chk' \in [Checkers -> Checker]
      BY <2>6, <3>1, <2>e, <2>h, <1>r DEF CheckConfirmedContract
    <3>3. QED
      BY <2>6, <3>2, <1>t DEF CheckConfirmedContract, TypeOK, storage, messages,
                              bitcoin
  <2>7. CASE CloseContractConfirmations(k)
    <3>1. ASSUME chk' = [chk EXCEPT ![k].pc = "update",
                                    ![k].write.state = "Closed"]
          PROVE  chk' \in [Checkers -> Checker]
      BY <3>1, <2>1, <1>t DEF TypeOK, Checker, Row
    <3>2. chk' \in [Checkers -> Checker]
      BY <2>7, <3>1, <2>g, <2>d DEF CloseContractConfirmations
    <3>3. QED
      BY <2>7, <3>2, <1>t DEF CloseContractConfirmations, TypeOK, storage,
                              messages, bitcoin
  <2>8. CASE CloseContractSend(k)
    <3>1. chk' \in [Checkers -> Checker]
      BY <2>8, <2>g, <2>d DEF CloseContractSend
    <3>2. spend' \in [Contracts -> SpendTx]
      BY <2>8, <2>1, <1>b DEF CloseContractSend, HandlerFacts, CETs
    <3>3. QED
      BY <2>8, <3>1, <3>2, <1>t DEF CloseContractSend, TypeOK, storage, messages
  <2>9. CASE CheckRefundTime(k) \/ CheckRefundConfirmations(k)
    <3>1. chk' \in [Checkers -> Checker]
      BY <2>9, <2>g, <2>d DEF CheckRefundTime, CheckRefundConfirmations
    <3>2. QED
      BY <2>9, <3>1, <1>t DEF CheckRefundTime, CheckRefundConfirmations, TypeOK,
                              storage, messages, bitcoin
  <2>10. CASE CheckRefundSend(k)
    <3>1. chk' \in [Checkers -> Checker]
      BY <2>10, <2>g, <2>d DEF CheckRefundSend
    <3>2. spend' \in [Contracts -> SpendTx]
      BY <2>10, <2>1, <1>b DEF CheckRefundSend, HandlerFacts
    <3>3. QED
      BY <2>10, <3>1, <3>2, <1>t DEF CheckRefundSend, TypeOK, storage, messages
  <2>11. CASE CheckPreclosedContract(k)
    <3>1. \A c \in chk[k].todo : [state |-> "Closed", cet |-> c.cet] \in Row
      BY <2>1 DEF Checker, ListedRow, Row
    <3>2. chk' \in [Checkers -> Checker]
      BY <2>11, <3>1, <2>e, <2>h DEF CheckPreclosedContract
    <3>3. QED
      BY <2>11, <3>2, <1>t DEF CheckPreclosedContract, TypeOK, storage, messages,
                               bitcoin
  <2>12. CASE UpdateChecked(k)
    <3>1. chk[k].cur \in Contracts /\ chk[k].write \in Row
      BY <2>12, <2>1 DEF UpdateChecked, HandlerFacts, Checker
    <3>2. chk' \in [Checkers -> Checker]
      <4> DEFINE aff == IF chk[k].write.state = "Refunded" THEN chk[k].affected
                        ELSE chk[k].affected \cup {[id |-> chk[k].cur,
                                                    pass |-> chk[k].pass]}
      <4>1. aff \in SUBSET [id : Contracts, pass : Passes]
        BY <3>1, <2>1 DEF Checker
      <4>2. \/ Drop(k)
            \/ chk' = [chk EXCEPT ![k].pc = "check", ![k].cur = NoContract,
                                  ![k].write = NoRow, ![k].affected = aff]
        BY <2>12 DEF UpdateChecked
      <4> HIDE DEF aff
      <4>3. CASE chk' = [chk EXCEPT ![k].pc = "check", ![k].cur = NoContract,
                                    ![k].write = NoRow, ![k].affected = aff]
        BY <4>1, <4>3, <2>1, <1>r, <1>k DEF Checker
      <4>4. QED
        BY <4>2, <4>3, <2>d
    <3>3. fin' \in [Contracts -> Row] /\ late' \subseteq LateWrite
      BY <2>12, <3>1, <1>f DEF UpdateChecked
    <3>4. QED
      BY <2>12, <3>2, <3>3, <1>t DEF UpdateChecked, TypeOK, messages, bitcoin
  <2>13. CASE LookupAffected(k)
    <3>1. \A e \in chk[k].affected : e.id \in Contracts /\ fin[e.id] \in Row
      BY <2>1, <1>t DEF Checker, TypeOK
    <3>2. chk' \in [Checkers -> Checker]
      <4>1. PICK e \in chk[k].affected :
               \/ chk' = [chk EXCEPT ![k].affected = @ \ {e},
                                     ![k].funded = @ \cup {e.id}]
               \/ chk' = [chk EXCEPT
                            ![k].affected = @ \ {e},
                            ![k].closed = @ \cup {[id |-> e.id,
                                                   cet |-> fin[e.id].cet]}]
               \/ chk' = [chk EXCEPT ![k].affected = @ \ {e}]
        BY <2>13 DEF LookupAffected
      <4>2. [id |-> e.id, cet |-> fin[e.id].cet] \in ListedRow
        BY <3>1 DEF ListedRow, Row
      <4>3. QED
        BY <4>1, <4>2, <3>1, <2>1, <1>k DEF Checker
    <3>3. QED
      BY <2>13, <3>2, <1>t DEF LookupAffected, TypeOK, storage, messages, bitcoin
  <2>14. CASE SetStatusFunded(k)
    <3>1. \A c \in chk[k].funded :
             [kind |-> "funded", id |-> c, cet |-> NoTx] \in Post
      BY <2>1 DEF Checker, Post, CETs
    <3>2. posts' \subseteq Post
      BY <2>14, <3>1, <1>t DEF SetStatusFunded, Notify, TypeOK
    <3>3. chk' \in [Checkers -> Checker]
      <4>1. \/ chk' = [chk EXCEPT ![k] = IdleChecker]
            \/ \E c : chk' = [chk EXCEPT ![k].funded = @ \ {c}]
        BY <2>14 DEF SetStatusFunded
      <4>2. ASSUME NEW c, chk' = [chk EXCEPT ![k].funded = @ \ {c}]
            PROVE  chk' \in [Checkers -> Checker]
        BY <4>2, <2>1, <1>k DEF Checker
      <4>3. QED
        BY <4>1, <4>2, <2>c
    <3>4. QED
      BY <2>14, <3>2, <3>3, <1>t DEF SetStatusFunded, TypeOK, storage, messages,
                                     bitcoin
  <2>15. CASE PostCloseDlc(k)
    <3>1. \A c \in chk[k].closed :
             [kind |-> "closed", id |-> c.id, cet |-> c.cet] \in Post
      BY <2>1 DEF Checker, ListedRow, Post
    <3>2. posts' \subseteq Post
      BY <2>15, <3>1, <1>t DEF PostCloseDlc, Notify, TypeOK
    <3>3. chk' \in [Checkers -> Checker]
      <4>1. \/ chk' = [chk EXCEPT ![k] = IdleChecker]
            \/ \E c : chk' = [chk EXCEPT ![k].closed = @ \ {c}]
        BY <2>15 DEF PostCloseDlc
      <4>2. ASSUME NEW c, chk' = [chk EXCEPT ![k].closed = @ \ {c}]
            PROVE  chk' \in [Checkers -> Checker]
        BY <4>2, <2>1, <1>k DEF Checker
      <4>3. QED
        BY <4>1, <4>2, <2>c
    <3>4. QED
      BY <2>15, <3>2, <3>3, <1>t DEF PostCloseDlc, TypeOK, storage, messages,
                                     bitcoin
  <2>16. CASE EndCheck(k) \/ CancelCheck(k)
    BY <2>16, <2>c, <1>r, <1>t DEF EndCheck, CancelCheck, TypeOK, storage,
                                   messages, bitcoin
  <2>17. QED
    BY <1>1, <2>2, <2>3, <2>4, <2>5, <2>6, <2>7, <2>8, <2>9, <2>10, <2>11,
       <2>12, <2>13, <2>14, <2>15, <2>16 DEF CheckerStep
<1>2. ASSUME NEW h \in Acceptors, AcceptorStep(h) \/ CancelAccept(h)
      PROVE  TypeOK'
  <2>1. acc[h] \in Acceptor
    BY <1>t DEF TypeOK
  <2>2. ASSUME NEW c \in Contracts, OnAcceptMessage(h, c) PROVE TypeOK'
    BY <2>2, <1>t DEF OnAcceptMessage, TypeOK, Acceptor, storage, messages,
                      bitcoin
  <2>3. CASE AcceptFailOnError(h)
    BY <2>3, <2>1, <1>r, <1>t DEF AcceptFailOnError, TypeOK, messages, bitcoin
  <2>4. CASE DeleteOffered(h)
    BY <2>4, <2>1, <1>t DEF DeleteOffered, TypeOK, Acceptor, messages, bitcoin
  <2>5. CASE UpdateSigned(h)
    <3>1. acc[h].cur \in Contracts
      BY <2>5, <2>1 DEF UpdateSigned, Acceptor
    <3>2. fin' \in [Contracts -> Row] /\ late' \subseteq LateWrite
      BY <2>5, <3>1, <1>f, <1>r DEF UpdateSigned
    <3>3. acc' \in [Acceptors -> Acceptor] /\ signed' \subseteq Contracts
      <4>1. \/ /\ acc' = [acc EXCEPT ![h] = IdleAcceptor]
               /\ signed' = signed \cup {acc[h].cur}
            \/ /\ acc' = [acc EXCEPT ![h].pc = "create"]
               /\ signed' = signed
        BY <2>5 DEF UpdateSigned, ReturnSign
      <4>2. acc[h].pc = "update"
        BY <2>5 DEF UpdateSigned
      <4>3. QED
        <5>1. acc \in [Acceptors -> Acceptor] /\ signed \subseteq Contracts
          BY <1>t DEF TypeOK
        <5>2. CASE acc' = [acc EXCEPT ![h] = IdleAcceptor]
          BY <4>1, <5>1, <5>2, <3>1, <1>r
        <5>3. CASE acc' = [acc EXCEPT ![h].pc = "create"]
          <6>1. acc'[h] \in Acceptor
            BY <4>2, <5>1, <5>3, <3>1, <2>1 DEF Acceptor
          <6>2. QED
            BY <4>1, <5>1, <5>3, <6>1, <3>1
        <5>4. QED
          BY <4>1, <5>2, <5>3
    <3>4. QED
      BY <2>5, <3>2, <3>3, <1>t DEF UpdateSigned, TypeOK, bitcoin
  <2>6. CASE CreateSigned(h)
    <3>1. acc[h].cur \in Contracts
      BY <2>6, <2>1 DEF CreateSigned, Acceptor
    <3>2. fin' \in [Contracts -> Row] /\ late' \subseteq LateWrite
      BY <2>6, <3>1, <1>f, <1>r DEF CreateSigned
    <3>3. acc' \in [Acceptors -> Acceptor] /\ signed' \subseteq Contracts
      BY <2>6, <3>1, <1>r, <1>t DEF CreateSigned, ReturnSign, TypeOK
    <3>4. QED
      BY <2>6, <3>2, <3>3, <1>t DEF CreateSigned, TypeOK, bitcoin
  <2>7. CASE CancelAccept(h)
    BY <2>7, <1>r, <1>t DEF CancelAccept, TypeOK, storage, messages, bitcoin
  <2>8. QED
    BY <1>2, <2>2, <2>3, <2>4, <2>5, <2>6, <2>7 DEF AcceptorStep
<1>3. CASE Environment
  <2>1. ASSUME NEW c \in Contracts, MineFund(c) \/ ReorgFund(c) PROVE TypeOK'
    <3>1. \/ /\ fund[c] < NB_CONFIRMATIONS
             /\ fund' = [fund EXCEPT ![c] = @ + 1]
          \/ fund' = [fund EXCEPT ![c] = 0]
      BY <2>1 DEF MineFund, ReorgFund
    <3>2. fund \in [Contracts -> 0 .. NB_CONFIRMATIONS]
          /\ NB_CONFIRMATIONS \in Nat
      BY <1>t DEF TypeOK
    <3>3. fund' \in [Contracts -> 0 .. NB_CONFIRMATIONS]
      BY <3>1, <3>2
    <3>4. QED
      BY <2>1, <3>3, <1>t DEF MineFund, ReorgFund, TypeOK, storage, messages
  <2>2. ASSUME NEW c \in Contracts,
               MineSpend(c) \/ ReorgSpend(c) \/ AcceptorRefund(c)
        PROVE  TypeOK'
    <3>1. spend' \in [Contracts -> SpendTx]
      <4>1. \/ /\ spend[c].confs < NB_CONFIRMATIONS
               /\ spend' = [spend EXCEPT ![c].confs = @ + 1]
            \/ spend' = [spend EXCEPT ![c].confs = 0]
            \/ spend' = [spend EXCEPT ![c].tx = RefundTx]
        BY <2>2 DEF MineSpend, ReorgSpend, AcceptorRefund
      <4>2. spend \in [Contracts -> SpendTx] /\ NB_CONFIRMATIONS \in Nat
        BY <1>t DEF TypeOK
      <4>3. QED
        BY <4>1, <4>2 DEF SpendTx
    <3>2. QED
      BY <2>2, <3>1, <1>t DEF MineSpend, ReorgSpend, AcceptorRefund, TypeOK,
                              storage, messages
  <2>3. ASSUME NEW o \in Offers, NEW a \in Attestors, Attest(o, a)
        PROVE  TypeOK'
    BY <2>3, <1>t DEF Attest, TypeOK, CETs, storage, messages, bitcoin
  <2>4. ASSUME NEW o \in Offers, SendOffer(o) \/ Expire(o) PROVE TypeOK'
    BY <2>4, <1>t DEF SendOffer, Expire, TypeOK, storage, messages, bitcoin
  <2>5. CASE Stabilise
    BY <2>5, <1>t DEF Stabilise, TypeOK, messages, bitcoin
  <2>6. ASSUME NEW w \in late, LandLate(w) PROVE TypeOK'
    <3>1. w.id \in Contracts /\ w.row \in Row
      BY <1>t DEF TypeOK, LateWrite
    <3>2. fin' \in [Contracts -> Row] /\ late' \subseteq LateWrite
      BY <2>6, <3>1, <1>t DEF LandLate, TypeOK
    <3>3. QED
      BY <2>6, <3>2, <1>t DEF LandLate, TypeOK, messages, bitcoin
  <2>7. QED
    BY <1>3, <2>1, <2>2, <2>3, <2>4, <2>5, <2>6 DEF Environment
<1>4. CASE UNCHANGED vars
  BY <1>4, <1>t DEF vars, TypeOK
<1>5. QED
  BY <1>1, <1>2, <1>3, <1>4 DEF Next

-----------------------------------------------------------------------------
\* Only true rows are written, and what was true stays true.
LEMMA StepsKeepRowsTrue == IInv /\ [Next]_vars => RowsMatchBitcoin'
<1> SUFFICES ASSUME IInv, [Next]_vars, NEW c \in Contracts
             PROVE  RowIsTrue(c, fin[c])'
  BY DEF RowsMatchBitcoin
<1>p. Persists
  BY StepsPersist
<1>t. TypeOK /\ StaleReadsStillHold /\ LateWritesAreTrue /\ RowIsTrue(c, fin[c])
  BY DEF IInv, RowsMatchBitcoin
<1>u. ASSUME fin'[c] = fin[c] PROVE RowIsTrue(c, fin[c])'
  BY <1>u, <1>p, <1>t, RowStaysTrue DEF RowIsTrue, TrueNext
<1>s. ASSUME fin'[c] = SignedRow PROVE RowIsTrue(c, fin[c])'
  BY <1>s DEF RowIsTrue, SignedRow
<1>f. ASSUME NEW d \in Contracts, NEW row, NEW ok,
             StoreUpdate(d, row, ok) \/ StoreCreate(d, row, ok)
      PROVE  fin'[c] = fin[c] \/ (d = c /\ fin'[c] = row)
  <2>1. fin' = fin \/ fin' = [fin EXCEPT ![d] = row]
    BY <1>f, StoreEffect
  <2>2. QED
    BY <1>t, <2>1 DEF TypeOK
<1>1. ASSUME NEW k \in Checkers, UpdateChecked(k) PROVE RowIsTrue(c, fin[c])'
  <2> DEFINE d == chk[k].cur
             row == chk[k].write
  <2>1. d \in Contracts /\ RowIsTrue(d, row)
    BY <1>1, <1>t DEF UpdateChecked, StaleReadsStillHold, HandlerFacts
  <2>2. \E ok : StoreUpdate(d, row, ok)
    BY <1>1 DEF UpdateChecked
  <2>3. fin'[c] = fin[c] \/ (d = c /\ fin'[c] = row)
    BY <2>1, <2>2, <1>f
  <2>4. TrueNext(d, row)
    BY <2>1, <1>p, RowStaysTrue
  <2>5. CASE d = c /\ fin'[c] = row
    BY <2>4, <2>5 DEF RowIsTrue, TrueNext
  <2>6. QED
    BY <2>3, <2>5, <1>u
<1>2. ASSUME NEW h \in Acceptors, UpdateSigned(h) \/ CreateSigned(h)
      PROVE  RowIsTrue(c, fin[c])'
  <2>1. acc[h] \in Acceptor
    BY <1>t DEF TypeOK
  <2>2. acc[h].cur \in Contracts
    BY <1>2, <2>1 DEF UpdateSigned, CreateSigned, Acceptor
  <2>3. \E ok : \/ StoreUpdate(acc[h].cur, SignedRow, ok)
                \/ StoreCreate(acc[h].cur, SignedRow, ok)
    BY <1>2 DEF UpdateSigned, CreateSigned
  <2>4. QED
    BY <2>2, <2>3, <1>f, <1>u, <1>s
<1>3. CASE fin' = fin
  BY <1>3, <1>u
<1>4. ASSUME fin' # fin
      PROVE  \/ \E k \in Checkers : UpdateChecked(k)
             \/ \E h \in Acceptors : UpdateSigned(h) \/ CreateSigned(h)
             \/ \E w \in late : LandLate(w)
  BY <1>4
     DEF Next, vars, CheckerStep, CancelCheck, StartCheck, ListContracts,
         EndPass, CheckSignedContract, CheckConfirmedContract,
         CloseContractConfirmations, CloseContractSend, CheckRefundTime,
         CheckRefundConfirmations, CheckRefundSend, CheckPreclosedContract,
         LookupAffected, EndLookup, SetStatusFunded, PostCloseDlc, EndCheck,
         AcceptorStep, CancelAccept, OnAcceptMessage, AcceptFailOnError,
         DeleteOffered, Environment, MineFund, ReorgFund, MineSpend, ReorgSpend,
         AcceptorRefund, Attest, SendOffer, Expire, Stabilise, storage
<1>5. ASSUME NEW w \in late, LandLate(w) PROVE RowIsTrue(c, fin[c])'
  <2>1. w.id \in Contracts /\ RowIsTrue(w.id, w.row)
    BY <1>t DEF TypeOK, LateWrite, LateWritesAreTrue
  <2>2. TrueNext(w.id, w.row)
    BY <2>1, <1>p, RowStaysTrue
  <2>3. fin'[c] = fin[c] \/ (w.id = c /\ fin'[c] = w.row)
    BY <1>5, <2>1, <1>t DEF LandLate, TypeOK
  <2>4. CASE w.id = c /\ fin'[c] = w.row
    BY <2>2, <2>4 DEF RowIsTrue, TrueNext
  <2>5. QED
    BY <2>3, <2>4, <1>u
<1>6. QED
  BY <1>1, <1>2, <1>3, <1>4, <1>5

\* A write is only left behind by a handler that may make it, and what it
\* says stays true until it lands.
LEMMA StepsKeepLateTrue == IInv /\ [Next]_vars => LateWritesAreTrue'
<1> SUFFICES ASSUME IInv, [Next]_vars, NEW w \in late'
             PROVE  RowIsTrue(w.id, w.row)' /\ w.row.state # "None"
  BY DEF LateWritesAreTrue
<1>p. Persists
  BY StepsPersist
<1>t. TypeOK /\ StaleReadsStillHold /\ LateWritesAreTrue
  BY DEF IInv
<1>n. ASSUME w.id \in Contracts, RowIsTrue(w.id, w.row)
      PROVE  RowIsTrue(w.id, w.row)'
  BY <1>n, <1>p, RowStaysTrue DEF RowIsTrue, TrueNext
<1>u. CASE w \in late
  BY <1>u, <1>n, <1>t DEF TypeOK, LateWrite, LateWritesAreTrue
<1>1. ASSUME NEW k \in Checkers, UpdateChecked(k), w \notin late
      PROVE  RowIsTrue(w.id, w.row)' /\ w.row.state # "None"
  <2> DEFINE d == chk[k].cur
             row == chk[k].write
  <2>1. d \in Contracts /\ RowIsTrue(d, row) /\ row.state # "None"
    BY <1>1, <1>t DEF UpdateChecked, StaleReadsStillHold, HandlerFacts
  <2>2. \E ok : StoreUpdate(d, row, ok)
    BY <1>1 DEF UpdateChecked
  <2> HIDE DEF d, row
  <2>3. w.id = d /\ w.row = row
    BY <1>1, <2>2, LateEffect
  <2>4. QED
    BY <2>1, <2>3, <1>n
<1>2. ASSUME NEW h \in Acceptors, UpdateSigned(h) \/ CreateSigned(h),
             w \notin late
      PROVE  RowIsTrue(w.id, w.row)' /\ w.row.state # "None"
  <2>1. acc[h] \in Acceptor
    BY <1>t DEF TypeOK
  <2>2. acc[h].cur \in Contracts
    BY <1>2, <2>1 DEF UpdateSigned, CreateSigned, Acceptor
  <2>3. \E ok : \/ StoreUpdate(acc[h].cur, SignedRow, ok)
                \/ StoreCreate(acc[h].cur, SignedRow, ok)
    BY <1>2 DEF UpdateSigned, CreateSigned
  <2>4. w.id = acc[h].cur /\ w.row = SignedRow
    BY <1>2, <2>3, LateEffect
  <2>5. QED
    BY <2>2, <2>4, <1>n DEF RowIsTrue, SignedRow
<1>3. ASSUME w \notin late
      PROVE  \/ \E k \in Checkers : UpdateChecked(k)
             \/ \E h \in Acceptors : UpdateSigned(h) \/ CreateSigned(h)
  BY <1>3
     DEF Next, vars, CheckerStep, CancelCheck, StartCheck, ListContracts,
         EndPass, CheckSignedContract, CheckConfirmedContract,
         CloseContractConfirmations, CloseContractSend, CheckRefundTime,
         CheckRefundConfirmations, CheckRefundSend, CheckPreclosedContract,
         LookupAffected, EndLookup, SetStatusFunded, PostCloseDlc, EndCheck,
         AcceptorStep, CancelAccept, OnAcceptMessage, AcceptFailOnError,
         DeleteOffered, Environment, MineFund, ReorgFund, MineSpend, ReorgSpend,
         AcceptorRefund, Attest, SendOffer, Expire, LandLate, Stabilise, storage
<1>4. QED
  BY <1>u, <1>1, <1>2, <1>3

-----------------------------------------------------------------------------
\* A check that takes a step knows afterwards what it needs to know.
LEMMA ChecksKnowEnough ==
    ASSUME IInv, NEW k \in Checkers, CheckerStep(k) \/ CancelCheck(k), Persists
    PROVE  FactsNext(k)
<1> USE ConstantsAssumption
<1> DEFINE h == chk[k]
<1>t. /\ TypeOK /\ h \in Checker /\ HandlerFacts(k)
      /\ chk \in [Checkers -> Checker]
      /\ \A c \in Contracts : RowIsTrue(c, fin[c])
  BY DEF IInv, TypeOK, StaleReadsStillHold, RowsMatchBitcoin
<1>i. \A r \in h.todo \cup h.closed : r.id \in Contracts
  BY <1>t DEF Checker, ListedRow
<1>j. h.funded \subseteq Contracts
  BY <1>t DEF Checker
<1>todo. /\ h.pass = "Confirmed" =>
               \A r \in h.todo : TrueNext(r.id, ConfirmedRow)
         /\ h.pass = "PreClosed" => \A r \in h.todo :
               TrueNext(r.id, [state |-> "PreClosed", cet |-> r.cet])
  BY <1>t, <1>i, RowStaysTrue DEF HandlerFacts
<1>lists. /\ \A c \in h.funded : TrueNext(c, ConfirmedRow)
          /\ \A r \in h.closed :
                TrueNext(r.id, [state |-> "PreClosed", cet |-> r.cet])
  BY <1>t, <1>i, <1>j, RowStaysTrue DEF HandlerFacts
<1>idle. ASSUME chk' = [chk EXCEPT ![k] = IdleChecker] PROVE FactsNext(k)
  BY <1>idle, <1>t DEF FactsNext, IdleChecker
\* Steps that only shrink the lists and leave no contract in hand.
<1>drop. ASSUME chk'[k].pass = h.pass, chk'[k].todo \subseteq h.todo,
                chk'[k].pc \in {"idle", "list", "check", "lookup", "notify"},
                chk'[k].funded \subseteq h.funded,
                chk'[k].closed \subseteq h.closed
         PROVE  FactsNext(k)
  BY <1>drop, <1>todo, <1>lists DEF FactsNext
<1>take. ASSUME NEW c \in h.todo, NEW pc, NEW row, Take(k, c, pc, row)
         PROVE  /\ chk'[k].pc = pc /\ chk'[k].cur = c.id /\ chk'[k].write = row
                /\ chk'[k].pass = h.pass /\ chk'[k].todo \subseteq h.todo
                /\ chk'[k].funded = h.funded /\ chk'[k].closed = h.closed
  BY <1>take, <1>t DEF Take, Checker
<1>done. ASSUME NEW c \in h.todo, Done(k, c) PROVE FactsNext(k)
  <2>1. /\ chk'[k].pc = "check" /\ chk'[k].pass = h.pass
        /\ chk'[k].todo \subseteq h.todo
        /\ chk'[k].funded = h.funded /\ chk'[k].closed = h.closed
    BY <1>done, <1>t DEF Done, Checker
  <2>2. QED
    BY <2>1, <1>drop
<1>fail. ASSUME Drop(k) PROVE FactsNext(k)
  <2>1. /\ chk'[k].pc = "check" /\ chk'[k].pass = h.pass
        /\ chk'[k].todo = h.todo
        /\ chk'[k].funded = h.funded /\ chk'[k].closed = h.closed
    BY <1>fail, <1>t DEF Drop, Checker
  <2>2. QED
    BY <2>1, <1>drop
<1>goto. ASSUME NEW pc, Goto(k, pc)
         PROVE  /\ chk'[k].pc = pc /\ chk'[k].cur = h.cur
                /\ chk'[k].write = h.write
                /\ chk'[k].pass = h.pass /\ chk'[k].todo = h.todo
                /\ chk'[k].funded = h.funded /\ chk'[k].closed = h.closed
  BY <1>goto, <1>t DEF Goto, Checker
\* Steps that take a contract to its update.
<1>upd. ASSUME chk'[k].pc = "update", chk'[k].cur \in Contracts,
               TrueNext(chk'[k].cur, chk'[k].write),
               chk'[k].write.state \notin {"None", "Signed"},
               chk'[k].pass = h.pass, chk'[k].todo \subseteq h.todo,
               chk'[k].funded = h.funded, chk'[k].closed = h.closed
        PROVE  FactsNext(k)
  BY <1>upd, <1>todo, <1>lists DEF FactsNext
<1>1. CASE StartCheck(k) \/ EndLookup(k)
  <2>1. Goto(k, "list") \/ Goto(k, "notify")
    BY <1>1 DEF StartCheck, EndLookup
  <2>2. QED
    BY <2>1, <1>goto, <1>drop
<1>2. CASE ListContracts(k)
  <2>1. \/ chk' = [chk EXCEPT ![k].pc = "check",
                              ![k].todo = RowsInState(chk[k].pass)]
        \/ chk' = [chk EXCEPT ![k] = IdleChecker]
    BY <1>2 DEF ListContracts
  <2>2. CASE chk' = [chk EXCEPT ![k].pc = "check",
                                ![k].todo = RowsInState(chk[k].pass)]
    <3>1. /\ chk'[k].pc = "check" /\ chk'[k].pass = h.pass
          /\ chk'[k].todo = RowsInState(h.pass)
          /\ chk'[k].funded = h.funded /\ chk'[k].closed = h.closed
      BY <2>2, <1>t DEF Checker
    <3>2. ASSUME NEW r \in RowsInState("Confirmed")
          PROVE  TrueNext(r.id, ConfirmedRow)
      <4>1. r.id \in Contracts /\ RowIsTrue(r.id, ConfirmedRow)
        BY <1>t DEF RowsInState, RowIsTrue, ConfirmedRow
      <4>2. QED
        BY <4>1, RowStaysTrue
    <3>3. ASSUME NEW r \in RowsInState("PreClosed")
          PROVE  TrueNext(r.id, [state |-> "PreClosed", cet |-> r.cet])
      <4>1. /\ r.id \in Contracts
            /\ RowIsTrue(r.id, [state |-> "PreClosed", cet |-> r.cet])
        BY <1>t DEF RowsInState, RowIsTrue
      <4>2. QED
        BY <4>1, RowStaysTrue
    <3>4. QED
      BY <3>1, <3>2, <3>3, <1>lists DEF FactsNext
  <2>3. QED
    BY <2>1, <2>2, <1>idle
<1>3. CASE EndPass(k)
  <2>1. /\ chk'[k].pc \in {"lookup", "list"} /\ chk'[k].todo = {}
        /\ chk'[k].funded = h.funded /\ chk'[k].closed = h.closed
    BY <1>3, <1>t DEF EndPass, Checker
  <2>2. QED
    BY <2>1, <1>lists DEF FactsNext
<1>4. CASE CheckSignedContract(k)
  <2>1. PICK c \in h.todo :
           \/ EnoughConfirmations(fund[c.id]) /\ Take(k, c, "update", ConfirmedRow)
           \/ Done(k, c)
    BY <1>4 DEF CheckSignedContract
  <2>2. CASE EnoughConfirmations(fund[c.id]) /\ Take(k, c, "update", ConfirmedRow)
    <3>1. c.id \in Contracts
      BY <1>i
    <3>2. fund[c.id] = NB_CONFIRMATIONS
      <4>1. fund \in [Contracts -> 0 .. NB_CONFIRMATIONS]
        BY <1>t DEF TypeOK
      <4>2. QED
        BY <2>2, <3>1, <4>1 DEF EnoughConfirmations
    <3>3. RowIsTrue(c.id, ConfirmedRow)
      BY <3>2 DEF RowIsTrue, ConfirmedRow
    <3>4. TrueNext(c.id, ConfirmedRow)
      BY <3>1, <3>3, RowStaysTrue
    <3>5. TrueNext(chk'[k].cur, chk'[k].write)
      BY <2>2, <3>4, <1>take
    <3>6. QED
      BY <2>2, <3>1, <3>5, <1>take, <1>upd DEF ConfirmedRow
  <2>3. QED
    BY <2>1, <2>2, <1>done
<1>5. CASE CheckConfirmedContract(k)
  <2>1. PICK c \in h.todo :
           \/ \E x \in Outcomes :
                 /\ Attestations(OfferOf[c.id]) = {x}
                 /\ Take(k, c, "cetConfs", [state |-> "PreClosed", cet |-> x])
           \/ Done(k, c)
           \/ Take(k, c, "refundTime", RefundedRow)
    BY <1>5 DEF CheckConfirmedContract
  <2>2. c.id \in Contracts /\ h.pass = "Confirmed"
    BY <1>i, <1>5 DEF CheckConfirmedContract
  <2>3. TrueNext(c.id, ConfirmedRow)
    BY <2>2, <1>todo
  <2>4. ASSUME NEW x \in Outcomes, Attestations(OfferOf[c.id]) = {x},
               Take(k, c, "cetConfs", [state |-> "PreClosed", cet |-> x])
        PROVE  FactsNext(k)
    <3>1. OfferOf[c.id] \in Offers /\ x # NoTx
      BY <2>2
    <3>2. \A a \in Attestors : att[OfferOf[c.id]][a] = x
      BY <2>4 DEF Attestations
    <3>3. \A a \in Attestors : att'[OfferOf[c.id]][a] = x
      BY <3>1, <3>2 DEF Persists
    <3>4. /\ chk'[k].pc = "cetConfs" /\ chk'[k].cur = c.id
          /\ chk'[k].write = [state |-> "PreClosed", cet |-> x]
          /\ chk'[k].pass = h.pass /\ chk'[k].todo \subseteq h.todo
          /\ chk'[k].funded = h.funded /\ chk'[k].closed = h.closed
      BY <2>4, <1>take
    <3>5. QED
      BY <2>2, <2>3, <3>3, <3>4, <1>todo, <1>lists DEF FactsNext
  <2>5. ASSUME Take(k, c, "refundTime", RefundedRow) PROVE FactsNext(k)
    <3>1. /\ chk'[k].pc = "refundTime" /\ chk'[k].cur = c.id
          /\ chk'[k].write = RefundedRow
          /\ chk'[k].pass = h.pass /\ chk'[k].todo \subseteq h.todo
          /\ chk'[k].funded = h.funded /\ chk'[k].closed = h.closed
      BY <2>5, <1>take
    <3>2. QED
      BY <2>2, <2>3, <3>1, <1>todo, <1>lists DEF FactsNext
  <2>6. QED
    BY <2>1, <2>4, <2>5, <1>done
\* While a CET is in hand.
<1>cet. ASSUME h.pc \in {"cetConfs", "cetSend"}
        PROVE  /\ h.cur \in Contracts /\ TrueNext(h.cur, ConfirmedRow)
               /\ h.write.state = "PreClosed" /\ h.write.cet \in Outcomes
               /\ \A a \in Attestors : att'[OfferOf[h.cur]][a] = h.write.cet
               /\ h.write.cet # NoTx
  BY <1>cet, <1>t, RowStaysTrue DEF HandlerFacts, Persists
<1>6. CASE CloseContractConfirmations(k)
  <2> DEFINE n == Confirmations(h.cur, h.write.cet)
  <2>1. \/ Goto(k, "cetSend")
        \/ n >= 1 /\ Goto(k, "update")
        \/ /\ n >= 1 /\ EnoughConfirmations(n)
           /\ chk' = [chk EXCEPT ![k].pc = "update", ![k].write.state = "Closed"]
        \/ Drop(k)
    BY <1>6 DEF CloseContractConfirmations
  <2>2. h.pc = "cetConfs"
    BY <1>6 DEF CloseContractConfirmations
  <2>3. CASE Goto(k, "cetSend")
    BY <2>2, <2>3, <1>cet, <1>goto, <1>todo, <1>lists DEF FactsNext
  <2>4. ASSUME n >= 1 PROVE spend[h.cur].tx = h.write.cet
                            /\ n = spend[h.cur].confs
    BY <2>4 DEF Confirmations
  <2>5. CASE n >= 1 /\ Goto(k, "update")
    <3>1. TrueNext(h.cur, h.write)
      BY <2>2, <2>4, <2>5, <1>cet DEF TrueNext, ConfirmedRow, Persists
    <3>2. TrueNext(chk'[k].cur, chk'[k].write)
      BY <3>1, <2>5, <1>goto
    <3>3. QED
      BY <2>2, <2>5, <3>2, <1>cet, <1>goto, <1>upd
  <2>6. CASE /\ n >= 1 /\ EnoughConfirmations(n)
             /\ chk' = [chk EXCEPT ![k].pc = "update",
                                   ![k].write.state = "Closed"]
    <3>1. /\ chk'[k].pc = "update" /\ chk'[k].cur = h.cur
          /\ chk'[k].write.state = "Closed" /\ chk'[k].write.cet = h.write.cet
          /\ chk'[k].pass = h.pass /\ chk'[k].todo = h.todo
          /\ chk'[k].funded = h.funded /\ chk'[k].closed = h.closed
      BY <2>6, <1>t DEF Checker, Row
    <3>2. spend[h.cur].confs = NB_CONFIRMATIONS
      <4>1. spend[h.cur].confs \in 0 .. NB_CONFIRMATIONS
        BY <2>2, <1>cet, <1>t DEF TypeOK, SpendTx
      <4>2. QED
        BY <2>4, <2>6, <4>1 DEF EnoughConfirmations
    <3>3. /\ fund'[h.cur] = NB_CONFIRMATIONS
          /\ spend'[h.cur].tx = h.write.cet
          /\ spend'[h.cur].confs = NB_CONFIRMATIONS
      BY <2>2, <2>4, <2>6, <3>2, <1>cet DEF TrueNext, ConfirmedRow, Persists
    <3>4. TrueNext(chk'[k].cur, chk'[k].write)
      BY <2>2, <3>1, <3>3, <1>cet DEF TrueNext
    <3>5. QED
      BY <2>2, <3>1, <3>4, <1>cet, <1>upd
  <2>7. QED
    BY <2>1, <2>3, <2>5, <2>6, <1>fail
<1>7. CASE CloseContractSend(k)
  <2>1. \/ Broadcast(h.cur, h.write.cet, TRUE) /\ Goto(k, "update")
        \/ Drop(k)
    BY <1>7 DEF CloseContractSend
  <2>2. h.pc = "cetSend"
    BY <1>7 DEF CloseContractSend
  <2>3. CASE Broadcast(h.cur, h.write.cet, TRUE) /\ Goto(k, "update")
    <3>1. spend' = [spend EXCEPT ![h.cur].tx = h.write.cet]
      BY <2>3, BroadcastSucceeds
    <3>2. spend'[h.cur].tx = h.write.cet
      BY <2>2, <3>1, <1>cet, <1>t DEF TypeOK, SpendTx
    <3>3. TrueNext(h.cur, h.write)
      BY <2>2, <3>2, <1>cet DEF TrueNext, ConfirmedRow
    <3>4. TrueNext(chk'[k].cur, chk'[k].write)
      BY <3>3, <2>3, <1>goto
    <3>5. QED
      BY <2>2, <2>3, <3>4, <1>cet, <1>goto, <1>upd
  <2>4. QED
    BY <2>1, <2>3, <1>fail
\* While a refund is in hand.
<1>ref. ASSUME h.pc \in {"refundTime", "refundConfs", "refundSend"}
        PROVE  /\ h.cur \in Contracts /\ TrueNext(h.cur, ConfirmedRow)
               /\ h.write = RefundedRow
  BY <1>ref, <1>t, RowStaysTrue DEF HandlerFacts
<1>refund. ASSUME h.pc \in {"refundTime", "refundConfs", "refundSend"},
                  spend'[h.cur].tx = RefundTx, Goto(k, "update")
           PROVE  FactsNext(k)
  <2>1. TrueNext(h.cur, RefundedRow)
    BY <1>refund, <1>ref DEF TrueNext, ConfirmedRow, RefundedRow
  <2>2. TrueNext(chk'[k].cur, chk'[k].write)
    BY <2>1, <1>refund, <1>ref, <1>goto
  <2>3. RefundedRow.state \notin {"None", "Signed"}
    BY DEF RefundedRow
  <2>4. QED
    BY <2>2, <2>3, <1>refund, <1>ref, <1>goto, <1>upd
<1>8. CASE CheckRefundTime(k)
  <2>1. Goto(k, "refundConfs") \/ Drop(k)
    BY <1>8 DEF CheckRefundTime
  <2>2. h.pc = "refundTime"
    BY <1>8 DEF CheckRefundTime
  <2>3. CASE Goto(k, "refundConfs")
    BY <2>2, <2>3, <1>ref, <1>goto, <1>todo, <1>lists DEF FactsNext
  <2>4. QED
    BY <2>1, <2>3, <1>fail
<1>9. CASE CheckRefundConfirmations(k)
  <2> DEFINE n == Confirmations(h.cur, RefundTx)
  <2>1. \/ Goto(k, "refundSend")
        \/ n # 0 /\ Goto(k, "update")
        \/ Drop(k)
    BY <1>9 DEF CheckRefundConfirmations
  <2>2. h.pc = "refundConfs"
    BY <1>9 DEF CheckRefundConfirmations
  <2>3. CASE Goto(k, "refundSend")
    BY <2>2, <2>3, <1>ref, <1>goto, <1>todo, <1>lists DEF FactsNext
  <2>4. CASE n # 0 /\ Goto(k, "update")
    <3>1. spend[h.cur].tx = RefundTx
      BY <2>4 DEF Confirmations
    <3>2. spend'[h.cur].tx = RefundTx
      BY <2>2, <3>1, <1>ref DEF Persists
    <3>3. QED
      BY <2>2, <2>4, <3>2, <1>refund
  <2>5. QED
    BY <2>1, <2>3, <2>4, <1>fail
<1>10. CASE CheckRefundSend(k)
  <2>1. \/ Broadcast(h.cur, RefundTx, TRUE) /\ Goto(k, "update")
        \/ Drop(k)
    BY <1>10 DEF CheckRefundSend
  <2>2. h.pc = "refundSend"
    BY <1>10 DEF CheckRefundSend
  <2>3. CASE Broadcast(h.cur, RefundTx, TRUE) /\ Goto(k, "update")
    <3>1. spend' = [spend EXCEPT ![h.cur].tx = RefundTx]
      BY <2>3, BroadcastSucceeds
    <3>2. spend'[h.cur].tx = RefundTx
      BY <2>2, <3>1, <1>ref, <1>t DEF TypeOK, SpendTx
    <3>3. QED
      BY <2>2, <2>3, <3>2, <1>refund
  <2>4. QED
    BY <2>1, <2>3, <1>fail
<1>11. CASE CheckPreclosedContract(k)
  <2>1. PICK c \in h.todo :
           \/ /\ EnoughConfirmations(Confirmations(c.id, c.cet))
              /\ Take(k, c, "update", [state |-> "Closed", cet |-> c.cet])
           \/ Done(k, c)
    BY <1>11 DEF CheckPreclosedContract
  <2> DEFINE row == [state |-> "Closed", cet |-> c.cet]
  <2>2. CASE /\ EnoughConfirmations(Confirmations(c.id, c.cet))
             /\ Take(k, c, "update", row)
    <3>1. c.id \in Contracts /\ h.pass = "PreClosed"
      BY <1>i, <1>11 DEF CheckPreclosedContract
    <3>2. RowIsTrue(c.id, [state |-> "PreClosed", cet |-> c.cet])
      BY <3>1, <1>t DEF HandlerFacts
    <3>3. /\ fund[c.id] = NB_CONFIRMATIONS
          /\ c.cet \in Outcomes /\ spend[c.id].tx = c.cet
      BY <3>2 DEF RowIsTrue
    <3>4. spend[c.id].confs = NB_CONFIRMATIONS
      <4>1. spend[c.id].confs \in 0 .. NB_CONFIRMATIONS
        BY <3>1, <1>t DEF TypeOK, SpendTx
      <4>2. QED
        BY <2>2, <3>3, <4>1 DEF EnoughConfirmations, Confirmations
    <3>5. RowIsTrue(c.id, row)
      BY <3>3, <3>4 DEF RowIsTrue
    <3>6. TrueNext(c.id, row)
      BY <3>1, <3>5, RowStaysTrue
    <3>7. /\ chk'[k].pc = "update" /\ chk'[k].cur = c.id /\ chk'[k].write = row
          /\ chk'[k].pass = h.pass /\ chk'[k].todo \subseteq h.todo
          /\ chk'[k].funded = h.funded /\ chk'[k].closed = h.closed
      BY <2>2, <1>take
    <3>8. TrueNext(chk'[k].cur, chk'[k].write)
      BY <3>6, <3>7
    <3>9. QED
      BY <3>1, <3>7, <3>8, <1>upd
  <2>3. QED
    BY <2>1, <2>2, <1>done
<1>12. CASE UpdateChecked(k)
  <2>1. \/ Drop(k)
        \/ \E aff : chk' = [chk EXCEPT ![k].pc = "check", ![k].cur = NoContract,
                                       ![k].write = NoRow, ![k].affected = aff]
    BY <1>12 DEF UpdateChecked
  <2>2. ASSUME NEW aff,
               chk' = [chk EXCEPT ![k].pc = "check", ![k].cur = NoContract,
                                  ![k].write = NoRow, ![k].affected = aff]
        PROVE  FactsNext(k)
    <3>1. /\ chk'[k].pc = "check" /\ chk'[k].pass = h.pass
          /\ chk'[k].todo = h.todo
          /\ chk'[k].funded = h.funded /\ chk'[k].closed = h.closed
      BY <2>2, <1>t DEF Checker
    <3>2. QED
      BY <3>1, <1>drop
  <2>3. QED
    BY <2>1, <2>2, <1>fail
<1>13. CASE LookupAffected(k)
  <2>1. PICK e \in h.affected :
           \/ /\ fin[e.id].state = "Confirmed"
              /\ chk' = [chk EXCEPT ![k].affected = @ \ {e},
                                    ![k].funded = @ \cup {e.id}]
           \/ /\ fin[e.id].state = "PreClosed"
              /\ chk' = [chk EXCEPT
                           ![k].affected = @ \ {e},
                           ![k].closed = @ \cup {[id |-> e.id,
                                                  cet |-> fin[e.id].cet]}]
           \/ chk' = [chk EXCEPT ![k].affected = @ \ {e}]
    BY <1>13 DEF LookupAffected
  <2>2. e.id \in Contracts
    BY <1>t DEF Checker
  <2>3. RowIsTrue(e.id, fin[e.id])
    BY <2>2, <1>t
  <2>4. chk'[k].pc = "lookup" /\ chk'[k].pass = h.pass /\ chk'[k].todo = h.todo
    BY <1>13, <2>1, <1>t DEF LookupAffected, Checker
  <2>5. CASE /\ fin[e.id].state = "Confirmed"
             /\ chk' = [chk EXCEPT ![k].affected = @ \ {e},
                                   ![k].funded = @ \cup {e.id}]
    <3>1. chk'[k].funded = h.funded \cup {e.id} /\ chk'[k].closed = h.closed
      BY <2>5, <1>t DEF Checker
    <3>2. RowIsTrue(e.id, ConfirmedRow)
      BY <2>3, <2>5 DEF RowIsTrue, ConfirmedRow
    <3>3. TrueNext(e.id, ConfirmedRow)
      BY <2>2, <3>2, RowStaysTrue
    <3>4. QED
      BY <2>4, <3>1, <3>3, <1>todo, <1>lists DEF FactsNext
  <2>6. CASE /\ fin[e.id].state = "PreClosed"
             /\ chk' = [chk EXCEPT
                          ![k].affected = @ \ {e},
                          ![k].closed = @ \cup {[id |-> e.id,
                                                 cet |-> fin[e.id].cet]}]
    <3> DEFINE r == [id |-> e.id, cet |-> fin[e.id].cet]
    <3>1. chk'[k].closed = h.closed \cup {r} /\ chk'[k].funded = h.funded
      BY <2>6, <1>t DEF Checker
    <3>2. RowIsTrue(e.id, [state |-> "PreClosed", cet |-> fin[e.id].cet])
      BY <2>3, <2>6 DEF RowIsTrue
    <3>3. TrueNext(r.id, [state |-> "PreClosed", cet |-> r.cet])
      BY <2>2, <3>2, RowStaysTrue
    <3> HIDE DEF r
    <3>4. QED
      BY <2>4, <3>1, <3>3, <1>todo, <1>lists DEF FactsNext
  <2>7. CASE chk' = [chk EXCEPT ![k].affected = @ \ {e}]
    <3>1. chk'[k].funded = h.funded /\ chk'[k].closed = h.closed
      BY <2>7, <1>t DEF Checker
    <3>2. QED
      BY <2>4, <3>1, <1>drop
  <2>8. QED
    BY <2>1, <2>5, <2>6, <2>7
<1>14. CASE SetStatusFunded(k) \/ PostCloseDlc(k)
  <2>1. \/ chk' = [chk EXCEPT ![k] = IdleChecker]
        \/ \E c : chk' = [chk EXCEPT ![k].funded = @ \ {c}]
        \/ \E c : chk' = [chk EXCEPT ![k].closed = @ \ {c}]
    BY <1>14 DEF SetStatusFunded, PostCloseDlc
  <2>2. ASSUME NEW c, \/ chk' = [chk EXCEPT ![k].funded = @ \ {c}]
                      \/ chk' = [chk EXCEPT ![k].closed = @ \ {c}]
        PROVE  FactsNext(k)
    <3>1. h.pc = "notify"
      BY <1>14 DEF SetStatusFunded, PostCloseDlc
    <3>2. /\ chk'[k].pc = "notify" /\ chk'[k].pass = h.pass
          /\ chk'[k].todo = h.todo
          /\ chk'[k].funded \subseteq h.funded
          /\ chk'[k].closed \subseteq h.closed
      BY <2>2, <3>1, <1>t DEF Checker
    <3>3. QED
      BY <3>2, <1>drop
  <2>3. QED
    BY <2>1, <2>2, <1>idle
<1>15. CASE EndCheck(k) \/ CancelCheck(k)
  BY <1>15, <1>idle DEF EndCheck, CancelCheck
<1>16. QED
  BY <1>1, <1>2, <1>3, <1>4, <1>5, <1>6, <1>7, <1>8, <1>9, <1>10, <1>11, <1>12,
     <1>13, <1>14, <1>15 DEF CheckerStep

-----------------------------------------------------------------------------
\* Each check keeps its knowledge, whichever handler takes the step.
LEMMA StepsKeepFacts == IInv /\ [Next]_vars => StaleReadsStillHold'
<1> SUFFICES ASSUME IInv, [Next]_vars, NEW k \in Checkers
             PROVE  HandlerFacts(k)'
  BY DEF StaleReadsStillHold
<1>p. Persists
  BY StepsPersist
<1>t. TypeOK /\ HandlerFacts(k) /\ chk \in [Checkers -> Checker]
  BY DEF IInv, TypeOK, StaleReadsStillHold
<1>u. ASSUME chk'[k] = chk[k] PROVE HandlerFacts(k)'
  BY <1>u, <1>p, <1>t, FactsStayTrue, FactsNextHold
<1>1. CASE CheckerStep(k) \/ CancelCheck(k)
  BY <1>1, <1>p, ChecksKnowEnough, FactsNextHold
<1>2. ASSUME NEW j \in Checkers, j # k, CheckerStep(j) \/ CancelCheck(j)
      PROVE  chk'[k] = chk[k]
  BY <1>2, <1>t
     DEF CheckerStep, CancelCheck, StartCheck, ListContracts, EndPass,
         CheckSignedContract, CheckConfirmedContract,
         CloseContractConfirmations, CloseContractSend, CheckRefundTime,
         CheckRefundConfirmations, CheckRefundSend, CheckPreclosedContract,
         UpdateChecked, LookupAffected, EndLookup, SetStatusFunded,
         PostCloseDlc, EndCheck, Goto, Take, Done, Drop
<1>3. ASSUME NEW h \in Acceptors, AcceptorStep(h) \/ CancelAccept(h)
      PROVE  chk'[k] = chk[k]
  BY <1>3 DEF AcceptorStep, CancelAccept, OnAcceptMessage, AcceptFailOnError,
              DeleteOffered, UpdateSigned, CreateSigned
<1>4. ASSUME Environment \/ UNCHANGED vars PROVE chk'[k] = chk[k]
  BY <1>4 DEF Environment, MineFund, ReorgFund, MineSpend, ReorgSpend,
              AcceptorRefund, Attest, SendOffer, Expire, LandLate, Stabilise,
              vars
<1>5. QED
  BY <1>u, <1>1, <1>2, <1>3, <1>4 DEF Next

\* Only close_contract sends a CET, and it sends the one every attestor chose.
LEMMA StepsKeepCets == IInv /\ [Next]_vars => CetsAreFullyAttested'
<1> SUFFICES ASSUME IInv, [Next]_vars, NEW c \in Contracts,
                    spend'[c].tx \in Outcomes, NEW a \in Attestors
             PROVE  att'[OfferOf[c]][a] = spend'[c].tx
  BY DEF CetsAreFullyAttested
<1> USE ConstantsAssumption
<1>p. Persists
  BY StepsPersist
<1>t. /\ spend \in [Contracts -> SpendTx] /\ StaleReadsStillHold
      /\ spend[c].tx \in Outcomes => att[OfferOf[c]][a] = spend[c].tx
  BY DEF IInv, TypeOK, CetsAreFullyAttested
<1>u. ASSUME spend'[c].tx = spend[c].tx
      PROVE  att'[OfferOf[c]][a] = spend'[c].tx
  <2>1. OfferOf[c] \in Offers /\ spend[c].tx # NoTx
    BY <1>u
  <2>2. QED
    BY <1>u, <1>p, <1>t, <2>1 DEF Persists
<1>1. ASSUME NEW k \in Checkers, CloseContractSend(k)
      PROVE  att'[OfferOf[c]][a] = spend'[c].tx
  <2> DEFINE d == chk[k].cur
             x == chk[k].write.cet
  <2>1. /\ d \in Contracts /\ x \in Outcomes
        /\ att[OfferOf[d]][a] = x
    BY <1>1, <1>t DEF CloseContractSend, StaleReadsStillHold, HandlerFacts
  <2>2. PICK ok : Broadcast(d, x, ok)
    BY <1>1 DEF CloseContractSend
  <2>3. spend' = spend \/ spend' = [spend EXCEPT ![d].tx = x]
    BY <2>2, BroadcastEffect
  <2>4. att' = att
    BY <1>1 DEF CloseContractSend
  <2> HIDE DEF d, x
  <2>5. spend'[c].tx = spend[c].tx \/ (d = c /\ spend'[c].tx = x)
    BY <2>1, <2>3, <1>t DEF SpendTx
  <2>6. QED
    BY <2>1, <2>4, <2>5, <1>u
<1>2. ASSUME NEW k \in Checkers, CheckRefundSend(k)
      PROVE  spend'[c].tx = spend[c].tx
  <2> DEFINE d == chk[k].cur
  <2>1. d \in Contracts
    BY <1>2, <1>t DEF CheckRefundSend, StaleReadsStillHold, HandlerFacts
  <2>2. PICK ok : Broadcast(d, RefundTx, ok)
    BY <1>2 DEF CheckRefundSend
  <2>3. spend' = spend \/ spend' = [spend EXCEPT ![d].tx = RefundTx]
    BY <2>2, BroadcastEffect
  <2> HIDE DEF d
  <2>4. QED
    BY <2>1, <2>3, <1>t DEF SpendTx
<1>3. ASSUME NEW d \in Contracts,
             MineSpend(d) \/ ReorgSpend(d) \/ AcceptorRefund(d)
      PROVE  spend'[c].tx = spend[c].tx
  <2>1. \/ spend' = [spend EXCEPT ![d].confs = @ + 1]
        \/ spend' = [spend EXCEPT ![d].confs = 0]
        \/ spend' = [spend EXCEPT ![d].tx = RefundTx]
    BY <1>3 DEF MineSpend, ReorgSpend, AcceptorRefund
  <2>2. QED
    BY <2>1, <1>t DEF SpendTx
<1>4. ASSUME spend' # spend
      PROVE  \/ \E k \in Checkers : CloseContractSend(k) \/ CheckRefundSend(k)
             \/ \E d \in Contracts : \/ MineSpend(d) \/ ReorgSpend(d)
                                     \/ AcceptorRefund(d)
  BY <1>4
     DEF Next, vars, CheckerStep, CancelCheck, StartCheck, ListContracts,
         EndPass, CheckSignedContract, CheckConfirmedContract,
         CloseContractConfirmations, CheckRefundTime, CheckRefundConfirmations,
         CheckPreclosedContract, UpdateChecked, LookupAffected, EndLookup,
         SetStatusFunded, PostCloseDlc, EndCheck, AcceptorStep, CancelAccept,
         OnAcceptMessage, AcceptFailOnError, DeleteOffered, UpdateSigned,
         CreateSigned, Environment, MineFund, ReorgFund, Attest, SendOffer,
         Expire, LandLate, Stabilise, bitcoin
<1>5. QED
  BY <1>u, <1>1, <1>2, <1>3, <1>4

\* A Sign message is handed out after a store call that succeeded, and no
\* step removes a row under a final id.
LEMMA StepsKeepStored == IInv /\ [Next]_vars => SignedContractsAreStored'
<1> SUFFICES ASSUME IInv, [Next]_vars, NEW c \in signed'
             PROVE  fin'[c].state # "None"
  BY DEF SignedContractsAreStored
<1>p. Persists
  BY StepsPersist
<1>t. /\ signed \subseteq Contracts /\ fin \in [Contracts -> Row]
      /\ acc \in [Acceptors -> Acceptor]
      /\ \A d \in signed : fin[d].state # "None"
  BY DEF IInv, TypeOK, SignedContractsAreStored
<1>u. ASSUME c \in signed PROVE fin'[c].state # "None"
  BY <1>u, <1>p, <1>t DEF Persists
<1>1. ASSUME NEW h \in Acceptors, UpdateSigned(h) \/ CreateSigned(h), c \notin signed
      PROVE  fin'[c].state # "None"
  <2>1. acc[h].cur \in Contracts
    BY <1>1, <1>t DEF UpdateSigned, CreateSigned, Acceptor
  <2>2. /\ c = acc[h].cur
        /\ \/ StoreUpdate(acc[h].cur, SignedRow, TRUE)
           \/ StoreCreate(acc[h].cur, SignedRow, TRUE)
    BY <1>1 DEF UpdateSigned, CreateSigned, ReturnSign
  <2>3. fin' = [fin EXCEPT ![c] = SignedRow]
    BY <2>2, StoreSucceeds
  <2>4. QED
    BY <2>1, <2>2, <2>3, <1>t DEF SignedRow
<1>2. ASSUME signed' # signed
      PROVE  \E h \in Acceptors : UpdateSigned(h) \/ CreateSigned(h)
  BY <1>2
     DEF Next, vars, CheckerStep, CancelCheck, StartCheck, ListContracts,
         EndPass, CheckSignedContract, CheckConfirmedContract,
         CloseContractConfirmations, CloseContractSend, CheckRefundTime,
         CheckRefundConfirmations, CheckRefundSend, CheckPreclosedContract,
         UpdateChecked, LookupAffected, EndLookup, SetStatusFunded,
         PostCloseDlc, EndCheck, AcceptorStep, CancelAccept, OnAcceptMessage,
         AcceptFailOnError, DeleteOffered, Environment, MineFund, ReorgFund,
         MineSpend, ReorgSpend, AcceptorRefund, Attest, SendOffer, Expire,
         LandLate, Stabilise, messages
<1>3. QED
  BY <1>u, <1>1, <1>2

\* A notification is sent from the lists of a check, which are true.
LEMMA StepsKeepNotifications == IInv /\ [Next]_vars => NotificationsAreTrue'
<1> DEFINE Holds(p) ==
             /\ fund[p.id] = NB_CONFIRMATIONS
             /\ p.kind = "closed" => p.cet \in Outcomes /\ spend[p.id].tx = p.cet
           HoldsNext(p) ==
             /\ fund'[p.id] = NB_CONFIRMATIONS
             /\ p.kind = "closed" => p.cet \in Outcomes /\ spend'[p.id].tx = p.cet
<1> SUFFICES ASSUME IInv, [Next]_vars, NEW p \in posts'
             PROVE  HoldsNext(p)
  BY DEF NotificationsAreTrue
<1> USE ConstantsAssumption
<1>p. Persists
  BY StepsPersist
<1>t. /\ posts \subseteq Post /\ StaleReadsStillHold
      /\ \A q \in posts : Holds(q)
      /\ chk \in [Checkers -> Checker]
  BY DEF IInv, TypeOK, NotificationsAreTrue
<1>h. ASSUME p.id \in Contracts, Holds(p) PROVE HoldsNext(p)
  BY <1>h, <1>p DEF Persists
<1>u. ASSUME p \in posts PROVE HoldsNext(p)
  BY <1>u, <1>t, <1>h DEF Post
<1>1. ASSUME NEW k \in Checkers, SetStatusFunded(k), p \notin posts
      PROVE  HoldsNext(p)
  <2>1. PICK c \in chk[k].funded : p = [kind |-> "funded", id |-> c, cet |-> NoTx]
    BY <1>1 DEF SetStatusFunded, Notify
  <2>2. c \in Contracts
    BY <1>t DEF Checker
  <2>3. RowIsTrue(c, ConfirmedRow)
    BY <1>t DEF StaleReadsStillHold, HandlerFacts
  <2>4. QED
    BY <2>1, <2>2, <2>3, <1>h DEF RowIsTrue, ConfirmedRow
<1>2. ASSUME NEW k \in Checkers, PostCloseDlc(k), p \notin posts
      PROVE  HoldsNext(p)
  <2>1. PICK c \in chk[k].closed :
           p = [kind |-> "closed", id |-> c.id, cet |-> c.cet]
    BY <1>2 DEF PostCloseDlc, Notify
  <2>2. c.id \in Contracts
    BY <1>t DEF Checker, ListedRow
  <2>3. RowIsTrue(c.id, [state |-> "PreClosed", cet |-> c.cet])
    BY <1>t DEF StaleReadsStillHold, HandlerFacts
  <2>4. QED
    BY <2>1, <2>2, <2>3, <1>h DEF RowIsTrue
<1>3. ASSUME posts' # posts
      PROVE  \E k \in Checkers : SetStatusFunded(k) \/ PostCloseDlc(k)
  BY <1>3
     DEF Next, vars, CheckerStep, CancelCheck, StartCheck, ListContracts,
         EndPass, CheckSignedContract, CheckConfirmedContract,
         CloseContractConfirmations, CloseContractSend, CheckRefundTime,
         CheckRefundConfirmations, CheckRefundSend, CheckPreclosedContract,
         UpdateChecked, LookupAffected, EndLookup, EndCheck, AcceptorStep,
         CancelAccept, OnAcceptMessage, AcceptFailOnError, DeleteOffered,
         UpdateSigned, CreateSigned, Environment, MineFund, ReorgFund,
         MineSpend, ReorgSpend, AcceptorRefund, Attest, SendOffer, Expire,
         LandLate, Stabilise
<1>4. QED
  BY <1>u, <1>1, <1>2, <1>3

-----------------------------------------------------------------------------
\* The conjunction of the invariants below is inductive.
THEOREM Invariance == Spec => []IInv
<1>1. IInv /\ [Next]_vars => IInv'
  BY StepsKeepTypes, StepsKeepRowsTrue, StepsKeepLateTrue, StepsKeepFacts, StepsKeepCets,
     StepsKeepStored, StepsKeepNotifications DEF IInv
<1>2. QED
  BY InitIInv, <1>1, PTL DEF Spec

\* Every variable keeps its type.
THEOREM TypeCorrect == Spec => []TypeOK
<1>1. IInv => TypeOK
  BY DEF IInv
<1>2. QED
  BY <1>1, Invariance, PTL

\* No stored row is ahead of Bitcoin, for any number of contracts and of
\* checks and accepts that overlap, fail and are cancelled.
THEOREM RowsAreTrue == Spec => []RowsMatchBitcoin
<1>1. IInv => RowsMatchBitcoin
  BY DEF IInv
<1>2. QED
  BY <1>1, Invariance, PTL

\* What a check read before an await still holds when it goes on.
THEOREM ReadsStayTrue == Spec => []StaleReadsStillHold
<1>1. IInv => StaleReadsStillHold
  BY DEF IInv
<1>2. QED
  BY <1>1, Invariance, PTL

\* A CET is only broadcast for an outcome that every attestor has attested.
THEOREM CetsAttested == Spec => []CetsAreFullyAttested
<1>1. IInv => CetsAreFullyAttested
  BY DEF IInv
<1>2. QED
  BY <1>1, Invariance, PTL

\* A Sign message is only handed out for a contract that is stored.
THEOREM SignedStored == Spec => []SignedContractsAreStored
<1>1. IInv => SignedContractsAreStored
  BY DEF IInv
<1>2. QED
  BY <1>1, Invariance, PTL

\* What the smart contract is told about a contract is true on Bitcoin.
THEOREM NotificationsTrue == Spec => []NotificationsAreTrue
<1>1. IInv => NotificationsAreTrue
  BY DEF IInv
<1>2. QED
  BY <1>1, Invariance, PTL

-----------------------------------------------------------------------------
(***************************************************************************)
(* OneContractPerOffer, which needs calls that succeed and accept requests *)
(* that do not overlap.                                                    *)
(***************************************************************************)

\* The offer that acceptor h has in hand was returned, and no contract of it
\* is signed yet; its row is gone once h has deleted it.
OfferInHand(h) ==
    /\ acc[h].pc # "idle" =>
          /\ OfferOf[acc[h].cur] \in offered
          /\ \A d \in signed : OfferOf[d] # OfferOf[acc[h].cur]
    /\ acc[h].pc \in {"update", "create"} =>
          tmp[OfferOf[acc[h].cur]] # "Offered"

\* A signed contract has used up its offer.
SignedOffersAreGone ==
    \A d \in signed : OfferOf[d] \in offered /\ tmp[OfferOf[d]] # "Offered"

OnceInv ==
    /\ ~flaky
    /\ SignedOffersAreGone
    /\ \A h \in Acceptors : OfferInHand(h)
    /\ OneContractPerOffer

\* What the steps of an accept, and of an offer, leave as it is.
accepting == <<tmp, offered, signed, acc, flaky>>

LEMMA OtherSteps ==
    ASSUME [Next]_vars, ~flaky
    PROVE  \/ UNCHANGED accepting
           \/ \E o \in Offers : SendOffer(o)
           \/ \E h \in Acceptors : AcceptorStep(h)
<1>1. CASE \E k \in Checkers : CheckerStep(k)
  <2> SUFFICES ASSUME NEW k \in Checkers, CheckerStep(k)
               PROVE  UNCHANGED accepting
    BY <1>1
  <2>1. CASE StartCheck(k) \/ ListContracts(k) \/ EndPass(k)
             \/ CheckSignedContract(k) \/ CheckConfirmedContract(k)
             \/ CheckPreclosedContract(k)
    BY <2>1 DEF StartCheck, ListContracts, EndPass, CheckSignedContract,
                CheckConfirmedContract, CheckPreclosedContract, storage,
                messages, accepting
  <2>2. CASE CloseContractConfirmations(k) \/ CloseContractSend(k)
             \/ CheckRefundTime(k) \/ CheckRefundConfirmations(k)
             \/ CheckRefundSend(k)
    BY <2>2 DEF CloseContractConfirmations, CloseContractSend, CheckRefundTime,
                CheckRefundConfirmations, CheckRefundSend, storage, messages,
                accepting
  <2>3. CASE UpdateChecked(k) \/ LookupAffected(k) \/ EndLookup(k)
             \/ SetStatusFunded(k) \/ PostCloseDlc(k) \/ EndCheck(k)
    BY <2>3 DEF UpdateChecked, LookupAffected, EndLookup, SetStatusFunded,
                PostCloseDlc, EndCheck, storage, messages, accepting
  <2> QED BY <2>1, <2>2, <2>3 DEF CheckerStep
<1>2. CASE \/ \E k \in Checkers : CancelCheck(k)
           \/ \E h \in Acceptors : CancelAccept(h)
  BY <1>2 DEF CancelCheck, CancelAccept
<1>3. CASE Environment
  <2>1. CASE \E c \in Contracts : \/ MineFund(c) \/ ReorgFund(c)
                                  \/ MineSpend(c) \/ ReorgSpend(c)
                                  \/ AcceptorRefund(c)
    BY <2>1 DEF MineFund, ReorgFund, MineSpend, ReorgSpend, AcceptorRefund,
                storage, messages, accepting
  <2>2. CASE \E o \in Offers : Expire(o) \/ \E a \in Attestors : Attest(o, a)
    BY <2>2 DEF Expire, Attest, storage, messages, accepting
  <2>3. CASE (\E w \in late : LandLate(w)) \/ Stabilise
    BY <2>3 DEF LandLate, Stabilise, messages, accepting
  <2> QED BY <1>3, <2>1, <2>2, <2>3 DEF Environment
<1>4. CASE UNCHANGED vars
  BY <1>4 DEF vars, accepting
<1> QED BY <1>1, <1>2, <1>3, <1>4 DEF Next

\* A fresh temporary id is nobody's offer yet.
LEMMA SendOfferKeepsOnce ==
    ASSUME IInv, OnceInv, NEW o \in Offers, SendOffer(o) PROVE OnceInv'
<1>1. /\ o \notin offered /\ offered' = offered \cup {o}
      /\ tmp' = [tmp EXCEPT ![o] = "Offered"]
      /\ UNCHANGED <<signed, acc, flaky>>
  BY DEF OnceInv, SendOffer
<1>2. tmp \in [Offers -> {"None", "Offered", "FailedAccept"}]
  BY DEF IInv, TypeOK
<1>3. SignedOffersAreGone'
  BY <1>1, <1>2 DEF OnceInv, SignedOffersAreGone
<1>4. ASSUME NEW h \in Acceptors PROVE OfferInHand(h)'
  BY <1>1, <1>2 DEF OnceInv, OfferInHand
<1>5. ~flaky' /\ OneContractPerOffer'
  BY <1>1 DEF OnceInv, OneContractPerOffer
<1> QED BY <1>3, <1>4, <1>5 DEF OnceInv

\* The one accept request that is handled takes an unused offer, and the
\* offer is gone before its contract is signed.
LEMMA AcceptorKeepsOnce ==
    ASSUME IInv, OnceInv, NEW h, Acceptors = {h}, AcceptorStep(h)
    PROVE  OnceInv'
<1>0. /\ TypeOK /\ ~flaky /\ SignedOffersAreGone /\ OfferInHand(h)
      /\ OneContractPerOffer
  BY DEF IInv, OnceInv
<1>a. /\ acc \in [Acceptors -> Acceptor] /\ h \in Acceptors
      /\ tmp \in [Offers -> {"None", "Offered", "FailedAccept"}]
      /\ OfferOf \in [Contracts -> Offers]
      /\ signed \subseteq Contracts
      /\ acc[h].pc # "idle" => acc[h].cur \in Contracts
  <2>1. acc[h] \in Acceptor
    BY <1>0 DEF TypeOK
  <2>2. acc[h].pc # "idle" => acc[h].cur \in Contracts
    BY <2>1 DEF Acceptor
  <2> QED BY <1>0, <2>2, ConstantsAssumption DEF TypeOK
<1>q. ASSUME ~flaky', SignedOffersAreGone', OfferInHand(h)',
             OneContractPerOffer'
      PROVE  OnceInv'
  BY <1>q DEF OnceInv
<1>1. CASE \E c \in Contracts : OnAcceptMessage(h, c)
  <2> PICK c \in Contracts : OnAcceptMessage(h, c)
    BY <1>1
  <2>1. \A d \in signed : OfferOf[d] # OfferOf[c]
    BY <1>0 DEF SignedOffersAreGone, OnAcceptMessage
  <2>2. PICK pc \in {"delete", "fail"} :
           acc' = [acc EXCEPT ![h] = [pc |-> pc, cur |-> c]]
    BY DEF OnAcceptMessage
  <2>3. acc'[h].pc \in {"delete", "fail"} /\ acc'[h].cur = c
    BY <2>2, <1>a
  <2>4. OfferOf[c] \in offered /\ UNCHANGED <<tmp, offered, signed, flaky>>
    BY DEF OnAcceptMessage, storage, messages
  <2>5. OfferInHand(h)'
    BY <2>1, <2>3, <2>4 DEF OfferInHand
  <2>6. ~flaky' /\ SignedOffersAreGone' /\ OneContractPerOffer'
    BY <1>0, <2>4 DEF SignedOffersAreGone, OneContractPerOffer
  <2> QED BY <2>5, <2>6, <1>q
<1>2. CASE AcceptFailOnError(h)
  <2>1. acc'[h].pc = "idle" /\ UNCHANGED <<offered, signed, flaky>>
    BY <1>2, <1>a DEF AcceptFailOnError, messages, IdleAcceptor
  <2>2. \A o \in Offers : tmp'[o] # "Offered" \/ tmp'[o] = tmp[o]
    BY <1>2, <1>a DEF AcceptFailOnError
  <2>3. SignedOffersAreGone'
    BY <1>0, <1>a, <2>1, <2>2 DEF SignedOffersAreGone
  <2>4. OfferInHand(h)' /\ OneContractPerOffer'
    BY <1>0, <2>1 DEF OfferInHand, OneContractPerOffer
  <2> QED BY <1>0, <2>1, <2>3, <2>4, <1>q
<1>3. CASE DeleteOffered(h)
  <2>1. /\ tmp' = [tmp EXCEPT ![OfferOf[acc[h].cur]] = "None"]
        /\ acc[h].pc = "delete" /\ acc' = [acc EXCEPT ![h].pc = "update"]
        /\ UNCHANGED <<offered, signed, flaky>>
    BY <1>0, <1>3 DEF DeleteOffered, messages
  <2>2. acc'[h].pc = "update" /\ acc'[h].cur = acc[h].cur
    BY <1>a, <2>1
  <2>3. /\ tmp'[OfferOf[acc[h].cur]] # "Offered"
        /\ \A o \in Offers : tmp'[o] # "Offered" \/ tmp'[o] = tmp[o]
    BY <1>a, <2>1
  <2>4. SignedOffersAreGone'
    BY <1>0, <1>a, <2>1, <2>3 DEF SignedOffersAreGone
  <2>5. OfferInHand(h)'
    BY <1>0, <2>1, <2>2, <2>3 DEF OfferInHand
  <2>6. OneContractPerOffer'
    BY <1>0, <2>1 DEF OneContractPerOffer
  <2> QED BY <1>0, <2>1, <2>4, <2>5, <2>6, <1>q
<1>4. CASE UpdateSigned(h) \/ CreateSigned(h)
  <2>1. acc[h].pc \in {"update", "create"} /\ UNCHANGED <<tmp, offered, flaky>>
    BY <1>4 DEF UpdateSigned, CreateSigned
  <2>2. \/ acc'[h] = IdleAcceptor /\ signed' = signed \cup {acc[h].cur}
        \/ acc'[h] = IdleAcceptor /\ signed' = signed
        \/ /\ acc'[h].pc = "create" /\ acc'[h].cur = acc[h].cur
           /\ signed' = signed
    <3>1. \/ acc' = [acc EXCEPT ![h] = IdleAcceptor]
             /\ signed' = signed \cup {acc[h].cur}
          \/ acc' = [acc EXCEPT ![h] = IdleAcceptor] /\ signed' = signed
          \/ acc' = [acc EXCEPT ![h].pc = "create"] /\ signed' = signed
      BY <1>4, Zenon DEF UpdateSigned, CreateSigned, ReturnSign
    <3>2. acc' = [acc EXCEPT ![h] = IdleAcceptor] => acc'[h] = IdleAcceptor
      BY <1>a
    <3>3. acc' = [acc EXCEPT ![h].pc = "create"] =>
             acc'[h].pc = "create" /\ acc'[h].cur = acc[h].cur
      BY <1>a
    <3> QED BY <3>1, <3>2, <3>3, Zenon
  <2>3. /\ OfferOf[acc[h].cur] \in offered
        /\ tmp[OfferOf[acc[h].cur]] # "Offered"
        /\ \A d \in signed : OfferOf[d] # OfferOf[acc[h].cur]
    BY <1>0, <2>1 DEF OfferInHand
  <2>4. SignedOffersAreGone'
    BY <1>0, <2>1, <2>2, <2>3 DEF SignedOffersAreGone
  <2>5. OfferInHand(h)'
    BY <2>1, <2>2, <2>3 DEF OfferInHand, IdleAcceptor
  <2>6. OneContractPerOffer'
    BY <1>0, <2>2, <2>3 DEF OneContractPerOffer
  <2> QED BY <1>0, <2>1, <2>4, <2>5, <2>6, <1>q
<1> QED BY <1>1, <1>2, <1>3, <1>4 DEF AcceptorStep

\* An offer is used once by a wallet whose calls succeed and whose accept
\* requests come one after the other, however many offers and contracts there
\* are: update_contract removes the offered row before it signs.
THEOREM OfferUsedOnce ==
    ASSUME NEW h, Acceptors = {h}, Unreliable = FALSE
    PROVE  Spec => []OneContractPerOffer
<1>1. Init => OnceInv
  BY DEF Init, OnceInv, SignedOffersAreGone, OfferInHand, IdleAcceptor,
         OneContractPerOffer
<1>2. IInv /\ OnceInv /\ [Next]_vars => OnceInv'
  <2> SUFFICES ASSUME IInv, OnceInv, [Next]_vars PROVE OnceInv'
    OBVIOUS
  <2>1. CASE UNCHANGED accepting
    BY <2>1 DEF accepting, OnceInv, SignedOffersAreGone, OfferInHand,
                OneContractPerOffer
  <2>2. CASE \E o \in Offers : SendOffer(o)
    BY <2>2, SendOfferKeepsOnce
  <2>3. CASE \E g \in Acceptors : AcceptorStep(g)
    BY <2>3, AcceptorKeepsOnce
  <2> QED BY <2>1, <2>2, <2>3, OtherSteps DEF OnceInv
<1>3. OnceInv => OneContractPerOffer
  BY DEF OnceInv
<1> QED BY <1>1, <1>2, <1>3, Invariance, PTL DEF Spec

-----------------------------------------------------------------------------
(***************************************************************************)
(* ChecksOnlyAdvance, which needs checks that do not overlap and whose     *)
(* writes do not outlive them.                                             *)
(***************************************************************************)

\* A check has taken a contract from its list and is yet to write its row.
InHand == {"cetConfs", "cetSend", "refundTime", "refundConfs", "refundSend",
           "update"}

\* A check h lists each contract once, no row f of them is past the pass it
\* was listed in, and none it has in hand is past what it will be set to.
IsAhead(h, f) ==
    /\ \A r, s \in h.todo : r.id = s.id => r = s
    /\ \A r \in h.todo : Rank(f[r.id].state) =< Rank(h.pass)
    /\ h.pc \in InHand =>
          /\ Rank(f[h.cur].state) =< Rank(h.write.state)
          /\ \A r \in h.todo : r.id # h.cur

LateWritesAreSigned == \A w \in late : w.row.state = "Signed"

AdvanceInv ==
    /\ LateWritesAreSigned
    /\ \A k \in Checkers : IsAhead(chk[k], fin)

LEMMA RankValues ==
    /\ Rank("None") = 0 /\ Rank("Signed") = 1 /\ Rank("Confirmed") = 2
    /\ Rank("PreClosed") = 3 /\ Rank("Closed") = 4 /\ Rank("Refunded") = 4
BY DEF Rank

\* What a step of a check that writes no row does to what it has in hand.
LEMMA CheckMoves ==
    ASSUME IInv, NEW k \in Checkers, CheckerStep(k) \/ CancelCheck(k),
           ~UpdateChecked(k)
    PROVE  LET h == chk[k]
               g == chk'[k]
           IN  /\ fin' = fin /\ late' = late
               /\ \/ g.pc \notin InHand /\ g.todo = {}
                  \/ g.pc \notin InHand /\ g.todo \subseteq h.todo /\ g.pass = h.pass
                  \/ /\ g.pc \notin InHand /\ g.pass = h.pass
                     /\ g.todo = RowsInState(h.pass)
                  \/ \E c \in h.todo :
                        /\ g.cur = c.id /\ g.todo = h.todo \ {c}
                        /\ g.pass = h.pass
                        /\ Rank(h.pass) =< Rank(g.write.state)
                  \/ /\ h.pc \in InHand
                     /\ g.cur = h.cur /\ g.todo = h.todo /\ g.pass = h.pass
                     /\ Rank(h.write.state) =< Rank(g.write.state)
<1> DEFINE h == chk[k]
           g == chk'[k]
           Moves == \/ g.pc \notin InHand /\ g.todo = {}
                    \/ g.pc \notin InHand /\ g.todo \subseteq h.todo /\ g.pass = h.pass
                    \/ /\ g.pc \notin InHand /\ g.pass = h.pass
                       /\ g.todo = RowsInState(h.pass)
                    \/ \E c \in h.todo :
                          /\ g.cur = c.id /\ g.todo = h.todo \ {c}
                          /\ g.pass = h.pass
                          /\ Rank(h.pass) =< Rank(g.write.state)
                    \/ /\ h.pc \in InHand
                       /\ g.cur = h.cur /\ g.todo = h.todo /\ g.pass = h.pass
                       /\ Rank(h.write.state) =< Rank(g.write.state)
<1>t. chk \in [Checkers -> Checker] /\ h \in Checker /\ HandlerFacts(k)
  BY DEF IInv, TypeOK, StaleReadsStillHold
\* The helpers that move a check.
<1>g. ASSUME NEW pc, Goto(k, pc), pc \notin InHand PROVE Moves
  BY <1>g, <1>t DEF Goto, Checker
<1>h. ASSUME NEW pc, Goto(k, pc), h.pc \in InHand,
             h.write.state \in {"PreClosed", "Closed", "Refunded"}
      PROVE  Moves
  <2>1. g.cur = h.cur /\ g.todo = h.todo /\ g.pass = h.pass /\ g.write = h.write
    BY <1>h, <1>t DEF Goto, Checker
  <2> QED  BY <1>h, <2>1, RankValues
<1>d. ASSUME Drop(k) PROVE Moves
  BY <1>d, <1>t DEF Drop, Checker, InHand
<1>n. ASSUME NEW c, Done(k, c) PROVE Moves
  BY <1>n, <1>t DEF Done, Checker, InHand
<1>i. ASSUME chk' = [chk EXCEPT ![k] = IdleChecker] PROVE Moves
  BY <1>i, <1>t DEF IdleChecker, InHand
<1>k. ASSUME NEW c \in h.todo, NEW pc, NEW row, Take(k, c, pc, row),
             Rank(h.pass) =< Rank(row.state)
      PROVE  Moves
  <2>1. g.cur = c.id /\ g.todo = h.todo \ {c} /\ g.pass = h.pass /\ g.write = row
    BY <1>k, <1>t DEF Take, Checker
  <2> QED  BY <1>k, <2>1
<1> HIDE DEF Moves
<1>1. ASSUME StartCheck(k) PROVE Moves
  BY <1>1, <1>g DEF StartCheck, InHand
<1>2. ASSUME ListContracts(k) PROVE Moves
  <2>1. CASE chk' = [chk EXCEPT ![k].pc = "check",
                                ![k].todo = RowsInState(chk[k].pass)]
    BY <2>1, <1>t DEF Checker, InHand, Moves
  <2> QED  BY <1>2, <2>1, <1>i DEF ListContracts
<1>3. ASSUME EndPass(k) PROVE Moves
  <2>1. g.pc \in {"lookup", "list"} /\ g.todo = {}
    BY <1>3, <1>t DEF EndPass, Checker
  <2> QED  BY <2>1 DEF InHand, Moves
<1>4. ASSUME CheckSignedContract(k) PROVE Moves
  BY <1>4, <1>k, <1>n, RankValues DEF CheckSignedContract, ConfirmedRow
<1>5. ASSUME CheckConfirmedContract(k) PROVE Moves
  <2>1. h.pass = "Confirmed"
    BY <1>5 DEF CheckConfirmedContract
  <2>2. \/ \E c \in h.todo : Done(k, c)
        \/ \E c \in h.todo : Take(k, c, "refundTime", RefundedRow)
        \/ \E c \in h.todo, x \in Outcomes :
              Take(k, c, "cetConfs", [state |-> "PreClosed", cet |-> x])
    BY <1>5 DEF CheckConfirmedContract
  <2>3. /\ Rank(h.pass) =< Rank(RefundedRow.state)
        /\ \A x : Rank(h.pass) =< Rank([state |-> "PreClosed", cet |-> x].state)
    BY <2>1, RankValues DEF RefundedRow
  <2> QED  BY <2>2, <2>3, <1>k, <1>n
<1>6. ASSUME CloseContractConfirmations(k) PROVE Moves
  <2>1. h.pc = "cetConfs" /\ h.write.state = "PreClosed"
    BY <1>6, <1>t DEF CloseContractConfirmations, HandlerFacts
  <2>2. CASE chk' = [chk EXCEPT ![k].pc = "update", ![k].write.state = "Closed"]
    <3>1. /\ g.cur = h.cur /\ g.todo = h.todo /\ g.pass = h.pass
          /\ g.write.state = "Closed"
      BY <2>2, <1>t DEF Checker, Row
    <3> QED  BY <2>1, <3>1, RankValues DEF InHand, Moves
  <2> QED  BY <1>6, <2>1, <2>2, <1>h, <1>d DEF CloseContractConfirmations, InHand
<1>7. ASSUME CloseContractSend(k) PROVE Moves
  BY <1>7, <1>t, <1>h, <1>d DEF CloseContractSend, HandlerFacts, InHand
<1>8. ASSUME CheckRefundTime(k) \/ CheckRefundConfirmations(k) \/ CheckRefundSend(k) PROVE Moves
  <2>1. h.pc \in InHand /\ h.write.state = "Refunded"
    <3>1. h.pc \in {"refundTime", "refundConfs", "refundSend"}
      BY <1>8 DEF CheckRefundTime, CheckRefundConfirmations, CheckRefundSend
    <3> QED  BY <3>1, <1>t DEF HandlerFacts, RefundedRow, InHand
  <2>2. Drop(k) \/ \E pc : Goto(k, pc)
    BY <1>8 DEF CheckRefundTime, CheckRefundConfirmations, CheckRefundSend
  <2> QED  BY <2>1, <2>2, <1>h, <1>d
<1>9. ASSUME CheckPreclosedContract(k) PROVE Moves
  BY <1>9, <1>k, <1>n, RankValues DEF CheckPreclosedContract
<1>10. ASSUME LookupAffected(k) \/ SetStatusFunded(k) \/ PostCloseDlc(k) PROVE Moves
  <2>1. \/ chk' = [chk EXCEPT ![k] = IdleChecker]
        \/ /\ g.pc \in {"lookup", "notify"}
           /\ g.todo = h.todo /\ g.pass = h.pass
    <3>1. CASE LookupAffected(k)
      BY <3>1, <1>t DEF LookupAffected, Checker
    <3>2. CASE SetStatusFunded(k)
      BY <3>2, <1>t DEF SetStatusFunded, Checker
    <3>3. CASE PostCloseDlc(k)
      BY <3>3, <1>t DEF PostCloseDlc, Checker
    <3> QED  BY <1>10, <3>1, <3>2, <3>3
  <2> QED  BY <2>1, <1>i DEF InHand, Moves
<1>11. ASSUME EndLookup(k) PROVE Moves
  BY <1>11, <1>g DEF EndLookup, InHand
<1>12. ASSUME EndCheck(k) \/ CancelCheck(k) PROVE Moves
  BY <1>12, <1>i DEF EndCheck, CancelCheck
<1>13. Moves
  BY <1>1, <1>2, <1>3, <1>4, <1>5, <1>6, <1>7, <1>8, <1>9, <1>10,
     <1>11, <1>12 DEF CheckerStep
<1>14. fin' = fin /\ late' = late
  BY DEF CheckerStep, CancelCheck, StartCheck, ListContracts, EndPass,
         CheckSignedContract, CheckConfirmedContract, CloseContractConfirmations,
         CloseContractSend, CheckRefundTime, CheckRefundConfirmations,
         CheckRefundSend, CheckPreclosedContract, LookupAffected, EndLookup,
         SetStatusFunded, PostCloseDlc, EndCheck, storage
<1> QED  BY <1>13, <1>14 DEF Moves

\* Rows only move to Signed, or are written by the one check there is.
LEMMA StepsKeepAdvance ==
    ASSUME NEW k, Checkers = {k}, LateStates \subseteq {"Signed"},
           IInv, AdvanceInv, [Next]_vars
    PROVE  AdvanceInv'
<1> USE ConstantsAssumption
<1> DEFINE h == chk[k]
           g == chk'[k]
<1>t. /\ TypeOK /\ LateWritesAreSigned /\ IsAhead(h, fin) /\ HandlerFacts(k)
      /\ k \in Checkers /\ chk \in [Checkers -> Checker] /\ h \in Checker
      /\ fin \in [Contracts -> Row] /\ acc \in [Acceptors -> Acceptor]
  BY DEF IInv, TypeOK, AdvanceInv, StaleReadsStillHold
<1>q. ASSUME LateWritesAreSigned', IsAhead(chk'[k], fin') PROVE AdvanceInv'
  BY <1>q DEF AdvanceInv, IsAhead
\* A row that is, or becomes, Signed leaves the check ahead.
<1>s. ASSUME chk' = chk, NEW c \in Contracts, NEW row, row.state = "Signed",
             fin' = fin \/ fin' = [fin EXCEPT ![c] = row]
      PROVE  IsAhead(chk'[k], fin')
  <2>1. \A r \in h.todo : r.id \in Contracts
    BY <1>t DEF Checker, ListedRow
  <2>2. Rank(h.pass) \in Nat /\ Rank(h.pass) >= 1
    BY <1>t, RankValues DEF Checker, Passes
  <2>3. h.pc \in InHand => /\ h.cur \in Contracts
                           /\ Rank(h.write.state) \in Nat /\ Rank(h.write.state) >= 1
    <3>1. h.pc \in InHand => /\ h.cur \in Contracts
                             /\ h.write.state \notin {"None", "Signed"}
      BY <1>t DEF HandlerFacts, InHand, RefundedRow
    <3>2. h.write.state \in {"None", "Signed", "Confirmed", "PreClosed", "Closed",
                             "Refunded"}
      BY <1>t DEF Checker, Row
    <3> QED  BY <3>1, <3>2, RankValues
  <2>4. \A d \in Contracts :
           fin'[d] = fin[d] \/ Rank(fin'[d].state) = 1
    BY <1>s, <1>t, RankValues
  <2> QED  BY <1>s, <1>t, <2>1, <2>2, <2>3, <2>4 DEF IsAhead
<1>w. ASSUME NEW c \in Contracts, NEW row, NEW ok,
             StoreUpdate(c, row, ok) \/ StoreCreate(c, row, ok)
      PROVE  LateWritesAreSigned'
  <2>1. \/ late' = late
        \/ /\ row.state \in LateStates
           /\ \E kind : late' = late \cup {[kind |-> kind, id |-> c, row |-> row]}
    BY <1>w DEF StoreUpdate, StoreCreate, MayLandLater
  <2>2. \A w \in late' : w \in late \/ (w.row = row /\ row.state \in LateStates)
    BY <2>1
  <2> QED  BY <2>2, <1>t DEF LateWritesAreSigned
<1>1. ASSUME CheckerStep(k) \/ CancelCheck(k), ~UpdateChecked(k)
      PROVE  AdvanceInv'
  <2>1. /\ fin' = fin /\ late' = late
        /\ \/ g.pc \notin InHand /\ g.todo = {}
           \/ g.pc \notin InHand /\ g.todo \subseteq h.todo /\ g.pass = h.pass
           \/ /\ g.pc \notin InHand /\ g.pass = h.pass
              /\ g.todo = RowsInState(h.pass)
           \/ \E c \in h.todo :
                 /\ g.cur = c.id /\ g.todo = h.todo \ {c}
                 /\ g.pass = h.pass
                 /\ Rank(h.pass) =< Rank(g.write.state)
           \/ /\ h.pc \in InHand
              /\ g.cur = h.cur /\ g.todo = h.todo /\ g.pass = h.pass
              /\ Rank(h.write.state) =< Rank(g.write.state)
    BY <1>1, <1>t, CheckMoves
  <2>r. \A x \in {"None", "Signed", "Confirmed", "PreClosed", "Closed",
                  "Refunded"} : Rank(x) \in Nat
    BY RankValues
  <2>f. \A c \in Contracts : Rank(fin[c].state) \in Nat
    BY <2>r, <1>t DEF Row
  <2>2. ASSUME g.pc \notin InHand, g.todo = {} PROVE IsAhead(chk'[k], fin')
    BY <2>1, <2>2 DEF IsAhead
  <2>3. ASSUME g.pc \notin InHand, g.todo \subseteq h.todo, g.pass = h.pass
        PROVE  IsAhead(chk'[k], fin')
    BY <2>1, <2>3, <1>t DEF IsAhead
  <2>4. ASSUME g.pc \notin InHand, g.pass = h.pass, g.todo = RowsInState(h.pass)
        PROVE  IsAhead(chk'[k], fin')
    <3>1. \A r \in g.todo : r.id \in Contracts /\ fin[r.id].state = g.pass
      BY <2>4 DEF RowsInState
    <3>2. \A r, s \in g.todo : r.id = s.id => r = s
      BY <2>4 DEF RowsInState
    <3> QED  BY <2>1, <2>4, <2>f, <3>1, <3>2 DEF IsAhead
  <2>5. ASSUME NEW c \in h.todo, g.cur = c.id, g.todo = h.todo \ {c},
               g.pass = h.pass, Rank(h.pass) =< Rank(g.write.state)
        PROVE  IsAhead(chk'[k], fin')
    <3>1. Rank(fin[c.id].state) =< Rank(h.pass) /\ c.id \in Contracts
      BY <1>t DEF IsAhead, Checker, ListedRow
    <3>2. g.write \in Row
      BY <1>1, <1>t, StepsKeepTypes DEF TypeOK, Checker
    <3>3. Rank(h.pass) \in Nat /\ Rank(g.write.state) \in Nat
      BY <3>2, <1>t, <2>r DEF Row, Checker, Passes
    <3>4. Rank(fin[g.cur].state) =< Rank(g.write.state)
      BY <2>5, <2>f, <3>1, <3>3
    <3> QED  BY <2>1, <2>5, <3>4, <1>t DEF IsAhead
  <2>6. ASSUME h.pc \in InHand, g.cur = h.cur, g.todo = h.todo, g.pass = h.pass,
               Rank(h.write.state) =< Rank(g.write.state)
        PROVE  IsAhead(chk'[k], fin')
    <3>1. h.cur \in Contracts
      BY <2>6, <1>t DEF HandlerFacts, InHand
    <3>2. g.write \in Row
      BY <1>1, <1>t, StepsKeepTypes DEF TypeOK, Checker
    <3>3. Rank(h.write.state) \in Nat /\ Rank(g.write.state) \in Nat
      BY <3>2, <1>t, <2>r DEF Row, Checker
    <3>4. Rank(fin[g.cur].state) =< Rank(g.write.state)
      BY <2>6, <2>f, <3>1, <3>3, <1>t DEF IsAhead
    <3> QED  BY <2>1, <2>6, <3>4, <1>t DEF IsAhead
  <2>7. IsAhead(chk'[k], fin')
    BY <2>1, <2>2, <2>3, <2>4, <2>5, <2>6
  <2>8. LateWritesAreSigned'
    BY <2>1, <1>t DEF LateWritesAreSigned
  <2> QED  BY <2>7, <2>8, <1>q
<1>2. ASSUME UpdateChecked(k) PROVE AdvanceInv'
  <2>1. h.cur \in Contracts /\ h.pc \in InHand
    BY <1>2, <1>t DEF UpdateChecked, HandlerFacts, InHand
  <2>2. fin' = fin \/ fin' = [fin EXCEPT ![h.cur] = h.write]
    BY <1>2, StoreEffect DEF UpdateChecked
  <2>3. g.pc = "check" /\ g.todo = h.todo /\ g.pass = h.pass
    <3>1. CASE Drop(k)
      BY <3>1, <1>t DEF Drop, Checker
    <3>2. CASE \E row, affected :
                  chk' = [chk EXCEPT ![k].pc = "check", ![k].cur = NoContract,
                                     ![k].write = row, ![k].affected = affected]
      BY <3>2, <1>t DEF Checker
    <3> QED  BY <1>2, <3>1, <3>2 DEF UpdateChecked
  <2>4. \A r \in h.todo : r.id \in Contracts /\ fin'[r.id] = fin[r.id]
    BY <2>1, <2>2, <1>t DEF IsAhead, Checker, ListedRow
  <2>5. IsAhead(chk'[k], fin')
    BY <2>3, <2>4, <1>t DEF IsAhead, InHand
  <2>6. LateWritesAreSigned'
    BY <1>2, <2>1, <1>w DEF UpdateChecked
  <2> QED  BY <2>5, <2>6, <1>q
<1>3. ASSUME NEW a \in Acceptors, UpdateSigned(a) \/ CreateSigned(a)
      PROVE  AdvanceInv'
  <2>1. acc[a].cur \in Contracts /\ chk' = chk
    BY <1>3, <1>t DEF UpdateSigned, CreateSigned, Acceptor
  <2>2. \E ok \in BOOLEAN : \/ StoreUpdate(acc[a].cur, SignedRow, ok)
                            \/ StoreCreate(acc[a].cur, SignedRow, ok)
    BY <1>3 DEF UpdateSigned, CreateSigned
  <2>3. fin' = fin \/ fin' = [fin EXCEPT ![acc[a].cur] = SignedRow]
    BY <2>2, StoreEffect
  <2> QED  BY <2>1, <2>2, <2>3, <1>w, <1>s, <1>q DEF SignedRow
<1>4. ASSUME NEW w \in late, LandLate(w) PROVE AdvanceInv'
  <2>1. w.id \in Contracts /\ w.row \in Row /\ w.row.state = "Signed"
    BY <1>t DEF TypeOK, LateWrite, LateWritesAreSigned
  <2>2. chk' = chk /\ late' = late \ {w}
        /\ (fin' = fin \/ fin' = [fin EXCEPT ![w.id] = w.row])
    BY <1>4 DEF LandLate
  <2>3. IsAhead(chk'[k], fin')
    BY <2>1, <2>2, <1>s
  <2>4. LateWritesAreSigned'
    BY <2>2, <1>t DEF LateWritesAreSigned
  <2> QED  BY <2>3, <2>4, <1>q
<1>5. CASE UNCHANGED <<fin, chk>> /\ late' \subseteq late
  BY <1>5, <1>t, <1>q DEF LateWritesAreSigned
<1>6. ASSUME NEW a \in Acceptors, AcceptorStep(a) \/ CancelAccept(a),
             ~UpdateSigned(a), ~CreateSigned(a)
      PROVE  UNCHANGED <<fin, chk, late>>
  BY <1>6 DEF AcceptorStep, CancelAccept, OnAcceptMessage, AcceptFailOnError,
              DeleteOffered, storage
<1>7. ASSUME Environment, \A w \in late : ~LandLate(w)
      PROVE  UNCHANGED <<fin, chk>> /\ late' \subseteq late
  BY <1>7 DEF Environment, MineFund, ReorgFund, MineSpend, ReorgSpend,
              AcceptorRefund, SendOffer, Expire, Attest, Stabilise, storage
<1> QED  BY <1>1, <1>2, <1>3, <1>4, <1>5, <1>6, <1>7 DEF Next, vars

\* With one check at a time, whose writes do not outlive it, no check sets a
\* row back: only a repeated accept or an accepted row that lands late does
\* (periodic_check, update_contract).
THEOREM ChecksAdvance ==
    ASSUME NEW k, Checkers = {k}, LateStates \subseteq {"Signed"}
    PROVE  Spec => ChecksOnlyAdvance
<1> DEFINE Advances(c) ==
             \/ Rank(fin'[c].state) >= Rank(fin[c].state)
             \/ \E h \in Acceptors : acc[h] = [pc |-> "update", cur |-> c]
             \/ \E w \in late : LandLate(w)
<1>1. Init => AdvanceInv
  BY DEF Init, AdvanceInv, LateWritesAreSigned, IsAhead, IdleChecker, InHand
<1>2. IInv /\ AdvanceInv /\ [Next]_vars => AdvanceInv'
  BY StepsKeepAdvance
<1>3. IInv /\ AdvanceInv /\ [Next]_vars =>
         [\A c \in Contracts : Advances(c)]_fin
  <2> SUFFICES ASSUME IInv, AdvanceInv, [Next]_vars, fin' # fin,
                      NEW c \in Contracts, ~ \E w \in late : LandLate(w)
               PROVE  Advances(c)
    BY Zenon
  <2>t. /\ k \in Checkers /\ chk[k] \in Checker /\ HandlerFacts(k)
        /\ IsAhead(chk[k], fin)
        /\ fin \in [Contracts -> Row] /\ acc \in [Acceptors -> Acceptor]
    BY DEF IInv, TypeOK, AdvanceInv, StaleReadsStillHold
  <2>r. Rank(fin[c].state) \in Nat
    BY <2>t, RankValues DEF Row
  <2>1. CASE CheckerStep(k) \/ CancelCheck(k)
    <3>1. UpdateChecked(k)
      BY <2>1, <2>t, CheckMoves
    <3>2. chk[k].pc = "update" /\ chk[k].cur \in Contracts
      BY <3>1, <2>t DEF UpdateChecked, HandlerFacts
    <3>3. fin' = [fin EXCEPT ![chk[k].cur] = chk[k].write]
      BY <3>1, StoreEffect DEF UpdateChecked
    <3>4. Rank(fin[chk[k].cur].state) =< Rank(chk[k].write.state)
      BY <3>2, <2>t DEF IsAhead, InHand
    <3>5. Rank(chk[k].write.state) \in Nat
      BY <2>t, RankValues DEF Checker, Row
    <3>6. Rank(fin'[c].state) >= Rank(fin[c].state)
      <4>1. CASE c = chk[k].cur
        BY <4>1, <2>t, <2>r, <3>2, <3>3, <3>4, <3>5
      <4>2. CASE c # chk[k].cur
        BY <4>2, <2>t, <2>r, <3>3
      <4> QED  BY <4>1, <4>2
    <3> QED  BY <3>6
  <2>2. ASSUME NEW h \in Acceptors, UpdateSigned(h) \/ CreateSigned(h)
        PROVE  Advances(c)
    <3>1. /\ acc[h].pc \in {"update", "create"}
          /\ acc[h] = [pc |-> acc[h].pc, cur |-> acc[h].cur]
          /\ acc[h].cur \in Contracts
      BY <2>2, <2>t DEF UpdateSigned, CreateSigned, Acceptor
    <3>2. fin' = [fin EXCEPT ![acc[h].cur] = SignedRow]
      BY <2>2, StoreEffect DEF UpdateSigned, CreateSigned
    <3>3. CASE c # acc[h].cur
      BY <3>2, <3>3, <2>t, <2>r
    <3>4. CASE c = acc[h].cur /\ CreateSigned(h)
      <4>1. fin[c].state = "None"
        BY <3>4, <2>2 DEF CreateSigned, StoreCreate
      <4>2. fin'[c].state = "Signed"
        BY <3>2, <3>4, <2>t DEF SignedRow
      <4> QED  BY <4>1, <4>2, RankValues
    <3>5. CASE c = acc[h].cur /\ UpdateSigned(h)
      BY <3>1, <3>5 DEF UpdateSigned
    <3> QED  BY <2>2, <3>3, <3>4, <3>5
  <2>3. ASSUME NEW h \in Acceptors, AcceptorStep(h) \/ CancelAccept(h)
        PROVE  UpdateSigned(h) \/ CreateSigned(h)
    BY <2>3 DEF AcceptorStep, CancelAccept, OnAcceptMessage, AcceptFailOnError,
                DeleteOffered, storage
  <2>4. ~Environment
    BY DEF Environment, MineFund, ReorgFund, MineSpend, ReorgSpend,
           AcceptorRefund, SendOffer, Expire, Attest, Stabilise, storage
  <2> QED  BY <2>1, <2>2, <2>3, <2>4 DEF Next, vars
<1> QED  BY <1>1, <1>2, <1>3, Invariance, PTL DEF Spec, ChecksOnlyAdvance
-----------------------------------------------------------------------------
(***************************************************************************)
(* RouterWallet implements ContractLife.                                   *)
(***************************************************************************)

\* A check that is past the time service has found the lock time passed.
RefundsAreDue ==
    \A k \in Checkers :
        chk[k].pc \in {"refundConfs", "refundSend"} =>
            OfferOf[chk[k].cur] \in expired

LifeInv == IInv /\ RefundsAreDue

\* Where a check stands after a step of its own: past the time service only
\* with the contract it had there.
LEMMA RefundMoves ==
    ASSUME TypeOK, NEW k \in Checkers, CheckerStep(k) \/ CancelCheck(k)
    PROVE  /\ \A j \in Checkers : j # k => chk'[j] = chk[j]
           /\ expired' = expired
           /\ chk'[k].pc \in {"refundConfs", "refundSend"} =>
                 /\ chk'[k].cur = chk[k].cur
                 /\ \/ OfferOf[chk[k].cur] \in expired
                    \/ chk[k].pc = "refundConfs"
<1> DEFINE h == chk[k]
           g == chk'[k]
           Others == \A j \in Checkers : j # k => chk'[j] = chk[j]
           Late == {"refundConfs", "refundSend"}
           Moved == /\ Others
                    /\ g.pc \in Late =>
                          /\ g.cur = h.cur
                          /\ OfferOf[h.cur] \in expired \/ h.pc = "refundConfs"
<1>t. chk \in [Checkers -> Checker] /\ h \in Checker
  BY DEF TypeOK
<1>g. ASSUME NEW pc, Goto(k, pc),
             pc \in Late => OfferOf[h.cur] \in expired \/ h.pc = "refundConfs"
      PROVE  Moved
  BY <1>g, <1>t DEF Goto, Checker
<1>d. ASSUME Drop(k) PROVE Moved
  BY <1>d, <1>t DEF Drop, Checker
<1>e. ASSUME NEW c, Done(k, c) PROVE Moved
  BY <1>e, <1>t DEF Done, Checker
<1>n. ASSUME NEW c, NEW pc, NEW row, Take(k, c, pc, row), pc \notin Late PROVE Moved
  BY <1>n, <1>t DEF Take, Checker
<1>i. ASSUME chk' = [chk EXCEPT ![k] = IdleChecker] PROVE Moved
  BY <1>i, <1>t DEF IdleChecker
<1> HIDE DEF Moved
<1>1. ASSUME StartCheck(k) \/ EndLookup(k)
      PROVE  Moved
  BY <1>1, <1>g DEF StartCheck, EndLookup
<1>2. ASSUME ListContracts(k) \/ EndPass(k)
      PROVE  Moved
  BY <1>2, <1>t, <1>i DEF ListContracts, EndPass, Checker, Moved
<1>3. ASSUME \/ CheckSignedContract(k) \/ CheckConfirmedContract(k)
             \/ CheckPreclosedContract(k)
      PROVE  Moved
  <2>1. \E c : \/ Done(k, c)
              \/ \E row : \/ Take(k, c, "update", row)
                          \/ Take(k, c, "cetConfs", row)
                          \/ Take(k, c, "refundTime", row)
    <3>1. CASE CheckSignedContract(k)
      BY <3>1 DEF CheckSignedContract
    <3>2. CASE CheckConfirmedContract(k)
      BY <3>2 DEF CheckConfirmedContract
    <3>3. CASE CheckPreclosedContract(k)
      BY <3>3 DEF CheckPreclosedContract
    <3> QED  BY <1>3, <3>1, <3>2, <3>3
  <2> QED  BY <2>1, <1>e, <1>n
<1>4. ASSUME CloseContractConfirmations(k)
      PROVE  Moved
  BY <1>4, <1>g, <1>d, <1>t DEF CloseContractConfirmations, Checker, Moved
<1>5. ASSUME CloseContractSend(k)
      PROVE  Moved
  BY <1>5, <1>g, <1>d DEF CloseContractSend
<1>6. ASSUME CheckRefundTime(k)
      PROVE  Moved
  BY <1>6, <1>g, <1>d DEF CheckRefundTime
<1>7. ASSUME CheckRefundConfirmations(k)
      PROVE  Moved
  BY <1>7, <1>g, <1>d DEF CheckRefundConfirmations
<1>8. ASSUME CheckRefundSend(k)
      PROVE  Moved
  BY <1>8, <1>g, <1>d DEF CheckRefundSend
<1>9. ASSUME UpdateChecked(k)
      PROVE  Moved
  <2>1. CASE \E row, affected :
                chk' = [chk EXCEPT ![k].pc = "check", ![k].cur = NoContract,
                                   ![k].write = row, ![k].affected = affected]
    BY <2>1, <1>t DEF Checker, Moved
  <2> QED  BY <1>9, <1>d, <2>1 DEF UpdateChecked
<1>10. ASSUME LookupAffected(k)
      PROVE  Moved
  BY <1>10, <1>t DEF LookupAffected, Checker, Moved
<1>11. ASSUME SetStatusFunded(k)
      PROVE  Moved
  BY <1>11, <1>t, <1>i DEF SetStatusFunded, Checker, Moved
<1>12. ASSUME PostCloseDlc(k)
      PROVE  Moved
  BY <1>12, <1>t, <1>i DEF PostCloseDlc, Checker, Moved
<1>13. ASSUME EndCheck(k) \/ CancelCheck(k)
      PROVE  Moved
  BY <1>13, <1>i DEF EndCheck, CancelCheck
<1>14. expired' = expired
  BY DEF CheckerStep, CancelCheck, StartCheck, ListContracts, EndPass,
         CheckSignedContract, CheckConfirmedContract, CloseContractConfirmations,
         CloseContractSend, CheckRefundTime, CheckRefundConfirmations,
         CheckRefundSend, CheckPreclosedContract, UpdateChecked, LookupAffected,
         EndLookup, SetStatusFunded, PostCloseDlc, EndCheck
<1> QED  BY <1>1, <1>2, <1>3, <1>4, <1>5, <1>6, <1>7, <1>8, <1>9, <1>10, <1>11,
            <1>12, <1>13, <1>14 DEF CheckerStep, Moved

\* The lock time of a refund has passed when it is sent, although the time was
\* read two awaits earlier.
LEMMA StepsKeepRefundsDue == LifeInv /\ [Next]_vars => RefundsAreDue'
<1> SUFFICES ASSUME LifeInv, [Next]_vars PROVE RefundsAreDue'
  OBVIOUS
<1> DEFINE Due(k) == chk'[k].pc \in {"refundConfs", "refundSend"} =>
                        OfferOf[chk'[k].cur] \in expired'
<1>t. TypeOK /\ RefundsAreDue
  BY DEF LifeInv, IInv
<1>s. ASSUME NEW k \in Checkers, chk'[k] = chk[k], expired \subseteq expired'
      PROVE  Due(k)
  BY <1>s, <1>t DEF RefundsAreDue
<1>1. ASSUME NEW k \in Checkers, CheckerStep(k) \/ CancelCheck(k),
             NEW j \in Checkers
      PROVE  Due(j)
  <2>1. CASE j # k
    BY <1>1, <2>1, <1>t, <1>s, RefundMoves
  <2>2. CASE j = k
    BY <1>1, <2>2, <1>t, RefundMoves DEF RefundsAreDue
  <2> QED  BY <2>1, <2>2
<1>2. ASSUME NEW h \in Acceptors, AcceptorStep(h) \/ CancelAccept(h)
      PROVE  UNCHANGED <<chk, expired>>
  BY <1>2 DEF AcceptorStep, CancelAccept, OnAcceptMessage, AcceptFailOnError,
              DeleteOffered, UpdateSigned, CreateSigned
<1>3. ASSUME Environment PROVE chk' = chk /\ expired \subseteq expired'
  BY <1>3 DEF Environment, MineFund, ReorgFund, MineSpend, ReorgSpend,
              AcceptorRefund, SendOffer, Expire, Attest, LandLate, Stabilise
<1>4. \A k \in Checkers : Due(k)
  BY <1>1, <1>2, <1>3, <1>s DEF Next, vars
<1> QED  BY <1>4 DEF RefundsAreDue

LEMMA LifeInvariance == Spec => []LifeInv
<1>1. Init => RefundsAreDue
  BY DEF Init, RefundsAreDue, IdleChecker
<1>2. LifeInv /\ [Next]_vars => RefundsAreDue'
  BY StepsKeepRefundsDue
<1> QED  BY <1>1, <1>2, Invariance, PTL DEF Spec, LifeInv

\* A transaction that spends an unspent funding output pays the contract out.
LEMMA PayOutMaps ==
    ASSUME TypeOK, NEW c \in Contracts, NEW tx,
           spend[c].tx = NoTx, spend' = [spend EXCEPT ![c].tx = tx],
           fund[c] = NB_CONFIRMATIONS,
           \/ tx = RefundTx /\ OfferOf[c] \in expired
           \/ tx \in Outcomes /\ \A a \in Attestors : att[OfferOf[c]][a] = tx,
           UNCHANGED <<signed, fund, att, expired, posts>>
    PROVE  Life!Close(c) \/ Life!Refund(c)
<1> DEFINE paid == [d \in Contracts |-> spend[d].tx]
           final == {d \in Contracts : spend[d].confs = NB_CONFIRMATIONS}
<1>t. spend \in [Contracts -> SpendTx] /\ OfferOf[c] \in Offers
  BY ConstantsAssumption DEF TypeOK
<1>1. \A d \in Contracts : /\ spend'[d].tx = IF d = c THEN tx ELSE spend[d].tx
                           /\ spend'[d].confs = spend[d].confs
  BY <1>t DEF SpendTx
<1>2. final' = final /\ paid' = [paid EXCEPT ![c] = tx]
  BY <1>1
<1>3. Life!PayOut(c, tx)
  BY <1>2 DEF Life!PayOut
<1>4. CASE tx = RefundTx /\ OfferOf[c] \in expired
  BY <1>3, <1>4 DEF Life!Refund
<1>5. CASE tx \in Outcomes /\ \A a \in Attestors : att[OfferOf[c]][a] = tx
  BY <1>3, <1>5, <1>t DEF Life!Close
<1> QED  BY <1>4, <1>5

\* A broadcast pays a contract out, or changes nothing: the node knows the
\* transaction already, or refuses it.
LEMMA BroadcastMaps ==
    ASSUME TypeOK, NEW c \in Contracts, NEW tx, NEW ok, Broadcast(c, tx, ok),
           fund[c] = NB_CONFIRMATIONS,
           \/ tx = RefundTx /\ OfferOf[c] \in expired
           \/ tx \in Outcomes /\ \A a \in Attestors : att[OfferOf[c]][a] = tx,
           UNCHANGED <<signed, fund, att, expired, posts>>
    PROVE  Life!Close(c) \/ Life!Refund(c) \/ UNCHANGED Life!lifeVars
<1>t. spend \in [Contracts -> SpendTx]
  BY DEF TypeOK
<1>1. \/ spend' = spend
      \/ /\ spend[c].tx = NoTx \/ spend[c].tx = tx
         /\ spend' = [spend EXCEPT ![c].tx = tx]
  BY BroadcastEffect
<1>2. CASE spend' = spend
  BY <1>2 DEF Life!lifeVars
<1>3. CASE spend' = [spend EXCEPT ![c].tx = tx] /\ spend[c].tx = tx
  <2>1. spend' = spend
    BY <1>3, <1>t DEF SpendTx
  <2> QED  BY <2>1, <1>2
<1>4. CASE spend' = [spend EXCEPT ![c].tx = tx] /\ spend[c].tx = NoTx
  BY <1>4, PayOutMaps
<1> QED  BY <1>1, <1>2, <1>3, <1>4

\* Every step of the router and its environment is one of a contract's life,
\* or changes nothing that its parties or the smart contract see.
LEMMA LifeStep == LifeInv /\ [Next]_vars => [Life!Next]_(Life!lifeVars)
<1> SUFFICES ASSUME LifeInv, [Next]_vars
             PROVE  Life!Next \/ UNCHANGED Life!lifeVars
  OBVIOUS
<1> USE ConstantsAssumption
<1>t. /\ TypeOK /\ StaleReadsStillHold /\ NotificationsAreTrue /\ RefundsAreDue
      /\ acc \in [Acceptors -> Acceptor] /\ chk \in [Checkers -> Checker]
  BY DEF LifeInv, IInv, TypeOK
<1>u. ASSUME UNCHANGED <<signed, fund, spend, att, expired, posts>>
      PROVE  UNCHANGED Life!lifeVars
  BY <1>u DEF Life!lifeVars
<1>1. ASSUME NEW k \in Checkers, CheckerStep(k) \/ CancelCheck(k)
      PROVE  Life!Next \/ UNCHANGED Life!lifeVars
  <2>t. HandlerFacts(k) /\ chk[k] \in Checker
    BY <1>t DEF StaleReadsStillHold
  <2>1. CASE CloseContractSend(k)
    <3>1. /\ chk[k].cur \in Contracts /\ fund[chk[k].cur] = NB_CONFIRMATIONS
          /\ chk[k].write.cet \in Outcomes
          /\ \A a \in Attestors : att[OfferOf[chk[k].cur]][a] = chk[k].write.cet
      BY <2>1, <2>t DEF CloseContractSend, HandlerFacts, RowIsTrue, ConfirmedRow
    <3>2. \E ok \in BOOLEAN : Broadcast(chk[k].cur, chk[k].write.cet, ok)
      BY <2>1 DEF CloseContractSend
    <3>3. UNCHANGED <<signed, fund, att, expired, posts>>
      BY <2>1 DEF CloseContractSend, messages
    <3> QED  BY <3>1, <3>2, <3>3, <1>t, BroadcastMaps DEF Life!Next
  <2>2. CASE CheckRefundSend(k)
    <3>1. /\ chk[k].cur \in Contracts /\ fund[chk[k].cur] = NB_CONFIRMATIONS
          /\ OfferOf[chk[k].cur] \in expired
      BY <2>2, <2>t, <1>t
         DEF CheckRefundSend, HandlerFacts, RowIsTrue, ConfirmedRow, RefundsAreDue
    <3>2. \E ok \in BOOLEAN : Broadcast(chk[k].cur, RefundTx, ok)
      BY <2>2 DEF CheckRefundSend
    <3>3. UNCHANGED <<signed, fund, att, expired, posts>>
      BY <2>2 DEF CheckRefundSend, messages
    <3> QED  BY <3>1, <3>2, <3>3, <1>t, BroadcastMaps DEF Life!Next
  <2>3. ASSUME SetStatusFunded(k) \/ PostCloseDlc(k)
        PROVE  Life!Next \/ UNCHANGED Life!lifeVars
    <3>1. UNCHANGED <<signed, fund, spend, att, expired>>
      BY <2>3 DEF SetStatusFunded, PostCloseDlc, messages, bitcoin
    <3>2. CASE posts' = posts
      BY <3>1, <3>2, <1>u
    <3>3. CASE SetStatusFunded(k) /\ posts' # posts
      <4>1. PICK c \in chk[k].funded :
                 posts' = posts \cup {[kind |-> "funded", id |-> c, cet |-> NoTx]}
        BY <3>3 DEF SetStatusFunded, Notify
      <4>2. c \in Contracts /\ fund[c] = NB_CONFIRMATIONS
        BY <2>t DEF HandlerFacts, RowIsTrue, ConfirmedRow, Checker
      <4>3. Life!Report(c)
        BY <3>1, <4>1, <4>2 DEF Life!Report
      <4> QED  BY <4>2, <4>3 DEF Life!Next
    <3>4. CASE PostCloseDlc(k) /\ posts' # posts
      <4>1. PICK r \in chk[k].closed :
                 posts' = posts \cup {[kind |-> "closed", id |-> r.id, cet |-> r.cet]}
        BY <3>4 DEF PostCloseDlc, Notify
      <4>2. /\ r.id \in Contracts /\ fund[r.id] = NB_CONFIRMATIONS
            /\ r.cet \in Outcomes /\ spend[r.id].tx = r.cet
        BY <2>t DEF HandlerFacts, RowIsTrue, Checker, ListedRow
      <4>3. Life!Report(r.id)
        BY <3>1, <4>1, <4>2 DEF Life!Report
      <4> QED  BY <4>2, <4>3 DEF Life!Next
    <3> QED  BY <2>3, <3>2, <3>3, <3>4
  <2>4. CASE /\ ~CloseContractSend(k) /\ ~CheckRefundSend(k)
             /\ ~SetStatusFunded(k) /\ ~PostCloseDlc(k)
    BY <1>1, <2>4, <1>u
       DEF CheckerStep, CancelCheck, StartCheck, ListContracts, EndPass,
           CheckSignedContract, CheckConfirmedContract,
           CloseContractConfirmations, CheckRefundTime,
           CheckRefundConfirmations, CheckPreclosedContract, UpdateChecked,
           LookupAffected, EndLookup, EndCheck, messages, bitcoin
  <2> QED  BY <2>1, <2>2, <2>3, <2>4
<1>2. ASSUME NEW h \in Acceptors, AcceptorStep(h) \/ CancelAccept(h)
      PROVE  Life!Next \/ UNCHANGED Life!lifeVars
  <2>1. UNCHANGED <<fund, spend, att, expired, posts>>
    BY <1>2 DEF AcceptorStep, CancelAccept, OnAcceptMessage, AcceptFailOnError,
                DeleteOffered, UpdateSigned, CreateSigned, bitcoin
  <2>2. signed' = signed \/ (signed' = signed \cup {acc[h].cur}
                             /\ acc[h].pc \in {"update", "create"})
    BY <1>2 DEF AcceptorStep, CancelAccept, OnAcceptMessage, AcceptFailOnError,
                DeleteOffered, UpdateSigned, CreateSigned, ReturnSign, messages
  <2>3. acc[h].pc \in {"update", "create"} => acc[h].cur \in Contracts
    BY <1>t DEF Acceptor
  <2>4. signed' = signed \cup {acc[h].cur} => Life!Sign(acc[h].cur)
    BY <2>1 DEF Life!Sign
  <2> QED  BY <2>1, <2>2, <2>3, <2>4, <1>u DEF Life!Next
<1>3. CASE Environment
  <2>1. ASSUME NEW c \in Contracts, MineFund(c) \/ ReorgFund(c)
        PROVE  Life!Next \/ UNCHANGED Life!lifeVars
    <3> DEFINE locked == {d \in Contracts : fund[d] = NB_CONFIRMATIONS}
    <3>1. UNCHANGED <<signed, spend, att, expired, posts>>
      BY <2>1 DEF MineFund, ReorgFund, storage, messages
    <3>2. fund \in [Contracts -> 0 .. NB_CONFIRMATIONS]
      BY <1>t DEF TypeOK
    <3>3. locked' = locked \/ (c \in signed /\ locked' = locked \cup {c})
      BY <2>1, <3>2 DEF MineFund, ReorgFund
    <3>4. CASE locked' = locked
      BY <3>1, <3>4 DEF Life!lifeVars
    <3>5. CASE c \in signed /\ locked' = locked \cup {c}
      BY <3>1, <3>5 DEF Life!Lock, Life!Next
    <3> QED  BY <3>3, <3>4, <3>5
  <2>2. ASSUME NEW c \in Contracts, MineSpend(c) \/ ReorgSpend(c)
        PROVE  Life!Next \/ UNCHANGED Life!lifeVars
    <3> DEFINE final == {d \in Contracts : spend[d].confs = NB_CONFIRMATIONS}
               paid == [d \in Contracts |-> spend[d].tx]
    <3>1. UNCHANGED <<signed, fund, att, expired, posts>>
      BY <2>2 DEF MineSpend, ReorgSpend, storage, messages
    <3>2. spend \in [Contracts -> SpendTx]
      BY <1>t DEF TypeOK
    <3>3. /\ \A d \in Contracts : spend'[d].tx = spend[d].tx
          /\ \A d \in Contracts : d # c => spend'[d] = spend[d]
      BY <2>2, <3>2 DEF MineSpend, ReorgSpend, SpendTx
    <3>4. paid' = paid
      BY <3>3
    <3>5. \/ spend'[c].confs # NB_CONFIRMATIONS /\ spend[c].confs # NB_CONFIRMATIONS
          \/ spend[c].tx # NoTx /\ spend'[c].confs = NB_CONFIRMATIONS
      BY <2>2, <3>2 DEF MineSpend, ReorgSpend, SpendTx
    <3>6. final' = final \/ (spend[c].tx # NoTx /\ final' = final \cup {c})
      BY <3>3, <3>5
    <3>7. CASE final' = final
      BY <3>1, <3>4, <3>7 DEF Life!lifeVars
    <3>8. CASE spend[c].tx # NoTx /\ final' = final \cup {c}
      BY <3>1, <3>4, <3>8 DEF Life!Finalise, Life!Next
    <3> QED  BY <3>6, <3>7, <3>8
  <2>3. ASSUME NEW c \in Contracts, AcceptorRefund(c)
        PROVE  Life!Next \/ UNCHANGED Life!lifeVars
    <3>1. fund[c] = NB_CONFIRMATIONS
      <4>1. fund[c] \in 0 .. NB_CONFIRMATIONS
        BY <1>t DEF TypeOK
      <4>2. fund[c] >= NB_CONFIRMATIONS
        BY <2>3 DEF AcceptorRefund, EnoughConfirmations
      <4> QED  BY <4>1, <4>2
    <3>2. spend' = [spend EXCEPT ![c].tx = RefundTx] /\ spend[c].tx = NoTx
          /\ OfferOf[c] \in expired
      BY <2>3 DEF AcceptorRefund
    <3>3. UNCHANGED <<signed, fund, att, expired, posts>>
      BY <2>3 DEF AcceptorRefund, storage, messages
    <3> QED  BY <3>1, <3>2, <3>3, <1>t, PayOutMaps DEF Life!Next
  <2>4. ASSUME NEW o \in Offers, NEW a \in Attestors, Attest(o, a)
        PROVE  Life!Next \/ UNCHANGED Life!lifeVars
    <3> DEFINE agreed == {e \in Offers \X Outcomes :
                             \A b \in Attestors : att[e[1]][b] = e[2]}
    <3>1. UNCHANGED <<signed, fund, spend, expired, posts>>
      BY <2>4 DEF Attest, storage, messages, bitcoin
    <3>2. PICK x \in Outcomes : att' = [att EXCEPT ![o][a] = x]
      BY <2>4 DEF Attest
    <3>3. att[o][a] = NoTx /\ att \in [Offers -> [Attestors -> CETs]]
      BY <2>4, <1>t DEF Attest, TypeOK
    <3>4. \A y \in Outcomes : <<o, y>> \notin agreed
      BY <3>3
    <3>5. \A p \in Offers, b \in Attestors :
             att'[p][b] = IF p = o /\ b = a THEN x ELSE att[p][b]
      BY <3>2, <3>3
    <3>6. agreed' = agreed \/ agreed' = agreed \cup {<<o, x>>}
      <4>1. \A e \in agreed : e \in agreed'
        BY <3>3, <3>5
      <4>2. \A e \in agreed' : e \in agreed \/ e = <<o, x>>
        BY <3>5
      <4> QED  BY <4>1, <4>2
    <3>7. CASE agreed' = agreed
      BY <3>1, <3>7 DEF Life!lifeVars
    <3>8. CASE agreed' = agreed \cup {<<o, x>>}
      BY <3>1, <3>4, <3>8 DEF Life!Agree, Life!Next
    <3> QED  BY <3>6, <3>7, <3>8
  <2>5. ASSUME NEW o \in Offers, SendOffer(o) \/ Expire(o)
        PROVE  Life!Next \/ UNCHANGED Life!lifeVars
    <3>1. CASE SendOffer(o)
      BY <3>1, <1>u DEF SendOffer, bitcoin
    <3>2. CASE Expire(o)
      <4>1. Life!Expire(o)
        BY <3>2 DEF Expire, Life!Expire, storage, messages, bitcoin
      <4> QED  BY <4>1 DEF Life!Next
    <3> QED  BY <2>5, <3>1, <3>2
  <2>6. ASSUME Stabilise \/ \E w \in late : LandLate(w)
        PROVE  Life!Next \/ UNCHANGED Life!lifeVars
    BY <2>6, <1>u DEF Stabilise, LandLate, messages, bitcoin
  <2> QED  BY <1>3, <2>1, <2>2, <2>3, <2>4, <2>5, <2>6 DEF Environment
<1>4. CASE UNCHANGED vars
  BY <1>4, <1>u DEF vars
<1> QED  BY <1>1, <1>2, <1>3, <1>4 DEF Next

\* The router keeps the life of every contract: one payout, by the CET all
\* attestors agree on or by a refund after the lock time, of bitcoin it has
\* signed for, and reports of what has happened (close_contract, check_refund,
\* periodic_check of main.rs).
THEOREM LifeImplemented == Spec => ImplementsContractLife
<1>1. Init => Life!Init
  BY ConstantsAssumption DEF Init, Life!Init
<1>2. LifeInv /\ [Next]_vars => [Life!Next]_(Life!lifeVars)
  BY LifeStep
<1> QED  BY <1>1, <1>2, LifeInvariance, PTL
         DEF Spec, ImplementsContractLife, Life!Spec
=============================================================================
