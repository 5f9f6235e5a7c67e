-------------------------- MODULE WasmWalletProofs --------------------------
(***************************************************************************)
(* Proofs about WasmWallet, for any number of offers, contracts, coins,    *)
(* overlapping calls and checks.                                           *)
(***************************************************************************)
EXTENDS WasmWallet, TLAPS

Recorded == {"Signed", "Confirmed"}
Writing == {"delete", "update", "insert"}

\* What call h relies on at each of its awaits.
CallFacts(h) ==
    LET c == call[h] IN
    /\ c.pc = "idle" => c = IdleCall
    /\ c.pc \in {"create", "load"} => c.write = "None" /\ c.offer # NoContract
    /\ c.pc \in Writing => c.write # "None"
    /\ c.pc \in {"send", "find", "fail"} => c.write = "Signed"
    /\ c.write = "Accepted" =>
          c.pc \in Writing /\ c.cur \in Contracts /\ c.offer = OfferOf[c.cur]
                           /\ c.offer # NoContract
    /\ c.write = "Signed" =>
          /\ c.offer = NoContract /\ c.cur \in accepted
          /\ c.pc = "fail" <=> c.cur \in Invalid
    /\ c.pc = "send" => fin[c.cur] \in Recorded
    /\ c.pc = "find" => c.cur \in sent

\* An offer is accepted by one call at a time, and not again afterwards.
OffersApart ==
    \A h \in Calls : call[h].offer # NoContract =>
        /\ \A c \in accepted : OfferOf[c] # call[h].offer
        /\ \A g \in Calls : call[g].offer = call[h].offer => g = h

\* The inductive invariant.  FundingIsRecorded needs that no call writes
\* Accepted, or FailedSign, over the row of a contract that was accepted and
\* verified, which is a matter of what every call has in hand.
IInv ==
    /\ TypeOK
    /\ \A h \in Calls : CallFacts(h)
    /\ OffersApart
    /\ sent \subseteq accepted \ Invalid
    /\ AnswersAreTrue
    /\ FundingIsRecorded

-----------------------------------------------------------------------------
LEMMA InitIInv == Init => IInv
BY ConstantsAssumption
   DEF Init, IInv, TypeOK, CallFacts, OffersApart, AnswersAreTrue,
       FundingIsRecorded, IdleCall, Call, IdleCheck, Check, Writing

\* What a call to the storage API does to the rows under final ids.
LEMMA StoreEffect ==
    ASSUME NEW c, NEW state, NEW ok,
           StoreUpdate(c, state, ok) \/ StoreCreate(c, state, ok)
    PROVE  fin' = fin \/ fin' = [fin EXCEPT ![c] = state]
BY DEF StoreUpdate, StoreCreate

LEMMA StoreSucceeds ==
    ASSUME NEW c, NEW state,
           StoreUpdate(c, state, TRUE) \/ StoreCreate(c, state, TRUE)
    PROVE  fin' = [fin EXCEPT ![c] = state]
BY DEF StoreUpdate, StoreCreate

-----------------------------------------------------------------------------
\* Every step keeps the types.
LEMMA StepsKeepTypes == IInv /\ [Next]_vars => TypeOK'
<1> SUFFICES ASSUME IInv, [Next]_vars PROVE TypeOK'
  OBVIOUS
<1> USE ConstantsAssumption
<1>t. TypeOK /\ \A h \in Calls : CallFacts(h)
  BY DEF IInv
<1>i. IdleCall \in Call /\ IdleCheck \in Check
  BY DEF IdleCall, Call, IdleCheck, Check
<1>f. ASSUME NEW c \in Contracts, NEW ok,
             NEW state \in {"Accepted", "FailedSign", "Signed", "Confirmed"},
             StoreUpdate(c, state, ok) \/ StoreCreate(c, state, ok)
      PROVE  fin' \in [Contracts -> {"None", "Accepted", "FailedSign", "Signed",
                                     "Confirmed"}]
  BY <1>f, <1>t, StoreEffect DEF TypeOK
<1>1. ASSUME NEW h \in Calls, CallStep(h) PROVE TypeOK'
  <2> DEFINE d == call[h]
  <2>t. /\ call \in [Calls -> Call] /\ d \in Call /\ CallFacts(h)
        /\ accepted \subseteq Contracts
    BY <1>t DEF TypeOK
  <2>r. ASSUME Return(h) PROVE call' \in [Calls -> Call]
    BY <2>r, <2>t, <1>i DEF Return
  <2>g. ASSUME NEW pc \in {"load", "update", "insert", "send", "find"}, Goto(h, pc)
        PROVE  call' \in [Calls -> Call]
    BY <2>g, <2>t DEF Goto, Call
  <2>1. CASE \E o \in Offers : OnOfferMessage(h, o)
    <3>1. call' \in [Calls -> Call]
      <4>1. PICK o \in Offers :
               call' = [call EXCEPT ![h].pc = "create", ![h].offer = o]
        BY <2>1 DEF OnOfferMessage
      <4>2. QED
        BY <4>1, <2>t DEF Call
    <3>2. QED
      BY <2>1, <3>1, <1>t DEF OnOfferMessage, TypeOK, rows, caches, answers, bitcoin
  <2>2. CASE CreateOffered(h)
    <3>1. call' \in [Calls -> Call]
      BY <2>2, <2>r, <2>g DEF CreateOffered
    <3>2. tmp' \in [Offers -> {"None", "Offered", "Rejected"}]
      BY <2>2, <1>t DEF CreateOffered, TypeOK
    <3>3. QED
      BY <2>2, <3>1, <3>2, <1>t DEF CreateOffered, TypeOK, caches, answers, bitcoin
  <2>3. CASE AcceptContractOffer(h)
    <3>1. ASSUME NEW c \in Contracts,
                 call' = [call EXCEPT ![h].pc = "delete", ![h].cur = c,
                                      ![h].write = "Accepted"]
          PROVE  call' \in [Calls -> Call]
      BY <3>1, <2>t DEF Call
    <3>2. call' \in [Calls -> Call]
      BY <2>3, <3>1, <2>r
         DEF AcceptContractOffer, GetTransactions, GetUtxosForAmount
    <3>3. QED
      BY <2>3, <3>2, <1>t
         DEF AcceptContractOffer, TypeOK, rows, caches, answers, bitcoin
  <2>4. CASE DeleteTemporary(h)
    <3>1. call' \in [Calls -> Call]
      BY <2>4, <2>g DEF DeleteTemporary
    <3>2. tmp' \in [Offers -> {"None", "Offered", "Rejected"}]
      BY <2>4, <1>t DEF DeleteTemporary, TypeOK
    <3>3. QED
      BY <2>4, <3>1, <3>2, <1>t DEF DeleteTemporary, TypeOK, caches, answers, bitcoin
  <2>5. CASE UpdateRow(h) \/ InsertRow(h)
    <3>1. d.cur \in Contracts /\ d.write \in {"Accepted", "Signed"}
      BY <2>5, <2>t DEF UpdateRow, InsertRow, CallFacts, Call, Writing
    <3>2. \E ok : StoreUpdate(d.cur, d.write, ok) \/ StoreCreate(d.cur, d.write, ok)
      BY <2>5 DEF UpdateRow, InsertRow
    <3>3. fin' \in [Contracts -> {"None", "Accepted", "FailedSign", "Signed",
                                  "Confirmed"}]
      BY <3>1, <3>2, <1>f
    <3>4. /\ Return(h) \/ Goto(h, "send") \/ Goto(h, "insert")
          /\ accepted' = accepted \/ accepted' = accepted \cup {d.cur}
      BY <2>5 DEF UpdateRow, InsertRow, Stored
    <3>5. call' \in [Calls -> Call] /\ accepted' \subseteq Contracts
      BY <3>1, <3>4, <2>t, <2>r, <2>g
    <3>6. UNCHANGED <<tmp, refresh, check, cache, known, coins, funded, rejected,
                      sent, buried, spent>>
      BY <2>5 DEF UpdateRow, InsertRow, caches, bitcoin
    <3>7. QED
      BY <3>3, <3>5, <3>6, <1>t DEF TypeOK
  <2>6. CASE \E c \in Contracts : OnSignMessage(h, c)
    <3>1. call' \in [Calls -> Call]
      <4>1. PICK c \in Contracts, pc \in {"fail", "delete"} :
               call' = [call EXCEPT ![h].pc = pc, ![h].cur = c,
                                    ![h].write = "Signed"]
        BY <2>6 DEF OnSignMessage
      <4>2. QED
        BY <4>1, <2>t DEF Call
    <3>2. QED
      BY <2>6, <3>1, <1>t DEF OnSignMessage, TypeOK, rows, caches, answers, bitcoin
  <2>7. CASE SignFailOnError(h)
    <3>1. d.cur \in Contracts
      BY <2>7, <2>t DEF SignFailOnError, CallFacts
    <3>2. fin' \in [Contracts -> {"None", "Accepted", "FailedSign", "Signed",
                                  "Confirmed"}]
      BY <2>7, <3>1, <1>f DEF SignFailOnError
    <3>3. call' \in [Calls -> Call]
      BY <2>7, <2>r DEF SignFailOnError
    <3>4. QED
      BY <2>7, <3>2, <3>3, <1>t DEF SignFailOnError, TypeOK, caches, answers, bitcoin
  <2>8. CASE SendFunding(h)
    <3>1. d.cur \in Contracts
      BY <2>8, <2>t DEF SendFunding, CallFacts
    <3>2. \/ UNCHANGED <<sent, spent>>
          \/ /\ sent' = sent \cup {d.cur}
             /\ spent' = spent \cup InputsOf[d.cur]
      BY <2>8 DEF SendFunding, SendTransaction
    <3>3. sent' \subseteq Contracts /\ buried' \subseteq sent'
          /\ spent' \subseteq Utxos
      BY <2>8, <3>1, <3>2, <1>t DEF SendFunding, TypeOK
    <3>4. call' \in [Calls -> Call]
      BY <2>8, <2>r, <2>g DEF SendFunding
    <3>5. QED
      BY <2>8, <3>3, <3>4, <1>t DEF SendFunding, TypeOK, rows, caches, answers
  <2>9. CASE FindSigned(h)
    <3>1. d.cur \in Contracts
      BY <2>9, <2>t DEF FindSigned, CallFacts
    <3>2. funded' \subseteq Contracts
      BY <2>9, <3>1, <1>t DEF FindSigned, TypeOK
    <3>3. call' \in [Calls -> Call]
      BY <2>9, <2>r DEF FindSigned
    <3>4. QED
      BY <2>9, <3>2, <3>3, <1>t DEF FindSigned, TypeOK, rows, caches, bitcoin
  <2>10. QED
    BY <1>1, <2>1, <2>2, <2>3, <2>4, <2>5, <2>6, <2>7, <2>8, <2>9 DEF CallStep
<1>2. ASSUME NEW r \in Refreshers, FetchUtxos(r) \/ FetchTx(r) PROVE TypeOK'
  <2>t. /\ refresh \in [Refreshers -> SUBSET Utxos]
        /\ cache \subseteq Utxos /\ known \subseteq Utxos /\ coins \subseteq Utxos
    BY <1>t DEF TypeOK
  <2>1. CASE FetchUtxos(r)
    BY <2>1, <2>t, <1>t
       DEF FetchUtxos, SetUtxos, TypeOK, rows, answers, bitcoin
  <2>2. CASE FetchTx(r)
    <3>1. PICK u \in refresh[r] :
             \/ /\ known' = known \cup {u} /\ SetUtxos(r, refresh[r] \ {u})
             \/ /\ refresh' = [refresh EXCEPT ![r] = {}]
                /\ UNCHANGED <<known, coins>>
      BY <2>2 DEF FetchTx
    <3>2. refresh' \in [Refreshers -> SUBSET Utxos]
      BY <3>1, <2>t DEF SetUtxos
    <3>3. cache' = cache /\ known' \subseteq Utxos /\ coins' \subseteq Utxos
      BY <2>2, <3>1, <2>t DEF FetchTx, SetUtxos
    <3>4. QED
      BY <2>2, <3>2, <3>3, <1>t DEF FetchTx, TypeOK, rows, answers, bitcoin
  <2>3. QED
    BY <1>2, <2>1, <2>2
<1>3. ASSUME NEW o \in Offers, RejectOffer(o) PROVE TypeOK'
  BY <1>3, <1>t DEF RejectOffer, TypeOK, caches, bitcoin
<1>4. ASSUME NEW k \in Checkers, CheckStep(k) PROVE TypeOK'
  <2>t. check \in [Checkers -> Check]
    BY <1>t DEF TypeOK
  <2>1. check' \in [Checkers -> Check]
    <3>1. CASE ListSigned(k)
      BY <3>1, <2>t DEF ListSigned, Check
    <3>2. CASE ConfirmRow(k)
      BY <3>2, <2>t DEF ConfirmRow, Check
    <3>3. ASSUME NEW c \in Contracts, CheckSignedContract(k, c)
          PROVE  check' \in [Checkers -> Check]
      BY <3>3, <2>t DEF CheckSignedContract, Check
    <3>4. QED
      BY <1>4, <3>1, <3>2, <3>3 DEF CheckStep
  <2>2. CASE ConfirmRow(k)
    <3>1. check[k].cur \in Contracts
      BY <2>2, <2>t DEF ConfirmRow, Check
    <3>2. fin' \in [Contracts -> {"None", "Accepted", "FailedSign", "Signed",
                                  "Confirmed"}]
      BY <2>2, <3>1, <1>f DEF ConfirmRow
    <3>3. QED
      BY <2>2, <2>1, <3>2, <1>t DEF ConfirmRow, TypeOK, caches, answers, bitcoin
  <2>3. CASE ListSigned(k) \/ \E c \in Contracts : CheckSignedContract(k, c)
    BY <2>3, <2>1, <1>t
       DEF ListSigned, CheckSignedContract, TypeOK, rows, caches, answers, bitcoin
  <2>4. QED
    BY <1>4, <2>2, <2>3 DEF CheckStep
<1>5. CASE Reload
  BY <1>5, <1>i, <1>t DEF Reload, TypeOK, rows, answers, bitcoin
<1>6. ASSUME NEW c \in Contracts, Bury(c) PROVE TypeOK'
  BY <1>6, <1>t DEF Bury, TypeOK, rows, caches, answers
<1>7. ASSUME NEW u \in Utxos, SpendElsewhere(u) PROVE TypeOK'
  BY <1>7, <1>t DEF SpendElsewhere, TypeOK, rows, caches, answers
<1>8. CASE UNCHANGED vars
  BY <1>8, <1>t DEF vars, TypeOK, rows, caches, answers, bitcoin
<1>9. QED
  BY <1>1, <1>2, <1>3, <1>4, <1>5, <1>6, <1>7, <1>8 DEF Next

-----------------------------------------------------------------------------
\* What no step undoes.  The last fact is the one a plausible bug breaks: the
\* writes of other calls to the row of a contract that was accepted.
Persists ==
    /\ accepted \subseteq accepted' /\ sent \subseteq sent'
    /\ \A c \in Contracts : fin[c] # "None" => fin'[c] # "None"
    /\ \A c \in accepted \ Invalid : fin[c] \in Recorded => fin'[c] \in Recorded

LEMMA StepsPersist == IInv /\ [Next]_vars => Persists
<1> SUFFICES ASSUME IInv, [Next]_vars PROVE Persists
  OBVIOUS
<1> USE ConstantsAssumption
<1>t. TypeOK /\ (\A h \in Calls : CallFacts(h)) /\ OffersApart
  BY DEF IInv
<1>u. ASSUME fin' = fin, accepted \subseteq accepted', sent \subseteq sent'
      PROVE  Persists
  BY <1>u DEF Persists
<1>f. ASSUME NEW d \in Contracts, NEW state \in {"Accepted", "FailedSign"} \cup Recorded,
             fin' = fin \/ fin' = [fin EXCEPT ![d] = state],
             d \in accepted \ Invalid => state \in Recorded,
             accepted \subseteq accepted', sent \subseteq sent'
      PROVE  Persists
  <2>1. fin \in [Contracts -> {"None", "Accepted", "FailedSign", "Signed", "Confirmed"}]
        /\ accepted \subseteq Contracts
    BY <1>t DEF TypeOK
  <2>2. QED
    BY <1>f, <2>1 DEF Persists, Recorded
<1>1. ASSUME NEW h \in Calls, UpdateRow(h) \/ InsertRow(h) PROVE Persists
  <2> DEFINE d == call[h].cur
             state == call[h].write
  <2>1. /\ d \in Contracts /\ state \in {"Accepted", "Signed"}
        /\ d \in accepted => state = "Signed"
    <3>1. call[h] \in Call /\ CallFacts(h) /\ call[h].pc \in Writing
      BY <1>1, <1>t DEF TypeOK, UpdateRow, InsertRow, Writing
    <3>2. CASE state = "Accepted"
      BY <3>1, <3>2, <1>t DEF CallFacts, OffersApart
    <3>3. CASE state = "Signed"
      BY <3>1, <3>3, <1>t DEF CallFacts, TypeOK
    <3>4. QED
      BY <3>1, <3>2, <3>3 DEF CallFacts, Call
  <2>2. /\ \E ok : StoreUpdate(d, state, ok) \/ StoreCreate(d, state, ok)
        /\ accepted \subseteq accepted' /\ sent \subseteq sent'
    BY <1>1 DEF UpdateRow, InsertRow, Stored, bitcoin
  <2> HIDE DEF d, state
  <2>3. fin' = fin \/ fin' = [fin EXCEPT ![d] = state]
    BY <2>2, StoreEffect
  <2>4. QED
    BY <2>1, <2>2, <2>3, <1>f DEF Recorded
<1>2. ASSUME NEW h \in Calls, SignFailOnError(h) PROVE Persists
  <2> DEFINE d == call[h].cur
  <2>1. d \in Contracts /\ d \in Invalid
    BY <1>2, <1>t DEF SignFailOnError, CallFacts, TypeOK
  <2>2. fin' = fin \/ fin' = [fin EXCEPT ![d] = "FailedSign"]
    BY <1>2, StoreEffect DEF SignFailOnError
  <2>3. UNCHANGED <<accepted, sent>>
    BY <1>2 DEF SignFailOnError, answers, bitcoin
  <2> HIDE DEF d
  <2>4. QED
    BY <2>1, <2>2, <2>3, <1>f
<1>3. ASSUME NEW k \in Checkers, ConfirmRow(k) PROVE Persists
  <2> DEFINE d == check[k].cur
  <2>1. d \in Contracts
    BY <1>3, <1>t DEF ConfirmRow, TypeOK, Check
  <2>2. fin' = fin \/ fin' = [fin EXCEPT ![d] = "Confirmed"]
    BY <1>3, StoreEffect DEF ConfirmRow
  <2>3. UNCHANGED <<accepted, sent>>
    BY <1>3 DEF ConfirmRow, answers, bitcoin
  <2> HIDE DEF d
  <2>4. QED
    BY <2>1, <2>2, <2>3, <1>f DEF Recorded
<1>4. ASSUME ~ \E h \in Calls : UpdateRow(h) \/ InsertRow(h) \/ SignFailOnError(h),
             ~ \E k \in Checkers : ConfirmRow(k)
      PROVE  fin' = fin /\ accepted \subseteq accepted' /\ sent \subseteq sent'
  BY <1>4
     DEF Next, vars, CallStep, OnOfferMessage, CreateOffered,
         AcceptContractOffer, DeleteTemporary, OnSignMessage, SendFunding,
         SendTransaction, FindSigned, FetchUtxos, FetchTx, RejectOffer,
         CheckStep, ListSigned, CheckSignedContract, Reload, Bury,
         SpendElsewhere, rows, answers, bitcoin
<1>5. QED
  BY <1>1, <1>2, <1>3, <1>4, <1>u

\* CallFacts(h) in the next state, spelled out.
FactsNext(h) ==
    LET c == call'[h] IN
    /\ c.pc = "idle" => c = IdleCall
    /\ c.pc \in {"create", "load"} => c.write = "None" /\ c.offer # NoContract
    /\ c.pc \in Writing => c.write # "None"
    /\ c.pc \in {"send", "find", "fail"} => c.write = "Signed"
    /\ c.write = "Accepted" =>
          c.pc \in Writing /\ c.cur \in Contracts /\ c.offer = OfferOf[c.cur]
                           /\ c.offer # NoContract
    /\ c.write = "Signed" =>
          /\ c.offer = NoContract /\ c.cur \in accepted'
          /\ c.pc = "fail" <=> c.cur \in Invalid
    /\ c.pc = "send" => fin'[c.cur] \in Recorded
    /\ c.pc = "find" => c.cur \in sent'

\* A call that takes no step keeps what it relies on.
LEMMA FactsStay ==
    ASSUME IInv, Persists, NEW h \in Calls, call'[h] = call[h]
    PROVE  FactsNext(h)
<1>1. CallFacts(h)
  BY DEF IInv
<1>2. call[h].pc = "send" => call[h].cur \in accepted \ Invalid
  BY <1>1 DEF CallFacts
<1>3. QED
  BY <1>1, <1>2 DEF CallFacts, FactsNext, Persists

\* A call that takes a step has what the next one needs.
LEMMA StepsInform ==
    ASSUME IInv, Persists, NEW h \in Calls, CallStep(h)
    PROVE  FactsNext(h)
<1> USE ConstantsAssumption
<1> DEFINE d == call[h]
<1>t. /\ call \in [Calls -> Call] /\ d \in Call /\ CallFacts(h)
      /\ fin \in [Contracts -> {"None", "Accepted", "FailedSign", "Signed", "Confirmed"}]
      /\ accepted \subseteq Contracts
  BY DEF IInv, TypeOK
<1>r. ASSUME Return(h) PROVE FactsNext(h)
  BY <1>r, <1>t DEF Return, FactsNext, IdleCall, Writing
<1>1. ASSUME NEW o \in Offers, OnOfferMessage(h, o) PROVE FactsNext(h)
  <2>1. /\ d = IdleCall /\ o # d.offer
        /\ call' = [call EXCEPT ![h].pc = "create", ![h].offer = o]
    BY <1>1, <1>t DEF OnOfferMessage, CallFacts, MayAccept
  <2>2. QED
    BY <2>1, <1>t DEF FactsNext, IdleCall, Call, Writing
<1>2. CASE CreateOffered(h)
  <2>1. /\ d.pc = "create"
        /\ Return(h) \/ call' = [call EXCEPT ![h].pc = "load"]
    BY <1>2 DEF CreateOffered, Goto
  <2>2. CASE call' = [call EXCEPT ![h].pc = "load"]
    BY <2>1, <2>2, <1>t DEF FactsNext, CallFacts, Call, Writing
  <2>3. QED
    BY <2>1, <2>2, <1>r
<1>3. CASE AcceptContractOffer(h)
  <2>1. d.pc = "load" /\ d.offer # NoContract
    BY <1>3, <1>t DEF AcceptContractOffer, CallFacts
  <2>2. ASSUME NEW c \in Contracts, OfferOf[c] = d.offer,
               call' = [call EXCEPT ![h].pc = "delete", ![h].cur = c,
                                    ![h].write = "Accepted"]
        PROVE  FactsNext(h)
    BY <2>1, <2>2, <1>t DEF FactsNext, Call, Writing
  <2>3. QED
    BY <1>3, <2>2, <1>r
       DEF AcceptContractOffer, GetTransactions, GetUtxosForAmount
<1>4. CASE DeleteTemporary(h)
  <2>1. d.pc = "delete" /\ call' = [call EXCEPT ![h].pc = "update"]
    BY <1>4 DEF DeleteTemporary, Goto
  <2>2. accepted' = accepted
    BY <1>4 DEF DeleteTemporary, answers
  <2>3. QED
    BY <2>1, <2>2, <1>t DEF FactsNext, CallFacts, Call, Writing
<1>5. CASE UpdateRow(h) \/ InsertRow(h)
  <2>1. d.pc \in Writing /\ accepted \subseteq accepted'
    BY <1>5 DEF UpdateRow, InsertRow, Writing, Persists
  <2>2. CASE call' = [call EXCEPT ![h].pc = "insert"]
    BY <2>1, <2>2, <1>t DEF FactsNext, CallFacts, Call, Writing
  <2>3. CASE /\ d.write = "Signed" /\ call' = [call EXCEPT ![h].pc = "send"]
             /\ fin' = [fin EXCEPT ![d.cur] = d.write]
    <3>1. d.cur \in Contracts /\ d.cur \in accepted
      BY <2>3, <1>t DEF CallFacts
    <3>2. fin'[d.cur] \in Recorded
      BY <2>3, <3>1, <1>t DEF Recorded
    <3>3. QED
      BY <2>1, <2>3, <3>1, <3>2, <1>t DEF FactsNext, CallFacts, Call, Writing
  <2>4. \/ call' = [call EXCEPT ![h].pc = "insert"]
        \/ Return(h)
        \/ /\ d.write = "Signed" /\ call' = [call EXCEPT ![h].pc = "send"]
           /\ fin' = [fin EXCEPT ![d.cur] = d.write]
    BY <1>5, StoreSucceeds DEF UpdateRow, InsertRow, Stored, Goto
  <2>5. QED
    BY <2>2, <2>3, <2>4, <1>r
<1>6. ASSUME NEW c \in Contracts, OnSignMessage(h, c) PROVE FactsNext(h)
  <2>1. /\ d = IdleCall /\ c \in accepted /\ accepted' = accepted
        /\ call' = [call EXCEPT
                      ![h].pc = IF c \in Invalid THEN "fail" ELSE "delete",
                      ![h].cur = c, ![h].write = "Signed"]
    BY <1>6, <1>t DEF OnSignMessage, CallFacts, answers
  <2>2. QED
    BY <2>1, <1>t DEF FactsNext, IdleCall, Call, Writing
<1>7. CASE SignFailOnError(h) \/ FindSigned(h)
  BY <1>7, <1>r DEF SignFailOnError, FindSigned
<1>8. CASE SendFunding(h)
  <2>1. CASE /\ call' = [call EXCEPT ![h].pc = "find"]
             /\ d.cur \in sent' /\ d.pc = "send" /\ accepted' = accepted
    BY <2>1, <1>t DEF FactsNext, CallFacts, Call, Writing
  <2>2. Return(h) \/ /\ call' = [call EXCEPT ![h].pc = "find"]
                     /\ d.cur \in sent' /\ d.pc = "send" /\ accepted' = accepted
    BY <1>8 DEF SendFunding, SendTransaction, Goto, answers
  <2>3. QED
    BY <2>1, <2>2, <1>r
<1>9. QED
  BY <1>1, <1>2, <1>3, <1>4, <1>5, <1>6, <1>7, <1>8 DEF CallStep

\* Only the calls of h change when h takes a step.
LEMMA OthersWait ==
    ASSUME NEW h \in Calls, NEW g \in Calls, g # h, CallStep(h), TypeOK
    PROVE  call'[g] = call[g]
BY DEF TypeOK, CallStep, OnOfferMessage, CreateOffered, AcceptContractOffer,
       DeleteTemporary, UpdateRow, InsertRow, Stored, OnSignMessage,
       SignFailOnError, SendFunding, FindSigned, Return, Goto

LEMMA StepsKeepFacts == IInv /\ [Next]_vars => \A h \in Calls : CallFacts(h)'
<1> SUFFICES ASSUME IInv, [Next]_vars, NEW h \in Calls PROVE FactsNext(h)
  BY DEF FactsNext, CallFacts
<1>p. Persists
  BY StepsPersist
<1>1. ASSUME NEW g \in Calls, CallStep(g) PROVE FactsNext(h)
  <2>1. CASE g = h
    BY <1>1, <1>p, <2>1, StepsInform
  <2>2. CASE g # h
    BY <1>1, <1>p, <2>2, OthersWait, FactsStay DEF IInv
  <2>3. QED
    BY <2>1, <2>2
<1>2. CASE Reload
  BY <1>2 DEF Reload, FactsNext, IdleCall, Writing
<1>3. ASSUME ~Reload, ~ \E g \in Calls : CallStep(g) PROVE call' = call
  BY <1>3 DEF Next, vars, FetchUtxos, FetchTx, RejectOffer, CheckStep,
              ListSigned, CheckSignedContract, ConfirmRow, Bury, SpendElsewhere
<1>4. QED
  BY <1>1, <1>2, <1>3, <1>p, FactsStay

-----------------------------------------------------------------------------
\* accepted grows by the contract of a call that wrote its Accepted row.
LEMMA AcceptedStep ==
    ASSUME IInv, [Next]_vars
    PROVE  \/ accepted' = accepted
           \/ \E h \in Calls :
                 /\ call[h].write = "Accepted" /\ call[h].cur \in Contracts
                 /\ accepted' = accepted \cup {call[h].cur}
                 /\ fin' = [fin EXCEPT ![call[h].cur] = "Accepted"]
                 /\ call' = [call EXCEPT ![h] = IdleCall]
<1>1. ASSUME NEW h \in Calls, UpdateRow(h) \/ InsertRow(h), accepted' # accepted
      PROVE  /\ call[h].write = "Accepted" /\ call[h].cur \in Contracts
             /\ accepted' = accepted \cup {call[h].cur}
             /\ fin' = [fin EXCEPT ![call[h].cur] = "Accepted"]
             /\ call' = [call EXCEPT ![h] = IdleCall]
  <2>1. /\ call[h].write = "Accepted"
        /\ accepted' = accepted \cup {call[h].cur}
        /\ fin' = [fin EXCEPT ![call[h].cur] = call[h].write]
        /\ call' = [call EXCEPT ![h] = IdleCall]
    BY <1>1, StoreSucceeds DEF UpdateRow, InsertRow, Stored, Return
  <2>2. CallFacts(h)
    BY DEF IInv
  <2>3. QED
    BY <2>1, <2>2 DEF CallFacts
<1>2. ASSUME ~ \E h \in Calls : UpdateRow(h) \/ InsertRow(h)
      PROVE  accepted' = accepted
  BY <1>2
     DEF Next, vars, CallStep, OnOfferMessage, CreateOffered,
         AcceptContractOffer, DeleteTemporary, OnSignMessage, SignFailOnError,
         SendFunding, FindSigned, FetchUtxos, FetchTx, RejectOffer,
         CheckStep, ListSigned, CheckSignedContract, ConfirmRow, Reload, Bury,
         SpendElsewhere, answers
<1>3. QED
  BY <1>1, <1>2

\* A call gets an offer that no call has and no contract has accepted.
LEMMA StepsKeepApart == IInv /\ [Next]_vars => OffersApart'
<1> SUFFICES ASSUME IInv, [Next]_vars, NEW h \in Calls,
                    call'[h].offer # NoContract
             PROVE  /\ \A c \in accepted' : OfferOf[c] # call'[h].offer
                    /\ \A g \in Calls : call'[g].offer = call'[h].offer => g = h
  BY DEF OffersApart
<1>t. /\ call \in [Calls -> Call] /\ OffersApart
      /\ \A g \in Calls : CallFacts(g)
  BY DEF IInv, TypeOK
<1>1. ASSUME NEW g \in Calls, NEW o \in Offers, OnOfferMessage(g, o)
      PROVE  /\ \A c \in accepted' : OfferOf[c] # call'[h].offer
             /\ \A f \in Calls : call'[f].offer = call'[h].offer => f = h
  <2>1. /\ \A c \in accepted : OfferOf[c] # o
        /\ \A f \in Calls : call[f].offer # o
        /\ call' = [call EXCEPT ![g].pc = "create", ![g].offer = o]
        /\ accepted' = accepted
    BY <1>1 DEF OnOfferMessage, MayAccept, answers
  <2>2. call'[g].offer = o /\ \A f \in Calls \ {g} : call'[f] = call[f]
    BY <2>1, <1>t DEF Call
  <2>3. QED
    BY <2>1, <2>2, <1>t DEF OffersApart
<1>2. ASSUME ~ \E g \in Calls, o \in Offers : OnOfferMessage(g, o)
      PROVE  \A g \in Calls : call'[g].offer \in {call[g].offer, NoContract}
  <2>1. ASSUME NEW g \in Calls, CallStep(g), NEW f \in Calls
        PROVE  call'[f].offer \in {call[f].offer, NoContract}
    <3>1. CASE f # g
      BY <2>1, <3>1, OthersWait DEF IInv
    <3>2. ASSUME Return(g) PROVE call'[g].offer = NoContract
      BY <3>2, <1>t DEF Return, IdleCall
    <3>3. ASSUME NEW pc, Goto(g, pc) PROVE call'[g].offer = call[g].offer
      BY <3>3, <1>t DEF Goto, Call
    <3>4. ASSUME AcceptContractOffer(g) \/ \E c \in Contracts : OnSignMessage(g, c)
          PROVE  call'[g].offer = call[g].offer \/ Return(g)
      <4>1. ASSUME NEW pc, NEW c, NEW w,
                   call' = [call EXCEPT ![g].pc = pc, ![g].cur = c, ![g].write = w]
            PROVE  call'[g].offer = call[g].offer
        BY <4>1, <1>t DEF Call
      <4>2. CASE AcceptContractOffer(g)
        <5>1. \/ Return(g)
              \/ \E c : call' = [call EXCEPT ![g].pc = "delete", ![g].cur = c,
                                            ![g].write = "Accepted"]
          BY <4>2, Zenon DEF AcceptContractOffer
        <5>2. QED
          BY <4>1, <5>1
      <4>3. CASE \E c \in Contracts : OnSignMessage(g, c)
        <5>1. PICK c \in Contracts : OnSignMessage(g, c)
          BY <4>3
        <5>2. call' = [call EXCEPT
                         ![g].pc = IF c \in Invalid THEN "fail" ELSE "delete",
                         ![g].cur = c, ![g].write = "Signed"]
          BY <5>1 DEF OnSignMessage
        <5>3. QED
          BY <4>1, <5>2
      <4>4. QED
        BY <3>4, <4>2, <4>3
    <3>5. ASSUME ~AcceptContractOffer(g), ~ \E c \in Contracts : OnSignMessage(g, c)
          PROVE  Return(g) \/ \E pc : Goto(g, pc)
      BY <1>2, <2>1, <3>5
         DEF CallStep, CreateOffered, DeleteTemporary, UpdateRow, InsertRow,
             Stored, SignFailOnError, SendFunding, FindSigned, Goto
    <3>6. QED
      BY <3>1, <3>2, <3>3, <3>4, <3>5
  <2>2. CASE Reload
    BY <2>2 DEF Reload, IdleCall
  <2>3. ASSUME ~Reload, ~ \E g \in Calls : CallStep(g) PROVE call' = call
    BY <2>3 DEF Next, vars, FetchUtxos, FetchTx, RejectOffer, CheckStep,
                ListSigned, CheckSignedContract, ConfirmRow, Bury, SpendElsewhere
  <2>4. QED
    BY <2>1, <2>2, <2>3
<1>3. ASSUME \A g \in Calls : call'[g].offer \in {call[g].offer, NoContract}
      PROVE  /\ \A c \in accepted' : OfferOf[c] # call'[h].offer
             /\ \A g \in Calls : call'[g].offer = call'[h].offer => g = h
  <2>1. call'[h].offer = call[h].offer
    BY <1>3
  <2>2. \A g \in Calls : call'[g].offer = call'[h].offer => g = h
    BY <1>3, <2>1, <1>t DEF OffersApart
  <2>3. CASE accepted' = accepted
    BY <2>1, <2>2, <2>3, <1>t DEF OffersApart
  <2>4. ASSUME NEW g \in Calls, call[g].write = "Accepted",
               accepted' = accepted \cup {call[g].cur},
               call' = [call EXCEPT ![g] = IdleCall]
        PROVE  \A c \in accepted' : OfferOf[c] # call'[h].offer
    <3>1. g # h
      BY <2>4, <1>t DEF IdleCall
    <3>2. OfferOf[call[g].cur] = call[g].offer
      BY <2>4, <1>t DEF CallFacts
    <3>3. QED
      BY <2>1, <2>4, <3>1, <3>2, <1>t DEF OffersApart
  <2>5. QED
    BY <2>2, <2>3, <2>4, AcceptedStep
<1>4. QED
  BY <1>1, <1>2, <1>3

\* The funding transaction leaves the page from "send" only.
LEMMA SentStep ==
    ASSUME [Next]_vars, sent' # sent
    PROVE  \E h \in Calls : /\ call[h].pc = "send" /\ fin' = fin
                            /\ sent' = sent \cup {call[h].cur}
<1>1. \E h \in Calls : SendFunding(h)
  BY DEF Next, vars, CallStep, OnOfferMessage, CreateOffered,
         AcceptContractOffer, DeleteTemporary, UpdateRow, InsertRow,
         OnSignMessage, SignFailOnError, FindSigned, FetchUtxos, FetchTx,
         RejectOffer, CheckStep, ListSigned, CheckSignedContract, ConfirmRow,
         Reload, Bury, SpendElsewhere, bitcoin
<1>2. QED
  BY <1>1 DEF SendFunding, SendTransaction, rows

\* What is sent was accepted, verified and stored as Signed first.
LEMMA StepsKeepSent ==
    IInv /\ [Next]_vars => /\ sent' \subseteq accepted' \ Invalid
                           /\ FundingIsRecorded'
<1> SUFFICES ASSUME IInv, [Next]_vars, NEW c \in sent'
             PROVE  c \in accepted' \ Invalid /\ fin'[c] \in Recorded
  BY DEF FundingIsRecorded, Recorded
<1>p. Persists
  BY StepsPersist
<1>t. /\ sent \subseteq accepted \ Invalid /\ \A h \in Calls : CallFacts(h)
      /\ \A d \in sent : fin[d] \in Recorded
  BY DEF IInv, FundingIsRecorded, Recorded
<1>1. CASE c \in sent
  BY <1>1, <1>p, <1>t DEF Persists
<1>2. CASE c \notin sent
  <2>1. PICK h \in Calls : call[h].pc = "send" /\ c = call[h].cur /\ fin' = fin
    BY <1>2, SentStep
  <2>2. c \in accepted \ Invalid /\ fin[c] \in Recorded
    BY <2>1, <1>t DEF CallFacts
  <2>3. QED
    BY <2>1, <2>2, <1>p DEF Persists
<1>3. QED
  BY <1>1, <1>2

\* Answers are given after the fact.
LEMMA StepsKeepAnswers == IInv /\ [Next]_vars => AnswersAreTrue'
<1> SUFFICES ASSUME IInv, [Next]_vars PROVE AnswersAreTrue'
  OBVIOUS
<1>p. Persists
  BY StepsPersist
<1>t. TypeOK /\ AnswersAreTrue /\ \A h \in Calls : CallFacts(h)
  BY DEF IInv
<1>1. ASSUME NEW c \in accepted' PROVE fin'[c] # "None"
  <2>1. CASE c \in accepted
    BY <2>1, <1>p, <1>t DEF Persists, AnswersAreTrue, TypeOK
  <2>2. CASE c \notin accepted
    <3>1. c \in Contracts /\ fin' = [fin EXCEPT ![c] = "Accepted"]
      BY <2>2, AcceptedStep
    <3>2. QED
      BY <3>1, <1>t DEF TypeOK
  <2>3. QED
    BY <2>1, <2>2
<1>2. funded' \subseteq sent'
  <2>1. ASSUME NEW h \in Calls, FindSigned(h) PROVE funded' \subseteq sent'
    BY <2>1, <1>t, <1>p DEF FindSigned, CallFacts, AnswersAreTrue, Persists
  <2>2. ASSUME ~ \E h \in Calls : FindSigned(h) PROVE funded' = funded
    BY <2>2
       DEF Next, vars, CallStep, OnOfferMessage, CreateOffered,
           AcceptContractOffer, DeleteTemporary, UpdateRow, InsertRow,
           OnSignMessage, SignFailOnError, SendFunding, FetchUtxos, FetchTx,
           RejectOffer, CheckStep, ListSigned, CheckSignedContract, ConfirmRow,
           Reload, Bury, SpendElsewhere, answers
  <2>3. QED
    BY <2>1, <2>2, <1>t, <1>p DEF AnswersAreTrue, Persists
<1>3. QED
  BY <1>1, <1>2 DEF AnswersAreTrue

-----------------------------------------------------------------------------
\* The conjunction of the facts above is inductive.
THEOREM Invariance == Spec => []IInv
<1>1. IInv /\ [Next]_vars => IInv'
  BY StepsKeepTypes, StepsKeepFacts, StepsKeepApart, StepsKeepSent,
     StepsKeepAnswers DEF IInv
<1>2. QED
  BY InitIInv, <1>1, PTL DEF Spec

\* Every variable keeps its type.
THEOREM TypeCorrect == Spec => []TypeOK
<1>1. IInv => TypeOK
  BY DEF IInv
<1>2. QED
  BY <1>1, Invariance, PTL

\* An accept message is for a stored contract, a txid for a sent transaction.
THEOREM AnswersTrue == Spec => []AnswersAreTrue
<1>1. IInv => AnswersAreTrue
  BY DEF IInv
<1>2. QED
  BY <1>1, Invariance, PTL

\* A funding transaction that was sent belongs to a row periodic_check follows.
THEOREM FundingRecorded == Spec => []FundingIsRecorded
<1>1. IInv => FundingIsRecorded
  BY DEF IInv
<1>2. QED
  BY <1>1, Invariance, PTL

-----------------------------------------------------------------------------
\* While the one refresher works, what chain_data lacks is what it has yet to
\* fetch.
RefreshIsComplete ==
    \A r \in Refreshers : refresh[r] # {} => cache \ known \subseteq refresh[r]

\* get_wallet_balance calls that do not overlap never leave the wallet with a
\* coin whose transaction it lacks.
THEOREM CoinsKnown ==
    ASSUME \A r, s \in Refreshers : r = s
    PROVE  Spec => []CoinsAreKnown
<1> DEFINE Inv == TypeOK /\ RefreshIsComplete /\ CoinsAreKnown
<1>1. Init => Inv
  BY InitIInv DEF Init, IInv, RefreshIsComplete, CoinsAreKnown
<1>2. ASSUME Inv, TypeOK', [Next]_vars PROVE Inv'
  <2>t. /\ refresh \in [Refreshers -> SUBSET Utxos]
        /\ RefreshIsComplete /\ CoinsAreKnown
    BY <1>2 DEF TypeOK
  <2>1. ASSUME NEW r \in Refreshers, FetchUtxos(r)
        PROVE  RefreshIsComplete' /\ CoinsAreKnown'
    <3>1. /\ refresh' = [refresh EXCEPT ![r] = cache'] /\ known' = known
          /\ coins' = IF cache' = {} THEN cache' ELSE coins
      BY <2>1 DEF FetchUtxos, SetUtxos
    <3>2. QED
      BY <3>1, <2>t DEF RefreshIsComplete, CoinsAreKnown
  <2>2. ASSUME NEW r \in Refreshers, FetchTx(r)
        PROVE  RefreshIsComplete' /\ CoinsAreKnown'
    <3>1. PICK u \in refresh[r] :
             \/ /\ known' = known \cup {u}
                /\ refresh' = [refresh EXCEPT ![r] = @ \ {u}]
                /\ coins' = IF refresh[r] \ {u} = {} THEN cache' ELSE coins
             \/ /\ refresh' = [refresh EXCEPT ![r] = {}]
                /\ UNCHANGED <<known, coins>>
      BY <2>2 DEF FetchTx, SetUtxos
    <3>2. cache' = cache /\ cache \ known \subseteq refresh[r]
      BY <2>2, <2>t DEF FetchTx, RefreshIsComplete
    <3>3. CASE UNCHANGED <<known, coins>> /\ refresh' = [refresh EXCEPT ![r] = {}]
      BY <3>2, <3>3, <2>t DEF RefreshIsComplete, CoinsAreKnown
    <3>4. CASE /\ known' = known \cup {u}
               /\ refresh' = [refresh EXCEPT ![r] = @ \ {u}]
               /\ coins' = IF refresh[r] \ {u} = {} THEN cache' ELSE coins
      BY <3>2, <3>4, <2>t DEF RefreshIsComplete, CoinsAreKnown
    <3>5. QED
      BY <3>1, <3>3, <3>4
  <2>3. ASSUME Reload PROVE RefreshIsComplete' /\ CoinsAreKnown'
    BY <2>3 DEF Reload, RefreshIsComplete, CoinsAreKnown
  <2>4. ASSUME ~Reload, ~ \E r \in Refreshers : FetchUtxos(r) \/ FetchTx(r)
        PROVE  UNCHANGED <<refresh, cache, known, coins>>
    BY <1>2, <2>4
       DEF Next, vars, CallStep, OnOfferMessage, CreateOffered,
           AcceptContractOffer, DeleteTemporary, UpdateRow, InsertRow,
           OnSignMessage, SignFailOnError, SendFunding, FindSigned, RejectOffer,
           CheckStep, ListSigned, CheckSignedContract, ConfirmRow, Bury,
           SpendElsewhere, caches
  <2>5. ASSUME UNCHANGED <<refresh, cache, known, coins>>
        PROVE  RefreshIsComplete' /\ CoinsAreKnown'
    BY <2>5, <2>t DEF RefreshIsComplete, CoinsAreKnown
  <2>6. QED
    BY <1>2, <2>1, <2>2, <2>3, <2>4, <2>5
<1>3. Inv => CoinsAreKnown
  OBVIOUS
<1> HIDE DEF Inv
<1>4. QED
  BY <1>1, <1>2, <1>3, TypeCorrect, PTL DEF Spec
=============================================================================
