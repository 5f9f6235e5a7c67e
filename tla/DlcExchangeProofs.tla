------------------------- MODULE DlcExchangeProofs -------------------------
(***************************************************************************)
(* The composition argument: the router's part of the system is a          *)
(* behaviour of RouterWallet and the page's part one of WasmWallet, so     *)
(* that what is proved of each holds of both together; what is left to     *)
(* prove is what each side learns from the other.                          *)
(***************************************************************************)
EXTENDS DlcExchange, RouterWalletProofs

PageProofs == INSTANCE WasmWalletProofs
                  WITH tmp <- pageTmp, fin <- pageFin, check <- pageCheck,
                       buried <- Buried, Checkers <- PageChecks

-----------------------------------------------------------------------------
\* The router half: every step is one of RouterWallet, or leaves it alone.
THEOREM ImplementsRouter == ExchangeSpec => Spec
<1>1. ExchangeInit => Init
  BY DEF ExchangeInit
<1>2. [ExchangeNext]_<<vars, pageVars>> => [Next]_vars
  BY DEF ExchangeNext, RouterStep, PageStep
<1>3. QED
  BY <1>1, <1>2, PTL DEF ExchangeSpec, Spec

\* With the page in place of the accepting party, every contract still has the
\* life its parties were promised (close_contract, check_refund).
THEOREM ExchangeLife == ExchangeSpec => ImplementsContractLife
BY ImplementsRouter, LifeImplemented, PTL

\* How the confirmations of a funding transaction change.
LEMMA FundStep ==
    ASSUME [Next]_vars, fund' # fund
    PROVE  \E c \in Contracts :
              \/ /\ fund[c] < NB_CONFIRMATIONS
                 /\ fund' = [fund EXCEPT ![c] = @ + 1]
              \/ /\ fund[c] \in 1 .. NB_CONFIRMATIONS - 1
                 /\ fund' = [fund EXCEPT ![c] = 0]
<1>1. \E c \in Contracts : MineFund(c) \/ ReorgFund(c)
  BY DEF Next, vars, CheckerStep, CancelCheck, StartCheck, ListContracts,
         EndPass, CheckSignedContract, CheckConfirmedContract,
         CloseContractConfirmations, CloseContractSend, CheckRefundTime,
         CheckRefundConfirmations, CheckRefundSend, CheckPreclosedContract,
         UpdateChecked, LookupAffected, EndLookup, SetStatusFunded,
         PostCloseDlc, EndCheck, AcceptorStep, CancelAccept, OnAcceptMessage,
         AcceptFailOnError, DeleteOffered, UpdateSigned, CreateSigned,
         Environment, MineSpend, ReorgSpend, AcceptorRefund, Attest, SendOffer,
         Expire, LandLate, Stabilise, bitcoin
<1>2. QED
  BY <1>1 DEF MineFund, ReorgFund

\* For the page the router's Bitcoin only ever buries what the page has sent.
LEMMA BuriedStep ==
    ASSUME TypeOK, RouterStep
    PROVE  Buried' = Buried \/ \E c \in sent \cap Contracts : Buried' = Buried \cup {c}
<1> USE ConstantsAssumption DEF Buried, EnoughConfirmations
<1>t. fund \in [Contracts -> 0 .. NB_CONFIRMATIONS] /\ NB_CONFIRMATIONS \in Nat \ {0}
  BY DEF TypeOK
<1>1. CASE fund' = fund
  BY <1>1
<1>2. ASSUME NEW c \in Contracts, fund[c] < NB_CONFIRMATIONS,
             fund' = [fund EXCEPT ![c] = @ + 1]
      PROVE  Buried' = Buried \/ (c \in sent /\ Buried' = Buried \cup {c})
  <2>1. c \in sent
    BY <1>2, <1>t DEF RouterStep
  <2>2. QED
    BY <1>2, <1>t, <2>1
<1>3. ASSUME NEW c \in Contracts, fund[c] \in 1 .. NB_CONFIRMATIONS - 1,
             fund' = [fund EXCEPT ![c] = 0]
      PROVE  Buried' = Buried
  BY <1>3, <1>t
<1>4. QED
  BY <1>1, <1>2, <1>3, FundStep DEF RouterStep

\* The page half: what the router does to Bitcoin is what WasmWallet expects
\* of miners, and the rest of the router does not touch the page.
THEOREM PageImplemented == ExchangeSpec => ImplementsPage
<1>1. ExchangeInit => Page!Init
  BY DEF ExchangeInit
<1>2. TypeOK /\ [ExchangeNext]_<<vars, pageVars>> => [Page!Next]_Page!vars
  <2> SUFFICES ASSUME TypeOK, [ExchangeNext]_<<vars, pageVars>>
               PROVE  [Page!Next]_Page!vars
    OBVIOUS
  <2>1. CASE RouterStep
    <3>1. UNCHANGED pageVars
      BY <2>1 DEF RouterStep
    <3>2. CASE Buried' = Buried
      BY <3>1, <3>2
         DEF pageVars, Page!vars, Page!rows, Page!caches, Page!answers,
             Page!bitcoin
    <3>3. ASSUME NEW c \in sent \cap Contracts, Buried' = Buried \cup {c}
          PROVE  Page!Next
      <4>1. Page!Bury(c)
        BY <3>1, <3>3
           DEF pageVars, Page!Bury, Page!rows, Page!caches, Page!answers
      <4>2. QED
        BY <4>1 DEF Page!Next
    <3>4. QED
      BY <2>1, <3>2, <3>3, BuriedStep
  <2>2. CASE PageStep
    BY <2>2 DEF PageStep
  <2>3. CASE UNCHANGED <<vars, pageVars>>
    BY <2>3 DEF vars, pageVars, Buried, Page!vars, Page!rows, Page!caches,
                Page!answers, Page!bitcoin
  <2>4. QED
    BY <2>1, <2>2, <2>3 DEF ExchangeNext
<1>3. QED
  BY <1>1, <1>2, ImplementsRouter, TypeCorrect, PTL
     DEF ExchangeSpec, ImplementsPage, Page!Spec

-----------------------------------------------------------------------------
\* WasmWalletProofs speaks of the same page, with the same assumptions.
LEMMA SameAssumptions == PageProofs!ConstantsAssumption
BY PageAssumption DEF Page!ConstantsAssumption, PageProofs!ConstantsAssumption

LEMMA SamePage == ImplementsPage => PageProofs!Spec
<1>1. Page!Init => PageProofs!Init
  BY DEF Page!Init, PageProofs!Init, Page!IdleCall, PageProofs!IdleCall,
         Page!IdleCheck, PageProofs!IdleCheck
<1>2. [Page!Next]_Page!vars => [PageProofs!Next]_PageProofs!vars
  BY DEF Page!Next, PageProofs!Next, Page!vars, PageProofs!vars, Page!rows,
         PageProofs!rows, Page!caches, PageProofs!caches, Page!answers,
         PageProofs!answers, Page!bitcoin, PageProofs!bitcoin,
         Page!CallStep, PageProofs!CallStep, Page!CheckStep,
         PageProofs!CheckStep, Page!OnOfferMessage,
         PageProofs!OnOfferMessage, Page!MayAccept, PageProofs!MayAccept,
         Page!CreateOffered, PageProofs!CreateOffered,
         Page!AcceptContractOffer, PageProofs!AcceptContractOffer,
         Page!GetUtxosForAmount, PageProofs!GetUtxosForAmount,
         Page!GetTransactions, PageProofs!GetTransactions,
         Page!DeleteTemporary, PageProofs!DeleteTemporary, Page!UpdateRow,
         PageProofs!UpdateRow, Page!InsertRow, PageProofs!InsertRow,
         Page!StoreUpdate, PageProofs!StoreUpdate, Page!StoreCreate,
         PageProofs!StoreCreate, Page!Stored, PageProofs!Stored,
         Page!OnSignMessage, PageProofs!OnSignMessage,
         Page!SignFailOnError, PageProofs!SignFailOnError,
         Page!SendFunding, PageProofs!SendFunding, Page!SendTransaction,
         PageProofs!SendTransaction, Page!FindSigned,
         PageProofs!FindSigned, Page!FetchUtxos, PageProofs!FetchUtxos,
         Page!FetchTx, PageProofs!FetchTx, Page!SetUtxos,
         PageProofs!SetUtxos, Page!RejectOffer, PageProofs!RejectOffer,
         Page!JsContractId, PageProofs!JsContractId, Page!ContractIdRead,
         PageProofs!ContractIdRead, Page!ListSigned, PageProofs!ListSigned,
         Page!CheckSignedContract, PageProofs!CheckSignedContract,
         Page!ConfirmRow, PageProofs!ConfirmRow, Page!Reload,
         PageProofs!Reload, Page!Bury, PageProofs!Bury,
         Page!SpendElsewhere, PageProofs!SpendElsewhere, Page!Return,
         PageProofs!Return, Page!Goto, PageProofs!Goto, Page!IdleCall,
         PageProofs!IdleCall, Page!IdleCheck, PageProofs!IdleCheck
<1>3. QED
  BY <1>1, <1>2, PTL DEF ImplementsPage, Page!Spec, PageProofs!Spec

\* A Sign message that the page acts on is one the router handed out, and so
\* is the contract of every funding transaction that was sent.
SentIsSigned ==
    /\ sent \subseteq signed
    /\ \A h \in Calls : call[h].write = "Signed" => call[h].cur \in signed

\* The router never takes a Sign message back.
LEMMA SignedGrows ==
    ASSUME [Next]_vars
    PROVE  signed \subseteq signed'
BY DEF Next, vars, CheckerStep, CancelCheck, StartCheck, ListContracts,
       EndPass, CheckSignedContract, CheckConfirmedContract,
       CloseContractConfirmations, CloseContractSend, CheckRefundTime,
       CheckRefundConfirmations, CheckRefundSend, CheckPreclosedContract,
       UpdateChecked, LookupAffected, EndLookup, SetStatusFunded,
       PostCloseDlc, EndCheck, AcceptorStep, CancelAccept, OnAcceptMessage,
       AcceptFailOnError, DeleteOffered, UpdateSigned, CreateSigned, ReturnSign,
       Environment, MineFund, ReorgFund, MineSpend, ReorgSpend, AcceptorRefund,
       Attest, SendOffer, Expire, LandLate, Stabilise, messages

LEMMA SentAreSigned == ExchangeSpec => []SentIsSigned
<1>1. ExchangeInit => SentIsSigned
  BY DEF ExchangeInit, Page!Init, Page!IdleCall, SentIsSigned
<1>2. ASSUME SentIsSigned, PageProofs!IInv, [ExchangeNext]_<<vars, pageVars>>,
             [PageProofs!Next]_PageProofs!vars
      PROVE  SentIsSigned'
  <2>1. CASE RouterStep
    BY <1>2, <2>1, SignedGrows DEF RouterStep, SentIsSigned, pageVars
  <2>2. CASE PageStep
    <3>1. /\ signed' = signed
          /\ \A h \in Calls : call'[h].write = "Signed" => call'[h].cur \in signed
      BY <2>2 DEF PageStep, vars
    <3>2. CASE sent' = sent
      BY <1>2, <3>1, <3>2 DEF SentIsSigned
    <3>3. CASE sent' # sent
      <4>1. PICK h \in Calls : /\ call[h].pc = "send"
                               /\ sent' = sent \cup {call[h].cur}
        BY <1>2, <3>3, SameAssumptions, PageProofs!SentStep
      <4>2. call[h].write = "Signed"
        BY <1>2, <4>1 DEF PageProofs!IInv, PageProofs!CallFacts
      <4>3. QED
        BY <1>2, <3>1, <4>1, <4>2 DEF SentIsSigned
    <3>4. QED
      BY <3>2, <3>3
  <2>3. CASE UNCHANGED <<vars, pageVars>>
    BY <1>2, <2>3 DEF SentIsSigned, vars, pageVars
  <2>4. QED
    BY <1>2, <2>1, <2>2, <2>3 DEF ExchangeNext
<1>3. PageProofs!Spec => []PageProofs!IInv
  BY SameAssumptions, PageProofs!Invariance
<1>4. ExchangeSpec => []PageProofs!IInv /\ [][PageProofs!Next]_PageProofs!vars
  BY PageImplemented, SamePage, <1>3, PTL DEF PageProofs!Spec
<1>5. QED
  BY <1>1, <1>2, <1>4, PTL DEF ExchangeSpec

\* The funding of a contract is never sent before, or without, both parties
\* holding its row: the router by SignedContractsAreStored, the page by
\* FundingIsRecorded, and the two are joined by what they say to each other.
THEOREM BothSidesHold == ExchangeSpec => []FundedOnBothSides
<1>1. /\ SentIsSigned /\ SignedContractsAreStored
      /\ PageProofs!FundingIsRecorded
      => FundedOnBothSides
  BY DEF SentIsSigned, SignedContractsAreStored, PageProofs!FundingIsRecorded,
         FundedOnBothSides
<1>2. PageProofs!Spec => []PageProofs!FundingIsRecorded
  BY SameAssumptions, PageProofs!FundingRecorded
<1>3. ExchangeSpec => []PageProofs!FundingIsRecorded
  BY PageImplemented, SamePage, <1>2, PTL
<1>4. ExchangeSpec => []SignedContractsAreStored
  BY ImplementsRouter, SignedStored, PTL
<1>5. QED
  BY <1>1, <1>3, <1>4, SentAreSigned, PTL
=============================================================================
