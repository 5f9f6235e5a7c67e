----------------------------- MODULE WasmWallet -----------------------------
(***************************************************************************)
(* The wasm wallet: the accepting party of a DLC, a library in a web page. *)
(* It turns an offer into an accept message, verifies the Sign message     *)
(* that answers it, broadcasts the funding transaction, and follows the    *)
(* funded contracts.  Its rows are in the storage API; the coins it may    *)
(* spend are in two caches of the page: the Esplora provider's chain_data  *)
(* and the list of the JSInterfaceWallet.  JavaScript runs one callback at *)
(* a time, but calls of the page interleave at every await.                *)
(*                                                                         *)
(* A contract is one way to accept an offer: a choice of inputs (InputsOf) *)
(* and of random serial ids, which decide the funding transaction and so   *)
(* the final contract id.  The passes of periodic_check after the first    *)
(* are those of RouterWallet.                                              *)
(***************************************************************************)
EXTENDS Integers

CONSTANTS
    Offers,      \* temporary contract ids
    Contracts,   \* final contract ids
    Utxos,       \* the outputs of the wallet's address
    OfferOf,     \* the offer a contract accepts
    InputsOf,    \* the outputs its funding transaction spends
    Invalid,     \* contracts whose Sign message does not verify
    Calls,       \* concurrent accept_offer and countersign_and_broadcast
    Refreshers,  \* concurrent get_wallet_balance
    Checkers,    \* concurrent periodic_check
    NoContract,
    Unreliable   \* may remote calls fail?

ASSUME ConstantsAssumption ==
    /\ OfferOf \in [Contracts -> Offers]
    /\ InputsOf \in [Contracts -> (SUBSET Utxos) \ {{}}]
    /\ Invalid \subseteq Contracts
    /\ NoContract \notin Contracts
    /\ Unreliable \in BOOLEAN

VARIABLES
    tmp,       \* storage: the row under a temporary id
    fin,       \* storage: the row under a final id
    call,      \* calls in progress
    refresh,   \* get_wallet_balance: raw transactions still to be fetched
    check,     \* periodic_check in progress
    cache,     \* chain_data.utxos
    known,     \* chain_data.txs, as the outputs they have
    coins,     \* the utxos of JSInterfaceWallet
    accepted,  \* contracts whose accept message was returned
    funded,    \* contracts whose funding txid was returned
    rejected,  \* offers for which reject_offer returned Ok
    sent,      \* Bitcoin: funding transactions in the mempool or a block
    buried,    \* Bitcoin: those with NB_CONFIRMATIONS
    spent      \* Bitcoin: outputs spent, here or by another wallet

rows == <<tmp, fin>>
caches == <<cache, known, coins>>
answers == <<accepted, funded, rejected>>
bitcoin == <<sent, buried, spent>>
vars == <<rows, call, refresh, check, caches, answers, bitcoin>>

IdleCall == [pc |-> "idle", offer |-> NoContract, cur |-> NoContract,
             write |-> "None"]
Call == [pc    : {"idle", "create", "load", "delete", "update", "insert",
                  "send", "find", "fail"},
         offer : Offers \cup {NoContract},
         cur   : Contracts \cup {NoContract},
         write : {"None", "Accepted", "Signed"}]
IdleCheck == [todo |-> {}, cur |-> NoContract]
Check == [todo : SUBSET Contracts, cur : Contracts \cup {NoContract}]

Init ==
    /\ tmp = [o \in Offers |-> "None"]
    /\ fin = [c \in Contracts |-> "None"]
    /\ call = [h \in Calls |-> IdleCall]
    /\ refresh = [r \in Refreshers |-> {}]
    /\ check = [k \in Checkers |-> IdleCheck]
    /\ cache = {} /\ known = {} /\ coins = {}
    /\ accepted = {} /\ funded = {} /\ rejected = {}
    /\ sent = {} /\ buried = {} /\ spent = {}

-----------------------------------------------------------------------------
(***************************************************************************)
(* The storage API and the Bitcoin node.  ok is what the caller sees; a    *)
(* call may fail before it reaches the server or after it took effect.     *)
(***************************************************************************)

\* PUT /contracts: 404 when no row has this id.
StoreUpdate(c, state, ok) ==
    \/ /\ fin[c] # "None"
       /\ fin' = [fin EXCEPT ![c] = state]
       /\ ok \/ Unreliable
    \/ /\ ~ok
       /\ fin[c] = "None" \/ Unreliable
       /\ UNCHANGED fin

\* POST /contracts: the (key, uuid) index refuses a second row.
StoreCreate(c, state, ok) ==
    \/ /\ fin[c] = "None"
       /\ fin' = [fin EXCEPT ![c] = state]
       /\ ok \/ Unreliable
    \/ /\ ~ok
       /\ fin[c] # "None" \/ Unreliable
       /\ UNCHANGED fin

\* Mutant: the broadcast is not awaited.
SendUnreported(c, ok) ==
    \/ /\ InputsOf[c] \cap spent = {}
       /\ sent' = sent \cup {c} /\ spent' = spent \cup InputsOf[c]
    \/ UNCHANGED <<sent, spent>>

\* The node takes a transaction that is in its mempool already; it refuses
\* one that is in a block, or with an input that another one spends.
SendTransaction(c, ok) ==
    \/ /\ InputsOf[c] \cap spent = {} \/ c \in sent \ buried
       /\ sent' = sent \cup {c} /\ spent' = spent \cup InputsOf[c]
       /\ ok \/ Unreliable
    \/ /\ ~ok
       /\ (InputsOf[c] \cap spent # {} /\ c \notin sent \ buried) \/ Unreliable
       /\ UNCHANGED <<sent, spent>>

\* Call h fails with an error, or ends.
Return(h) == call' = [call EXCEPT ![h] = IdleCall]
Goto(h, pc) == call' = [call EXCEPT ![h].pc = pc]

-----------------------------------------------------------------------------
(***************************************************************************)
(* get_wallet_balance.                                                     *)
(***************************************************************************)

\* Mutant: the list is handed over before its transactions are fetched.
SetUtxosEarly(r, rest) ==
    /\ refresh' = [refresh EXCEPT ![r] = rest]
    /\ coins' = cache'

\* Refresher r still has to fetch rest.  After the last one there is no
\* further await: set_utxos copies whatever get_utxos finds in chain_data.
SetUtxos(r, rest) ==
    /\ refresh' = [refresh EXCEPT ![r] = rest]
    /\ coins' = IF rest = {} THEN cache' ELSE coins

\* refresh_chain_data, GET address/utxo: what the mempool leaves unspent.
FetchUtxos(r) ==
    /\ refresh[r] = {}
    /\ cache' = Utxos \ spent
    /\ SetUtxos(r, cache')
    /\ UNCHANGED <<rows, call, check, known, answers, bitcoin>>

\* refresh_chain_data, GET tx/../raw: an error ends it, coins is not set.
FetchTx(r) ==
    /\ UNCHANGED cache
    /\ \E u \in refresh[r] :
          \/ /\ known' = known \cup {u}
             /\ SetUtxos(r, refresh[r] \ {u})
          \/ /\ Unreliable
             /\ refresh' = [refresh EXCEPT ![r] = {}]
             /\ UNCHANGED <<known, coins>>
    /\ UNCHANGED <<rows, call, check, answers, bitcoin>>

-----------------------------------------------------------------------------
(***************************************************************************)
(* accept_offer.                                                           *)
(***************************************************************************)

\* The page accepts an offer again only after an error.
MayAccept(o) ==
    /\ \A c \in accepted : OfferOf[c] # o
    /\ \A h \in Calls : call[h].offer # o

\* on_offer_message, first call: any row with this id is an error.
OnOfferMessage(h, o) ==
    /\ call[h].pc = "idle"
    /\ MayAccept(o)
    /\ tmp[o] = "None"
    /\ call' = [call EXCEPT ![h].pc = "create", ![h].offer = o]
    /\ UNCHANGED <<rows, refresh, check, caches, answers, bitcoin>>

\* on_offer_message, second call: POST of the offered row.
CreateOffered(h) ==
    LET o == call[h].offer IN
    /\ call[h].pc = "create"
    /\ \/ /\ tmp[o] = "None"
          /\ tmp' = [tmp EXCEPT ![o] = "Offered"]
          /\ Goto(h, "load") \/ (Unreliable /\ Return(h))
       \/ /\ tmp[o] # "None" \/ Unreliable
          /\ Return(h)
          /\ UNCHANGED tmp
    /\ UNCHANGED <<fin, refresh, check, caches, answers, bitcoin>>

\* Mutant: the offer's id in the place of the contract's.
AcceptUnderTemporaryId(h) ==
    /\ call[h].pc = "load"
    /\ call' = [call EXCEPT ![h].pc = "delete", ![h].cur = call[h].offer,
                            ![h].write = "Accepted"]
    /\ UNCHANGED <<rows, refresh, check, caches, answers, bitcoin>>

\* The contracts that coin selection may lead to: it chooses among the
\* wallet's coins and reserves none of them.
GetUtxosForAmount(o) ==
    {c \in Contracts : OfferOf[c] = o /\ InputsOf[c] \subseteq coins}

\* Those whose inputs' transactions are in chain_data.
GetTransactions(cs) == {c \in cs : InputsOf[c] \subseteq known}

\* accept_contract_offer: the row must be Offered, coins must be found, and
\* the transaction of each.  An error leaves the offered row where it is.
AcceptContractOffer(h) ==
    LET o == call[h].offer
        selectable == GetUtxosForAmount(o)
        usable == GetTransactions(selectable)
    IN
    /\ call[h].pc = "load"
    /\ \/ \E c \in usable :
             /\ tmp[o] = "Offered"
             /\ call' = [call EXCEPT ![h].pc = "delete", ![h].cur = c,
                                     ![h].write = "Accepted"]
       \/ /\ \/ tmp[o] # "Offered"
             \/ selectable = {}
             \/ usable # selectable
             \/ Unreliable
          /\ Return(h)
    /\ UNCHANGED <<rows, refresh, check, caches, answers, bitcoin>>

\* update_contract(Accepted or Signed): its delete of the temporary row, the
\* result of which is ignored.
DeleteTemporary(h) ==
    LET o == OfferOf[call[h].cur] IN
    /\ call[h].pc = "delete"
    /\ \/ tmp' = [tmp EXCEPT ![o] = "None"]
       \/ Unreliable /\ UNCHANGED tmp
    /\ Goto(h, "update")
    /\ UNCHANGED <<fin, refresh, check, caches, answers, bitcoin>>

\* The row is stored: accept_offer returns its message, on_sign_message goes
\* on to the broadcast.
Stored(h) ==
    \/ /\ call[h].write = "Accepted"
       /\ accepted' = accepted \cup {call[h].cur}
       /\ Return(h)
    \/ /\ call[h].write = "Signed"
       /\ Goto(h, "send")
       /\ UNCHANGED accepted

\* update_contract: PUT, on any error followed by a POST.
UpdateRow(h) ==
    /\ call[h].pc = "update"
    /\ \/ StoreUpdate(call[h].cur, call[h].write, TRUE) /\ Stored(h)
       \/ /\ StoreUpdate(call[h].cur, call[h].write, FALSE)
          /\ Goto(h, "insert")
          /\ UNCHANGED accepted
    /\ UNCHANGED <<tmp, refresh, check, caches, funded, rejected, bitcoin>>

InsertRow(h) ==
    /\ call[h].pc = "insert"
    /\ \/ StoreCreate(call[h].cur, call[h].write, TRUE) /\ Stored(h)
       \/ /\ StoreCreate(call[h].cur, call[h].write, FALSE)
          /\ Return(h)
          /\ UNCHANGED accepted
    /\ UNCHANGED <<tmp, refresh, check, caches, funded, rejected, bitcoin>>

-----------------------------------------------------------------------------
(***************************************************************************)
(* countersign_and_broadcast and reject_offer.                             *)
(***************************************************************************)

\* Mutant: the Sign message is not checked against the row's state.
OnSignInAnyState(h, c) ==
    /\ call[h].pc = "idle" /\ c \in accepted /\ fin[c] # "None"
    /\ call' = [call EXCEPT
                  ![h].pc = IF fin[c] = "Accepted" THEN "delete" ELSE "fail",
                  ![h].cur = c, ![h].write = "Signed"]
    /\ UNCHANGED <<rows, refresh, check, caches, answers, bitcoin>>

\* on_sign_message: the row must be Accepted; a message that does not verify
\* goes to sign_fail_on_error.
OnSignMessage(h, c) ==
    /\ call[h].pc = "idle"
    /\ c \in accepted
    /\ fin[c] = "Accepted"
    /\ call' = [call EXCEPT
                  ![h].pc = IF c \in Invalid THEN "fail" ELSE "delete",
                  ![h].cur = c, ![h].write = "Signed"]
    /\ UNCHANGED <<rows, refresh, check, caches, answers, bitcoin>>

\* sign_fail_on_error: the error is returned whether or not it is stored.
SignFailOnError(h) ==
    /\ call[h].pc = "fail"
    /\ \E ok \in BOOLEAN : StoreUpdate(call[h].cur, "FailedSign", ok)
    /\ Return(h)
    /\ UNCHANGED <<tmp, refresh, check, caches, answers, bitcoin>>

\* The funding transaction goes out after the row is Signed; a failure is
\* returned, and OnSignMessage refuses a second attempt.
SendFunding(h) ==
    /\ call[h].pc = "send"
    /\ \/ SendTransaction(call[h].cur, TRUE) /\ Goto(h, "find")
       \/ SendTransaction(call[h].cur, FALSE) /\ Return(h)
    /\ UNCHANGED <<rows, refresh, check, caches, answers, buried>>

\* The txid is read back from the signed rows: an error when a check has
\* made the row Confirmed by then.
FindSigned(h) ==
    /\ call[h].pc = "find"
    /\ \/ fin[call[h].cur] = "Signed" /\ funded' = funded \cup {call[h].cur}
       \/ (fin[call[h].cur] # "Signed" \/ Unreliable) /\ UNCHANGED funded
    /\ Return(h)
    /\ UNCHANGED <<rows, refresh, check, caches, accepted, rejected, bitcoin>>

\* The id that get_contracts shows is the hexadecimal form of a ContractId;
\* ContractId::read takes the bytes of its argument as they are.
JsContractId(id) == [hex |-> id]
ContractIdRead(str) == [bytes |-> str]

\* reject_offer of an id the page was shown: a row that is not found, or not
\* Offered, is answered with Ok.
RejectOffer(o) ==
    /\ tmp[o] = "Offered"
    /\ tmp' = [i \in Offers |->
                 IF ContractIdRead(JsContractId(o)) = i /\ tmp[i] = "Offered"
                 THEN "Rejected" ELSE tmp[i]]
    /\ rejected' = rejected \cup {o}
    /\ UNCHANGED <<fin, call, refresh, check, caches, accepted, funded, bitcoin>>

-----------------------------------------------------------------------------
(***************************************************************************)
(* periodic_check, first pass: check_signed_contracts.                     *)
(***************************************************************************)
ListSigned(k) ==
    /\ check[k] = IdleCheck
    /\ check' = [check EXCEPT ![k].todo = {c \in Contracts : fin[c] = "Signed"}]
    /\ UNCHANGED <<rows, call, refresh, caches, answers, bitcoin>>

CheckSignedContract(k, c) ==
    /\ check[k].cur = NoContract
    /\ c \in check[k].todo
    /\ \/ /\ c \in buried
          /\ check' = [check EXCEPT ![k].cur = c, ![k].todo = @ \ {c}]
       \/ /\ c \notin buried \/ Unreliable
          /\ check' = [check EXCEPT ![k].todo = @ \ {c}]
    /\ UNCHANGED <<rows, call, refresh, caches, answers, bitcoin>>

ConfirmRow(k) ==
    /\ check[k].cur # NoContract
    /\ \E ok \in BOOLEAN : StoreUpdate(check[k].cur, "Confirmed", ok)
    /\ check' = [check EXCEPT ![k].cur = NoContract]
    /\ UNCHANGED <<tmp, call, refresh, caches, answers, bitcoin>>

-----------------------------------------------------------------------------
(***************************************************************************)
(* The environment.                                                        *)
(***************************************************************************)

\* The page is reloaded: caches and calls in progress are gone.
Reload ==
    /\ Unreliable
    /\ call' = [h \in Calls |-> IdleCall]
    /\ refresh' = [r \in Refreshers |-> {}]
    /\ check' = [k \in Checkers |-> IdleCheck]
    /\ cache' = {} /\ known' = {} /\ coins' = {}
    /\ UNCHANGED <<rows, answers, bitcoin>>

\* Blocks over a funding transaction.
Bury(c) ==
    /\ c \in sent
    /\ buried' = buried \cup {c}
    /\ UNCHANGED <<rows, call, refresh, check, caches, answers, sent, spent>>

\* The address belongs to a wallet that also makes ordinary payments.
SpendElsewhere(u) ==
    /\ u \notin spent
    /\ spent' = spent \cup {u}
    /\ UNCHANGED <<rows, call, refresh, check, caches, answers, sent, buried>>

CallStep(h) ==
    \/ CreateOffered(h) \/ AcceptContractOffer(h) \/ DeleteTemporary(h)
    \/ UpdateRow(h) \/ InsertRow(h) \/ SignFailOnError(h)
    \/ SendFunding(h) \/ FindSigned(h)
    \/ \E o \in Offers : OnOfferMessage(h, o)
    \/ \E c \in Contracts : OnSignMessage(h, c)

CheckStep(k) ==
    \/ ListSigned(k) \/ ConfirmRow(k)
    \/ \E c \in Contracts : CheckSignedContract(k, c)

Next ==
    \/ \E h \in Calls : CallStep(h)
    \/ \E r \in Refreshers : FetchUtxos(r) \/ FetchTx(r)
    \/ \E o \in Offers : RejectOffer(o)
    \/ \E k \in Checkers : CheckStep(k)
    \/ Reload
    \/ \E c \in Contracts : Bury(c)
    \/ \E u \in Utxos : SpendElsewhere(u)

Spec == Init /\ [][Next]_vars

-----------------------------------------------------------------------------
\* The types of the rows, the calls, the caches and Bitcoin.
TypeOK ==
    /\ tmp \in [Offers -> {"None", "Offered", "Rejected"}]
    /\ fin \in [Contracts -> {"None", "Accepted", "FailedSign", "Signed",
                              "Confirmed"}]
    /\ call \in [Calls -> Call]
    /\ refresh \in [Refreshers -> SUBSET Utxos]
    /\ check \in [Checkers -> Check]
    /\ cache \subseteq Utxos /\ known \subseteq Utxos /\ coins \subseteq Utxos
    /\ accepted \subseteq Contracts /\ funded \subseteq Contracts
    /\ rejected \subseteq Offers
    /\ sent \subseteq Contracts /\ buried \subseteq sent /\ spent \subseteq Utxos

\* What the page is told is true: an accept message is for a contract that
\* is stored, and a funding txid is of a transaction that was broadcast.
AnswersAreTrue ==
    /\ \A c \in accepted : fin[c] # "None"
    /\ funded \subseteq sent

\* A funding transaction on its way to the chain belongs to a row that
\* periodic_check follows: no retry, late step or failed Sign message of
\* the accepting side takes the row back.
FundingIsRecorded == \A c \in sent : fin[c] \in {"Signed", "Confirmed"}

\* The wallet never selects a coin whose transaction it lacks: set_utxos is
\* only reached once every raw transaction has been fetched.  (With two
\* overlapping get_wallet_balance calls it can be.)
CoinsAreKnown == coins \subseteq known

\* The comment on get_contract, whose argument reject_offer shares, is
\* "fetching one contract": an id the page was shown names its contract,
\* so that an offer for which reject_offer returned Ok is not open any more.
RejectedIsNotOffered == \A o \in rejected : tmp[o] # "Offered"
=============================================================================
