---------------------------- MODULE RouterWallet ----------------------------
(***************************************************************************)
(* The router wallet: the offering party of every DLC.  It serves          *)
(* POST /offer, PUT /offer/accept and GET /periodic_check, keeps one row   *)
(* per contract in the storage API, watches Bitcoin through Esplora, asks  *)
(* the attestors for attestations and reports to the wallet blockchain     *)
(* interface.  Handlers run concurrently (one tokio task per request), so  *)
(* every awaited call that can observe or change shared state is a step    *)
(* of its own, and a handler keeps what it read before the await.          *)
(*                                                                         *)
(* A row is keyed by the temporary id of its offer until the accept        *)
(* message is verified, then by the final contract id.  An offer accepted  *)
(* with different inputs yields different final ids, hence OfferOf.        *)
(***************************************************************************)
EXTENDS Integers, FiniteSets

CONSTANTS
    Offers,            \* temporary contract ids, one attestor event each
    Contracts,         \* final contract ids, one per accept message
    OfferOf,           \* the offer an accept message answers
    Attestors,         \* the oracles of the manager; the threshold is all
    Outcomes,          \* attested values; each one selects its own CET
    NoTx, RefundTx,    \* no transaction, the refund transaction
    NoContract,        \* a handler that has no contract in hand
    Checkers,          \* concurrent GET /periodic_check requests
    Acceptors,         \* concurrent PUT /offer/accept requests
    NB_CONFIRMATIONS,  \* 6 in the code
    Unreliable,        \* may remote calls fail at first?
    LateStates,        \* bound: the rows whose writes may outlive the client
    MaxLate            \* bound: such writes at one time

ASSUME ConstantsAssumption ==
    /\ OfferOf \in [Contracts -> Offers]
    /\ Attestors # {}
    /\ {NoTx, RefundTx} \cap Outcomes = {}
    /\ NoTx # RefundTx
    /\ NoContract \notin Contracts
    /\ NB_CONFIRMATIONS \in Nat \ {0}
    /\ Unreliable \in BOOLEAN
    /\ MaxLate \in Nat

VARIABLES
    tmp,      \* storage: the row under an offer's temporary id
    fin,      \* storage: the row under a contract's final id
    late,     \* storage: writes to fin that were given up and may still land
    offered,  \* offers whose OfferDlc message was returned to the caller
    signed,   \* contracts whose SignDlc message was returned to the caller
    fund,     \* Bitcoin: confirmations of the funding transaction
    spend,    \* Bitcoin: the transaction that spends the funding output
    att,      \* attestors: the outcome each has attested for an event
    expired,  \* offers whose refund lock time has passed
    flaky,    \* outages, timeouts and reorganisations may still happen
    chk,      \* periodic_check handlers
    acc,      \* accept handlers
    posts     \* calls carried out by the wallet blockchain interface

storage == <<tmp, fin, late>>
bitcoin == <<fund, spend>>
messages == <<offered, signed>>
vars == <<tmp, fin, late, offered, signed, fund, spend, att, expired, flaky,
          chk, acc, posts>>

CETs == Outcomes \cup {NoTx}
Row == [state : {"None", "Signed", "Confirmed", "PreClosed", "Closed",
                 "Refunded"},
        cet   : CETs]
SpendTx == [tx : CETs \cup {RefundTx}, confs : 0 .. NB_CONFIRMATIONS]

NoRow == [state |-> "None", cet |-> NoTx]
SignedRow == [state |-> "Signed", cet |-> NoTx]
ConfirmedRow == [state |-> "Confirmed", cet |-> NoTx]
RefundedRow == [state |-> "Refunded", cet |-> NoTx]

LateWrite == [kind : {"update", "create"}, id : Contracts, row : Row]

Passes == {"Signed", "Confirmed", "PreClosed"}
ListedRow == [id : Contracts, cet : CETs]
Checker ==
    [pc       : {"idle", "list", "check", "cetConfs", "cetSend", "refundTime",
                 "refundConfs", "refundSend", "update", "lookup", "notify"},
     pass     : Passes,
     todo     : SUBSET ListedRow,              \* rows still to be checked
     cur      : Contracts \cup {NoContract},   \* the row in hand
     write    : Row,                           \* what it will be set to
     affected : SUBSET [id : Contracts, pass : Passes],
     funded   : SUBSET Contracts,              \* newly_confirmed_uuids
     closed   : SUBSET ListedRow]              \* newly_closed_uuids
Acceptor ==
    [pc : {"idle"}, cur : {NoContract}] \cup
    [pc : {"delete", "update", "create", "fail"}, cur : Contracts]
Post == [kind : {"funded", "closed"}, id : Contracts, cet : CETs]

IdleChecker ==
    [pc |-> "idle", pass |-> "Signed", todo |-> {}, cur |-> NoContract,
     write |-> NoRow, affected |-> {}, funded |-> {}, closed |-> {}]
IdleAcceptor == [pc |-> "idle", cur |-> NoContract]

Init ==
    /\ tmp = [o \in Offers |-> "None"]
    /\ fin = [c \in Contracts |-> NoRow]
    /\ late = {}
    /\ offered = {} /\ signed = {}
    /\ fund = [c \in Contracts |-> 0]
    /\ spend = [c \in Contracts |-> [tx |-> NoTx, confs |-> 0]]
    /\ att = [o \in Offers |-> [a \in Attestors |-> NoTx]]
    /\ expired = {}
    /\ flaky = Unreliable
    /\ chk = [k \in Checkers |-> IdleChecker]
    /\ acc = [h \in Acceptors |-> IdleAcceptor]
    /\ posts = {}

-----------------------------------------------------------------------------
(***************************************************************************)
(* Remote calls.  ok is what the caller sees.  While flaky, a call may     *)
(* fail before it reaches the server, after it took effect (its answer is  *)
(* lost), or before: the client has given up after 30 seconds, the request *)
(* goes on and lands when the handler has long gone on (see RowStore).     *)
(***************************************************************************)

\* A write that failed without an effect: is it still on its way?
MayLandLater(write) ==
    \/ UNCHANGED late
    \/ /\ flaky /\ write.row.state \in LateStates
       /\ Cardinality(late) < MaxLate /\ late' = late \cup {write}

\* PUT /contracts of the storage API: 404 when no row has this id.
StoreUpdate(c, row, ok) ==
    \/ /\ fin[c].state # "None"
       /\ fin' = [fin EXCEPT ![c] = row]
       /\ ok \/ flaky
       /\ UNCHANGED late
    \/ /\ ~ok
       /\ fin[c].state = "None" \/ flaky
       /\ MayLandLater([kind |-> "update", id |-> c, row |-> row])
       /\ UNCHANGED fin

\* Mutant: a refused or failed create is taken for a success.
StoreCreateUnreported(c, row, ok) ==
    \/ /\ fin[c].state = "None" /\ fin' = [fin EXCEPT ![c] = row]
       /\ UNCHANGED late
    \/ flaky /\ UNCHANGED <<fin, late>>

\* POST /contracts: the (key, uuid) index refuses a second row.
StoreCreate(c, row, ok) ==
    \/ /\ fin[c].state = "None"
       /\ fin' = [fin EXCEPT ![c] = row]
       /\ ok \/ flaky
       /\ UNCHANGED late
    \/ /\ ~ok
       /\ fin[c].state # "None" \/ flaky
       /\ MayLandLater([kind |-> "create", id |-> c, row |-> row])
       /\ UNCHANGED fin

\* A write that was given up reaches the table, or is lost after all.
LandLate(w) ==
    /\ late' = late \ {w}
    /\ \/ /\ w.kind = "create" <=> fin[w.id].state = "None"
          /\ fin' = [fin EXCEPT ![w.id] = w.row]
       \/ UNCHANGED fin
    /\ UNCHANGED <<tmp, messages, bitcoin, att, expired, flaky, chk, acc, posts>>

\* Mutant: a rejected transaction is taken for a broadcast one.
BroadcastUnreported(c, tx, ok) ==
    \/ /\ spend[c].tx \in {NoTx, tx} /\ spend[c].confs = 0
       /\ spend' = [spend EXCEPT ![c].tx = tx]
    \/ UNCHANGED spend

\* The node takes a transaction that spends an unspent funding output, or
\* that is in its mempool already; it refuses one that conflicts with
\* another spend, or that is in a block already.
Broadcast(c, tx, ok) ==
    \/ /\ spend[c].tx \in {NoTx, tx} /\ spend[c].confs = 0
       /\ spend' = [spend EXCEPT ![c].tx = tx]
       /\ ok \/ flaky
    \/ /\ ~ok
       /\ spend[c].tx \notin {NoTx, tx} \/ spend[c].confs > 0 \/ flaky
       /\ UNCHANGED spend

\* Mutant: tip height minus block height, without the block itself.
ConfirmationsOneShort(c, tx) ==
    IF spend[c].tx = tx /\ spend[c].confs > 0 THEN spend[c].confs - 1 ELSE 0

\* Esplora reports 0 for a transaction it does not know.
Confirmations(c, tx) == IF spend[c].tx = tx THEN spend[c].confs ELSE 0

\* Mutants: off by one in either direction.
EnoughConfirmationsOneShort(n) == n + 1 >= NB_CONFIRMATIONS
EnoughConfirmationsStrict(n) == n > NB_CONFIRMATIONS

EnoughConfirmations(n) == n >= NB_CONFIRMATIONS

\* Mutant: the state filter of the query is lost.
RowsInAnyState(state) ==
    {[id |-> c, cet |-> fin[c].cet] : c \in {d \in Contracts :
                                              fin[d].state # "None"}}

\* get_contracts_by_state: the rows of one state, with what is stored there.
RowsInState(state) ==
    {[id |-> c, cet |-> fin[c].cet] : c \in {d \in Contracts :
                                              fin[d].state = state}}

\* Mutant: attestors that have not attested are left out of the threshold.
AttestationsOfSome(o) ==
    LET seen == {att[o][a] : a \in Attestors} IN
    IF seen = {NoTx} THEN seen ELSE seen \ {NoTx}

\* What the attestors answer for an event, NoTx for "not attested".
Attestations(o) == {att[o][a] : a \in Attestors}

-----------------------------------------------------------------------------
(***************************************************************************)
(* POST /offer and PUT /offer/accept.                                      *)
(***************************************************************************)

\* send_offer stores the offer under a fresh temporary id as its last step.
SendOffer(o) ==
    /\ o \notin offered /\ tmp[o] = "None"
    /\ tmp' = [tmp EXCEPT ![o] = "Offered"]
    /\ \/ offered' = offered \cup {o}
       \/ flaky /\ UNCHANGED offered
    /\ UNCHANGED <<fin, late, signed, bitcoin, att, expired, flaky, chk, acc, posts>>

\* on_accept_message reads the offered row; an accept message that does not
\* verify sends the handler to accept_fail_on_error.
OnAcceptMessage(h, c) ==
    /\ acc[h].pc = "idle"
    /\ OfferOf[c] \in offered
    /\ tmp[OfferOf[c]] = "Offered"
    /\ \E pc \in {"delete", "fail"} :
          acc' = [acc EXCEPT ![h] = [pc |-> pc, cur |-> c]]
    /\ UNCHANGED <<storage, messages, bitcoin, att, expired, flaky, chk, posts>>

\* accept_fail_on_error: PUT of the FailedAccept row under the temporary id.
AcceptFailOnError(h) ==
    LET o == OfferOf[acc[h].cur] IN
    /\ acc[h].pc = "fail"
    /\ \/ tmp[o] # "None" /\ tmp' = [tmp EXCEPT ![o] = "FailedAccept"]
       \/ (tmp[o] = "None" \/ flaky) /\ UNCHANGED tmp
    /\ acc' = [acc EXCEPT ![h] = IdleAcceptor]
    /\ UNCHANGED <<fin, late, messages, bitcoin, att, expired, flaky, chk, posts>>

\* update_contract(Signed), first call: the result of the delete is ignored.
DeleteOffered(h) ==
    LET o == OfferOf[acc[h].cur] IN
    /\ acc[h].pc = "delete"
    /\ \/ tmp' = [tmp EXCEPT ![o] = "None"]
       \/ flaky /\ UNCHANGED tmp
    /\ acc' = [acc EXCEPT ![h].pc = "update"]
    /\ UNCHANGED <<fin, late, messages, bitcoin, att, expired, flaky, chk, posts>>

\* Mutant: the temporary id is recorded in place of the final one.
ReturnTemporaryId(h) ==
    /\ acc' = [acc EXCEPT ![h] = IdleAcceptor]
    /\ signed' = signed \cup {OfferOf[acc[h].cur]}

\* The handler answers with the Sign message once its row is stored.
ReturnSign(h) ==
    /\ acc' = [acc EXCEPT ![h] = IdleAcceptor]
    /\ signed' = signed \cup {acc[h].cur}

\* Second call: PUT under the final id; on any error the row is created.
UpdateSigned(h) ==
    /\ acc[h].pc = "update"
    /\ \/ StoreUpdate(acc[h].cur, SignedRow, TRUE) /\ ReturnSign(h)
       \/ /\ StoreUpdate(acc[h].cur, SignedRow, FALSE)
          /\ acc' = [acc EXCEPT ![h].pc = "create"]
          /\ UNCHANGED signed
    /\ UNCHANGED <<tmp, offered, bitcoin, att, expired, flaky, chk, posts>>

\* Third call: POST under the final id; an error here fails the request.
CreateSigned(h) ==
    /\ acc[h].pc = "create"
    /\ \/ StoreCreate(acc[h].cur, SignedRow, TRUE) /\ ReturnSign(h)
       \/ /\ StoreCreate(acc[h].cur, SignedRow, FALSE)
          /\ acc' = [acc EXCEPT ![h] = IdleAcceptor]
          /\ UNCHANGED signed
    /\ UNCHANGED <<tmp, offered, bitcoin, att, expired, flaky, chk, posts>>

-----------------------------------------------------------------------------
(***************************************************************************)
(* GET /periodic_check: Manager::periodic_check, then the notifications.   *)
(***************************************************************************)

\* Handler k goes on with the rest of its list: contract c is done.
Done(k, c) ==
    chk' = [chk EXCEPT ![k].pc = "check", ![k].cur = NoContract,
                       ![k].write = NoRow, ![k].todo = @ \ {c}]

\* Handler k takes contract c of its list to step pc, planning to write row.
Take(k, c, pc, row) ==
    chk' = [chk EXCEPT ![k].pc = pc, ![k].cur = c.id, ![k].write = row,
                       ![k].todo = @ \ {c}]

\* Handler k goes to step pc with the contract it has in hand.
Goto(k, pc) == chk' = [chk EXCEPT ![k].pc = pc]

\* The contract in hand fails or needs nothing: logged, the loop continues.
Drop(k) == chk' = [chk EXCEPT ![k].pc = "check", ![k].cur = NoContract,
                              ![k].write = NoRow]

StartCheck(k) ==
    /\ chk[k].pc = "idle"
    /\ Goto(k, "list")
    /\ UNCHANGED <<storage, messages, bitcoin, att, expired, flaky, acc, posts>>

\* Each pass lists the rows of its state.  When the list call fails,
\* Manager::periodic_check returns Err, the affected contracts of the passes
\* before are forgotten, and the request ends.
ListContracts(k) ==
    /\ chk[k].pc = "list"
    /\ \/ chk' = [chk EXCEPT ![k].pc = "check",
                             ![k].todo = RowsInState(chk[k].pass)]
       \/ flaky /\ chk' = [chk EXCEPT ![k] = IdleChecker]
    /\ UNCHANGED <<storage, messages, bitcoin, att, expired, flaky, acc, posts>>

\* The loop over one list ends; the last pass leads to the notifications.
EndPass(k) ==
    /\ chk[k].pc = "check" /\ chk[k].todo = {}
    /\ chk' = [chk EXCEPT
                 ![k].pc = IF chk[k].pass = "PreClosed" THEN "lookup" ELSE "list",
                 ![k].pass = IF chk[k].pass = "Signed" THEN "Confirmed"
                                                       ELSE "PreClosed"]
    /\ UNCHANGED <<storage, messages, bitcoin, att, expired, flaky, acc, posts>>

CheckSignedContract(k) ==
    /\ chk[k].pc = "check" /\ chk[k].pass = "Signed"
    /\ \E c \in chk[k].todo :
          \/ EnoughConfirmations(fund[c.id]) /\ Take(k, c, "update", ConfirmedRow)
          \/ (~EnoughConfirmations(fund[c.id]) \/ flaky) /\ Done(k, c)
    /\ UNCHANGED <<storage, messages, bitcoin, att, expired, flaky, acc, posts>>

\* get_closable_contract_info: every attestor must answer with an
\* attestation; an attestor that cannot be reached counts as one that has
\* not attested.  get_signed_cet fails when the attestations disagree.
CheckConfirmedContract(k) ==
    /\ chk[k].pc = "check" /\ chk[k].pass = "Confirmed"
    /\ \E c \in chk[k].todo :
          LET seen == Attestations(OfferOf[c.id]) IN
          \/ \E x \in Outcomes :
                /\ seen = {x}
                /\ Take(k, c, "cetConfs", [state |-> "PreClosed", cet |-> x])
          \/ /\ NoTx \notin seen /\ \A x \in Outcomes : seen # {x}
             /\ Done(k, c)
          \/ /\ NoTx \in seen \/ flaky
             /\ Take(k, c, "refundTime", RefundedRow)
    /\ UNCHANGED <<storage, messages, bitcoin, att, expired, flaky, acc, posts>>

\* close_contract, first call: how deep is this CET already?
CloseContractConfirmations(k) ==
    LET n == Confirmations(chk[k].cur, chk[k].write.cet) IN
    /\ chk[k].pc = "cetConfs"
    /\ \/ n < 1 /\ Goto(k, "cetSend")
       \/ n >= 1 /\ ~EnoughConfirmations(n) /\ Goto(k, "update")
       \/ /\ n >= 1 /\ EnoughConfirmations(n)
          /\ chk' = [chk EXCEPT ![k].pc = "update", ![k].write.state = "Closed"]
       \/ flaky /\ Drop(k)
    /\ UNCHANGED <<storage, messages, bitcoin, att, expired, flaky, acc, posts>>

\* close_contract, second call: an error leaves the row Confirmed, and
\* check_confirmed_contract returns before check_refund.
CloseContractSend(k) ==
    /\ chk[k].pc = "cetSend"
    /\ \/ Broadcast(chk[k].cur, chk[k].write.cet, TRUE) /\ Goto(k, "update")
       \/ Broadcast(chk[k].cur, chk[k].write.cet, FALSE) /\ Drop(k)
    /\ UNCHANGED <<storage, messages, fund, att, expired, flaky, acc, posts>>

\* Mutant: the lock time of the refund is not compared with the time.
CheckRefundTimeUnchecked(k) ==
    /\ chk[k].pc = "refundTime"
    /\ \/ Goto(k, "refundConfs")
       \/ flaky /\ Drop(k)
    /\ UNCHANGED <<storage, messages, bitcoin, att, expired, flaky, acc, posts>>

\* check_refund, first call: the time service.
CheckRefundTime(k) ==
    LET due == OfferOf[chk[k].cur] \in expired IN
    /\ chk[k].pc = "refundTime"
    /\ \/ due /\ Goto(k, "refundConfs")
       \/ (~due \/ flaky) /\ Drop(k)
    /\ UNCHANGED <<storage, messages, bitcoin, att, expired, flaky, acc, posts>>

CheckRefundConfirmations(k) ==
    LET n == Confirmations(chk[k].cur, RefundTx) IN
    /\ chk[k].pc = "refundConfs"
    /\ \/ n = 0 /\ Goto(k, "refundSend")
       \/ n # 0 /\ Goto(k, "update")
       \/ flaky /\ Drop(k)
    /\ UNCHANGED <<storage, messages, bitcoin, att, expired, flaky, acc, posts>>

CheckRefundSend(k) ==
    /\ chk[k].pc = "refundSend"
    /\ \/ Broadcast(chk[k].cur, RefundTx, TRUE) /\ Goto(k, "update")
       \/ Broadcast(chk[k].cur, RefundTx, FALSE) /\ Drop(k)
    /\ UNCHANGED <<storage, messages, fund, att, expired, flaky, acc, posts>>

\* The CET of a PreClosed row is the one stored in the listed row.
CheckPreclosedContract(k) ==
    /\ chk[k].pc = "check" /\ chk[k].pass = "PreClosed"
    /\ \E c \in chk[k].todo :
          LET n == Confirmations(c.id, c.cet) IN
          \/ /\ EnoughConfirmations(n)
             /\ Take(k, c, "update", [state |-> "Closed", cet |-> c.cet])
          \/ (~EnoughConfirmations(n) \/ flaky) /\ Done(k, c)
    /\ UNCHANGED <<storage, messages, bitcoin, att, expired, flaky, acc, posts>>

\* update_contract of a checked row.  Only a call that succeeds makes the
\* contract one of the affected ones, and a refund never does.
UpdateChecked(k) ==
    LET c == chk[k].cur IN
    /\ chk[k].pc = "update"
    /\ \/ /\ StoreUpdate(c, chk[k].write, TRUE)
          /\ chk' = [chk EXCEPT
                       ![k].pc = "check", ![k].cur = NoContract,
                       ![k].write = NoRow,
                       ![k].affected = IF chk[k].write.state = "Refunded" THEN @
                                       ELSE @ \cup {[id |-> c,
                                                     pass |-> chk[k].pass]}]
       \/ StoreUpdate(c, chk[k].write, FALSE) /\ Drop(k)
    /\ UNCHANGED <<tmp, messages, bitcoin, att, expired, flaky, acc, posts>>

\* periodic_check of main.rs reads every affected contract again and sorts it
\* by the state it finds.
LookupAffected(k) ==
    /\ chk[k].pc = "lookup"
    /\ \E e \in chk[k].affected :
          LET row == fin[e.id] IN
          \/ /\ row.state = "Confirmed"
             /\ chk' = [chk EXCEPT ![k].affected = @ \ {e},
                                   ![k].funded = @ \cup {e.id}]
          \/ /\ row.state = "PreClosed"
             /\ chk' = [chk EXCEPT
                          ![k].affected = @ \ {e},
                          ![k].closed = @ \cup {[id |-> e.id, cet |-> row.cet]}]
          \/ /\ row.state \notin {"Confirmed", "PreClosed"} \/ flaky
             /\ chk' = [chk EXCEPT ![k].affected = @ \ {e}]
    /\ UNCHANGED <<storage, messages, bitcoin, att, expired, flaky, acc, posts>>

EndLookup(k) ==
    /\ chk[k].pc = "lookup" /\ chk[k].affected = {}
    /\ Goto(k, "notify")
    /\ UNCHANGED <<storage, messages, bitcoin, att, expired, flaky, acc, posts>>

\* The interface carries out a call, or answers with an HTTP error that
\* periodic_check does not look at.
Notify(post) ==
    \/ posts' = posts \cup {post}
    \/ flaky /\ UNCHANGED posts

\* One failing get_chain_from_attestors or POST ends the request, and the
\* notifications that were still to be sent are forgotten.
SetStatusFunded(k) ==
    /\ chk[k].pc = "notify"
    /\ \E c \in chk[k].funded :
          /\ Notify([kind |-> "funded", id |-> c, cet |-> NoTx])
          /\ \/ chk' = [chk EXCEPT ![k].funded = @ \ {c}]
             \/ flaky /\ chk' = [chk EXCEPT ![k] = IdleChecker]
    /\ UNCHANGED <<storage, messages, bitcoin, att, expired, flaky, acc>>

PostCloseDlc(k) ==
    /\ chk[k].pc = "notify" /\ chk[k].funded = {}
    /\ \E c \in chk[k].closed :
          /\ Notify([kind |-> "closed", id |-> c.id, cet |-> c.cet])
          /\ \/ chk' = [chk EXCEPT ![k].closed = @ \ {c}]
             \/ flaky /\ chk' = [chk EXCEPT ![k] = IdleChecker]
    /\ UNCHANGED <<storage, messages, bitcoin, att, expired, flaky, acc>>

EndCheck(k) ==
    /\ chk[k].pc = "notify" /\ chk[k].funded = {} /\ chk[k].closed = {}
    /\ chk' = [chk EXCEPT ![k] = IdleChecker]
    /\ UNCHANGED <<storage, messages, bitcoin, att, expired, flaky, acc, posts>>

\* The loop of main gives a request 30 seconds: the connection is closed and
\* the handler dropped at whatever await it has reached.  A restart of the
\* process does the same to all of them.
CancelCheck(k) ==
    /\ flaky /\ chk[k].pc # "idle"
    /\ chk' = [chk EXCEPT ![k] = IdleChecker]
    /\ UNCHANGED <<storage, messages, bitcoin, att, expired, flaky, acc, posts>>

CancelAccept(h) ==
    /\ flaky /\ acc[h].pc # "idle"
    /\ acc' = [acc EXCEPT ![h] = IdleAcceptor]
    /\ UNCHANGED <<storage, messages, bitcoin, att, expired, flaky, chk, posts>>

-----------------------------------------------------------------------------
(***************************************************************************)
(* The environment: the accepting wallet, the miners, the DLC manager      *)
(* smart contract as relayed by the attestors, and time.                   *)
(***************************************************************************)

\* The accepting wallet broadcasts the funding transaction after it received
\* the Sign message; miners deepen it.
MineFund(c) ==
    /\ c \in signed /\ fund[c] < NB_CONFIRMATIONS
    /\ fund' = [fund EXCEPT ![c] = @ + 1]
    /\ UNCHANGED <<storage, messages, spend, att, expired, flaky, chk, acc, posts>>

\* Reorganisations undo fewer than NB_CONFIRMATIONS blocks.
ReorgFund(c) ==
    /\ flaky /\ fund[c] \in 1 .. NB_CONFIRMATIONS - 1
    /\ fund' = [fund EXCEPT ![c] = 0]
    /\ UNCHANGED <<storage, messages, spend, att, expired, flaky, chk, acc, posts>>

MineSpend(c) ==
    /\ spend[c].tx # NoTx /\ spend[c].confs < NB_CONFIRMATIONS
    /\ spend' = [spend EXCEPT ![c].confs = @ + 1]
    /\ UNCHANGED <<storage, messages, fund, att, expired, flaky, chk, acc, posts>>

ReorgSpend(c) ==
    /\ flaky /\ spend[c].confs \in 1 .. NB_CONFIRMATIONS - 1
    /\ spend' = [spend EXCEPT ![c].confs = 0]
    /\ UNCHANGED <<storage, messages, fund, att, expired, flaky, chk, acc, posts>>

\* The accepting wallet runs check_refund on its own copy of the contract.
AcceptorRefund(c) ==
    /\ OfferOf[c] \in expired
    /\ EnoughConfirmations(fund[c]) /\ spend[c].tx = NoTx
    /\ spend' = [spend EXCEPT ![c].tx = RefundTx]
    /\ UNCHANGED <<storage, messages, fund, att, expired, flaky, chk, acc, posts>>

\* A DLC is closed once on its chain, but attestors may disagree.
Attest(o, a) ==
    /\ o \in offered /\ att[o][a] = NoTx
    /\ \E x \in Outcomes : att' = [att EXCEPT ![o][a] = x]
    /\ UNCHANGED <<storage, messages, bitcoin, expired, flaky, chk, acc, posts>>

Expire(o) ==
    /\ o \in offered \ expired
    /\ expired' = expired \cup {o}
    /\ UNCHANGED <<storage, messages, bitcoin, att, flaky, chk, acc, posts>>

\* Outages end, and the last write of theirs has landed or is lost.
Stabilise ==
    /\ flaky /\ flaky' = FALSE
    /\ late' = {}
    /\ UNCHANGED <<tmp, fin, messages, bitcoin, att, expired, chk, acc, posts>>

-----------------------------------------------------------------------------
CheckerStep(k) ==
    \/ StartCheck(k) \/ ListContracts(k) \/ EndPass(k)
    \/ CheckSignedContract(k)
    \/ CheckConfirmedContract(k)
    \/ CloseContractConfirmations(k) \/ CloseContractSend(k)
    \/ CheckRefundTime(k) \/ CheckRefundConfirmations(k) \/ CheckRefundSend(k)
    \/ CheckPreclosedContract(k)
    \/ UpdateChecked(k)
    \/ LookupAffected(k) \/ EndLookup(k)
    \/ SetStatusFunded(k) \/ PostCloseDlc(k) \/ EndCheck(k)

AcceptorStep(h) ==
    \/ \E c \in Contracts : OnAcceptMessage(h, c)
    \/ AcceptFailOnError(h)
    \/ DeleteOffered(h) \/ UpdateSigned(h) \/ CreateSigned(h)

Environment ==
    \/ \E c \in Contracts : \/ MineFund(c) \/ ReorgFund(c)
                            \/ MineSpend(c) \/ ReorgSpend(c)
                            \/ AcceptorRefund(c)
    \/ \E o \in Offers : \/ SendOffer(o) \/ Expire(o)
                         \/ \E a \in Attestors : Attest(o, a)
    \/ \E w \in late : LandLate(w)
    \/ Stabilise

Next ==
    \/ \E k \in Checkers : CheckerStep(k) \/ CancelCheck(k)
    \/ \E h \in Acceptors : AcceptorStep(h) \/ CancelAccept(h)
    \/ Environment

Spec == Init /\ [][Next]_vars

(***************************************************************************)
(* The loop of main issues a periodic check every minute for ever, and     *)
(* tokio polls every task that is ready.  Outages end: the checks of the   *)
(* code rely on a later attempt to succeed.                                *)
(***************************************************************************)
Fairness ==
    /\ \A k \in Checkers : WF_vars(CheckerStep(k))
    /\ WF_vars(Stabilise)

FairSpec == Spec /\ Fairness
-----------------------------------------------------------------------------
(***************************************************************************)
(* Properties.                                                             *)
(***************************************************************************)

TypeOK ==
    /\ tmp \in [Offers -> {"None", "Offered", "FailedAccept"}]
    /\ fin \in [Contracts -> Row]
    /\ late \subseteq LateWrite
    /\ offered \subseteq Offers
    /\ signed \subseteq Contracts
    /\ fund \in [Contracts -> 0 .. NB_CONFIRMATIONS]
    /\ spend \in [Contracts -> SpendTx]
    /\ att \in [Offers -> [Attestors -> CETs]]
    /\ expired \subseteq Offers
    /\ flaky \in BOOLEAN
    /\ chk \in [Checkers -> Checker]
    /\ acc \in [Acceptors -> Acceptor]
    /\ posts \subseteq Post

\* What a row of contract c claims is true on Bitcoin: from Confirmed on the
\* funding transaction is final, a PreClosed row names the CET that spends
\* it, a Closed row one that is final, a Refunded row is spent by the refund.
RowIsTrue(c, row) ==
    /\ row.state \notin {"None", "Signed"} => fund[c] = NB_CONFIRMATIONS
    /\ row.state \in {"PreClosed", "Closed"} =>
          row.cet \in Outcomes /\ spend[c].tx = row.cet
    /\ row.state = "Closed" => spend[c].confs = NB_CONFIRMATIONS
    /\ row.state = "Refunded" => spend[c].tx = RefundTx

\* No stored row is ahead of Bitcoin, although every row is written some
\* awaits after the chain was read, by handlers that overlap, fail halfway
\* and are cancelled (check_*_contract, close_contract, check_refund).
RowsMatchBitcoin == \A c \in Contracts : RowIsTrue(c, fin[c])

\* What handler k keeps across its awaits.
HandlerFacts(k) ==
    LET h == chk[k] IN
    /\ h.pass = "Confirmed" =>
          \A r \in h.todo : RowIsTrue(r.id, ConfirmedRow)
    /\ h.pass = "PreClosed" =>
          \A r \in h.todo : RowIsTrue(r.id, [state |-> "PreClosed", cet |-> r.cet])
    /\ h.pc \in {"cetConfs", "cetSend"} =>
          /\ h.cur \in Contracts /\ RowIsTrue(h.cur, ConfirmedRow)
          /\ h.write.state = "PreClosed" /\ h.write.cet \in Outcomes
          /\ \A a \in Attestors : att[OfferOf[h.cur]][a] = h.write.cet
    /\ h.pc \in {"refundTime", "refundConfs", "refundSend"} =>
          /\ h.cur \in Contracts /\ RowIsTrue(h.cur, ConfirmedRow)
          /\ h.write = RefundedRow
    /\ h.pc = "update" =>
          /\ h.cur \in Contracts /\ RowIsTrue(h.cur, h.write)
          /\ h.write.state \notin {"None", "Signed"}
    /\ \A c \in h.funded : RowIsTrue(c, ConfirmedRow)
    /\ \A r \in h.closed : RowIsTrue(r.id, [state |-> "PreClosed", cet |-> r.cet])

\* What a check read before an await is still true whenever it goes on: the
\* listed rows it has not come to, the CET it chose, the row it is about to
\* write and the contracts it is about to report.  No lock protects any of
\* them from the other handlers.
StaleReadsStillHold == \A k \in Checkers : HandlerFacts(k)

\* The router broadcasts a CET only for an outcome that every attestor has
\* attested (threshold = number of attestors, get_closable_contract_info).
CetsAreFullyAttested ==
    \A c \in Contracts : spend[c].tx \in Outcomes =>
        \A a \in Attestors : att[OfferOf[c]][a] = spend[c].tx

\* A Sign message lets the other party lock its bitcoin: the router hands it
\* out only for a contract it has stored and can therefore close
\* (on_accept_message, update_contract).
SignedContractsAreStored ==
    \A c \in signed : fin[c].state # "None"

\* set-status-funded is carried out only for a contract whose funding is
\* final, and post-close-dlc only with the CET that spends it, although the
\* row is read again between the update and the call.
NotificationsAreTrue ==
    \A p \in posts :
        /\ fund[p.id] = NB_CONFIRMATIONS
        /\ p.kind = "closed" => p.cet \in Outcomes /\ spend[p.id].tx = p.cet

\* An offer is used once, as long as calls succeed and accept requests do not
\* overlap: update_contract removes the offered row before it stores the signed
\* one, so a second accept message with other inputs is refused.  Proved in
\* RouterWalletProofs under these assumptions.
OneContractPerOffer ==
    \A c, d \in signed : OfferOf[c] = OfferOf[d] => c = d

Rank(state) == CASE state = "None" -> 0
                 [] state = "Signed" -> 1
                 [] state = "Confirmed" -> 2
                 [] state = "PreClosed" -> 3
                 [] state \in {"Closed", "Refunded"} -> 4

\* While no two checks overlap and none of their writes outlives its check
\* (either can make a check set a row back), what sets a row back is a repeated
\* accept message, which finds the offer again when its delete had failed, or
\* an accepted row that lands late; a check never does (update_contract).
ChecksOnlyAdvance ==
    [][\A c \in Contracts :
          \/ Rank(fin'[c].state) >= Rank(fin[c].state)
          \/ \E h \in Acceptors : acc[h] = [pc |-> "update", cur |-> c]
          \/ \E w \in late : LandLate(w)]_fin

\* A row does not stay Signed once its funding transaction is final: checks
\* that fail are repeated until one succeeds.
FundedRowsAreConfirmed ==
    \A c \in Contracts :
        (fin[c].state = "Signed" /\ fund[c] = NB_CONFIRMATIONS)
            ~> (fin[c].state # "Signed")

AttestorsDisagree(o) ==
    /\ \A a \in Attestors : att[o][a] # NoTx
    /\ \E a, b \in Attestors : att[o][a] # att[o][b]
Attested(o) ==
    \E x \in Outcomes : \A a \in Attestors : att[o][a] = x

\* After its lock time a Confirmed contract is settled in storage.  The two
\* exceptions are the ones the code leaves open: attestors that disagree, and
\* an attested contract that the other party refunded first.
ExpiredRowsSettle ==
    \A c \in Contracts :
        (fin[c].state = "Confirmed" /\ OfferOf[c] \in expired)
            ~> \/ fin[c].state # "Confirmed"
               \/ AttestorsDisagree(OfferOf[c])
               \/ Attested(OfferOf[c]) /\ spend[c].tx = RefundTx

\* An attested contract leaves Confirmed unless it was refunded: the CET is
\* sent, or found on chain when an earlier check was cancelled after sending.
AttestedRowsClose ==
    \A c \in Contracts :
        (fin[c].state = "Confirmed" /\ Attested(OfferOf[c]))
            ~> (fin[c].state # "Confirmed" \/ spend[c].tx = RefundTx)

\* "Error in periodic_check, will retry": a confirmed contract is reported
\* to the smart contract as funded, if not by this check then by a later one.
FundedIsReported ==
    \A c \in Contracts :
        (fin[c].state = "Confirmed")
            ~> (\E p \in posts : p.kind = "funded" /\ p.id = c)

\* What Bitcoin, the attestors and the interface have seen of each contract.
Life == INSTANCE ContractLife WITH
            locked <- {c \in Contracts : fund[c] = NB_CONFIRMATIONS},
            agreed <- {e \in Offers \X Outcomes :
                          \A a \in Attestors : att[e[1]][a] = e[2]},
            payout <- [c \in Contracts |-> spend[c].tx],
            final <- {c \in Contracts : spend[c].confs = NB_CONFIRMATIONS},
            reports <- posts

\* Overlapping, failing, cancelled and repeated checks, and the other party's
\* refund, keep what a contract promises: one payout, by the CET of the agreed
\* outcome or by a refund after the lock time, only of bitcoin the router has
\* signed for, and reports of what has happened (check_confirmed_contract,
\* close_contract, check_refund, periodic_check of main.rs).
ImplementsContractLife == Life!Spec
=============================================================================
