------------------------- MODULE BlockchainInterface -------------------------
(***************************************************************************)
(* The private API of the wallet blockchain interface:                     *)
(* POST /set-status-funded and POST /post-close-dlc each send one contract *)
(* call to the chain they name, from the account configured for it.  On a  *)
(* Stacks chain the nonce comes from StacksNonceService, which all Stacks  *)
(* chains of the process share, and the call is not awaited; on an EVM     *)
(* chain ethers asks the node, and the request waits for the receipt.      *)
(* Requests overlap at every await.                                        *)
(***************************************************************************)
EXTENDS Integers, FiniteSets

CONSTANTS
    Requests,     \* requests, of either kind
    StacksChains, \* stx-chains of the configuration
    EvmChains,    \* evm-chains of the configuration
    FirstNonces,  \* possible nonces of an account when the service starts
    Unset,        \* an undefined nonce, an unknown chain
    Unreliable    \* may calls fail, and the process restart?

ASSUME ConstantsAssumption ==
    /\ FirstNonces \subseteq Nat
    /\ StacksChains \cap EvmChains = {}
    /\ Unset \notin Int \cup StacksChains \cup EvmChains
    /\ Unreliable \in BOOLEAN

VARIABLES
    nonce,    \* StacksNonceService.nonce
    req,      \* the requests
    issued,   \* nonces handed out since the process started
    next,     \* chains: the nonce of the next transaction to be mined
    mempool,  \* chains: accepted transactions
    mined,    \* requests whose transaction is mined
    lost,     \* Stacks nonces handed out whose transaction was not accepted
    flaky     \* failures and restarts may still happen

vars == <<nonce, req, issued, next, mempool, mined, lost, flaky>>
chain == <<next, mempool, mined>>

Tx == [req : Requests, nonce : Nat]
Chains == StacksChains \cup EvmChains
Request == [pc : {"idle", "callback", "fetch", "assign", "send",
                  "estimate", "populate", "evmSend", "wait", "done"},
            on : Chains \cup {Unset},
            seen : Nat \cup {Unset}, nonce : Nat \cup {Unset}]

Init ==
    /\ nonce = Unset
    /\ req = [r \in Requests |-> [pc |-> "idle", on |-> Unset,
                                 seen |-> Unset, nonce |-> Unset]]
    /\ issued = {}
    /\ next \in [Chains -> FirstNonces]
    /\ mempool = [c \in Chains |-> {}] /\ mined = {} /\ lost = {}
    /\ flaky = Unreliable

Goto(r, pc) == req' = [req EXCEPT ![r].pc = pc]

-----------------------------------------------------------------------------
\* The route checks the body (400), does nothing in test mode, and otherwise
\* wraps the contract of the chain named.  getWrappedContract throws for a
\* chain that is not configured: nobody catches it, which ends the process
\* (Restart).
Receive(r) ==
    /\ req[r].pc = "idle"
    /\ \/ \E c \in Chains :
             req' = [req EXCEPT ![r].on = c,
                                ![r].pc = IF c \in EvmChains THEN "estimate"
                                                             ELSE "callback"]
       \/ Goto(r, "done")
    /\ UNCHANGED <<nonce, issued, chain, lost, flaky>>

\* getCallbackContract; an error is returned with status 200.
GetCallbackContract(r) ==
    /\ req[r].pc = "callback"
    /\ \/ Goto(r, "fetch")
       \/ flaky /\ Goto(r, "done")
    /\ UNCHANGED <<nonce, issued, chain, lost, flaky>>

\* The node may or may not count the transactions in its mempool.
AccountNonces(c) ==
    {next[c]} \cup {t.nonce + 1 : t \in {s \in mempool[c] : s.nonce >= next[c]}}

GetNonceFromBlockchain(r) ==
    /\ req[r].pc = "fetch"
    /\ \/ \E n \in AccountNonces(req[r].on) :
             req' = [req EXCEPT ![r].pc = "assign", ![r].seen = n]
       \/ flaky /\ Goto(r, "done")
    /\ UNCHANGED <<nonce, issued, chain, lost, flaky>>

\* Mutant: a chain that has not moved yet is taken for one that has.
SyncOnEqual(seen) ==
    IF nonce \in {Unset, 0} THEN seen
    ELSE IF seen >= nonce THEN seen ELSE nonce + 1

\* Mutant: the first nonce after a start is skipped.
SkipFirst(seen) ==
    IF nonce \in {Unset, 0} THEN seen + 1
    ELSE IF seen > nonce THEN seen ELSE nonce + 1

\* Mutant: the service steps back to the chain.
FollowChain(seen) == IF seen = nonce THEN Unset ELSE seen

\* The rest of getNonce.  A nonce of 0 is falsy and treated as undefined.
NewNonce(seen) ==
    IF nonce \in {Unset, 0} THEN seen
    ELSE IF seen > nonce THEN seen ELSE nonce + 1

AssignNonce(r) ==
    LET n == NewNonce(req[r].seen) IN
    /\ req[r].pc = "assign"
    /\ nonce' = n
    /\ req' = [req EXCEPT ![r].pc = "send", ![r].nonce = n]
    /\ issued' = issued \cup {[req |-> r, nonce |-> n]}
    /\ UNCHANGED <<chain, lost, flaky>>

\* A nonce that is neither mined nor in the mempool of its chain.
Fits(c, n) == n >= next[c] /\ \A t \in mempool[c] : t.nonce # n

\* makeContractCall and broadcastTransaction.  The node refuses a nonce that
\* is mined or in its mempool.  Refusals and errors are answered with 200.
Broadcast(r) ==
    LET n == req[r].nonce
        c == req[r].on IN
    /\ req[r].pc = "send"
    /\ \/ /\ Fits(c, n)
          /\ mempool' = [mempool EXCEPT ![c] = @ \cup {[req |-> r, nonce |-> n]}]
          /\ UNCHANGED lost
       \/ /\ ~Fits(c, n) \/ flaky
          /\ lost' = lost \cup {n}
          /\ UNCHANGED mempool
    /\ Goto(r, "done")
    /\ UNCHANGED <<nonce, issued, next, mined, flaky>>

-----------------------------------------------------------------------------
\* EVM: estimateGas runs the call on the node; a revert (say, of a call that
\* was made before) and any other error is returned, with status 200.
EstimateGas(r) ==
    /\ req[r].pc = "estimate"
    /\ Goto(r, "populate") \/ Goto(r, "done")
    /\ UNCHANGED <<nonce, issued, chain, lost, flaky>>

\* Mutant: the transaction that is about to be sent is counted already.
PendingAndOwn(c) == {next[c] + Cardinality(mempool[c]) + 1}

\* The node's count of the account's transactions, pending ones included: the
\* first nonce that is free.
PendingNonce(c) ==
    {n \in next[c] .. next[c] + Cardinality(mempool[c]) :
        Fits(c, n) /\ \A m \in next[c] .. n - 1 : ~Fits(c, m)}

\* ethers completes the transaction: getTransactionCount("pending").
PopulateTransaction(r) ==
    /\ req[r].pc = "populate"
    /\ \/ \E n \in PendingNonce(req[r].on) :
             req' = [req EXCEPT ![r].pc = "evmSend", ![r].nonce = n]
       \/ flaky /\ Goto(r, "done")
    /\ UNCHANGED <<nonce, issued, chain, lost, flaky>>

\* eth_sendRawTransaction: a transaction with the nonce of a pending one takes
\* its place if it pays more, and is refused otherwise.  When the answer is
\* lost the error is returned, and the transaction is pending all the same.
SendTransaction(r) ==
    LET n == req[r].nonce
        c == req[r].on
        rivals == {t \in mempool[c] : t.nonce = n} IN
    /\ req[r].pc = "evmSend"
    /\ \/ /\ n >= next[c]
          /\ mempool' = [mempool EXCEPT
                           ![c] = (@ \ rivals) \cup {[req |-> r, nonce |-> n]}]
          /\ Goto(r, "wait") \/ (flaky /\ Goto(r, "done"))
       \/ /\ ~Fits(c, n) \/ flaky
          /\ Goto(r, "done")
          /\ UNCHANGED mempool
    /\ UNCHANGED <<nonce, issued, next, mined, lost, flaky>>

\* transaction.wait(): the receipt, or the error that another transaction was
\* mined with this nonce.
Wait(r) ==
    /\ req[r].pc = "wait"
    /\ req[r].nonce < next[req[r].on] \/ flaky
    /\ Goto(r, "done")
    /\ UNCHANGED <<nonce, issued, chain, lost, flaky>>

-----------------------------------------------------------------------------
\* The process restarts and forgets its nonce; requests in flight are gone.
Restart ==
    /\ flaky
    /\ nonce' = Unset /\ issued' = {}
    /\ req' = [r \in Requests |-> IF req[r].pc = "idle" THEN req[r]
                                  ELSE [req[r] EXCEPT !.pc = "done"]]
    /\ lost' = lost \cup {req[r].nonce : r \in {s \in Requests :
                                                  req[s].pc = "send"}}
    /\ UNCHANGED <<chain, flaky>>

\* A chain mines the account's transactions in the order of their nonces.
Mine(c) ==
    /\ \E t \in mempool[c] :
          /\ t.nonce = next[c]
          /\ mempool' = [mempool EXCEPT ![c] = @ \ {t}]
          /\ mined' = mined \cup {t.req}
    /\ next' = [next EXCEPT ![c] = @ + 1]
    /\ UNCHANGED <<nonce, req, issued, lost, flaky>>

Stabilise ==
    /\ flaky /\ flaky' = FALSE
    /\ UNCHANGED <<nonce, req, issued, chain, lost>>

RequestStep(r) ==
    \/ GetCallbackContract(r) \/ GetNonceFromBlockchain(r)
    \/ AssignNonce(r) \/ Broadcast(r)
    \/ EstimateGas(r) \/ PopulateTransaction(r) \/ SendTransaction(r) \/ Wait(r)

Next ==
    \/ \E r \in Requests : Receive(r) \/ RequestStep(r)
    \/ Restart \/ \E c \in Chains : Mine(c)
    \/ Stabilise

Spec == Init /\ [][Next]_vars

\* Requests run on, and the chains mine what they can.
FairSpec == /\ Spec
            /\ \A c \in Chains : WF_vars(Mine(c))
            /\ \A r \in Requests : WF_vars(RequestStep(r))

-----------------------------------------------------------------------------
TypeOK ==
    /\ nonce \in Nat \cup {Unset}
    /\ req \in [Requests -> Request]
    /\ issued \subseteq Tx
    /\ next \in [Chains -> Nat]
    /\ mempool \in [Chains -> SUBSET Tx]
    /\ mined \subseteq Requests
    /\ lost \subseteq Nat
    /\ flaky \in BOOLEAN

\* No two requests of one process get the same nonce, although each reads the
\* account's nonce, waits, and compares it with a counter others have moved.
\* The one exception is an account that has never sent anything: nonce 0 is
\* falsy, and getNonce hands it out until the chain has counted it.
NoncesAreDistinct ==
    \A i, j \in issued : i.nonce = j.nonce => i.req = j.req \/ i.nonce = 0

\* A transaction with nonce m of chain c is accepted, or a request is about to
\* broadcast it.
Held(c, m) ==
    \/ \E t \in mempool[c] : t.nonce = m
    \/ \E r \in Requests : req[r].pc = "send" /\ req[r].on = c /\ req[r].nonce = m

\* A Stacks transaction only ever waits for nonces that are accepted, that a
\* request is about to broadcast, or that a request was handed and failed to
\* use: the counter leaves no gap of its own, whatever the chain counted when
\* getNonce asked it, before and after restarts (StacksNonceService).
StacksGapsAreLost ==
    \A c \in StacksChains : \A t \in mempool[c] :
        \A m \in next[c] .. t.nonce : Held(c, m) \/ m \in lost

\* A transaction of an EVM chain waits only for transactions the node has,
\* although the nonce was counted two awaits before it was sent, and others
\* were sent, replaced or mined since (getTransactionCount, transaction).
EvmWaitsForPending ==
    \A c \in EvmChains : \A t \in mempool[c] :
        \A m \in next[c] .. t.nonce : \E s \in mempool[c] : s.nonce = m

\* The node has accepted the call of r, and has not mined it.
Accepted(r, chains) == \E c \in chains : \E t \in mempool[c] : t.req = r

\* While every nonce that was handed out is used, no transaction waits for a
\* nonce that nobody has: an accepted call is mined.  This needs a process
\* with one Stacks chain: several share the counter, and the nonces of one
\* leave gaps on the others (the static StacksNonceService.nonce).
UsedNoncesLeaveNoGap ==
    \A r \in Requests : Accepted(r, StacksChains) ~> (r \in mined \/ lost # {})

\* On an EVM chain calls that overlap may get the same nonce and replace each
\* other, and calls may fail anywhere, but no gap is left behind: a request
\* that waits for a receipt is answered (getTransactionCount, wait).
EvmCallersAreAnswered ==
    \A r \in Requests : (req[r].pc = "wait") ~> (req[r].pc = "done")

\* "POST /set-status-funded - sets the status of a given DLC to funded": a
\* contract call that the node accepted is mined.
AcceptedIsMined ==
    \A r \in Requests : Accepted(r, StacksChains) ~> (r \in mined)
=============================================================================
