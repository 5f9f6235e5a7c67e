---------------------- MODULE BlockchainInterfaceProofs ----------------------
(***************************************************************************)
(* No two Stacks requests of one process share a nonce, and no transaction *)
(* waits for a nonce that nobody uses, for any number of overlapping       *)
(* requests, any chains and accounts, and any restarts.                    *)
(***************************************************************************)
EXTENDS BlockchainInterface, TLAPS

\* A request that is about to use a nonce has it.
RequestsHoldNonces ==
    \A r \in Requests :
        /\ req[r].pc = "assign" => req[r].seen \in Nat
        /\ req[r].pc \in {"send", "evmSend"} => req[r].nonce \in Nat
        /\ req[r].pc \in {"callback", "fetch", "assign", "send", "estimate",
                          "populate", "evmSend", "wait"} => req[r].on \in Chains

\* The counter of the service bounds the nonces it has handed out.
IssuedAreBelow ==
    /\ nonce = Unset => issued = {}
    /\ \A i \in issued : i.nonce =< nonce

IInv == TypeOK /\ RequestsHoldNonces /\ IssuedAreBelow /\ NoncesAreDistinct

\* getNonce returns a number, not below the counter, that it moves past
\* every nonce handed out, unless the counter is undefined or 0.
LEMMA NewNonceIsNew ==
    ASSUME NEW seen \in Nat, nonce \in Nat \cup {Unset}
    PROVE  /\ NewNonce(seen) \in Nat
           /\ nonce \in Nat => NewNonce(seen) >= nonce
           /\ nonce \notin {Unset, 0} => NewNonce(seen) > nonce
<1>1. CASE nonce = Unset
  BY <1>1, ConstantsAssumption DEF NewNonce
<1>2. CASE nonce \in Nat
  BY <1>2, ConstantsAssumption DEF NewNonce
<1> QED  BY <1>1, <1>2

LEMMA InitInv == Init => IInv
<1> SUFFICES ASSUME Init PROVE IInv  OBVIOUS
<1>1. TypeOK
  BY ConstantsAssumption DEF Init, TypeOK, Request
<1>2. RequestsHoldNonces
  BY DEF Init, RequestsHoldNonces
<1>3. IssuedAreBelow /\ NoncesAreDistinct
  BY DEF Init, IssuedAreBelow, NoncesAreDistinct
<1> QED  BY <1>1, <1>2, <1>3 DEF IInv

\* A step that leaves the counter and what it handed out keeps both facts.
LEMMA CounterUnchanged ==
    ASSUME IInv, UNCHANGED <<nonce, issued>>
    PROVE  IssuedAreBelow' /\ NoncesAreDistinct'
BY DEF IInv, IssuedAreBelow, NoncesAreDistinct

LEMMA AssignStep ==
    ASSUME IInv, NEW r \in Requests, AssignNonce(r)
    PROVE  IInv'
<1> DEFINE n == NewNonce(req[r].seen)
<1>0. TypeOK /\ RequestsHoldNonces /\ IssuedAreBelow /\ NoncesAreDistinct
  BY DEF IInv
<1>1. /\ req[r].pc = "assign" /\ nonce' = n
      /\ req' = [req EXCEPT ![r].pc = "send", ![r].nonce = n]
      /\ issued' = issued \cup {[req |-> r, nonce |-> n]}
      /\ UNCHANGED <<next, mempool, mined, lost, flaky>>
  BY DEF AssignNonce, chain
<1>2. /\ n \in Nat
      /\ nonce \in Nat => n >= nonce
      /\ nonce \notin {Unset, 0} => n > nonce
  <2>1. req[r].seen \in Nat /\ nonce \in Nat \cup {Unset}
    BY <1>0, <1>1 DEF RequestsHoldNonces, TypeOK
  <2> QED  BY <2>1, NewNonceIsNew
<1> HIDE DEF n
<1>3. TypeOK'
  <2>1. req' \in [Requests -> Request]
    BY <1>0, <1>1, <1>2 DEF TypeOK, Request
  <2>2. issued' \subseteq Tx
    BY <1>0, <1>1, <1>2 DEF TypeOK, Tx
  <2>3. nonce' \in Nat \cup {Unset}
    BY <1>1, <1>2
  <2>4. /\ next' \in [Chains -> Nat] /\ mempool' \in [Chains -> SUBSET Tx]
        /\ mined' \subseteq Requests
        /\ lost' \subseteq Nat /\ flaky' \in BOOLEAN
    BY <1>0, <1>1 DEF TypeOK
  <2> QED  BY <2>1, <2>2, <2>3, <2>4 DEF TypeOK, Tx, Request
<1>4. RequestsHoldNonces'
  BY <1>0, <1>1, <1>2 DEF TypeOK, Request, RequestsHoldNonces
<1>5. \A i \in issued : i.nonce \in Nat /\ nonce \in Nat /\ i.nonce =< nonce
  BY <1>0 DEF TypeOK, Tx, IssuedAreBelow
<1>6. IssuedAreBelow'
  <2>1. nonce' # Unset  BY <1>1, <1>2, ConstantsAssumption
  <2>2. ASSUME NEW i \in issued' PROVE i.nonce =< nonce'
    BY <1>1, <1>2, <1>5
  <2> QED  BY <2>1, <2>2 DEF IssuedAreBelow
<1>7. ASSUME NEW i \in issued, i.nonce = n PROVE n = 0
  BY <1>2, <1>5, <1>7, ConstantsAssumption
<1>8. NoncesAreDistinct'
  <2> SUFFICES ASSUME NEW i \in issued', NEW j \in issued', i.nonce = j.nonce
               PROVE  i.req = j.req \/ i.nonce = 0
    BY DEF NoncesAreDistinct
  <2>1. CASE i \in issued /\ j \in issued
    BY <1>0, <2>1 DEF NoncesAreDistinct
  <2>2. CASE i \notin issued \/ j \notin issued
    BY <1>1, <1>7, <2>2
  <2> QED  BY <2>1, <2>2
<1> QED  BY <1>3, <1>4, <1>6, <1>8 DEF IInv

LEMMA StepInv == IInv /\ [Next]_vars => IInv'
<1> SUFFICES ASSUME IInv, [Next]_vars PROVE IInv'  OBVIOUS
<1>0. TypeOK /\ RequestsHoldNonces  BY DEF IInv
<1>1. ASSUME NEW r \in Requests, Receive(r) PROVE IInv'
  <2>1. ASSUME NEW c \in Chains, NEW pc \in {"estimate", "callback"},
               req' = [req EXCEPT ![r].on = c, ![r].pc = pc]
        PROVE  req' \in [Requests -> Request] /\ RequestsHoldNonces'
    <3>1. req \in [Requests -> Request]
      BY <1>0 DEF TypeOK
    <3>2. [req[r] EXCEPT !.on = c, !.pc = pc] \in Request
      BY <3>1, <2>1 DEF Request
    <3>3. /\ req'[r] = [req[r] EXCEPT !.on = c, !.pc = pc]
          /\ \A q \in Requests : q # r => req'[q] = req[q]
          /\ req' \in [Requests -> Request]
      BY <3>1, <3>2, <2>1
    <3>4. req'[r].pc = pc /\ req'[r].on = c
      BY <3>1, <3>3 DEF Request
    <3>5. RequestsHoldNonces'
      BY <1>0, <2>1, <3>3, <3>4 DEF RequestsHoldNonces
    <3> QED  BY <3>3, <3>5
  <2>2. ASSUME Goto(r, "done")
        PROVE  req' \in [Requests -> Request] /\ RequestsHoldNonces'
    BY <1>0, <2>2 DEF Goto, TypeOK, Request, RequestsHoldNonces
  <2>3. req' \in [Requests -> Request] /\ RequestsHoldNonces'
    BY <1>1, <2>1, <2>2 DEF Receive
  <2>4. TypeOK'
    BY <1>0, <1>1, <2>3 DEF Receive, chain, TypeOK
  <2> QED  BY <1>1, <2>3, <2>4, CounterUnchanged DEF Receive, IInv
<1>2. ASSUME NEW r \in Requests, GetCallbackContract(r) PROVE IInv'
  <2>1. TypeOK' /\ RequestsHoldNonces'
    BY <1>0, <1>2
    DEF GetCallbackContract, Goto, chain, TypeOK, Request, RequestsHoldNonces
  <2> QED  BY <1>2, <2>1, CounterUnchanged DEF GetCallbackContract, IInv
<1>3. ASSUME NEW r \in Requests, GetNonceFromBlockchain(r) PROVE IInv'
  <2>1. req[r].on \in Chains
    BY <1>0, <1>3 DEF GetNonceFromBlockchain, RequestsHoldNonces
  <2>2. /\ next[req[r].on] \in Nat
        /\ \A t \in mempool[req[r].on] : t.nonce \in Nat
    BY <1>0, <2>1 DEF TypeOK, Tx
  <2>3. AccountNonces(req[r].on) \subseteq Nat
    BY <2>2 DEF AccountNonces
  <2>4. TypeOK' /\ RequestsHoldNonces'
    BY <1>0, <1>3, <2>3
    DEF GetNonceFromBlockchain, Goto, chain, TypeOK, Request, RequestsHoldNonces
  <2> QED  BY <1>3, <2>4, CounterUnchanged DEF GetNonceFromBlockchain, IInv
<1>4. ASSUME NEW r \in Requests, AssignNonce(r) PROVE IInv'
  BY <1>4, AssignStep
<1>5. ASSUME NEW r \in Requests, Broadcast(r) PROVE IInv'
  <2>1. req[r].nonce \in Nat
    BY <1>0, <1>5 DEF Broadcast, RequestsHoldNonces
  <2>2. [req |-> r, nonce |-> req[r].nonce] \in Tx
    BY <2>1 DEF Tx
  <2>3. mempool' \in [Chains -> SUBSET Tx] /\ lost' \subseteq Nat
    BY <1>0, <1>5, <2>1, <2>2 DEF Broadcast, TypeOK
  <2>4. TypeOK'
    BY <1>0, <1>5, <2>3 DEF Broadcast, Goto, TypeOK, Request
  <2>5. RequestsHoldNonces'
    BY <1>0, <1>5 DEF Broadcast, Goto, TypeOK, Request, RequestsHoldNonces
  <2> QED  BY <1>5, <2>4, <2>5, CounterUnchanged DEF Broadcast, IInv
<1>6. CASE Restart
  <2>1. TypeOK' /\ RequestsHoldNonces'
    BY <1>0, <1>6 DEF Restart, chain, TypeOK, Request, RequestsHoldNonces
  <2>2. IssuedAreBelow' /\ NoncesAreDistinct'
    BY <1>6 DEF Restart, IssuedAreBelow, NoncesAreDistinct
  <2> QED  BY <2>1, <2>2 DEF IInv
<1>7. ASSUME NEW c \in Chains, Mine(c) PROVE IInv'
  <2>1. TypeOK' /\ RequestsHoldNonces'
    BY <1>0, <1>7 DEF Mine, TypeOK, Tx, RequestsHoldNonces
  <2> QED  BY <1>7, <2>1, CounterUnchanged DEF Mine, IInv
<1>8. CASE Stabilise
  <2>1. TypeOK' /\ RequestsHoldNonces'
    BY <1>0, <1>8 DEF Stabilise, chain, TypeOK, RequestsHoldNonces
  <2> QED  BY <1>8, <2>1, CounterUnchanged DEF Stabilise, IInv
<1>9. CASE UNCHANGED vars
  <2>1. TypeOK' /\ RequestsHoldNonces'
    BY <1>0, <1>9 DEF vars, TypeOK, RequestsHoldNonces
  <2> QED  BY <1>9, <2>1, CounterUnchanged DEF vars, IInv
<1>10. ASSUME NEW r \in Requests, EstimateGas(r) \/ Wait(r) PROVE IInv'
  <2>1. TypeOK' /\ RequestsHoldNonces'
    BY <1>0, <1>10
    DEF EstimateGas, Wait, Goto, chain, TypeOK, Request, RequestsHoldNonces
  <2> QED  BY <1>10, <2>1, CounterUnchanged DEF EstimateGas, Wait, IInv
<1>11. ASSUME NEW r \in Requests, PopulateTransaction(r) PROVE IInv'
  <2>1. req[r].on \in Chains
    BY <1>0, <1>11 DEF PopulateTransaction, RequestsHoldNonces
  <2>2. next[req[r].on] \in Nat
    BY <1>0, <2>1 DEF TypeOK
  <2>3. PendingNonce(req[r].on) \subseteq Nat
    BY <2>2 DEF PendingNonce
  <2>4. TypeOK' /\ RequestsHoldNonces'
    BY <1>0, <1>11, <2>3
    DEF PopulateTransaction, Goto, chain, TypeOK, Request, RequestsHoldNonces
  <2> QED  BY <1>11, <2>4, CounterUnchanged DEF PopulateTransaction, IInv
<1>12. ASSUME NEW r \in Requests, SendTransaction(r) PROVE IInv'
  <2>1. req[r].nonce \in Nat
    BY <1>0, <1>12 DEF SendTransaction, RequestsHoldNonces
  <2>2. [req |-> r, nonce |-> req[r].nonce] \in Tx
    BY <2>1 DEF Tx
  <2>3. mempool' \in [Chains -> SUBSET Tx]
    BY <1>0, <1>12, <2>2 DEF SendTransaction, TypeOK
  <2>4. TypeOK'
    BY <1>0, <1>12, <2>3 DEF SendTransaction, Goto, TypeOK, Request
  <2>5. RequestsHoldNonces'
    BY <1>0, <1>12 DEF SendTransaction, Goto, TypeOK, Request, RequestsHoldNonces
  <2> QED  BY <1>12, <2>4, <2>5, CounterUnchanged DEF SendTransaction, IInv
<1> QED
  BY <1>1, <1>2, <1>3, <1>4, <1>5, <1>6, <1>7, <1>8, <1>9, <1>10, <1>11, <1>12
  DEF Next, RequestStep

\* The inductive invariant holds in every state of every behaviour.
THEOREM Invariance == Spec => []IInv
BY InitInv, StepInv, PTL DEF Spec

\* The interface's state keeps its types: getNonce never hands out anything
\* but a number.
THEOREM TypeCorrect == Spec => []TypeOK
<1>1. IInv => TypeOK  BY DEF IInv
<1> QED  BY Invariance, <1>1, PTL

\* Two requests that interleave anywhere in getNonce get different nonces,
\* except nonce 0 of a fresh account.
THEOREM NoncesDistinct == Spec => []NoncesAreDistinct
<1>1. IInv => NoncesAreDistinct  BY DEF IInv
<1> QED  BY Invariance, <1>1, PTL

-----------------------------------------------------------------------------
(***************************************************************************)
(* No transaction waits for a nonce nobody has, on either kind of chain.   *)
(***************************************************************************)

\* A request stays on the kind of chain whose handler it runs.
RequestsAreRouted ==
    \A r \in Requests :
        /\ req[r].pc \in {"callback", "fetch", "assign", "send"}
              => req[r].on \in StacksChains
        /\ req[r].pc \in {"estimate", "populate", "evmSend", "wait"}
              => req[r].on \in EvmChains

\* Nonce m of chain c is mined or accepted; or about to be broadcast, or lost.
Taken(c, m) == m < next[c] \/ \E t \in mempool[c] : t.nonce = m
Settled(c, m) == m < next[c] \/ Held(c, m) \/ m \in lost

\* Transactions, and requests that have a nonce, wait for what is accepted.
EvmNoncesFollow ==
    \A c \in EvmChains :
        /\ \A t \in mempool[c] : \A m \in Nat : m =< t.nonce => Taken(c, m)
        /\ \A r \in Requests : req[r].pc = "evmSend" /\ req[r].on = c =>
              \A m \in Nat : m < req[r].nonce => Taken(c, m)

EvmInv == IInv /\ RequestsAreRouted /\ EvmNoncesFollow

LEMMA RouteStep == IInv /\ RequestsAreRouted /\ [Next]_vars => RequestsAreRouted'
<1> SUFFICES ASSUME IInv, RequestsAreRouted, [Next]_vars
             PROVE  RequestsAreRouted'
  OBVIOUS
<1>0. req \in [Requests -> Request]  BY DEF IInv, TypeOK
<1>1. ASSUME NEW r \in Requests, Receive(r) PROVE RequestsAreRouted'
  <2>1. ASSUME NEW c \in Chains, NEW pc, pc = IF c \in EvmChains THEN "estimate"
                                                             ELSE "callback",
               req' = [req EXCEPT ![r].on = c, ![r].pc = pc]
        PROVE  RequestsAreRouted'
    <3>1. req'[r].on = c /\ req'[r].pc = pc
          /\ \A q \in Requests : q # r => req'[q] = req[q]
      BY <1>0, <2>1 DEF Request
    <3>2. \/ pc = "estimate" /\ c \in EvmChains
          \/ pc = "callback" /\ c \in StacksChains
      BY <2>1 DEF Chains
    <3> QED  BY <3>1, <3>2 DEF RequestsAreRouted
  <2>2. ASSUME Goto(r, "done") PROVE RequestsAreRouted'
    BY <1>0, <2>2 DEF Goto, Request, RequestsAreRouted
  <2> QED  BY <1>1, <2>1, <2>2 DEF Receive
<1>2. ASSUME NEW r \in Requests, NEW pc, Goto(r, pc),
             \/ pc = "done"
             \/ req[r].pc = "callback" /\ pc = "fetch"
             \/ req[r].pc = "send" /\ pc = "done"
             \/ req[r].pc = "estimate" /\ pc = "populate"
             \/ req[r].pc = "evmSend" /\ pc = "wait"
      PROVE  RequestsAreRouted'
  <2>1. req'[r].on = req[r].on /\ req'[r].pc = pc
        /\ \A q \in Requests : q # r => req'[q] = req[q]
    BY <1>0, <1>2 DEF Goto, Request
  <2> QED  BY <1>2, <2>1 DEF RequestsAreRouted
<1>3. ASSUME NEW r \in Requests, GetCallbackContract(r) \/ EstimateGas(r)
                                 \/ Broadcast(r) \/ SendTransaction(r) \/ Wait(r)
      PROVE  RequestsAreRouted'
  BY <1>2, <1>3 DEF GetCallbackContract, EstimateGas, Broadcast, SendTransaction, Wait
<1>4. ASSUME NEW r \in Requests, GetNonceFromBlockchain(r) \/ AssignNonce(r)
                                 \/ PopulateTransaction(r)
      PROVE  RequestsAreRouted'
  <2>1. \/ Goto(r, "done")
        \/ /\ req'[r].on = req[r].on
           /\ \A q \in Requests : q # r => req'[q] = req[q]
           /\ \/ req[r].pc = "fetch" /\ req'[r].pc = "assign"
              \/ req[r].pc = "assign" /\ req'[r].pc = "send"
              \/ req[r].pc = "populate" /\ req'[r].pc = "evmSend"
    <3>1. CASE GetNonceFromBlockchain(r)
      BY <1>0, <3>1 DEF GetNonceFromBlockchain, Request
    <3>2. CASE AssignNonce(r)
      BY <1>0, <3>2 DEF AssignNonce, Request
    <3>3. CASE PopulateTransaction(r)
      BY <1>0, <3>3 DEF PopulateTransaction, Request
    <3> QED  BY <1>4, <3>1, <3>2, <3>3
  <2> QED  BY <1>2, <2>1 DEF RequestsAreRouted
<1>5. CASE Restart
  BY <1>0, <1>5 DEF Restart, Request, RequestsAreRouted
<1>6. CASE (\E c \in Chains : Mine(c)) \/ Stabilise \/ UNCHANGED vars
  BY <1>6 DEF Mine, Stabilise, vars, RequestsAreRouted
<1> QED  BY <1>1, <1>3, <1>4, <1>5, <1>6 DEF Next, RequestStep

\* What a step does to the transactions of a chain.
LEMMA ChainStep ==
    ASSUME IInv, RequestsAreRouted, [Next]_vars, NEW c \in Chains
    PROVE  \/ UNCHANGED <<next[c], mempool[c]>>
           \/ /\ next'[c] = next[c] + 1
              /\ \E t \in mempool[c] : /\ t.nonce = next[c]
                                       /\ mempool'[c] = mempool[c] \ {t}
           \/ \E r \in Requests :
                 /\ req[r].on = c /\ next'[c] = next[c]
                 /\ \/ req[r].pc = "send" /\ Broadcast(r)
                    \/ req[r].pc = "evmSend" /\ SendTransaction(r)
                 /\ \E t \in Tx : /\ t.nonce = req[r].nonce
                                  /\ mempool'[c] =
                                        {s \in mempool[c] : s.nonce # t.nonce} \cup {t}
<1>0. /\ next \in [Chains -> Nat] /\ mempool \in [Chains -> SUBSET Tx]
      /\ RequestsHoldNonces
  BY DEF IInv, TypeOK
<1> DEFINE Sends(r) ==
             /\ req[r].on = c /\ next'[c] = next[c]
             /\ \/ req[r].pc = "send" /\ Broadcast(r)
                \/ req[r].pc = "evmSend" /\ SendTransaction(r)
             /\ \E t \in Tx : /\ t.nonce = req[r].nonce
                              /\ mempool'[c] =
                                    {s \in mempool[c] : s.nonce # t.nonce} \cup {t}
           Same == UNCHANGED <<next[c], mempool[c]>>
           Mines == /\ next'[c] = next[c] + 1
                    /\ \E t \in mempool[c] : /\ t.nonce = next[c]
                                             /\ mempool'[c] = mempool[c] \ {t}
<1>1. ASSUME NEW d \in Chains, Mine(d) PROVE Same \/ Mines
  BY <1>0, <1>1 DEF Mine
<1>2. ASSUME NEW r \in Requests, Broadcast(r) \/ SendTransaction(r),
             ~UNCHANGED <<next[c], mempool[c]>>
      PROVE  Sends(r)
  <2> DEFINE t == [req |-> r, nonce |-> req[r].nonce]
  <2>1. next' = next /\ req[r].pc \in {"send", "evmSend"} /\ req[r].nonce \in Nat
    BY <1>2, <1>0 DEF Broadcast, SendTransaction, RequestsHoldNonces
  <2>2. t \in Tx /\ t.nonce = req[r].nonce
    BY <2>1 DEF Tx
  <2>3. req[r].on \in Chains
    BY <2>1, <1>0 DEF RequestsHoldNonces
  <2>4. CASE Broadcast(r)
    <3>1. /\ Fits(req[r].on, req[r].nonce)
          /\ mempool' = [mempool EXCEPT ![req[r].on] = @ \cup {t}]
      BY <1>2, <2>1, <2>4 DEF Broadcast
    <3>2. req[r].on = c /\ mempool'[c] = mempool[c] \cup {t}
      BY <1>0, <1>2, <2>1, <3>1
    <3>3. \A s \in mempool[c] : s.nonce # req[r].nonce
      BY <3>1, <3>2 DEF Fits
    <3>4. mempool'[c] = {s \in mempool[c] : s.nonce # t.nonce} \cup {t}
      BY <2>2, <3>2, <3>3
    <3>5. req[r].pc = "send"
      BY <2>4 DEF Broadcast
    <3> HIDE DEF t
    <3> QED  BY <2>1, <2>2, <2>4, <3>2, <3>4, <3>5
  <2>5. CASE SendTransaction(r)
    <3>1. mempool' = [mempool EXCEPT ![req[r].on] =
                        (@ \ {s \in mempool[req[r].on] : s.nonce = req[r].nonce})
                           \cup {t}]
      BY <1>2, <2>1, <2>5 DEF SendTransaction
    <3>2. req[r].on = c
      BY <1>0, <1>2, <2>1, <3>1
    <3>3. mempool'[c] = {s \in mempool[c] : s.nonce # t.nonce} \cup {t}
      BY <1>0, <2>2, <3>1, <3>2
    <3>4. req[r].pc = "evmSend"
      BY <2>5 DEF SendTransaction
    <3> HIDE DEF t
    <3> QED  BY <2>1, <2>2, <2>5, <3>2, <3>3, <3>4
  <2> QED  BY <1>2, <2>4, <2>5
<1>3. ASSUME \A r \in Requests : ~Broadcast(r) /\ ~SendTransaction(r),
             \A d \in Chains : ~Mine(d)
      PROVE  Same
  BY <1>3 DEF Next, RequestStep, Receive, GetCallbackContract,
              GetNonceFromBlockchain, AssignNonce, EstimateGas,
              PopulateTransaction, Wait, Restart, Stabilise, vars, chain
<1> QED  BY <1>1, <1>2, <1>3

\* A nonce that is taken stays taken.
LEMMA TakenStays ==
    ASSUME IInv, RequestsAreRouted, [Next]_vars, NEW c \in Chains,
           NEW m \in Nat, Taken(c, m)
    PROVE  Taken(c, m)'
<1>0. next[c] \in Nat
  BY DEF IInv, TypeOK
<1> QED  BY <1>0, ChainStep DEF Taken

LEMMA EvmStep == EvmInv /\ [Next]_vars => EvmNoncesFollow'
<1> SUFFICES ASSUME EvmInv, [Next]_vars, NEW c \in EvmChains
             PROVE  /\ \A t \in mempool'[c] : \A m \in Nat :
                          m =< t.nonce => Taken(c, m)'
                    /\ \A r \in Requests : req'[r].pc = "evmSend" /\ req'[r].on = c =>
                          \A m \in Nat : m < req'[r].nonce => Taken(c, m)'
  BY DEF EvmNoncesFollow
<1>0. /\ IInv /\ RequestsAreRouted /\ EvmNoncesFollow /\ RequestsHoldNonces
      /\ req \in [Requests -> Request] /\ next \in [Chains -> Nat]
      /\ mempool \in [Chains -> SUBSET Tx]
      /\ c \in Chains /\ c \notin StacksChains
  BY ConstantsAssumption DEF EvmInv, IInv, TypeOK, Chains
<1>1. \A m \in Nat : Taken(c, m) => Taken(c, m)'
  BY <1>0, TakenStays
<1>2. ASSUME NEW t \in mempool'[c], NEW m \in Nat, m =< t.nonce
      PROVE  Taken(c, m)'
  <2>1. CASE t \in mempool[c]
    BY <1>0, <1>1, <1>2, <2>1 DEF EvmNoncesFollow
  <2>2. CASE t \notin mempool[c]
    <3>1. PICK r \in Requests :
             /\ req[r].on = c
             /\ \/ req[r].pc = "send" /\ Broadcast(r)
                \/ req[r].pc = "evmSend" /\ SendTransaction(r)
             /\ \E s \in Tx : /\ s.nonce = req[r].nonce
                              /\ mempool'[c] =
                                    {q \in mempool[c] : q.nonce # s.nonce} \cup {s}
      BY <1>0, <2>2, ChainStep
    <3>2. req[r].pc = "evmSend" /\ t.nonce = req[r].nonce /\ t.nonce \in Nat
      BY <1>0, <2>2, <3>1 DEF RequestsAreRouted, Tx
    <3>3. CASE m = t.nonce
      BY <3>3 DEF Taken
    <3>4. CASE m < t.nonce
      BY <1>0, <1>1, <3>1, <3>2, <3>4 DEF EvmNoncesFollow
    <3> QED  BY <1>2, <3>2, <3>3, <3>4
  <2> QED  BY <2>1, <2>2
<1>3. ASSUME NEW r \in Requests, req'[r].pc = "evmSend", req'[r].on = c,
             NEW m \in Nat, m < req'[r].nonce
      PROVE  Taken(c, m)'
  <2>1. CASE req'[r] = req[r]
    BY <1>0, <1>1, <1>3, <2>1 DEF EvmNoncesFollow
  <2>2. CASE req'[r] # req[r]
    <3>1. PopulateTransaction(r)
      <4>1. ASSUME NEW q \in Requests, NEW pc, Goto(q, pc), pc # "evmSend"
            PROVE  FALSE
        BY <1>0, <1>3, <2>2, <4>1 DEF Goto, Request
      <4>2. ASSUME NEW q \in Requests, Receive(q) PROVE FALSE
        <5>1. ASSUME NEW d, NEW pc, pc # "evmSend",
                     req' = [req EXCEPT ![q].on = d, ![q].pc = pc]
              PROVE  FALSE
          BY <1>0, <1>3, <2>2, <5>1 DEF Request
        <5> QED  BY <4>1, <4>2, <5>1 DEF Receive
      <4>3. ASSUME NEW q \in Requests, GetCallbackContract(q) \/ Broadcast(q)
                     \/ EstimateGas(q) \/ SendTransaction(q) \/ Wait(q)
            PROVE  FALSE
        BY <4>1, <4>3 DEF GetCallbackContract, Broadcast, EstimateGas,
                          SendTransaction, Wait
      <4>4. ASSUME NEW q \in Requests, GetNonceFromBlockchain(q) PROVE FALSE
        <5>1. ASSUME NEW n, req' = [req EXCEPT ![q].pc = "assign", ![q].seen = n]
              PROVE  FALSE
          BY <1>0, <1>3, <2>2, <5>1 DEF Request
        <5> QED  BY <4>1, <4>4, <5>1 DEF GetNonceFromBlockchain
      <4>5. ASSUME NEW q \in Requests, AssignNonce(q) PROVE FALSE
        BY <1>0, <1>3, <2>2, <4>5 DEF AssignNonce, Request
      <4>6. ASSUME NEW q \in Requests, q # r, PopulateTransaction(q) PROVE FALSE
        <5>1. req' = req \/ \E x : req' = [req EXCEPT ![q] = x]
          BY <4>6, <4>1 DEF PopulateTransaction
        <5> QED  BY <1>0, <2>2, <4>6, <5>1
      <4>7. CASE Restart
        BY <1>0, <1>3, <2>2, <4>7 DEF Restart, Request
      <4>8. CASE (\E d \in Chains : Mine(d)) \/ Stabilise \/ UNCHANGED vars
        BY <2>2, <4>8 DEF Mine, Stabilise, vars
      <4> QED  BY <4>2, <4>3, <4>4, <4>5, <4>6, <4>7, <4>8 DEF Next, RequestStep
    <3>2. /\ req[r].on = c /\ req'[r].nonce \in PendingNonce(c)
      <4>1. ~Goto(r, "done")
        BY <1>0, <1>3 DEF Goto, Request
      <4>2. PICK n \in PendingNonce(req[r].on) :
               req' = [req EXCEPT ![r].pc = "evmSend", ![r].nonce = n]
        BY <3>1, <4>1 DEF PopulateTransaction
      <4>3. req'[r].on = req[r].on /\ req'[r].nonce = n
        BY <1>0, <4>2 DEF Request
      <4> QED  BY <1>3, <4>2, <4>3
    <3>3. Taken(c, m)
      <4>1. CASE m < next[c]
        BY <4>1 DEF Taken
      <4>2. CASE m >= next[c]
        <5>1. next[c] \in Nat
          BY <1>0
        <5>2. req'[r].nonce \in Nat /\ m \in next[c] .. req'[r].nonce - 1
          BY <1>3, <3>2, <4>2, <5>1 DEF PendingNonce
        <5>3. ~Fits(c, m)
          BY <3>2, <5>2 DEF PendingNonce
        <5> QED  BY <4>2, <5>3 DEF Fits, Taken
      <4>3. next[c] \in Nat
        BY <1>0
      <4> QED  BY <4>1, <4>2, <4>3
    <3> QED  BY <1>1, <3>3
  <2> QED  BY <2>1, <2>2
<1> QED  BY <1>2, <1>3

\* On an EVM chain a transaction only ever waits for pending ones, with any
\* number of requests that overlap, fail and restart: the count of the node
\* leaves no gap (transaction of setStatusFunded and postCloseDLC).
THEOREM EvmLeavesNoGap == Spec => []EvmWaitsForPending
<1>1. Init => EvmInv
  BY InitInv DEF Init, EvmInv, RequestsAreRouted, EvmNoncesFollow, Chains
<1>2. EvmInv /\ IInv' /\ [Next]_vars => EvmInv'
  BY EvmStep, RouteStep DEF EvmInv
<1>3. EvmInv => EvmWaitsForPending
  <2> SUFFICES ASSUME EvmInv, NEW c \in EvmChains, NEW t \in mempool[c],
                      NEW m \in next[c] .. t.nonce
               PROVE  \E s \in mempool[c] : s.nonce = m
    BY DEF EvmWaitsForPending
  <2>1. next[c] \in Nat /\ t.nonce \in Nat
    BY DEF EvmInv, IInv, TypeOK, Tx, Chains
  <2>2. Taken(c, m)
    BY <2>1 DEF EvmInv, EvmNoncesFollow
  <2> QED  BY <2>1, <2>2 DEF Taken
<1> QED  BY <1>1, <1>2, <1>3, Invariance, PTL DEF Spec

\* All nonces up to the counter, to an accepted transaction and to one about
\* to be broadcast are settled, and so are those below what a request was told
\* by the chain.
StacksNoncesFollow ==
    \A c \in StacksChains :
        /\ nonce # Unset => \A m \in Nat : m =< nonce => Settled(c, m)
        /\ \A t \in mempool[c] : \A m \in Nat : m =< t.nonce => Settled(c, m)
        /\ \A r \in Requests : req[r].on = c =>
              /\ req[r].pc = "assign" =>
                    \A m \in Nat : m < req[r].seen => Settled(c, m)
              /\ req[r].pc = "send" =>
                    \A m \in Nat : m =< req[r].nonce => Settled(c, m)

StacksInv == IInv /\ RequestsAreRouted /\ StacksNoncesFollow

\* A request is left alone by the steps that are not its own.
LEMMA RequestStays ==
    ASSUME IInv, [Next]_vars, NEW r \in Requests, ~Restart,
           ~Receive(r), ~RequestStep(r)
    PROVE  req'[r] = req[r]
<1>0. req \in [Requests -> Request]  BY DEF IInv, TypeOK
<1>1. ASSUME NEW q \in Requests, q # r, Receive(q) \/ RequestStep(q)
      PROVE  req'[r] = req[r]
  <2>1. req' = [req EXCEPT ![q] = req'[q]]
    BY <1>0, <1>1 DEF Receive, RequestStep, GetCallbackContract, GetNonceFromBlockchain,
       AssignNonce, Broadcast, EstimateGas, PopulateTransaction, SendTransaction,
       Wait, Goto
  <2> QED  BY <1>0, <1>1, <2>1
<1>2. CASE (\E d \in Chains : Mine(d)) \/ Stabilise \/ UNCHANGED vars
  BY <1>2 DEF Mine, Stabilise, vars
<1> QED  BY <1>1, <1>2 DEF Next

\* A settled nonce stays settled: a request that is about to broadcast it gets
\* it accepted, or loses it.
LEMMA SettledStays ==
    ASSUME IInv, RequestsAreRouted, [Next]_vars,
           NEW c \in StacksChains, NEW m \in Nat, Settled(c, m)
    PROVE  Settled(c, m)'
<1>0. /\ req \in [Requests -> Request] /\ mempool \in [Chains -> SUBSET Tx]
      /\ c \in Chains
  BY DEF IInv, TypeOK, Chains
<1>1. CASE Taken(c, m)
  <2>1. Taken(c, m)'
    BY <1>0, <1>1, TakenStays
  <2> QED  BY <2>1 DEF Taken, Settled, Held
<1>l. lost \subseteq lost'
  BY DEF Next, RequestStep, Receive, GetCallbackContract, GetNonceFromBlockchain,
         AssignNonce, Broadcast, EstimateGas, PopulateTransaction, SendTransaction,
         Wait, Restart, Mine, Stabilise, vars
<1>2. CASE m \in lost
  BY <1>2, <1>l DEF Settled
<1>3. CASE ~Taken(c, m) /\ m \notin lost
  <2>1. PICK r \in Requests : req[r].pc = "send" /\ req[r].on = c /\ req[r].nonce = m
    BY <1>3 DEF Taken, Settled, Held
  <2>2. CASE req'[r] = req[r]
    BY <2>1, <2>2 DEF Settled, Held
  <2>3. CASE Broadcast(r) /\ m \notin lost'
    <3>1. mempool' = [mempool EXCEPT ![c] = @ \cup {[req |-> r, nonce |-> m]}]
      BY <2>1, <2>3 DEF Broadcast
    <3>2. [req |-> r, nonce |-> m] \in mempool'[c]
      BY <1>0, <3>1
    <3>3. \E t \in mempool'[c] : t.nonce = m
      BY <3>2
    <3> QED  BY <3>3 DEF Settled, Held
  <2>4. Restart => m \in lost'
    BY <2>1 DEF Restart
  <2>5. ~Receive(r) /\ (RequestStep(r) => Broadcast(r))
    BY <2>1 DEF Receive, RequestStep, GetCallbackContract, GetNonceFromBlockchain,
       AssignNonce, EstimateGas, PopulateTransaction, SendTransaction, Wait
  <2> QED  BY <2>2, <2>3, <2>4, <2>5, RequestStays DEF Settled
<1> QED  BY <1>1, <1>2, <1>3

\* What getNonce hands out has only settled nonces below it.
LEMMA AssignedFollows ==
    ASSUME StacksInv, [Next]_vars, NEW r \in Requests, AssignNonce(r),
           NEW c \in StacksChains, req[r].on = c,
           NEW m \in Nat, m =< NewNonce(req[r].seen)
    PROVE  Settled(c, m)'
<1> DEFINE n == NewNonce(req[r].seen)
<1>0. /\ IInv /\ RequestsAreRouted /\ StacksNoncesFollow
      /\ req \in [Requests -> Request] /\ req[r].seen \in Nat
      /\ nonce \in Nat \cup {Unset} /\ req[r].pc = "assign"
  BY DEF StacksInv, IInv, TypeOK, RequestsHoldNonces, AssignNonce
<1>1. n \in Nat
  BY <1>0, NewNonceIsNew
<1>2. CASE m = n
  <2>1. req'[r].pc = "send" /\ req'[r].on = c /\ req'[r].nonce = n
    BY <1>0 DEF AssignNonce, Request
  <2> QED  BY <1>2, <2>1 DEF Settled, Held
<1>3. CASE m < n
  <2>1. n = req[r].seen \/ (nonce \in Nat /\ nonce # Unset /\ n = nonce + 1)
    BY <1>0, ConstantsAssumption DEF NewNonce
  <2>2. Settled(c, m)
    <3>1. CASE n = req[r].seen
      BY <1>0, <1>3, <3>1 DEF StacksNoncesFollow
    <3>2. CASE nonce \in Nat /\ nonce # Unset /\ n = nonce + 1
      <4>1. m =< nonce
        BY <1>3, <3>2
      <4> QED  BY <1>0, <3>2, <4>1 DEF StacksNoncesFollow
    <3> QED  BY <2>1, <3>1, <3>2
  <2> QED  BY <1>0, <2>2, SettledStays
<1> QED  BY <1>1, <1>2, <1>3

LEMMA StacksStep ==
    ASSUME \A c, d \in StacksChains : c = d, StacksInv, [Next]_vars
    PROVE  StacksNoncesFollow'
<1> SUFFICES ASSUME NEW c \in StacksChains
             PROVE  /\ nonce' # Unset => \A m \in Nat : m =< nonce' => Settled(c, m)'
                    /\ \A t \in mempool'[c] : \A m \in Nat :
                          m =< t.nonce => Settled(c, m)'
                    /\ \A r \in Requests : req'[r].on = c =>
                          /\ req'[r].pc = "assign" => \A m \in Nat :
                                m < req'[r].seen => Settled(c, m)'
                          /\ req'[r].pc = "send" => \A m \in Nat :
                                m =< req'[r].nonce => Settled(c, m)'
  BY DEF StacksNoncesFollow
<1>0. /\ IInv /\ RequestsAreRouted /\ StacksNoncesFollow
      /\ req \in [Requests -> Request] /\ next \in [Chains -> Nat]
      /\ mempool \in [Chains -> SUBSET Tx] /\ nonce \in Nat \cup {Unset}
      /\ c \in Chains /\ c \notin EvmChains
  BY ConstantsAssumption DEF StacksInv, IInv, TypeOK, Chains
<1>s. \A m \in Nat : Settled(c, m) => Settled(c, m)'
  BY <1>0, SettledStays
<1>a. ASSUME NEW r \in Requests, AssignNonce(r)
      PROVE  \A m \in Nat : m =< NewNonce(req[r].seen) => Settled(c, m)'
  <2>1. req[r].on = c
    BY <1>0, <1>a DEF AssignNonce, RequestsAreRouted
  <2> QED  BY <1>a, <2>1, AssignedFollows
<1>1. ASSUME nonce' # Unset, NEW m \in Nat, m =< nonce' PROVE Settled(c, m)'
  <2>1. CASE nonce' = nonce
    BY <1>0, <1>s, <1>1, <2>1 DEF StacksNoncesFollow
  <2>2. CASE \E r \in Requests : AssignNonce(r)
    BY <1>1, <1>a, <2>2 DEF AssignNonce
  <2>3. CASE nonce' # nonce /\ \A r \in Requests : ~AssignNonce(r)
    BY <1>1, <2>3 DEF Next, RequestStep, Receive, GetCallbackContract,
         GetNonceFromBlockchain, Broadcast, EstimateGas, PopulateTransaction,
         SendTransaction, Wait, Restart, Mine, Stabilise, vars
  <2> QED  BY <2>1, <2>2, <2>3
<1>2. ASSUME NEW t \in mempool'[c], NEW m \in Nat, m =< t.nonce
      PROVE  Settled(c, m)'
  <2>1. CASE t \in mempool[c]
    BY <1>0, <1>s, <1>2, <2>1 DEF StacksNoncesFollow
  <2>2. CASE t \notin mempool[c]
    <3>1. PICK r \in Requests :
             /\ req[r].on = c
             /\ \/ req[r].pc = "send" /\ Broadcast(r)
                \/ req[r].pc = "evmSend" /\ SendTransaction(r)
             /\ \E s \in Tx : /\ s.nonce = req[r].nonce
                              /\ mempool'[c] =
                                    {q \in mempool[c] : q.nonce # s.nonce} \cup {s}
      BY <1>0, <2>2, ChainStep
    <3>2. req[r].pc = "send" /\ t.nonce = req[r].nonce
      BY <1>0, <2>2, <3>1 DEF RequestsAreRouted
    <3> QED  BY <1>0, <1>s, <1>2, <3>1, <3>2 DEF StacksNoncesFollow
  <2> QED  BY <2>1, <2>2
<1>3. ASSUME NEW r \in Requests, req'[r].on = c, req'[r].pc \in {"assign", "send"},
             NEW m \in Nat, req'[r].pc = "assign" => m < req'[r].seen,
             req'[r].pc = "send" => m =< req'[r].nonce
      PROVE  Settled(c, m)'
  <2>1. CASE req'[r] = req[r]
    BY <1>0, <1>s, <1>3, <2>1 DEF StacksNoncesFollow
  <2>2. CASE AssignNonce(r)
    <3>1. req'[r].nonce = NewNonce(req[r].seen) /\ req'[r].pc = "send"
      BY <1>0, <2>2 DEF AssignNonce, Request
    <3> QED  BY <1>3, <1>a, <2>2, <3>1
  <2>3. CASE GetNonceFromBlockchain(r)
    <3>1. ~Goto(r, "done")
      BY <1>0, <1>3 DEF Goto, Request
    <3>2. PICK n \in AccountNonces(req[r].on) :
             req' = [req EXCEPT ![r].pc = "assign", ![r].seen = n]
      BY <2>3, <3>1 DEF GetNonceFromBlockchain
    <3>3. req[r].on = c /\ req'[r].seen = n /\ req'[r].pc = "assign"
      BY <1>0, <1>3, <3>2 DEF Request
    <3>4. m < n
      BY <1>3, <3>3
    <3>5. Settled(c, m)
      <4>1. CASE n = next[c]
        BY <3>4, <4>1 DEF Settled
      <4>2. CASE n # next[c]
        <5>1. PICK t \in mempool[c] : n = t.nonce + 1
          BY <3>2, <3>3, <4>2 DEF AccountNonces
        <5>2. m =< t.nonce
          BY <1>0, <3>4, <5>1 DEF Tx
        <5> QED  BY <1>0, <5>2 DEF StacksNoncesFollow
      <4> QED  BY <4>1, <4>2
    <3> QED  BY <1>s, <3>5
  <2>4. CASE req'[r] # req[r] /\ ~AssignNonce(r) /\ ~GetNonceFromBlockchain(r)
    <3>1. ASSUME NEW pc, pc \notin {"assign", "send"}, Goto(r, pc) PROVE FALSE
      BY <1>0, <1>3, <3>1 DEF Goto, Request
    <3>2. ASSUME NEW d, NEW pc, pc \notin {"assign", "send"},
                 req' = [req EXCEPT ![r].on = d, ![r].pc = pc]
          PROVE  FALSE
      BY <1>0, <1>3, <3>2 DEF Request
    <3>3. ~Receive(r)
      <4>1. ASSUME NEW d, NEW b, req' = [req EXCEPT ![r].on = d,
                              ![r].pc = IF b THEN "estimate" ELSE "callback"]
            PROVE  FALSE
        <5>1. (IF b THEN "estimate" ELSE "callback") \notin {"assign", "send"}
          OBVIOUS
        <5> QED  BY <4>1, <5>1, <3>2
      <4> QED  BY <3>1, <4>1 DEF Receive
    <3>4. ASSUME NEW n, req' = [req EXCEPT ![r].pc = "evmSend", ![r].nonce = n]
          PROVE  FALSE
      BY <1>0, <1>3, <3>4 DEF Request
    <3>5. ~RequestStep(r)
      BY <2>4, <3>1, <3>4 DEF RequestStep, GetCallbackContract, Broadcast,
         EstimateGas, PopulateTransaction, SendTransaction, Wait
    <3>6. ~Restart
      BY <1>0, <1>3, <2>4 DEF Restart, Request
    <3> QED  BY <1>0, <2>4, <3>3, <3>5, <3>6, RequestStays
  <2> QED  BY <2>1, <2>2, <2>3, <2>4
<1> QED  BY <1>1, <1>2, <1>3

\* With one Stacks chain, an accepted call waits only for nonces that are held
\* or that a failed call has lost, however requests overlap in getNonce and
\* whatever the chain counts (StacksNonceService).
THEOREM StacksGapsWereLost ==
    ASSUME \A c, d \in StacksChains : c = d
    PROVE  Spec => []StacksGapsAreLost
<1>1. Init => StacksInv
  BY InitInv DEF Init, StacksInv, RequestsAreRouted, StacksNoncesFollow, Chains
<1>2. StacksInv /\ IInv' /\ [Next]_vars => StacksInv'
  BY StacksStep, RouteStep DEF StacksInv
<1>3. StacksInv => StacksGapsAreLost
  <2> SUFFICES ASSUME StacksInv, NEW c \in StacksChains,
                      NEW t \in mempool[c], NEW m \in next[c] .. t.nonce
               PROVE  Held(c, m) \/ m \in lost
    BY DEF StacksGapsAreLost
  <2>1. next[c] \in Nat /\ t.nonce \in Nat
    BY DEF StacksInv, IInv, TypeOK, Tx, Chains
  <2>2. Settled(c, m)
    BY <2>1 DEF StacksInv, StacksNoncesFollow
  <2> QED  BY <2>1, <2>2 DEF Settled
<1> QED  BY <1>1, <1>2, <1>3, Invariance, PTL DEF Spec
=============================================================================
