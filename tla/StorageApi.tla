----------------------------- MODULE StorageApi -----------------------------
(***************************************************************************)
(* The storage API with its clients.  A client call first asks for a       *)
(* nonce, then sends the request it signed with it.  The server keeps the  *)
(* last NONCE_VEC_LENGTH nonces in memory: the outer middleware looks the  *)
(* nonce up when the request arrives, the inner one removes it when the    *)
(* request reaches its handler, awaits later.  Each handler is one SQL     *)
(* statement.  Requests in flight are not ordered, and one whose client    *)
(* has given up goes on.                                                   *)
(*                                                                         *)
(* Clients sign correctly: signatures, keys and the requests without an    *)
(* authorization header are left out.  A nonce is its number in the order  *)
(* of issue, so the Vec of nonces is a set of numbers, the oldest the      *)
(* smallest.                                                               *)
(***************************************************************************)
EXTENDS Integers, FiniteSets

CONSTANTS
    Callers,           \* tasks of the wallets and attestors
    Rows, Values, Absent,
    NONCE_VEC_LENGTH,  \* 100 in the code
    MaxCalls           \* bound: calls begun

ASSUME StorageAssumption ==
    /\ Absent \notin Values
    /\ NONCE_VEC_LENGTH \in Nat \ {0}
    /\ MaxCalls \in Nat

VARIABLES
    rows,      \* the tables of contracts and events
    nonces,    \* ServerNonce: issued, not used, not evicted
    next,      \* nonces issued since the beginning
    started,   \* nonces issued before the last start of the server
    begun,     \* calls begun so far
    call,      \* the call each caller has in progress, or its last answer
    requests   \* requests on their way to a handler

server == <<nonces, next, started>>
vars == <<rows, nonces, next, started, begun, call, requests>>

\* What a caller may ask: rows by id, rows by state, or all of its rows.
Filters ==
    [kind : {"read"}, among : {{r} : r \in Rows}, holding : {Values}]
       \cup [kind : {"read"}, among : {Rows}, holding : {{v} : v \in Values}]
       \cup [kind : {"read"}, among : {Rows}, holding : {Values}]
Changes == [kind : {"create", "update"}, row : Rows, value : Values]
              \cup [kind : {"delete"}, row : Rows]
Operations == Filters \cup Changes
NoOperation == [kind |-> "none"]

Answers == [ok : BOOLEAN, found : SUBSET [row : Rows, value : Values]]
Failed == [ok |-> FALSE, found |-> {}]
Done == [ok |-> TRUE, found |-> {}]

\* No call in progress; answer is what the last one returned.
Returned(answer) ==
    [step |-> "idle", n |-> 0, op |-> NoOperation, answer |-> answer]

Call == [step   : {"idle", "asking", "waiting"},
         n      : Nat,                             \* which of all calls
         op     : Operations \cup {NoOperation},
         answer : Answers]
Request == [caller : Callers, n : Nat, op : Operations, nonce : Nat,
            at     : {"sent", "checked"},
            listed : BOOLEAN]    \* was its nonce in the list on arrival?

Init ==
    /\ rows = [r \in Rows |-> Absent]
    /\ nonces = {} /\ next = 0 /\ started = 0
    /\ begun = 0
    /\ call = [c \in Callers |-> Returned(Failed)]
    /\ requests = {}

-----------------------------------------------------------------------------
\* A client function is called: it sends GET /request_nonce.
Begin(c) ==
    /\ call[c].step = "idle" /\ begun < MaxCalls
    /\ \E op \in Operations :
          call' = [call EXCEPT ![c] = [step |-> "asking", n |-> begun,
                                       op |-> op, answer |-> Failed]]
    /\ begun' = begun + 1
    /\ UNCHANGED <<rows, server, requests>>

\* Mutant: one nonce too many is kept.
MakeRoomOneShort ==
    {n \in nonces : Cardinality({m \in nonces : m > n}) < NONCE_VEC_LENGTH}

\* Mutant: the newest nonce is removed in place of the oldest.
MakeRoomNewest ==
    {n \in nonces : Cardinality({m \in nonces : m < n}) < NONCE_VEC_LENGTH - 1}

\* while len >= NONCE_VEC_LENGTH: remove the oldest.
MakeRoom ==
    {n \in nonces : Cardinality({m \in nonces : m > n}) < NONCE_VEC_LENGTH - 1}

\* request_nonce on the server; with the answer the client signs and sends
\* its request in the same step.
RequestNonce(c) ==
    /\ call[c].step = "asking"
    /\ nonces' = MakeRoom \cup {next}
    /\ next' = next + 1
    /\ requests' = requests \cup
          {[caller |-> c, n |-> call[c].n, op |-> call[c].op, nonce |-> next,
            at |-> "sent", listed |-> FALSE]}
    /\ call' = [call EXCEPT ![c].step = "waiting"]
    /\ UNCHANGED <<rows, started, begun>>

\* Verifier::call copies the list, then awaits the body of the request.
CheckNonce(r) ==
    /\ r \in requests /\ r.at = "sent"
    /\ requests' = (requests \ {r}) \cup
          {[r EXCEPT !.at = "checked", !.listed = r.nonce \in nonces]}
    /\ UNCHANGED <<rows, server, begun, call>>

\* Is the client of this request still waiting for it?
Awaited(r) == call[r.caller].step = "waiting" /\ call[r.caller].n = r.n

\* The request reaches its handler: the inner middleware removes the nonce
\* from the list, the handler answers, and a client that has given up hears
\* nothing.
Answer(r, answer) ==
    /\ nonces' = nonces \ {r.nonce}
    /\ requests' = requests \ {r}
    /\ call' = IF Awaited(r)
               THEN [call EXCEPT ![r.caller] = Returned(answer)]
               ELSE call
    /\ UNCHANGED <<next, started, begun>>

\* A write whose nonce was not in the list: the body has been consumed, the
\* handler cannot parse it, and the status becomes 403.
RefuseWrite(r) ==
    /\ r \in requests /\ r.at = "checked" /\ ~r.listed /\ r.op \in Changes
    /\ Answer(r, Failed)
    /\ UNCHANGED rows

\* get_contracts, get_events: they run before the nonce is judged.  A bad
\* nonce only changes the status, which the client does not look at.
Read(r) ==
    /\ r \in requests /\ r.at = "checked" /\ r.op \in Filters
    /\ Answer(r, [ok |-> TRUE,
                  found |-> {[row |-> q, value |-> rows[q]] :
                     q \in {p \in r.op.among : rows[p] \in r.op.holding}}])
    /\ UNCHANGED rows

\* The writes whose nonce was in the list.
Accepted(r, kind) ==
    r \in requests /\ r.at = "checked" /\ r.listed /\ r.op.kind = kind

\* create_contract, create_event: the unique index refuses a second row.
Create(r) ==
    /\ Accepted(r, "create")
    /\ \/ /\ rows[r.op.row] = Absent
          /\ rows' = [rows EXCEPT ![r.op.row] = r.op.value]
          /\ Answer(r, Done)
       \/ /\ rows[r.op.row] # Absent
          /\ Answer(r, Failed)
          /\ UNCHANGED rows

\* Mutant: an update that found no row is reported as a success.
UpdateUnchecked(r) ==
    /\ Accepted(r, "update")
    /\ rows' = [rows EXCEPT ![r.op.row] = IF @ = Absent THEN @ ELSE r.op.value]
    /\ Answer(r, Done)

\* update_contract, update_event: 404 when no row has this id.
Update(r) ==
    /\ Accepted(r, "update")
    /\ \/ /\ rows[r.op.row] # Absent
          /\ rows' = [rows EXCEPT ![r.op.row] = r.op.value]
          /\ Answer(r, Done)
       \/ /\ rows[r.op.row] = Absent
          /\ Answer(r, Failed)
          /\ UNCHANGED rows

\* delete_contract, delete_event: likewise.
Delete(r) ==
    /\ Accepted(r, "delete")
    /\ \/ /\ rows[r.op.row] # Absent
          /\ rows' = [rows EXCEPT ![r.op.row] = Absent]
          /\ Answer(r, Done)
       \/ /\ rows[r.op.row] = Absent
          /\ Answer(r, Failed)
          /\ UNCHANGED rows

\* REQWEST_TIMEOUT, a broken connection, or an answer that was lost on its
\* way back: the client returns an error, a request not yet handled goes on.
GiveUp(c) ==
    /\ call' = [call EXCEPT ![c] = Returned(Failed)]
    /\ UNCHANGED <<rows, server, begun, requests>>

\* A request is lost on its way, or its handler dies before the statement
\* (pool.get panics when no connection is free).
Lose(r) ==
    /\ requests' = requests \ {r}
    /\ UNCHANGED <<rows, server, begun, call>>

\* The process restarts: the nonces are gone, and the requests it has begun.
Restart ==
    /\ nonces' = {} /\ started' = next
    /\ requests' = {r \in requests : r.at = "sent"}
    /\ UNCHANGED <<rows, next, begun, call>>

Next ==
    \/ \E c \in Callers : Begin(c) \/ RequestNonce(c) \/ GiveUp(c)
    \/ \E r \in requests : CheckNonce(r) \/ RefuseWrite(r) \/ Read(r)
                              \/ Create(r) \/ Update(r) \/ Delete(r) \/ Lose(r)
    \/ Restart

Spec == Init /\ [][Next]_vars

-----------------------------------------------------------------------------
\* The list of nonces never outgrows its bound, whatever clients leave unused.
TypeOK ==
    /\ rows \in [Rows -> Values \cup {Absent}]
    /\ nonces \subseteq 0 .. next - 1
    /\ Cardinality(nonces) <= NONCE_VEC_LENGTH
    /\ begun \in Nat /\ next \in Nat /\ started \in 0 .. next
    /\ call \in [Callers -> Call]
    /\ requests \subseteq Request

\* A nonce that was issued n nonces ago by this process.
ForgottenSince(n) == n < started \/ next - n > NONCE_VEC_LENGTH

\* An honest write is only refused when at least NONCE_VEC_LENGTH nonces were
\* issued after its own, or the server has restarted since: the list of
\* request_nonce, the copy that Verifier takes of it and the removal of used
\* nonces never lose another nonce.
RefusedWasForgotten ==
    \A r \in requests :
       r.at = "checked" /\ ~r.listed => ForgottenSince(r.nonce)

\* The state of RowStore: before the handler has answered the call is only
\* called, and a request that nobody awaits is a late write.
RequestedLate ==
    {[caller |-> r.caller, n |-> r.n, op |-> r.op] :
       r \in {q \in requests : q.op \in Changes /\ ~Awaited(q)}}
StoreView(k) == [step |-> IF k.step = "idle" THEN "idle" ELSE "called",
                 n |-> k.n, op |-> k.op, answer |-> k.answer]
StoreCall == [c \in Callers |-> StoreView(call[c])]
Store == INSTANCE RowStore WITH call <- StoreCall, late <- RequestedLate

\* Callers see a store that performs each call at one instant, or not at
\* all, or, if they gave it up, perhaps later: nonces, restarts, lost and
\* overtaking requests show in no other way.
ImplementsRowStore == Store!Spec
=============================================================================
