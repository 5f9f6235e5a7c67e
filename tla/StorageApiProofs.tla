-------------------------- MODULE StorageApiProofs --------------------------
(***************************************************************************)
(* The list of nonces is bounded and forgets nothing it need not, and the  *)
(* storage API implements RowStore, for any number of clients, rows and    *)
(* calls in flight, and any bound of the list.                             *)
(***************************************************************************)
EXTENDS StorageApi, FiniteSetTheorems, TLAPS

\* Calls are numbered apart.  A request belongs to the call with its number,
\* which then waits for it, or to nobody any more.
CallsAreApart ==
    /\ \A c \in Callers : call[c].step # "idle" =>
          call[c].n < begun /\ call[c].op \in Operations
    /\ \A c, d \in Callers :
          /\ call[c].step # "idle" /\ call[d].step # "idle"
          /\ call[c].n = call[d].n
          => c = d
    /\ \A r \in requests : r.n < begun
    /\ \A r, s \in requests : r.n = s.n => r = s

RequestsAreOwned ==
    \A r \in requests, c \in Callers :
       call[c].step # "idle" /\ call[c].n = r.n =>
          /\ c = r.caller
          /\ call[c].step = "waiting"
          /\ call[c].op = r.op

\* No two requests carry one nonce, and a nonce is in the list until its
\* request arrives, unless it was forgotten for age or by a restart.
NoncesAreKept ==
    /\ \A r \in requests : r.nonce < next
    /\ \A r, s \in requests : r.nonce = s.nonce => r = s
    /\ \A r \in requests : r.at = "sent" =>
          r.nonce \in nonces \/ ForgottenSince(r.nonce)

IInv ==
    /\ TypeOK
    /\ CallsAreApart
    /\ RequestsAreOwned
    /\ NoncesAreKept
    /\ RefusedWasForgotten

-----------------------------------------------------------------------------
\* Fewer than k elements of a finite set of numbers have fewer than k above
\* them: counting the greater ones numbers the elements.
LEMMA FewHaveFewAbove ==
    ASSUME NEW S \in SUBSET Nat, IsFiniteSet(S), NEW k \in Nat,
           NEW T, T = {n \in S : Cardinality({m \in S : m > n}) < k}
    PROVE  IsFiniteSet(T) /\ Cardinality(T) <= k
<1> DEFINE Above(n) == {m \in S : m > n}
           f == [n \in T |-> Cardinality(Above(n))]
<1>0. T \subseteq S /\ S \subseteq Nat
  OBVIOUS
<1>1. \A n \in S : IsFiniteSet(Above(n)) /\ Cardinality(Above(n)) \in Nat
  <2> TAKE n \in S
  <2>1. Above(n) \in SUBSET S  OBVIOUS
  <2>2. IsFiniteSet(Above(n))  BY <2>1, FS_Subset
  <2> QED  BY <2>2, FS_CardinalityType
<1>2. f \in [T -> 0 .. k - 1]
  <2>1. \A n \in T : Cardinality(Above(n)) < k
    OBVIOUS
  <2> HIDE DEF Above
  <2>2. \A n \in T : Cardinality(Above(n)) \in 0 .. k - 1
    BY <1>0, <1>1, <2>1
  <2> QED  BY <2>2
<1>3. \A x, y \in T : x < y => f[x] # f[y]
  <2> TAKE x, y \in T
  <2> HAVE x < y
  <2>0. x \in Nat /\ y \in Nat /\ x \in S /\ y \in S
    BY <1>0
  <2>1. Above(y) \in SUBSET Above(x)
    <3> SUFFICES ASSUME NEW m \in Above(y) PROVE m \in Above(x)
      OBVIOUS
    <3>1. m \in S /\ m \in Nat /\ m > y
      BY <1>0
    <3> QED  BY <2>0, <3>1
  <2>2. y \in Above(x) /\ y \notin Above(y)
    BY <2>0
  <2> HIDE DEF Above
  <2>3. Above(x) # Above(y)
    BY <2>2
  <2>4. Cardinality(Above(x)) # Cardinality(Above(y))
    BY <1>1, <2>0, <2>1, <2>3, FS_Subset
  <2> QED  BY <2>4
<1>4. f \in Injection(T, 0 .. k - 1)
  <2> HIDE DEF f
  <2>1. \A x, y \in T : f[x] = f[y] => x = y
    BY <1>0, <1>3
  <2> QED  BY <1>2, <2>1 DEF Injection, IsInjective
<1>5. IsFiniteSet(0 .. k - 1) /\ Cardinality(0 .. k - 1) = k
  BY FS_Interval
<1> QED  BY <1>4, <1>5, FS_Injection

\* The list is finite, its elements are numbers.
LEMMA ListIsFinite ==
    ASSUME TypeOK
    PROVE  nonces \subseteq Nat /\ IsFiniteSet(nonces)
<1>1. nonces \in SUBSET (0 .. next - 1) /\ next \in Nat
  BY DEF TypeOK
<1>2. next - 1 \in Int /\ 0 .. next - 1 \subseteq Nat
  BY <1>1
<1>3. IsFiniteSet(0 .. next - 1)
  BY <1>2, FS_Interval
<1>4. IsFiniteSet(nonces)
  BY <1>1, <1>3, FS_Subset
<1> QED  BY <1>1, <1>2, <1>4

\* request_nonce leaves room for one more.
LEMMA RoomIsMade ==
    ASSUME TypeOK
    PROVE  /\ IsFiniteSet(MakeRoom)
           /\ Cardinality(MakeRoom) <= NONCE_VEC_LENGTH - 1
<1>1. NONCE_VEC_LENGTH - 1 \in Nat
  BY StorageAssumption
<1> QED  BY <1>1, ListIsFinite, FewHaveFewAbove DEF MakeRoom

\* It only removes nonces that at least NONCE_VEC_LENGTH later ones follow,
\* the new one included.
LEMMA RemovedIsOld ==
    ASSUME TypeOK, NEW n \in nonces, n \notin MakeRoom
    PROVE  next + 1 - n > NONCE_VEC_LENGTH
<1> DEFINE Above == {m \in nonces : m > n}
<1>1. /\ next \in Nat /\ n \in 0 .. next - 1 /\ nonces \subseteq 0 .. next - 1
      /\ NONCE_VEC_LENGTH \in Nat \ {0}
  BY StorageAssumption DEF TypeOK
<1>2. Above \in SUBSET (n + 1 .. next - 1)
  <2> SUFFICES ASSUME NEW m \in Above PROVE m \in n + 1 .. next - 1
    OBVIOUS
  <2>1. m \in 0 .. next - 1 /\ m > n
    BY <1>1
  <2> QED  BY <1>1, <2>1
<1>3. /\ IsFiniteSet(n + 1 .. next - 1)
      /\ Cardinality(n + 1 .. next - 1) = next - 1 - n
  BY <1>1, FS_Interval
<1>4. Cardinality(Above) <= next - 1 - n /\ Cardinality(Above) \in Nat
  BY <1>2, <1>3, FS_Subset, FS_CardinalityType
<1>5. ~(Cardinality(Above) < NONCE_VEC_LENGTH - 1)
  BY DEF MakeRoom
<1> QED  BY <1>1, <1>4, <1>5

-----------------------------------------------------------------------------
LEMMA InitInv == Init => IInv
<1> SUFFICES ASSUME Init PROVE IInv
  OBVIOUS
<1>1. Cardinality({}) = 0
  BY FS_EmptySet
<1>2. TypeOK
  BY <1>1, StorageAssumption DEF Init, TypeOK, Returned, Failed, Call, Answers
<1>3. CallsAreApart /\ RequestsAreOwned
  BY DEF Init, CallsAreApart, RequestsAreOwned, Returned
<1>4. NoncesAreKept /\ RefusedWasForgotten
  BY DEF Init, NoncesAreKept, RefusedWasForgotten
<1> QED  BY <1>2, <1>3, <1>4 DEF IInv

\* A call begins with a number of its own.
LEMMA BeginStep ==
    ASSUME IInv, NEW c \in Callers, Begin(c)
    PROVE  IInv'
<1>0. TypeOK /\ CallsAreApart /\ RequestsAreOwned /\ NoncesAreKept
      /\ RefusedWasForgotten
  BY DEF IInv
<1>1. PICK op \in Operations :
        call' = [call EXCEPT ![c] = [step |-> "asking", n |-> begun,
                                     op |-> op, answer |-> Failed]]
  BY DEF Begin
<1>2. /\ call[c].step = "idle" /\ begun' = begun + 1
      /\ UNCHANGED <<rows, nonces, next, started, requests>>
  BY DEF Begin, server
<1>3. TypeOK'
  <2>1. [step |-> "asking", n |-> begun, op |-> op, answer |-> Failed] \in Call
    BY <1>0 DEF TypeOK, Call, Answers, Failed
  <2>2. call' \in [Callers -> Call]
    BY <1>0, <1>1, <2>1 DEF TypeOK
  <2> QED  BY <1>0, <1>2, <2>2 DEF TypeOK
<1>4. /\ \A d \in Callers \ {c} : call'[d] = call[d]
      /\ call'[c].n = begun /\ call'[c].step = "asking" /\ call'[c].op = op
      /\ begun \in Nat
      /\ \A d \in Callers : call[d].n \in Nat
      /\ \A r \in requests : r.n \in Nat
  BY <1>0, <1>1 DEF TypeOK, Call, Request
<1>5. CallsAreApart'
  BY <1>0, <1>2, <1>4 DEF CallsAreApart
<1>6. RequestsAreOwned'
  BY <1>0, <1>2, <1>4 DEF RequestsAreOwned, CallsAreApart
<1>7. NoncesAreKept' /\ RefusedWasForgotten'
  BY <1>0, <1>2 DEF NoncesAreKept, RefusedWasForgotten, ForgottenSince
<1> QED  BY <1>3, <1>5, <1>6, <1>7 DEF IInv

\* What a step that only takes calls to their end and requests away keeps.
LEMMA EndStep ==
    ASSUME IInv, TypeOK', UNCHANGED <<next, begun>>,
           requests' \subseteq requests,
           \A c \in Callers : call'[c] = call[c] \/ call'[c].step = "idle",
           \/ UNCHANGED <<nonces, started>>
           \/ \E r \in requests \ requests' :
                 nonces' = nonces \ {r.nonce} /\ UNCHANGED started
           \/ started' = next
    PROVE  IInv'
<1>0. TypeOK /\ CallsAreApart /\ RequestsAreOwned /\ NoncesAreKept
      /\ RefusedWasForgotten
  BY DEF IInv
<1>1. CallsAreApart'
  BY <1>0 DEF CallsAreApart
<1>2. RequestsAreOwned'
  BY <1>0 DEF RequestsAreOwned
<1>3. next \in Nat /\ started \in 0 .. next /\ \A r \in requests : r.nonce \in Nat
  BY <1>0 DEF TypeOK, Request
<1>4. \A r \in requests : ForgottenSince(r.nonce) => ForgottenSince(r.nonce)'
  <2>1. started' = started \/ started' = next
    OBVIOUS
  <2> QED  BY <1>0, <1>3, <2>1 DEF ForgottenSince, NoncesAreKept
<1>5. CASE started' = next
  <2>1. \A r \in requests : ForgottenSince(r.nonce)'
    BY <1>0, <1>5 DEF NoncesAreKept, ForgottenSince
  <2> QED  BY <1>0, <1>1, <1>2, <2>1
           DEF IInv, NoncesAreKept, RefusedWasForgotten
<1>6. CASE \/ UNCHANGED <<nonces, started>>
           \/ \E r \in requests \ requests' :
                 nonces' = nonces \ {r.nonce} /\ UNCHANGED started
  <2>1. \A r \in requests' : r.nonce \in nonces => r.nonce \in nonces'
    BY <1>0, <1>6 DEF NoncesAreKept
  <2>2. NoncesAreKept'
    BY <1>0, <1>4, <2>1 DEF NoncesAreKept
  <2>3. RefusedWasForgotten'
    BY <1>0, <1>4 DEF RefusedWasForgotten
  <2> QED  BY <1>1, <1>2, <2>2, <2>3 DEF IInv
<1> QED  BY <1>5, <1>6

\* A request is sent with a new nonce; what makes room for it was old.
LEMMA RequestNonceStep ==
    ASSUME IInv, NEW c \in Callers, RequestNonce(c)
    PROVE  IInv'
<1>0. TypeOK /\ CallsAreApart /\ RequestsAreOwned /\ NoncesAreKept
      /\ RefusedWasForgotten
  BY DEF IInv
<1> DEFINE new == [caller |-> c, n |-> call[c].n, op |-> call[c].op,
                   nonce |-> next, at |-> "sent", listed |-> FALSE]
<1>1. /\ call[c].step = "asking"
      /\ nonces' = MakeRoom \cup {next} /\ next' = next + 1
      /\ requests' = requests \cup {new}
      /\ call' = [call EXCEPT ![c].step = "waiting"]
      /\ UNCHANGED <<rows, started, begun>>
  BY DEF RequestNonce
<1>2. /\ next \in Nat /\ started \in 0 .. next /\ nonces \subseteq 0 .. next - 1
      /\ call[c] \in Call /\ call[c].op \in Operations /\ call[c].n < begun
      /\ NONCE_VEC_LENGTH \in Nat \ {0}
  BY <1>0, <1>1, StorageAssumption DEF TypeOK, CallsAreApart
<1>3. MakeRoom \subseteq nonces
  BY DEF MakeRoom
<1>new. /\ new \in Request /\ new.caller = c /\ new.n = call[c].n
        /\ new.op = call[c].op /\ new.nonce = next /\ new.at = "sent"
  BY <1>2 DEF Request, Call
<1> HIDE DEF new
<1>4. Cardinality(nonces') <= NONCE_VEC_LENGTH
  <2>1. IsFiniteSet(MakeRoom) /\ Cardinality(MakeRoom) <= NONCE_VEC_LENGTH - 1
    BY <1>0, RoomIsMade
  <2>2. Cardinality(MakeRoom) \in Nat
    BY <2>1, FS_CardinalityType
  <2>3. Cardinality(MakeRoom \cup {next}) <= Cardinality(MakeRoom) + 1
    BY <2>1, <2>2, FS_AddElement
  <2>4. Cardinality(MakeRoom \cup {next}) \in Nat
    BY <2>1, FS_AddElement, FS_CardinalityType
  <2> QED  BY <1>1, <1>2, <2>1, <2>2, <2>3, <2>4
<1>5. TypeOK'
  <2>2. call' \in [Callers -> Call]
    BY <1>0, <1>1 DEF TypeOK, Call
  <2>3. nonces' \subseteq 0 .. next' - 1
    BY <1>1, <1>2, <1>3
  <2>4. next' \in Nat /\ started' \in 0 .. next'
    BY <1>1, <1>2
  <2> QED  BY <1>0, <1>1, <1>new, <1>4, <2>2, <2>3, <2>4 DEF TypeOK
<1>6. /\ \A d \in Callers \ {c} : call'[d] = call[d]
      /\ call'[c].n = call[c].n /\ call'[c].op = call[c].op
      /\ call'[c].step = "waiting"
  BY <1>0, <1>1 DEF TypeOK, Call
<1>7. \A r \in requests : r.n # new.n
  BY <1>0, <1>1, <1>new DEF RequestsAreOwned
<1>8. CallsAreApart'
  <2>1. \A d \in Callers : call'[d].step # "idle" =>
           call[d].step # "idle" /\ call'[d].n = call[d].n
           /\ call'[d].op = call[d].op
    BY <1>1, <1>6
  <2>2. \A r, s \in requests' : r.n = s.n => r = s
    BY <1>0, <1>1, <1>7 DEF CallsAreApart
  <2>3. \A r \in requests' : r.n < begun'
    BY <1>0, <1>1, <1>2, <1>new DEF CallsAreApart
  <2> QED  BY <1>0, <1>1, <2>1, <2>2, <2>3 DEF CallsAreApart
<1>9. RequestsAreOwned'
  <2>1. \A d \in Callers : call'[d].step # "idle" /\ call'[d].n = new.n => d = c
    BY <1>0, <1>1, <1>new, <1>6 DEF CallsAreApart
  <2> QED  BY <1>0, <1>1, <1>new, <1>6, <1>7, <2>1 DEF RequestsAreOwned
<1>10. \A r \in requests : ForgottenSince(r.nonce) => ForgottenSince(r.nonce)'
  <2>1. \A r \in requests : r.nonce \in Nat
    BY <1>0 DEF TypeOK, Request
  <2> QED  BY <1>1, <1>2, <2>1 DEF ForgottenSince
<1>11. \A n \in nonces : n \in nonces' \/ ForgottenSince(n)'
  <2> SUFFICES ASSUME NEW n \in nonces, n \notin MakeRoom
               PROVE  ForgottenSince(n)'
    BY <1>1
  <2>1. next + 1 - n > NONCE_VEC_LENGTH
    BY <1>0, RemovedIsOld
  <2> QED  BY <1>1, <1>2, <2>1 DEF ForgottenSince
<1>12. NoncesAreKept'
  <2>1. \A r \in requests : r.nonce < next /\ r.nonce \in Nat
    BY <1>0 DEF NoncesAreKept, TypeOK, Request
  <2>2. /\ \A r \in requests' : r.nonce < next'
        /\ \A r, s \in requests' : r.nonce = s.nonce => r = s
    BY <1>0, <1>1, <1>2, <1>new, <2>1 DEF NoncesAreKept
  <2>3. new.nonce \in nonces'
    BY <1>1, <1>new
  <2>4. \A r \in requests' : r.at = "sent" =>
           r.nonce \in nonces' \/ ForgottenSince(r.nonce)'
    <3> SUFFICES ASSUME NEW r \in requests, r.at = "sent"
                 PROVE  r.nonce \in nonces' \/ ForgottenSince(r.nonce)'
      BY <1>1, <2>3
    <3>1. r.nonce \in nonces \/ ForgottenSince(r.nonce)
      BY <1>0 DEF NoncesAreKept
    <3> QED  BY <1>10, <1>11, <3>1
  <2> QED  BY <2>2, <2>4 DEF NoncesAreKept
<1>13. RefusedWasForgotten'
  BY <1>0, <1>1, <1>new, <1>10 DEF RefusedWasForgotten
<1> QED  BY <1>5, <1>8, <1>9, <1>12, <1>13 DEF IInv

\* The list is copied: a nonce that is missing then was forgotten.
LEMMA CheckNonceStep ==
    ASSUME IInv, NEW r \in requests, CheckNonce(r)
    PROVE  IInv'
<1>0. TypeOK /\ CallsAreApart /\ RequestsAreOwned /\ NoncesAreKept
      /\ RefusedWasForgotten
  BY DEF IInv
<1> DEFINE new == [r EXCEPT !.at = "checked", !.listed = r.nonce \in nonces]
<1>1. /\ r.at = "sent" /\ requests' = (requests \ {r}) \cup {new}
      /\ UNCHANGED <<rows, nonces, next, started, begun, call>>
  BY DEF CheckNonce, server
<1>2. r \in Request
  BY <1>0 DEF TypeOK
<1>3. /\ new \in Request
      /\ new.caller = r.caller /\ new.n = r.n /\ new.op = r.op
      /\ new.nonce = r.nonce /\ new.at = "checked"
      /\ new.listed = (r.nonce \in nonces)
  <2> DEFINE b == r.nonce \in nonces
  <2>1. b \in BOOLEAN
    OBVIOUS
  <2> HIDE DEF b
  <2>2. [r EXCEPT !.at = "checked", !.listed = b] \in Request
    BY <1>2, <2>1 DEF Request
  <2>3. LET q == [r EXCEPT !.at = "checked", !.listed = b]
        IN  /\ q.caller = r.caller /\ q.n = r.n /\ q.op = r.op
            /\ q.nonce = r.nonce /\ q.at = "checked" /\ q.listed = b
    BY <1>2 DEF Request
  <2> QED  BY <2>2, <2>3 DEF b
<1> HIDE DEF new
<1>4. TypeOK'
  BY <1>0, <1>1, <1>3 DEF TypeOK
<1>5. CallsAreApart'
  BY <1>0, <1>1, <1>3 DEF CallsAreApart
<1>6. RequestsAreOwned'
  BY <1>0, <1>1, <1>3 DEF RequestsAreOwned
<1>7. NoncesAreKept'
  BY <1>0, <1>1, <1>3 DEF NoncesAreKept, ForgottenSince
<1>8. RefusedWasForgotten'
  BY <1>0, <1>1, <1>3 DEF RefusedWasForgotten, NoncesAreKept, ForgottenSince
<1> QED  BY <1>4, <1>5, <1>6, <1>7, <1>8 DEF IInv

\* The five handlers of a request.
Handle(r) == RefuseWrite(r) \/ Read(r) \/ Create(r) \/ Update(r) \/ Delete(r)

\* A handler answers its request once, whatever it does with the rows.
LEMMA HandlersAnswer ==
    ASSUME TypeOK, NEW r \in requests, Handle(r)
    PROVE  /\ \E answer \in Answers : Answer(r, answer)
           /\ rows' \in [Rows -> Values \cup {Absent}]
<1>1. /\ Failed \in Answers /\ Done \in Answers
      /\ rows \in [Rows -> Values \cup {Absent}]
      /\ r.op \in Operations
  BY DEF Failed, Done, Answers, TypeOK, Request
<1>2. CASE RefuseWrite(r)
  BY <1>1, <1>2 DEF RefuseWrite
<1>3. CASE Read(r)
  <2> DEFINE found == {[row |-> q, value |-> rows[q]] :
                       q \in {p \in r.op.among : rows[p] \in r.op.holding}}
  <2>1. r.op \in Filters
    BY <1>3 DEF Read
  <2>2. r.op.among \subseteq Rows /\ r.op.holding \subseteq Values
    BY <2>1 DEF Filters
  <2>3. found \subseteq [row : Rows, value : Values]
    BY <1>1, <2>2
  <2> HIDE DEF found
  <2>4. [ok |-> TRUE, found |-> found] \in Answers
    BY <2>3 DEF Answers
  <2>5. Answer(r, [ok |-> TRUE, found |-> found])
    BY <1>3 DEF Read, found
  <2> QED  BY <1>1, <1>3, <2>4, <2>5 DEF Read
<1>4. CASE Create(r)
  <2>1. r.op.kind = "create" => r.op.value \in Values
    BY <1>1 DEF Operations, Changes, Filters
  <2> QED  BY <1>1, <1>4, <2>1 DEF Create, Accepted
<1>5. CASE Update(r)
  <2>1. r.op.kind = "update" => r.op.value \in Values
    BY <1>1 DEF Operations, Changes, Filters
  <2> QED  BY <1>1, <1>5, <2>1 DEF Update, Accepted
<1>6. CASE Delete(r)
  BY <1>1, <1>6 DEF Delete, Accepted
<1> QED  BY <1>2, <1>3, <1>4, <1>5, <1>6 DEF Handle

\* What is taken from the list leaves it bounded.
LEMMA ListShrinks ==
    ASSUME TypeOK, nonces' \subseteq nonces, UNCHANGED next
    PROVE  nonces' \subseteq 0 .. next' - 1 /\ Cardinality(nonces') <= NONCE_VEC_LENGTH
<1>1. IsFiniteSet(nonces) /\ nonces' \in SUBSET nonces
  BY ListIsFinite
<1>2. /\ Cardinality(nonces') <= Cardinality(nonces)
      /\ Cardinality(nonces') \in Nat /\ Cardinality(nonces) \in Nat
  BY <1>1, FS_Subset, FS_CardinalityType
<1> QED  BY <1>2, StorageAssumption DEF TypeOK

LEMMA HandleStep ==
    ASSUME IInv, NEW r \in requests, Handle(r)
    PROVE  IInv'
<1>0. TypeOK
  BY DEF IInv
<1>1. PICK answer \in Answers : Answer(r, answer)
  BY <1>0, HandlersAnswer
<1>2. /\ nonces' = nonces \ {r.nonce} /\ requests' = requests \ {r}
      /\ UNCHANGED <<next, started, begun>>
  BY <1>1 DEF Answer
<1>3. Returned(answer) \in Call /\ Returned(answer).step = "idle"
  BY DEF Returned, Call
<1>4. /\ call' \in [Callers -> Call]
      /\ \A c \in Callers : call'[c] = call[c] \/ call'[c].step = "idle"
  <2>1. r.caller \in Callers /\ call \in [Callers -> Call]
    BY <1>0 DEF TypeOK, Request
  <2> QED  BY <1>1, <1>3, <2>1 DEF Answer
<1>5. TypeOK'
  BY <1>0, <1>2, <1>4, HandlersAnswer, ListShrinks DEF TypeOK
<1> QED  BY <1>2, <1>4, <1>5, EndStep

LEMMA GiveUpStep ==
    ASSUME IInv, NEW c \in Callers, GiveUp(c)
    PROVE  IInv'
<1>0. TypeOK
  BY DEF IInv
<1>1. /\ call' = [call EXCEPT ![c] = Returned(Failed)]
      /\ UNCHANGED <<rows, nonces, next, started, begun, requests>>
  BY DEF GiveUp, server
<1>2. Returned(Failed) \in Call /\ Returned(Failed).step = "idle"
  BY DEF Returned, Call, Failed, Answers
<1>3. /\ call' \in [Callers -> Call]
      /\ \A d \in Callers : call'[d] = call[d] \/ call'[d].step = "idle"
  BY <1>0, <1>1, <1>2 DEF TypeOK
<1>4. TypeOK'
  BY <1>0, <1>1, <1>3 DEF TypeOK
<1> QED  BY <1>1, <1>3, <1>4, EndStep

LEMMA LoseStep ==
    ASSUME IInv, NEW r \in requests, Lose(r)
    PROVE  IInv'
<1>1. TypeOK
  BY DEF IInv
<1>2. TypeOK'
  BY <1>1 DEF TypeOK, Lose, server
<1> QED  BY <1>2, EndStep DEF Lose, server

LEMMA RestartStep ==
    ASSUME IInv, Restart
    PROVE  IInv'
<1>1. TypeOK
  BY DEF IInv
<1>2. TypeOK'
  <2>1. nonces' \subseteq nonces /\ UNCHANGED next
    BY DEF Restart
  <2>2. next \in Nat /\ started' \in 0 .. next'
    BY <1>1, <2>1 DEF TypeOK, Restart
  <2> QED  BY <1>1, <2>1, <2>2, ListShrinks DEF TypeOK, Restart
<1> QED  BY <1>2, EndStep DEF Restart

LEMMA IInvStep ==
    ASSUME IInv, [Next]_vars
    PROVE  IInv'
<1>1. ASSUME NEW c \in Callers, Begin(c) PROVE IInv'
  BY <1>1, BeginStep
<1>2. ASSUME NEW c \in Callers, RequestNonce(c) PROVE IInv'
  BY <1>2, RequestNonceStep
<1>3. ASSUME NEW c \in Callers, GiveUp(c) PROVE IInv'
  BY <1>3, GiveUpStep
<1>4. ASSUME NEW r \in requests, CheckNonce(r) PROVE IInv'
  BY <1>4, CheckNonceStep
<1>5. ASSUME NEW r \in requests, Handle(r) PROVE IInv'
  BY <1>5, HandleStep
<1>6. ASSUME NEW r \in requests, Lose(r) PROVE IInv'
  BY <1>6, LoseStep
<1>7. CASE Restart
  BY <1>7, RestartStep
<1>8. CASE UNCHANGED vars
  BY <1>8 DEF vars, IInv, TypeOK, CallsAreApart, RequestsAreOwned,
              NoncesAreKept, RefusedWasForgotten, ForgottenSince
<1> QED  BY <1>1, <1>2, <1>3, <1>4, <1>5, <1>6, <1>7, <1>8 DEF Next, Handle

LEMMA Inductive == Spec => []IInv
<1> QED  BY InitInv, IInvStep, PTL DEF Spec

\* The rows, the calls and the list of nonces keep their types, and the list
\* never outgrows NONCE_VEC_LENGTH (request_nonce).
THEOREM TypeCorrect == Spec => []TypeOK
<1>1. IInv => TypeOK
  BY DEF IInv
<1> QED  BY <1>1, Inductive, PTL

\* A write is refused for its nonce only when the nonce was pushed out by
\* NONCE_VEC_LENGTH later ones or lost in a restart (request_nonce, Verifier).
THEOREM RefusalsAreDue == Spec => []RefusedWasForgotten
<1>1. IInv => RefusedWasForgotten
  BY DEF IInv
<1> QED  BY <1>1, Inductive, PTL

-----------------------------------------------------------------------------
(***************************************************************************)
(* StorageApi implements RowStore.                                         *)
(***************************************************************************)
storeVars == <<rows, begun, StoreCall, RequestedLate>>

\* What a late write of RowStore is to a request.
Write(r) == [caller |-> r.caller, n |-> r.n, op |-> r.op]

LEMMA ViewOfOne ==
    ASSUME NEW c \in Callers, NEW k, call \in [Callers -> Call],
           call' = [call EXCEPT ![c] = k]
    PROVE  StoreCall' = [StoreCall EXCEPT ![c] = StoreView(k)]
BY DEF StoreCall

LEMMA ReturnedView ==
    ASSUME NEW answer
    PROVE  StoreView(Returned(answer)) = Store!Returned(answer)
BY DEF StoreView, Returned, Store!Returned, NoOperation, Store!NoOperation

\* Reads and writes of the server are reads and writes of RowStore.
LEMMA SameOperations ==
    /\ Changes = Store!Writes
    /\ Filters \subseteq Store!Reads
    /\ Operations \subseteq Store!Operations
    /\ \A op \in Filters : op.kind = "read"
    /\ \A op \in Changes : op.kind \in {"create", "update", "delete"}
<1>1. Changes = Store!Writes
  BY DEF Changes, Store!Writes
<1>2. Filters \subseteq Store!Reads
  BY DEF Filters, Store!Reads
<1>3. \A op \in Filters : op.kind = "read"
  BY DEF Filters
<1>4. \A op \in Changes : op.kind \in {"create", "update", "delete"}
  BY DEF Changes
<1> QED  BY <1>1, <1>2, <1>3, <1>4 DEF Operations, Store!Operations

LEMMA InitMaps == Init => Store!Init
<1> SUFFICES ASSUME Init PROVE Store!Init
  OBVIOUS
<1>1. StoreCall = [c \in Callers |-> Store!Returned(Failed)]
  BY ReturnedView DEF Init, StoreCall
<1>2. Failed = Store!Failed
  BY DEF Failed, Store!Failed
<1>3. RequestedLate = {}
  BY DEF Init, RequestedLate
<1> QED  BY <1>1, <1>2, <1>3 DEF Init, Store!Init

\* A handler that is not refused performs its operation at once and answers
\* what RowStore would.
LEMMA HandlersPerform ==
    ASSUME TypeOK, NEW r \in requests,
           Read(r) \/ Create(r) \/ Update(r) \/ Delete(r)
    PROVE  Store!Perform(r.op) /\ Answer(r, Store!AnswerTo(r.op))
<1> USE DEF Store!Perform, Store!AnswerTo, Store!Succeeds
<1>1. CASE Read(r)
  <2>1. r.op.kind = "read" /\ rows' = rows
    BY <1>1, SameOperations DEF Read
  <2> QED  BY <1>1, <2>1 DEF Read
<1>2. CASE Create(r)
  <2>1. r.op.kind = "create"
    BY <1>2 DEF Create, Accepted
  <2> QED  BY <1>2, <2>1 DEF Create, Done, Failed
<1>3. CASE Update(r)
  <2>1. r.op.kind = "update"
    BY <1>3 DEF Update, Accepted
  <2> QED  BY <1>3, <2>1 DEF Update, Done, Failed
<1>4. CASE Delete(r)
  <2>1. r.op.kind = "delete"
    BY <1>4 DEF Delete, Accepted
  <2> QED  BY <1>4, <2>1 DEF Delete, Done, Failed
<1> QED  BY <1>1, <1>2, <1>3, <1>4

\* What becomes of the late writes when request r goes and its caller, if it
\* was waiting, returns.
LEMMA LateWithout ==
    ASSUME IInv, NEW r \in requests, NEW answer, Answer(r, answer)
    PROVE  /\ Awaited(r) => UNCHANGED RequestedLate
           /\ ~Awaited(r) => /\ UNCHANGED call
                             /\ RequestedLate' = RequestedLate \ {Write(r)}
<1>0. /\ TypeOK /\ CallsAreApart /\ RequestsAreOwned
      /\ requests' = requests \ {r} /\ r.caller \in Callers
      /\ \A s \in requests : s.caller \in Callers
      /\ call \in [Callers -> Call]
  BY DEF IInv, Answer, TypeOK, Request
<1>1. \A s \in requests : s.n = r.n => s = r
  BY <1>0 DEF CallsAreApart
<1>2. CASE Awaited(r)
  <2>1. call' = [call EXCEPT ![r.caller] = Returned(answer)]
    BY <1>2 DEF Answer
  <2>2. \A s \in requests' : Awaited(s)' <=> Awaited(s)
    BY <1>0, <1>1, <1>2, <2>1 DEF Awaited, Returned
  <2> QED  BY <1>0, <1>2, <2>2 DEF RequestedLate
<1>3. CASE ~Awaited(r)
  <2>1. UNCHANGED call
    BY <1>3 DEF Answer
  <2>2. \A s \in requests' : Awaited(s)' <=> Awaited(s)
    BY <2>1 DEF Awaited
  <2>3. \A s \in requests : Write(s) = Write(r) => s = r
    BY <1>1 DEF Write
  <2> QED  BY <1>0, <1>3, <2>1, <2>2, <2>3 DEF RequestedLate, Write
<1> QED  BY <1>2, <1>3

\* A waiting caller is answered by its own request.
LEMMA AwaitedCall ==
    ASSUME IInv, NEW r \in requests, Awaited(r)
    PROVE  /\ r.caller \in Callers
           /\ StoreCall[r.caller].step = "called"
           /\ StoreCall[r.caller].op = r.op
           /\ StoreCall[r.caller].n = r.n
<1>1. r.caller \in Callers
  BY DEF IInv, TypeOK, Request
<1>2. call[r.caller].op = r.op /\ call[r.caller].step = "waiting"
      /\ call[r.caller].n = r.n
  BY <1>1 DEF IInv, RequestsAreOwned, Awaited
<1> QED  BY <1>1, <1>2 DEF StoreCall, StoreView

LEMMA HandleMaps ==
    ASSUME IInv, NEW r \in requests, Handle(r)
    PROVE  [Store!Next]_storeVars
<1>0. /\ TypeOK /\ call \in [Callers -> Call] /\ r.caller \in Callers
      /\ r.op \in Operations
  BY DEF IInv, TypeOK, Request
<1>1. CASE RefuseWrite(r)
  <2>1. Answer(r, Failed) /\ r.op \in Changes /\ UNCHANGED <<rows, begun>>
    BY <1>1 DEF RefuseWrite, Answer
  <2>2. CASE Awaited(r)
    <3>1. StoreCall' = [StoreCall EXCEPT ![r.caller] = Store!Returned(Failed)]
      BY <1>0, <2>1, <2>2, ViewOfOne, ReturnedView DEF Answer
    <3>2. Store!Refuse(r.caller)
      BY <2>1, <2>2, <3>1, AwaitedCall, LateWithout, SameOperations
      DEF Store!Refuse, Failed, Store!Failed
    <3> QED  BY <1>0, <3>2 DEF Store!Next
  <2>3. CASE ~Awaited(r)
    <3>1. UNCHANGED StoreCall /\ RequestedLate' \in SUBSET RequestedLate
      BY <2>1, <2>3, LateWithout DEF StoreCall
    <3> QED  BY <2>1, <3>1 DEF Store!Next, Store!DropLate
  <2> QED  BY <2>2, <2>3
<1>2. CASE Read(r) \/ Create(r) \/ Update(r) \/ Delete(r)
  <2>1. /\ Store!Perform(r.op) /\ Answer(r, Store!AnswerTo(r.op))
        /\ UNCHANGED begun
    BY <1>0, <1>2, HandlersPerform DEF Answer
  <2>2. CASE Awaited(r)
    <3>1. StoreCall' = [StoreCall EXCEPT
                          ![r.caller] = Store!Returned(Store!AnswerTo(r.op))]
      BY <1>0, <2>1, <2>2, ViewOfOne, ReturnedView DEF Answer
    <3>2. Store!TakeEffect(r.caller)
      BY <2>1, <2>2, <3>1, AwaitedCall, LateWithout DEF Store!TakeEffect
    <3> QED  BY <1>0, <3>2 DEF Store!Next
  <2>3. CASE ~Awaited(r) /\ r.op \in Changes
    <3>1. UNCHANGED StoreCall /\ RequestedLate' = RequestedLate \ {Write(r)}
      BY <2>1, <2>3, LateWithout DEF StoreCall
    <3>2. Write(r) \in RequestedLate /\ Write(r).op = r.op
      BY <2>3 DEF RequestedLate, Write
    <3>3. Store!LandLate(Write(r))
      BY <2>1, <3>1, <3>2 DEF Store!LandLate
    <3> QED  BY <3>2, <3>3 DEF Store!Next
  <2>4. CASE ~Awaited(r) /\ r.op \notin Changes
    <3>1. r.op.kind = "read"
      BY <1>0, <2>4, SameOperations DEF Operations
    <3>2. UNCHANGED rows
      BY <2>1, <3>1 DEF Store!Perform
    <3>3. UNCHANGED StoreCall /\ RequestedLate' \in SUBSET RequestedLate
      BY <2>1, <2>4, LateWithout DEF StoreCall
    <3> QED  BY <2>1, <3>2, <3>3 DEF Store!Next, Store!DropLate
  <2> QED  BY <2>2, <2>3, <2>4
<1> QED  BY <1>1, <1>2 DEF Handle

LEMMA BeginMaps ==
    ASSUME IInv, NEW c \in Callers, Begin(c)
    PROVE  [Store!Next]_storeVars
<1>0. /\ TypeOK /\ CallsAreApart /\ RequestsAreOwned
      /\ call \in [Callers -> Call] /\ call[c].step = "idle"
      /\ begun' = begun + 1 /\ UNCHANGED <<rows, requests>>
  BY DEF IInv, TypeOK, Begin
<1>1. PICK op \in Operations :
        call' = [call EXCEPT ![c] = [step |-> "asking", n |-> begun,
                                     op |-> op, answer |-> Failed]]
  BY DEF Begin
<1>2. StoreCall' = [StoreCall EXCEPT
                      ![c] = [step |-> "called", n |-> begun, op |-> op,
                              answer |-> Store!Failed]]
  BY <1>0, <1>1, ViewOfOne DEF StoreView, Failed, Store!Failed
<1>3. UNCHANGED RequestedLate
  <2>1. \A r \in requests : Awaited(r)' <=> Awaited(r)
    BY <1>0, <1>1 DEF Awaited
  <2> QED  BY <1>0, <2>1 DEF RequestedLate
<1>4. StoreCall[c].step = "idle"
  BY <1>0 DEF StoreCall, StoreView
<1>5. Store!Begin(c)
  BY <1>0, <1>2, <1>3, <1>4, SameOperations DEF Store!Begin
<1> QED  BY <1>5 DEF Store!Next

LEMMA RequestNonceMaps ==
    ASSUME IInv, NEW c \in Callers, RequestNonce(c)
    PROVE  UNCHANGED storeVars
<1>0. /\ TypeOK /\ RequestsAreOwned /\ call \in [Callers -> Call]
      /\ call[c].step = "asking"
      /\ call' = [call EXCEPT ![c].step = "waiting"]
      /\ UNCHANGED <<rows, begun>>
  BY DEF IInv, TypeOK, RequestNonce
<1>1. PICK new : /\ requests' = requests \cup {new}
                 /\ new.caller = c /\ new.n = call[c].n
  <2> DEFINE sent == [caller |-> c, n |-> call[c].n, op |-> call[c].op,
                      nonce |-> next, at |-> "sent", listed |-> FALSE]
  <2>1. requests' = requests \cup {sent} /\ sent.caller = c /\ sent.n = call[c].n
    BY DEF RequestNonce
  <2> HIDE DEF sent
  <2> QED  BY <2>1
<1>2. UNCHANGED StoreCall
  BY <1>0 DEF StoreCall, StoreView, Call
<1>3. \A r \in requests : Awaited(r)' <=> Awaited(r)
  <2>1. \A r \in requests : r.n # call[c].n
    BY <1>0 DEF RequestsAreOwned
  <2> QED  BY <1>0, <2>1 DEF Awaited, Call
<1>4. Awaited(new)'
  BY <1>0, <1>1 DEF Awaited, Call
<1>5. UNCHANGED RequestedLate
  <2>1. {q \in requests' : q.op \in Changes /\ ~Awaited(q)'}
           = {q \in requests : q.op \in Changes /\ ~Awaited(q)}
    BY <1>1, <1>3, <1>4
  <2> QED  BY <2>1 DEF RequestedLate
<1> QED  BY <1>0, <1>2, <1>5 DEF storeVars

LEMMA CheckNonceMaps ==
    ASSUME IInv, NEW r \in requests, CheckNonce(r)
    PROVE  UNCHANGED storeVars
<1>0. UNCHANGED <<rows, begun, call>>
  BY DEF CheckNonce
<1>1. PICK new : /\ requests' = (requests \ {r}) \cup {new}
                 /\ new.caller = r.caller /\ new.n = r.n /\ new.op = r.op
  <2> DEFINE checked == [r EXCEPT !.at = "checked", !.listed = r.nonce \in nonces]
  <2>1. requests' = (requests \ {r}) \cup {checked}
    BY DEF CheckNonce
  <2>2. checked.caller = r.caller /\ checked.n = r.n /\ checked.op = r.op
    BY DEF IInv, TypeOK, Request
  <2> HIDE DEF checked
  <2> QED  BY <2>1, <2>2
<1>2. \A s : Awaited(s)' <=> Awaited(s)
  BY <1>0 DEF Awaited
<1>3. Awaited(new) <=> Awaited(r)
  BY <1>1 DEF Awaited
<1>4. UNCHANGED RequestedLate
  <2> DEFINE Late(R) == {Write(s) : s \in {q \in R : q.op \in Changes /\ ~Awaited(q)}}
  <2>1. Write(new) = Write(r)
    BY <1>1 DEF Write
  <2>2. Late(requests') = Late(requests)
    BY <1>1, <1>3, <2>1
  <2>3. RequestedLate = Late(requests)
    BY DEF RequestedLate, Write
  <2>4. RequestedLate' = Late(requests')
    BY <1>2 DEF RequestedLate, Write
  <2> QED  BY <2>2, <2>3, <2>4
<1> QED  BY <1>0, <1>4 DEF storeVars, StoreCall

LEMMA GiveUpMaps ==
    ASSUME IInv, NEW c \in Callers, GiveUp(c)
    PROVE  [Store!Next]_storeVars
<1>0. /\ TypeOK /\ CallsAreApart /\ RequestsAreOwned
      /\ call \in [Callers -> Call]
      /\ call' = [call EXCEPT ![c] = Returned(Failed)]
      /\ UNCHANGED <<rows, begun, requests>>
  BY DEF IInv, TypeOK, GiveUp
<1>1. StoreCall' = [StoreCall EXCEPT ![c] = Store!Returned(Store!Failed)]
  <2>1. Failed = Store!Failed
    BY DEF Failed, Store!Failed
  <2> QED  BY <1>0, <2>1, ViewOfOne, ReturnedView
<1>2. /\ ~ \E r \in requests : r.caller = c /\ Awaited(r)'
      /\ \A r \in requests : r.caller # c => (Awaited(r)' <=> Awaited(r))
  BY <1>0 DEF Awaited, Returned
<1>3. CASE \E r \in requests : r.caller = c /\ Awaited(r) /\ r.op \in Changes
  <2> PICK r \in requests : r.caller = c /\ Awaited(r) /\ r.op \in Changes
    BY <1>3
  <2>1. \A s \in requests : s.caller = c /\ Awaited(s) => s = r
    BY <1>0 DEF CallsAreApart, Awaited
  <2>2. RequestedLate' = RequestedLate \cup {Write(r)}
    <3>1. \A s \in requests : ~Awaited(s)' <=> ~Awaited(s) \/ s = r
      BY <1>2, <2>1
    <3>2. RequestedLate' = {Write(s) : s \in {q \in requests :
                                  q.op \in Changes /\ (~Awaited(q) \/ q = r)}}
      BY <1>0, <3>1 DEF RequestedLate, Write
    <3>3. RequestedLate = {Write(s) : s \in {q \in requests :
                                  q.op \in Changes /\ ~Awaited(q)}}
      BY DEF RequestedLate, Write
    <3> HIDE DEF RequestedLate
    <3> QED  BY <3>2, <3>3
  <2>3. Store!GiveUp(c)
    BY <1>0, <1>1, <2>2, AwaitedCall, SameOperations DEF Store!GiveUp, Write
  <2> QED  BY <2>3 DEF Store!Next
<1>4. CASE ~ \E r \in requests : r.caller = c /\ Awaited(r) /\ r.op \in Changes
  <2>1. \A r \in requests : r.op \in Changes => (Awaited(r)' <=> Awaited(r))
    BY <1>2, <1>4
  <2>2. UNCHANGED RequestedLate
    BY <1>0, <2>1 DEF RequestedLate
  <2>3. Store!GiveUp(c)
    BY <1>0, <1>1, <2>2 DEF Store!GiveUp
  <2> QED  BY <2>3 DEF Store!Next
<1> QED  BY <1>3, <1>4

\* A lost request, and all those a restart loses, are late writes dropped.
LEMMA LossMaps ==
    ASSUME requests' \subseteq requests, UNCHANGED <<rows, begun, call>>
    PROVE  [Store!Next]_storeVars
<1>1. UNCHANGED StoreCall
  BY DEF StoreCall
<1>2. RequestedLate' \in SUBSET RequestedLate
  BY DEF RequestedLate, Awaited
<1> QED  BY <1>1, <1>2 DEF Store!Next, Store!DropLate

LEMMA StepMaps ==
    ASSUME IInv, [Next]_vars
    PROVE  [Store!Next]_storeVars
<1>1. ASSUME NEW c \in Callers, Begin(c) PROVE [Store!Next]_storeVars
  BY <1>1, BeginMaps
<1>2. ASSUME NEW c \in Callers, RequestNonce(c) PROVE [Store!Next]_storeVars
  BY <1>2, RequestNonceMaps
<1>3. ASSUME NEW c \in Callers, GiveUp(c) PROVE [Store!Next]_storeVars
  BY <1>3, GiveUpMaps
<1>4. ASSUME NEW r \in requests, CheckNonce(r) PROVE [Store!Next]_storeVars
  BY <1>4, CheckNonceMaps
<1>5. ASSUME NEW r \in requests, Handle(r) PROVE [Store!Next]_storeVars
  BY <1>5, HandleMaps
<1>6. ASSUME NEW r \in requests, Lose(r) PROVE [Store!Next]_storeVars
  BY <1>6, LossMaps DEF Lose
<1>7. ASSUME Restart PROVE [Store!Next]_storeVars
  BY <1>7, LossMaps DEF Restart
<1>8. CASE UNCHANGED vars
  BY <1>8 DEF vars, storeVars, StoreCall, RequestedLate, Awaited
<1> QED  BY <1>1, <1>2, <1>3, <1>4, <1>5, <1>6, <1>7, <1>8 DEF Next, Handle

\* What callers see of the storage API, with its middlewares, its list of
\* nonces, restarts, losses and timeouts, is RowStore: each call at one
\* instant, not at all, or late and once if it was given up (Verifier,
\* wrap_fn, the handlers, StorageApiClient).
THEOREM Refinement == Spec => ImplementsRowStore
<1>1. IInv /\ [Next]_vars => [Store!Next]_storeVars
  BY StepMaps
<1>2. Init => Store!Init
  BY InitMaps
<1> QED  BY <1>1, <1>2, Inductive, PTL
         DEF Spec, ImplementsRowStore, Store!Spec, storeVars
=============================================================================
