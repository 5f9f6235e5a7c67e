--------------------------- MODULE AttestorProofs ---------------------------
(***************************************************************************)
(* Proofs about Attestor, for any number of events and callbacks and any   *)
(* number of notices of either kind.                                       *)
(***************************************************************************)
EXTENDS DigitsProofs

\* The rows of event u: the stored one and those callbacks are to write.
RowsOf(u) ==
    {r \in DbValue \ {None} :
        \/ r = db[u]
        \/ \E h \in Handlers : hnd[h].uuid = u /\ hnd[h].row = r}

\* Announcements belong to one event and are older than the next one.
AnnouncementsAreOwned ==
    /\ \A u \in Events : \A r \in RowsOf(u) : r.ann < fresh
    /\ \A u, v \in Events : \A r \in RowsOf(u), s \in RowsOf(v) :
          r.ann = s.ann => u = v
    /\ \A s \in sigs : s.ann < fresh

\* An attestation whose nonces belong to event u carries its outcome.
SignaturesAreTrue ==
    \A u \in Events : \A r \in RowsOf(u), s \in sigs :
        s.ann = r.ann =>
            closedAs[u] # None /\ s.digits = Digits(FormatOutcome(closedAs[u]))

\* A callback that is to attest knows the outcome on chain, and every row is
\* signed with its own nonces, by a signature that was counted.
CallbacksKnowOutcome ==
    \A h \in Handlers :
        /\ hnd[h].pc = "get" =>
              closedAs[hnd[h].uuid] # None
              /\ hnd[h].value = FormatOutcome(closedAs[hnd[h].uuid])
        /\ hnd[h].pc \in {"find", "update", "create"} => hnd[h].row # None

RowsSignThemselves ==
    \A u \in Events : \A r \in RowsOf(u) :
        r.att # None => r.att.ann = r.ann /\ r.att \in sigs

IInv ==
    /\ TypeOK
    /\ AnnouncementsAreOwned
    /\ SignaturesAreTrue
    /\ CallbacksKnowOutcome
    /\ RowsSignThemselves
    /\ NoncesSignOneOutcome

\* Nothing is stored, signed or in flight at first.
LEMMA InitIInv == Init => IInv
<1> SUFFICES ASSUME Init PROVE IInv
  OBVIOUS
<1> USE ConstantsAssumption
<1>1. TypeOK
  BY DEF Init, TypeOK, Handler, Idle
<1>2. \A u \in Events : RowsOf(u) = {}
  BY DEF Init, RowsOf, Idle, DbValue
<1>3. AnnouncementsAreOwned /\ SignaturesAreTrue /\ RowsSignThemselves
      /\ NoncesSignOneOutcome
  BY <1>2 DEF Init, AnnouncementsAreOwned, SignaturesAreTrue,
              RowsSignThemselves, NoncesSignOneOutcome
<1>4. CallbacksKnowOutcome
  BY DEF Init, CallbacksKnowOutcome, Idle
<1>5. QED
  BY <1>1, <1>3, <1>4 DEF IInv

-----------------------------------------------------------------------------
\* Every step keeps the types.
LEMMA StepsKeepTypes == TypeOK /\ CallbacksKnowOutcome /\ [Next]_vars => TypeOK'
<1> SUFFICES ASSUME TypeOK, CallbacksKnowOutcome, [Next]_vars PROVE TypeOK'
  OBVIOUS
<1> USE ConstantsAssumption
<1>i. Idle \in Handler
  BY DEF Handler
<1>h. ASSUME NEW h \in Handlers, hnd[h].pc # "idle"
      PROVE  /\ hnd[h].uuid \in Events /\ hnd[h].value \in Outcomes \cup {None}
             /\ hnd[h].row \in DbValue \cup {None}
  BY <1>h DEF TypeOK, Handler, Idle
<1>a. ASSUME NEW n \in Nat, NEW o \in Outcomes
      PROVE  BuildAttestation(n, o) \in Attestation
  BY DEF BuildAttestation, Attestation
<1>1. ASSUME NEW h \in Handlers, NEW u \in Events, OnCreateDLC(h, u) PROVE TypeOK'
  <2>1. [pc |-> "find", uuid |-> u, value |-> None,
         row |-> [ann |-> fresh, att |-> None]] \in Handler
    BY DEF TypeOK, Handler, DbValue
  <2>2. hnd' \in [Handlers -> Handler] /\ fresh' \in Nat
    BY <1>1, <2>1 DEF OnCreateDLC, BuildAnnouncement, TypeOK
  <2>3. heard' \in [create : [Events -> 0 .. CreateNotices],
                    close : [Events -> 0 .. CloseNotices]]
    BY <1>1 DEF OnCreateDLC, TypeOK
  <2>4. QED
    BY <1>1, <2>2, <2>3 DEF OnCreateDLC, TypeOK, chain
<1>2. ASSUME NEW h \in Handlers, NEW u \in Events, OnCloseDLC(h, u) PROVE TypeOK'
  <2>1. FormatOutcome(closedAs[u]) \in Outcomes
    BY <1>2 DEF OnCloseDLC, TypeOK, Outcomes
  <2>2. hnd' \in [Handlers -> Handler]
    BY <1>2, <2>1 DEF OnCloseDLC, TypeOK, Handler
  <2>3. heard' \in [create : [Events -> 0 .. CreateNotices],
                    close : [Events -> 0 .. CloseNotices]]
    BY <1>2 DEF OnCloseDLC, TypeOK
  <2>4. QED
    BY <1>2, <2>2, <2>3 DEF OnCloseDLC, TypeOK, chain
<1>3. ASSUME NEW h \in Handlers, AttestGet(h) PROVE TypeOK'
  <2> DEFINE u == hnd[h].uuid
             a == BuildAttestation(db[u].ann, hnd[h].value)
  <2>1. u \in Events /\ hnd[h].pc = "get"
    BY <1>3, <1>h DEF AttestGet
  <2>2. \/ /\ db[u] # None /\ sigs' = sigs \cup {a}
           /\ hnd' = [hnd EXCEPT ![h].pc = "find",
                                 ![h].row = [db[u] EXCEPT !.att = a]]
        \/ hnd' = [hnd EXCEPT ![h] = Idle] /\ sigs' = sigs
    BY <1>3 DEF AttestGet
  <2>3. hnd' \in [Handlers -> Handler] /\ sigs' \subseteq Attestation
    <3>1. CASE hnd' = [hnd EXCEPT ![h] = Idle] /\ sigs' = sigs
      BY <3>1, <1>i DEF TypeOK
    <3>2. CASE /\ db[u] # None /\ sigs' = sigs \cup {a}
               /\ hnd' = [hnd EXCEPT ![h].pc = "find",
                                     ![h].row = [db[u] EXCEPT !.att = a]]
      <4>1. db[u] \in DbValue /\ hnd[h].value \in Outcomes
        <5>1. closedAs[u] # None /\ hnd[h].value = FormatOutcome(closedAs[u])
          BY <2>1 DEF CallbacksKnowOutcome
        <5>2. QED
          BY <2>1, <3>2, <5>1 DEF TypeOK, Outcomes
      <4>2. a \in Attestation
        BY <4>1, <1>a DEF DbValue
      <4> HIDE DEF a
      <4>3. [db[u] EXCEPT !.att = a] \in DbValue
        BY <4>1, <4>2 DEF DbValue
      <4>4. hnd'[h] = [pc |-> "find", uuid |-> u, value |-> hnd[h].value,
                       row |-> [db[u] EXCEPT !.att = a]]
        <5>1. hnd \in [Handlers -> Handler]
          BY DEF TypeOK
        <5>2. hnd[h] = [pc |-> hnd[h].pc, uuid |-> u, value |-> hnd[h].value,
                        row |-> hnd[h].row]
          BY <2>1, <5>1 DEF Handler, Idle
        <5>3. QED
          BY <3>2, <5>1, <5>2
      <4>5. hnd'[h] \in Handler
        BY <2>1, <4>1, <4>3, <4>4 DEF Handler
      <4>6. QED
        BY <3>2, <4>2, <4>5 DEF TypeOK
    <3>3. QED
      BY <2>2, <3>1, <3>2
  <2>4. QED
    BY <1>3, <2>3 DEF AttestGet, TypeOK, chain
<1>4. ASSUME NEW h \in Handlers, InsertFind(h) PROVE TypeOK'
  <2>1. hnd' = [hnd EXCEPT ![h] = Idle] \/
        \E pc \in {"create", "update"} : hnd' = [hnd EXCEPT ![h].pc = pc]
    BY <1>4 DEF InsertFind
  <2>2. hnd[h].pc = "find"
    BY <1>4 DEF InsertFind
  <2>3. hnd' \in [Handlers -> Handler]
    <3>1. ASSUME NEW pc \in {"create", "update"}, hnd' = [hnd EXCEPT ![h].pc = pc]
          PROVE  hnd' \in [Handlers -> Handler]
      <4>1. hnd'[h] = [pc |-> pc, uuid |-> hnd[h].uuid, value |-> hnd[h].value,
                       row |-> hnd[h].row]
        BY <2>2, <3>1 DEF TypeOK, Handler, Idle
      <4>2. hnd'[h] \in Handler
        BY <2>2, <4>1, <1>h DEF Handler
      <4>3. QED
        BY <3>1, <4>2 DEF TypeOK
    <3>2. QED
      BY <2>1, <3>1, <1>i DEF TypeOK
  <2>4. QED
    BY <1>4, <2>3 DEF InsertFind, TypeOK, chain
<1>5. ASSUME NEW h \in Handlers, InsertUpdate(h) \/ InsertCreate(h) PROVE TypeOK'
  <2>1. hnd[h].pc \in {"update", "create"}
    BY <1>5 DEF InsertUpdate, InsertCreate
  <2>2. hnd[h].row \in DbValue /\ hnd[h].uuid \in Events
    BY <2>1, <1>h DEF CallbacksKnowOutcome
  <2>3. db' = db \/ db' = [db EXCEPT ![hnd[h].uuid] = hnd[h].row]
    BY <1>5 DEF InsertUpdate, InsertCreate
  <2>4. db' \in [Events -> DbValue \cup {None}]
    BY <2>2, <2>3 DEF TypeOK
  <2>5. hnd' \in [Handlers -> Handler]
    BY <1>5, <1>i DEF InsertUpdate, InsertCreate, TypeOK
  <2>6. QED
    BY <1>5, <2>4, <2>5 DEF InsertUpdate, InsertCreate, TypeOK, chain
<1>6. ASSUME NEW u \in Events, GetAnnouncement(u) PROVE TypeOK'
  BY <1>6 DEF GetAnnouncement, TypeOK, DbValue, chain
<1>7. ASSUME NEW u \in Events, CreateDLC(u) \/ CloseDLC(u) PROVE TypeOK'
  BY <1>7 DEF CreateDLC, CloseDLC, TypeOK
<1>8. CASE Restart
  <2>1. hnd' \in [Handlers -> Handler]
    BY <1>8, <1>i DEF Restart
  <2>2. QED
    BY <1>8, <2>1 DEF Restart, TypeOK, chain
<1>9. CASE Stabilise \/ UNCHANGED vars
  BY <1>9 DEF Stabilise, TypeOK, chain, vars
<1>10. QED
  BY <1>1, <1>2, <1>3, <1>4, <1>5, <1>6, <1>7, <1>8, <1>9 DEF Next, HandlerStep

-----------------------------------------------------------------------------
\* A DLC keeps the outcome it was closed with.
LEMMA ClosedStaysClosed ==
    ASSUME TypeOK, [Next]_vars, NEW u \in Events, closedAs[u] # None
    PROVE  closedAs'[u] = closedAs[u]
<1>1. ASSUME NEW v \in Events, CloseDLC(v) PROVE closedAs'[u] = closedAs[u]
  BY <1>1 DEF CloseDLC, TypeOK
<1>2. CASE \A v \in Events : ~CloseDLC(v)
  BY <1>2 DEF Next, vars, HandlerStep, AttestGet, InsertFind, InsertUpdate,
              InsertCreate, OnCreateDLC, OnCloseDLC, GetAnnouncement, CreateDLC,
              Restart, Stabilise, chain
<1>3. QED
  BY <1>1, <1>2

\* What attest writes is a row: the one it read, with an attestation.
LEMMA NewRowIsRow ==
    ASSUME IInv, NEW h \in Handlers, hnd[h].pc = "get", db[hnd[h].uuid] # None
    PROVE  LET u == hnd[h].uuid
               a == BuildAttestation(db[u].ann, hnd[h].value)
               row == [ann |-> db[u].ann, att |-> a]
           IN  /\ u \in Events /\ db[u] \in DbValue
               /\ a \in Attestation
               /\ row \in DbValue /\ row # None
               /\ [db[u] EXCEPT !.att = a] = row
<1> DEFINE u == hnd[h].uuid
           a == BuildAttestation(db[u].ann, hnd[h].value)
           row == [ann |-> db[u].ann, att |-> a]
<1>1. /\ hnd \in [Handlers -> Handler] /\ db \in [Events -> DbValue \cup {None}]
      /\ closedAs \in [Events -> RawOutcomes \cup {None}]
  BY DEF IInv, TypeOK
<1>2. u \in Events
  BY <1>1 DEF Handler, Idle
<1>3. hnd[h].value \in Outcomes
  BY <1>1, <1>2 DEF IInv, CallbacksKnowOutcome, Outcomes
<1>4. db[u] \in DbValue
  BY <1>1, <1>2
<1>5. a \in Attestation
  BY <1>3, <1>4 DEF BuildAttestation, Attestation, DbValue
<1> HIDE DEF a
<1>6. row \in DbValue /\ [db[u] EXCEPT !.att = a] = row
  BY <1>4, <1>5 DEF DbValue
<1>7. row # None
  BY <1>6, NoneAssumption
<1>8. QED
  BY <1>2, <1>4, <1>5, <1>6, <1>7 DEF a

\* A callback that goes on knows what it needs: the outcome it was given is
\* the one on chain.
LEMMA StepsKeepCallbacks == IInv /\ [Next]_vars => CallbacksKnowOutcome'
<1> DEFINE Knows(g) ==
             /\ hnd'[g].pc = "get" =>
                   closedAs'[hnd'[g].uuid] # None
                   /\ hnd'[g].value = FormatOutcome(closedAs'[hnd'[g].uuid])
             /\ hnd'[g].pc \in {"find", "update", "create"} => hnd'[g].row # None
<1> SUFFICES ASSUME IInv, [Next]_vars, NEW g \in Handlers
             PROVE  Knows(g)
  BY DEF CallbacksKnowOutcome, FormatOutcome
<1> USE ConstantsAssumption
<1>t. /\ TypeOK /\ hnd \in [Handlers -> Handler]
      /\ hnd[g].pc = "get" =>
            closedAs[hnd[g].uuid] # None
            /\ hnd[g].value = FormatOutcome(closedAs[hnd[g].uuid])
      /\ hnd[g].pc \in {"find", "update", "create"} => hnd[g].row # None
  BY DEF IInv, TypeOK, CallbacksKnowOutcome
<1>u. ASSUME hnd'[g] = hnd[g] PROVE Knows(g)
  <2>1. hnd[g].pc = "get" => hnd[g].uuid \in Events
    BY <1>t DEF Handler, Idle
  <2>2. hnd[g].pc = "get" => closedAs'[hnd[g].uuid] = closedAs[hnd[g].uuid]
    BY <2>1, <1>t, ClosedStaysClosed
  <2>3. QED
    BY <1>u, <2>2, <1>t
<1>i. ASSUME hnd'[g] = Idle PROVE Knows(g)
  BY <1>i DEF Idle
<1>o. ASSUME NEW h \in Handlers, NEW x, hnd' = [hnd EXCEPT ![h] = x], g # h
      PROVE  Knows(g)
  BY <1>o, <1>u, <1>t
<1>1. ASSUME NEW h \in Handlers, NEW u \in Events, OnCreateDLC(h, u)
      PROVE  Knows(g)
  <2>1. [ann |-> fresh, att |-> None] # None
    BY <1>t, NoneAssumption DEF TypeOK, DbValue
  <2>2. hnd' = [hnd EXCEPT ![h] = [pc |-> "find", uuid |-> u, value |-> None,
                                   row |-> [ann |-> fresh, att |-> None]]]
    BY <1>1 DEF OnCreateDLC, BuildAnnouncement
  <2>3. CASE g = h
    BY <2>1, <2>2, <2>3, <1>t
  <2>4. QED
    BY <2>2, <2>3, <1>o
<1>2. ASSUME NEW h \in Handlers, NEW u \in Events, OnCloseDLC(h, u)
      PROVE  Knows(g)
  <2>1. /\ closedAs[u] # None /\ closedAs' = closedAs
        /\ hnd' = [hnd EXCEPT ![h] = [pc |-> "get", uuid |-> u,
                                      value |-> FormatOutcome(closedAs[u]),
                                      row |-> None]]
    BY <1>2 DEF OnCloseDLC, chain
  <2>2. CASE g = h
    BY <2>1, <2>2, <1>t
  <2>3. QED
    BY <2>1, <2>2, <1>o
<1>3. ASSUME NEW h \in Handlers, AttestGet(h) PROVE Knows(g)
  <2> DEFINE u == hnd[h].uuid
             row == [db[u] EXCEPT !.att = BuildAttestation(db[u].ann, hnd[h].value)]
  <2>1. hnd[h].pc = "get" /\ u \in Events
    BY <1>3, <1>t DEF AttestGet, Handler, Idle
  <2>2. \/ db[u] # None /\ hnd' = [hnd EXCEPT ![h].pc = "find", ![h].row = row]
        \/ hnd' = [hnd EXCEPT ![h] = Idle]
    BY <1>3 DEF AttestGet
  <2>3. CASE hnd' = [hnd EXCEPT ![h] = Idle]
    BY <2>3, <1>o, <1>i, <1>t
  <2>4. CASE db[u] # None /\ hnd' = [hnd EXCEPT ![h].pc = "find", ![h].row = row]
    <3>1. row # None
      BY <2>1, <2>4, NewRowIsRow
    <3> HIDE DEF row
    <3>2. CASE g = h
      BY <2>4, <3>1, <3>2, <1>t DEF Handler, Idle
    <3>3. CASE g # h
      BY <2>4, <3>3, <1>u, <1>t
    <3>4. QED
      BY <3>2, <3>3
  <2>5. QED
    BY <2>2, <2>3, <2>4
<1>4. ASSUME NEW h \in Handlers, InsertFind(h) PROVE Knows(g)
  <2>1. hnd' = [hnd EXCEPT ![h] = Idle] \/
        \E pc \in {"create", "update"} : hnd' = [hnd EXCEPT ![h].pc = pc]
    BY <1>4 DEF InsertFind
  <2>2. hnd[h].pc = "find"
    BY <1>4 DEF InsertFind
  <2>3. ASSUME NEW pc \in {"create", "update"}, hnd' = [hnd EXCEPT ![h].pc = pc]
        PROVE  Knows(g)
    <3>1. CASE g = h
      BY <2>2, <2>3, <3>1, <1>t DEF Handler, Idle
    <3>2. CASE g # h
      BY <2>3, <3>2, <1>u, <1>t
    <3>3. QED
      BY <3>1, <3>2
  <2>4. QED
    BY <2>1, <2>3, <1>o, <1>i, <1>t
<1>5. ASSUME NEW h \in Handlers, InsertUpdate(h) \/ InsertCreate(h) PROVE Knows(g)
  <2>1. hnd' = [hnd EXCEPT ![h] = Idle]
    BY <1>5 DEF InsertUpdate, InsertCreate
  <2>2. QED
    BY <2>1, <1>o, <1>i, <1>t
<1>6. CASE Restart
  BY <1>6, <1>i DEF Restart
<1>7. CASE \/ \E u \in Events : GetAnnouncement(u) \/ CreateDLC(u) \/ CloseDLC(u)
           \/ Stabilise \/ UNCHANGED vars
  BY <1>7, <1>u DEF GetAnnouncement, CreateDLC, CloseDLC, Stabilise, vars
<1>8. QED
  BY <1>1, <1>2, <1>3, <1>4, <1>5, <1>6, <1>7 DEF Next, HandlerStep

-----------------------------------------------------------------------------
\* The rows of event v in the next state, spelled out.
RowsNext(v) ==
    {r \in DbValue \ {None} :
        \/ r = db'[v]
        \/ \E h \in Handlers : hnd'[h].uuid = v /\ hnd'[h].row = r}

\* What the rows and attestations of the next state satisfy.
RowFactsNext ==
    /\ \A u \in Events : \A r \in RowsNext(u) :
          r.ann < fresh' /\ (r.att # None => r.att.ann = r.ann /\ r.att \in sigs')
    /\ \A u, v \in Events : \A r \in RowsNext(u), s \in RowsNext(v) :
          r.ann = s.ann => u = v
    /\ \A s \in sigs' : s.ann < fresh'
    /\ \A u \in Events : \A r \in RowsNext(u), s \in sigs' : s.ann = r.ann =>
          closedAs'[u] # None /\ s.digits = Digits(FormatOutcome(closedAs'[u]))
    /\ \A s, t \in sigs' : s.ann = t.ann => s = t

\* Both spellings agree.
LEMMA RowFactsHold ==
    RowFactsNext => /\ AnnouncementsAreOwned' /\ SignaturesAreTrue'
                    /\ RowsSignThemselves' /\ NoncesSignOneOutcome'
BY DEF RowFactsNext, RowsNext, RowsOf, AnnouncementsAreOwned, SignaturesAreTrue,
       RowsSignThemselves, NoncesSignOneOutcome, DbValue, Attestation, Outcomes,
       FormatOutcome, Digits

\* Steps that add no row and no attestation keep the facts.
LEMMA NoNewRow ==
    ASSUME IInv, [Next]_vars, sigs' = sigs, fresh' = fresh,
           \A v \in Events : RowsNext(v) \subseteq RowsOf(v)
    PROVE  RowFactsNext
<1>1. \A u \in Events : closedAs[u] # None => closedAs'[u] = closedAs[u]
  BY ClosedStaysClosed DEF IInv
<1>2. QED
  BY <1>1 DEF IInv, RowFactsNext, AnnouncementsAreOwned, SignaturesAreTrue,
              RowsSignThemselves, NoncesSignOneOutcome

\* Every step keeps announcements apart and attestations true to them.
LEMMA StepsKeepRows == IInv /\ [Next]_vars => RowFactsNext
<1> SUFFICES ASSUME IInv, [Next]_vars PROVE RowFactsNext
  OBVIOUS
<1> USE ConstantsAssumption
<1>t. /\ hnd \in [Handlers -> Handler] /\ db \in [Events -> DbValue \cup {None}]
      /\ fresh \in Nat /\ CallbacksKnowOutcome
  BY DEF IInv, TypeOK
<1>1. ASSUME NEW h \in Handlers, NEW u \in Events, OnCreateDLC(h, u)
      PROVE  RowFactsNext
  <2> DEFINE row == [ann |-> fresh, att |-> None]
  <2>1. /\ hnd' = [hnd EXCEPT ![h] = [pc |-> "find", uuid |-> u, value |-> None,
                                      row |-> row]]
        /\ fresh' = fresh + 1 /\ sigs' = sigs /\ db' = db /\ closedAs' = closedAs
    BY <1>1 DEF OnCreateDLC, BuildAnnouncement, chain
  <2>2. \A v \in Events : \A r \in RowsNext(v) :
           r \in RowsOf(v) \/ (v = u /\ r = row)
    BY <2>1, <1>t DEF RowsNext, RowsOf
  <2>3. row.ann = fresh /\ row.att = None
    OBVIOUS
  <2> HIDE DEF row
  <2>4. /\ \A v \in Events : \A r \in RowsOf(v) : r.ann \in Nat /\ r.ann < fresh
        /\ \A s \in sigs : s.ann \in Nat /\ s.ann < fresh
    BY DEF IInv, TypeOK, AnnouncementsAreOwned, RowsOf, DbValue, Attestation
  <2>5. QED
    BY <2>1, <2>2, <2>3, <2>4, <1>t
       DEF IInv, RowFactsNext, AnnouncementsAreOwned, SignaturesAreTrue,
           RowsSignThemselves, NoncesSignOneOutcome
<1>2. ASSUME NEW h \in Handlers, AttestGet(h), hnd'[h] # Idle PROVE RowFactsNext
  <2> DEFINE u == hnd[h].uuid
             a == BuildAttestation(db[u].ann, hnd[h].value)
             row == [ann |-> db[u].ann, att |-> a]
  <2>1. /\ db[u] # None /\ sigs' = sigs \cup {a} /\ hnd[h].pc = "get"
        /\ hnd' = [hnd EXCEPT ![h].pc = "find",
                              ![h].row = [db[u] EXCEPT !.att = a]]
        /\ fresh' = fresh /\ db' = db /\ closedAs' = closedAs
    BY <1>2, <1>t DEF AttestGet, chain
  <2>2. /\ u \in Events /\ db[u] \in DbValue /\ row # None
        /\ [db[u] EXCEPT !.att = a] = row
    BY <2>1, NewRowIsRow
  <2>3. /\ closedAs[u] # None /\ a.ann = db[u].ann
        /\ a.digits = Digits(FormatOutcome(closedAs[u]))
    BY <2>1, <1>t DEF CallbacksKnowOutcome, BuildAttestation
  <2>4. row.ann = db[u].ann /\ row.att = a
    OBVIOUS
  <2>5. db[u] \in RowsOf(u)
    BY <2>1, <2>2 DEF RowsOf
  <2> HIDE DEF a, row
  <2>6. \A v \in Events : \A r \in RowsNext(v) :
           r \in RowsOf(v) \/ (v = u /\ r = row)
    BY <2>1, <2>2, <1>t DEF RowsNext, RowsOf, Handler, Idle
  <2>7. \A s \in sigs : s.ann = a.ann => s = a
    <3> SUFFICES ASSUME NEW s \in sigs, s.ann = a.ann PROVE s = a
      OBVIOUS
    <3>1. s.digits = a.digits
      BY <2>2, <2>3, <2>5 DEF IInv, SignaturesAreTrue
    <3>2. s \in Attestation /\ a \in Attestation
      BY <2>1, NewRowIsRow DEF IInv, TypeOK, a
    <3>3. QED
      BY <3>1, <3>2 DEF Attestation
  <2>8. QED
    BY <2>1, <2>2, <2>3, <2>4, <2>5, <2>6, <2>7
       DEF IInv, RowFactsNext, AnnouncementsAreOwned, SignaturesAreTrue,
           RowsSignThemselves, NoncesSignOneOutcome
\* All other steps.
<1>i. ASSUME NEW h \in Handlers, hnd' = [hnd EXCEPT ![h] = Idle], db' = db,
             sigs' = sigs, fresh' = fresh
      PROVE  RowFactsNext
  <2>1. \A v \in Events : RowsNext(v) \subseteq RowsOf(v)
    BY <1>i, <1>t DEF RowsNext, RowsOf, Idle
  <2>2. QED
    BY <1>i, <2>1, NoNewRow
<1>3. ASSUME NEW h \in Handlers, AttestGet(h), hnd'[h] = Idle PROVE RowFactsNext
  <2>1. hnd[h].pc = "get"
    BY <1>3 DEF AttestGet
  <2>2. hnd' = [hnd EXCEPT ![h] = Idle] /\ sigs' = sigs
    BY <1>3, <2>1, <1>t DEF AttestGet, Idle
  <2>3. QED
    BY <1>3, <2>2, <1>i DEF AttestGet
<1>4. ASSUME NEW h \in Handlers, NEW u \in Events, OnCloseDLC(h, u)
      PROVE  RowFactsNext
  <2>1. \A v \in Events : RowsNext(v) \subseteq RowsOf(v)
    BY <1>4, <1>t DEF OnCloseDLC, RowsNext, RowsOf
  <2>2. QED
    BY <1>4, <2>1, NoNewRow DEF OnCloseDLC
<1>5. ASSUME NEW h \in Handlers, InsertFind(h) PROVE RowFactsNext
  <2>1. hnd' = [hnd EXCEPT ![h] = Idle] \/
        \E pc : hnd' = [hnd EXCEPT ![h].pc = pc]
    BY <1>5 DEF InsertFind
  <2>2. ASSUME NEW pc, hnd' = [hnd EXCEPT ![h].pc = pc] PROVE RowFactsNext
    <3>1. \A g \in Handlers : hnd'[g].uuid = hnd[g].uuid /\ hnd'[g].row = hnd[g].row
      BY <2>2, <1>t DEF Handler, Idle
    <3>2. db' = db /\ sigs' = sigs /\ fresh' = fresh
      BY <1>5 DEF InsertFind
    <3>3. \A v \in Events : RowsNext(v) \subseteq RowsOf(v)
      BY <3>1, <3>2 DEF RowsNext, RowsOf
    <3>4. QED
      BY <3>2, <3>3, NoNewRow
  <2>3. QED
    BY <1>5, <2>1, <2>2, <1>i DEF InsertFind
<1>6. ASSUME NEW h \in Handlers, InsertUpdate(h) \/ InsertCreate(h)
      PROVE  RowFactsNext
  <2>1. hnd[h].pc \in {"update", "create"}
    BY <1>6 DEF InsertUpdate, InsertCreate
  <2>2. hnd[h].uuid \in Events
    BY <2>1, <1>t DEF Handler, Idle
  <2>3. /\ db' = db \/ db' = [db EXCEPT ![hnd[h].uuid] = hnd[h].row]
        /\ hnd' = [hnd EXCEPT ![h] = Idle] /\ sigs' = sigs /\ fresh' = fresh
    BY <1>6 DEF InsertUpdate, InsertCreate
  <2>4. \A v \in Events : RowsNext(v) \subseteq RowsOf(v)
    BY <2>2, <2>3, <1>t DEF RowsNext, RowsOf, Idle
  <2>5. QED
    BY <2>3, <2>4, NoNewRow
<1>7. CASE Restart
  <2>1. \A v \in Events : RowsNext(v) \subseteq RowsOf(v)
    BY <1>7 DEF Restart, RowsNext, RowsOf, Idle
  <2>2. QED
    BY <1>7, <2>1, NoNewRow DEF Restart
<1>8. CASE \/ \E u \in Events : GetAnnouncement(u) \/ CreateDLC(u) \/ CloseDLC(u)
           \/ Stabilise \/ UNCHANGED vars
  <2>1. UNCHANGED <<db, hnd, sigs, fresh>>
    BY <1>8 DEF GetAnnouncement, CreateDLC, CloseDLC, Stabilise, vars
  <2>2. \A v \in Events : RowsNext(v) \subseteq RowsOf(v)
    BY <2>1 DEF RowsNext, RowsOf
  <2>3. QED
    BY <2>1, <2>2, NoNewRow
<1>9. QED
  BY <1>1, <1>2, <1>3, <1>4, <1>5, <1>6, <1>7, <1>8 DEF Next, HandlerStep

-----------------------------------------------------------------------------
\* The invariant is inductive.
THEOREM Invariance == Spec => []IInv
<1>1. IInv /\ [Next]_vars => IInv'
  <2> SUFFICES ASSUME IInv, [Next]_vars PROVE IInv'
    OBVIOUS
  <2>1. TypeOK'
    BY StepsKeepTypes DEF IInv
  <2>2. CallbacksKnowOutcome'
    BY StepsKeepCallbacks
  <2>3. /\ AnnouncementsAreOwned' /\ SignaturesAreTrue'
        /\ RowsSignThemselves' /\ NoncesSignOneOutcome'
    BY StepsKeepRows, RowFactsHold
  <2>4. QED
    BY <2>1, <2>2, <2>3 DEF IInv
<1>2. QED
  BY InitIInv, <1>1, PTL DEF Spec

\* Every variable keeps its type.
THEOREM TypeCorrect == Spec => []TypeOK
<1>1. IInv => TypeOK
  BY DEF IInv
<1>2. QED
  BY <1>1, Invariance, PTL

\* A stored attestation is signed with the nonces of the announcement it is
\* stored with, however callbacks interleave, fail and repeat.
THEOREM RowsConsistent == Spec => []RowsAreConsistent
<1>1. IInv => RowsAreConsistent
  <2> SUFFICES ASSUME IInv, NEW u \in Events, db[u] # None, db[u].att # None
               PROVE  db[u].att.ann = db[u].ann
    BY DEF RowsAreConsistent
  <2>1. db[u] \in RowsOf(u)
    BY DEF IInv, TypeOK, RowsOf
  <2>2. QED
    BY <2>1 DEF IInv, RowsSignThemselves
<1>2. QED
  BY <1>1, Invariance, PTL

\* What a wallet reads from the digits of a stored attestation is the nearest
\* number to the scaled outcome of the contract, for any number of digits.
THEOREM AttestationsDecoded == Spec => []AttestationsDecode
<1>1. IInv => AttestationsDecode
  <2> SUFFICES ASSUME IInv PROVE AttestationsDecode
    OBVIOUS
  <2>1. ASSUME NEW u \in Events, db[u] # None, db[u].att # None
        PROVE  /\ closedAs[u] \in RawOutcomes /\ closedAs[u] # None
               /\ db[u].att.digits = Digits(FormatOutcome(closedAs[u]))
    <3>1. db[u] \in RowsOf(u)
      BY <2>1 DEF IInv, TypeOK, RowsOf
    <3>2. db[u].att \in sigs /\ db[u].att.ann = db[u].ann
      BY <2>1, <3>1 DEF IInv, RowsSignThemselves
    <3> QED  BY <3>1, <3>2 DEF IInv, SignaturesAreTrue, TypeOK
  <2> QED  BY <2>1, DigitsDecode DEF AttestationsDecode
<1>2. QED
  BY <1>1, Invariance, PTL

\* The secret nonces of an announcement never sign two different outcomes.
THEOREM NoncesSignOnce == Spec => []NoncesSignOneOutcome
<1>1. IInv => NoncesSignOneOutcome
  BY DEF IInv
<1>2. QED
  BY <1>1, Invariance, PTL

-----------------------------------------------------------------------------
\* What holds besides when CreateDLC is notified at most once.

\* Callback h is to store a row of event u without, or with, an attestation.
Announces(h, u) ==
    hnd[h].uuid = u /\ hnd[h].row # None /\ hnd[h].row.att = None
Attests(h, u) ==
    hnd[h].uuid = u /\ hnd[h].row # None /\ hnd[h].row.att # None

\* An event that was never heard has no row, and all its rows hold the same
\* announcement.  One callback announces it, while nothing is stored; only a
\* stored event is attested.
AnnouncedOnce ==
    \A u \in Events :
        /\ heard.create[u] = 0 => RowsOf(u) = {}
        /\ \A r, s \in RowsOf(u) : r.ann = s.ann
        /\ \A g, h \in Handlers : Announces(g, u) /\ Announces(h, u) => g = h
        /\ \A h \in Handlers : /\ Announces(h, u) => db[u] = None
                               /\ Attests(h, u) => db[u] # None

OracleInv == IInv /\ AnnouncedOnce /\ OffersStayClosable

\* Steps that store nothing and take no row into hand keep this.
LEMMA NoNewRowInHand ==
    ASSUME OracleInv, [Next]_vars, db' = db, used' = used,
           \A h \in Handlers :
              \/ hnd'[h].uuid = hnd[h].uuid /\ hnd'[h].row = hnd[h].row
              \/ hnd'[h].row = None,
           \A u \in Events : heard'.create[u] = 0 => heard.create[u] = 0
    PROVE  AnnouncedOnce' /\ OffersStayClosable'
<1>1. \A u \in Events : RowsNext(u) \subseteq RowsOf(u)
  BY DEF RowsNext, RowsOf
<1>2. \A u \in Events : RowsOf(u)' = RowsNext(u)
  BY DEF RowsNext, RowsOf, DbValue, Attestation, Outcomes, FormatOutcome, Digits
<1>3. \A u \in Events, h \in Handlers :
         (Announces(h, u)' => Announces(h, u)) /\ (Attests(h, u)' => Attests(h, u))
  BY DEF Announces, Attests
<1>4. OffersStayClosable'
  BY DEF OracleInv, OffersStayClosable
<1>5. AnnouncedOnce'
  <2> SUFFICES ASSUME NEW u \in Events
               PROVE  /\ heard'.create[u] = 0 => RowsNext(u) = {}
                      /\ \A r, s \in RowsNext(u) : r.ann = s.ann
                      /\ \A g, h \in Handlers :
                            Announces(g, u)' /\ Announces(h, u)' => g = h
                      /\ \A h \in Handlers :
                            /\ Announces(h, u)' => db'[u] = None
                            /\ Attests(h, u)' => db'[u] # None
    BY <1>2 DEF AnnouncedOnce
  <2> QED  BY <1>1, <1>3 DEF OracleInv, AnnouncedOnce
<1> QED  BY <1>4, <1>5

\* Every step keeps one announcement for an event.
LEMMA StepsKeepAnnouncement ==
    ASSUME CreateNotices =< 1, OracleInv, [Next]_vars
    PROVE  AnnouncedOnce' /\ OffersStayClosable'
<1> USE ConstantsAssumption
<1>t. /\ hnd \in [Handlers -> Handler] /\ db \in [Events -> DbValue \cup {None}]
      /\ heard \in [create : [Events -> 0 .. CreateNotices],
                    close : [Events -> 0 .. CloseNotices]]
      /\ used \in [Events -> Nat \cup {None}]
      /\ IInv /\ AnnouncedOnce /\ OffersStayClosable /\ CallbacksKnowOutcome
  BY DEF OracleInv, IInv, TypeOK
<1> DEFINE Once(u) == /\ heard'.create[u] = 0 => RowsNext(u) = {}
                      /\ \A r, s \in RowsNext(u) : r.ann = s.ann
                      /\ \A g, h \in Handlers :
                            Announces(g, u)' /\ Announces(h, u)' => g = h
                      /\ \A h \in Handlers :
                            /\ Announces(h, u)' => db'[u] = None
                            /\ Attests(h, u)' => db'[u] # None
<1>o. ASSUME \A u \in Events : Once(u) PROVE AnnouncedOnce'
  <2>1. \A u \in Events : RowsOf(u)' = RowsNext(u)
    BY DEF RowsNext, RowsOf, DbValue, Attestation, Outcomes, FormatOutcome, Digits
  <2> QED  BY <1>o, <2>1 DEF AnnouncedOnce
\* An event whose rows and callbacks are as they were.
<1>s. ASSUME NEW u \in Events, db'[u] = db[u], heard'.create[u] = heard.create[u],
             \A g \in Handlers :
                hnd'[g] = hnd[g] \/ (hnd[g].uuid # u /\ hnd'[g].uuid # u)
      PROVE  Once(u)
  <2>1. RowsNext(u) = RowsOf(u)
    BY <1>s DEF RowsNext, RowsOf
  <2>2. \A g \in Handlers :
           (Announces(g, u)' => Announces(g, u)) /\ (Attests(g, u)' => Attests(g, u))
    BY <1>s DEF Announces, Attests
  <2> QED  BY <1>s, <2>1, <2>2, <1>t DEF AnnouncedOnce
<1>1. ASSUME NEW h \in Handlers, NEW u \in Events, OnCreateDLC(h, u)
      PROVE  AnnouncedOnce' /\ OffersStayClosable'
  <2> DEFINE row == [ann |-> fresh, att |-> None]
  <2>1. /\ hnd' = [hnd EXCEPT ![h] = [pc |-> "find", uuid |-> u, value |-> None,
                                      row |-> row]]
        /\ hnd[h].pc = "idle" /\ heard.create[u] < CreateNotices
        /\ heard' = [heard EXCEPT !.create[u] = @ + 1]
        /\ db' = db /\ used' = used
    BY <1>1 DEF OnCreateDLC, BuildAnnouncement
  <2>2. heard.create[u] = 0 /\ heard'.create[u] = 1
        /\ \A v \in Events : v # u => heard'.create[v] = heard.create[v]
    BY <2>1, <1>t
  <2>3. RowsOf(u) = {}
    BY <2>2, <1>t DEF AnnouncedOnce
  <2>4. row # None /\ row.att = None
    BY NoneAssumption DEF OracleInv, IInv, TypeOK, DbValue
  <2> HIDE DEF row
  <2>5. /\ hnd'[h].uuid = u /\ hnd'[h].row = row /\ hnd[h].uuid = None
        /\ \A g \in Handlers : g # h => hnd'[g] = hnd[g]
    BY <2>1, <1>t DEF Handler, Idle
  <2>6. \A v \in Events : v # u => Once(v)
    <3>1. \A v \in Events : v # None
      BY ConstantsAssumption
    <3> QED  BY <2>1, <2>2, <2>5, <3>1, <1>s
  <2>7. Once(u)
    <3>0. \A g \in Handlers : hnd[g].uuid = u /\ hnd[g].row # None => FALSE
      BY <2>3, <1>t DEF RowsOf, Handler, Idle
    <3>1. db[u] = None
      BY <2>3, <1>t DEF RowsOf
    <3>2. \A r \in RowsNext(u) : r = row
      BY <2>1, <2>5, <3>0, <3>1 DEF RowsNext
    <3>3. \A g \in Handlers : g # h => ~Announces(g, u)' /\ ~Attests(g, u)'
      BY <2>5, <3>0 DEF Announces, Attests
    <3>4. ~Attests(h, u)'
      BY <2>4, <2>5 DEF Attests
    <3> QED  BY <2>1, <2>2, <3>1, <3>2, <3>3, <3>4
  <2> HIDE DEF Once
  <2>8. OffersStayClosable'
    BY <2>1, <1>t DEF OffersStayClosable
  <2> QED  BY <2>6, <2>7, <2>8, <1>o
<1>2. ASSUME NEW h \in Handlers, NEW u \in Events, hnd[h].uuid = u,
             AttestGet(h), hnd'[h] # Idle
      PROVE  AnnouncedOnce' /\ OffersStayClosable'
  <2> DEFINE a == BuildAttestation(db[u].ann, hnd[h].value)
             row == [ann |-> db[u].ann, att |-> a]
  <2>1. /\ db[u] # None /\ hnd[h].pc = "get"
        /\ hnd' = [hnd EXCEPT ![h].pc = "find",
                              ![h].row = [db[u] EXCEPT !.att = a]]
        /\ db' = db /\ used' = used /\ heard' = heard
    BY <1>2, <1>t DEF AttestGet
  <2>2. /\ db[u] \in DbValue /\ row # None
        /\ [db[u] EXCEPT !.att = a] = row /\ a \in Attestation
    BY <1>2, <2>1, <1>t, NewRowIsRow
  <2>3. row.ann = db[u].ann /\ row.att = a
    OBVIOUS
  <2>4. a # None
    BY <2>2, NoneAssumption
  <2> HIDE DEF a, row
  <2>5. /\ hnd'[h].uuid = u /\ hnd'[h].row = row
        /\ \A g \in Handlers : g # h => hnd'[g] = hnd[g]
    BY <1>2, <2>1, <2>2, <1>t DEF Handler, Idle
  <2>6. \A v \in Events : v # u => Once(v)
    BY <1>2, <2>1, <2>5, <1>s
  <2>7. Once(u)
    <3>0. db[u] \in RowsOf(u)
      BY <2>1, <2>2 DEF RowsOf
    <3>1. \A r \in RowsNext(u) : r \in RowsOf(u) \/ r = row
      BY <2>1, <2>5, <1>t DEF RowsNext, RowsOf
    <3>2. \A r, s \in RowsNext(u) : r.ann = s.ann
      BY <3>0, <3>1, <2>3, <2>2, <1>t DEF AnnouncedOnce
    <3>3. \A g \in Handlers : ~Announces(g, u)'
      BY <2>1, <2>2, <2>3, <2>4, <2>5, <1>t DEF Announces, AnnouncedOnce
    <3>4. heard'.create[u] # 0
      BY <2>1, <2>2, <3>0, <1>t DEF AnnouncedOnce
    <3> QED  BY <2>1, <3>2, <3>3, <3>4
  <2>8. OffersStayClosable'
    BY <2>1, <1>t DEF OffersStayClosable
  <2> HIDE DEF Once
  <2> QED  BY <2>6, <2>7, <2>8, <1>o
<1>i. ASSUME NEW h \in Handlers, hnd' = [hnd EXCEPT ![h] = Idle], db' = db,
             used' = used, heard' = heard
      PROVE  AnnouncedOnce' /\ OffersStayClosable'
  <2>1. \A g \in Handlers : hnd'[g] = hnd[g] \/ hnd'[g].row = None
    BY <1>i, <1>t DEF Idle
  <2> QED  BY <1>i, <2>1, NoNewRowInHand
<1>3. ASSUME NEW h \in Handlers, AttestGet(h), hnd'[h] = Idle
      PROVE  AnnouncedOnce' /\ OffersStayClosable'
  <2>1. hnd[h].pc = "get"
    BY <1>3 DEF AttestGet
  <2>2. hnd' = [hnd EXCEPT ![h] = Idle]
    BY <1>3, <2>1, <1>t DEF AttestGet, Idle
  <2> QED  BY <1>3, <2>2, <1>i DEF AttestGet
<1>4. ASSUME NEW h \in Handlers, NEW u \in Events, OnCloseDLC(h, u)
      PROVE  AnnouncedOnce' /\ OffersStayClosable'
  <2>1. \A g \in Handlers : hnd'[g] = hnd[g] \/ hnd'[g].row = None
    BY <1>4, <1>t DEF OnCloseDLC
  <2>2. heard'.create = heard.create
    BY <1>4, <1>t DEF OnCloseDLC
  <2> QED  BY <1>4, <2>1, <2>2, NoNewRowInHand DEF OnCloseDLC
<1>5. ASSUME NEW h \in Handlers, InsertFind(h)
      PROVE  AnnouncedOnce' /\ OffersStayClosable'
  <2>1. hnd' = [hnd EXCEPT ![h] = Idle] \/
        \E pc : hnd' = [hnd EXCEPT ![h].pc = pc]
    BY <1>5 DEF InsertFind
  <2>2. ASSUME NEW pc, hnd' = [hnd EXCEPT ![h].pc = pc]
        PROVE  AnnouncedOnce' /\ OffersStayClosable'
    <3>1. \A g \in Handlers : hnd'[g].uuid = hnd[g].uuid /\ hnd'[g].row = hnd[g].row
      BY <2>2, <1>t DEF Handler, Idle
    <3> QED  BY <1>5, <3>1, NoNewRowInHand DEF InsertFind
  <2> QED  BY <1>5, <2>1, <2>2, <1>i DEF InsertFind
<1>6. ASSUME NEW h \in Handlers, NEW u \in Events, hnd[h].uuid = u,
             InsertUpdate(h) \/ InsertCreate(h)
      PROVE  AnnouncedOnce' /\ OffersStayClosable'
  <2> DEFINE row == hnd[h].row
  <2>1. hnd[h].pc \in {"update", "create"}
    BY <1>6 DEF InsertUpdate, InsertCreate
  <2>2. row \in DbValue /\ row # None
    BY <2>1, <1>t DEF Handler, Idle, CallbacksKnowOutcome
  <2>3. /\ db' = db \/ db' = [db EXCEPT ![u] = row]
        /\ hnd' = [hnd EXCEPT ![h] = Idle] /\ used' = used /\ heard' = heard
    BY <1>6 DEF InsertUpdate, InsertCreate
  <2>4. CASE db' = db
    BY <2>3, <2>4, <1>i
  <2>5. CASE db' = [db EXCEPT ![u] = row]
    <3>1. /\ db'[u] = row /\ hnd'[h].row = None
          /\ \A v \in Events : v # u => db'[v] = db[v]
          /\ \A g \in Handlers : g # h => hnd'[g] = hnd[g]
      BY <2>2, <2>3, <2>5, <1>t DEF Idle
    <3>2. hnd'[h].uuid = None
      BY <2>3, <1>t DEF Idle
    <3>3. \A v \in Events : v # u => Once(v)
      <4>1. \A v \in Events : v # None
        BY ConstantsAssumption
      <4> QED  BY <1>6, <2>3, <3>1, <3>2, <4>1, <1>s
    <3>4. row \in RowsOf(u)
      BY <1>6, <2>2 DEF RowsOf
    <3>5. RowsNext(u) \subseteq RowsOf(u)
      BY <3>1, <3>4 DEF RowsNext, RowsOf
    <3>6. Once(u)
      <4>1. \A r, s \in RowsNext(u) : r.ann = s.ann
        BY <3>5, <2>2, <1>t DEF AnnouncedOnce
      <4>2. heard'.create[u] # 0
        BY <2>2, <2>3, <3>4, <1>t DEF AnnouncedOnce
      <4>3. \A g \in Handlers : ~Announces(g, u)'
        <5> SUFFICES ASSUME NEW g \in Handlers, Announces(g, u)' PROVE FALSE
          OBVIOUS
        <5>1. hnd'[g].uuid = u /\ hnd'[g].row # None /\ hnd'[g].row.att = None
          BY <2>3 DEF Announces
        <5>2. g # h /\ hnd'[g] = hnd[g]
          BY <3>1, <5>1
        <5>3. Announces(g, u)
          BY <5>1, <5>2 DEF Announces
        <5>4. db[u] = None /\ ~Announces(h, u)
          BY <2>2, <5>2, <5>3, <1>t DEF AnnouncedOnce
        <5>5. Attests(h, u)
          BY <1>6, <2>2, <5>4 DEF Announces, Attests
        <5> QED  BY <2>2, <5>4, <5>5, <1>t DEF AnnouncedOnce
      <4> QED  BY <2>2, <3>1, <4>1, <4>2, <4>3
    <3>7. OffersStayClosable'
      <4> SUFFICES ASSUME NEW v \in Events, used[v] # None
                   PROVE  db'[v] # None /\ db'[v].ann = used[v]
        BY <2>3 DEF OffersStayClosable
      <4>1. db[v] # None /\ db[v].ann = used[v]
        BY <1>t DEF OffersStayClosable
      <4>2. CASE v = u
        <5>1. db[u] \in RowsOf(u)
          BY <2>2, <4>1, <4>2, <1>t DEF RowsOf
        <5> QED  BY <2>2, <3>1, <3>4, <4>1, <4>2, <5>1, <1>t DEF AnnouncedOnce
      <4> QED  BY <3>1, <4>1, <4>2
    <3> HIDE DEF Once
    <3> QED  BY <3>3, <3>6, <3>7, <1>o
  <2> QED  BY <2>3, <2>4, <2>5
<1>7. CASE Restart
  <2>1. \A g \in Handlers : hnd'[g].row = None
    BY <1>7 DEF Restart, Idle
  <2> QED  BY <1>7, <2>1, NoNewRowInHand DEF Restart
<1>8. ASSUME NEW u \in Events, GetAnnouncement(u)
      PROVE  AnnouncedOnce' /\ OffersStayClosable'
  <2>1. \A v \in Events : Once(v)
    BY <1>8, <1>s DEF GetAnnouncement
  <2>2. OffersStayClosable'
    BY <1>8, <1>t DEF GetAnnouncement, OffersStayClosable
  <2> HIDE DEF Once
  <2> QED  BY <2>1, <2>2, <1>o
<1>9. CASE (\E u \in Events : CreateDLC(u) \/ CloseDLC(u)) \/ Stabilise \/ UNCHANGED vars
  BY <1>9, NoNewRowInHand DEF CreateDLC, CloseDLC, Stabilise, vars
<1>10. ASSUME NEW h \in Handlers, HandlerStep(h) PROVE hnd[h].uuid \in Events
  <2>1. hnd[h].pc # "idle"
    BY <1>10 DEF HandlerStep, AttestGet, InsertFind, InsertUpdate, InsertCreate
  <2> QED  BY <2>1, <1>t DEF Handler, Idle
<1> QED  BY <1>1, <1>2, <1>3, <1>4, <1>5, <1>6, <1>7, <1>8, <1>9, <1>10
         DEF Next, HandlerStep

\* The strengthened invariant is inductive.
LEMMA AnnouncedOnceInvariance == CreateNotices =< 1 /\ Spec => []OracleInv
<1> SUFFICES ASSUME CreateNotices =< 1 PROVE Spec => []OracleInv
  OBVIOUS
<1>1. Init => OracleInv
  <2> SUFFICES ASSUME Init PROVE OracleInv
    OBVIOUS
  <2>1. AnnouncedOnce
    BY DEF Init, AnnouncedOnce, RowsOf, Announces, Attests, Idle, DbValue
  <2>2. OffersStayClosable
    BY DEF Init, OffersStayClosable
  <2> QED  BY <2>1, <2>2, InitIInv DEF OracleInv
<1>2. OracleInv /\ IInv' /\ [Next]_vars => OracleInv'
  BY StepsKeepAnnouncement DEF OracleInv
<1> QED  BY <1>1, <1>2, Invariance, PTL DEF Spec

\* If CreateDLC is notified once, the announcement an offer was built on is
\* the one that is attested, however callbacks overlap, fail and restart.
THEOREM OffersClosable == CreateNotices =< 1 /\ Spec => []OffersStayClosable
<1>1. OracleInv => OffersStayClosable
  BY DEF OracleInv
<1> QED  BY <1>1, AnnouncedOnceInvariance, PTL

-----------------------------------------------------------------------------
\* What a wallet sees of the rows.
Announced == [u \in Events |-> IF db[u] = None THEN None ELSE db[u].ann]
Attested == [u \in Events |->
               IF db[u] = None THEN None
               ELSE IF db[u].att = None THEN None ELSE db[u].att.digits]
oracleVars == <<Announced, Attested>>

\* A function that differs at one point.
LEMMA ChangeOfOne ==
    ASSUME NEW S, NEW f, NEW g, NEW u, NEW y,
           f = [v \in S |-> f[v]], g = [v \in S |-> g[v]],
           \A v \in S : g[v] = IF v = u THEN y ELSE f[v]
    PROVE  g = [f EXCEPT ![u] = y]
OBVIOUS

\* A callback that writes its row announces, attests, or writes what is there.
LEMMA WriteMaps ==
    ASSUME OracleInv, NEW h \in Handlers, NEW u \in Events, hnd[h].uuid = u,
           hnd[h].pc \in {"update", "create"},
           db' = [db EXCEPT ![u] = hnd[h].row]
    PROVE  [Oracle!Next]_oracleVars
<1> USE ConstantsAssumption
<1> DEFINE row == hnd[h].row
<1>t. /\ hnd \in [Handlers -> Handler] /\ db \in [Events -> DbValue \cup {None}]
      /\ IInv /\ AnnouncedOnce
  BY DEF OracleInv, IInv, TypeOK
<1>1. row \in DbValue /\ row # None
  BY <1>t DEF Handler, Idle, IInv, CallbacksKnowOutcome
<1>2. row \in RowsOf(u)
  BY <1>1 DEF RowsOf
<1>3. /\ db'[u] = row /\ \A v \in Events : v # u => db'[v] = db[v]
  BY <1>t
<1>n. row.ann \in Nat /\ row.ann # None
  BY <1>1 DEF DbValue
<1>4. CASE row.att = None
  <2>1. db[u] = None
    BY <1>1, <1>4, <1>t DEF Announces, AnnouncedOnce
  <2>2. UNCHANGED Attested
    BY <1>1, <1>3, <1>4, <2>1 DEF Attested
  <2>3. Announced' = [Announced EXCEPT ![u] = row.ann]
    <3>1. \A v \in Events :
             Announced'[v] = IF v = u THEN row.ann ELSE Announced[v]
      BY <1>1, <1>3 DEF Announced
    <3>2. Announced = [v \in Events |-> Announced[v]]
          /\ Announced' = [v \in Events |-> Announced'[v]]
      BY DEF Announced
    <3> QED  BY <3>1, <3>2, ChangeOfOne
  <2>4. Announced[u] = None /\ Announced'[u] = row.ann
    BY <2>1, <2>3 DEF Announced
  <2>5. Oracle!Announce(u)
    BY <1>n, <2>2, <2>3, <2>4 DEF Oracle!Announce, Announced, Attested
  <2> QED  BY <2>5 DEF Oracle!Next
<1>5. CASE row.att # None
  <2>1. db[u] # None /\ db[u] \in DbValue
    BY <1>1, <1>5, <1>t DEF Attests, AnnouncedOnce
  <2>2. db[u] \in RowsOf(u)
    BY <2>1 DEF RowsOf
  <2>3. db[u].ann = row.ann
    BY <1>2, <2>2, <1>t DEF AnnouncedOnce
  <2>4. UNCHANGED Announced
    BY <1>1, <1>3, <2>1, <2>3 DEF Announced
  <2>5. row.att \in sigs /\ row.att.ann = row.ann /\ row.att \in Attestation
    BY <1>1, <1>2, <1>5, <1>t DEF IInv, RowsSignThemselves, DbValue
  <2>6. Attested' = [Attested EXCEPT ![u] = row.att.digits]
    <3>1. \A v \in Events :
             Attested'[v] = IF v = u THEN row.att.digits ELSE Attested[v]
      BY <1>1, <1>3, <1>5 DEF Attested
    <3>2. Attested = [v \in Events |-> Attested[v]]
          /\ Attested' = [v \in Events |-> Attested'[v]]
      BY DEF Attested
    <3> QED  BY <3>1, <3>2, ChangeOfOne
  <2>7. CASE db[u].att = None
    <3>1. row.att.digits \in {Digits(o) : o \in Outcomes}
      BY <2>5 DEF Attestation
    <3>2. /\ Announced[u] # None
          /\ Attested[u] = None /\ Attested'[u] = row.att.digits
      BY <1>n, <2>1, <2>3, <2>6, <2>7 DEF Announced, Attested
    <3>3. Oracle!Attest(u)
      BY <2>4, <2>6, <3>1, <3>2 DEF Oracle!Attest, Announced, Attested
    <3> QED  BY <3>3 DEF Oracle!Next
  <2>8. CASE db[u].att # None
    <3>1. db[u].att \in sigs /\ db[u].att.ann = db[u].ann
      BY <2>2, <2>8, <1>t DEF IInv, RowsSignThemselves
    <3>2. db[u].att = row.att
      BY <2>3, <2>5, <3>1, <1>t DEF IInv, NoncesSignOneOutcome
    <3>3. UNCHANGED Attested
      BY <1>1, <1>3, <1>5, <2>1, <2>8, <3>2 DEF Attested
    <3> QED  BY <2>4, <3>3 DEF oracleVars
  <2> QED  BY <2>7, <2>8
<1> QED  BY <1>4, <1>5

\* Every step of the attestor is a step of the oracle, or none.
LEMMA StepMaps ==
    ASSUME OracleInv, [Next]_vars
    PROVE  [Oracle!Next]_oracleVars
<1>1. CASE db' = db
  BY <1>1 DEF oracleVars, Announced, Attested
<1>2. CASE db' # db
  <2>1. PICK h \in Handlers : InsertUpdate(h) \/ InsertCreate(h)
    BY <1>2 DEF Next, HandlerStep, vars, OnCreateDLC, OnCloseDLC, AttestGet,
                InsertFind, Restart, GetAnnouncement, CreateDLC, CloseDLC, Stabilise
  <2>2. /\ hnd[h].pc \in {"update", "create"}
        /\ db' = [db EXCEPT ![hnd[h].uuid] = hnd[h].row]
    BY <1>2, <2>1 DEF InsertUpdate, InsertCreate
  <2>3. hnd[h].uuid \in Events
    BY <2>2 DEF OracleInv, IInv, TypeOK, Handler, Idle
  <2> QED  BY <2>2, <2>3, WriteMaps
<1> QED  BY <1>1, <1>2

\* If CreateDLC is notified once, the attestor is the oracle wallets rely on:
\* each event is announced once, attested once with the announced nonces, and
\* neither is taken back (create_event, attest, insert).
THEOREM Refinement == CreateNotices =< 1 /\ Spec => ImplementsOracle
<1> SUFFICES ASSUME CreateNotices =< 1 PROVE Spec => ImplementsOracle
  OBVIOUS
<1>1. OracleInv /\ [Next]_vars => [Oracle!Next]_oracleVars
  BY StepMaps
<1>2. Init => Oracle!Init
  BY DEF Init, Oracle!Init
<1> QED  BY <1>1, <1>2, AnnouncedOnceInvariance, PTL
         DEF Spec, ImplementsOracle, Oracle!Spec, oracleVars, Announced, Attested
=============================================================================
