------------------------------ MODULE Attestor ------------------------------
(***************************************************************************)
(* One attestor: the observer that hears CreateDLC and CloseDLC events of  *)
(* the DLC manager contracts, and the wasm oracle that announces and       *)
(* attests through the storage API.  Each event starts an async callback;  *)
(* callbacks overlap at every await.                                       *)
(***************************************************************************)
EXTENDS Integers, Sequences

CONSTANTS
    Events,         \* uuids of DLCs
    Handlers,       \* callbacks that may be in flight at once
    RawOutcomes,    \* outcomes as the contract emits them
    Scale,          \* 10^precisionShift: 100 on EVM chains, 1 on Stacks
    NbDigits,       \* nb_digits of an announcement, 14 in the code
    CreateNotices,  \* times a CreateDLC event may be notified
    CloseNotices,   \* times a CloseDLC event may be notified
    None,
    Unreliable      \* may storage calls fail, and the process restart?

\* Mutant: the division truncates.
TruncatedOutcome(raw) == raw \div Scale

\* Math.round(value / 10^precisionShift) of createAttestation.
FormatOutcome(raw) == (raw + Scale \div 2) \div Scale

ASSUME ConstantsAssumption ==
    /\ RawOutcomes \subseteq Nat
    /\ Scale \in Nat \ {0}
    /\ NbDigits \in Nat
    /\ CreateNotices \in Nat /\ CloseNotices \in Nat
    /\ None \notin Nat /\ None \notin Events
    /\ Unreliable \in BOOLEAN

\* The weight of the k-th binary digit from the right.
Pow2[k \in Nat] == IF k = 0 THEN 1 ELSE 2 * Pow2[k - 1]

\* "the outcome of the DLC (0-10000)" fits the announced digits.
ASSUME OutcomeAssumption ==
    \A raw \in RawOutcomes : FormatOutcome(raw) < Pow2[NbDigits]

VARIABLES
    created,   \* chain: DLCs that exist
    closedAs,  \* chain: the outcome a DLC was closed with
    heard,     \* notices of each event so far
    db,        \* storage: the DbValue of an event
    fresh,     \* the next announcement (its nonces are random)
    hnd,       \* callbacks in flight
    used,      \* the announcement an offer of a wallet was built on
    sigs,      \* attestations ever computed
    flaky      \* outages and restarts may still happen

vars == <<created, closedAs, heard, db, fresh, hnd, used, sigs, flaky>>
chain == <<created, closedAs>>

\* format!("{:0width$b}") of attest, most significant digit first.
Digits(o) == [i \in 1 .. NbDigits |-> (o \div Pow2[NbDigits - i]) % 2]

Outcomes == {FormatOutcome(raw) : raw \in RawOutcomes}
Attestation == [ann : Nat, digits : {Digits(o) : o \in Outcomes}]
\* A row holds the secret nonces and the announcement together (ann).
DbValue == [ann : Nat, att : Attestation \cup {None}]
ASSUME NoneAssumption ==
    None \notin DbValue \cup Attestation /\ \A o \in Outcomes : Digits(o) # None

Idle == [pc |-> "idle", uuid |-> None, value |-> None, row |-> None]
Handler ==
    [pc : {"get", "find", "update", "create"}, uuid : Events,
     value : Outcomes \cup {None}, row : DbValue \cup {None}] \cup {Idle}

Init ==
    /\ created = {}
    /\ closedAs = [u \in Events |-> None]
    /\ heard = [create |-> [u \in Events |-> 0], close |-> [u \in Events |-> 0]]
    /\ db = [u \in Events |-> None]
    /\ fresh = 0
    /\ hnd = [h \in Handlers |-> Idle]
    /\ used = [u \in Events |-> None]
    /\ sigs = {}
    /\ flaky = Unreliable

-----------------------------------------------------------------------------
\* build_attestation: one signature per digit, with the announced nonces.
BuildAttestation(ann, o) == [ann |-> ann, digits |-> Digits(o)]

\* Mutant: the nonces of the last announcement are used again.
ReusedAnnouncement(h, u) ==
    /\ hnd' = [hnd EXCEPT ![h] = [pc |-> "find", uuid |-> u, value |-> None,
                                  row |-> [ann |-> 0, att |-> None]]]
    /\ fresh' = fresh + 1

\* build_announcement with fresh random nonces, then insert.
BuildAnnouncement(h, u) ==
    /\ hnd' = [hnd EXCEPT ![h] = [pc |-> "find", uuid |-> u, value |-> None,
                                  row |-> [ann |-> fresh, att |-> None]]]
    /\ fresh' = fresh + 1

\* A CreateDLC notice: createAnnouncement and create_event up to the await.
OnCreateDLC(h, u) ==
    /\ hnd[h].pc = "idle"
    /\ u \in created /\ heard.create[u] < CreateNotices
    /\ heard' = [heard EXCEPT !.create[u] = @ + 1]
    /\ BuildAnnouncement(h, u)
    /\ UNCHANGED <<chain, db, used, sigs, flaky>>

\* Mutant: the outcome is not scaled.
OnCloseUnscaled(h, u) ==
    /\ hnd[h].pc = "idle"
    /\ closedAs[u] # None /\ heard.close[u] < CloseNotices
    /\ heard' = [heard EXCEPT !.close[u] = @ + 1]
    /\ hnd' = [hnd EXCEPT ![h] = [pc |-> "get", uuid |-> u,
                                  value |-> closedAs[u], row |-> None]]
    /\ UNCHANGED <<chain, db, fresh, used, sigs, flaky>>

\* A CloseDLC notice: createAttestation formats the outcome and calls attest.
OnCloseDLC(h, u) ==
    /\ hnd[h].pc = "idle"
    /\ closedAs[u] # None /\ heard.close[u] < CloseNotices
    /\ heard' = [heard EXCEPT !.close[u] = @ + 1]
    /\ hnd' = [hnd EXCEPT ![h] = [pc |-> "get", uuid |-> u,
                                  value |-> FormatOutcome(closedAs[u]),
                                  row |-> None]]
    /\ UNCHANGED <<chain, db, fresh, used, sigs, flaky>>

\* Mutant: the event is announced anew when it is attested.
AttestAnew(h) ==
    LET u == hnd[h].uuid
        a == BuildAttestation(fresh, hnd[h].value) IN
    /\ hnd[h].pc = "get" /\ db[u] # None
    /\ hnd' = [hnd EXCEPT ![h].pc = "find",
                          ![h].row = [ann |-> fresh, att |-> a]]
    /\ sigs' = sigs \cup {a}
    /\ fresh' = fresh + 1
    /\ UNCHANGED <<chain, heard, db, used, flaky>>

\* attest reads the event; a missing one is an error that is only logged.
AttestGet(h) ==
    LET u == hnd[h].uuid IN
    /\ hnd[h].pc = "get"
    /\ \/ /\ db[u] # None
          /\ LET a == BuildAttestation(db[u].ann, hnd[h].value) IN
                /\ hnd' = [hnd EXCEPT ![h].pc = "find",
                                      ![h].row = [db[u] EXCEPT !.att = a]]
                /\ sigs' = sigs \cup {a}
       \/ /\ db[u] = None \/ flaky
          /\ hnd' = [hnd EXCEPT ![h] = Idle]
          /\ UNCHANGED sigs
    /\ UNCHANGED <<chain, heard, db, fresh, used, flaky>>

\* Mutant: insert without its upsert.
NeverUpdate(h) ==
    /\ hnd[h].pc = "find"
    /\ hnd' = [hnd EXCEPT ![h].pc = "create"]
    /\ UNCHANGED <<chain, heard, db, fresh, used, sigs, flaky>>

\* insert, first call: does the storage API have the event?
InsertFind(h) ==
    LET u == hnd[h].uuid IN
    /\ hnd[h].pc = "find"
    /\ \/ hnd' = [hnd EXCEPT ![h].pc = IF db[u] = None THEN "create" ELSE "update"]
       \/ flaky /\ hnd' = [hnd EXCEPT ![h] = Idle]
    /\ UNCHANGED <<chain, heard, db, fresh, used, sigs, flaky>>

\* Mutant: an attestation of None is skipped, as by a changeset of options.
UpdateSkipsNone(h) ==
    LET u == hnd[h].uuid
        new == hnd[h].row IN
    /\ hnd[h].pc = "update"
    /\ db[u] # None
    /\ db' = [db EXCEPT ![u].ann = new.ann,
                        ![u].att = IF new.att = None THEN @ ELSE new.att]
    /\ hnd' = [hnd EXCEPT ![h] = Idle]
    /\ UNCHANGED <<chain, heard, fresh, used, sigs, flaky>>

\* Second call: PUT or POST of the whole row.  Failures end the callback:
\* create_event reports them, attest swallows them, the observer logs.
InsertUpdate(h) ==
    LET u == hnd[h].uuid IN
    /\ hnd[h].pc = "update"
    /\ \/ db[u] # None /\ db' = [db EXCEPT ![u] = hnd[h].row]
       \/ (db[u] = None \/ flaky) /\ UNCHANGED db
    /\ hnd' = [hnd EXCEPT ![h] = Idle]
    /\ UNCHANGED <<chain, heard, fresh, used, sigs, flaky>>

InsertCreate(h) ==
    LET u == hnd[h].uuid IN
    /\ hnd[h].pc = "create"
    /\ \/ db[u] = None /\ db' = [db EXCEPT ![u] = hnd[h].row]
       \/ (db[u] # None \/ flaky) /\ UNCHANGED db
    /\ hnd' = [hnd EXCEPT ![h] = Idle]
    /\ UNCHANGED <<chain, heard, fresh, used, sigs, flaky>>

\* The process restarts: callbacks are gone and no event is replayed.
Restart ==
    /\ flaky
    /\ hnd' = [h \in Handlers |-> Idle]
    /\ UNCHANGED <<chain, heard, db, fresh, used, sigs, flaky>>

-----------------------------------------------------------------------------
\* A wallet builds an offer on the announcement the attestor serves.
GetAnnouncement(u) ==
    /\ used[u] = None /\ db[u] # None
    /\ used' = [used EXCEPT ![u] = db[u].ann]
    /\ UNCHANGED <<chain, heard, db, fresh, hnd, sigs, flaky>>

\* The DLC manager contract: a DLC is created once and closed once.
CreateDLC(u) ==
    /\ u \notin created
    /\ created' = created \cup {u}
    /\ UNCHANGED <<closedAs, heard, db, fresh, hnd, used, sigs, flaky>>

CloseDLC(u) ==
    /\ u \in created /\ closedAs[u] = None
    /\ \E raw \in RawOutcomes : closedAs' = [closedAs EXCEPT ![u] = raw]
    /\ UNCHANGED <<created, heard, db, fresh, hnd, used, sigs, flaky>>

Stabilise ==
    /\ flaky /\ flaky' = FALSE
    /\ UNCHANGED <<chain, heard, db, fresh, hnd, used, sigs>>

HandlerStep(h) ==
    AttestGet(h) \/ InsertFind(h) \/ InsertUpdate(h) \/ InsertCreate(h)

Next ==
    \/ \E h \in Handlers : \/ HandlerStep(h)
                           \/ \E u \in Events : OnCreateDLC(h, u) \/ OnCloseDLC(h, u)
    \/ \E u \in Events : GetAnnouncement(u) \/ CreateDLC(u) \/ CloseDLC(u)
    \/ Restart \/ Stabilise

Spec == Init /\ [][Next]_vars

\* Callbacks that are in flight run on.
Fairness == \A h \in Handlers : WF_vars(HandlerStep(h))
FairSpec == Spec /\ Fairness

-----------------------------------------------------------------------------
TypeOK ==
    /\ created \subseteq Events
    /\ closedAs \in [Events -> RawOutcomes \cup {None}]
    /\ heard \in [create : [Events -> 0 .. CreateNotices],
                  close : [Events -> 0 .. CloseNotices]]
    /\ db \in [Events -> DbValue \cup {None}]
    /\ fresh \in Nat
    /\ hnd \in [Handlers -> Handler]
    /\ used \in [Events -> Nat \cup {None}]
    /\ sigs \subseteq Attestation
    /\ flaky \in BOOLEAN

\* A row's attestation is signed with the nonces of the announcement in the
\* same row, although attest reads the row, signs, and writes it two awaits
\* later while other callbacks may replace it (attest, insert).
RowsAreConsistent ==
    \A u \in Events :
        db[u] # None /\ db[u].att # None => db[u].att.ann = db[u].ann

\* The nonces of an announcement sign one outcome: no two attestations ever
\* computed share nonces and differ, with repeated notices, failed storage
\* calls and restarts in between (create_event, attest).
NoncesSignOneOutcome ==
    \A s, t \in sigs : s.ann = t.ann => s = t

\* The number with these digits, the most significant one first.
NumberOf(digits) ==
    LET read[i \in 0 .. NbDigits] ==
            IF i = 0 THEN 0 ELSE 2 * read[i - 1] + digits[i]
    IN  read[NbDigits]

\* The number a wallet reads from the digits of a stored attestation is the
\* nearest one to the scaled outcome on chain (createAttestation, attest).
AttestationsDecode ==
    \A u \in Events :
        db[u] # None /\ db[u].att # None =>
            /\ closedAs[u] # None
            /\ Len(db[u].att.digits) = NbDigits
            /\ LET read == NumberOf(db[u].att.digits)
                   diff == 2 * (read * Scale - closedAs[u])
               IN  -Scale < diff /\ diff <= Scale

\* An offer stays closable: an attestation is made for the announcement the
\* offer was built on.  CreateDLC must not be notified twice, because insert
\* overwrites the announcement.
OffersStayClosable ==
    \A u \in Events :
        used[u] # None => db[u] # None /\ db[u].ann = used[u]

\* Each event goes from nothing to announced to attested and stays there, as
\* the wallets assume, when CreateDLC is notified once; CloseDLC may repeat.
Oracle == INSTANCE OracleEvents WITH
    Announcements <- Nat,
    Outcomes <- {Digits(o) : o \in Outcomes},
    announced <- [u \in Events |-> IF db[u] = None THEN None ELSE db[u].ann],
    attested <- [u \in Events |->
                   IF db[u] = None THEN None
                   ELSE IF db[u].att = None THEN None ELSE db[u].att.digits]
ImplementsOracle == Oracle!Spec

\* A close that is heard after the announcement was stored is attested once
\* storage answers, even if the announcement is being replaced.
LateCloseIsAttested ==
    \A u \in Events, h \in Handlers :
        (~flaky /\ hnd[h].pc = "get" /\ hnd[h].uuid = u /\ db[u] # None)
            ~> (db[u] # None /\ db[u].att # None)

\* "When it hears a Create- or CloseDLC event, it will create an Announcement
\* or Attestation": a close that was heard is attested.
HeardCloseIsAttested ==
    \A u \in Events :
        (heard.close[u] > 0) ~> (db[u] # None /\ db[u].att # None)
=============================================================================
