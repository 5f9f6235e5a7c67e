---------------------- MODULE WebSocketProviderProofs ----------------------
(***************************************************************************)
(* Proofs about WebSocketProvider, for any set of listeners: however often *)
(* sockets close and the process restarts, every registered listener       *)
(* exists once, is asked for on every open socket, and no waiting call is  *)
(* forgotten.                                                              *)
(***************************************************************************)
EXTENDS WebSocketProvider, TLAPS

\* No listener exists before start() has registered it.
NoneBeforeStart ==
    process # "running" => events = NoCopies /\ listening = NoCopies

\* A provider that holds a listener has asked for its logs.
HeldAreAsked == \A l \in Listeners : listening[l] = 1 => Asked(l)

\* Nothing waits for a socket that is open already.
NoneWaitsWhenOpen == socket \in Alive => events = NoCopies

\* A process that is down has no calls to forget.
NoCallsWhenDown == process = "down" => kept = {} /\ requests = {}

\* The invariant that every step preserves: HeldOnce alone does not say where
\* the one copy of a listener is, which the next 'open' depends on.
IInv ==
    /\ TypeOK
    /\ HeldOnce
    /\ NoneBeforeStart
    /\ HeldAreAsked
    /\ NoneWaitsWhenOpen
    /\ NoCallsWhenDown

-----------------------------------------------------------------------------
\* A process that starts or ends holds nothing.
LEMMA BlankState ==
    ASSUME NEW state \in {"down", "up"},
           NEW connection \in {"connecting", "ended"},
           flaky \in BOOLEAN, Blank(state, connection), UNCHANGED flaky
    PROVE  IInv'
<1>1. TypeOK'
  BY DEF Blank, TypeOK, NoCopies, Calls, Request
<1>2. HeldOnce' /\ NoneBeforeStart'
  BY DEF Blank, HeldOnce, NoneBeforeStart, NoCopies
<1>3. HeldAreAsked' /\ NoneWaitsWhenOpen' /\ NoCallsWhenDown'
  BY DEF Blank, HeldAreAsked, NoneWaitsWhenOpen, NoCallsWhenDown, NoCopies, Alive
<1> QED BY <1>1, <1>2, <1>3 DEF IInv

\* Adding up two counts of copies.
LEMMA TogetherCounts ==
    ASSUME NEW f \in [Listeners -> {0, 1}], NEW g \in [Listeners -> {0, 1}],
           \A l \in Listeners : f[l] + g[l] <= 1
    PROVE  /\ Together(f, g) \in [Listeners -> {0, 1}]
           /\ \A l \in Listeners : Together(f, g)[l] = f[l] + g[l]
<1>1. \A l \in Listeners : f[l] + g[l] \in {0, 1}
  <2> SUFFICES ASSUME NEW l \in Listeners PROVE f[l] + g[l] \in {0, 1}
    OBVIOUS
  <2>1. f[l] \in {0, 1} /\ g[l] \in {0, 1} /\ f[l] + g[l] <= 1
    OBVIOUS
  <2> QED BY <2>1
<1> QED BY <1>1 DEF Together

\* A provider and a waiting list never hold the same listener.
LEMMA OneCopy ==
    ASSUME IInv
    PROVE  \A l \in Listeners :
              /\ events[l] \in {0, 1} /\ listening[l] \in {0, 1}
              /\ events[l] + listening[l] <= 1 /\ listening[l] + events[l] <= 1
<1> SUFFICES ASSUME NEW l \in Listeners
             PROVE  /\ events[l] \in {0, 1} /\ listening[l] \in {0, 1}
                    /\ events[l] + listening[l] <= 1
                    /\ listening[l] + events[l] <= 1
  OBVIOUS
<1>1. events[l] \in {0, 1} /\ listening[l] \in {0, 1}
  BY DEF IInv, TypeOK
<1>2. CASE process = "running"
  BY <1>1, <1>2 DEF IInv, HeldOnce
<1>3. CASE process # "running"
  <2>1. events[l] = 0 /\ listening[l] = 0
    BY <1>3 DEF IInv, NoneBeforeStart, NoCopies
  <2> QED BY <2>1
<1> QED BY <1>2, <1>3

-----------------------------------------------------------------------------
LEMMA RegisterStep == ASSUME IInv, Register PROVE IInv'
<1>1. \A l \in Listeners : events[l] = 0 /\ listening[l] = 0
  BY DEF IInv, NoneBeforeStart, NoCopies, Register
<1>2. \A l \in Listeners : listening'[l] = 1 /\ events'[l] = 0
  BY <1>1 DEF Register
<1>3. TypeOK'
  <2>1. listening' \in [Listeners -> {0, 1}]
    BY <1>1 DEF Register
  <2> QED BY <2>1 DEF IInv, TypeOK, Register, Calls, Request
<1>4. HeldOnce'
  BY <1>2 DEF HeldOnce
<1>5. HeldAreAsked'
  <2>1. \A l \in Listeners : [listener |-> l, from |-> "this"] \in requests'
    BY DEF Register, Calls
  <2> QED BY <2>1 DEF HeldAreAsked, Asked
<1>6. NoneBeforeStart' /\ NoneWaitsWhenOpen' /\ NoCallsWhenDown'
  BY DEF Register, IInv, NoneBeforeStart, NoneWaitsWhenOpen, NoCallsWhenDown
<1> QED BY <1>3, <1>4, <1>5, <1>6 DEF IInv

LEMMA OpenStep == ASSUME IInv, Open PROVE IInv'
<1>1. /\ listening' \in [Listeners -> {0, 1}]
      /\ \A l \in Listeners : /\ listening'[l] = listening[l] + events[l]
                              /\ listening[l] \in {0, 1}
                              /\ events[l] \in {0, 1}
  BY OneCopy, TogetherCounts DEF Open, IInv, TypeOK
<1>2. /\ events' = NoCopies /\ NoCopies \in [Listeners -> {0, 1}]
      /\ \A l \in Listeners : events'[l] = 0
  BY DEF Open, NoCopies
<1>3. TypeOK'
  <2>1. requests' \subseteq Request /\ kept' = {}
    BY DEF Open, IInv, TypeOK, Calls, Request
  <2> QED BY <1>1, <1>2, <2>1 DEF Open, IInv, TypeOK
<1>4. HeldOnce'
  <2> SUFFICES ASSUME process' = "running", NEW l \in Listeners
               PROVE  events'[l] + listening'[l] = 1
    BY DEF HeldOnce
  <2>1. events[l] + listening[l] = 1
    BY DEF Open, IInv, HeldOnce
  <2> QED BY <1>1, <1>2, <2>1
<1>5. NoneBeforeStart'
  <2> SUFFICES ASSUME process' # "running" PROVE listening' = NoCopies
    BY <1>2 DEF NoneBeforeStart
  <2>1. events = NoCopies /\ listening = NoCopies
    BY DEF Open, IInv, NoneBeforeStart
  <2> QED BY <2>1 DEF Open, Together, NoCopies
<1>6. HeldAreAsked'
  <2> SUFFICES ASSUME NEW l \in Listeners, listening'[l] = 1 PROVE Asked(l)'
    BY DEF HeldAreAsked
  <2>1. CASE listening[l] = 1
    BY <2>1 DEF IInv, HeldAreAsked, Asked, Open
  <2>2. CASE listening[l] # 1
    <3>1. events[l] > 0
      BY <1>1, <2>2
    <3>2. [listener |-> l, from |-> "this"] \in requests'
      BY <3>1 DEF Open, Calls
    <3> QED BY <3>2 DEF Asked
  <2> QED BY <2>1, <2>2
<1>7. NoneWaitsWhenOpen' /\ NoCallsWhenDown'
  <2>1. process = "down" => events = NoCopies
    BY DEF IInv, NoneBeforeStart
  <2>2. process = "down" => {l \in Listeners : events[l] > 0} = {}
    BY <2>1 DEF NoCopies
  <2>3. process = "down" => kept = {} /\ requests = {}
    BY DEF IInv, NoCallsWhenDown
  <2>4. NoCallsWhenDown'
    BY <2>2, <2>3 DEF Open, NoCallsWhenDown, Calls
  <2> QED BY <1>2, <2>4 DEF NoneWaitsWhenOpen
<1> QED BY <1>3, <1>4, <1>5, <1>6, <1>7 DEF IInv

LEMMA AnswerStep ==
    ASSUME IInv, NEW r \in requests, Answer(r) PROVE IInv'
<1>1. TypeOK'
  BY DEF Answer, IInv, TypeOK, Request
<1>2. HeldOnce' /\ NoneBeforeStart' /\ NoneWaitsWhenOpen' /\ NoCallsWhenDown'
  BY DEF Answer, IInv, HeldOnce, NoneBeforeStart, NoneWaitsWhenOpen,
         NoCallsWhenDown
<1>3. HeldAreAsked'
  <2> SUFFICES ASSUME NEW l \in Listeners, listening'[l] = 1 PROVE Asked(l)'
    BY DEF HeldAreAsked
  <2>1. Asked(l)
    BY DEF Answer, IInv, HeldAreAsked
  <2>2. CASE r = [listener |-> l, from |-> "this"]
    BY <2>2 DEF Answer, Asked
  <2>3. CASE r # [listener |-> l, from |-> "this"]
    BY <2>1, <2>3 DEF Answer, Asked
  <2> QED BY <2>2, <2>3
<1> QED BY <1>1, <1>2, <1>3 DEF IInv

LEMMA CreateStep == ASSUME IInv, Create PROVE IInv'
<1>1. /\ events' \in [Listeners -> {0, 1}]
      /\ \A l \in Listeners : events'[l] = events[l] + listening[l]
  BY OneCopy, TogetherCounts DEF Create, IInv, TypeOK
<1>2. /\ listening' = NoCopies /\ NoCopies \in [Listeners -> {0, 1}]
      /\ \A l \in Listeners : listening'[l] = 0
  BY DEF Create, NoCopies
<1>3. TypeOK'
  <2>1. kept' \subseteq Calls(Listeners, "past") /\ requests' = {} /\ subs' = {}
    BY DEF Create, IInv, TypeOK, Calls, Request
  <2> QED BY <1>1, <1>2, <2>1 DEF Create, IInv, TypeOK
<1>4. HeldOnce'
  <2> SUFFICES ASSUME process' = "running", NEW l \in Listeners
               PROVE  events'[l] + listening'[l] = 1
    BY DEF HeldOnce
  <2>1. events[l] + listening[l] = 1
    BY DEF Create, IInv, HeldOnce
  <2> QED BY <1>1, <1>2, <2>1
<1>5. NoneBeforeStart'
  <2> SUFFICES ASSUME process' # "running" PROVE events' = NoCopies
    BY <1>2 DEF NoneBeforeStart
  <2>1. events = NoCopies /\ listening = NoCopies
    BY DEF Create, IInv, NoneBeforeStart
  <2> QED BY <2>1 DEF Create, Together, NoCopies
<1>6. HeldAreAsked'
  BY <1>2 DEF HeldAreAsked
<1>7. NoneWaitsWhenOpen' /\ NoCallsWhenDown'
  BY DEF Create, NoneWaitsWhenOpen, Alive, IInv, NoCallsWhenDown, Calls
<1> QED BY <1>3, <1>4, <1>5, <1>6, <1>7 DEF IInv

\* Steps of the socket and its timers leave listeners and calls alone, and
\* only Open opens a socket.
LEMMA SocketStep ==
    ASSUME IInv, UNCHANGED <<process, events, listening, kept, requests, subs>>,
           flaky' \in BOOLEAN, pong' \in BOOLEAN,
           \/ socket' \in {"waiting", "ended"}
           \/ socket' = "dead" /\ socket = "open"
           \/ socket' = socket
    PROVE  IInv'
<1>1. TypeOK'
  BY DEF IInv, TypeOK
<1>2. HeldOnce' /\ NoneBeforeStart' /\ HeldAreAsked'
  BY DEF IInv, HeldOnce, NoneBeforeStart, HeldAreAsked, Asked
<1>3. NoneWaitsWhenOpen' /\ NoCallsWhenDown'
  BY DEF IInv, NoneWaitsWhenOpen, Alive, NoCallsWhenDown
<1> QED BY <1>1, <1>2, <1>3 DEF IInv

LEMMA StepPreserves == ASSUME IInv, [Next]_vars PROVE IInv'
<1>0. flaky \in BOOLEAN /\ pong \in BOOLEAN
  BY DEF IInv, TypeOK
<1>1. CASE StartProcess
  BY <1>0, <1>1, BlankState DEF StartProcess
<1>2. CASE Register
  BY <1>2, RegisterStep
<1>3. CASE Open
  BY <1>3, OpenStep
<1>4. CASE \E r \in requests : Answer(r)
  BY <1>4, AnswerStep
<1>5. CASE Ping \/ Pong
  BY <1>0, <1>5, SocketStep DEF Ping, Pong
<1>6. CASE PongTimeout \/ PeerCloses
  BY <1>0, <1>6, SocketStep DEF PongTimeout, PeerCloses, OnClose
<1>7. CASE Create
  BY <1>7, CreateStep
<1>8. CASE Break
  BY <1>0, <1>8, SocketStep DEF Break
<1>9. CASE Crash
  BY <1>0, <1>9, BlankState DEF Crash
<1>10. CASE Stabilise
  BY <1>0, <1>10, SocketStep DEF Stabilise
<1>11. CASE UNCHANGED vars
  BY <1>0, <1>11, SocketStep DEF vars
<1> QED
  BY <1>1, <1>2, <1>3, <1>4, <1>5, <1>6, <1>7, <1>8, <1>9, <1>10, <1>11
  DEF Next

\* The inductive invariant holds in every reachable state.
THEOREM Invariance == Spec => []IInv
<1>1. Init => IInv
  <2> SUFFICES ASSUME Init PROVE IInv
    OBVIOUS
  <2>1. TypeOK
    BY UnreliableAssumption DEF Init, TypeOK, NoCopies
  <2>2. HeldOnce /\ NoneBeforeStart /\ HeldAreAsked
    BY DEF Init, HeldOnce, NoneBeforeStart, HeldAreAsked, NoCopies
  <2>3. NoneWaitsWhenOpen /\ NoCallsWhenDown
    BY DEF Init, NoneWaitsWhenOpen, NoCallsWhenDown, NoCopies, Alive
  <2> QED BY <2>1, <2>2, <2>3 DEF IInv
<1>2. IInv /\ [Next]_vars => IInv'
  BY StepPreserves
<1> QED BY <1>1, <1>2, PTL DEF Spec

\* The class's state keeps its types; in particular no list ever holds two
\* copies of a listener (websocket-provider.ts, events and _events).
THEOREM TypeCorrect == Spec => []TypeOK
<1>1. IInv => TypeOK
  BY DEF IInv
<1> QED BY <1>1, Invariance, PTL

\* A registered listener exists exactly once (create, the loop at 'open').
THEOREM ListenersHeldOnce == Spec => []HeldOnce
<1>1. IInv => HeldOnce
  BY DEF IInv
<1> QED BY <1>1, Invariance, PTL

\* On an open socket the logs of every listener were asked for (_startEvent).
THEOREM ListenersAsked == Spec => []OpenMeansAsked
<1>1. IInv => OpenMeansAsked
  <2> SUFFICES ASSUME IInv, process = "running", socket \in Alive,
                      NEW l \in Listeners
               PROVE  Asked(l)
    BY DEF OpenMeansAsked
  <2>1. events[l] = 0
    BY DEF IInv, NoneWaitsWhenOpen, NoCopies
  <2>2. events[l] + listening[l] = 1 /\ listening[l] \in {0, 1}
    BY DEF IInv, HeldOnce, TypeOK
  <2>3. listening[l] = 1
    BY <2>1, <2>2
  <2> QED BY <2>3 DEF IInv, HeldAreAsked
<1> QED BY <1>1, Invariance, PTL

\* A step forgets a call only by its answer or with the process.
LEMMA StepKeepsCalls ==
    ASSUME IInv, [Next]_vars
    PROVE  \/ Unanswered \subseteq Unanswered'
           \/ process' = "down"
           \/ (socket = "open" /\ socket' = "open")
<1>1. CASE StartProcess
  <2>1. Unanswered = {}
    BY <1>1 DEF StartProcess, IInv, NoCallsWhenDown, Unanswered
  <2> QED BY <2>1
<1>2. CASE Register \/ Open
  <2>1. kept \cup requests \subseteq kept' \cup requests'
    BY <1>2 DEF Register, Open
  <2> QED BY <2>1 DEF Unanswered
<1>3. CASE \E r \in requests : Answer(r)
  BY <1>3 DEF Answer
<1>4. CASE \/ Ping \/ Pong \/ PongTimeout \/ PeerCloses \/ Break \/ Stabilise
           \/ UNCHANGED vars
  <2>1. kept' = kept /\ requests' = requests
    BY <1>4 DEF Ping, Pong, PongTimeout, PeerCloses, OnClose, Break, Stabilise, vars
  <2> QED BY <2>1 DEF Unanswered
<1>5. CASE Create
  <2> SUFFICES ASSUME NEW r \in kept \cup requests
               PROVE  r.listener \in Unanswered'
    BY DEF Unanswered
  <2>1. CASE r \in kept
    BY <1>5, <2>1 DEF Create, Unanswered
  <2>2. CASE r \in requests
    <3> DEFINE again == [listener |-> r.listener, from |-> "past"]
    <3>1. again \in kept'
      BY <1>5, <2>2 DEF Create, Calls
    <3>2. again.listener = r.listener
      OBVIOUS
    <3> QED BY <3>1, <3>2 DEF Unanswered
  <2> QED BY <2>1, <2>2
<1>6. CASE Crash
  BY <1>6 DEF Crash, Blank
<1> QED BY <1>1, <1>2, <1>3, <1>4, <1>5, <1>6 DEF Next

\* While the process lives, a call waits until it is answered (this.requests).
THEOREM CallsKept == Spec => CallsAreKept
<1>1. IInv /\ [Next]_vars =>
        [\/ Unanswered \subseteq Unanswered'
         \/ process' = "down"
         \/ (socket = "open" /\ socket' = "open")]_vars
  BY StepKeepsCalls
<1> QED BY <1>1, Invariance, PTL DEF Spec, CallsAreKept
=============================================================================
