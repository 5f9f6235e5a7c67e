------------------------- MODULE WebSocketProvider -------------------------
(***************************************************************************)
(* The connection of an attestor to an EVM chain: a class that keeps one   *)
(* ethers WebSocketProvider at a time, pings its socket, and replaces it   *)
(* when the socket closes.  The contract listeners that start() registers  *)
(* and the calls that wait for an answer have to survive the replacement,  *)
(* for nothing registers or repeats them: a DLC is announced and attested  *)
(* only because its CreateDLC and CloseDLC listeners are called, once.     *)
(*                                                                         *)
(* A socket that cannot be opened emits an error nobody listens to, which  *)
(* ends the process; the container starts it again (restart: on-failure)   *)
(* and start() registers everything anew.                                  *)
(***************************************************************************)
EXTENDS Naturals

CONSTANTS
    Listeners,   \* the contract events start() listens to
    Unreliable   \* may the connection and the process fail at first?

ASSUME UnreliableAssumption == Unreliable \in BOOLEAN

VARIABLES
    process,    \* "down", "up": provider made, "running": listeners registered
    socket,     \* of the provider in use; "dead": open, but the peer is gone;
                \* "waiting": closed, create() is due; "ended": closed for good
    pong,       \* is a ping waiting for its pong (pongTimeout)?
    events,     \* this.events: copies of a listener that wait for a socket
    listening,  \* provider._events: copies of a listener that are called
    kept,       \* this.requests: unanswered calls of providers before
    requests,   \* provider._requests: unanswered calls of this provider
    subs,       \* provider._subs: listeners whose log subscription is confirmed
    flaky       \* connections and the process may still fail

vars == <<process, socket, pong, events, listening, kept, requests, subs, flaky>>

\* An eth_subscribe call, and whether the provider in use made it: the answer
\* to a call of a provider before subscribes that one, which nobody uses.
Request == [listener : Listeners, from : {"this", "past"}]
Calls(listeners, from) == [listener : listeners, from : {from}]

NoCopies == [l \in Listeners |-> 0]
Together(f, g) == [l \in Listeners |-> f[l] + g[l]]

NormalClosure == 1000
Abnormal == 1006
Alive == {"open", "dead"}

\* A process that has no connection and no listeners.
Blank(state, connection) ==
    /\ process' = state /\ socket' = connection /\ pong' = FALSE
    /\ events' = NoCopies /\ listening' = NoCopies
    /\ kept' = {} /\ requests' = {} /\ subs' = {}

Init ==
    /\ process = "down" /\ socket = "ended" /\ pong = FALSE
    /\ events = NoCopies /\ listening = NoCopies
    /\ kept = {} /\ requests = {} /\ subs = {}
    /\ flaky = Unreliable

-----------------------------------------------------------------------------
\* getConfig of get-network-config.ts constructs the provider.
StartProcess ==
    /\ process = "down"
    /\ Blank("up", "connecting")
    /\ UNCHANGED flaky

\* start(), when the observers of all chains are made, calls contract.on for
\* every event: whatever its socket is doing, the provider in use takes the
\* listener and asks for its logs, or queues the call until the socket opens.
Register ==
    /\ process = "up" /\ process' = "running"
    /\ listening' = [l \in Listeners |-> listening[l] + 1]
    /\ requests' = requests \cup Calls(Listeners, "this")
    /\ UNCHANGED <<socket, pong, events, kept, subs, flaky>>

\* Mutant: the waiting listeners are read, not popped.
OpenKeepsEvents ==
    /\ socket = "connecting" /\ socket' = "open"
    /\ listening' = Together(listening, events)
    /\ requests' = requests \cup Calls({l \in Listeners : events[l] > 0}, "this")
                            \cup kept
    /\ kept' = {}
    /\ UNCHANGED <<process, pong, events, subs, flaky>>

\* Mutant: the waiting listeners are handed over but not started.
OpenUnstarted ==
    /\ socket = "connecting" /\ socket' = "open"
    /\ listening' = Together(listening, events) /\ events' = NoCopies
    /\ requests' = requests \cup kept /\ kept' = {}
    /\ UNCHANGED <<process, pong, subs, flaky>>

\* 'open': the waiting listeners move to the provider, which asks for their
\* logs on this socket; the calls of the providers before are sent again.
Open ==
    /\ socket = "connecting" /\ socket' = "open"
    /\ listening' = Together(listening, events) /\ events' = NoCopies
    /\ requests' = requests \cup Calls({l \in Listeners : events[l] > 0}, "this")
                            \cup kept
    /\ kept' = {}
    /\ UNCHANGED <<process, pong, subs, flaky>>

\* The node answers a call.
Answer(r) ==
    /\ socket = "open" /\ r \in requests
    /\ requests' = requests \ {r}
    /\ subs' = IF r.from = "this" THEN subs \cup {r.listener} ELSE subs
    /\ UNCHANGED <<process, socket, pong, events, listening, kept, flaky>>

\* The interval of 10 seconds, which the 5 seconds of pongTimeout fit into.
Ping ==
    /\ socket \in Alive /\ ~pong
    /\ pong' = TRUE
    /\ UNCHANGED <<process, socket, events, listening, kept, requests, subs, flaky>>

Pong ==
    /\ socket = "open" /\ pong
    /\ pong' = FALSE
    /\ UNCHANGED <<process, socket, events, listening, kept, requests, subs, flaky>>

\* 'close': both timers are cleared; only a normal closure is not followed by
\* create().
OnClose(code) ==
    /\ socket' = IF code = NormalClosure THEN "ended" ELSE "waiting"
    /\ pong' = FALSE
    /\ UNCHANGED <<process, events, listening, kept, requests, subs, flaky>>

\* Mutant: a missing pong is not acted upon.
PongIgnored ==
    /\ socket \in Alive /\ pong
    /\ pong' = FALSE
    /\ UNCHANGED <<process, socket, events, listening, kept, requests, subs, flaky>>

\* No pong for 5 seconds, from a peer that is gone or slow: terminate().
PongTimeout ==
    /\ pong
    /\ socket = "dead" \/ (socket = "open" /\ flaky)
    /\ OnClose(Abnormal)

\* The peer closes the connection, or it is reset.
PeerCloses ==
    /\ flaky
    /\ \E code \in {NormalClosure, Abnormal} :
          /\ socket = "open" \/ (socket = "dead" /\ code = Abnormal)
          /\ OnClose(code)

\* Mutant: the unanswered calls of the replaced provider are dropped.
CreateForgetsCalls ==
    /\ socket = "waiting" /\ socket' = "connecting"
    /\ events' = Together(events, listening) /\ listening' = NoCopies
    /\ requests' = {} /\ subs' = {}
    /\ UNCHANGED <<process, pong, kept, flaky>>

\* create(), 100 ms after the close: what the replaced provider holds is taken
\* over, to be handed to the new one when its socket opens.
Create ==
    /\ socket = "waiting" /\ socket' = "connecting"
    /\ events' = Together(events, listening) /\ listening' = NoCopies
    /\ kept' = kept \cup Calls({r.listener : r \in requests}, "past")
    /\ requests' = {} /\ subs' = {}
    /\ UNCHANGED <<process, pong, flaky>>

\* The network drops the connection without a word.
Break ==
    /\ flaky /\ socket = "open"
    /\ socket' = "dead"
    /\ UNCHANGED <<process, pong, events, listening, kept, requests, subs, flaky>>

\* An uncaught error, of a connection attempt or of another part, ends main.
Crash ==
    /\ flaky /\ process # "down"
    /\ Blank("down", "ended")
    /\ UNCHANGED flaky

Stabilise ==
    /\ flaky /\ flaky' = FALSE
    /\ UNCHANGED <<process, socket, pong, events, listening, kept, requests, subs>>

Next ==
    \/ StartProcess \/ Register
    \/ Open \/ \E r \in requests : Answer(r)
    \/ Ping \/ Pong \/ PongTimeout
    \/ PeerCloses \/ Create
    \/ Break \/ Crash \/ Stabilise

Spec == Init /\ [][Next]_vars

(***************************************************************************)
(* The container restarts the process, main comes to start(), timers fire, *)
(* and once nothing fails any more the node accepts connections and        *)
(* answers.                                                                *)
(***************************************************************************)
Fairness ==
    /\ WF_vars(StartProcess) /\ WF_vars(Register)
    /\ WF_vars(Open) /\ WF_vars(\E r \in requests : Answer(r))
    /\ WF_vars(Ping) /\ WF_vars(PongTimeout)
    /\ WF_vars(Create)
    /\ WF_vars(Stabilise)

FairSpec == Spec /\ Fairness
-----------------------------------------------------------------------------
(***************************************************************************)
(* Properties.                                                             *)
(***************************************************************************)

TypeOK ==
    /\ process \in {"down", "up", "running"}
    /\ socket \in {"connecting", "open", "dead", "waiting", "ended"}
    /\ pong \in BOOLEAN
    /\ events \in [Listeners -> {0, 1}]
    /\ listening \in [Listeners -> {0, 1}]
    /\ kept \subseteq Calls(Listeners, "past")
    /\ requests \subseteq Request
    /\ subs \subseteq Listeners
    /\ flaky \in BOOLEAN

\* However often the socket closes and in whatever state start() finds it, a
\* registered listener exists exactly once: a lost one would miss every DLC
\* from then on, a second copy would announce and attest each of them twice
\* (create, the loop over this.events).
HeldOnce ==
    process = "running" =>
        \A l \in Listeners : events[l] + listening[l] = 1

\* The provider in use has asked for the logs of l.
Asked(l) == l \in subs \/ [listener |-> l, from |-> "this"] \in requests

\* A socket that is open is one on which the logs of every listener were asked
\* for, by the provider in use: no listener sits on a connection that was
\* never told about it (_startEvent, the queue of calls made before 'open').
OpenMeansAsked ==
    (process = "running" /\ socket \in Alive) => \A l \in Listeners : Asked(l)

Unanswered == {r.listener : r \in kept \cup requests}

\* While the process lives, a call that waits for its answer is not forgotten
\* when the socket closes and the provider is replaced, even repeatedly: it
\* stops waiting only by an answer on an open socket (this.requests).
CallsAreKept ==
    [][\/ Unanswered \subseteq Unanswered'
       \/ process' = "down"
       \/ (socket = "open" /\ socket' = "open")]_vars

\* The attestor listens to every event, on a connection that works.
Attentive ==
    process = "running" /\ socket = "open" /\ subs = Listeners

\* Once connections stop failing the attestor listens for good, whatever was
\* lost before and however silently: unless the peer has closed the connection
\* with the code of a normal closure, after which the class stays as it is.
EndsUpListening == <>[](Attentive \/ (process # "down" /\ socket = "ended"))
=============================================================================
