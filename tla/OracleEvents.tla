---------------------------- MODULE OracleEvents ----------------------------
(***************************************************************************)
(* What a wallet relies on from one attestor: an event is announced at     *)
(* most once and attested at most once, with the nonces it was announced   *)
(* with, and neither is ever taken back.  RouterWallet's Attest action and *)
(* its Persists argument rest on exactly this.                             *)
(***************************************************************************)
CONSTANTS Events, Announcements, Outcomes, None

VARIABLES announced,  \* the announcement of an event
          attested    \* its outcome, signed with the announcement's nonces

Init ==
    /\ announced = [u \in Events |-> None]
    /\ attested = [u \in Events |-> None]

Announce(u) ==
    /\ announced[u] = None
    /\ announced'[u] \in Announcements
    /\ announced' = [announced EXCEPT ![u] = announced'[u]]
    /\ UNCHANGED attested

Attest(u) ==
    /\ announced[u] # None /\ attested[u] = None
    /\ attested'[u] \in Outcomes
    /\ attested' = [attested EXCEPT ![u] = attested'[u]]
    /\ UNCHANGED announced

Next == \E u \in Events : Announce(u) \/ Attest(u)

Spec == Init /\ [][Next]_<<announced, attested>>
=============================================================================
