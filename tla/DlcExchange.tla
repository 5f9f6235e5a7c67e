---------------------------- MODULE DlcExchange ----------------------------
(***************************************************************************)
(* The two parties of a DLC together: the router wallet (RouterWallet) and *)
(* the page with the wasm wallet (WasmWallet), over one Bitcoin.  What one *)
(* module leaves to its environment the other one provides here:           *)
(*   - the page accepts an offer that the router returned (POST /offer);   *)
(*   - the router is sent the accept messages accept_offer returned        *)
(*     (PUT /offer/accept), perhaps repeatedly, perhaps never;             *)
(*   - countersign_and_broadcast gets the Sign messages the router gave;   *)
(*   - the funding transaction that miners deepen is the one the page sent,*)
(*     and both sides read the same number of confirmations.               *)
(* Both sides fail, time out and restart independently of each other.      *)
(***************************************************************************)
EXTENDS RouterWallet

CONSTANTS
    Utxos, InputsOf, Invalid, Calls, Refreshers,   \* see WasmWallet
    PageChecks                                     \* its Checkers

VARIABLES
    pageTmp, pageFin, call, refresh, pageCheck, cache, known, coins,
    accepted, funded, rejected, sent, spent

pageVars == <<pageTmp, pageFin, call, refresh, pageCheck, cache, known, coins,
              accepted, funded, rejected, sent, spent>>

\* Esplora counts the same confirmations for both sides.
Buried == {c \in Contracts : EnoughConfirmations(fund[c])}

Page == INSTANCE WasmWallet
            WITH tmp <- pageTmp, fin <- pageFin, check <- pageCheck,
                 buried <- Buried, Checkers <- PageChecks

ASSUME PageAssumption == Page!ConstantsAssumption

-----------------------------------------------------------------------------
ExchangeInit == Init /\ Page!Init

\* The router's requests and what happens to its contracts on Bitcoin.
RouterStep ==
    /\ Next
    /\ \A h \in Acceptors : acc'[h].cur \in accepted \cup {NoContract}
    /\ \A c \in Contracts : fund'[c] # fund[c] => c \in sent
    /\ UNCHANGED pageVars

\* The calls of the page, and the other payments of its wallet.
PageStep ==
    /\ UNCHANGED vars
    /\ Page!Next
    /\ \A h \in Calls :
          /\ call'[h].offer \in offered \cup {NoContract}
          /\ call'[h].write = "Signed" => call'[h].cur \in signed

ExchangeNext == RouterStep \/ PageStep

ExchangeSpec == ExchangeInit /\ [][ExchangeNext]_<<vars, pageVars>>

-----------------------------------------------------------------------------
\* When the page locks its bitcoin, both parties hold what they need to get it
\* back: the router has stored the contract, so that its checks confirm, close
\* and refund it, and the page has its signed row.  Neither a repeated accept
\* message, nor a write that outlived its handler, nor a reload of the page
\* takes that away (on_accept_message, on_sign_message, update_contract).
FundedOnBothSides ==
    \A c \in sent : /\ fin[c].state # "None"
                    /\ pageFin[c] \in {"Signed", "Confirmed"}

\* The page works as WasmWallet assumes: in particular Bitcoin, as the router
\* sees it, never takes back the confirmations that check_signed_contracts of
\* the page relies on.
ImplementsPage == Page!Spec
=============================================================================
