---------------------------------- MODULE Rpc ----------------------------------
(***************************************************************************)
(* What the crosslink promises to the programs of a page (lib/crosslink and *)
(* src/crosslink.ts): a call is served at most once, by the program that    *)
(* registered its path, and its caller gets one answer: the one the handler *)
(* gave to this call, or an error when it was not served.                   *)
(***************************************************************************)
EXTENDS Naturals

CONSTANTS Calls, Refused

VARIABLES
    served,   \* per call: how often a handler has run
    result    \* per call: "idle", "open", Refused or the call answered

RpcInit == served = [c \in Calls |-> 0] /\ result = [c \in Calls |-> "idle"]

Open(c) ==
    /\ result[c] = "idle"
    /\ result' = [result EXCEPT ![c] = "open"]
    /\ UNCHANGED served

Serve(c) ==
    /\ result[c] = "open" /\ served[c] = 0
    /\ served' = [served EXCEPT ![c] = 1]
    /\ UNCHANGED result

Answer(c) ==
    /\ result[c] = "open" /\ served[c] = 1
    /\ result' = [result EXCEPT ![c] = c]
    /\ UNCHANGED served

Refuse(c) ==
    /\ result[c] = "open" /\ served[c] = 0
    /\ result' = [result EXCEPT ![c] = Refused]
    /\ UNCHANGED served

RpcNext == \E c \in Calls : Open(c) \/ Serve(c) \/ Answer(c) \/ Refuse(c)

RpcSpec == RpcInit /\ [][RpcNext]_<<served, result>>
==============================================================================
