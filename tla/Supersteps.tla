----------------------------- MODULE Supersteps -----------------------------
(***************************************************************************)
(* What the communicator promises a protocol: the parties go through the   *)
(* same rounds, each at its own pace, and a party leaves a round only when *)
(* every party it receives from in that round has reached it.  Each worker *)
(* goes through the rounds with its namesakes of the other parties.        *)
(***************************************************************************)
EXTENDS Naturals

CONSTANTS
    Peers,        \* the parties
    Lanes,        \* the workers of a party
    Last,         \* the number of rounds
    Sources(_, _) \* Sources(p, r): whom p receives from in round r

VARIABLE reached  \* the round each worker is in; Last + 1 when it is through

Init == reached = [p \in Peers |-> [l \in Lanes |-> 1]]

Leave(p, l) ==
    /\ reached[p][l] <= Last
    /\ \A s \in Sources(p, reached[p][l]) : reached[s][l] >= reached[p][l]
    /\ reached' = [reached EXCEPT ![p][l] = @ + 1]

Next == \E p \in Peers, l \in Lanes : Leave(p, l)

Spec == Init /\ [][Next]_reached
=============================================================================
