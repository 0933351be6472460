---------------------------- MODULE SendContract ----------------------------
(***************************************************************************)
(* What a worker may rely on when it hands vectors to the communicator:    *)
(* the vectors of one peer leave in the order they were handed over, whole *)
(* and unaltered, and a send call returns (so that the worker may reuse or *)
(* free its vectors) only when every vector of the call is on the wire.    *)
(*                                                                         *)
(* The k-th vector handed over has contents k.                             *)
(***************************************************************************)
EXTENDS Naturals, Sequences

VARIABLES
    accepted,   \* how many vectors have been handed over
    wire,       \* contents of the vectors that left completely, in order
    released    \* how many vectors have been given back to the worker

vars == <<accepted, wire, released>>

Init ==
    /\ accepted = 0
    /\ wire = << >>
    /\ released = 0

Accept ==
    /\ accepted' = accepted + 1
    /\ UNCHANGED <<wire, released>>

Transmit ==
    /\ Len(wire) < accepted
    /\ wire' = Append(wire, Len(wire) + 1)
    /\ UNCHANGED <<accepted, released>>

Release ==
    /\ released' \in (released + 1) .. Len(wire)
    /\ UNCHANGED <<accepted, wire>>

Next == Accept \/ Transmit \/ Release

Spec == Init /\ [][Next]_vars
=============================================================================
