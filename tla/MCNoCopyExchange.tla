------------------------- MODULE MCNoCopyExchange --------------------------
(***************************************************************************)
(* Programs for NoCopyExchange: the rounds in which the protocols call the *)
(* communicator, as sets of edges between parties.                         *)
(***************************************************************************)
EXTENDS NoCopyExchange

Everyone == {e \in Parties \X Parties : e[1] # e[2]}
Round(edges, size) == [edges |-> edges, size |-> size]

(* Protocol::reshare in Replicated_3PC by the group {0, 1}, in two batches: *)
(* each party of the group sends a share to party 2.                        *)
Batch(size) == Round({<<0, 2>>, <<1, 2>>}, size)
Reshare3PC == <<Batch(2), Batch(2)>>

(* Two batches, and an exchange among all parties, as the committed seeds  *)
(* are exchanged, of more than a socket holds.                              *)
ReshareThenAll == <<Batch(1), Batch(2), Round(Everyone, 2)>>
=============================================================================
