-------------------------- MODULE Beaver2PC_proofs --------------------------
(***************************************************************************)
(* What the proofs about the two-party protocol speak of: its model with   *)
(* the lemmas about shares, the invariant, and the form of a triple.  The  *)
(* proofs are in Protocols_proofs.                                         *)
(***************************************************************************)
EXTENDS Beaver2PC, Sharing_proofs

(* Words everywhere, and the generators in step.                           *)
Honest == Typed /\ GeneratorsInStep

(* A triple comes of six words, which both parties draw.                   *)
Correlated(enc, l, r) ==
    /\ \A k \in 0 .. 2 : l[k] \in Word /\ r[k] \in Word
    /\ Triple(enc)[0] = [a |-> l[1], b |-> r[1],
           c |-> Add(enc, Mul(enc, l[1], r[1]),
                     Add(enc, Sub(enc, Mul(enc, l[1], l[2]), l[0]), Sub(enc, Mul(enc, r[1], r[2]), r[0])))]
    /\ Triple(enc)[1] = [a |-> r[2], b |-> l[2],
           c |-> Add(enc, Mul(enc, r[2], l[2]), Add(enc, l[0], r[0]))]
=============================================================================
