----------------------------- MODULE MCRuntime -----------------------------
(***************************************************************************)
(* Instances of Runtime for TLC.                                           *)
(***************************************************************************)
EXTENDS Runtime

Op(kind, size, agg) == [kind |-> kind, size |-> size, agg |-> agg]

(* One operation of each kind, some with fewer elements than workers.      *)
AllKinds == {Op("batched", 5, 1), Op("batched", 0, 1), Op("single", 1, 1), Op("triples", 3, 1),
             Op("permutations", 3, 1), Op("oprf", 4, 1), Op("aggregate", 6, 3)}

(* evaluate_oprf on fewer elements than workers, and on one more.          *)
OprfOps == {Op("oprf", 2, 1), Op("oprf", 4, 1), Op("oprf", 6, 1)}

(* Sizes around the multiples of the batch sizes and of the worker count.  *)
ManySizes ==
    OprfOps \cup
    {Op("batched", n, 1) : n \in {0, 1, 2, 4, 6, 7}}
    \cup {Op("aggregate", n, 2) : n \in {2, 6}} \cup {Op("aggregate", 6, 3)}
    \cup {Op("single", 5, 1), Op("triples", 5, 1), Op("permutations", 5, 1)}

SignedBatchSizes == {1, 3, -1, -2}

(* An aggregation of a single element.                                     *)
SingleOps == {Op("aggregate", 1, 1), Op("aggregate", 6, 3)}
=============================================================================
