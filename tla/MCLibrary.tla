----------------------------- MODULE MCLibrary -----------------------------
(***************************************************************************)
(* The sequential parts of the library, call by call: the circuits on      *)
(* words, the views and shuffles of vectors, the operators on columns, the *)
(* operations of tables, and the benchmark queries.                        *)
(***************************************************************************)
EXTENDS MCOperators, MCQueries, MCCircuits, MCShuffles

Init ==
    /\ returned = FALSE
    /\ out = None
    /\ OperatorInit \/ TableInit \/ QueryInit \/ CircuitInit \/ ShuffleInit

Next == OperatorCall \/ TableCall \/ QueryCall \/ CircuitCall \/ ShuffleCall
Spec == Init /\ [][Next]_callVars

(* Q4 asked of every database, also where distinct loses an order.         *)
AnyQ4 == returned = FALSE /\ out = None /\ op = "q4" /\ arg \in [db : Seeds, plan : {1}]
SpecAnyQ4 == AnyQ4 /\ [][Next]_callVars
=============================================================================
