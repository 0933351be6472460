------------------------------ MODULE ForkJoin ------------------------------
(***************************************************************************)
(* What the runtime promises the program: an operation is divided among    *)
(* some workers, and control returns to the program when, and only when,   *)
(* each of them has done its share.                                        *)
(***************************************************************************)
CONSTANT Workers

VARIABLES
    stage,   \* "idle", "forked" or "ended"
    todo     \* workers whose share is not done

vars == <<stage, todo>>

Init == stage = "idle" /\ todo = {}

Fork ==
    /\ stage = "idle"
    /\ stage' = "forked"
    /\ todo' \in SUBSET Workers

Work(w) ==
    /\ stage = "forked" /\ w \in todo
    /\ todo' = todo \ {w}
    /\ UNCHANGED stage

Join ==
    /\ stage = "forked" /\ todo = {}
    /\ stage' = "idle"
    /\ UNCHANGED todo

End ==
    /\ stage = "idle"
    /\ stage' = "ended"
    /\ UNCHANGED todo

Next == Fork \/ (\E w \in Workers : Work(w)) \/ Join \/ End

Spec == Init /\ [][Next]_vars
=============================================================================
