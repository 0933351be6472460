------------------------------- MODULE Calls -------------------------------
(***************************************************************************)
(* One call of one operation: what the modules that check the sequential   *)
(* parts of the library share.                                             *)
(***************************************************************************)
EXTENDS Naturals, Sequences

VARIABLES
    op,        \* the operation that is called
    arg,       \* its arguments
    returned,  \* whether it has returned
    out        \* what it returned

callVars == <<op, arg, returned, out>>

None == <<>>

Returned(ops) == returned /\ op \in ops
Return(value) == /\ ~returned
                 /\ returned' = TRUE
                 /\ out' = value
                 /\ UNCHANGED <<op, arg>>
=============================================================================
