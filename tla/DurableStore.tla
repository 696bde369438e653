---------------------------- MODULE DurableStore ----------------------------
(***************************************************************************)
(* What opening the local database promises its user, however often the    *)
(* app is killed or a step fails: transactions are added while the store   *)
(* is open and none is ever lost, the store is open only when no plain     *)
(* copy of it is left, and what was encrypted is never plain again.        *)
(***************************************************************************)
EXTENDS Naturals

VARIABLES
    kept,     \* transactions that can be found
    open,     \* the store is in use
    plain     \* some of it can be read without the key

vars == <<kept, open, plain>>

Init ==
    /\ kept \in Nat
    /\ open = FALSE
    /\ plain \in BOOLEAN

Encrypt ==
    /\ plain
    /\ ~ open
    /\ plain' = FALSE
    /\ UNCHANGED <<kept, open>>

Open ==
    /\ ~ open
    /\ ~ plain
    /\ open' = TRUE
    /\ UNCHANGED <<kept, plain>>

Add ==
    /\ open
    /\ kept' = kept + 1
    /\ UNCHANGED <<open, plain>>

Close ==
    /\ open
    /\ open' = FALSE
    /\ UNCHANGED <<kept, plain>>

Next == Encrypt \/ Open \/ Add \/ Close

Spec == Init /\ [][Next]_vars

=============================================================================
