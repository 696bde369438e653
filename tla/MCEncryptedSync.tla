-------------------------- MODULE MCEncryptedSync --------------------------
(* Small instances of EncryptedSync for TLC. *)
EXTENDS EncryptedSync, TLC

CONSTANTS d1, d2, e1, e2

\* One budget is edited on one device and one on both.
Mixed == e1 :> {d1} @@ e2 :> {d1, d2}

\* Both devices edit every budget.
AnyEditor == [e \in Entities |-> Devices]

\* Budgets of different categories, and budgets of the same.
Different == [e \in Entities |-> e]
Same      == [e \in Entities |-> "food"]

=============================================================================
