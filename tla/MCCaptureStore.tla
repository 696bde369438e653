--------------------------- MODULE MCCaptureStore ---------------------------
(* Small instances of CaptureStore for TLC. *)
EXTENDS CaptureStore, TLC

Symmetry == Permutations(Flows) \cup Permutations(Actions)

=============================================================================
