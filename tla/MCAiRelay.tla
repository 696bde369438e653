----------------------------- MODULE MCAiRelay -----------------------------
(* Small instances of AiRelay for TLC. *)
EXTENDS AiRelay

=============================================================================
