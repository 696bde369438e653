------------------------- MODULE MCDatabaseSealing -------------------------
(* The small instance of DatabaseSealing for TLC. *)
EXTENDS DatabaseSealing
=============================================================================
