-------------------------- MODULE MCTaskReminders --------------------------
(* Small instances of TaskReminders for TLC. *)
EXTENDS TaskReminders, TLC

\* Reminders are set for a time to come, which then is in the past; or for now.
InTime == {1}
AtOnce == {0}

\* For safety only.
Symmetry == Permutations(Reminders)

=============================================================================
