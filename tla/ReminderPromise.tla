-------------------------- MODULE ReminderPromise --------------------------
(***************************************************************************)
(* What reminders promise the user, whatever dispatch cycles run at once   *)
(* and wherever they or the app stop: a task has one reminder to wait for  *)
(* at most; a try is counted before the notification is shown, and gives   *)
(* at most one; what is marked delivered was shown since it was set; and   *)
(* the ways from status to status are those below.                         *)
(***************************************************************************)
EXTENDS Naturals

CONSTANTS
    Tasks,
    Reminders,
    Cycles,       \* those who show reminders
    None,         \* no task
    MaxAttempts   \* tries before the user is asked

VARIABLES
    reminder,     \* the reminders: task, status and tries
    hands,        \* what each cycle has counted a try for and not shown yet
    shown         \* reminders shown since they were set

vars == <<reminder, hands, shown>>

Unset == [task |-> None, status |-> "none", tries |-> 0]

Active(r) == reminder[r].status \in {"pending", "failed"}

Init ==
    /\ reminder = [r \in Reminders |-> Unset]
    /\ hands = [c \in Cycles |-> {}]
    /\ shown = {}

Becomes(r, status, tries) ==
    /\ UNCHANGED <<hands, shown>>
    /\ reminder' = [reminder EXCEPT ![r] = [task |-> @.task, status |-> status, tries |-> tries]]

\* A reminder may be set anew, for its task.
Set(r, t) ==
    /\ reminder[r].status = "none" \/ reminder[r].task = t
    /\ \A s \in Reminders \ {r} : Active(s) => reminder[s].task # t
    /\ reminder' = [reminder EXCEPT ![r] = [task |-> t, status |-> "pending", tries |-> 0]]
    /\ shown' = shown \ {r}
    /\ UNCHANGED hands

Cancel(r) == Active(r) /\ Becomes(r, "cancelled", 0)

Deliver(r) == reminder[r].status = "pending" /\ r \in shown /\ Becomes(r, "delivered", 0)

Fail(r) == reminder[r].status = "pending" /\ Becomes(r, "failed", reminder[r].tries)

\* The user may also have the tries forgotten.
Retry(r) ==
    /\ reminder[r].status = "failed"
    /\ \E tries \in {0, reminder[r].tries} : Becomes(r, "pending", tries)

Claim(c, R) ==
    /\ hands' = [hands EXCEPT ![c] = R]
    /\ \A r \in R : Active(r) /\ reminder[r].tries < MaxAttempts
    /\ reminder' = [r \in Reminders |->
                       IF r \in R THEN [task   |-> reminder[r].task,
                                        status |-> "pending",
                                        tries  |-> reminder[r].tries + 1]
                       ELSE reminder[r]]
    /\ UNCHANGED shown

\* It is shown, or cannot be.
Show(c, r) ==
    /\ r \in hands[c]
    /\ hands' = [hands EXCEPT ![c] = @ \ {r}]
    /\ shown' \in {shown, shown \cup {r}}
    /\ UNCHANGED reminder

Stop(C) ==
    /\ hands' = [c \in Cycles |-> IF c \in C THEN {} ELSE hands[c]]
    /\ UNCHANGED <<reminder, shown>>

Next ==
    \/ \E C \in SUBSET Cycles : Stop(C)
    \/ \E c \in Cycles, r \in Reminders : Show(c, r)
    \/ \E c \in Cycles, R \in SUBSET Reminders : Claim(c, R)
    \/ \E r \in Reminders :
          \/ \E t \in Tasks : Set(r, t)
          \/ Cancel(r) \/ Deliver(r) \/ Fail(r) \/ Retry(r)

Spec == Init /\ [][Next]_vars

=============================================================================
