--------------------------- MODULE TaskReminders ---------------------------
(***************************************************************************)
(* Reminders of tasks in the Local Core of one device.                     *)
(*                                                                         *)
(*   - A reminder is written when the user confirms a reminder strategy of *)
(*     its task, and cancelled when the task is closed or deleted or the   *)
(*     strategy dismissed.  Confirming and dismissing are several          *)
(*     statements and transactions (PowerSyncTaskStore); every other       *)
(*     operation is one.                                                   *)
(*   - A dispatch cycle (ReminderDispatcher) claims the due reminders in   *)
(*     one transaction, shows each of them, and marks each delivered or    *)
(*     failed.  A claim counts an attempt, and holds by a token and a      *)
(*     lease; a reminder whose lease ran out may be claimed again.         *)
(*   - ReminderRuntime runs a cycle on a timer and whenever the app is     *)
(*     opened or resumed, so that two cycles may run at once.              *)
(*                                                                         *)
(* A token is the cycle that made it: a cycle has one claim at a time of a *)
(* reminder.  Times are in minutes of Dart's clock, and those past MaxTime *)
(* count as MaxTime.  Left out: rows of other accounts and channels, the   *)
(* limit of 20 claims, audit rows and revisions, and the synchronisation   *)
(* of reminders between devices.                                           *)
(***************************************************************************)
EXTENDS Naturals, Sequences

CONSTANTS
    Tasks,        \* tasks of the account
    Reminders,    \* ids that reminders are given
    Cycles,       \* dispatch cycles that may run at once
    None,         \* NULL: no task, no reminder, no token
    Times,        \* the times reminders are set to
    MaxAttempts,  \* claims of a reminder before it is given up
    Lease,        \* how long a claim holds
    MaxTime,      \* bound: the end of the clock
    MaxRows,      \* bound: live strategies of a task
    MaxFaults,    \* bound: transactions that fail and kills, together
    MaxCrashes    \* bound: times the app is killed

ASSUME ReminderAssumption ==
    /\ None \notin Tasks /\ None \notin Reminders /\ None \notin Cycles
    /\ MaxTime \in Nat /\ Times \subseteq 0 .. MaxTime
    /\ MaxAttempts \in Nat \ {0} /\ Lease \in Nat \ {0}
    /\ MaxRows \in Nat \ {0} /\ MaxFaults \in Nat /\ MaxCrashes \in Nat

VARIABLES
    now,       \* the clock
    task,      \* tasks: closed (done or cancelled) and trashed
    strategy,  \* reminder strategies of each task that are not dismissed, the
               \* latest first
    present,   \* whether the strategy that flow has found is still there
    rem,       \* reminders
    flow,      \* the confirmation or dismissal under way
    pc,        \* step of each dispatch cycle
    began,     \* when each cycle began
    timed,     \* whether the timer began it
    todo,      \* reminders each cycle has claimed and not shown yet
    cur,       \* the reminder each cycle is delivering
    timer,     \* whether ReminderRuntime has a timer
    shown,     \* history: reminders shown since they were set
    cut,       \* history: tasks whose last dismissal did not finish
    faults,    \* failed transactions so far
    crashes    \* times the app was killed so far

cycle  == <<pc, began, timed, todo, cur>>
rows   == <<strategy, present>>
user   == <<task, rows, flow, cut>>
bounds == <<faults, crashes>>
vars   == <<now, user, rem, cycle, timer, shown, bounds>>

Active == {"pending", "failed"}
Final  == {"delivered", "cancelled"}

Task     == [closed : BOOLEAN, trashed : BOOLEAN]
Reminder == [task : Tasks \cup {None}, at : 0 .. MaxTime, status : {"none"} \cup Active \cup Final,
             attempts : 0 .. MaxAttempts, next : 0 .. MaxTime,
             token : Cycles \cup {None}, lease : 0 .. MaxTime]
Flow     == [step : {"idle", "confirm", "update", "find", "store", "dismiss", "cancel"},
             task : Tasks \cup {None}, at : 0 .. MaxTime, found : Reminders \cup {None}]

NoRow  == [task |-> None, at |-> 0, status |-> "none", attempts |-> 0, next |-> 0,
           token |-> None, lease |-> 0]
NoFlow == [step |-> "idle", task |-> None, at |-> 0, found |-> None]

TypeOK ==
    /\ now \in 0 .. MaxTime
    /\ task \in [Tasks -> Task]
    /\ strategy \in [Tasks -> Seq({"suggested", "confirmed"})]
    /\ present \in BOOLEAN
    /\ rem \in [Reminders -> Reminder]
    /\ flow \in Flow
    /\ pc \in [Cycles -> {"idle", "claim", "deliver", "shown", "refused", "fail"}]
    /\ began \in [Cycles -> 0 .. MaxTime]
    /\ timed \in [Cycles -> BOOLEAN]
    /\ todo \in [Cycles -> SUBSET Reminders]
    /\ cur \in [Cycles -> Reminders \cup {None}]
    /\ timer \in BOOLEAN
    /\ shown \subseteq Reminders
    /\ cut \subseteq Tasks
    /\ faults \in 0 .. MaxFaults
    /\ crashes \in 0 .. MaxCrashes

Cap(t) == IF t < MaxTime THEN t ELSE MaxTime

Set(t, at) == [task |-> t, at |-> at, status |-> "pending", attempts |-> 0, next |-> at,
               token |-> None, lease |-> 0]

\* A reminder loses its claim.
Settled(r, status, attempts, next) ==
    [task |-> r.task, at |-> r.at, status |-> status, attempts |-> attempts,
     next |-> next, token |-> None, lease |-> 0]

\* Nothing reads the attempts of a cancelled or a delivered reminder again.
Cancel(t) == [r \in Reminders |->
                 IF rem[r].task = t /\ rem[r].status \in Active
                 THEN Settled(rem[r], "cancelled", 0, 0) ELSE rem[r]]

\* The tasks were created and nothing reminds of them yet.
Init ==
    /\ now = 0
    /\ task = [t \in Tasks |-> [closed |-> FALSE, trashed |-> FALSE]]
    /\ strategy \in [Tasks -> {<<>>, <<"suggested">>}]
    /\ present = FALSE
    /\ rem = [r \in Reminders |-> NoRow]
    /\ flow = NoFlow
    /\ pc = [c \in Cycles |-> "idle"]
    /\ began = [c \in Cycles |-> 0]
    /\ timed = [c \in Cycles |-> FALSE]
    /\ todo = [c \in Cycles |-> {}]
    /\ cur = [c \in Cycles |-> None]
    /\ timer = FALSE
    /\ shown = {}
    /\ cut = {}
    /\ faults = 0
    /\ crashes = 0

Fail  == faults + crashes < MaxFaults /\ faults' = faults + 1 /\ UNCHANGED crashes

Tick ==
    /\ now < MaxTime
    /\ now' = now + 1
    /\ UNCHANGED <<user, rem, cycle, timer, shown, bounds>>

-----------------------------------------------------------------------------
(* Tasks, each operation one transaction.                                  *)

CompleteTask(t) ==
    /\ ~ task[t].trashed
    /\ task' = [task EXCEPT ![t].closed = TRUE]
    /\ rem' = Cancel(t)
    /\ UNCHANGED <<now, rows, flow, cut, cycle, timer, shown, bounds>>

\* Mutant of Suggest: a confirmed strategy is replaced too.
SuggestAnew(t) ==
    \/ UNCHANGED rows
    \/ /\ strategy' = [strategy EXCEPT ![t] =
                          <<"suggested">> \o IF @ = <<>> THEN <<>> ELSE Tail(@)]
       /\ present' = (present /\ flow.task # t)

\* _replaceSuggestedStrategy: there may be nothing to suggest.  Otherwise the
\* latest strategy is deleted if it is a suggestion, and a new one is inserted;
\* if it is confirmed, nothing is.
Suggest(t) ==
    \/ UNCHANGED rows
    \/ /\ ~ (strategy[t] # <<>> /\ Head(strategy[t]) = "confirmed")
       /\ strategy' = [strategy EXCEPT ![t] = IF @ = <<>> THEN <<"suggested">> ELSE @]
       /\ present' = (present /\ flow.task # t)

\* updateTask closes the task or leaves it open; it may open a closed one.
UpdateTask(t, closed) ==
    /\ ~ task[t].trashed
    /\ task' = [task EXCEPT ![t].closed = closed]
    /\ IF closed THEN rem' = Cancel(t) /\ UNCHANGED rows
       ELSE Suggest(t) /\ UNCHANGED rem
    /\ UNCHANGED <<now, flow, cut, cycle, timer, shown, bounds>>

DeleteTask(t) ==
    /\ ~ task[t].trashed
    /\ task' = [task EXCEPT ![t].trashed = TRUE]
    /\ rem' = Cancel(t)
    /\ UNCHANGED <<now, rows, flow, cut, cycle, timer, shown, bounds>>

\* The reminders stay cancelled.
RestoreTask(t) ==
    /\ task[t].trashed
    /\ task' = [task EXCEPT ![t].trashed = FALSE]
    /\ UNCHANGED <<now, rows, flow, cut, rem, cycle, timer, shown, bounds>>

\* The task is read before the transaction, and may be in the trash by now.
GenerateStrategy(t) ==
    /\ Suggest(t)
    /\ UNCHANGED <<now, task, flow, cut, rem, cycle, timer, shown, bounds>>

-----------------------------------------------------------------------------
(* Confirming and dismissing a strategy, one at a time.                    *)

\* _upsertStrategy reads which strategy of the task is the latest ...
FindStrategy(t, step, at) ==
    /\ flow.step = "idle"
    /\ present' = (strategy[t] # <<>>)
    /\ flow' = [step |-> step, task |-> t, at |-> at, found |-> None]
    /\ UNCHANGED <<now, task, strategy, cut, rem, cycle, timer, shown, bounds>>

\* The strategies beside the one that is written.
Others == IF present THEN Tail(strategy[flow.task]) ELSE strategy[flow.task]

\* ... and in another statement writes one with its id, or with a new id, as
\* confirmed or dismissed.  A suggestion that came in between stays, and may
\* bear a later time.  A confirmation without a time ends here.
WriteStrategy ==
    LET t        == flow.task
        To(step) == [step |-> step, task |-> t, at |-> flow.at, found |-> None]
    IN  /\ \/ /\ flow.step = "confirm"
              /\ Len(Others) < MaxRows
              /\ \/ strategy' = [strategy EXCEPT ![t] = <<"confirmed">> \o Others]
                 \/ /\ ~ present /\ Others # <<>>
                    /\ strategy' = [strategy EXCEPT ![t] =
                                       <<Head(Others), "confirmed">> \o Tail(Others)]
              /\ flow' \in {NoFlow, To("update")}
           \/ /\ flow.step = "dismiss"
              /\ strategy' = [strategy EXCEPT ![t] = Others]
              /\ flow' = To("cancel")
        /\ present' = FALSE
        /\ cut' = cut \ {t}
        /\ UNCHANGED <<now, task, rem, cycle, timer, shown, bounds>>

\* confirmTaskReminderStrategy calls updateTask, which throws for a task in
\* the trash and cancels the reminders of a closed one.
ConfirmUpdatesTask ==
    LET t == flow.task
    IN  /\ flow.step = "update"
        /\ IF task[t].trashed
           THEN flow' = NoFlow /\ UNCHANGED <<rem, rows>>
           ELSE /\ flow' = [step |-> "find", task |-> t, at |-> flow.at, found |-> None]
                /\ IF task[t].closed THEN rem' = Cancel(t) /\ UNCHANGED rows
                   ELSE Suggest(t) /\ UNCHANGED rem
        /\ UNCHANGED <<now, task, cut, cycle, timer, shown, bounds>>

\* Mutant of Reusable: a failed reminder is not taken up again.
ReusablePending(t) == {r \in Reminders : rem[r].task = t /\ rem[r].status = "pending"}

Reusable(t) == {r \in Reminders : rem[r].task = t /\ rem[r].status \in Active}

\* _upsertTaskReminderRecord looks for a reminder to set anew ...
FindReminder ==
    /\ flow.step = "find"
    /\ \E r \in IF Reusable(flow.task) = {} THEN {None} ELSE Reusable(flow.task) :
          flow' = [step |-> "store", task |-> flow.task, at |-> flow.at, found |-> r]
    /\ UNCHANGED <<now, task, rows, cut, rem, cycle, timer, shown, bounds>>

\* ... and then, in another transaction, sets it whatever has become of it, or
\* inserts a new one.
StoreReminder ==
    /\ flow.step = "store"
    /\ \E r \in Reminders :
          /\ IF flow.found = None THEN rem[r].status = "none" ELSE r = flow.found
          /\ rem' = [rem EXCEPT ![r] = Set(flow.task, flow.at)]
          /\ shown' = shown \ {r}
    /\ flow' = NoFlow
    /\ UNCHANGED <<now, task, rows, cut, cycle, timer, bounds>>

FinishDismiss ==
    /\ flow.step = "cancel"
    /\ rem' = Cancel(flow.task)
    /\ flow' = NoFlow
    /\ UNCHANGED <<now, task, rows, cut, cycle, timer, shown, bounds>>

\* What is under way stops where it is.
Cut ==
    /\ flow' = NoFlow
    /\ present' = FALSE
    /\ cut' = IF flow.step = "cancel" THEN cut \cup {flow.task} ELSE cut

FlowThrows ==
    /\ flow.step # "idle"
    /\ Fail
    /\ Cut
    /\ UNCHANGED <<now, task, strategy, rem, cycle, timer, shown>>

-----------------------------------------------------------------------------
(* A reminder in the hands of the user.                                    *)

\* Mutant of RetryReminder: a reminder is retried whatever became of it.
RetryAnyReminder(r, reset) ==
    /\ rem[r].status \in {"failed"} \cup Final
    /\ rem' = [rem EXCEPT ![r] =
                  Settled(rem[r], "pending", IF reset THEN 0 ELSE rem[r].attempts, now)]
    /\ UNCHANGED <<now, user, cycle, timer, shown, bounds>>

RetryReminder(r, reset) ==
    /\ rem[r].status = "failed"
    /\ rem' = [rem EXCEPT ![r] =
                  Settled(rem[r], "pending", IF reset THEN 0 ELSE rem[r].attempts, now)]
    /\ UNCHANGED <<now, user, cycle, timer, shown, bounds>>

CancelReminder(r) ==
    /\ rem[r].status \in Active
    /\ rem' = [rem EXCEPT ![r] = Settled(@, "cancelled", 0, 0)]
    /\ UNCHANGED <<now, user, cycle, timer, shown, bounds>>

-----------------------------------------------------------------------------
(* A dispatch cycle.                                                       *)

\* The next reminder of the batch.
Proceed(c) == pc' = [pc EXCEPT ![c] = "deliver"] /\ cur' = [cur EXCEPT ![c] = None]

\* A cycle ends, and its local variables with it.
End(C) ==
    /\ pc' = [c \in Cycles |-> IF c \in C THEN "idle" ELSE pc[c]]
    /\ began' = [c \in Cycles |-> IF c \in C THEN 0 ELSE began[c]]
    /\ timed' = [c \in Cycles |-> IF c \in C THEN FALSE ELSE timed[c]]
    /\ todo' = [c \in Cycles |-> IF c \in C THEN {} ELSE todo[c]]
    /\ cur' = [c \in Cycles |-> IF c \in C THEN None ELSE cur[c]]

\* The timer fires, or the app is opened or resumed.
Start(c, byTimer) ==
    /\ pc[c] = "idle"
    /\ byTimer => timer
    /\ timer' = FALSE
    /\ began' = [began EXCEPT ![c] = now]
    /\ timed' = [timed EXCEPT ![c] = byTimer]
    /\ pc' = [pc EXCEPT ![c] = "claim"]
    /\ UNCHANGED <<now, user, rem, todo, cur, shown, bounds>>

\* Mutants of Claimable: one attempt too many, or a failed one is forgotten.
ClaimableOnceMore(r, at) ==
    /\ rem[r].status \in Active
    /\ rem[r].at <= at /\ rem[r].next <= at /\ rem[r].lease <= at
    /\ rem[r].attempts <= MaxAttempts
    /\ ~ task[rem[r].task].closed /\ ~ task[rem[r].task].trashed
ClaimablePending(r, at) ==
    /\ rem[r].status = "pending"
    /\ rem[r].at <= at /\ rem[r].next <= at /\ rem[r].lease <= at
    /\ rem[r].attempts < MaxAttempts
    /\ ~ task[rem[r].task].closed /\ ~ task[rem[r].task].trashed

Claimable(r, at) ==
    /\ rem[r].status \in Active
    /\ rem[r].at <= at /\ rem[r].next <= at /\ rem[r].lease <= at
    /\ rem[r].attempts < MaxAttempts
    /\ ~ task[rem[r].task].closed /\ ~ task[rem[r].task].trashed

Claimed(r, c, at) ==
    [task |-> r.task, at |-> r.at, status |-> "pending", attempts |-> r.attempts + 1,
     next |-> 0, token |-> c, lease |-> Cap(at + Lease)]

\* claimDueTaskReminders, one transaction, at the time the cycle began.
ClaimDue(c) ==
    /\ pc[c] = "claim"
    /\ todo' = [todo EXCEPT ![c] = {r \in Reminders : Claimable(r, began[c])}]
    /\ rem' = [r \in Reminders |-> IF Claimable(r, began[c])
                                   THEN Claimed(rem[r], c, began[c]) ELSE rem[r]]
    /\ pc' = [pc EXCEPT ![c] = "deliver"]
    /\ UNCHANGED <<now, user, began, timed, cur, timer, shown, bounds>>

\* The platform shows the next reminder, or the adapter reports an error.
Deliver(c, r, ok) ==
    /\ pc[c] = "deliver"
    /\ r \in todo[c]
    /\ todo' = [todo EXCEPT ![c] = @ \ {r}]
    /\ cur' = [cur EXCEPT ![c] = r]
    /\ pc' = [pc EXCEPT ![c] = IF ok THEN "shown" ELSE "refused"]
    /\ shown' = IF ok THEN shown \cup {r} ELSE shown
    /\ UNCHANGED <<now, user, rem, began, timed, timer, bounds>>

\* Mutant of Holds: the token is not compared.
HoldsAny(c, r) == rem[r].status \notin Final /\ rem[r].token # None

\* _requireReminderClaim
Holds(c, r) == rem[r].status \notin Final /\ rem[r].token = c

Backoff == <<1, 2, 4, 8, 16, 32>>

Delay(n) == Backoff[IF n < 1 THEN 1 ELSE IF n > 6 THEN 6 ELSE n]

\* Mutant of MarkDelivered: what the adapter refused is marked as delivered.
MarkEither(c) ==
    /\ pc[c] \in {"shown", "refused"}
    /\ IF Holds(c, cur[c])
       THEN rem' = [rem EXCEPT ![cur[c]] = Settled(@, "delivered", 0, 0)]
       ELSE UNCHANGED rem
    /\ Proceed(c)
    /\ UNCHANGED <<now, user, began, timed, todo, timer, shown, bounds>>

\* A claim that no longer holds throws, and so does markTaskReminderFailed
\* called for it: the row is left alone.
MarkDelivered(c) ==
    /\ pc[c] = "shown"
    /\ IF Holds(c, cur[c])
       THEN rem' = [rem EXCEPT ![cur[c]] = Settled(@, "delivered", 0, 0)]
       ELSE UNCHANGED rem
    /\ Proceed(c)
    /\ UNCHANGED <<now, user, began, timed, todo, timer, shown, bounds>>

\* The next attempt is counted from when the cycle began; the last has none.
MarkFailed(c) ==
    LET r    == rem[cur[c]]
        next == IF r.attempts < MaxAttempts THEN Cap(began[c] + Delay(r.attempts)) ELSE 0
    IN  /\ pc[c] \in {"refused", "fail"}
        /\ IF Holds(c, cur[c])
           THEN rem' = [rem EXCEPT ![cur[c]] = Settled(@, "failed", r.attempts, next)]
           ELSE UNCHANGED rem
        /\ Proceed(c)
        /\ UNCHANGED <<now, user, began, timed, todo, timer, shown, bounds>>

\* A mark throws: the dispatcher marks the reminder failed, and when that
\* throws too it goes on with the next.
MarkThrows(c) ==
    /\ pc[c] \in {"shown", "refused", "fail"}
    /\ Fail
    /\ IF pc[c] = "fail" THEN Proceed(c)
       ELSE pc' = [pc EXCEPT ![c] = "fail"] /\ UNCHANGED cur
    /\ UNCHANGED <<now, user, rem, began, timed, todo, timer, shown>>

ScheduleNextWake(c) ==
    /\ pc[c] = "deliver" /\ todo[c] = {}
    /\ End({c})
    /\ timer' = TRUE
    /\ UNCHANGED <<now, user, rem, shown, bounds>>

\* A cycle throws; only one that the timer began sees to it that there is a
\* timer again.
CycleThrows(c) ==
    /\ pc[c] = "claim" \/ (pc[c] = "deliver" /\ todo[c] = {})
    /\ Fail
    /\ End({c})
    /\ timer' = (timer \/ timed[c])
    /\ UNCHANGED <<now, user, rem, shown>>

\* The app is killed: the database and what was shown stay.
Crash ==
    /\ crashes < MaxCrashes /\ faults + crashes < MaxFaults
    /\ crashes' = crashes + 1
    /\ End(Cycles)
    /\ timer' = FALSE
    /\ Cut
    /\ UNCHANGED <<now, task, strategy, rem, shown, faults>>

-----------------------------------------------------------------------------

EditTask(t) ==
    \/ CompleteTask(t) \/ DeleteTask(t) \/ RestoreTask(t) \/ GenerateStrategy(t)
    \/ \E closed \in BOOLEAN : UpdateTask(t, closed)

RunFlow ==
    \/ \E t \in Tasks : FindStrategy(t, "dismiss", 0)
    \/ \E t \in Tasks, at \in Times : FindStrategy(t, "confirm", at)
    \/ WriteStrategy \/ ConfirmUpdatesTask \/ FindReminder \/ StoreReminder \/ FinishDismiss \/ FlowThrows

EditReminder(r) == CancelReminder(r) \/ \E reset \in BOOLEAN : RetryReminder(r, reset)

Mark(c) == MarkDelivered(c) \/ MarkFailed(c)

Dispatch(c) ==
    \/ ClaimDue(c) \/ Mark(c) \/ ScheduleNextWake(c)
    \/ \E r \in todo[c], ok \in BOOLEAN : Deliver(c, r, ok)

Next ==
    \/ Tick \/ RunFlow \/ Crash
    \/ \E t \in Tasks : EditTask(t)
    \/ \E r \in Reminders : EditReminder(r)
    \/ \E c \in Cycles : \/ \E byTimer \in BOOLEAN : Start(c, byTimer)
                         \/ Dispatch(c) \/ MarkThrows(c) \/ CycleThrows(c)

Spec == Init /\ [][Next]_vars

\* No cycle runs and none will: only the user can wake the reminders.
Asleep == ~ timer /\ \A c \in Cycles : pc[c] = "idle"

\* Time passes, a timer fires, and a cycle goes on.  Nobody has to edit, and
\* nothing has to fail; but the user opens the app again, some time, when it
\* is asleep.
Fairness ==
    /\ WF_vars(Tick)
    /\ WF_vars(\E c \in Cycles : Start(c, TRUE))
    /\ WF_vars(Asleep /\ \E c \in Cycles : Start(c, FALSE))
    /\ \A c \in Cycles : WF_vars(Dispatch(c))

FairSpec == Spec /\ Fairness

-----------------------------------------------------------------------------
(* Properties.                                                             *)

\* A task has one reminder to dispatch at most, although confirming looks for
\* one and stores one in two transactions: powersync_task_helpers.dart.
OneActivePerTask ==
    \A r, s \in Reminders :
       (rem[r].status \in Active /\ rem[s].status \in Active /\ rem[r].task = rem[s].task)
       => r = s

\* A reminder is delivered only if the platform has shown it since it was last
\* set, whatever cycles, errors and kills came between: reminder_dispatcher.dart.
DeliveredWasShown == \A r \in Reminders : rem[r].status = "delivered" => r \in shown

Confirmed(t) == \E i \in DOMAIN strategy[t] : strategy[t][i] = "confirmed"

\* A reminder waits only for a task that has a confirmed strategy, except while
\* a dismissal is under way or when one was cut short: no suggestion takes the
\* confirmation away, whatever comes between the two statements that write a
\* strategy: powersync_task_store.dart.
ActiveWasConfirmed ==
    \A r \in Reminders :
       LET t == rem[r].task
       IN  rem[r].status \in Active =>
              \/ Confirmed(t)
              \/ (flow.step = "cancel" /\ flow.task = t)
              \/ t \in cut

\* A running lease ends by the hand of the cycle that holds it, or because the
\* reminder is cancelled or set anew: not by another cycle, and not by one
\* whose own claim was overtaken.  "Stale tokens must not overwrite newer
\* states", testing-quality.md.
LeaseIsRespected ==
    [][\A c \in Cycles, r \in Reminders :
          rem[r].token = c /\ rem[r].lease > now /\ rem'[r].token # c
          => \/ (cur[c] = r /\ cur'[c] = None)
             \/ rem'[r].status = "cancelled"
             \/ (flow.step = "store" /\ flow.found = r)]_vars

\* A reminder that was delivered or cancelled stays so, unless a confirmation
\* that had found it before sets it anew: reminder_status in
\* task-reminder-system.md has no way out of these two.
FinalUnlessSetAnew ==
    [][\A r \in Reminders :
          rem[r].status \in Final /\ rem'[r].status # rem[r].status
          => flow.step = "store" /\ flow.found = r]_vars

\* What the user sees of the rows.
Seen == [r \in Reminders |->
            [task |-> rem[r].task, status |-> rem[r].status, tries |-> rem[r].attempts]]

\* The store, its confirmations and its dispatch cycles together implement
\* ReminderPromise.
Promise == INSTANCE ReminderPromise WITH reminder <- Seen, hands <- todo

RemindersKeepTheirPromise == Promise!Spec

Waits(r, n) ==
    /\ rem[r].status \in Active /\ rem[r].attempts = n /\ n < MaxAttempts
    /\ ~ task[rem[r].task].closed /\ ~ task[rem[r].task].trashed

\* A reminder with attempts left is tried once more, or is no longer waiting:
\* no error, kill, lost timer or lease of a dead cycle leaves it forgotten.
EveryReminderIsTried ==
    \A r \in Reminders, n \in 0 .. MaxAttempts - 1 : Waits(r, n) ~> ~ Waits(r, n)

\* A reminder out of attempts is failed, for the user to retry, or still in
\* the hands of a cycle: data-model.md, "waits for the user's manual retry
\* once max_attempts is reached".
GivenUpIsFailed ==
    \A r \in Reminders :
       rem[r].status = "pending" /\ rem[r].attempts = MaxAttempts
       => \E c \in Cycles : rem[r].token = c /\ (r \in todo[c] \/ cur[c] = r)

\* Fewer faults than lose a mark and the mark of its failure, and no kill.
FewFaults == faults < 2 /\ crashes = 0

\* A claim ends in the hands of its cycle: while the app is not killed and no
\* two transactions have failed, a reminder with a token is still to be shown
\* by its cycle, or being shown.  What GivenUpIsFailed meets takes more.
ClaimsAreInHand ==
    FewFaults => \A c \in Cycles, r \in Reminders :
                    rem[r].token = c => r \in todo[c] \/ cur[c] = r

\* Where a cycle has no reminder, and what a failed mark has cost by then.
HandsInvariant ==
    \A c \in Cycles :
       /\ pc[c] \in {"idle", "claim"} => todo[c] = {}
       /\ pc[c] \in {"idle", "claim", "deliver"} => cur[c] = None
       /\ pc[c] = "fail" => faults # 0

=============================================================================
