------------------------ MODULE TaskRemindersProofs ------------------------
(***************************************************************************)
(* Proofs about TaskReminders: its safety properties hold for any number of*)
(* tasks, reminders and cycles, any clock, and any number of attempts,     *)
(* faults and kills.  That every reminder is tried is left to TLC.         *)
(***************************************************************************)
EXTENDS TaskReminders, TLAPS

\* A reminder row has a task, and only one that is claimed has a token.
RowInvariant ==
    \A r \in Reminders :
       /\ rem[r].status # "none" => rem[r].task \in Tasks
       /\ rem[r].status # "pending" => rem[r].token = None

\* What a confirmation found may be gone when it stores, but nothing else has
\* become active; and the task it is about stays confirmed.  The strategy it
\* writes over is there.
FlowInvariant ==
    /\ flow.step # "idle" => flow.task \in Tasks
    /\ present => flow.step \in {"confirm", "dismiss"} /\ strategy[flow.task] # <<>>
    /\ flow.step \in {"update", "find", "store"} => Confirmed(flow.task)
    /\ flow.step = "store" =>
          \A r \in Reminders :
             rem[r].task = flow.task /\ rem[r].status \in Active => r = flow.found

\* A cycle began in the past, and what it shows while its claim holds is shown.
CycleInvariant ==
    \A c \in Cycles :
       /\ began[c] <= now
       /\ pc[c] \in {"shown", "refused", "fail"} => cur[c] \in Reminders
       /\ pc[c] = "shown" /\ rem[cur[c]].token = c => cur[c] \in shown

Inductive ==
    /\ TypeOK
    /\ RowInvariant
    /\ FlowInvariant
    /\ CycleInvariant
    /\ OneActivePerTask
    /\ DeliveredWasShown
    /\ ActiveWasConfirmed

-----------------------------------------------------------------------------
(* Facts about the operators.                                              *)

LEMMA Facts ==
  /\ None \notin Tasks /\ None \notin Reminders /\ None \notin Cycles
  /\ MaxTime \in Nat /\ Times \subseteq 0 .. MaxTime
  /\ MaxAttempts \in Nat \ {0} /\ Lease \in Nat \ {0}
  /\ MaxFaults \in Nat /\ MaxCrashes \in Nat
BY ReminderAssumption DEF ReminderAssumption

\* A capped time is a time of the clock.
LEMMA CapTime == ASSUME NEW t \in Nat PROVE Cap(t) \in 0 .. MaxTime
BY Facts DEF Cap

\* The delay before another attempt is a whole number of minutes.
LEMMA DelayNat == ASSUME NEW n \in Nat PROVE Delay(n) \in Nat
BY DEF Delay, Backoff

\* A row that loses its claim is a row.
LEMMA SettledRow ==
  ASSUME TypeOK, NEW r \in Reminders, NEW status \in Active \cup Final,
         NEW attempts \in 0 .. MaxAttempts, NEW next \in 0 .. MaxTime
  PROVE  LET s == Settled(rem[r], status, attempts, next)
         IN  /\ s \in Reminder /\ s.task = rem[r].task /\ s.status = status
             /\ s.token = None /\ s.attempts = attempts
BY Facts DEF TypeOK, Settled, Reminder

\* Closing a task cancels what is active for it and leaves the rest alone.
LEMMA CancelRows ==
  ASSUME TypeOK, NEW t \in Tasks
  PROVE  /\ Cancel(t) \in [Reminders -> Reminder]
         /\ \A r \in Reminders :
               LET s == Cancel(t)[r]
               IN  /\ ~ (rem[r].task = t /\ rem[r].status \in Active) => s = rem[r]
                   /\ rem[r].task = t /\ rem[r].status \in Active =>
                        s.task = t /\ s.status = "cancelled" /\ s.token = None
<1>1. ASSUME NEW r \in Reminders
      PROVE  /\ Settled(rem[r], "cancelled", 0, 0) \in Reminder
             /\ Settled(rem[r], "cancelled", 0, 0).task = rem[r].task
             /\ Settled(rem[r], "cancelled", 0, 0).status = "cancelled"
             /\ Settled(rem[r], "cancelled", 0, 0).token = None
  BY SettledRow, Facts DEF Final
<1>2. \A r \in Reminders : rem[r] \in Reminder
  BY DEF TypeOK
<1> QED BY <1>1, <1>2 DEF Cancel

\* What closing or dismissing a task's reminders does to the invariants.
LEMMA CancelStep ==
  ASSUME Inductive, NEW t \in Tasks, rem' = Cancel(t), UNCHANGED <<now, shown, cycle>>
  PROVE  /\ rem' \in [Reminders -> Reminder]
         /\ RowInvariant' /\ CycleInvariant' /\ OneActivePerTask' /\ DeliveredWasShown'
         /\ \A r \in Reminders :
               rem'[r].status \in Active => rem'[r] = rem[r] /\ rem[r].task # t
<1>1. /\ rem' \in [Reminders -> Reminder]
      /\ \A r \in Reminders :
            /\ ~ (rem[r].task = t /\ rem[r].status \in Active) => rem'[r] = rem[r]
            /\ rem[r].task = t /\ rem[r].status \in Active =>
                 rem'[r].task = t /\ rem'[r].status = "cancelled" /\ rem'[r].token = None
  BY CancelRows DEF Inductive
<1>2. RowInvariant'
  BY <1>1 DEF Inductive, RowInvariant
<1>3. CycleInvariant'
  BY <1>1, Facts DEF Inductive, CycleInvariant, cycle
<1>4. \A r \in Reminders :
         rem'[r].status \in Active => rem'[r] = rem[r] /\ rem[r].task # t
  BY <1>1 DEF Active
<1>5. OneActivePerTask'
  BY <1>4 DEF Inductive, OneActivePerTask
<1>6. DeliveredWasShown'
  BY <1>1 DEF Inductive, DeliveredWasShown
<1> QED BY <1>1, <1>2, <1>3, <1>4, <1>5, <1>6

\* The strategies of the tasks, and whether one is about to be written over.
Strategies == [Tasks -> Seq({"suggested", "confirmed"})]

RowsKept ==
    /\ strategy' \in Strategies /\ present' \in BOOLEAN
    /\ \A u \in Tasks : Confirmed(u) => Confirmed(u)'
    /\ present' => present /\ strategy'[flow.task] # <<>>

\* What leaves the strategies alone takes no confirmation away ...
LEMMA RowsUnchanged == ASSUME Inductive, UNCHANGED rows PROVE RowsKept
BY DEF Inductive, TypeOK, FlowInvariant, RowsKept, Strategies, Confirmed, rows

\* ... and neither does a suggestion.
LEMMA SuggestStep == ASSUME Inductive, NEW t \in Tasks, Suggest(t) PROVE RowsKept
<1>1. CASE UNCHANGED rows
  BY <1>1, RowsUnchanged
<1>2. CASE /\ strategy' = [strategy EXCEPT ![t] = IF @ = <<>> THEN <<"suggested">> ELSE @]
           /\ present' = (present /\ flow.task # t)
  <2>1. strategy \in Strategies /\ present \in BOOLEAN
    BY DEF Inductive, TypeOK, Strategies
  <2>2. <<"suggested">> \in Seq({"suggested", "confirmed"})
    OBVIOUS
  <2>3. strategy' \in Strategies
    BY <1>2, <2>1, <2>2 DEF Strategies
  <2>4. ASSUME NEW u \in Tasks, Confirmed(u) PROVE Confirmed(u)'
    <3>1. strategy[u] # <<>>
      BY <2>4 DEF Confirmed
    <3>2. strategy'[u] = strategy[u]
      BY <1>2, <2>1, <3>1 DEF Strategies
    <3> QED BY <2>4, <3>2 DEF Confirmed
  <2>5. present' => present /\ strategy'[flow.task] # <<>>
    <3> SUFFICES ASSUME present' PROVE present /\ strategy'[flow.task] # <<>>
      OBVIOUS
    <3>1. present /\ flow.task # t /\ flow.task \in Tasks /\ strategy[flow.task] # <<>>
      BY <1>2, <2>1 DEF Inductive, FlowInvariant
    <3> QED BY <1>2, <2>1, <3>1 DEF Strategies
  <2> QED BY <1>2, <2>1, <2>3, <2>4, <2>5 DEF RowsKept
<1> QED BY <1>1, <1>2 DEF Suggest

\* What neither moves a confirmation or dismissal on nor makes a reminder
\* active keeps three of the invariants.
LEMMA Undisturbed ==
  ASSUME Inductive, UNCHANGED <<flow, cut>>, RowsKept,
         \A r \in Reminders :
            rem'[r].status \in Active => rem[r].status \in Active /\ rem'[r].task = rem[r].task
  PROVE  FlowInvariant' /\ OneActivePerTask' /\ ActiveWasConfirmed'
<1>1. FlowInvariant'
  BY DEF Inductive, FlowInvariant, RowsKept
<1>2. OneActivePerTask'
  BY DEF Inductive, OneActivePerTask
<1>3. \A r \in Reminders : rem[r].status \in Active => rem[r].task \in Tasks
  BY DEF Inductive, RowInvariant, Active
<1>4. ActiveWasConfirmed'
  BY <1>3 DEF Inductive, ActiveWasConfirmed, RowsKept
<1> QED BY <1>1, <1>2, <1>4

-----------------------------------------------------------------------------
(* One lemma per action.                                                   *)

\* Time passing moves no row and no cycle.
LEMMA TickStep == ASSUME Inductive, Tick PROVE Inductive'
<1>1. TypeOK'
  BY Facts DEF Inductive, TypeOK, Tick, user, rows, cycle, bounds
<1>2. RowInvariant' /\ DeliveredWasShown'
  BY DEF Inductive, RowInvariant, DeliveredWasShown, Tick
<1>3. CycleInvariant'
  BY Facts DEF Inductive, TypeOK, CycleInvariant, Tick, cycle
<1>4. FlowInvariant' /\ OneActivePerTask' /\ ActiveWasConfirmed'
  BY Undisturbed, RowsUnchanged DEF Tick, user
<1> QED BY <1>1, <1>2, <1>3, <1>4 DEF Inductive

\* Closing a task, or putting it into the trash, cancels its reminders.
LEMMA CloseStep ==
  ASSUME Inductive, NEW t \in Tasks, NEW closed \in BOOLEAN,
         CompleteTask(t) \/ DeleteTask(t) \/ (UpdateTask(t, closed) /\ closed)
  PROVE  Inductive'
<1>1. /\ rem' = Cancel(t)
      /\ task' \in [Tasks -> Task]
      /\ UNCHANGED <<now, rows, flow, cut, cycle, timer, shown, bounds>>
  BY DEF Inductive, TypeOK, Task, CompleteTask, DeleteTask, UpdateTask
<1>2. /\ rem' \in [Reminders -> Reminder]
      /\ RowInvariant' /\ CycleInvariant' /\ DeliveredWasShown'
      /\ \A r \in Reminders :
            rem'[r].status \in Active => rem'[r] = rem[r] /\ rem[r].task # t
  BY <1>1, CancelStep
<1>3. TypeOK'
  BY <1>1, <1>2 DEF Inductive, TypeOK, cycle, bounds, rows
<1>4. FlowInvariant' /\ OneActivePerTask' /\ ActiveWasConfirmed'
  BY <1>1, <1>2, Undisturbed, RowsUnchanged
<1> QED BY <1>2, <1>3, <1>4 DEF Inductive

\* Restoring a task brings no reminder back; opening or editing one, and
\* generating a strategy, only suggest.
LEMMA OpenStep ==
  ASSUME Inductive, NEW t \in Tasks, NEW closed \in BOOLEAN,
         RestoreTask(t) \/ GenerateStrategy(t) \/ (UpdateTask(t, closed) /\ ~ closed)
  PROVE  Inductive'
<1>1. /\ task' \in [Tasks -> Task]
      /\ Suggest(t) \/ UNCHANGED rows
      /\ UNCHANGED <<now, flow, cut, rem, cycle, timer, shown, bounds>>
  BY DEF Inductive, TypeOK, Task, RestoreTask, GenerateStrategy, UpdateTask
<1>2. RowsKept
  BY <1>1, SuggestStep, RowsUnchanged
<1>3. TypeOK'
  BY <1>1, <1>2 DEF Inductive, TypeOK, cycle, bounds, RowsKept, Strategies
<1>4. RowInvariant' /\ CycleInvariant' /\ DeliveredWasShown'
  BY <1>1 DEF Inductive, RowInvariant, CycleInvariant, DeliveredWasShown, cycle
<1>5. FlowInvariant' /\ OneActivePerTask' /\ ActiveWasConfirmed'
  BY <1>1, <1>2, Undisturbed
<1> QED BY <1>3, <1>4, <1>5 DEF Inductive

\* The user retries a failed reminder: it was active and stays so.
LEMMA RetryStep ==
  ASSUME Inductive, NEW r \in Reminders, NEW reset \in BOOLEAN, RetryReminder(r, reset)
  PROVE  Inductive'
<1> DEFINE n == IF reset THEN 0 ELSE rem[r].attempts
           row == Settled(rem[r], "pending", n, now)
<1>0. n \in 0 .. MaxAttempts /\ now \in 0 .. MaxTime
  BY Facts DEF Inductive, TypeOK, Reminder
<1>1. /\ row \in Reminder /\ row.task = rem[r].task /\ row.status = "pending"
      /\ row.token = None
  <2> HIDE DEF n
  <2> QED BY <1>0, SettledRow DEF Inductive, Active
<1>2. /\ rem[r].status = "failed" /\ rem' = [rem EXCEPT ![r] = row]
      /\ UNCHANGED <<now, user, cycle, timer, shown, bounds>>
  BY DEF RetryReminder
<1> HIDE DEF row
<1>3. TypeOK'
  BY <1>1, <1>2 DEF Inductive, TypeOK, user, rows, cycle, bounds
<1>4. RowInvariant'
  BY <1>1, <1>2 DEF Inductive, TypeOK, RowInvariant
<1>5. CycleInvariant'
  BY <1>1, <1>2, Facts DEF Inductive, TypeOK, CycleInvariant, cycle
<1>6. DeliveredWasShown'
  BY <1>1, <1>2 DEF Inductive, TypeOK, DeliveredWasShown
<1>7. FlowInvariant' /\ OneActivePerTask' /\ ActiveWasConfirmed'
  BY <1>1, <1>2, Undisturbed, RowsUnchanged DEF Inductive, TypeOK, user, rows, Active
<1> QED BY <1>3, <1>4, <1>5, <1>6, <1>7 DEF Inductive

\* The user cancels an active reminder.
LEMMA CancelReminderStep ==
  ASSUME Inductive, NEW r \in Reminders, CancelReminder(r) PROVE Inductive'
<1> DEFINE row == Settled(rem[r], "cancelled", 0, 0)
<1>1. /\ row \in Reminder /\ row.task = rem[r].task /\ row.status = "cancelled"
      /\ row.token = None
  BY SettledRow, Facts DEF Inductive, Final
<1>2. /\ rem[r].status \in Active /\ rem' = [rem EXCEPT ![r] = row]
      /\ UNCHANGED <<now, user, cycle, timer, shown, bounds>>
  BY DEF CancelReminder
<1> HIDE DEF row
<1>3. TypeOK'
  BY <1>1, <1>2 DEF Inductive, TypeOK, user, rows, cycle, bounds
<1>4. RowInvariant'
  BY <1>1, <1>2 DEF Inductive, TypeOK, RowInvariant, Active
<1>5. CycleInvariant'
  BY <1>1, <1>2, Facts DEF Inductive, TypeOK, CycleInvariant, cycle
<1>6. DeliveredWasShown'
  BY <1>1, <1>2 DEF Inductive, TypeOK, DeliveredWasShown
<1>7. FlowInvariant' /\ OneActivePerTask' /\ ActiveWasConfirmed'
  BY <1>1, <1>2, Undisturbed, RowsUnchanged DEF Inductive, TypeOK, user, rows, Active
<1> QED BY <1>3, <1>4, <1>5, <1>6, <1>7 DEF Inductive

\* Confirming and dismissing begin with a look at the strategies.
LEMMA FindStrategyStep ==
  ASSUME Inductive, NEW t \in Tasks, NEW step \in {"confirm", "dismiss"},
         NEW at \in 0 .. MaxTime, FindStrategy(t, step, at)
  PROVE  Inductive'
<1>1. /\ flow' = [step |-> step, task |-> t, at |-> at, found |-> None]
      /\ present' = (strategy[t] # <<>>) /\ flow.step = "idle"
      /\ UNCHANGED <<now, task, strategy, cut, rem, cycle, timer, shown, bounds>>
  BY DEF FindStrategy
<1>2. TypeOK'
  BY <1>1, Facts DEF Inductive, TypeOK, Flow, cycle, bounds
<1>3. RowInvariant' /\ CycleInvariant' /\ DeliveredWasShown' /\ OneActivePerTask'
  BY <1>1 DEF Inductive, RowInvariant, CycleInvariant, DeliveredWasShown, OneActivePerTask, cycle
<1>4. FlowInvariant'
  BY <1>1 DEF FlowInvariant
<1>5. ActiveWasConfirmed'
  BY <1>1 DEF Inductive, ActiveWasConfirmed, Confirmed
<1> QED BY <1>2, <1>3, <1>4, <1>5 DEF Inductive

\* What is beside the strategy that is written.
LEMMA OthersFacts ==
  ASSUME Inductive, flow.step # "idle"
  PROVE  flow.task \in Tasks /\ Others \in Seq({"suggested", "confirmed"})
<1>1. flow.task \in Tasks /\ strategy[flow.task] \in Seq({"suggested", "confirmed"})
  BY DEF Inductive, TypeOK, FlowInvariant
<1>2. present => strategy[flow.task] # <<>>
  BY DEF Inductive, FlowInvariant
<1> QED BY <1>1, <1>2 DEF Others

\* Confirming writes a confirmed strategy, first or second.
LEMMA ConfirmedRows ==
  ASSUME NEW s \in Seq({"suggested", "confirmed"}),
         NEW q \in {<<"confirmed">> \o s, <<Head(s), "confirmed">> \o Tail(s)},
         q = <<"confirmed">> \o s \/ s # <<>>
  PROVE  /\ q \in Seq({"suggested", "confirmed"})
         /\ \E i \in DOMAIN q : q[i] = "confirmed"
<1>1. CASE q = <<"confirmed">> \o s
  <2>1. q \in Seq({"suggested", "confirmed"}) /\ Len(q) = 1 + Len(s) /\ q[1] = "confirmed"
    BY <1>1
  <2> QED BY <2>1
<1>2. CASE s # <<>> /\ q = <<Head(s), "confirmed">> \o Tail(s)
  <2>1. Tail(s) \in Seq({"suggested", "confirmed"}) /\ Head(s) \in {"suggested", "confirmed"}
    BY <1>2
  <2>2. q \in Seq({"suggested", "confirmed"}) /\ Len(q) = 2 + Len(Tail(s)) /\ q[2] = "confirmed"
    BY <1>2, <2>1
  <2> QED BY <2>1, <2>2
<1> QED BY <1>1, <1>2

\* The strategy is written: what waits for the task has a reason again, whatever
\* an earlier dismissal left, or the dismissal goes on to cancel it.
LEMMA WriteStrategyStep == ASSUME Inductive, WriteStrategy PROVE Inductive'
<1>1. /\ flow.step \in {"confirm", "dismiss"} /\ flow \in Flow
      /\ present' = FALSE /\ cut' = cut \ {flow.task}
      /\ UNCHANGED <<now, task, rem, cycle, timer, shown, bounds>>
  BY DEF WriteStrategy, Inductive, TypeOK
<1>2. flow.task \in Tasks /\ Others \in Seq({"suggested", "confirmed"})
  BY <1>1, OthersFacts
<1>3. PICK q : strategy' = [strategy EXCEPT ![flow.task] = q]
               /\ \/ /\ flow.step = "dismiss" /\ q = Others
                     /\ flow' = [step |-> "cancel", task |-> flow.task, at |-> flow.at, found |-> None]
                  \/ /\ flow.step = "confirm"
                     /\ q \in {<<"confirmed">> \o Others,
                              <<Head(Others), "confirmed">> \o Tail(Others)}
                     /\ q = <<"confirmed">> \o Others \/ Others # <<>>
                     /\ flow' \in {NoFlow,
                                 [step |-> "update", task |-> flow.task, at |-> flow.at, found |-> None]}
  BY DEF WriteStrategy
<1>4. /\ q \in Seq({"suggested", "confirmed"})
      /\ flow.step = "confirm" => \E i \in DOMAIN q : q[i] = "confirmed"
  BY <1>2, <1>3, ConfirmedRows
<1>5. strategy \in Strategies /\ strategy' \in Strategies
  BY <1>2, <1>3, <1>4 DEF Strategies, Inductive, TypeOK
<1>6. /\ flow' \in Flow /\ (flow'.step # "idle" => flow'.task = flow.task)
      /\ flow'.step \in {"idle", "update", "cancel"}
      /\ flow'.step = "cancel" <=> flow.step = "dismiss"
  BY <1>1, <1>3, Facts DEF Flow, NoFlow
<1>7. strategy'[flow.task] = q /\ \A u \in Tasks \ {flow.task} : strategy'[u] = strategy[u]
  BY <1>2, <1>3, <1>5 DEF Strategies
<1>t. PICK t \in Tasks : t = flow.task
  BY <1>2
<1>8. flow.step = "confirm" => Confirmed(t)'
  <2>1. strategy'[t] = q
    BY <1>7, <1>t
  <2> QED BY <1>4, <2>1 DEF Confirmed
<1>9. TypeOK'
  <2>1. /\ strategy' \in [Tasks -> Seq({"suggested", "confirmed"})]
        /\ present' \in BOOLEAN /\ flow' \in Flow
    BY <1>1, <1>5, <1>6 DEF Strategies
  <2>2. cut' \subseteq Tasks
    BY <1>1 DEF Inductive, TypeOK
  <2> QED BY <1>1, <2>1, <2>2 DEF Inductive, TypeOK, cycle, bounds
<1>10. RowInvariant' /\ CycleInvariant' /\ DeliveredWasShown' /\ OneActivePerTask'
  BY <1>1 DEF Inductive, RowInvariant, CycleInvariant, DeliveredWasShown, OneActivePerTask, cycle
<1>11. FlowInvariant'
  <2>1. flow'.step = "update" => flow'.task = t /\ flow.step = "confirm"
    BY <1>1, <1>6, <1>t
  <2>2. flow'.step = "update" => Confirmed(flow.task)'
    BY <1>8, <2>1 DEF Confirmed
  <2> QED BY <1>1, <1>2, <1>6, <2>2 DEF FlowInvariant
<1>12. ActiveWasConfirmed'
  <2>1. \A r \in Reminders : rem[r].status \in Active => rem[r].task \in Tasks
    BY DEF Inductive, RowInvariant, Active
  <2>2. ASSUME NEW r \in Reminders, NEW u \in Tasks, rem[r].status \in Active, u = rem[r].task
        PROVE  Confirmed(u)' \/ (flow'.step = "cancel" /\ flow'.task = u) \/ u \in cut'
    <3>1. CASE u = t
      BY <1>1, <1>6, <1>8, <1>t, <3>1
    <3>2. CASE u # t
      <4>1. Confirmed(u) \/ u \in cut
        BY <1>1, <1>t, <2>2, <3>2 DEF Inductive, ActiveWasConfirmed
      <4>2. strategy'[u] = strategy[u]
        BY <1>7, <1>t, <3>2
      <4> QED BY <1>1, <1>t, <3>2, <4>1, <4>2 DEF Confirmed
    <3> QED BY <3>1, <3>2
  <2>3. rem' = rem
    BY <1>1
  <2> QED BY <2>1, <2>2, <2>3 DEF ActiveWasConfirmed, Confirmed
<1> QED BY <1>9, <1>10, <1>11, <1>12 DEF Inductive

\* The confirmed task is updated: it may be in the trash, or closed.
LEMMA ConfirmUpdatesStep == ASSUME Inductive, ConfirmUpdatesTask PROVE Inductive'
<1>0. /\ flow.task \in Tasks /\ flow.step = "update" /\ flow \in Flow
      /\ Confirmed(flow.task) /\ present = FALSE
  BY DEF Inductive, TypeOK, FlowInvariant, ConfirmUpdatesTask
<1>1. /\ flow' \in Flow /\ flow'.step \in {"idle", "find"}
      /\ flow'.step = "find" => flow'.task = flow.task
      /\ UNCHANGED <<now, task, cut, cycle, timer, shown, bounds>>
  BY <1>0, Facts DEF ConfirmUpdatesTask, NoFlow, Flow
<1>2. RowsKept
  BY <1>0, SuggestStep, RowsUnchanged DEF ConfirmUpdatesTask
<1>3. /\ rem' \in [Reminders -> Reminder]
      /\ RowInvariant' /\ CycleInvariant' /\ OneActivePerTask' /\ DeliveredWasShown'
      /\ \A r \in Reminders : rem'[r].status \in Active => rem'[r] = rem[r]
  <2>1. CASE rem' = Cancel(flow.task)
    BY <1>0, <1>1, <2>1, CancelStep
  <2>2. CASE UNCHANGED rem
    BY <1>1, <2>2 DEF Inductive, TypeOK, RowInvariant, CycleInvariant, OneActivePerTask,
       DeliveredWasShown, cycle
  <2> QED BY <2>1, <2>2 DEF ConfirmUpdatesTask
<1>4. TypeOK'
  BY <1>1, <1>2, <1>3 DEF Inductive, TypeOK, cycle, bounds, RowsKept, Strategies
<1>5. FlowInvariant'
  BY <1>0, <1>1, <1>2 DEF FlowInvariant, RowsKept
<1>6. ActiveWasConfirmed'
  <2>1. \A r \in Reminders : rem[r].status \in Active => rem[r].task \in Tasks
    BY DEF Inductive, RowInvariant, Active
  <2> QED BY <1>0, <1>1, <1>2, <1>3, <2>1 DEF Inductive, ActiveWasConfirmed, RowsKept
<1> QED BY <1>3, <1>4, <1>5, <1>6 DEF Inductive

\* What is found is the only active reminder of the task, if there is one.
LEMMA FindStep == ASSUME Inductive, FindReminder PROVE Inductive'
<1>1. PICK r \in IF Reusable(flow.task) = {} THEN {None} ELSE Reusable(flow.task) :
         flow' = [step |-> "store", task |-> flow.task, at |-> flow.at, found |-> r]
  BY DEF FindReminder
<1>2. /\ flow.step = "find" /\ flow.task \in Tasks /\ Confirmed(flow.task) /\ present = FALSE
      /\ flow.at \in 0 .. MaxTime
      /\ UNCHANGED <<now, task, strategy, present, cut, rem, cycle, timer, shown, bounds>>
  BY DEF FindReminder, Inductive, TypeOK, Flow, FlowInvariant, rows
<1>3. r \in Reminders \cup {None}
  BY <1>1 DEF Reusable
<1>4. TypeOK'
  BY <1>1, <1>2, <1>3 DEF Inductive, TypeOK, Flow, cycle, bounds
<1>5. RowInvariant' /\ CycleInvariant' /\ DeliveredWasShown' /\ OneActivePerTask'
  BY <1>2 DEF Inductive, RowInvariant, CycleInvariant, DeliveredWasShown, OneActivePerTask, cycle
<1>6. \A s \in Reminders : rem[s].task = flow.task /\ rem[s].status \in Active => s = r
  BY <1>1 DEF Reusable, Inductive, OneActivePerTask
<1>7. FlowInvariant'
  BY <1>1, <1>2, <1>6 DEF FlowInvariant, Confirmed
<1>8. ActiveWasConfirmed'
  BY <1>1, <1>2 DEF Inductive, ActiveWasConfirmed, Confirmed
<1> QED BY <1>4, <1>5, <1>7, <1>8 DEF Inductive

\* What is stored is the only active reminder of its task, even if what was
\* found has been delivered or cancelled since.
LEMMA StoreStep == ASSUME Inductive, StoreReminder PROVE Inductive'
<1>1. PICK r \in Reminders :
         /\ IF flow.found = None THEN rem[r].status = "none" ELSE r = flow.found
         /\ rem' = [rem EXCEPT ![r] = Set(flow.task, flow.at)]
         /\ shown' = shown \ {r}
  BY DEF StoreReminder
<1> DEFINE row == Set(flow.task, flow.at)
<1>2. /\ flow.step = "store" /\ flow.task \in Tasks /\ Confirmed(flow.task) /\ present = FALSE
      /\ \A s \in Reminders : rem[s].task = flow.task /\ rem[s].status \in Active => s = flow.found
      /\ flow' = NoFlow
      /\ UNCHANGED <<now, task, strategy, present, cut, cycle, timer, bounds>>
  BY DEF StoreReminder, Inductive, TypeOK, FlowInvariant, rows
<1>3. /\ row \in Reminder /\ row.task = flow.task /\ row.status = "pending" /\ row.token = None
  BY <1>2, Facts DEF Set, Reminder, Active, Inductive, TypeOK, Flow
<1> HIDE DEF row
<1>4. rem' = [rem EXCEPT ![r] = row]
  BY <1>1 DEF row
<1>5. NoFlow \in Flow /\ NoFlow.step = "idle"
  BY Facts DEF NoFlow, Flow
<1>6. TypeOK'
  BY <1>1, <1>2, <1>3, <1>4, <1>5 DEF Inductive, TypeOK, cycle, bounds
<1>7. RowInvariant'
  BY <1>2, <1>3, <1>4 DEF Inductive, TypeOK, RowInvariant
<1>8. CycleInvariant'
  BY <1>1, <1>2, <1>3, <1>4, Facts DEF Inductive, TypeOK, CycleInvariant, cycle
<1>9. \A s \in Reminders : rem'[s].task = flow.task /\ rem'[s].status \in Active => s = r
  BY <1>1, <1>2, <1>3, <1>4, Facts DEF Inductive, TypeOK
<1>10. OneActivePerTask'
  BY <1>3, <1>4, <1>9 DEF Inductive, TypeOK, OneActivePerTask
<1>11. DeliveredWasShown'
  BY <1>1, <1>3, <1>4 DEF Inductive, TypeOK, DeliveredWasShown
<1>12. FlowInvariant'
  BY <1>2, <1>5 DEF FlowInvariant
<1>13. ActiveWasConfirmed'
  BY <1>2, <1>3, <1>4 DEF Inductive, TypeOK, ActiveWasConfirmed, Confirmed
<1> QED BY <1>6, <1>7, <1>8, <1>10, <1>11, <1>12, <1>13 DEF Inductive

\* A dismissal ends when nothing waits for the task.
LEMMA FinishDismissStep == ASSUME Inductive, FinishDismiss PROVE Inductive'
<1>1. /\ flow.step = "cancel" /\ flow.task \in Tasks
      /\ rem' = Cancel(flow.task) /\ flow' = NoFlow
      /\ present = FALSE /\ UNCHANGED <<now, task, strategy, present, cut, cycle, timer, shown, bounds>>
  BY DEF FinishDismiss, Inductive, TypeOK, FlowInvariant, rows
<1>2. /\ rem' \in [Reminders -> Reminder]
      /\ RowInvariant' /\ CycleInvariant' /\ OneActivePerTask' /\ DeliveredWasShown'
      /\ \A r \in Reminders :
            rem'[r].status \in Active => rem'[r] = rem[r] /\ rem[r].task # flow.task
  BY <1>1, CancelStep
<1>3. NoFlow \in Flow /\ NoFlow.step = "idle"
  BY Facts DEF NoFlow, Flow
<1>4. TypeOK'
  BY <1>1, <1>2, <1>3 DEF Inductive, TypeOK, cycle, bounds
<1>5. FlowInvariant'
  BY <1>1, <1>3 DEF FlowInvariant
<1>6. ActiveWasConfirmed'
  BY <1>1, <1>2 DEF Inductive, ActiveWasConfirmed, Confirmed
<1> QED BY <1>2, <1>4, <1>5, <1>6 DEF Inductive

\* A confirmation or dismissal cut short leaves the rows as they are.
LEMMA CutFacts ==
  ASSUME Inductive, Cut, UNCHANGED <<strategy, rem>>
  PROVE  /\ flow' \in Flow /\ cut' \subseteq Tasks /\ present' \in BOOLEAN
         /\ FlowInvariant' /\ ActiveWasConfirmed'
<1>1. NoFlow \in Flow /\ NoFlow.step = "idle"
  BY Facts DEF NoFlow, Flow
<1>2. cut' \subseteq Tasks
  BY DEF Cut, Inductive, TypeOK, FlowInvariant
<1>3. FlowInvariant'
  BY <1>1 DEF Cut, FlowInvariant
<1>4. ActiveWasConfirmed'
  BY DEF Cut, Inductive, ActiveWasConfirmed, Confirmed
<1> QED BY <1>1, <1>2, <1>3, <1>4 DEF Cut

LEMMA FlowThrowsStep == ASSUME Inductive, FlowThrows PROVE Inductive'
<1>1. /\ Cut /\ faults' \in 0 .. MaxFaults /\ UNCHANGED crashes
      /\ UNCHANGED <<now, task, strategy, rem, cycle, timer, shown>>
  BY Facts DEF FlowThrows, Fail, Inductive, TypeOK
<1>2. TypeOK'
  BY <1>1, CutFacts DEF Inductive, TypeOK, cycle
<1>3. RowInvariant' /\ CycleInvariant' /\ DeliveredWasShown' /\ OneActivePerTask'
  BY <1>1 DEF Inductive, RowInvariant, CycleInvariant, DeliveredWasShown, OneActivePerTask, cycle
<1> QED BY <1>1, <1>2, <1>3, CutFacts DEF Inductive

\* A cycle starts now.
LEMMA StartStep ==
  ASSUME Inductive, NEW c \in Cycles, NEW byTimer \in BOOLEAN, Start(c, byTimer) PROVE Inductive'
<1>1. TypeOK'
  BY DEF Inductive, TypeOK, Start, user, rows, bounds
<1>2. CycleInvariant'
  BY Facts DEF Inductive, TypeOK, CycleInvariant, Start
<1>3. RowInvariant' /\ DeliveredWasShown'
  BY DEF Inductive, RowInvariant, DeliveredWasShown, Start
<1>4. FlowInvariant' /\ OneActivePerTask' /\ ActiveWasConfirmed'
  BY Undisturbed, RowsUnchanged DEF Start, user
<1> QED BY <1>1, <1>2, <1>3, <1>4 DEF Inductive

\* A claim makes no reminder active that was not, counts an attempt that was
\* left, and no cycle that shows one already has a new claim.
LEMMA ClaimStep == ASSUME Inductive, NEW c \in Cycles, ClaimDue(c) PROVE Inductive'
<1>1. /\ pc[c] = "claim"
      /\ pc' = [pc EXCEPT ![c] = "deliver"]
      /\ todo' = [todo EXCEPT ![c] = {r \in Reminders : Claimable(r, began[c])}]
      /\ UNCHANGED <<now, user, began, timed, cur, timer, shown, bounds>>
  BY DEF ClaimDue
<1>2. ASSUME NEW r \in Reminders, Claimable(r, began[c])
      PROVE  /\ Claimed(rem[r], c, began[c]) \in Reminder
             /\ Claimed(rem[r], c, began[c]).task = rem[r].task
             /\ Claimed(rem[r], c, began[c]).status = "pending"
             /\ Claimed(rem[r], c, began[c]).token = c
             /\ rem[r].status \in Active
  <2>1. /\ rem[r].status \in Active /\ rem[r].attempts + 1 \in 0 .. MaxAttempts
        /\ rem[r] \in Reminder
    BY <1>2, Facts DEF Claimable, Inductive, TypeOK, Reminder
  <2>2. Cap(began[c] + Lease) \in 0 .. MaxTime
    <3>1. began[c] \in 0 .. MaxTime
      BY DEF Inductive, TypeOK
    <3>2. began[c] + Lease \in Nat
      BY <3>1, Facts
    <3> QED BY <3>2, CapTime
  <2>3. 0 \in 0 .. MaxTime
    BY Facts
  <2> QED BY <2>1, <2>2, <2>3 DEF Claimed, Reminder, Active
<1>3. /\ rem' \in [Reminders -> Reminder]
      /\ \A r \in Reminders :
            \/ rem'[r] = rem[r]
            \/ /\ rem'[r].task = rem[r].task /\ rem'[r].status = "pending"
               /\ rem'[r].token = c /\ rem[r].status \in Active
  BY <1>2 DEF ClaimDue, Inductive, TypeOK
<1>4. TypeOK'
  BY <1>1, <1>3 DEF Inductive, TypeOK, user, rows, bounds
<1>5. RowInvariant'
  BY <1>3 DEF Inductive, RowInvariant, Active
<1>6. CycleInvariant'
  BY <1>1, <1>3 DEF Inductive, TypeOK, CycleInvariant
<1>7. DeliveredWasShown'
  BY <1>1, <1>3 DEF Inductive, DeliveredWasShown
<1>8. FlowInvariant' /\ OneActivePerTask' /\ ActiveWasConfirmed'
  BY <1>1, <1>3, Undisturbed, RowsUnchanged DEF user
<1> QED BY <1>4, <1>5, <1>6, <1>7, <1>8 DEF Inductive

\* A reminder is shown, or refused.
LEMMA DeliverStep ==
  ASSUME Inductive, NEW c \in Cycles, NEW r \in todo[c], NEW ok \in BOOLEAN, Deliver(c, r, ok)
  PROVE  Inductive'
<1>1. r \in Reminders
  BY DEF Inductive, TypeOK
<1>2. TypeOK'
  BY <1>1 DEF Inductive, TypeOK, Deliver, user, rows, bounds
<1>3. CycleInvariant'
  BY <1>1 DEF Inductive, TypeOK, CycleInvariant, Deliver
<1>4. RowInvariant' /\ DeliveredWasShown'
  BY DEF Inductive, RowInvariant, DeliveredWasShown, Deliver
<1>5. FlowInvariant' /\ OneActivePerTask' /\ ActiveWasConfirmed'
  BY Undisturbed, RowsUnchanged DEF Deliver, user
<1> QED BY <1>2, <1>3, <1>4, <1>5 DEF Inductive

\* What a cycle goes on with.
LEMMA ProceedFacts ==
  ASSUME Inductive, NEW c \in Cycles, Proceed(c)
  PROVE  /\ pc' \in [Cycles -> {"idle", "claim", "deliver", "shown", "refused", "fail"}]
         /\ cur' \in [Cycles -> Reminders \cup {None}]
         /\ pc'[c] = "deliver" /\ cur'[c] = None
         /\ \A d \in Cycles \ {c} : pc'[d] = pc[d] /\ cur'[d] = cur[d]
BY DEF Inductive, TypeOK, Proceed

\* A row that its cycle marks is of a reminder it holds.
LEMMA MarkFacts ==
  ASSUME Inductive, NEW c \in Cycles, NEW row, cur[c] \in Reminders, Proceed(c),
         UNCHANGED <<now, user, began, timed, todo, timer, shown, bounds>>,
         row \in Reminder, row.task = rem[cur[c]].task, row.token = None,
         row.status \in {"failed", "delivered"},
         row.status = "delivered" => pc[c] = "shown",
         IF Holds(c, cur[c]) THEN rem' = [rem EXCEPT ![cur[c]] = row] ELSE UNCHANGED rem
  PROVE  Inductive'
<1>1. /\ rem' \in [Reminders -> Reminder]
      /\ \A r \in Reminders :
            \/ rem'[r] = rem[r]
            \/ /\ r = cur[c] /\ rem'[r] = row /\ rem[r].token = c
               /\ rem[r].status \notin Final
  BY DEF Inductive, TypeOK, Holds
<1>2. TypeOK'
  BY <1>1, ProceedFacts DEF Inductive, TypeOK, user, rows, bounds
<1>3. \A r \in Reminders : rem[r].token # None => rem[r].status = "pending" /\ rem[r].task \in Tasks
  BY DEF Inductive, RowInvariant
<1>4. RowInvariant'
  BY <1>1, <1>3, Facts DEF Inductive, RowInvariant
<1>5. CycleInvariant'
  BY <1>1, ProceedFacts, Facts DEF Inductive, CycleInvariant
<1>6. DeliveredWasShown'
  BY <1>1 DEF Inductive, DeliveredWasShown, CycleInvariant
<1>7. \A r \in Reminders :
         rem'[r].status \in Active => rem[r].status \in Active /\ rem'[r].task = rem[r].task
  BY <1>1, <1>3, Facts DEF Active
<1>8. FlowInvariant' /\ OneActivePerTask' /\ ActiveWasConfirmed'
  BY <1>7, Undisturbed, RowsUnchanged DEF user
<1> QED BY <1>2, <1>4, <1>5, <1>6, <1>8 DEF Inductive

\* Only what was shown is marked delivered.
LEMMA MarkDeliveredStep == ASSUME Inductive, NEW c \in Cycles, MarkDelivered(c) PROVE Inductive'
<1> DEFINE row == Settled(rem[cur[c]], "delivered", 0, 0)
<1>1. pc[c] = "shown" /\ cur[c] \in Reminders
  BY DEF MarkDelivered, Inductive, CycleInvariant
<1>2. /\ row \in Reminder /\ row.task = rem[cur[c]].task /\ row.token = None
      /\ row.status = "delivered"
  BY <1>1, SettledRow, Facts DEF Inductive, Final
<1>3. /\ Proceed(c)
      /\ UNCHANGED <<now, user, began, timed, todo, timer, shown, bounds>>
      /\ IF Holds(c, cur[c]) THEN rem' = [rem EXCEPT ![cur[c]] = row] ELSE UNCHANGED rem
  BY DEF MarkDelivered
<1> HIDE DEF row
<1> QED BY <1>1, <1>2, <1>3, MarkFacts

\* A failed attempt leaves the reminder active, and the next is in the future.
LEMMA MarkFailedStep == ASSUME Inductive, NEW c \in Cycles, MarkFailed(c) PROVE Inductive'
<1> DEFINE r == rem[cur[c]]
           next == IF r.attempts < MaxAttempts THEN Cap(began[c] + Delay(r.attempts)) ELSE 0
           row == Settled(r, "failed", r.attempts, next)
<1>1. cur[c] \in Reminders
  BY DEF MarkFailed, Inductive, CycleInvariant
<1>2. /\ r.attempts \in 0 .. MaxAttempts /\ r.attempts \in Nat /\ began[c] \in Nat
      /\ 0 \in 0 .. MaxTime
  BY <1>1, Facts DEF Inductive, TypeOK, Reminder
<1>3. next \in 0 .. MaxTime
  <2>1. began[c] + Delay(r.attempts) \in Nat
    BY <1>2, DelayNat
  <2> QED BY <1>2, <2>1, CapTime
<1>4. /\ Proceed(c)
      /\ UNCHANGED <<now, user, began, timed, todo, timer, shown, bounds>>
      /\ IF Holds(c, cur[c]) THEN rem' = [rem EXCEPT ![cur[c]] = row] ELSE UNCHANGED rem
  BY DEF MarkFailed
<1>5. /\ row \in Reminder /\ row.task = r.task /\ row.token = None /\ row.status = "failed"
  <2> HIDE DEF next
  <2> QED BY <1>1, <1>2, <1>3, SettledRow DEF Inductive, Active
<1> HIDE DEF row
<1> QED BY <1>1, <1>4, <1>5, MarkFacts

\* A mark that throws leaves the row to its lease.
LEMMA MarkThrowsStep == ASSUME Inductive, NEW c \in Cycles, MarkThrows(c) PROVE Inductive'
<1>1. /\ faults' \in 0 .. MaxFaults /\ UNCHANGED crashes
      /\ UNCHANGED <<now, user, rem, began, timed, todo, timer, shown>>
  BY Facts DEF MarkThrows, Fail, Inductive, TypeOK
<1>2. /\ pc' \in [Cycles -> {"idle", "claim", "deliver", "shown", "refused", "fail"}]
      /\ cur' \in [Cycles -> Reminders \cup {None}]
      /\ \A d \in Cycles :
            /\ pc'[d] = pc[d] \/ pc'[d] = "deliver" \/ (pc'[d] = "fail" /\ pc[d] \in {"shown", "refused"})
            /\ pc'[d] # "deliver" => cur'[d] = cur[d]
  <2>1. CASE Proceed(c)
    BY <2>1, ProceedFacts DEF Inductive, TypeOK, Proceed
  <2>2. CASE pc' = [pc EXCEPT ![c] = "fail"] /\ UNCHANGED cur /\ pc[c] # "fail"
    BY <2>2 DEF MarkThrows, Inductive, TypeOK
  <2> QED BY <2>1, <2>2 DEF MarkThrows
<1>3. TypeOK'
  BY <1>1, <1>2 DEF Inductive, TypeOK, user, rows
<1>4. CycleInvariant'
  BY <1>1, <1>2 DEF Inductive, CycleInvariant
<1>5. RowInvariant' /\ DeliveredWasShown'
  BY <1>1 DEF Inductive, RowInvariant, DeliveredWasShown
<1>6. FlowInvariant' /\ OneActivePerTask' /\ ActiveWasConfirmed'
  BY <1>1, Undisturbed, RowsUnchanged DEF user
<1> QED BY <1>3, <1>4, <1>5, <1>6 DEF Inductive

\* Cycles end, and their local variables with them.
LEMMA EndFacts ==
  ASSUME Inductive, NEW C \in SUBSET Cycles, End(C), UNCHANGED <<now, rem, shown>>
  PROVE  /\ CycleInvariant'
         /\ pc' \in [Cycles -> {"idle", "claim", "deliver", "shown", "refused", "fail"}]
         /\ began' \in [Cycles -> 0 .. MaxTime] /\ timed' \in [Cycles -> BOOLEAN]
         /\ todo' \in [Cycles -> SUBSET Reminders]
         /\ cur' \in [Cycles -> Reminders \cup {None}]
<1>1. began' \in [Cycles -> 0 .. MaxTime] /\ \A c \in Cycles : began'[c] <= now
  BY Facts DEF End, Inductive, TypeOK, CycleInvariant
<1>2. /\ pc' \in [Cycles -> {"idle", "claim", "deliver", "shown", "refused", "fail"}]
      /\ cur' \in [Cycles -> Reminders \cup {None}]
      /\ \A c \in Cycles : pc'[c] # "idle" => pc'[c] = pc[c] /\ cur'[c] = cur[c]
  BY DEF End, Inductive, TypeOK
<1>3. timed' \in [Cycles -> BOOLEAN]
  BY Zenon DEF End, Inductive, TypeOK
<1>4. todo' \in [Cycles -> SUBSET Reminders]
  BY DEF End, Inductive, TypeOK
<1>5. CycleInvariant'
  BY <1>1, <1>2 DEF Inductive, CycleInvariant
<1> QED BY <1>1, <1>2, <1>3, <1>4, <1>5

\* A cycle ends with a new timer, or throws.
LEMMA EndStep ==
  ASSUME Inductive, NEW c \in Cycles, ScheduleNextWake(c) \/ CycleThrows(c) PROVE Inductive'
<1>1. End({c}) /\ timer' \in BOOLEAN /\ UNCHANGED <<now, user, rem, shown>>
  BY DEF ScheduleNextWake, CycleThrows, Inductive, TypeOK
<1>2. faults' \in 0 .. MaxFaults /\ crashes' \in 0 .. MaxCrashes
  BY Facts DEF ScheduleNextWake, CycleThrows, Fail, Inductive, TypeOK, bounds
<1>3. TypeOK' /\ CycleInvariant'
  BY <1>1, <1>2, EndFacts DEF Inductive, TypeOK, user, rows
<1>4. RowInvariant' /\ DeliveredWasShown'
  BY <1>1 DEF Inductive, RowInvariant, DeliveredWasShown
<1>5. FlowInvariant' /\ OneActivePerTask' /\ ActiveWasConfirmed'
  BY <1>1, Undisturbed, RowsUnchanged DEF user
<1> QED BY <1>3, <1>4, <1>5 DEF Inductive

\* A kill ends every cycle and cuts the confirmation or dismissal short.
LEMMA CrashStep == ASSUME Inductive, Crash PROVE Inductive'
<1>1. /\ End(Cycles) /\ Cut /\ timer' = FALSE
      /\ UNCHANGED <<now, task, strategy, rem, shown, faults>>
  BY DEF Crash
<1>2. crashes' \in 0 .. MaxCrashes
  BY Facts DEF Crash, Inductive, TypeOK
<1>3. TypeOK' /\ CycleInvariant'
  BY <1>1, <1>2, EndFacts, CutFacts DEF Inductive, TypeOK
<1>4. RowInvariant' /\ DeliveredWasShown' /\ OneActivePerTask'
  BY <1>1 DEF Inductive, RowInvariant, DeliveredWasShown, OneActivePerTask
<1>5. FlowInvariant' /\ ActiveWasConfirmed'
  BY <1>1, CutFacts
<1> QED BY <1>3, <1>4, <1>5 DEF Inductive

-----------------------------------------------------------------------------
(* The theorems.                                                           *)

LEMMA InitialInductive == Init => Inductive
<1> SUFFICES ASSUME Init PROVE Inductive
  OBVIOUS
<1>1. \A r \in Reminders : rem[r] = NoRow
  BY DEF Init
<1>2. NoRow \in Reminder /\ NoRow.status = "none" /\ NoRow.token = None
  BY Facts DEF NoRow, Reminder
<1>3. NoFlow \in Flow /\ NoFlow.step = "idle"
  BY Facts DEF NoFlow, Flow
<1>4. TypeOK
  <2>1. /\ task \in [Tasks -> Task]
        /\ strategy \in [Tasks -> Seq({"suggested", "confirmed"})] /\ present \in BOOLEAN
    <3>1. <<>> \in Seq({"suggested", "confirmed"}) /\ <<"suggested">> \in Seq({"suggested", "confirmed"})
      OBVIOUS
    <3> QED BY <3>1 DEF Init, Task
  <2>2. rem \in [Reminders -> Reminder] /\ flow \in Flow
    BY <1>2, <1>3 DEF Init
  <2>3. /\ pc \in [Cycles -> {"idle", "claim", "deliver", "shown", "refused", "fail"}]
        /\ began \in [Cycles -> 0 .. MaxTime]
        /\ todo \in [Cycles -> SUBSET Reminders]
        /\ cur \in [Cycles -> Reminders \cup {None}]
    BY Facts DEF Init
  <2>4. timed \in [Cycles -> BOOLEAN] /\ timer \in BOOLEAN
    BY Zenon DEF Init
  <2>5. /\ now \in 0 .. MaxTime
        /\ shown \subseteq Reminders /\ cut \subseteq Tasks
        /\ faults \in 0 .. MaxFaults /\ crashes \in 0 .. MaxCrashes
    BY Facts DEF Init
  <2> QED BY <2>1, <2>2, <2>3, <2>4, <2>5 DEF TypeOK
<1>5. RowInvariant /\ OneActivePerTask /\ DeliveredWasShown /\ ActiveWasConfirmed
  BY <1>1, <1>2 DEF RowInvariant, OneActivePerTask, DeliveredWasShown, ActiveWasConfirmed, Active
<1>6. FlowInvariant
  BY <1>3 DEF Init, FlowInvariant
<1>7. CycleInvariant
  BY Facts DEF Init, CycleInvariant
<1> QED BY <1>4, <1>5, <1>6, <1>7 DEF Inductive

LEMMA InductiveStep == Inductive /\ [Next]_vars => Inductive'
<1> SUFFICES ASSUME Inductive, [Next]_vars PROVE Inductive'
  OBVIOUS
<1>1. CASE UNCHANGED vars
  BY <1>1 DEF vars, user, rows, cycle, bounds, Inductive, TypeOK, RowInvariant, FlowInvariant, Confirmed,
     CycleInvariant, OneActivePerTask, DeliveredWasShown, ActiveWasConfirmed
<1>2. CASE Tick \/ Crash
  BY <1>2, TickStep, CrashStep
<1>3. CASE RunFlow
  BY <1>3, ConfirmUpdatesStep, FindStep, StoreStep, FinishDismissStep, WriteStrategyStep,
     FindStrategyStep, Facts, FlowThrowsStep DEF RunFlow
<1>4. ASSUME NEW t \in Tasks, EditTask(t) PROVE Inductive'
  <2>1. CASE \E closed \in BOOLEAN : UpdateTask(t, closed)
    BY <2>1, CloseStep, OpenStep
  <2>2. CASE CompleteTask(t) \/ DeleteTask(t)
    BY <2>2, CloseStep
  <2>3. CASE RestoreTask(t) \/ GenerateStrategy(t)
    BY <2>3, OpenStep
  <2> QED BY <1>4, <2>1, <2>2, <2>3 DEF EditTask
<1>5. ASSUME NEW r \in Reminders, EditReminder(r) PROVE Inductive'
  BY <1>5, CancelReminderStep, RetryStep DEF EditReminder
<1>6. ASSUME NEW c \in Cycles,
             \/ \E byTimer \in BOOLEAN : Start(c, byTimer)
             \/ Dispatch(c) \/ MarkThrows(c) \/ CycleThrows(c)
      PROVE  Inductive'
  <2>1. CASE \E byTimer \in BOOLEAN : Start(c, byTimer)
    BY <2>1, StartStep
  <2>2. CASE Dispatch(c)
    BY <2>2, ClaimStep, MarkDeliveredStep, MarkFailedStep, EndStep, DeliverStep DEF Dispatch, Mark
  <2>3. CASE MarkThrows(c) \/ CycleThrows(c)
    BY <2>3, MarkThrowsStep, EndStep
  <2> QED BY <1>6, <2>1, <2>2, <2>3
<1> QED BY <1>1, <1>2, <1>3, <1>4, <1>5, <1>6 DEF Next

\* The inductive invariant holds of every behaviour.
THEOREM InductiveHolds == Spec => []Inductive
<1> QED BY InitialInductive, InductiveStep, PTL DEF Spec

\* Every variable keeps its type; no reminder is claimed more often than
\* MaxAttempts.
THEOREM TypeCorrect == Spec => []TypeOK
<1>1. Inductive => TypeOK
  BY DEF Inductive
<1> QED BY <1>1, InductiveHolds, PTL

\* A task never has two reminders to dispatch.
THEOREM OneReminder == Spec => []OneActivePerTask
<1>1. Inductive => OneActivePerTask
  BY DEF Inductive
<1> QED BY <1>1, InductiveHolds, PTL

\* Nothing is marked delivered that was not shown.
THEOREM DeliveryIsReal == Spec => []DeliveredWasShown
<1>1. Inductive => DeliveredWasShown
  BY DEF Inductive
<1> QED BY <1>1, InductiveHolds, PTL

\* Nothing waits that the user did not confirm, unless its dismissal was cut.
THEOREM ReminderHasReason == Spec => []ActiveWasConfirmed
<1>1. Inductive => ActiveWasConfirmed
  BY DEF Inductive
<1> QED BY <1>1, InductiveHolds, PTL

\* What a step does to the rows, by who takes it.
LEMMA RowsOf ==
  ASSUME Inductive, Next, NEW r \in Reminders
  PROVE  \/ UNCHANGED rem[r]
         \/ rem[r].status \in Active /\ rem'[r].status = "cancelled"
         \/ rem[r].status = "failed" /\ rem'[r].status = "pending"
         \/ rem[r].status = "none"
         \/ flow.step = "store" /\ flow.found = r
         \/ \E c \in Cycles :
               \/ Claimable(r, began[c]) /\ rem'[r].status = "pending"
               \/ cur[c] = r /\ Holds(c, r) /\ cur'[c] = None
<1> USE DEF Inductive
<1>1. \A t \in Tasks : rem' = Cancel(t) =>
         \/ UNCHANGED rem[r]
         \/ rem[r].status \in Active /\ rem'[r].status = "cancelled"
  BY CancelRows
<1>2. CASE Tick \/ Crash
  BY <1>2 DEF Tick, Crash
<1>3. CASE RunFlow
  <2>1. CASE \/ \E t \in Tasks : FindStrategy(t, "dismiss", 0)
             \/ \E t \in Tasks, at \in Times : FindStrategy(t, "confirm", at)
             \/ WriteStrategy
             \/ FindReminder \/ FlowThrows
    BY <2>1 DEF FindStrategy, WriteStrategy, FindReminder, FlowThrows
  <2>2. CASE ConfirmUpdatesTask \/ FinishDismiss
    BY <2>2, <1>1 DEF ConfirmUpdatesTask, FinishDismiss, FlowInvariant
  <2>3. CASE StoreReminder
    <3>1. PICK s \in Reminders :
             /\ IF flow.found = None THEN rem[s].status = "none" ELSE s = flow.found
             /\ rem' = [rem EXCEPT ![s] = Set(flow.task, flow.at)]
      BY <2>3 DEF StoreReminder
    <3>2. CASE s = r
      BY <2>3, <3>1, <3>2 DEF StoreReminder
    <3>3. CASE s # r
      BY <3>1, <3>3 DEF TypeOK
    <3> QED BY <3>2, <3>3
  <2> QED BY <1>3, <2>1, <2>2, <2>3 DEF RunFlow
<1>4. ASSUME NEW t \in Tasks, EditTask(t) PROVE UNCHANGED rem \/ rem' = Cancel(t)
  BY <1>4 DEF EditTask, CompleteTask, DeleteTask, RestoreTask, GenerateStrategy, UpdateTask
<1>5. ASSUME NEW s \in Reminders, EditReminder(s)
      PROVE  \/ UNCHANGED rem[r]
             \/ rem[r].status \in Active /\ rem'[r].status = "cancelled"
             \/ rem[r].status = "failed" /\ rem'[r].status = "pending"
  <2>1. CASE CancelReminder(s)
    BY <2>1 DEF CancelReminder, Settled, TypeOK
  <2>2. CASE \E reset \in BOOLEAN : RetryReminder(s, reset)
    <3>1. PICK reset \in BOOLEAN : RetryReminder(s, reset)
      BY <2>2
    <3>2. PICK n : rem' = [rem EXCEPT ![s] = Settled(rem[s], "pending", n, now)]
      BY <3>1 DEF RetryReminder
    <3> QED BY <3>1, <3>2 DEF RetryReminder, Settled, TypeOK
  <2> QED BY <1>5, <2>1, <2>2 DEF EditReminder
<1>6. ASSUME NEW c \in Cycles,
             \/ \E byTimer \in BOOLEAN : Start(c, byTimer)
             \/ Dispatch(c) \/ MarkThrows(c) \/ CycleThrows(c)
      PROVE  \/ UNCHANGED rem[r]
             \/ Claimable(r, began[c]) /\ rem'[r].status = "pending"
             \/ cur[c] = r /\ Holds(c, r) /\ cur'[c] = None
  <2>1. CASE ClaimDue(c)
    BY <2>1 DEF ClaimDue, Claimed
  <2>2. CASE Mark(c)
    <3>1. cur[c] \in Reminders /\ cur'[c] = None
      BY <2>2, ProceedFacts DEF Mark, MarkDelivered, MarkFailed, CycleInvariant
    <3>2. UNCHANGED rem \/ (Holds(c, cur[c]) /\ \E row : rem' = [rem EXCEPT ![cur[c]] = row])
      BY <2>2 DEF Mark, MarkDelivered, MarkFailed
    <3> QED BY <3>1, <3>2 DEF TypeOK
  <2>3. CASE \/ \E byTimer \in BOOLEAN : Start(c, byTimer)
             \/ \E s \in todo[c], ok \in BOOLEAN : Deliver(c, s, ok)
             \/ ScheduleNextWake(c) \/ MarkThrows(c) \/ CycleThrows(c)
    BY <2>3 DEF Start, Deliver, ScheduleNextWake, MarkThrows, CycleThrows
  <2> QED BY <1>6, <2>1, <2>2, <2>3 DEF Dispatch
<1> QED BY <1>1, <1>2, <1>3, <1>4, <1>5, <1>6 DEF Next

\* No cycle breaks a lease that another holds.
THEOREM LeasesHold == Spec => LeaseIsRespected
<1>1. ASSUME Inductive, [Next]_vars
      PROVE  [\A c \in Cycles, r \in Reminders :
                rem[r].token = c /\ rem[r].lease > now /\ rem'[r].token # c
                => \/ (cur[c] = r /\ cur'[c] = None)
                   \/ rem'[r].status = "cancelled"
                   \/ (flow.step = "store" /\ flow.found = r)]_vars
  <2> SUFFICES ASSUME Next, NEW c \in Cycles, NEW r \in Reminders,
                      rem[r].token = c, rem[r].lease > now, rem'[r].token # c
               PROVE  \/ (cur[c] = r /\ cur'[c] = None)
                      \/ rem'[r].status = "cancelled"
                      \/ (flow.step = "store" /\ flow.found = r)
    BY <1>1
  <2>1. rem[r].status = "pending"
    BY Facts, <1>1 DEF Inductive, RowInvariant
  <2>2. ASSUME NEW d \in Cycles PROVE ~ Claimable(r, began[d])
    <3>1. began[d] \in Nat /\ now \in Nat /\ rem[r].lease \in Nat /\ began[d] <= now
      BY <1>1, Facts DEF Inductive, TypeOK, CycleInvariant, Reminder
    <3> QED BY <3>1 DEF Claimable
  <2>3. \A d \in Cycles : Holds(d, r) => d = c
    BY DEF Holds
  <2> QED BY <1>1, <2>1, <2>2, <2>3, RowsOf
<1> QED BY <1>1, InductiveHolds, PTL DEF Spec, LeaseIsRespected

\* What was delivered or cancelled comes back only in a stale confirmation.
THEOREM FinalIsFinal == Spec => FinalUnlessSetAnew
<1>1. ASSUME Inductive, [Next]_vars
      PROVE  [\A r \in Reminders :
                rem[r].status \in Final /\ rem'[r].status # rem[r].status
                => flow.step = "store" /\ flow.found = r]_vars
  <2> SUFFICES ASSUME Next, NEW r \in Reminders,
                      rem[r].status \in Final, rem'[r].status # rem[r].status
               PROVE  flow.step = "store" /\ flow.found = r
    BY <1>1
  <2>1. rem[r].status \notin Active /\ rem[r].status # "none"
    BY DEF Final, Active
  <2>2. \A c \in Cycles : ~ Claimable(r, began[c]) /\ ~ Holds(c, r)
    BY <2>1 DEF Claimable, Holds
  <2> QED BY <1>1, <2>1, <2>2, RowsOf DEF Active
<1> QED BY <1>1, InductiveHolds, PTL DEF Spec, FinalUnlessSetAnew

-----------------------------------------------------------------------------
(* Refinement: every step of TaskReminders is a step of ReminderPromise or *)
(* leaves its variables alone.                                             *)

SeenAs(row) == [task |-> row.task, status |-> row.status, tries |-> row.attempts]

\* One row changes, and so does what is seen of it.
LEMMA SeenMoves ==
  ASSUME Inductive, NEW r \in Reminders, NEW row, rem' = [rem EXCEPT ![r] = row]
  PROVE  Seen' = [Seen EXCEPT ![r] = SeenAs(row)]
BY DEF Inductive, TypeOK, Seen, SeenAs

LEMMA RowBecomes ==
  ASSUME Inductive, NEW r \in Reminders, NEW row, rem' = [rem EXCEPT ![r] = row],
         row.task = rem[r].task, UNCHANGED <<todo, shown>>
  PROVE  Promise!Becomes(r, row.status, row.attempts)
<1>1. Seen[r] = SeenAs(rem[r])
  BY DEF Seen, SeenAs
<1>2. Seen' = [Seen EXCEPT ![r] = SeenAs(row)]
  BY SeenMoves
<1> QED BY <1>1, <1>2 DEF Promise!Becomes, SeenAs

\* Cancelling the reminders of a task cancels one at most.
LEMMA CancelPromised ==
  ASSUME Inductive, NEW t \in Tasks, rem' = Cancel(t), UNCHANGED <<todo, shown>>
  PROVE  Promise!Next \/ UNCHANGED Seen
<1> USE DEF Inductive
<1>1. CASE \A r \in Reminders : ~ (rem[r].task = t /\ rem[r].status \in Active)
  BY <1>1 DEF Cancel, Seen
<1>2. CASE \E r \in Reminders : rem[r].task = t /\ rem[r].status \in Active
  <2>1. PICK r \in Reminders : rem[r].task = t /\ rem[r].status \in Active
    BY <1>2
  <2> DEFINE row == Settled(rem[r], "cancelled", 0, 0)
  <2>2. \A s \in Reminders : rem[s].task = t /\ rem[s].status \in Active => s = r
    BY <2>1 DEF OneActivePerTask
  <2>3. rem' = [rem EXCEPT ![r] = row]
    BY <2>1, <2>2 DEF Cancel, TypeOK
  <2>4. row.status = "cancelled" /\ row.attempts = 0 /\ row.task = rem[r].task
    BY DEF Settled
  <2>5. Promise!Becomes(r, "cancelled", 0)
    BY <2>3, <2>4, RowBecomes
  <2>6. Promise!Active(r)
    BY <2>1 DEF Promise!Active, Seen, Active
  <2> QED BY <2>5, <2>6 DEF Promise!Next, Promise!Cancel
<1> QED BY <1>1, <1>2

\* What a confirmation found to set anew is a reminder of its task.
FoundInvariant ==
    flow.step = "store" /\ flow.found # None => rem[flow.found].task = flow.task

\* No reminder moves to another task, but when it is set.
LEMMA TasksStay ==
  ASSUME Inductive, Next, ~ StoreReminder, NEW r \in Reminders
  PROVE  rem'[r].task = rem[r].task
<1> USE DEF Inductive
<1>1. ASSUME NEW t \in Tasks, rem' = Cancel(t) PROVE rem'[r].task = rem[r].task
  BY <1>1, CancelRows
<1>2. ASSUME NEW s \in Reminders, NEW row, row.task = rem[s].task, rem' = [rem EXCEPT ![s] = row]
      PROVE  rem'[r].task = rem[r].task
  BY <1>2 DEF TypeOK
<1>3. CASE Tick \/ Crash
  BY <1>3 DEF Tick, Crash
<1>4. CASE RunFlow
  <2>1. CASE \/ \E t \in Tasks : FindStrategy(t, "dismiss", 0)
             \/ \E t \in Tasks, at \in Times : FindStrategy(t, "confirm", at)
             \/ WriteStrategy
             \/ FindReminder \/ FlowThrows
    BY <2>1 DEF FindStrategy, WriteStrategy, FindReminder, FlowThrows
  <2>2. CASE ConfirmUpdatesTask \/ FinishDismiss
    BY <2>2, <1>1 DEF ConfirmUpdatesTask, FinishDismiss, FlowInvariant
  <2> QED BY <1>4, <2>1, <2>2 DEF RunFlow
<1>5. ASSUME NEW t \in Tasks, EditTask(t) PROVE rem'[r].task = rem[r].task
  BY <1>1, <1>5 DEF EditTask, CompleteTask, DeleteTask, RestoreTask, GenerateStrategy, UpdateTask
<1>6. ASSUME NEW s \in Reminders, EditReminder(s) PROVE rem'[r].task = rem[r].task
  <2>1. CASE CancelReminder(s)
    BY <2>1, <1>2 DEF CancelReminder, Settled
  <2>2. CASE \E reset \in BOOLEAN : RetryReminder(s, reset)
    BY <2>2, <1>2 DEF RetryReminder, Settled
  <2> QED BY <1>6, <2>1, <2>2 DEF EditReminder
<1>7. ASSUME NEW c \in Cycles,
             \/ \E byTimer \in BOOLEAN : Start(c, byTimer)
             \/ Dispatch(c) \/ MarkThrows(c) \/ CycleThrows(c)
      PROVE  rem'[r].task = rem[r].task
  <2>1. CASE ClaimDue(c)
    BY <2>1 DEF ClaimDue, Claimed
  <2>2. CASE Mark(c)
    <3>1. cur[c] \in Reminders
      BY <2>2 DEF Mark, MarkDelivered, MarkFailed, CycleInvariant
    <3>2. CASE MarkDelivered(c)
      BY <1>2, <3>1, <3>2 DEF MarkDelivered, Settled
    <3>3. CASE MarkFailed(c)
      BY <1>2, <3>1, <3>3 DEF MarkFailed, Settled
    <3> QED BY <2>2, <3>2, <3>3 DEF Mark
  <2>3. CASE \/ \E byTimer \in BOOLEAN : Start(c, byTimer)
             \/ \E s \in todo[c], ok \in BOOLEAN : Deliver(c, s, ok)
             \/ ScheduleNextWake(c) \/ MarkThrows(c) \/ CycleThrows(c)
    BY <2>3 DEF Start, Deliver, ScheduleNextWake, MarkThrows, CycleThrows
  <2> QED BY <1>7, <2>1, <2>2, <2>3 DEF Dispatch
<1> QED BY <1>3, <1>4, <1>5, <1>6, <1>7 DEF Next

LEMMA FlowMoves ==
  ASSUME Next PROVE FindReminder \/ UNCHANGED flow \/ flow'.step # "store"
<1>1. CASE Tick \/ \E t \in Tasks : EditTask(t)
  BY <1>1 DEF Tick, EditTask, CompleteTask, DeleteTask, RestoreTask, GenerateStrategy, UpdateTask,
              user
<1>2. CASE RunFlow
  <2>1. CASE WriteStrategy
    BY <2>1 DEF WriteStrategy, NoFlow
  <2>2. CASE \/ \E t \in Tasks : FindStrategy(t, "dismiss", 0)
             \/ \E t \in Tasks, at \in Times : FindStrategy(t, "confirm", at)
    BY <2>2 DEF FindStrategy
  <2> QED BY <1>2, <2>1, <2>2 DEF RunFlow, ConfirmUpdatesTask, StoreReminder, FinishDismiss,
              FlowThrows, Cut, NoFlow
<1>3. CASE \E r \in Reminders : EditReminder(r)
  BY <1>3 DEF EditReminder, CancelReminder, RetryReminder, user
<1>4. CASE Crash
  BY <1>4 DEF Crash, Cut, NoFlow
<1>5. ASSUME NEW c \in Cycles,
             \/ \E byTimer \in BOOLEAN : Start(c, byTimer)
             \/ Dispatch(c) \/ MarkThrows(c) \/ CycleThrows(c)
      PROVE  UNCHANGED flow
  BY <1>5 DEF Start, Dispatch, ClaimDue, Mark, MarkDelivered, MarkFailed, ScheduleNextWake,
              Deliver, MarkThrows, CycleThrows, user
<1> QED BY <1>1, <1>2, <1>3, <1>4, <1>5 DEF Next

LEMMA FoundStep == ASSUME Inductive, FoundInvariant, [Next]_vars PROVE FoundInvariant'
<1>1. CASE UNCHANGED vars
  BY <1>1 DEF vars, user, FoundInvariant
<1>2. CASE FindReminder
  <2>1. UNCHANGED rem /\ flow'.task = flow.task
    BY <1>2 DEF FindReminder
  <2>2. flow'.found # None => rem[flow'.found].task = flow.task
    BY <1>2 DEF FindReminder, Reusable
  <2> QED BY <2>1, <2>2 DEF FoundInvariant
<1>3. CASE Next /\ ~ FindReminder
  <2> SUFFICES ASSUME flow'.step = "store", flow'.found # None
               PROVE  rem'[flow'.found].task = flow'.task
    BY DEF FoundInvariant
  <2>1. UNCHANGED flow
    BY <1>3, FlowMoves
  <2>2. flow.found \in Reminders
    BY <2>1 DEF Inductive, TypeOK, Flow
  <2>3. ~ StoreReminder
    BY <2>1 DEF StoreReminder, NoFlow
  <2> QED BY <1>3, <2>1, <2>2, <2>3, TasksStay DEF FoundInvariant
<1> QED BY <1>1, <1>2, <1>3

-----------------------------------------------------------------------------
(* One lemma per action that the user sees.                                *)

LEMMA StorePromised == ASSUME Inductive, FoundInvariant, StoreReminder PROVE Promise!Next
<1> USE DEF Inductive
<1>1. PICK r \in Reminders :
         /\ IF flow.found = None THEN rem[r].status = "none" ELSE r = flow.found
         /\ rem' = [rem EXCEPT ![r] = Set(flow.task, flow.at)]
         /\ shown' = shown \ {r}
  BY DEF StoreReminder
<1>2. flow.task \in Tasks /\ flow.step = "store" /\ UNCHANGED todo
  BY DEF StoreReminder, FlowInvariant, cycle
<1>3. Seen[r] = SeenAs(rem[r])
  BY DEF Seen, SeenAs
<1>4. Seen' = [Seen EXCEPT ![r] = [task |-> flow.task, status |-> "pending", tries |-> 0]]
  BY <1>1, SeenMoves DEF SeenAs, Set
<1>5. Seen[r].status = "none" \/ Seen[r].task = flow.task
  BY <1>1, <1>2, <1>3 DEF FoundInvariant, SeenAs
<1>6. \A s \in Reminders \ {r} : Promise!Active(s) => Seen[s].task # flow.task
  <2> SUFFICES ASSUME NEW s \in Reminders \ {r}, Promise!Active(s), Seen[s].task = flow.task
               PROVE  FALSE
    OBVIOUS
  <2>1. rem[s].task = flow.task /\ rem[s].status \in Active
    BY DEF Promise!Active, Seen, Active
  <2>2. s = flow.found
    BY <1>2, <2>1 DEF FlowInvariant
  <2> QED BY <1>1, <2>2, Facts
<1>7. Promise!Set(r, flow.task)
  BY <1>1, <1>2, <1>4, <1>5, <1>6 DEF Promise!Set
<1> QED BY <1>2, <1>7 DEF Promise!Next

LEMMA EditReminderPromised ==
  ASSUME Inductive, NEW r \in Reminders, EditReminder(r) PROVE Promise!Next
<1> USE DEF Inductive
<1>1. Seen[r] = SeenAs(rem[r])
  BY DEF Seen, SeenAs
<1>2. UNCHANGED <<todo, shown>>
  BY DEF EditReminder, CancelReminder, RetryReminder, cycle
<1>3. CASE CancelReminder(r)
  <2> DEFINE row == Settled(rem[r], "cancelled", 0, 0)
  <2>1. rem' = [rem EXCEPT ![r] = row] /\ rem[r].status \in Active
    BY <1>3 DEF CancelReminder
  <2>2. row.task = rem[r].task /\ row.status = "cancelled" /\ row.attempts = 0
    BY DEF Settled
  <2>3. Promise!Becomes(r, "cancelled", 0)
    BY <1>2, <2>1, <2>2, RowBecomes
  <2> QED BY <1>1, <2>1, <2>3 DEF Promise!Next, Promise!Cancel, Promise!Active, Active, SeenAs
<1>4. CASE \E reset \in BOOLEAN : RetryReminder(r, reset)
  <2>1. PICK reset \in BOOLEAN : RetryReminder(r, reset)
    BY <1>4
  <2> DEFINE n   == IF reset THEN 0 ELSE rem[r].attempts
             row == Settled(rem[r], "pending", n, now)
  <2>2. rem' = [rem EXCEPT ![r] = row] /\ rem[r].status = "failed"
    BY <2>1 DEF RetryReminder
  <2>3. row.task = rem[r].task /\ row.status = "pending" /\ row.attempts = n
    BY DEF Settled
  <2>4. Promise!Becomes(r, "pending", n)
    BY <1>2, <2>2, <2>3, RowBecomes
  <2>5. Promise!Retry(r)
    BY <1>1, <2>2, <2>4 DEF Promise!Retry, SeenAs
  <2> QED BY <2>5 DEF Promise!Next
<1> QED BY <1>3, <1>4 DEF EditReminder

LEMMA ClaimPromised ==
  ASSUME Inductive, NEW c \in Cycles, ClaimDue(c) PROVE Promise!Next
<1> USE DEF Inductive
<1> DEFINE R == {r \in Reminders : Claimable(r, began[c])}
<1>1. \A r \in R : Promise!Active(r) /\ Seen[r].tries < MaxAttempts
  BY DEF Claimable, Promise!Active, Seen, Active
<1>2. todo' = [todo EXCEPT ![c] = R] /\ UNCHANGED shown
  BY DEF ClaimDue
<1>3. Seen' = [r \in Reminders |->
                  IF r \in R THEN [task |-> Seen[r].task, status |-> "pending",
                                   tries |-> Seen[r].tries + 1]
                  ELSE Seen[r]]
  BY DEF ClaimDue, Claimed, Seen
<1>4. Promise!Claim(c, R)
  BY <1>1, <1>2, <1>3 DEF Promise!Claim
<1> QED BY <1>4 DEF Promise!Next

LEMMA DeliverPromised ==
  ASSUME Inductive, NEW c \in Cycles, NEW r \in todo[c], NEW ok \in BOOLEAN, Deliver(c, r, ok)
  PROVE  Promise!Next
<1>1. r \in Reminders
  BY DEF Inductive, TypeOK
<1>2. UNCHANGED Seen
  BY DEF Deliver, Seen
<1>3. Promise!Show(c, r)
  BY <1>2 DEF Deliver, Promise!Show
<1> QED BY <1>1, <1>3 DEF Promise!Next

LEMMA MarkPromised ==
  ASSUME Inductive, NEW c \in Cycles, Mark(c) PROVE Promise!Next \/ UNCHANGED Seen
<1> USE DEF Inductive
<1> DEFINE r == cur[c]
<1>1. r \in Reminders /\ UNCHANGED <<todo, shown>>
  BY DEF Mark, MarkDelivered, MarkFailed, CycleInvariant
<1>2. CASE ~ Holds(c, r)
  BY <1>2 DEF Mark, MarkDelivered, MarkFailed, Seen
<1>3. CASE Holds(c, r)
  <2>1. rem[r].status = "pending" /\ Seen[r] = SeenAs(rem[r])
    BY <1>1, <1>3, Facts DEF Holds, RowInvariant, Seen, SeenAs
  <2>2. CASE MarkDelivered(c)
    <3> DEFINE row == Settled(rem[r], "delivered", 0, 0)
    <3>1. rem' = [rem EXCEPT ![r] = row]
      BY <1>3, <2>2 DEF MarkDelivered
    <3>2. row.task = rem[r].task /\ row.status = "delivered" /\ row.attempts = 0
      BY DEF Settled
    <3>3. Promise!Becomes(r, "delivered", 0)
      BY <1>1, <3>1, <3>2, RowBecomes
    <3>4. r \in shown
      BY <1>3, <2>2 DEF MarkDelivered, CycleInvariant, Holds
    <3> QED BY <1>1, <2>1, <3>3, <3>4 DEF Promise!Next, Promise!Deliver, SeenAs
  <2>3. CASE MarkFailed(c)
    <3>1. PICK next : rem' = [rem EXCEPT ![r] = Settled(rem[r], "failed", rem[r].attempts, next)]
      BY <1>3, <2>3 DEF MarkFailed
    <3> DEFINE row == Settled(rem[r], "failed", rem[r].attempts, next)
    <3>2. row.task = rem[r].task /\ row.status = "failed" /\ row.attempts = rem[r].attempts
      BY DEF Settled
    <3>3. Promise!Becomes(r, "failed", rem[r].attempts)
      BY <1>1, <3>1, <3>2, RowBecomes
    <3> QED BY <1>1, <2>1, <3>3 DEF Promise!Next, Promise!Fail, SeenAs
  <2> QED BY <2>2, <2>3 DEF Mark
<1> QED BY <1>2, <1>3

LEMMA EndPromised ==
  ASSUME NEW C \in SUBSET Cycles, End(C), UNCHANGED <<rem, shown>> PROVE Promise!Next
<1>1. Promise!Stop(C)
  BY DEF End, Promise!Stop, Seen
<1> QED BY <1>1 DEF Promise!Next

LEMMA StepPromised ==
  ASSUME Inductive, FoundInvariant, [Next]_vars
  PROVE  Promise!Next \/ UNCHANGED <<Seen, todo, shown>>
<1>1. CASE UNCHANGED <<rem, todo, shown>>
  BY <1>1 DEF Seen
<1>2. CASE RunFlow
  <2>1. CASE \/ \E t \in Tasks : FindStrategy(t, "dismiss", 0)
             \/ \E t \in Tasks, at \in Times : FindStrategy(t, "confirm", at)
             \/ WriteStrategy
             \/ FindReminder \/ FlowThrows
    BY <1>1, <2>1 DEF FindStrategy, WriteStrategy, FindReminder, FlowThrows, cycle
  <2>2. CASE ConfirmUpdatesTask \/ FinishDismiss
    <3>1. flow.task \in Tasks /\ UNCHANGED <<todo, shown>> /\ (UNCHANGED rem \/ rem' = Cancel(flow.task))
      BY <2>2 DEF ConfirmUpdatesTask, FinishDismiss, Inductive, FlowInvariant, cycle
    <3> QED BY <1>1, <3>1, CancelPromised
  <2> QED BY <1>2, <2>1, <2>2, StorePromised DEF RunFlow
<1>3. ASSUME NEW t \in Tasks, EditTask(t) PROVE Promise!Next \/ UNCHANGED <<Seen, todo, shown>>
  <2>1. UNCHANGED <<todo, shown>> /\ (UNCHANGED rem \/ rem' = Cancel(t))
    BY <1>3 DEF EditTask, CompleteTask, DeleteTask, RestoreTask, GenerateStrategy, UpdateTask, cycle
  <2> QED BY <1>1, <2>1, CancelPromised
<1>4. ASSUME NEW c \in Cycles,
             \/ \E byTimer \in BOOLEAN : Start(c, byTimer)
             \/ Dispatch(c) \/ MarkThrows(c) \/ CycleThrows(c)
      PROVE  Promise!Next \/ UNCHANGED <<Seen, todo, shown>>
  <2>1. CASE (\E byTimer \in BOOLEAN : Start(c, byTimer)) \/ MarkThrows(c)
    BY <1>1, <2>1 DEF Start, MarkThrows
  <2>2. CASE ScheduleNextWake(c) \/ CycleThrows(c)
    BY <2>2, EndPromised DEF ScheduleNextWake, CycleThrows
  <2>3. CASE Mark(c)
    BY <2>3, MarkPromised DEF Mark, MarkDelivered, MarkFailed
  <2> QED BY <1>4, <2>1, <2>2, <2>3, ClaimPromised, DeliverPromised DEF Dispatch
<1>5. CASE Crash
  BY <1>5, EndPromised DEF Crash
<1>6. CASE Tick \/ UNCHANGED vars
  BY <1>1, <1>6 DEF Tick, vars, cycle
<1> QED BY <1>2, <1>3, <1>4, <1>5, <1>6, EditReminderPromised DEF Next

\* The store, its confirmations and its dispatch cycles keep ReminderPromise,
\* whatever fails and wherever the app is killed.
THEOREM Refinement == Spec => RemindersKeepTheirPromise
<1>1. Init => FoundInvariant
  BY DEF Init, FoundInvariant, NoFlow
<1>2. Init => Promise!Init
  BY DEF Init, Promise!Init, Promise!Unset, Seen, NoRow
<1>3. ASSUME Inductive, FoundInvariant, [Next]_vars
      PROVE  FoundInvariant' /\ [Promise!Next]_(Promise!vars)
  BY <1>3, FoundStep, StepPromised DEF Promise!vars
<1> QED BY <1>1, <1>2, <1>3, InductiveHolds, PTL
    DEF Spec, RemindersKeepTheirPromise, Promise!Spec

-----------------------------------------------------------------------------
(* Claims stay in the hands of their cycles as long as little goes wrong.  *)

Hands == HandsInvariant /\ ClaimsAreInHand

\* A step that leaves the cycles alone and claims nothing.
LEMMA HandsKept ==
  ASSUME Hands, UNCHANGED cycle, FewFaults' => FewFaults, faults # 0 => faults' # 0,
         \A r \in Reminders : rem'[r].token = None \/ rem'[r].token = rem[r].token
  PROVE  Hands'
<1>1. HandsInvariant'
  BY DEF Hands, HandsInvariant, cycle
<1>2. ClaimsAreInHand'
  BY Facts DEF Hands, ClaimsAreInHand, cycle
<1> QED BY <1>1, <1>2 DEF Hands

\* The user and the clock claim nothing.
LEMMA UserHands ==
  ASSUME Inductive, Hands,
         \/ Tick \/ RunFlow \/ UNCHANGED vars
         \/ \E t \in Tasks : EditTask(t)
         \/ \E r \in Reminders : EditReminder(r)
  PROVE  Hands'
<1>1. UNCHANGED cycle
  BY DEF Tick, RunFlow, FindStrategy, WriteStrategy, ConfirmUpdatesTask, FindReminder,
     StoreReminder, FinishDismiss, FlowThrows, EditTask, CompleteTask, UpdateTask, DeleteTask,
     RestoreTask, GenerateStrategy, EditReminder, CancelReminder, RetryReminder, vars
<1>2. UNCHANGED bounds \/ (faults' = faults + 1 /\ UNCHANGED crashes)
  BY DEF Tick, RunFlow, FindStrategy, WriteStrategy, ConfirmUpdatesTask, FindReminder,
     StoreReminder, FinishDismiss, FlowThrows, Fail, EditTask, CompleteTask, UpdateTask, DeleteTask,
     RestoreTask, GenerateStrategy, EditReminder, CancelReminder, RetryReminder, vars
<1>3. (FewFaults' => FewFaults) /\ (faults # 0 => faults' # 0)
  BY <1>2, Facts DEF FewFaults, bounds, Inductive, TypeOK
<1>4. \A r \in Reminders : rem'[r].token = None \/ rem'[r].token = rem[r].token
  <2>1. rem \in [Reminders -> Reminder] /\ \A r \in Reminders : Settled(rem[r], "cancelled", 0, 0).token = None
    BY DEF Settled, Inductive, TypeOK
  <2>2. ASSUME NEW t, rem' = Cancel(t)
        PROVE  \A r \in Reminders : rem'[r].token = None \/ rem'[r].token = rem[r].token
    BY <2>1, <2>2 DEF Cancel
  <2>3. CASE UNCHANGED rem
    BY <2>3
  <2>4. CASE StoreReminder
    BY <2>1, <2>4 DEF StoreReminder, Set
  <2>5. ASSUME NEW r \in Reminders, EditReminder(r)
        PROVE  \A s \in Reminders : rem'[s].token = None \/ rem'[s].token = rem[s].token
    BY <2>1, <2>5 DEF EditReminder, CancelReminder, RetryReminder, Settled
  <2>6. \/ UNCHANGED rem \/ StoreReminder \/ \E t \in Tasks \cup {None} : rem' = Cancel(t)
        \/ \E r \in Reminders : EditReminder(r)
    BY DEF Tick, RunFlow, FindStrategy, WriteStrategy, ConfirmUpdatesTask, FindReminder,
       FinishDismiss, FlowThrows, EditTask, CompleteTask, UpdateTask, DeleteTask,
       RestoreTask, GenerateStrategy, vars, Inductive, TypeOK, Flow
  <2> QED BY <2>2, <2>3, <2>4, <2>5, <2>6
<1> QED BY <1>1, <1>3, <1>4, HandsKept

\* A cycle starts and claims with empty hands, and what it claims it has to do.
LEMMA ClaimHands ==
  ASSUME Inductive, Hands, NEW c \in Cycles, ClaimDue(c) PROVE Hands'
<1>1. /\ pc' = [pc EXCEPT ![c] = "deliver"] /\ UNCHANGED <<cur, bounds>>
      /\ todo' = [todo EXCEPT ![c] = {r \in Reminders : Claimable(r, began[c])}]
      /\ todo[c] = {} /\ cur[c] = None
  BY DEF ClaimDue, Hands, HandsInvariant
<1>2. HandsInvariant'
  BY <1>1 DEF Hands, HandsInvariant, bounds, Inductive, TypeOK
<1>3. \A r \in Reminders :
         \/ rem'[r] = rem[r]
         \/ Claimable(r, began[c]) /\ rem'[r].token = c
  BY DEF ClaimDue, Claimed
<1>4. ClaimsAreInHand'
  BY <1>1, <1>3, Facts DEF Hands, ClaimsAreInHand, FewFaults, bounds, Inductive, TypeOK
<1> QED BY <1>2, <1>4 DEF Hands

\* The reminder it delivers moves from one hand to the other.
LEMMA DeliverHands ==
  ASSUME Inductive, Hands, NEW c \in Cycles, NEW r \in todo[c], NEW ok \in BOOLEAN,
         Deliver(c, r, ok)
  PROVE  Hands'
<1>1. /\ pc[c] = "deliver" /\ cur[c] = None
      /\ pc' = [pc EXCEPT ![c] = IF ok THEN "shown" ELSE "refused"]
      /\ todo' = [todo EXCEPT ![c] = @ \ {r}]
      /\ cur' = [cur EXCEPT ![c] = r]
      /\ UNCHANGED <<rem, bounds>>
  BY DEF Deliver, Hands, HandsInvariant
<1>2. HandsInvariant'
  BY <1>1 DEF Hands, HandsInvariant, bounds, Inductive, TypeOK
<1>3. ClaimsAreInHand'
  BY <1>1, Facts DEF Hands, ClaimsAreInHand, FewFaults, bounds, Inductive, TypeOK
<1> QED BY <1>2, <1>3 DEF Hands

\* A mark lets go of the claim, whoever held it before.
LEMMA MarkHands ==
  ASSUME Inductive, Hands, NEW c \in Cycles, Mark(c) PROVE Hands'
<1>1. Proceed(c) /\ UNCHANGED <<todo, bounds>> /\ cur[c] \in Reminders
  BY DEF Mark, MarkDelivered, MarkFailed, Inductive, CycleInvariant
<1>2. HandsInvariant'
  BY <1>1, ProceedFacts DEF Hands, HandsInvariant, bounds
<1>3. /\ \A r \in Reminders : rem'[r] = rem[r] \/ rem'[r].token = None
      /\ rem'[cur[c]].token # c
  <2>1. rem[cur[c]].token = c => Holds(c, cur[c])
    BY <1>1, Facts DEF Holds, Final, Inductive, RowInvariant
  <2>2. \/ UNCHANGED rem /\ ~ Holds(c, cur[c])
        \/ \E row : row.token = None /\ rem' = [rem EXCEPT ![cur[c]] = row]
    BY DEF Mark, MarkDelivered, MarkFailed, Settled
  <2> QED BY <1>1, <2>1, <2>2, Facts DEF Inductive, TypeOK
<1>4. ClaimsAreInHand'
  BY <1>1, <1>3, ProceedFacts, Facts DEF Hands, ClaimsAreInHand, FewFaults, bounds
<1> QED BY <1>2, <1>4 DEF Hands

\* A mark that throws is followed by one of the failure, and when that throws
\* too there are two faults.
LEMMA MarkThrowsHands ==
  ASSUME Inductive, Hands, NEW c \in Cycles, MarkThrows(c) PROVE Hands'
<1>1. /\ faults' = faults + 1 /\ faults \in Nat /\ UNCHANGED <<crashes, rem, todo>>
  BY Facts DEF MarkThrows, Fail, Inductive, TypeOK
<1>2. CASE pc[c] = "fail"
  <2>1. Proceed(c) /\ ~ FewFaults'
    BY <1>1, <1>2 DEF MarkThrows, Hands, HandsInvariant, FewFaults
  <2>2. HandsInvariant'
    BY <1>1, <2>1, ProceedFacts DEF Hands, HandsInvariant
  <2> QED BY <2>1, <2>2 DEF Hands, ClaimsAreInHand
<1>3. CASE pc[c] # "fail"
  <2>1. pc' = [pc EXCEPT ![c] = "fail"] /\ UNCHANGED cur
    BY <1>3 DEF MarkThrows
  <2>2. HandsInvariant'
    BY <1>1, <2>1 DEF Hands, HandsInvariant, Inductive, TypeOK
  <2>3. ClaimsAreInHand'
    BY <1>1, <2>1 DEF Hands, ClaimsAreInHand, FewFaults
  <2> QED BY <2>2, <2>3 DEF Hands
<1> QED BY <1>2, <1>3

\* A cycle ends with empty hands, unless it is killed.
LEMMA EndHands ==
  ASSUME Inductive, Hands, NEW c \in Cycles,
         ScheduleNextWake(c) \/ CycleThrows(c) \/ \E byTimer \in BOOLEAN : Start(c, byTimer)
  PROVE  Hands'
<1>1. /\ UNCHANGED rem /\ todo[c] = {} /\ cur[c] = None
      /\ UNCHANGED bounds \/ (faults' = faults + 1 /\ UNCHANGED crashes)
  BY DEF ScheduleNextWake, CycleThrows, Fail, Start, Hands, HandsInvariant
<1>2. (FewFaults' => FewFaults) /\ (faults # 0 => faults' # 0)
  BY <1>1, Facts DEF FewFaults, bounds, Inductive, TypeOK
<1>3. /\ pc'[c] \in {"idle", "claim"} /\ todo'[c] = {} /\ cur'[c] = None
      /\ \A d \in Cycles \ {c} : pc'[d] = pc[d] /\ todo'[d] = todo[d] /\ cur'[d] = cur[d]
  BY <1>1 DEF ScheduleNextWake, CycleThrows, End, Start, Inductive, TypeOK
<1>4. HandsInvariant'
  BY <1>2, <1>3 DEF Hands, HandsInvariant
<1>5. ClaimsAreInHand'
  BY <1>1, <1>2, <1>3 DEF Hands, ClaimsAreInHand
<1> QED BY <1>4, <1>5 DEF Hands

LEMMA CrashHands == ASSUME Inductive, Hands, Crash PROVE Hands'
<1>1. ~ FewFaults'
  BY Facts DEF Crash, FewFaults, Inductive, TypeOK
<1>2. HandsInvariant'
  BY DEF Crash, End, HandsInvariant
<1> QED BY <1>1, <1>2 DEF Hands, ClaimsAreInHand

LEMMA HandsStep == Inductive /\ Hands /\ [Next]_vars => Hands'
<1> SUFFICES ASSUME Inductive, Hands, [Next]_vars PROVE Hands'
  OBVIOUS
<1>1. CASE \/ Tick \/ RunFlow \/ UNCHANGED vars
           \/ \E t \in Tasks : EditTask(t)
           \/ \E r \in Reminders : EditReminder(r)
  BY <1>1, UserHands
<1>2. CASE Crash
  BY <1>2, CrashHands
<1>3. ASSUME NEW c \in Cycles,
             \/ \E byTimer \in BOOLEAN : Start(c, byTimer)
             \/ Dispatch(c) \/ MarkThrows(c) \/ CycleThrows(c)
      PROVE  Hands'
  BY <1>3, ClaimHands, DeliverHands, MarkHands, MarkThrowsHands, EndHands DEF Dispatch
<1> QED BY <1>1, <1>2, <1>3 DEF Next

\* A claim is lost, and its reminder may be given up without anyone knowing,
\* only when the app is killed or two transactions fail: one failure is always
\* made good by the mark that follows, or by the next cycle.
THEOREM ClaimIsInHand == Spec => []ClaimsAreInHand
<1>1. Init => Hands
  <2>1. NoRow.token = None
    BY DEF NoRow
  <2> QED BY <2>1, Facts DEF Init, Hands, HandsInvariant, ClaimsAreInHand
<1>2. Hands => ClaimsAreInHand
  BY DEF Hands
<1> QED BY <1>1, <1>2, HandsStep, InductiveHolds, PTL DEF Spec

=============================================================================
