--------------------------- MODULE AiRelayProofs ---------------------------
(***************************************************************************)
(* Proofs about AiRelay for any set of requests, any lease, ttl and number *)
(* of attempts, any number of worker processes, faults and late calls.     *)
(*                                                                         *)
(* The invariants of AiRelay follow from Inductive, which Init establishes *)
(* and every action preserves: one lemma per action, with one step per     *)
(* conjunct of Inductive.  Then every step of AiRelay is shown to be a     *)
(* step of RelayPromise or to leave its variables alone.                   *)
(***************************************************************************)
EXTENDS AiRelay, TLAPS

USE RelayAssumption

-----------------------------------------------------------------------------
(* Facts about the operators the actions are built from.                   *)

\* A call the worker makes is a call.
LEMMA NewCall ==
  ASSUME NEW op \in {"next", "submit", "fail"}, NEW job \in Jobs \cup {NoJob},
         NEW id \in AnswerIds \cup {NoAnswer}
  PROVE  [op |-> op, job |-> job, id |-> id, seen |-> "unread", live |-> TRUE] \in Call
BY DEF Call, Seen

\* Nobody waits for an abandoned call; otherwise it is the call it was.
LEMMA AbandonedCalls ==
  ASSUME calls \subseteq Call
  PROVE  /\ Abandoned \subseteq Call
         /\ \A c \in Abandoned : ~ c.live
         /\ \A c \in Abandoned : \E d \in calls : c.op = d.op /\ c.job = d.job /\ c.id = d.id
BY DEF Abandoned, Call

\* Send keeps the calls well formed when the worker waits for none and the
\* call is about something that happened.
LEMMA SendCalls ==
  ASSUME Inductive, pc # "waiting",
         NEW op \in {"next", "submit", "fail"}, NEW job \in Jobs \cup {NoJob},
         NEW id \in AnswerIds \cup {NoAnswer}, Send(op, job, id),
         op # "next" => job \in Jobs /\ asked[job] # "new",
         op = "submit" => id \in AnswerIds /\ [job |-> job, run |-> id[1], attempt |-> id[2]] \in executed,
         op = "fail" => job \in verdicts
  PROVE  calls' \subseteq Call /\ CallInvariant'
<1> DEFINE n == [op |-> op, job |-> job, id |-> id, seen |-> "unread", live |-> TRUE]
<1>1. n \in Call
  BY NewCall
<1>2. calls' = calls \cup {n} /\ pc' = "waiting"
  BY DEF Send
<1>3. UNCHANGED <<asked, executed, verdicts>>
  BY DEF Send, requester, history
<1>4. \A c \in calls : ~ c.live
  BY DEF Inductive, CallInvariant
<1>5. n.op = op /\ n.job = job /\ n.id = id /\ n.live
  OBVIOUS
<1> HIDE DEF n
<1>6. calls' \subseteq Call
  BY <1>1, <1>2 DEF Inductive, TypeOK
<1>7. CallInvariant'
  BY <1>2, <1>3, <1>4, <1>5 DEF Inductive, CallInvariant
<1> QED BY <1>6, <1>7

\* A terminal failure adds a verdict about the current job.
LEMMA NewVerdict ==
  ASSUME StoreFailure, Inductive, cur \in Jobs
  PROVE  /\ verdicts' \subseteq Jobs
         /\ verdicts \subseteq verdicts'
         /\ cur \in verdicts'
BY DEF StoreFailure, Inductive, TypeOK

\* The expiry sweep of next_for_target only expires pending requests.
LEMMA SweptStatus ==
  ASSUME Inductive
  PROVE  /\ Swept \in [Jobs -> Statuses]
         /\ \A j \in Jobs : Swept[j] # status[j] => Swept[j] = "expired" /\ status[j] \in Pending
BY DEF Inductive, TypeOK, Swept, Statuses

-----------------------------------------------------------------------------
(* One lemma per action.                                                   *)

\* Time passing changes neither a row nor the worker.
LEMMA TickStep == ASSUME Inductive, Tick PROVE Inductive'
<1>1. TypeOK'
  BY DEF Inductive, TypeOK, Tick, rows, requester, engine, history
<1>2. WorkerInvariant'
  BY DEF Inductive, WorkerInvariant, Tick, rows, requester, engine, history
<1>3. HistoryInvariant'
  BY DEF Inductive, HistoryInvariant, Tick, rows, requester, engine, history
<1>4. CallInvariant'
  BY DEF Inductive, CallInvariant, Tick, rows, requester, engine, history
<1>5. RequestInvariant'
  BY DEF Inductive, RequestInvariant, OneAnswer, AnswersWereExecuted, OncePerRun,
     FailedHasVerdict, CompletedHasAnswer, RequesterSawTheAnswer, Tick, rows, requester,
     engine, history
<1> QED BY <1>1, <1>2, <1>3, <1>4, <1>5 DEF Inductive

\* Revoking the compute node touches no job.
LEMMA RevokeStep == ASSUME Inductive, Revoke PROVE Inductive'
<1>1. TypeOK'
  BY DEF Inductive, TypeOK, Revoke, rows, requester, engine, history
<1>2. WorkerInvariant'
  BY DEF Inductive, WorkerInvariant, Revoke, rows, requester, engine, history
<1>3. HistoryInvariant'
  BY DEF Inductive, HistoryInvariant, Revoke, rows, requester, engine, history
<1>4. CallInvariant'
  BY DEF Inductive, CallInvariant, Revoke, rows, requester, engine, history
<1>5. RequestInvariant'
  BY DEF Inductive, RequestInvariant, OneAnswer, AnswersWereExecuted, OncePerRun,
     FailedHasVerdict, CompletedHasAnswer, RequesterSawTheAnswer, Revoke, rows, requester,
     engine, history
<1> QED BY <1>1, <1>2, <1>3, <1>4, <1>5 DEF Inductive

\* POST /jobs of a new request.
LEMMA AskStep == ASSUME Inductive, NEW j \in Jobs, Ask(j) PROVE Inductive'
<1>1. TypeOK'
  BY DEF Inductive, TypeOK, Ask, engine, history, Statuses, Asked
<1>2. WorkerInvariant'
  BY DEF Inductive, WorkerInvariant, Ask, engine, history
<1>3. HistoryInvariant'
  BY DEF Inductive, HistoryInvariant, Ask, engine, history
<1>4. CallInvariant'
  BY DEF Inductive, CallInvariant, Ask, engine, history
<1>5. RequestInvariant'
  BY DEF Inductive, RequestInvariant, OneAnswer, AnswersWereExecuted, OncePerRun,
     FailedHasVerdict, CompletedHasAnswer, RequesterSawTheAnswer, Ask, engine, history, TypeOK
<1> QED BY <1>1, <1>2, <1>3, <1>4, <1>5 DEF Inductive

\* plan() reads that its request failed or expired.
LEMMA ReadFailureStep == ASSUME Inductive, NEW j \in Jobs, ReadFailure(j) PROVE Inductive'
<1>1. TypeOK'
  BY DEF Inductive, TypeOK, ReadFailure, Decide, rows, engine, history, Asked
<1>2. WorkerInvariant'
  BY DEF Inductive, WorkerInvariant, ReadFailure, Decide, rows, engine, history
<1>3. HistoryInvariant'
  BY DEF Inductive, HistoryInvariant, ReadFailure, Decide, rows, engine, history
<1>4. CallInvariant'
  BY DEF Inductive, CallInvariant, ReadFailure, Decide, rows, engine, history
<1>5. RequestInvariant'
  BY DEF Inductive, RequestInvariant, OneAnswer, AnswersWereExecuted, OncePerRun,
     FailedHasVerdict, CompletedHasAnswer, RequesterSawTheAnswer, ReadFailure, Decide, rows,
     engine, history
<1> QED BY <1>1, <1>2, <1>3, <1>4, <1>5 DEF Inductive

\* plan() reads the result row.
LEMMA ReadAnswerStep == ASSUME Inductive, NEW j \in Jobs, ReadAnswer(j) PROVE Inductive'
<1>1. TypeOK'
  BY DEF Inductive, TypeOK, ReadAnswer, Decide, rows, engine, history, Asked, AnswerIds
<1>2. WorkerInvariant'
  BY DEF Inductive, WorkerInvariant, ReadAnswer, Decide, rows, engine, history
<1>3. HistoryInvariant'
  BY DEF Inductive, HistoryInvariant, ReadAnswer, Decide, rows, engine, history
<1>4. CallInvariant'
  BY DEF Inductive, CallInvariant, ReadAnswer, Decide, rows, engine, history
<1>5. RequestInvariant'
  BY DEF Inductive, RequestInvariant, OneAnswer, AnswersWereExecuted, OncePerRun,
     FailedHasVerdict, CompletedHasAnswer, RequesterSawTheAnswer, ReadAnswer, Decide, rows,
     engine, history, TypeOK
<1> QED BY <1>1, <1>2, <1>3, <1>4, <1>5 DEF Inductive

\* plan() reads a status that is no error.
LEMMA ReadStatusStep == ASSUME Inductive, NEW j \in Jobs, ReadStatus(j) PROVE Inductive'
<1>1. TypeOK'
  BY DEF Inductive, TypeOK, ReadStatus, Decide, rows, engine, history, Asked
<1>2. WorkerInvariant'
  BY DEF Inductive, WorkerInvariant, ReadStatus, Decide, rows, engine, history
<1>3. HistoryInvariant'
  BY DEF Inductive, HistoryInvariant, ReadStatus, Decide, rows, engine, history
<1>4. CallInvariant'
  BY DEF Inductive, CallInvariant, ReadStatus, Decide, rows, engine, history
<1>5. RequestInvariant'
  BY DEF Inductive, RequestInvariant, OneAnswer, AnswersWereExecuted, OncePerRun,
     FailedHasVerdict, CompletedHasAnswer, RequesterSawTheAnswer, ReadStatus, Decide, rows, engine,
     history
<1> QED BY <1>1, <1>2, <1>3, <1>4, <1>5 DEF Inductive

\* plan() finds no result.
LEMMA ReadNothingStep == ASSUME Inductive, NEW j \in Jobs, ReadNothing(j) PROVE Inductive'
<1>1. TypeOK'
  BY DEF Inductive, TypeOK, ReadNothing, Decide, rows, engine, history, Asked
<1>2. WorkerInvariant'
  BY DEF Inductive, WorkerInvariant, ReadNothing, Decide, rows, engine, history
<1>3. HistoryInvariant'
  BY DEF Inductive, HistoryInvariant, ReadNothing, Decide, rows, engine, history
<1>4. CallInvariant'
  BY DEF Inductive, CallInvariant, ReadNothing, Decide, rows, engine, history
<1>5. RequestInvariant'
  BY DEF Inductive, RequestInvariant, OneAnswer, AnswersWereExecuted, OncePerRun,
     FailedHasVerdict, CompletedHasAnswer, RequesterSawTheAnswer, ReadNothing, Decide, rows, engine,
     history
<1> QED BY <1>1, <1>2, <1>3, <1>4, <1>5 DEF Inductive

\* plan() passes its deadline.
LEMMA GiveUpStep == ASSUME Inductive, NEW j \in Jobs, GiveUp(j) PROVE Inductive'
<1>1. TypeOK'
  BY DEF Inductive, TypeOK, GiveUp, Decide, rows, engine, history, Asked
<1>2. WorkerInvariant'
  BY DEF Inductive, WorkerInvariant, GiveUp, Decide, rows, engine, history
<1>3. HistoryInvariant'
  BY DEF Inductive, HistoryInvariant, GiveUp, Decide, rows, engine, history
<1>4. CallInvariant'
  BY DEF Inductive, CallInvariant, GiveUp, Decide, rows, engine, history
<1>5. RequestInvariant'
  BY DEF Inductive, RequestInvariant, OneAnswer, AnswersWereExecuted, OncePerRun,
     FailedHasVerdict, CompletedHasAnswer, RequesterSawTheAnswer, GiveUp, Decide, rows, engine,
     history
<1> QED BY <1>1, <1>2, <1>3, <1>4, <1>5 DEF Inductive

\* plan() ends on an error of its own.
LEMMA AbandonStep == ASSUME Inductive, NEW j \in Jobs, Abandon(j) PROVE Inductive'
<1>1. TypeOK'
  BY DEF Inductive, TypeOK, Abandon, Decide, rows, engine, history, Asked
<1>2. WorkerInvariant'
  BY DEF Inductive, WorkerInvariant, Abandon, Decide, rows, engine, history
<1>3. HistoryInvariant'
  BY DEF Inductive, HistoryInvariant, Abandon, Decide, rows, engine, history
<1>4. CallInvariant'
  BY DEF Inductive, CallInvariant, Abandon, Decide, rows, engine, history
<1>5. RequestInvariant'
  BY DEF Inductive, RequestInvariant, OneAnswer, AnswersWereExecuted, OncePerRun,
     FailedHasVerdict, CompletedHasAnswer, RequesterSawTheAnswer, Abandon, Decide, rows,
     engine, history
<1> QED BY <1>1, <1>2, <1>3, <1>4, <1>5 DEF Inductive

\* The worker asks for the next job.
LEMMA PollStep == ASSUME Inductive, Poll PROVE Inductive'
<1>0. calls' \subseteq Call /\ CallInvariant'
  BY SendCalls DEF Poll
<1>1. TypeOK'
  BY <1>0 DEF Inductive, TypeOK, Poll, Send, rows, requester, engine, history, Working
<1>2. WorkerInvariant'
  BY DEF Inductive, WorkerInvariant, Poll, Send, rows, requester, engine, history
<1>3. HistoryInvariant'
  BY DEF Inductive, HistoryInvariant, Poll, Send, rows, requester, engine, history
<1>4. RequestInvariant'
  BY DEF Inductive, RequestInvariant, OneAnswer, AnswersWereExecuted, OncePerRun,
     FailedHasVerdict, CompletedHasAnswer, RequesterSawTheAnswer, Poll, Send, rows, requester,
     engine, history
<1> QED BY <1>0, <1>1, <1>2, <1>3, <1>4 DEF Inductive

\* The engine answers from the outcomes it keeps.
LEMMA DeduplicateStep == ASSUME Inductive, Deduplicate PROVE Inductive'
<1>1. TypeOK'
  BY DEF Inductive, TypeOK, Deduplicate, rows, requester, engine, history, Working
<1>2. WorkerInvariant'
  BY DEF Inductive, WorkerInvariant, Deduplicate, rows, requester, engine, history, TypeOK,
     Outcomes
<1>3. HistoryInvariant'
  BY DEF Inductive, HistoryInvariant, Deduplicate, rows, requester, engine, history
<1>4. CallInvariant'
  BY DEF Inductive, CallInvariant, Deduplicate, rows, requester, engine, history
<1>5. RequestInvariant'
  BY DEF Inductive, RequestInvariant, OneAnswer, AnswersWereExecuted, OncePerRun,
     FailedHasVerdict, CompletedHasAnswer, RequesterSawTheAnswer, Deduplicate, rows, requester,
     engine, history
<1> QED BY <1>1, <1>2, <1>3, <1>4, <1>5 DEF Inductive

\* The engine finds the job expired.
LEMMA ExpireLocallyStep == ASSUME Inductive, ExpireLocally PROVE Inductive'
<1>1. TypeOK'
  BY DEF Inductive, TypeOK, ExpireLocally, rows, requester, history, Working, Outcomes
<1>2. WorkerInvariant'
  BY DEF Inductive, WorkerInvariant, ExpireLocally, rows, requester, history
<1>3. HistoryInvariant'
  BY DEF Inductive, HistoryInvariant, ExpireLocally, rows, requester, history
<1>4. CallInvariant'
  BY DEF Inductive, CallInvariant, ExpireLocally, rows, requester, history
<1>5. RequestInvariant'
  BY DEF Inductive, RequestInvariant, OneAnswer, AnswersWereExecuted, OncePerRun,
     FailedHasVerdict, CompletedHasAnswer, RequesterSawTheAnswer, ExpireLocally, rows,
     requester, history
<1> QED BY <1>1, <1>2, <1>3, <1>4, <1>5 DEF Inductive

\* The engine counts an attempt: one was left, because the job had no outcome.
LEMMA StartAttemptStep == ASSUME Inductive, StartAttempt PROVE Inductive'
<1>1. TypeOK'
  BY DEF Inductive, TypeOK, StartAttempt, rows, requester, history, WorkerInvariant, Working
<1>2. WorkerInvariant'
  BY DEF Inductive, WorkerInvariant, StartAttempt, rows, requester, history, TypeOK
<1>3. HistoryInvariant'
  BY DEF Inductive, HistoryInvariant, StartAttempt, rows, requester, history
<1>4. CallInvariant'
  BY DEF Inductive, CallInvariant, StartAttempt, rows, requester, history
<1>5. RequestInvariant'
  BY DEF Inductive, RequestInvariant, OneAnswer, AnswersWereExecuted, OncePerRun,
     FailedHasVerdict, CompletedHasAnswer, RequesterSawTheAnswer, StartAttempt, rows,
     requester, history
<1> QED BY <1>1, <1>2, <1>3, <1>4, <1>5 DEF Inductive

\* A terminal failure of an attempt becomes the outcome.
LEMMA FailAttemptStep == ASSUME Inductive, NEW cause \in Causes, FailAttempt(cause) PROVE Inductive'
<1>0. /\ cur \in Jobs
      /\ verdicts' \subseteq Jobs
      /\ verdicts \subseteq verdicts'
      /\ cur \in verdicts'
  BY NewVerdict DEF Inductive, WorkerInvariant, FailAttempt
<1>1. TypeOK'
  BY <1>0 DEF Inductive, TypeOK, FailAttempt, StoreFailure, rows, requester, Working, Outcomes
<1>2. WorkerInvariant'
  BY <1>0 DEF Inductive, TypeOK, WorkerInvariant, FailAttempt, StoreFailure, requester
<1>3. HistoryInvariant'
  BY DEF Inductive, HistoryInvariant, FailAttempt, StoreFailure, rows, requester
<1>4. CallInvariant'
  BY DEF Inductive, CallInvariant, FailAttempt, StoreFailure, rows, requester
<1>5. RequestInvariant'
  BY DEF Inductive, RequestInvariant, OneAnswer, AnswersWereExecuted, OncePerRun,
     FailedHasVerdict, CompletedHasAnswer, RequesterSawTheAnswer, FailAttempt, StoreFailure,
     rows, requester
<1> QED BY <1>1, <1>2, <1>3, <1>4, <1>5 DEF Inductive

\* A retryable failure leaves an attempt, which keeps the attempts bounded.
LEMMA LeaveForRetryStep == ASSUME Inductive, NEW cause \in Causes, LeaveForRetry(cause) PROVE Inductive'
<1>1. TypeOK'
  BY DEF Inductive, TypeOK, LeaveForRetry, Retryable, rows, requester, engine, history, Working
<1>2. WorkerInvariant'
  BY DEF Inductive, WorkerInvariant, LeaveForRetry, Retryable, rows, requester, engine, history
<1>3. HistoryInvariant'
  BY DEF Inductive, HistoryInvariant, LeaveForRetry, Retryable, rows, requester, engine,
     history
<1>4. CallInvariant'
  BY DEF Inductive, CallInvariant, LeaveForRetry, Retryable, rows, requester, engine, history
<1>5. RequestInvariant'
  BY DEF Inductive, RequestInvariant, OneAnswer, AnswersWereExecuted, OncePerRun,
     FailedHasVerdict, CompletedHasAnswer, RequesterSawTheAnswer, LeaveForRetry, Retryable,
     rows, requester, engine, history
<1> QED BY <1>1, <1>2, <1>3, <1>4, <1>5 DEF Inductive

\* The executor succeeds: no earlier execution of this process did, or the job
\* would have an outcome and no attempt would run.
LEMMA ExecuteStep == ASSUME Inductive, Execute PROVE Inductive'
<1>1. TypeOK'
  BY DEF Inductive, TypeOK, Execute, rows, requester, engine, WorkerInvariant, Working,
     Attempts
<1>2. WorkerInvariant'
  BY DEF Inductive, WorkerInvariant, Execute, rows, requester, engine
<1>3. HistoryInvariant'
  BY DEF Inductive, HistoryInvariant, Execute, rows, requester, engine, TypeOK, Runs
<1>4. CallInvariant'
  BY DEF Inductive, CallInvariant, Execute, rows, requester, engine
<1>5. RequestInvariant'
  BY DEF Inductive, RequestInvariant, OneAnswer, AnswersWereExecuted, OncePerRun,
     FailedHasVerdict, CompletedHasAnswer, RequesterSawTheAnswer, Execute, rows, requester,
     engine, WorkerInvariant, HistoryInvariant
<1> QED BY <1>1, <1>2, <1>3, <1>4, <1>5 DEF Inductive

\* The sealed result becomes the outcome.
LEMMA SealResultStep == ASSUME Inductive, SealResult PROVE Inductive'
<1>1. TypeOK'
  BY DEF Inductive, TypeOK, SealResult, rows, requester, history, Working, Outcomes
<1>2. WorkerInvariant'
  BY DEF Inductive, WorkerInvariant, SealResult, rows, requester, history, TypeOK
<1>3. HistoryInvariant'
  BY DEF Inductive, HistoryInvariant, SealResult, rows, requester, history, TypeOK
<1>4. CallInvariant'
  BY DEF Inductive, CallInvariant, SealResult, rows, requester, history
<1>5. RequestInvariant'
  BY DEF Inductive, RequestInvariant, OneAnswer, AnswersWereExecuted, OncePerRun,
     FailedHasVerdict, CompletedHasAnswer, RequesterSawTheAnswer, SealResult, rows, requester,
     history
<1> QED BY <1>1, <1>2, <1>3, <1>4, <1>5 DEF Inductive

\* A failure to seal the result is terminal and becomes the outcome.
LEMMA FailSealStep == ASSUME Inductive, FailSeal PROVE Inductive'
<1>0. /\ cur \in Jobs
      /\ verdicts' \subseteq Jobs
      /\ verdicts \subseteq verdicts'
      /\ cur \in verdicts'
  BY NewVerdict DEF Inductive, WorkerInvariant, FailSeal
<1>1. TypeOK'
  BY <1>0 DEF Inductive, TypeOK, FailSeal, StoreFailure, rows, requester, Working, Outcomes
<1>2. WorkerInvariant'
  BY <1>0 DEF Inductive, TypeOK, WorkerInvariant, FailSeal, StoreFailure, requester
<1>3. HistoryInvariant'
  BY DEF Inductive, HistoryInvariant, FailSeal, StoreFailure, rows, requester, TypeOK
<1>4. CallInvariant'
  BY DEF Inductive, CallInvariant, FailSeal, StoreFailure, rows, requester
<1>5. RequestInvariant'
  BY DEF Inductive, RequestInvariant, OneAnswer, AnswersWereExecuted, OncePerRun,
     FailedHasVerdict, CompletedHasAnswer, RequesterSawTheAnswer, FailSeal, StoreFailure, rows,
     requester
<1> QED BY <1>1, <1>2, <1>3, <1>4, <1>5 DEF Inductive

\* The worker submits the result or the failure of its outcome.
LEMMA ReportStep == ASSUME Inductive, Report PROVE Inductive'
<1>0. calls' \subseteq Call /\ CallInvariant'
  <2>1. cur \in Jobs /\ asked[cur] # "new" /\ pc # "waiting"
    BY DEF Inductive, WorkerInvariant, Report
  <2>2. CASE outcome[cur] = "succeeded"
    <3>1. <<run, tries[cur]>> \in AnswerIds
      BY <2>1, <2>2 DEF Inductive, TypeOK, WorkerInvariant, AnswerIds, Attempts
    <3>2. [job |-> cur, run |-> run, attempt |-> tries[cur]] \in executed
      BY <2>1, <2>2 DEF Inductive, WorkerInvariant
    <3> QED BY <2>1, <2>2, <3>1, <3>2, SendCalls DEF Report
  <2>3. CASE outcome[cur] # "succeeded"
    <3>1. cur \in verdicts
      BY <2>1, <2>3 DEF Inductive, WorkerInvariant, Report
    <3> QED BY <2>1, <2>3, <3>1, SendCalls DEF Report
  <2> QED BY <2>2, <2>3
<1>1. TypeOK'
  BY <1>0 DEF Inductive, TypeOK, Report, Send, rows, requester, engine, history, Working
<1>2. WorkerInvariant'
  BY DEF Inductive, WorkerInvariant, Report, Send, rows, requester, engine, history
<1>3. HistoryInvariant'
  BY DEF Inductive, HistoryInvariant, Report, Send, rows, requester, engine, history
<1>4. RequestInvariant'
  BY DEF Inductive, RequestInvariant, OneAnswer, AnswersWereExecuted, OncePerRun,
     FailedHasVerdict, CompletedHasAnswer, RequesterSawTheAnswer, Report, Send, rows,
     requester, engine, history
<1> QED BY <1>0, <1>1, <1>2, <1>3, <1>4 DEF Inductive

\* The worker dies; its calls stay.
LEMMA CrashStep == ASSUME Inductive, Crash PROVE Inductive'
<1>0. /\ calls' \subseteq Call
      /\ \A c \in calls' : ~ c.live
      /\ \A c \in calls' : \E d \in calls : c.op = d.op /\ c.job = d.job /\ c.id = d.id
  BY AbandonedCalls DEF Inductive, TypeOK, Crash
<1>1. TypeOK'
  BY <1>0 DEF Inductive, TypeOK, Crash, rows, requester, engine, history, Working
<1>2. WorkerInvariant'
  BY DEF Inductive, WorkerInvariant, Crash, Abandoned, rows, requester, engine, history
<1>3. HistoryInvariant'
  BY DEF Inductive, HistoryInvariant, Crash, Abandoned, rows, requester, engine, history
<1>4. CallInvariant'
  BY <1>0 DEF Inductive, CallInvariant, Crash, requester, history
<1>5. RequestInvariant'
  BY DEF Inductive, RequestInvariant, OneAnswer, AnswersWereExecuted, OncePerRun,
     FailedHasVerdict, CompletedHasAnswer, RequesterSawTheAnswer, Crash, Abandoned, rows,
     requester, engine, history
<1> QED BY <1>1, <1>2, <1>3, <1>4, <1>5 DEF Inductive

\* A new process: no execution of it exists yet.
LEMMA RestartStep == ASSUME Inductive, Restart PROVE Inductive'
<1>1. TypeOK'
  BY DEF Inductive, TypeOK, Restart, rows, requester, history, Working, Outcomes, Runs
<1>2. WorkerInvariant'
  BY DEF Inductive, WorkerInvariant, Restart, rows, requester, history
<1>3. HistoryInvariant'
  BY DEF Inductive, HistoryInvariant, Restart, rows, requester, history, TypeOK, Runs
<1>4. CallInvariant'
  BY DEF Inductive, CallInvariant, Restart, rows, requester, history
<1>5. RequestInvariant'
  BY DEF Inductive, RequestInvariant, OneAnswer, AnswersWereExecuted, OncePerRun,
     FailedHasVerdict, CompletedHasAnswer, RequesterSawTheAnswer, Restart, rows, requester,
     history
<1> QED BY <1>1, <1>2, <1>3, <1>4, <1>5 DEF Inductive

\* A 5xx: the worker goes on, its call stays.
LEMMA ServerErrorStep == ASSUME Inductive, ServerError PROVE Inductive'
<1>0. /\ calls' \subseteq Call
      /\ \A c \in calls' : ~ c.live
      /\ \A c \in calls' : \E d \in calls : c.op = d.op /\ c.job = d.job /\ c.id = d.id
  BY AbandonedCalls DEF Inductive, TypeOK, ServerError
<1>1. TypeOK'
  BY <1>0 DEF Inductive, TypeOK, ServerError, rows, requester, engine, history, Working
<1>2. WorkerInvariant'
  BY DEF Inductive, WorkerInvariant, ServerError, Abandoned, rows, requester, engine, history
<1>3. HistoryInvariant'
  BY DEF Inductive, HistoryInvariant, ServerError, Abandoned, rows, requester, engine, history
<1>4. CallInvariant'
  BY <1>0 DEF Inductive, CallInvariant, ServerError, requester, history
<1>5. RequestInvariant'
  BY DEF Inductive, RequestInvariant, OneAnswer, AnswersWereExecuted, OncePerRun,
     FailedHasVerdict, CompletedHasAnswer, RequesterSawTheAnswer, ServerError, Abandoned, rows,
     requester, engine, history
<1> QED BY <1>1, <1>2, <1>3, <1>4, <1>5 DEF Inductive

\* A call nobody waits for disappears.
LEMMA LoseStep == ASSUME Inductive, NEW c \in calls, Lose(c) PROVE Inductive'
<1>1. TypeOK'
  BY DEF Inductive, TypeOK, Lose, rows, requester, engine, history
<1>2. WorkerInvariant'
  BY DEF Inductive, WorkerInvariant, Lose, rows, requester, engine, history
<1>3. HistoryInvariant'
  BY DEF Inductive, HistoryInvariant, Lose, rows, requester, engine, history
<1>4. CallInvariant'
  BY DEF Inductive, CallInvariant, Lose, rows, requester, engine, history
<1>5. RequestInvariant'
  BY DEF Inductive, RequestInvariant, OneAnswer, AnswersWereExecuted, OncePerRun,
     FailedHasVerdict, CompletedHasAnswer, RequesterSawTheAnswer, Lose, rows, requester,
     engine, history
<1> QED BY <1>1, <1>2, <1>3, <1>4, <1>5 DEF Inductive

\* The reads of a handler.
LEMMA AdmitStep == ASSUME Inductive, NEW c \in calls, Admit(c) PROVE Inductive'
<1>1. TypeOK'
  BY DEF Inductive, TypeOK, Admit, Snapshot, HasId, Refuse, Answered, rows, requester, engine,
     history, Working, Call, Seen, Statuses, CallInvariant
<1>2. WorkerInvariant'
  BY DEF Inductive, WorkerInvariant, Admit, Snapshot, HasId, Refuse, Answered, rows, requester,
     engine, history
<1>3. HistoryInvariant'
  BY DEF Inductive, HistoryInvariant, Admit, Snapshot, HasId, Refuse, Answered, rows,
     requester, engine, history
<1>4. CallInvariant'
  BY DEF Inductive, CallInvariant, Admit, Snapshot, HasId, Refuse, Answered, rows, requester,
     engine, history, TypeOK, Call
<1>5. RequestInvariant'
  BY DEF Inductive, RequestInvariant, OneAnswer, AnswersWereExecuted, OncePerRun,
     FailedHasVerdict, CompletedHasAnswer, RequesterSawTheAnswer, Admit, Snapshot, HasId,
     Refuse, Answered, rows, requester, engine, history
<1> QED BY <1>1, <1>2, <1>3, <1>4, <1>5 DEF Inductive

\* Expiry and lease: only pending requests change.
LEMMA HandleNextStep == ASSUME Inductive, NEW c \in calls, HandleNext(c) PROVE Inductive'
<1>0. /\ status' \in [Jobs -> Statuses]
      /\ nextAttemptAt' \in [Jobs -> Nat]
      /\ \A j \in Jobs : status'[j] # status[j] =>
            status[j] \in Pending /\ status'[j] \in {"expired", "delivered"}
  BY SweptStatus DEF Inductive, TypeOK, HandleNext, Deliverable, Statuses, Pending
<1>1. TypeOK'
  BY <1>0 DEF Inductive, TypeOK, HandleNext, Answered, requester, engine, history, Working
<1>2. WorkerInvariant'
  BY DEF Inductive, WorkerInvariant, HandleNext, Answered, Swept, Deliverable,
     requester, engine, history, TypeOK, CallInvariant, RequestInvariant, Pending
<1>3. HistoryInvariant'
  BY DEF Inductive, HistoryInvariant, HandleNext, Answered, Swept, Deliverable,
     requester, engine, history, CallInvariant
<1>4. CallInvariant'
  BY DEF Inductive, CallInvariant, HandleNext, Answered, Swept, Deliverable, requester,
     engine, history
<1>5. RequestInvariant'
  BY <1>0 DEF Inductive, RequestInvariant, OneAnswer, AnswersWereExecuted, OncePerRun,
     FailedHasVerdict, CompletedHasAnswer, RequesterSawTheAnswer, HandleNext, requester,
     history, Pending
<1> QED BY <1>1, <1>2, <1>3, <1>4, <1>5 DEF Inductive

\* A result is stored only when its request has none.
LEMMA HandleSubmitStep == ASSUME Inductive, NEW c \in calls, HandleSubmit(c) PROVE Inductive'
<1>0. /\ c.job \in Jobs /\ c.id \in AnswerIds /\ asked[c.job] # "new"
      /\ [job |-> c.job, run |-> c.id[1], attempt |-> c.id[2]] \in executed
      /\ [job |-> c.job, id |-> c.id] \in [job : Jobs, id : AnswerIds]
  BY DEF Inductive, CallInvariant, HandleSubmit, Taken
<1>1. TypeOK'
  BY <1>0 DEF Inductive, TypeOK, HandleSubmit, Taken, Answered, Refuse, requester, engine, history,
     Working, Statuses
<1>2. WorkerInvariant'
  BY DEF Inductive, WorkerInvariant, HandleSubmit, Taken, Answered, Refuse, requester, engine,
     history, CallInvariant
<1>3. HistoryInvariant'
  BY DEF Inductive, HistoryInvariant, HandleSubmit, Taken, Answered, Refuse, requester, engine,
     history, CallInvariant
<1>4. CallInvariant'
  BY DEF Inductive, CallInvariant, HandleSubmit, Taken, Answered, Refuse, requester, engine, history
<1>5. RequestInvariant'
  <2>1. CASE UNCHANGED <<status, answers>>
    BY <2>1 DEF Inductive, RequestInvariant, OneAnswer, AnswersWereExecuted, OncePerRun,
       FailedHasVerdict, CompletedHasAnswer, RequesterSawTheAnswer, HandleSubmit, Taken, requester,
       history
  <2>2. CASE /\ \A a \in answers : a.job # c.job
             /\ answers' = answers \cup {[job |-> c.job, id |-> c.id]}
             /\ status' = IF c.seen = "completed" THEN status
                          ELSE [status EXCEPT ![c.job] = "completed"]
    <3> DEFINE r == [job |-> c.job, id |-> c.id]
    <3>1. r.job = c.job /\ r.id = c.id /\ answers' = answers \cup {r}
      BY <2>2
    <3>2. UNCHANGED <<asked, got, executed, verdicts>>
      BY DEF HandleSubmit, Taken, requester, history
    <3>3. \A j \in Jobs : status'[j] = status[j] \/ (j = c.job /\ status'[j] = "completed")
      BY <2>2 DEF Inductive, TypeOK
    <3> HIDE DEF r
    <3>4. (OneAnswer /\ AnswersWereExecuted)'
      BY <1>0, <2>2, <3>1, <3>2 DEF Inductive, RequestInvariant, OneAnswer, AnswersWereExecuted
    <3>5. (OncePerRun /\ FailedHasVerdict)'
      BY <3>2, <3>3 DEF Inductive, RequestInvariant, OncePerRun, FailedHasVerdict
    <3>6. CompletedHasAnswer'
      BY <3>1, <3>3 DEF Inductive, RequestInvariant, CompletedHasAnswer
    <3>7. RequesterSawTheAnswer'
      BY <3>1, <3>2 DEF Inductive, RequestInvariant, RequesterSawTheAnswer
    <3>8. \A j \in Jobs : status'[j] # "none" => asked'[j] # "new"
      BY <1>0, <3>2, <3>3 DEF Inductive, RequestInvariant
    <3> QED BY <3>4, <3>5, <3>6, <3>7, <3>8 DEF RequestInvariant
  <2> QED BY <2>1, <2>2 DEF HandleSubmit, Taken
<1> QED BY <1>1, <1>2, <1>3, <1>4, <1>5 DEF Inductive

\* A failure is stored for a job whose engine has called it terminal.
LEMMA HandleFailStep == ASSUME Inductive, NEW c \in calls, HandleFail(c) PROVE Inductive'
<1>1. TypeOK'
  BY DEF Inductive, TypeOK, HandleFail, Answered, Refuse, requester, engine, history, Statuses,
     Working
<1>2. WorkerInvariant'
  BY DEF Inductive, WorkerInvariant, HandleFail, Answered, Refuse, requester, engine, history,
     CallInvariant
<1>3. HistoryInvariant'
  BY DEF Inductive, HistoryInvariant, HandleFail, Answered, Refuse, requester, engine, history,
     CallInvariant
<1>4. CallInvariant'
  BY DEF Inductive, CallInvariant, HandleFail, Answered, Refuse, requester, engine, history
<1>5. RequestInvariant'
  BY DEF Inductive, RequestInvariant, OneAnswer, AnswersWereExecuted, OncePerRun,
     FailedHasVerdict, CompletedHasAnswer, RequesterSawTheAnswer, HandleFail, Answered, Refuse,
     requester, engine, history, TypeOK, CallInvariant
<1> QED BY <1>1, <1>2, <1>3, <1>4, <1>5 DEF Inductive

-----------------------------------------------------------------------------
(* The inductive invariant and what follows from it.                       *)

LEMMA InitialInductive == Init => Inductive
<1> SUFFICES ASSUME Init PROVE Inductive
  OBVIOUS
<1>1. TypeOK
  BY DEF Init, TypeOK, Runs, Statuses, Asked, Working, Outcomes
<1>2. WorkerInvariant /\ HistoryInvariant /\ CallInvariant
  BY DEF Init, WorkerInvariant, HistoryInvariant, CallInvariant
<1>3. RequestInvariant
  BY DEF Init, RequestInvariant, OneAnswer, AnswersWereExecuted, OncePerRun, FailedHasVerdict,
     CompletedHasAnswer, RequesterSawTheAnswer
<1> QED BY <1>1, <1>2, <1>3 DEF Inductive

LEMMA StutterStep == ASSUME Inductive, UNCHANGED vars PROVE Inductive'
<1>1. TypeOK' /\ WorkerInvariant' /\ HistoryInvariant' /\ CallInvariant'
  BY DEF Inductive, TypeOK, WorkerInvariant, HistoryInvariant, CallInvariant, vars, rows,
     requester, engine, history
<1>2. RequestInvariant'
  BY DEF Inductive, RequestInvariant, OneAnswer, AnswersWereExecuted, OncePerRun,
     FailedHasVerdict, CompletedHasAnswer, RequesterSawTheAnswer, vars, rows, requester, engine,
     history
<1> QED BY <1>1, <1>2 DEF Inductive

LEMMA InductiveStep == Inductive /\ [Next]_vars => Inductive'
<1> SUFFICES ASSUME Inductive, [Next]_vars PROVE Inductive'
  OBVIOUS
<1>1. CASE Tick \/ Revoke
  BY <1>1, TickStep, RevokeStep
<1>2. CASE \E j \in Jobs : Requester(j)
  BY <1>2, AskStep, ReadFailureStep, ReadStatusStep, ReadAnswerStep, ReadNothingStep, GiveUpStep,
     AbandonStep DEF Requester, Read
<1>3. CASE Work
  BY <1>3, PollStep, DeduplicateStep, ExpireLocallyStep, StartAttemptStep, ExecuteStep,
     SealResultStep, ReportStep, FailAttemptStep, LeaveForRetryStep, FailSealStep DEF Work
<1>4. CASE Crash \/ Restart \/ ServerError
  BY <1>4, CrashStep, RestartStep, ServerErrorStep
<1>5. CASE \E c \in calls : Handle(c) \/ Lose(c)
  BY <1>5, AdmitStep, HandleNextStep, HandleSubmitStep, HandleFailStep, LoseStep DEF Handle
<1>6. CASE UNCHANGED vars
  BY <1>6, StutterStep
<1> QED BY <1>1, <1>2, <1>3, <1>4, <1>5, <1>6 DEF Next

\* The inductive invariant holds in every reachable state.
THEOREM InductiveHolds == Spec => []Inductive
<1> QED BY InitialInductive, InductiveStep, PTL DEF Spec

\* Every variable of the relay, the worker and the requester keeps its type; in
\* particular no process attempts a job more than MaxAttempts times.
THEOREM TypeCorrect == Spec => []TypeOK
<1>1. Inductive => TypeOK
  BY DEF Inductive
<1> QED BY <1>1, InductiveHolds, PTL

\* A request has at most one result row, whatever calls are late, repeated or
\* lost.
THEOREM AnswerCorrect == Spec => []OneAnswer
<1>1. Inductive => OneAnswer
  BY DEF Inductive, RequestInvariant
<1> QED BY <1>1, InductiveHolds, PTL

\* What is stored as a result was executed, in the attempt its id names.
THEOREM NoMadeUpAnswer == Spec => []AnswersWereExecuted
<1>1. Inductive => AnswersWereExecuted
  BY DEF Inductive, RequestInvariant
<1> QED BY <1>1, InductiveHolds, PTL

\* Within one process of the worker the executor succeeds at most once for a job.
THEOREM ExecutedOnce == Spec => []OncePerRun
<1>1. Inductive => OncePerRun
  BY DEF Inductive, RequestInvariant
<1> QED BY <1>1, InductiveHolds, PTL

\* A failed request was failed by the engine, on a failure it does not retry.
THEOREM StatusCorrect == Spec => []FailedHasVerdict
<1>1. Inductive => FailedHasVerdict
  BY DEF Inductive, RequestInvariant
<1> QED BY <1>1, InductiveHolds, PTL

\* A completed request has its result.
THEOREM CompletedCorrect == Spec => []CompletedHasAnswer
<1>1. Inductive => CompletedHasAnswer
  BY DEF Inductive, RequestInvariant
<1> QED BY <1>1, InductiveHolds, PTL

\* A requester that got a result holds the result of its request; any other
\* requester holds none.
THEOREM RequesterCorrect == Spec => []RequesterSawTheAnswer
<1>1. Inductive => RequesterSawTheAnswer
  BY DEF Inductive, RequestInvariant
<1> QED BY <1>1, InductiveHolds, PTL

-----------------------------------------------------------------------------
(* Refinement: every step of AiRelay is a step of RelayPromise or leaves   *)
(* its variables alone.                                                    *)

\* Between the two queries of a read, plan() is still waiting.
Told == [j \in Jobs |-> IF asked[j] = "reading" THEN "waiting" ELSE asked[j]]

LEMMA AskPromised == ASSUME Inductive, NEW j \in Jobs, Ask(j) PROVE Promise!Next
<1>1. /\ asked[j] = "new" /\ asked' = [asked EXCEPT ![j] = "waiting"]
      /\ UNCHANGED <<answers, got>> /\ asked \in [Jobs -> Asked]
  BY DEF Ask, rows, Inductive, TypeOK
<1>2. Told[j] = "new" /\ Told' = [Told EXCEPT ![j] = "waiting"]
  BY <1>1 DEF Told
<1> QED BY <1>1, <1>2 DEF Promise!Next, Promise!Ask, Told

LEMMA RequesterPromised ==
  ASSUME Inductive, NEW j \in Jobs, Read(j) \/ Abandon(j)
  PROVE  [Promise!Next]_(Promise!vars)
<1>1. /\ asked \in [Jobs -> Asked] /\ answers' = answers
      /\ asked[j] \in {"waiting", "reading"} /\ Told[j] = "waiting"
  BY DEF Read, ReadFailure, ReadStatus, ReadAnswer, ReadNothing, GiveUp, Abandon, Decide, rows,
     Inductive, TypeOK, Told
<1>2. CASE ReadAnswer(j)
  <2>1. Told' = [Told EXCEPT ![j] = "answered"]
    BY <1>1, <1>2 DEF Told, ReadAnswer, Decide
  <2> QED BY <1>1, <1>2, <2>1 DEF ReadAnswer, Promise!Next, Promise!Return, Told
<1>3. CASE ReadFailure(j) \/ GiveUp(j) \/ Abandon(j)
  <2>1. PICK x \in {"failed", "expired", "unavailable"} :
           asked' = [asked EXCEPT ![j] = x] /\ got' = got
    BY <1>3 DEF ReadFailure, GiveUp, Abandon, Decide
  <2>2. Told' = [Told EXCEPT ![j] = x]
    BY <1>1, <2>1 DEF Told
  <2> QED BY <1>1, <2>1, <2>2 DEF Promise!Next, Promise!Throw, Told
<1>4. CASE ReadStatus(j) \/ ReadNothing(j)
  <2>1. Told' = Told
    BY <1>1, <1>4 DEF Told, ReadStatus, ReadNothing, Decide
  <2> QED BY <1>1, <1>4, <2>1 DEF ReadStatus, ReadNothing, Promise!vars, Told
<1> QED BY <1>2, <1>3, <1>4 DEF Read

LEMMA SubmitPromised ==
  ASSUME Inductive, NEW c \in calls, HandleSubmit(c)
  PROVE  Promise!Next \/ UNCHANGED Promise!vars
<1>1. c.job \in Jobs /\ c.id \in AnswerIds /\ asked[c.job] # "new"
  BY DEF Inductive, CallInvariant, HandleSubmit, Taken
<1>2. UNCHANGED <<asked, got>>
  BY DEF HandleSubmit, Taken, requester
<1>3. CASE UNCHANGED answers
  BY <1>2, <1>3 DEF Promise!vars
<1>4. CASE /\ \A a \in answers : a.job # c.job
           /\ answers' = answers \cup {[job |-> c.job, id |-> c.id]}
  BY <1>1, <1>2, <1>4 DEF Promise!Next, Promise!Answer
<1> QED BY <1>3, <1>4 DEF HandleSubmit, Taken

LEMMA StepPromised ==
  ASSUME Inductive, [Next]_vars
  PROVE  [Promise!Next]_(Promise!vars)
<1>1. CASE Tick \/ Revoke \/ Crash \/ Restart \/ ServerError \/ UNCHANGED vars
  BY <1>1 DEF Tick, Revoke, Crash, Restart, ServerError, vars, rows, requester, Promise!vars
<1>2. CASE \E j \in Jobs : Requester(j)
  BY <1>2, AskPromised, RequesterPromised DEF Requester
<1>3. CASE Work
  BY <1>3 DEF Work, Poll, Deduplicate, ExpireLocally, StartAttempt, Execute, SealResult, Report,
     FailAttempt, LeaveForRetry, FailSeal, StoreFailure, Send, rows, requester, Promise!vars
<1>4. CASE \E c \in calls : Handle(c) \/ Lose(c)
  <2>1. PICK c \in calls : Handle(c) \/ Lose(c)
    BY <1>4
  <2>2. CASE Lose(c) \/ Admit(c) \/ HandleNext(c) \/ HandleFail(c)
    BY <2>2 DEF Lose, Admit, HandleNext, HandleFail, rows, requester, Promise!vars
  <2>3. CASE HandleSubmit(c)
    BY <2>3, SubmitPromised
  <2> QED BY <2>1, <2>2, <2>3 DEF Handle
<1> QED BY <1>1, <1>2, <1>3, <1>4 DEF Next

\* The relay implements RelayPromise: one answer per request at most, never
\* changed, and the only one plan() returns.
THEOREM Refinement == Spec => RelayKeepsItsPromise
<1>1. Init => Promise!Init
  BY DEF Init, Promise!Init
<1>2. Inductive /\ [Next]_vars => [Promise!Next]_(Promise!vars)
  BY StepPromised
<1> QED BY <1>1, <1>2, InductiveHolds, PTL DEF Spec, RelayKeepsItsPromise, Promise!Spec

-----------------------------------------------------------------------------
(* What an undisturbed worker and the errors of plan() can be trusted in.  *)

\* A step that leaves calls, answers and outcomes alone, and does not turn an
\* abandoned state into an undisturbed one, keeps OneProcessInvariant.
LEMMA Unrelated ==
  ASSUME OneProcessInvariant, UNCHANGED <<calls, answers, outcome>>,
         NothingAbandoned' => NothingAbandoned
  PROVE  OneProcessInvariant'
BY DEF OneProcessInvariant

\* A job that the worker is deciding has no result row and no report yet, so
\* that what it decides agrees with both.
LEMMA Decided ==
  ASSUME OneProcessInvariant, NothingAbandoned, NEW o \in Outcomes, outcome[cur] = "none",
         TypeOK, UNCHANGED <<calls, answers>>, outcome' = [outcome EXCEPT ![cur] = o]
  PROVE  OneProcessInvariant'
<1>1. /\ \A c \in calls : c.op \in {"submit", "fail"} => c.job # cur
      /\ \A a \in answers : a.job # cur
  BY DEF OneProcessInvariant
<1>2. \A j \in Jobs : j # cur => outcome'[j] = outcome[j]
  BY DEF TypeOK
<1>3. \A a \in answers : a.job \in Jobs
  BY DEF TypeOK
<1>4. \A c \in calls : outcome[c.job] # "none" /\ c.job # cur => outcome'[c.job] = outcome[c.job]
  BY DEF TypeOK
<1> QED BY <1>1, <1>2, <1>3, <1>4 DEF OneProcessInvariant

\* The worker's own steps.
LEMMA WorkUndisturbed ==
  ASSUME Inductive, OneProcessInvariant, Work PROVE OneProcessInvariant'
<1>1. UNCHANGED <<faults, run, answers>> /\ pc # "dead"
  BY DEF Work, Poll, Deduplicate, ExpireLocally, StartAttempt, Execute, SealResult, FailSeal,
     Report, FailAttempt, LeaveForRetry, StoreFailure, Send, rows
<1>2. NothingAbandoned' => NothingAbandoned
  BY <1>1 DEF NothingAbandoned
<1>3. CASE Deduplicate \/ StartAttempt \/ Execute \/ \E cause \in Causes : LeaveForRetry(cause)
  BY <1>2, <1>3, Unrelated DEF Deduplicate, StartAttempt, Execute, LeaveForRetry, rows, engine
<1>4. CASE ExpireLocally \/ SealResult \/ FailSeal \/ \E cause \in Causes : FailAttempt(cause)
  <2>1. outcome[cur] = "none" /\ UNCHANGED <<calls, answers>>
    BY <1>4 DEF ExpireLocally, SealResult, FailSeal, FailAttempt, StoreFailure, rows, Inductive,
       WorkerInvariant
  <2>2. \E o \in Outcomes : outcome' = [outcome EXCEPT ![cur] = o]
    BY <1>4 DEF ExpireLocally, SealResult, FailSeal, FailAttempt, StoreFailure, Outcomes
  <2>3. CASE NothingAbandoned
    BY <2>1, <2>2, <2>3, Decided DEF Inductive
  <2> QED BY <1>2, <2>3 DEF OneProcessInvariant
<1>5. CASE Poll \/ Report
  <2>1. ASSUME NEW op, NEW job, NEW id, Send(op, job, id),
               op = "submit" => outcome[job] = "succeeded",
               op = "fail" => outcome[job] = "failed"
        PROVE  OneProcessInvariant'
    <3> DEFINE n == [op |-> op, job |-> job, id |-> id, seen |-> "unread", live |-> TRUE]
    <3>1. calls' = calls \cup {n} /\ UNCHANGED <<outcome, answers>>
      BY <2>1 DEF Send, rows, engine
    <3>2. n.op = op /\ n.job = job /\ n.live
      OBVIOUS
    <3> HIDE DEF n
    <3> QED BY <1>2, <2>1, <3>1, <3>2 DEF OneProcessInvariant
  <2>2. CASE Poll
    BY <2>1, <2>2 DEF Poll
  <2>3. CASE Report
    BY <2>1, <2>3 DEF Report, Inductive, WorkerInvariant
  <2> QED BY <1>5, <2>2, <2>3
<1> QED BY <1>3, <1>4, <1>5 DEF Work

\* Handling a call removes it, or marks what it has read; and the result it
\* inserts is of a job that succeeded.
LEMMA HandleUndisturbed ==
  ASSUME Inductive, OneProcessInvariant, NEW c \in calls, Handle(c) \/ Lose(c)
  PROVE  OneProcessInvariant'
<1>1. UNCHANGED <<faults, run, outcome>>
  BY DEF Handle, Lose, Admit, HandleNext, HandleSubmit, HandleFail, engine
<1>2. NothingAbandoned' => NothingAbandoned
  BY <1>1 DEF Handle, Lose, Admit, HandleNext, HandleSubmit, HandleFail, Refuse, Answered,
     NothingAbandoned, Inductive, CallInvariant
<1>3. /\ c \in Call
      /\ \A d \in calls' : \E e \in calls : d.op = e.op /\ d.job = e.job /\ d.live = e.live
  <2>1. c \in Call
    BY DEF Inductive, TypeOK
  <2>2. CASE Admit(c) /\ trusted
    <3> DEFINE d == [c EXCEPT !.seen = Snapshot(c)]
    <3>1. calls' = (calls \ {c}) \cup {d}
      BY <2>2 DEF Admit
    <3>2. d.op = c.op /\ d.job = c.job /\ d.live = c.live
      BY <2>1 DEF Call
    <3> HIDE DEF d
    <3> QED BY <2>1, <3>1, <3>2
  <2>3. CASE ~ (Admit(c) /\ trusted)
    <3>1. calls' = calls \ {c}
      BY <2>3 DEF Handle, Lose, Admit, HandleNext, HandleSubmit, HandleFail, Refuse, Answered
    <3> QED BY <2>1, <3>1
  <2> QED BY <2>2, <2>3
<1>4. \A a \in answers' : a \in answers \/ (a.job = c.job /\ c.op = "submit")
  BY DEF Handle, Lose, Admit, HandleNext, HandleSubmit, HandleFail, rows
<1> QED BY <1>1, <1>2, <1>3, <1>4 DEF OneProcessInvariant

LEMMA UndisturbedStep ==
  Inductive /\ OneProcessInvariant /\ [Next]_vars => OneProcessInvariant'
<1> SUFFICES ASSUME Inductive, OneProcessInvariant, [Next]_vars PROVE OneProcessInvariant'
  OBVIOUS
<1>1. CASE Tick \/ Revoke \/ UNCHANGED vars \/ \E j \in Jobs : Requester(j)
  <2>1. UNCHANGED <<calls, answers, outcome, faults, run, pc>>
    BY <1>1 DEF Tick, Revoke, Requester, Ask, Read, ReadFailure, ReadStatus, ReadAnswer, ReadNothing,
     GiveUp, Abandon, Decide,
       vars, rows, engine
  <2> QED BY <2>1, Unrelated DEF NothingAbandoned
<1>2. CASE Crash \/ Restart \/ ServerError
  <2>1. ~ NothingAbandoned'
    BY <1>2 DEF Crash, Restart, ServerError, NothingAbandoned, Inductive, TypeOK, Runs
  <2> QED BY <2>1 DEF OneProcessInvariant
<1>3. CASE Work
  BY <1>3, WorkUndisturbed
<1>4. CASE \E c \in calls : Handle(c) \/ Lose(c)
  BY <1>4, HandleUndisturbed
<1> QED BY <1>1, <1>2, <1>3, <1>4 DEF Next

\* While no call of the worker was abandoned every call it made is awaited, and
\* calls and results agree with what the engine decided.
THEOREM OneProcessHolds == Spec => []OneProcessInvariant
<1>1. Init => OneProcessInvariant
  BY DEF Init, OneProcessInvariant
<1> QED BY <1>1, UndisturbedStep, InductiveHolds, PTL DEF Spec

\* A completed request stays completed while no call was abandoned: the run
\* that finds one failed afterwards needs a call that is handled late.
THEOREM CompletedStays == Spec => CompletedUnlessAbandoned
<1>1. ASSUME Inductive, OneProcessInvariant, [Next]_vars, NothingAbandoned,
             NEW j \in Jobs, status[j] = "completed"
      PROVE  status'[j] = "completed"
  <2>1. outcome[j] = "succeeded"
    BY <1>1 DEF Inductive, RequestInvariant, CompletedHasAnswer, OneProcessInvariant
  <2>2. status \in [Jobs -> Statuses] /\ asked[j] # "new"
    BY <1>1 DEF Inductive, TypeOK, RequestInvariant
  <2>3. CASE UNCHANGED status
    BY <1>1, <2>3
  <2>4. CASE \E k \in Jobs : Ask(k)
    BY <1>1, <2>2, <2>4 DEF Ask
  <2>5. ASSUME NEW c \in calls, HandleNext(c)
        PROVE  status'[j] = "completed"
    BY <1>1, <2>2, <2>5 DEF HandleNext, Deliverable, Swept, Pending
  <2>6. ASSUME NEW c \in calls, HandleSubmit(c)
        PROVE  status'[j] = "completed"
    BY <1>1, <2>2, <2>6 DEF HandleSubmit
  <2>7. ASSUME NEW c \in calls, HandleFail(c)
        PROVE  status'[j] = "completed"
    <3>1. c.job # j
      BY <1>1, <2>1, <2>7 DEF HandleFail, OneProcessInvariant
    <3> QED BY <1>1, <2>2, <2>7, <3>1 DEF HandleFail
  <2>8. \/ UNCHANGED status \/ \E k \in Jobs : Ask(k)
        \/ \E c \in calls : HandleNext(c) \/ HandleSubmit(c) \/ HandleFail(c)
    BY <1>1 DEF Next, Tick, Revoke, Requester, Read, ReadFailure, ReadStatus, ReadAnswer, ReadNothing,
     GiveUp, Abandon, Decide,
       Work, Poll, Deduplicate, ExpireLocally, StartAttempt, Execute, SealResult, FailSeal, Report,
       FailAttempt, LeaveForRetry, StoreFailure, Send, Crash, Restart, ServerError, Handle, Admit,
       Lose, vars, rows
  <2> QED BY <2>3, <2>4, <2>5, <2>6, <2>7, <2>8
<1>2. Inductive /\ OneProcessInvariant /\ [Next]_vars
      => [NothingAbandoned =>
            \A j \in Jobs : status[j] = "completed" => status'[j] = "completed"]_vars
  BY <1>1
<1> QED BY <1>2, InductiveHolds, OneProcessHolds, PTL DEF Spec, CompletedUnlessAbandoned

\* Deadlines stay, and the clock only moves forward.
LEMMA DeadlinesStay ==
  ASSUME Inductive, [Next]_vars, NEW j \in Jobs, asked[j] # "new"
  PROVE  expiresAt'[j] = expiresAt[j] /\ now <= now' /\ now' \in Nat /\ expiresAt[j] \in Nat
<1>1. now \in Nat /\ expiresAt \in [Jobs -> Nat]
  BY DEF Inductive, TypeOK
<1>2. UNCHANGED now \/ now' = now + 1
  BY DEF Next, Tick, Revoke, Requester, Ask, Read, ReadFailure, ReadStatus, ReadAnswer, ReadNothing,
     GiveUp, Abandon, Decide,
     Work, Poll, Deduplicate, ExpireLocally, StartAttempt, Execute, SealResult, FailSeal, Report,
     FailAttempt, LeaveForRetry, StoreFailure, Send, Crash, Restart, ServerError, Handle, Admit,
     HandleNext, HandleSubmit, HandleFail, Lose, vars
<1>3. UNCHANGED expiresAt \/ \E k \in Jobs : Ask(k)
  BY DEF Next, Tick, Revoke, Requester, Read, ReadFailure, ReadStatus, ReadAnswer, ReadNothing,
     GiveUp, Abandon, Decide,
     Work, Poll, Deduplicate, ExpireLocally, StartAttempt, Execute, SealResult, FailSeal, Report,
     FailAttempt, LeaveForRetry, StoreFailure, Send, Crash, Restart, ServerError, Handle, Admit,
     HandleNext, HandleSubmit, HandleFail, Lose, vars, rows
<1>4. expiresAt'[j] = expiresAt[j]
  BY <1>1, <1>3 DEF Ask
<1> QED BY <1>1, <1>2, <1>4

\* Only a sweep at or after its deadline expires a request.
LEMMA ExpiredStep ==
  ASSUME Inductive, ExpiredWasDue, [Next]_vars PROVE ExpiredWasDue'
<1> SUFFICES ASSUME NEW j \in Jobs, status'[j] = "expired" PROVE expiresAt'[j] <= now'
  BY DEF ExpiredWasDue
<1>1. status \in [Jobs -> Statuses] /\ now \in Nat
  BY DEF Inductive, TypeOK
<1>2. status[j] = "expired" \/ (status[j] \in Pending /\ expiresAt[j] <= now)
  <2>1. CASE UNCHANGED status
    BY <2>1
  <2>2. CASE \E k \in Jobs : Ask(k)
    BY <1>1, <2>2 DEF Ask
  <2>3. ASSUME NEW c \in calls, HandleNext(c) PROVE status[j] = "expired" \/ (status[j] \in Pending /\ expiresAt[j] <= now)
    BY <1>1, <2>3 DEF HandleNext, Swept
  <2>4. ASSUME NEW c \in calls, HandleSubmit(c) \/ HandleFail(c) PROVE status[j] = "expired" \/ (status[j] \in Pending /\ expiresAt[j] <= now)
    BY <1>1, <2>4 DEF HandleSubmit, HandleFail
  <2>5. \/ UNCHANGED status \/ \E k \in Jobs : Ask(k)
        \/ \E c \in calls : HandleNext(c) \/ HandleSubmit(c) \/ HandleFail(c)
    BY DEF Next, Tick, Revoke, Requester, Read, ReadFailure, ReadStatus, ReadAnswer, ReadNothing,
     GiveUp, Abandon, Decide,
       Work, Poll, Deduplicate, ExpireLocally, StartAttempt, Execute, SealResult, FailSeal, Report,
       FailAttempt, LeaveForRetry, StoreFailure, Send, Crash, Restart, ServerError, Handle, Admit,
       Lose, vars, rows
  <2> QED BY <2>1, <2>2, <2>3, <2>4, <2>5
<1>3. asked[j] # "new" /\ expiresAt[j] <= now
  BY <1>2 DEF Inductive, RequestInvariant, ExpiredWasDue, Pending
<1>4. expiresAt'[j] = expiresAt[j] /\ now <= now' /\ now' \in Nat /\ expiresAt[j] \in Nat
  BY <1>3, DeadlinesStay
<1> QED BY <1>1, <1>3, <1>4

LEMMA CausesStep ==
  ASSUME Inductive, ExpiredWasDue, ErrorsHaveCauses, [Next]_vars PROVE ErrorsHaveCauses'
<1> SUFFICES ASSUME NEW j \in Jobs, asked'[j] \in {"failed", "expired"}
             PROVE  /\ asked'[j] = "failed" => j \in verdicts'
                    /\ asked'[j] = "expired" => expiresAt'[j] <= now'
  BY DEF ErrorsHaveCauses
<1>1. asked \in [Jobs -> Asked] /\ now \in Nat
  BY DEF Inductive, TypeOK
<1>2. verdicts \subseteq verdicts'
  BY DEF Next, Tick, Revoke, Requester, Ask, Read, ReadFailure, ReadStatus, ReadAnswer, ReadNothing,
     GiveUp, Abandon, Decide,
     Work, Poll, Deduplicate, ExpireLocally, StartAttempt, Execute, SealResult, FailSeal, Report,
     FailAttempt, LeaveForRetry, StoreFailure, Send, Crash, Restart, ServerError, Handle, Admit,
     HandleNext, HandleSubmit, HandleFail, Lose, vars, history
<1>3. UNCHANGED asked \/ \E k \in Jobs : Requester(k)
  BY DEF Next, Tick, Revoke, Work, Poll, Deduplicate, ExpireLocally, StartAttempt, Execute,
     SealResult, FailSeal, Report, FailAttempt, LeaveForRetry, StoreFailure, Send, Crash, Restart,
     ServerError, Handle, Admit, HandleNext, HandleSubmit, HandleFail, Lose, vars, requester
<1>4. \/ asked'[j] = asked[j]
      \/ asked[j] = "waiting" /\ asked'[j] = status[j]
  BY <1>1, <1>3 DEF Requester, Ask, Read, ReadFailure, ReadStatus, ReadAnswer, ReadNothing,
     GiveUp, Abandon, Decide
<1>5. /\ asked[j] # "new"
      /\ asked'[j] = "failed" => j \in verdicts
      /\ asked'[j] = "expired" => expiresAt[j] <= now
  BY <1>4 DEF Inductive, RequestInvariant, FailedHasVerdict, ErrorsHaveCauses, ExpiredWasDue
<1>6. expiresAt'[j] = expiresAt[j] /\ now <= now' /\ now' \in Nat /\ expiresAt[j] \in Nat
  BY <1>5, DeadlinesStay
<1> QED BY <1>1, <1>2, <1>5, <1>6

\* The errors plan() throws have causes, whatever late calls do to the request
\* it asked about.
THEOREM NoErrorWithoutCause == Spec => []ErrorsHaveCauses
<1>1. Init => ExpiredWasDue /\ ErrorsHaveCauses
  BY DEF Init, ExpiredWasDue, ErrorsHaveCauses
<1>2. Inductive /\ ExpiredWasDue /\ ErrorsHaveCauses /\ [Next]_vars
      => ExpiredWasDue' /\ ErrorsHaveCauses'
  BY ExpiredStep, CausesStep
<1> QED BY <1>1, <1>2, InductiveHolds, PTL DEF Spec

=============================================================================
