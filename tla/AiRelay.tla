------------------------------ MODULE AiRelay ------------------------------
(***************************************************************************)
(* The encrypted AI relay: a requester device asks the compute node of its *)
(* account to plan a capture.  Three parts run concurrently.               *)
(*                                                                         *)
(*   - RelayComputeNodePlanClient.plan on the requester posts a request    *)
(*     and then reads its result until it gets one, an error, or the       *)
(*     deadline passes;                                                    *)
(*   - the relay endpoints of the API keep one row of ai_jobs per message, *)
(*     lease a request to the target for Lease ticks, and take its result  *)
(*     or its failure.  A handler reads (trust, the row) and writes in two *)
(*     steps of one session: between them other handlers run, and no lock  *)
(*     keeps the row as it was read;                                       *)
(*   - the worker of the compute node polls, runs EncryptedAiJobEngine and *)
(*     reports.  Its memory of attempts and outcomes dies with the process.*)
(*                                                                         *)
(* A call whose answer the worker no longer waits for (a 5xx from a        *)
(* gateway, a crash) may still be handled later, or never.                 *)
(*                                                                         *)
(* Payloads, keys and envelopes are abstracted: a request is its job, a    *)
(* result is the attempt that produced it.  The requester draws a new job  *)
(* id and idempotency key for each request, so a job is its own key.       *)
(***************************************************************************)
EXTENDS Naturals, FiniteSets

CONSTANTS
    Jobs,         \* requests the requester device sends, one key each
    NoJob,        \* the job of a worker that holds none
    Lease,        \* _delivery_lease, in ticks
    Ttl,          \* jobTtl, in ticks
    MaxAttempts,  \* maxAttempts of the engine
    MaxTime,      \* bound: the clock stops here
    MaxRuns,      \* bound: processes the worker is started as
    MaxFaults,    \* bound: 5xx answers the worker sees
    MaxCalls      \* bound: calls in the hands of the server at once

ASSUME RelayAssumption ==
    /\ NoJob \notin Jobs
    /\ Lease \in Nat \ {0} /\ Ttl \in Nat \ {0} /\ MaxAttempts \in Nat \ {0}
    /\ MaxTime \in Nat /\ MaxRuns \in Nat \ {0} /\ MaxFaults \in Nat /\ MaxCalls \in Nat \ {0}

VARIABLES
    now,            \* the clock the server, the worker and the requester read
    trusted,        \* the compute node is a Trusted Device
    status,         \* delivery_status of each request row, "none" before it is posted
    createdAt,      \* created_at of each request row
    expiresAt,      \* expires_at of each request row
    nextAttemptAt,  \* next_attempt_at of each request row
    answers,        \* the result rows: correlation_id and the attempt that made them
    asked,          \* where plan() of each job stands on the requester
    got,            \* the result plan() returned
    pc,             \* what the worker is doing
    cur,            \* the job it is doing it for
    run,            \* which process the worker is
    tries,          \* attempts of the engine
    outcome,        \* completed of the engine
    calls,          \* calls in the hands of the server
    faults,         \* 5xx answers so far
    executed,       \* history: executions that succeeded
    verdicts        \* history: jobs the engine failed for good

rows     == <<status, createdAt, expiresAt, nextAttemptAt, answers>>
engine   == <<tries, outcome>>
history  == <<executed, verdicts>>
requester == <<asked, got>>
vars == <<now, trusted, rows, requester, pc, cur, run, engine, calls, faults, history>>

Runs       == 1 .. MaxRuns
Attempts   == 1 .. MaxAttempts
AnswerIds  == Runs \X Attempts
NoAnswer   == <<0, 0>>
Statuses   == {"none", "queued", "delivered", "completed", "failed", "expired"}
Pending    == {"queued", "delivered"}
Asked      == {"new", "waiting", "reading", "answered", "failed", "expired", "unavailable"}
Working    == {"idle", "waiting", "received", "attempting", "sealing", "report", "dead"}
Outcomes   == {"none", "succeeded", "failed", "expired"}
Causes     == {"explicit", "other"}

\* What a handler has read: nothing yet, that the poll is admitted, that a row
\* with the id of the result exists, or the status of the request.
Seen  == Statuses \cup {"unread", "admitted", "duplicate"}
Call  == [op : {"next", "submit", "fail"}, job : Jobs \cup {NoJob},
          id : AnswerIds \cup {NoAnswer}, seen : Seen, live : BOOLEAN]

TypeOK ==
    /\ now \in 0 .. MaxTime
    /\ trusted \in BOOLEAN
    /\ status \in [Jobs -> Statuses]
    /\ createdAt \in [Jobs -> Nat]
    /\ expiresAt \in [Jobs -> Nat]
    /\ nextAttemptAt \in [Jobs -> Nat]
    /\ answers \subseteq [job : Jobs, id : AnswerIds]
    /\ asked \in [Jobs -> Asked]
    /\ got \in [Jobs -> AnswerIds \cup {NoAnswer}]
    /\ pc \in Working
    /\ cur \in Jobs \cup {NoJob}
    /\ run \in Runs
    /\ tries \in [Jobs -> 0 .. MaxAttempts]
    /\ outcome \in [Jobs -> Outcomes]
    /\ calls \subseteq Call
    /\ faults \in 0 .. MaxFaults
    /\ executed \subseteq [job : Jobs, run : Runs, attempt : Attempts]
    /\ verdicts \subseteq Jobs

Init ==
    /\ now = 0
    /\ trusted = TRUE
    /\ status = [j \in Jobs |-> "none"]
    /\ createdAt = [j \in Jobs |-> 0]
    /\ expiresAt = [j \in Jobs |-> 0]
    /\ nextAttemptAt = [j \in Jobs |-> 0]
    /\ answers = {}
    /\ asked = [j \in Jobs |-> "new"]
    /\ got = [j \in Jobs |-> NoAnswer]
    /\ pc = "idle"
    /\ cur = NoJob
    /\ run = 1
    /\ tries = [j \in Jobs |-> 0]
    /\ outcome = [j \in Jobs |-> "none"]
    /\ calls = {}
    /\ faults = 0
    /\ executed = {}
    /\ verdicts = {}

-----------------------------------------------------------------------------
(* The environment: time passes, the account revokes the compute node.     *)

Tick ==
    /\ now < MaxTime
    /\ now' = now + 1
    /\ UNCHANGED <<trusted, rows, requester, pc, cur, run, engine, calls, faults, history>>

Revoke ==
    /\ trusted
    /\ trusted' = FALSE
    /\ UNCHANGED <<now, rows, requester, pc, cur, run, engine, calls, faults, history>>

-----------------------------------------------------------------------------
(* The requester.                                                          *)

\* plan() seals the request, then POST /jobs inserts it.  The time between
\* the two eats into its ttl, and a request that arrives expired is refused.
Ask(j) ==
    /\ asked[j] = "new"
    /\ trusted
    /\ now + Ttl < MaxTime
    /\ \E e \in now + 1 .. now + Ttl : expiresAt' = [expiresAt EXCEPT ![j] = e]
    /\ status' = [status EXCEPT ![j] = "queued"]
    /\ createdAt' = [createdAt EXCEPT ![j] = now]
    /\ asked' = [asked EXCEPT ![j] = "waiting"]
    /\ UNCHANGED <<now, trusted, nextAttemptAt, answers, got, pc, cur, run, engine, calls,
                   faults, history>>

\* GET /jobs/{id}/result and what plan() does with each answer.  read_result
\* reads the status of the request and then, in a second query, the result row.
\* A failed or expired request is an error; a result row is found only before
\* it expires; with no result, plan() reads again until the deadline has passed.
Decide(j, decision) ==
    /\ asked' = [asked EXCEPT ![j] = decision]
    /\ UNCHANGED <<now, trusted, rows, pc, cur, run, engine, calls, faults, history>>

\* Mutant of ReadFailure: a read still under way when plan() returns is obeyed.
ReadFailureLate(j) ==
    /\ asked[j] \in {"waiting", "answered"}
    /\ status[j] \in {"failed", "expired"}
    /\ Decide(j, status[j])
    /\ UNCHANGED got

ReadFailure(j) ==
    /\ asked[j] = "waiting"
    /\ status[j] \in {"failed", "expired"}
    /\ Decide(j, status[j])
    /\ UNCHANGED got

ReadStatus(j) ==
    /\ asked[j] = "waiting"
    /\ status[j] \notin {"failed", "expired"}
    /\ Decide(j, "reading")
    /\ UNCHANGED got

\* Whatever has become of the request since.
ReadAnswer(j) ==
    /\ asked[j] = "reading"
    /\ now < expiresAt[j]
    /\ \E a \in answers : a.job = j /\ got' = [got EXCEPT ![j] = a.id]
    /\ Decide(j, "answered")

ReadNothing(j) ==
    /\ asked[j] = "reading"
    /\ now <= expiresAt[j]
    /\ now < expiresAt[j] => \A a \in answers : a.job # j
    /\ Decide(j, "waiting")
    /\ UNCHANGED got

\* Mutant of GiveUp: the deadline ends only a request nobody took up.
GiveUpQueued(j) ==
    /\ asked[j] = "reading"
    /\ status[j] = "queued"
    /\ now > expiresAt[j]
    /\ Decide(j, "unavailable")
    /\ UNCHANGED got

GiveUp(j) ==
    /\ asked[j] = "reading"
    /\ now > expiresAt[j]
    /\ Decide(j, "unavailable")
    /\ UNCHANGED got

\* A transport error of the post or of a read ends plan(), and so does the
\* last of its polls.
Abandon(j) ==
    /\ asked[j] \in {"waiting", "reading"}
    /\ Decide(j, "unavailable")
    /\ UNCHANGED got

-----------------------------------------------------------------------------
(* The worker: runOnce, and the engine it calls.                           *)

\* The worker hands a call to the server and waits for the answer.
Send(op, job, id) ==
    /\ Cardinality(calls) < MaxCalls
    /\ calls' = calls \cup {[op |-> op, job |-> job, id |-> id, seen |-> "unread", live |-> TRUE]}
    /\ pc' = "waiting"
    /\ UNCHANGED <<now, trusted, rows, requester, run, engine, faults, history>>

Poll ==
    /\ pc = "idle"
    /\ cur' = NoJob
    /\ Send("next", NoJob, NoAnswer)

\* execute() of a job whose outcome is stored returns that outcome again: a
\* result or a terminal failure is reported once more, an expired job is not.
Deduplicate ==
    /\ pc = "received"
    /\ outcome[cur] # "none"
    /\ pc' = IF outcome[cur] = "expired" THEN "idle" ELSE "report"
    /\ UNCHANGED <<now, trusted, rows, requester, cur, run, engine, calls, faults, history>>

ExpireLocally ==
    /\ pc = "received"
    /\ outcome[cur] = "none"
    /\ expiresAt[cur] <= now
    /\ outcome' = [outcome EXCEPT ![cur] = "expired"]
    /\ pc' = "idle"
    /\ UNCHANGED <<now, trusted, rows, requester, cur, run, tries, calls, faults, history>>

StartAttempt ==
    /\ pc = "received"
    /\ outcome[cur] = "none"
    /\ now < expiresAt[cur]
    /\ tries' = [tries EXCEPT ![cur] = @ + 1]
    /\ pc' = "attempting"
    /\ UNCHANGED <<now, trusted, rows, requester, cur, run, outcome, calls, faults, history>>

\* A terminal failure is stored with the outcomes and reported.
StoreFailure ==
    /\ outcome' = [outcome EXCEPT ![cur] = "failed"]
    /\ verdicts' = verdicts \cup {cur}
    /\ pc' = "report"
    /\ UNCHANGED <<now, trusted, rows, requester, cur, run, tries, calls, faults, executed>>

\* Mutant of Retryable: one attempt too many.
RetryableOnceMore(cause) ==
    cause = "explicit" /\ tries[cur] <= MaxAttempts /\ now < expiresAt[cur]

\* decrypt() or the executor threw.  Only an explicitly retryable error, with
\* attempts and time left, leaves the job to its lease.
Retryable(cause) ==
    /\ cause = "explicit"
    /\ tries[cur] < MaxAttempts
    /\ now < expiresAt[cur]

FailAttempt(cause) ==
    /\ pc = "attempting"
    /\ ~ Retryable(cause)
    /\ StoreFailure

\* Mutant of LeaveForRetry: the worker reports an attempt it will retry.
ReportRetryable(cause) ==
    /\ pc = "attempting"
    /\ Retryable(cause)
    /\ pc' = "report"
    /\ UNCHANGED <<now, trusted, rows, requester, cur, run, engine, calls, faults, history>>

LeaveForRetry(cause) ==
    /\ pc = "attempting"
    /\ Retryable(cause)
    /\ pc' = "idle"
    /\ UNCHANGED <<now, trusted, rows, requester, cur, run, engine, calls, faults, history>>

\* The executor returned: what it did to the Local Core is done.
Execute ==
    /\ pc = "attempting"
    /\ executed' = executed \cup {[job |-> cur, run |-> run, attempt |-> tries[cur]]}
    /\ pc' = "sealing"
    /\ UNCHANGED <<now, trusted, rows, requester, cur, run, engine, calls, faults, verdicts>>

SealResult ==
    /\ pc = "sealing"
    /\ outcome' = [outcome EXCEPT ![cur] = "succeeded"]
    /\ pc' = "report"
    /\ UNCHANGED <<now, trusted, rows, requester, cur, run, tries, calls, faults, history>>

\* Mutant of FailSeal: the job is left to its lease, as a failed attempt is.
RetrySeal ==
    /\ pc = "sealing"
    /\ pc' = "idle"
    /\ UNCHANGED <<now, trusted, rows, requester, cur, run, engine, calls, faults, history>>

\* Sealing the result failed: terminal whatever the error, the execution must
\* not be repeated.
FailSeal ==
    /\ pc = "sealing"
    /\ StoreFailure

\* Mutant of Report: a stored failure is submitted like a result.
ReportAsResult ==
    /\ pc = "report"
    /\ UNCHANGED cur
    /\ Send("submit", cur, <<run, tries[cur]>>)

Report ==
    /\ pc = "report"
    /\ UNCHANGED cur
    /\ IF outcome[cur] = "succeeded"
       THEN Send("submit", cur, <<run, tries[cur]>>)
       ELSE Send("fail", cur, NoAnswer)

\* The process ends: killed, or by an error its loop does not retry.  The calls
\* it made stay with the server.
Abandoned == {[c EXCEPT !.live = FALSE] : c \in calls}

Crash ==
    /\ pc # "dead"
    /\ pc' = "dead"
    /\ calls' = Abandoned
    /\ UNCHANGED <<now, trusted, rows, requester, cur, run, engine, faults, history>>

\* A new process starts with empty maps.
Restart ==
    /\ pc = "dead"
    /\ run < MaxRuns
    /\ run' = run + 1
    /\ pc' = "idle"
    /\ cur' = NoJob
    /\ tries' = [j \in Jobs |-> 0]
    /\ outcome' = [j \in Jobs |-> "none"]
    /\ UNCHANGED <<now, trusted, rows, requester, calls, faults, history>>

\* The worker gets a 5xx: its loop waits and polls again.  The server may
\* still be handling the call.
ServerError ==
    /\ pc = "waiting"
    /\ faults < MaxFaults
    /\ faults' = faults + 1
    /\ pc' = "idle"
    /\ calls' = Abandoned
    /\ UNCHANGED <<now, trusted, rows, requester, cur, run, engine, history>>

-----------------------------------------------------------------------------
(* The relay endpoints.                                                    *)

\* The answer to a call moves the worker only if it still waits for it.
Answered(c, next) ==
    /\ calls' = calls \ {c}
    /\ pc' = IF c.live THEN next ELSE pc

\* A 4xx answer is an error the loop of the worker does not retry.
Refuse(c) == Answered(c, "dead")

\* A call that nobody waits for is never handled.
Lose(c) ==
    /\ ~ c.live
    /\ calls' = calls \ {c}
    /\ UNCHANGED <<now, trusted, rows, requester, pc, cur, run, engine, faults, history>>

HasId(c) == [job |-> c.job, id |-> c.id] \in answers

\* The reads of a handler: the trust of the device, the row of the request,
\* and the row of the result.
Snapshot(c) ==
    CASE c.op = "next" -> "admitted"
      [] c.op = "submit" /\ HasId(c) -> "duplicate"
      [] OTHER -> status[c.job]

Admit(c) ==
    /\ c.seen = "unread"
    /\ IF trusted
       THEN /\ calls' = (calls \ {c}) \cup {[c EXCEPT !.seen = Snapshot(c)]}
            /\ UNCHANGED pc
       ELSE Refuse(c)
    /\ UNCHANGED <<now, trusted, rows, requester, cur, run, engine, faults, history>>

\* Mutant of Swept: a leased request is not expired.
SweptQueued == [j \in Jobs |-> IF status[j] = "queued" /\ expiresAt[j] <= now
                               THEN "expired" ELSE status[j]]

\* next_for_target: expire what is due, then lease the oldest request that is
\* queued or whose lease has run out, of those that no other handler has locked
\* (SKIP LOCKED).
Swept == [j \in Jobs |-> IF status[j] \in Pending /\ expiresAt[j] <= now
                         THEN "expired" ELSE status[j]]

\* A row in the hands of another handler, past its read, may be locked by it.
Locked(c) ==
    {j \in Jobs : \E d \in calls \ {c} : d.seen # "unread" /\ d.job \in {j, NoJob}}

Deliverable(j) ==
    /\ now < expiresAt[j]
    /\ \/ status[j] = "queued"
       \/ status[j] = "delivered" /\ nextAttemptAt[j] <= now

HandleNext(c) ==
    /\ c.op = "next" /\ c.seen = "admitted"
    /\ \/ /\ \A j \in Jobs \ Locked(c) : ~ Deliverable(j)
          /\ status' = Swept
          /\ Answered(c, "idle")
          /\ UNCHANGED <<nextAttemptAt, cur>>
       \/ \E j \in Jobs :
          /\ Deliverable(j)
          /\ \A k \in Jobs \ Locked(c) : Deliverable(k) => createdAt[j] <= createdAt[k]
          /\ status' = [Swept EXCEPT ![j] = "delivered"]
          /\ nextAttemptAt' = [nextAttemptAt EXCEPT ![j] = now + Lease]
          /\ Answered(c, "received")
          /\ cur' = IF c.live THEN j ELSE cur
    /\ UNCHANGED <<now, trusted, createdAt, expiresAt, answers, requester, run, engine,
                   faults, history>>

\* Mutant of Taken: the constraint covers the id of the result only.
TakenId(c) == HasId(c)

\* The unique constraint of ai_jobs on the account, the sender and its key.
Taken(c) == \E a \in answers : a.job = c.job

\* submit_result: a known id is answered again, a second result for the key
\* violates the unique constraint, otherwise the row is inserted and the
\* request completed, whatever its status is by now; the update is sent
\* only when the status read was another.
HandleSubmit(c) ==
    /\ c.op = "submit" /\ c.seen # "unread"
    /\ \/ /\ c.seen = "duplicate"
          /\ Answered(c, "idle")
          /\ UNCHANGED <<status, answers>>
       \/ /\ c.seen # "duplicate"
          /\ Taken(c)
          /\ Refuse(c)
          /\ UNCHANGED <<status, answers>>
       \/ /\ c.seen # "duplicate"
          /\ ~ Taken(c)
          /\ answers' = answers \cup {[job |-> c.job, id |-> c.id]}
          /\ status' = IF c.seen = "completed" THEN status
                       ELSE [status EXCEPT ![c.job] = "completed"]
          /\ Answered(c, "idle")
    /\ UNCHANGED <<now, trusted, createdAt, expiresAt, nextAttemptAt, requester, cur, run,
                   engine, faults, history>>

\* mark_failed: decides on the status it read.
HandleFail(c) ==
    /\ c.op = "fail" /\ c.seen # "unread"
    /\ IF c.seen = "completed" THEN Refuse(c) ELSE Answered(c, "idle")
    /\ status' = IF c.seen \in {"completed", "expired", "failed"} THEN status
                 ELSE [status EXCEPT ![c.job] = "failed"]
    /\ UNCHANGED <<now, trusted, createdAt, expiresAt, nextAttemptAt, answers, requester, cur,
                   run, engine, faults, history>>

-----------------------------------------------------------------------------

\* One round of the loop of plan().
Read(j) == ReadFailure(j) \/ ReadStatus(j) \/ ReadAnswer(j) \/ ReadNothing(j) \/ GiveUp(j)

Requester(j) == Ask(j) \/ Read(j) \/ Abandon(j)

\* What the worker does while its process lives and nothing goes wrong.
Work ==
    \/ Poll \/ Deduplicate \/ ExpireLocally \/ StartAttempt \/ Execute \/ SealResult \/ FailSeal
    \/ Report
    \/ \E cause \in Causes : FailAttempt(cause) \/ LeaveForRetry(cause)

Handle(c) == Admit(c) \/ HandleNext(c) \/ HandleSubmit(c) \/ HandleFail(c)

Next ==
    \/ Tick \/ Revoke
    \/ \E j \in Jobs : Requester(j)
    \/ Work \/ Crash \/ Restart \/ ServerError
    \/ \E c \in calls : Handle(c) \/ Lose(c)

Spec == Init /\ [][Next]_vars

\* The clock moves; plan() keeps reading; a running worker goes on polling and
\* the server answers a worker that waits.  A call nobody waits for is handled
\* or dropped in the end.  Nothing restarts a dead worker, and no error has to
\* happen.
Fairness ==
    /\ WF_vars(Tick)
    /\ \A j \in Jobs : WF_vars(Read(j))
    /\ WF_vars(Work)
    /\ WF_vars(\E c \in calls : c.live /\ Handle(c))
    /\ WF_vars(\E c \in calls : ~ c.live /\ (Handle(c) \/ Lose(c)))

FairSpec == Spec /\ Fairness

-----------------------------------------------------------------------------
(* Properties.                                                             *)

\* A request has at most one result, whichever of several processes and late
\* calls submit one: submit_result and the unique constraint of ai_jobs.
OneAnswer == \A a, b \in answers : a.job = b.job => a = b

\* A result row is the product of an execution that succeeded, in the attempt
\* its id names: nothing a late or repeated call does makes one up.
AnswersWereExecuted ==
    \A a \in answers : [job |-> a.job, run |-> a.id[1], attempt |-> a.id[2]] \in executed

\* Within one process the executor succeeds at most once for a job, through
\* redelivery, retry and lost answers: encrypted-job-engine.ts keeps the
\* side effects of the Local Core from being repeated.
OncePerRun ==
    \A e, f \in executed : e.job = f.job /\ e.run = f.run => e = f

\* A request is failed only on a terminal failure of the engine: an attempt
\* that may be retried never fails it.
FailedHasVerdict ==
    \A j \in Jobs : status[j] = "failed" => j \in verdicts

\* A completed request has its result row.
CompletedHasAnswer ==
    \A j \in Jobs : status[j] = "completed" => \E a \in answers : a.job = j

\* A requester that got a result holds the one result of its request, and a
\* requester that was told of a failure got none.
RequesterSawTheAnswer ==
    \A j \in Jobs : IF asked[j] = "answered"
                    THEN [job |-> j, id |-> got[j]] \in answers
                    ELSE got[j] = NoAnswer

\* What makes the invariants above inductive.  A job in the worker's hands has
\* been asked for; its engine has attempts left until it has an outcome; an
\* outcome has its history; and once an execution of this process succeeded
\* the job is being sealed or has its outcome.
WorkerInvariant ==
    /\ pc \in {"received", "attempting", "sealing", "report"} => cur \in Jobs
    /\ cur \in Jobs => asked[cur] # "new"
    /\ pc \in {"attempting", "sealing"} => outcome[cur] = "none" /\ tries[cur] # 0
    /\ pc = "sealing" => [job |-> cur, run |-> run, attempt |-> tries[cur]] \in executed
    /\ pc = "report" => outcome[cur] \in {"succeeded", "failed"}
    /\ \A j \in Jobs : outcome[j] = "none" =>
          \/ tries[j] < MaxAttempts
          \/ pc = "dead"
          \/ pc \in {"attempting", "sealing"} /\ cur = j
    /\ \A j \in Jobs : outcome[j] = "succeeded" =>
          tries[j] # 0 /\ [job |-> j, run |-> run, attempt |-> tries[j]] \in executed
    /\ \A j \in Jobs : outcome[j] = "failed" => j \in verdicts

HistoryInvariant ==
    \A e \in executed :
       /\ e.run <= run
       /\ e.run = run => \/ outcome[e.job] # "none"
                         \/ pc = "dead"
                         \/ pc = "sealing" /\ cur = e.job

\* The worker waits for at most one call, and every call is about something
\* that happened.
CallInvariant ==
    /\ \A c \in calls : c.live => pc = "waiting"
    /\ \A c, d \in calls : c.live /\ d.live => c = d
    /\ \A c \in calls : c.op # "next" => c.job \in Jobs /\ asked[c.job] # "new"
    /\ \A c \in calls : c.op = "submit" =>
          /\ c.id \in AnswerIds
          /\ [job |-> c.job, run |-> c.id[1], attempt |-> c.id[2]] \in executed
    /\ \A c \in calls : c.op = "fail" => c.job \in verdicts

RequestInvariant ==
    /\ \A j \in Jobs : status[j] # "none" => asked[j] # "new"
    /\ OneAnswer /\ AnswersWereExecuted /\ OncePerRun
    /\ FailedHasVerdict /\ CompletedHasAnswer /\ RequesterSawTheAnswer

Inductive ==
    TypeOK /\ WorkerInvariant /\ HistoryInvariant /\ CallInvariant /\ RequestInvariant

\* While the compute node keeps polling, no request stays queued or leased
\* for ever: it is completed, failed or expired.
EveryRequestSettles ==
    \A j \in Jobs : status[j] \in Pending ~> (status[j] \notin Pending \/ pc = "dead" \/ ~ trusted)

\* plan() ends, whatever becomes of the compute node.
EveryPlanEnds ==
    \A j \in Jobs : asked[j] = "waiting" ~> asked[j] \notin {"waiting", "reading"}

\* The relay, its worker and its requester together implement RelayPromise.
Promise == INSTANCE RelayPromise WITH
    Jobs <- Jobs, AnswerIds <- AnswerIds, NoAnswer <- NoAnswer,
    answers <- answers, got <- got,
    asked <- [j \in Jobs |-> IF asked[j] = "reading" THEN "waiting" ELSE asked[j]]

RelayKeepsItsPromise == Promise!Spec

\* A completed request is not failed afterwards: mark_failed refuses with
\* "AI relay request is already completed".
CompletedIsFinal ==
    [][\A j \in Jobs : status[j] = "completed" => status'[j] = "completed"]_vars

\* Nothing the worker sent was ever left to the server: no answer was lost to
\* it and no process ended.
NothingAbandoned == faults = 0 /\ run = 1 /\ pc # "dead"

\* What the relay holds agrees with the outcomes of the one process there was.
OneProcessInvariant ==
    NothingAbandoned =>
       /\ \A c \in calls : c.live
       /\ \A c \in calls : c.op = "submit" => outcome[c.job] = "succeeded"
       /\ \A c \in calls : c.op = "fail" => outcome[c.job] = "failed"
       /\ \A a \in answers : outcome[a.job] = "succeeded"

\* A completed request stays completed as long as the worker never abandoned a
\* call: mark_failed needs one handled late to overwrite it, and no other
\* order of handlers, leases and retries does.
CompletedUnlessAbandoned ==
    [][NothingAbandoned =>
          \A j \in Jobs : status[j] = "completed" => status'[j] = "completed"]_vars

\* plan() throws an error of the relay only with a cause, whatever has become
\* of the request since: a failure for a verdict of the engine, an expiry for
\* a deadline that has passed.
ErrorsHaveCauses ==
    \A j \in Jobs :
       /\ asked[j] = "failed" => j \in verdicts
       /\ asked[j] = "expired" => expiresAt[j] <= now

ExpiredWasDue ==
    \A j \in Jobs : status[j] = "expired" => expiresAt[j] <= now

=============================================================================
