# Lifly: TLA+ models, checks and proofs

Lifly is a personal assistant for tasks, ledgers and memos. A Flutter client keeps everything in a
local database (the *Local Core*, PowerSync over SQLCipher), a FastAPI backend stores what the
devices seal end to end, and a desktop process can act as *compute node*: it plans AI captures for
the phone over an encrypted relay. This directory models the parts of that system where several
processes, failures and orders of events meet; the rest is listed with the reason it is left out.

    tlc -config MCAiRelayOne.cfg MCAiRelay        # model-check one run
    tlapm AiRelayProofs.tla                       # check the proofs of one component

Contents: [inventory](#inventory), [modules](#modules-and-how-they-correspond-to-the-code),
[runs](#runs), [fairness](#fairness), [proofs](#proofs),
[disagreements](#where-the-code-disagrees-with-its-documents), [not modelled](#not-modelled-and-why),
[what could come next](#what-could-come-next).

| Component | Specification | Promise it implements | Proofs |
|---|---|---|---|
| AI relay, worker, plan client | `AiRelay` | `RelayPromise` | `AiRelayProofs` |
| Encrypted sync | `EncryptedSync` | `SyncPromise` | `EncryptedSyncProofs`, `SerialSyncProofs`, `SyncAgreementProofs` |
| Database at rest | `DatabaseSealing` | `DurableStore` | `DatabaseSealingProofs` |
| Tasks' reminders and their dispatch | `TaskReminders` | `ReminderPromise` | `TaskRemindersProofs` |
| Capture in the Local Core | `CaptureStore` | `CapturePromise` | `CaptureStoreProofs` |
| Desktop bridge to the Local Core | `DesktopBridge` | `LocalCoreService` | `DesktopBridgeProofs` |

## Inventory

Paths of the client are below `src/apps/client_flutter/lib/`, of the server below
`src/services/api/app/modules/`, of the compute node below `src/services/local-mcp/src/`.

| Component | State | Operations | Talks to |
|---|---|---|---|
| AI relay (`ai_relay/`) | rows of `ai_jobs`: status, lease, expiry, result rows | post, lease next, submit result, mark failed, read result | requester and worker over HTTP |
| Compute node worker (`relay-worker-main.ts`, `encrypted-relay-worker.ts`, `encrypted-job-engine.ts`) | attempts and outcomes in memory | poll, decrypt, execute, seal, report | relay, Local Core |
| Plan client (`features/ai_capture/data/compute_node_plan_client.dart`) | one pending request per `plan()` | seal, post, poll, give up | relay |
| Encrypted push (`sync/encrypted_service.py`, `sync/router.py`) | `encrypted_entities` | one batch, one transaction, revision compared per envelope | devices |
| Encrypted store and projection (`data/powersync/encrypted_sync_store.dart`, `local_decrypted_projection.dart`) | rows, envelopes, projection state, upload queue | seal at commit, upload, download, list, project | encrypted push, PowerSync |
| Local database at rest (`data/powersync/sync_service.dart`) | database file, log, backup, temporary copy, key | open, migrate a plain database, recover | file system, secure store |
| Task and reminder store (`data/local_core/task/`) | tasks, strategies, reminders | edit, confirm, dismiss, claim, mark, retry, cancel | dispatcher, pages |
| Reminder dispatch (`features/reminders/data/`) | one timer, a batch per cycle | claim, show, mark, schedule the next wake | store, platform |
| Capture in the Local Core (`data/local_core/capture/`) | sessions, turns, candidate actions, undo entries | append, revise, dismiss; commit and undo, several transactions each | task, memo and ledger stores, capture page |
| Desktop bridge (`desktop-core-transport.ts`; host `local_core_host_main.dart` of the client; contract `src/packages/local-core/`) | calls that wait, one host process, a buffer of its output; the host's queue of lines | call, time out, spawn, fail, close; read a line, handle it, answer | local MCP server, compute node, Local Core |
| Capture on the server (`mcp/`) | the same tables | the same, one transaction per request | Cloud MCP |
| Device registry (`devices/`) and sessions (`auth/`) | trust, default compute node, sessions, login flows | enrol, trust, revoke, log in, refresh | relay, sync |
| Imports (`imexport/`) | batches in preview, imported, rolled back | preview, commit, roll back | ledger |
| Plaintext entity migration, key rotation, assets | markers, envelopes, objects | re-runnable passes | encrypted store |
| Ledger, memos, search, home, plugins, UI, packages, infrastructure | rows, or nothing | single transactions (but `createMemo`, see `CaptureStore`), queries, declarations | |

`PROJECT.json` lists every component with its files.

What makes them correct, and what makes that hard:

- **Relay and worker.** A request has one result, made by an execution that happened; side effects on
  the Local Core are not repeated by a redelivery; a retryable attempt never fails a request; the
  requester gets an end. Hard because the lease is shorter than an execution may take, because a handler
  reads and writes in two steps without a lock, because a result is read in two queries, because a call
  whose answer was lost may be handled after the worker has moved on, and because the worker forgets
  everything when it dies.
- **Encrypted sync.** No device loses an edit it has not uploaded, none shows content that nobody
  sealed or goes back to an older revision, and all agree in the end. Hard because edits are made
  while a batch is under way, a lost answer sends a batch twice, envelopes are decrypted from a list
  read earlier, and two handlers may read one row before either writes it, and then write the columns
  that differ from what they read.
- **Database at rest.** Encrypting an old database survives a kill at any step, loses nothing and
  leaves no plain copy. Hard because it is three renames, an export and a deletion, none of them
  atomic with another.
- **Reminders.** A task has one reminder to dispatch, a delivered one was shown, a claim is not
  broken by another cycle, and a reminder with attempts left is tried again. Hard because confirming
  and dismissing are several transactions, because two dispatch cycles overlap when the app is
  resumed, because a strategy is found and written in two statements, and because the app is killed
  between a claim and its mark.
- **Capture.** What a commit says that it created can be undone, a turn that shows as committed has a
  token that works, a revision replaces what it revises, and a session remembers what it has committed.
  Hard because a commit and an undo are several transactions that decide on what was read before them,
  because an action may fail after it has stored its entity, and because a page that is left does not
  end the operation it was running.
- **Desktop bridge.** One host owns the database, no call waits on a host that is gone, and a caller
  is told the truth about its call. Hard because everything about a host (its exit, the rest of its
  output, half a line in a shared buffer) may arrive when its successor is at work, because a call
  given up is still executed, because a killed host leaves half a commit behind, and because single
  actions of a commit and single deletions of an undo fail without failing the call.
- **Imports, registry** (not modelled): a batch is imported once; a revoked device has no session.

The `hazards` of `PROJECT.json` name the line at which each of these bites, and the property that
would catch it.

## Modules and how they correspond to the code

A step of a model is what happens between two points at which the code can be interleaved, killed or
made to fail: a transaction, an awaited call, the read and the write of a handler. Payloads, keys,
wording, audit rows and pagination are left out. Definitions commented "Mutant of ..." are not part of
the system: each is a wrong variant of the definition it names, and shows that a property can fail.

### `AiRelay`, `RelayPromise`

`Ask`, `ReadFailure`, `ReadStatus`, `ReadAnswer`, `ReadNothing`, `GiveUp`, `Abandon` are `plan()` of the
requester and the handler it polls: a request is posted, its result read until there is an answer, an
error, or the deadline. A read is two queries, first of the status (`ReadFailure`, or `ReadStatus`),
then of the result row (`ReadAnswer`, `ReadNothing`), and anything may happen between them. `Poll` to
`Report` are `runOnce` and `EncryptedAiJobEngine.execute`: a stored outcome is reported again
(`Deduplicate`), an attempt is counted (`StartAttempt`), fails for good (`FailAttempt`) or is left to
its lease (`LeaveForRetry`), the executor returns (`Execute`), and the result is sealed (`SealResult`)
or not (`FailSeal`, terminal whatever the error). `Crash` and `Restart` empty `tries` and `outcome`, the
maps of the engine. A call in the hands of the server is a record of `calls`: `Admit` is the handler's
read (trust of the device, the row), `HandleNext`, `HandleSubmit`, `HandleFail` its write, deciding on
what it read (`seen`). `HandleNext` passes over what another call may hold a lock on (`Locked`, the
`SKIP LOCKED` of the query), so that a worker may be told that nothing is due although something is.
`live` says whether the worker still waits: after `ServerError` or `Crash` the call may still be
handled, or never (`Lose`). `executed` and `verdicts` are history.

`RelayPromise` is the contract seen by a requester in four actions: a request is answered at most
once, the answer never changes, and `plan()` ends at most once, with the answer of its own request if
with any. `AiRelay` refines it with the identity mapping on `answers`, `asked` and `got`; everything
else (leases, processes, calls) is hidden.

### `EncryptedSync`, `SyncPromise`

The entities are ledger budgets: the one kind whose deletion is sealed as a tombstone and whose creation
has a business guard. `Create`, `Update`, `Delete` are the store's transactions; `Write` is what the
committer does in each of them (row, envelope, projection state and upload queue together, refused when
the envelope is already newer). `StartPush`, `Commit` and `Timeout` are `uploadData` and the HTTP call:
`Commit` drops the batch that was sent, `size` changes, and keeps later ones. A slot of `push` is a
handler with its database transaction: `ReadEntity` reads a row without a lock,
`SkipEntity`/`WriteEntity` act on the revision read, `staged` is what the transaction has written and
others do not see; `Written` is the row that results, as SQLAlchemy emits only the columns that differ
from the row it has read: of two handlers with one row the second may leave the lifecycle status of the
first under its own revision and ciphertext. `Waits` is a row lock held until commit, `Conflicts` a
duplicate key, and `Abort` their error, the one that breaks a cycle of waiting handlers however long it
is, or any other failure. `Download` is PowerSync (external: applied as a whole once the queue is
empty), `ListPending` and `Materialize` are the two halves of `materializePendingEnvelopes`, `Reject`
the envelope that does not decrypt (not `Authentic`: the cipher covers the status) and ends the pass,
and `Restart` a killed app. Update time and key version are columns of the same kind, authenticated like
the status, which stands for them.

`SyncPromise` is what the user of several devices sees, as long as the server runs one handler at a
time: versions (a revision and what it shows). `Edit` makes the next version of what its device
shows; `Accept` lets the server take over newer versions that somebody made; `Show` lets a device
take over a newer one, which is no newer than the server's. Queues, batches, envelopes, retries and
projections are hidden: `AllVersions` is what was ever sealed, `ServerVersions` the rows of the server,
`DeviceVersions` the projected revision of each row with what the row shows.

### `DatabaseSealing`, `DurableStore`

One action per step of `SyncService.initialize` and `_migratePlaintextDatabaseIfNeeded`. A file holds
the number of transactions committed to it, so that `Found`, what the next process would open, can be
compared with `committed`. `Stop` is a kill or a throw before a step changed anything (an export may
leave a partial file); `InstallThrows` is the `catch` that puts the plain file back.

`DurableStore` is what is left when the files are hidden: the transactions that can be found, whether the
store is open, and whether anything of it can be read without the key. They are never fewer, it opens
only when nothing is plain, and what was encrypted is never plain again; it is refined with `Found`,
`pc = "ready"` and `Readable` (a plain file, a plain backup, or a log).

### `TaskReminders`, `ReminderPromise`

Every transaction of `PowerSyncTaskStore` that writes a reminder or a strategy is one action. `strategy`
has the rows of a task that are not dismissed, the latest first. Confirming and dismissing both begin
with `FindStrategy` and `WriteStrategy`, the two statements of `_upsertStrategy`: the row found may be
replaced, or one be inserted, between them, which `present` tells. Confirming goes on, if there is a
time, with `ConfirmUpdatesTask`, `FindReminder`, `StoreReminder`; dismissing with `FinishDismiss`; the
variable `flow` is where the flow stands, and `FlowThrows` and `Crash` cut it there. The pages name the
task and never the strategy, so the variant by `strategy_id` is left out. A dispatch cycle is `Start`
(timer, or the app opened or resumed), `ClaimDue`, `Deliver`, `MarkDelivered`/`MarkFailed`,
`ScheduleNextWake`; `MarkThrows` and `CycleThrows` are its error paths. A token is the cycle that made
it: the real token is drawn afresh for each claim, and a cycle has one claim of a reminder at a time.
`shown` and `cut` are history.

`ReminderPromise` knows reminders with a task, a status and the tries so far, what each cycle has
counted a try for and not shown yet (`hands`), and what was shown since it was set. Leases, tokens, due
times, the flows of the user and the marks that get lost are hidden. Its actions are the only ways
from status to status: `Set` gives a task a reminder when no other waits for it, `Claim` counts a try
before `Show` may show the notification, once, and `Deliver` needs that it was shown.

### `CaptureStore`, `CapturePromise`

One session of `PowerSyncCaptureStore` and its turns of candidate actions. An operation that writes in
one transaction but decides on an earlier read is a `Begin...` and a `Finish...` (append, revise,
dismiss); `BeginCommit`, `CreateEntity` per action and `MarkCommitted` are the transactions of
`captureCommit`. `CreateEntity` has three outcomes: the entity is there; the action has failed and nothing
is; or, for a memo (`Memos`), the action has failed and the memo is there, because `createMemo` commits
it and then classifies it in some ten statements of their own, any of which may throw. `stray`
remembers those. `BeginUndo`, `DeleteEntity` per entry and `FinishUndo` are those of `captureUndo`, which
marks also the entries used whose entity it could not trash. A record of `flow` is an operation under
way with what it has read. The page runs one at a time, but one that is left does not cancel its own, so
that the next page can start another: the history variable `overlapped` tells the two situations
apart, and each property says which it is about. `Throws` and `Kill` end an operation between two
transactions; `Expire`, `UserTrash` and `UserRestore` are what happens around it. `cut` remembers the
commits that ended before they marked, `left` the entities an undo said it could not trash.

`CapturePromise` is about commits and their undo tokens, whatever operations overlap: a commit is made,
and then marked or cut; once marked its token covers all that it made and did not report as failed; what
an action made that it reports as failed is `Miss`ed, and no token ever covers it; `Use` takes the token
away only when all that it covers is gone or the user was told that it is not, and every turn that
showed the token stops doing so; nothing gives a token back. Sessions, drafts, revisions and what
operations have read are hidden.

The model shows, and the properties except, what the code does accept: a kill between the entities
and the mark leaves active entities without an undo entry (`cut`); a memo whose classification throws
stays without one, and if its turn had no other action the turn is "failed", can be committed again and
then makes a second memo (`stray`); and two overlapping commits of a
turn create its entities twice, each with a token of its own (`NothingUntraced` holds,
`LiveEntitiesBelongToTheirTurn` is only about one operation at a time).

### `DesktopBridge`, `LocalCoreService`

`Invoke`, `InvokeSpawns` and `InvokeBreaks` are `invoke()` with a host, without one, and with one whose
pipe is broken; `Timeout` is the timer of a call; `HalfLine` and `LineEnds` are `consumeStdout` for a
chunk that ends inside a line and one that completes it; `ExitEvent` and `Close` are `failChild` and
`close()`. `proc` tells a host that has exited from one whose exit the transport has heard of ("gone"):
in between a new host may be at work, and `FailChild` kills it, whichever host failed. The host reads
lines one by one (`InitRuntime`, `NotReady`, `Handle`), does a commit or an undo in two writes
(`CommitMakes`/`CommitMarks`, `UndoTrashes`/`UndoMarks`; `CaptureStore` has them one by one) and prints
its answer (`Respond`). A commit may make all, some or none of its entities, and an undo trash all or
some; the answer is then "done", "part" (`failed_actions`, `failed_entities`) or "nothing". Both may
leave an entity that no token covers (`Leaves`, history variable `left`): the memo of a failed action,
and what `captureUndo` could not trash while it marks its entry used. `memo_create` may have its effect
and be answered with an error (`HandleWrite`). `HostExits`, `PrintsStray`, `MarkThrows` and a failed
spawn are the faults. A killed host is taken to be dead before its successor has started. `done` and
`torn` are history.

`LocalCoreService` is what the bridge interface promises its callers, as the in-memory
`FakeLocalCoreBridge` of the tests does it: each call has its whole effect in one step (`Perform`), a
capture is committed at most once and trashed at most once, and a caller is told that a call is done
only once it is and has left nothing behind, that it is done in part only once it is, and that nothing
was done only if it never is (`Reply`). `Leave` is what a commit or an undo may leave behind on its way,
also one that is answered "nothing", and never one that is answered as done. `Fail` is the price of the
process boundary: calls end in errors that say nothing of their effect, and a capture in the hands of a
dying host is `torn`. `DesktopBridge` implements it with `open` the turns that can be committed and are
whole, and `live` the commits whose entities are active (those that their token covers), without those a
host is just making and with those it is just trashing.

## Runs

`CHECK_DEADLOCK FALSE` everywhere: these systems may stop (no request left, nothing to upload, the
database open) and the bounds on the clock, edits and faults end every behaviour.

| Run | Question | Bounds |
|---|---|---|
| `relay_one_job` | One request through retries, lease expiry, crashes, restarts, 5xx answers, late calls and reads in two queries: invariants, refinement of `RelayPromise`, liveness | 1 job, lease 1, ttl up to 3, clock 4, 2 attempts, 2 processes, 1 fault, 2 calls at once |
| `relay_completed_is_final` | violated: a failure report overwrites a completed request | 1 job, lease 1, ttl 2, clock 3, 2 attempts, 2 processes, 2 faults, 3 calls |
| `sync_serial` | One handler at a time: no edit is lost, no envelope goes back, refinement of `SyncPromise`, and the devices agree in the end on a budget that one of them edits, whatever becomes of the other budget | 2 devices, 2 budgets of one month and category (one edited on one device, one on both), 2 edits on each device, 1 break, 1 fault |
| `sync_races` | Two handlers at once, which may mix the columns of two envelopes: what a device shows was sealed, what it hides was deleted, and it never goes back | 2 devices, 1 budget, 2 edits each, 2 slots |
| `sync_regress` | violated: the server goes back to an older revision | 2 slots, no faults |
| `sync_diverges` | violated: two editors of one entity need not agree | 1 slot, no faults |
| `database_sealing` | Kills and throws at every step of the encryption: invariants, refinement of `DurableStore`, the database opens | 3 commits, 3 faults, any initial content |
| `reminders` | Edits, confirmations and dismissals in two statements, a cycle, failures, a kill: one reminder waits, and it was confirmed; what is final | 1 task, 2 reminders (symmetric), 1 cycle, 2 attempts, clock 2, lease 1, 3 live strategies, 2 failures, at most 1 of them a kill |
| `reminders_tried` | Two overlapping cycles: leases, refinement of `ReminderPromise`, and a reminder with attempts left is tried again | 1 reminder, 2 cycles, 2 attempts, clock 1, lease 1, 1 live strategy, 1 failed transaction or kill |
| `reminders_given_up` | violated: a reminder out of attempts stays pending | as `reminders`, with 2 cycles, 1 live strategy and 1 failure |
| `desktop_bridge` | Hosts that exit, print bad lines or answer late: invariants, refinement of `LocalCoreService`, every call ends | 3 calls, 1 awaited at once, 2 hosts, 1 fault |
| `capture` | Commits, undos and revisions that overlap, throw or are killed: invariants, refinement of `CapturePromise`, what a session remembers | 2 operations at once and 2 actions (symmetric), 2 turns, 2 commits, 2 events from outside |

Why these bounds are enough to be interesting. A lease of one tick and a clock of four let a request be
delivered, run out, be delivered again and expire; two attempts separate "retry" from "last"; two
processes are what it takes to submit a second result under another id; two calls at once let an
abandoned one race its successor. Two edits on a device let it edit before and during a batch, or during
it and after; one break is a lost answer or a killed app, and with two slots the abandoned handler runs
against its repetition. Three faults let the encryption be interrupted, interrupted while recovering,
and again. Two reminders let confirmation insert a second one if it ever could, and three live
strategies let suggestions come in between the two statements of a confirmation and of its successor;
two cycles and a lease of one minute let a claim be overtaken while its cycle still delivers. The races
of flows and the races of cycles meet only in a reminder's row, so each has a run of its own: one with
many strategies and one cycle, one with two cycles; the theorems have both together. In
`reminders_tried` either a transaction fails or the app is killed, so that a throwing cycle loses the
timer too, and gets one back when the user opens the app. Three calls are a parse, its commit and its
undo or a second commit; two hosts let the exit, or a late line, of one meet the other's work, and a
kill needs no fault: a bad line or `close()` does it. That one fault may also be spent on an entity that
is left behind. Two commits are two tokens of one turn, or of a turn and its revision; two operations
are what it takes to overlap; two outside events let an entity be trashed and restored, or trashed and
its commit's undo fail, or two memos of one turn stay behind. The largest runs have 3.7 million states
(`capture`) and 1.4 million (`reminders`). The theorems below do not depend on the bounds.

The invariants that make the proofs go through (`Inductive` in each module) were model-checked on
these instances before they were proved; they are not listed as properties of the runs, as the
theorems establish them for every instance.

## Fairness

- **Relay** (`Fairness` of `AiRelay`): the clock moves; `plan()` polls in a loop until it ends; the
  main loop of a live worker polls, works and reports without end; the server answers a call the
  worker waits for, and one that nobody waits for is handled or dropped in the end. Nothing restarts
  a dead worker: `EveryRequestSettles` therefore says "or the worker is dead, or not trusted any
  more", and `EveryPlanEnds` holds without the worker. No fairness is needed on errors, although
  one weak-fairness condition covers the steps of the worker as a whole, so that it need not succeed.
- **Sync**: a connected device keeps uploading (PowerSync repeats `uploadData`), downloading, listing
  and projecting, or ends its pass at an envelope that does not decrypt; a handler goes on until it
  commits or fails. No device has to edit. `SingleEditorConverges` follows from that: a budget edited on
  one device is shown alike on all once editing ends, although its pushes share batches with the
  disputed budget of two editors.
- **Database**: `initialize()` is called again and runs on. The number of faults is bounded; with
  unbounded faults nothing can be promised.
- **Reminders**: time passes, a set timer fires, a cycle goes on, and the user opens the app again,
  some time, when there is no timer and no cycle (after a kill only that can wake it).
- **Desktop bridge**: timers fire. Nothing is assumed of the hosts, which may hang or die, so
  `EveryInvokeSettles` is the transport's own promise; it excepts a Node process that has gone down with
  a broken pipe.
- **Capture** has no liveness property: nobody has to go on with a session.

## Proofs

Checked by TLAPS for every value of the constants that satisfies the named assumption of the module
(`RelayAssumption`, `SyncAssumption`, `SealingAssumption`, `ReminderAssumption`, `CaptureAssumption`,
`BridgeAssumption`: numbers are natural numbers, leases and attempts are not zero, `NoJob`,
`NoDevice` and `None` are not members of the sets they stand outside of). Any number of jobs, processes,
calls, devices, handlers, entities, tasks, reminders, cycles, operations, turns, commits, hosts, faults
and kills. The theorems of `SerialSyncProofs`, and of `SyncAgreementProofs` those that say so, assume
besides that there is at most one handler (`OneHandler`), without which `sync_regress` refutes them.

Every module of proofs has the same shape: `Init => Inductive`, one lemma per action (or per group of
actions that change the same variables) for `Inductive /\ A => Inductive'`, and a theorem
`Spec => []Inductive` from which each property follows; an action property uses `Inductive` as the
invariant of its step.

Every component also implements an abstract specification of what it promises, with a theorem
`Refinement` (`Spec => Promise!Spec`): its initial states map to initial states, and one lemma per action
says to which abstract step it maps, or that it is a stutter. These say more than the invariants: a
promise lists *all* that may become of its variables, so that a status, a token or a version changes in
no other way. A step of a refinement often needs more than the invariants did, which the entries
below name.

- **`AiRelayProofs`**. The invariants are not inductive alone: that one process executes a job once
  needs the relation of `outcome`, `tries`, `pc` and the executions of the *current* run
  (`WorkerInvariant`, `HistoryInvariant`), and that results are of executions needs the same of the
  calls under way, abandoned ones included (`CallInvariant`): a call to submit names an execution, a
  call to fail a verdict, and at most one call is waited for. Theorems: `TypeCorrect`,
  `AnswerCorrect`, `NoMadeUpAnswer`, `ExecutedOnce`, `StatusCorrect`, `CompletedCorrect`,
  `RequesterCorrect`, and `Refinement`, that the
  relay implements `RelayPromise`: initial states map to initial states, `Ask` to `Ask`, an inserting
  `HandleSubmit` to `Answer`, `ReadAnswer` to `Return`, the other ends of `plan()` to `Throw`, and
  every other step to a stutter. The step of `HandleSubmit` needs `CallInvariant`: a late call may
  only answer a request that was asked. `CompletedStays` says exactly what `relay_completed_is_final`
  takes: while no call was abandoned (`NothingAbandoned`: no 5xx, the first process, alive) a completed
  request stays completed, since every call and every result agrees with the one outcome the engine has
  for its job (`OneProcessInvariant`). `NoErrorWithoutCause` holds with any faults: what `plan()` throws
  for a failure or an expiry has its verdict or its deadline behind it (`ErrorsHaveCauses`), even when
  a late result has completed the request since.
- **`EncryptedSyncProofs`**. `SealedInvariant` follows envelopes through every place they can be in
  (server, staged rows, batches, queues, downloads, pending lists): those that decrypt were sealed, the
  others are mixtures of two handlers; `RowInvariant` ties the revision
  of a row to the projection state, which is 0 until somebody sealed the entity. From them
  `RowsCorrect` (content on a device was sealed under that revision, and what it hides was deleted under it,
  whatever races on the server) and
  `ProjectionMonotone`.
- **`SerialSyncProofs`**. With one handler at a time. `WriteFacts`: what the handler read is still what
  its transaction sees, and what it has staged is newer than the server; `BatchFacts`: while the
  device waits, the rest of the batch is in its queue where it was when it was sent, and the part the
  handler has been through is on the server or staged, in that revision or a newer one. Neither is
  inductive without `NothingUnsentIsForgotten`, and the three are proved together (`SerialHolds`): at the
  commit a change newer than the server lies behind the batch, so it survives the cut of the queue.
  A handler writes whole envelopes, as the row it has read is still the same (`WholeWrites`), so that every
  envelope opens (`EverythingOpens`). From the invariants `NothingForgotten`, `CloudMovesForward` and
  `EnvelopesMoveForward`: a download finds the
  server at least as far as a device that has nothing to send.
- **`SyncAgreementProofs`**. Why devices agree. `Agreement`, for any number of handlers: the only editor
  of an entity has projected every revision it sealed (`EditorInvariant`), so that its next edit is the
  first of its revision, and a revision has one content (`OneContentPerRevision`); a row shows what was
  sealed under its revision, deleted or not. `DownloadInvariant`, for one handler: a projection is never
  ahead of its envelope, and behind it only while the envelope is the server's, or older. With both,
  `RestMeansAgreement`: when no handler runs and no device has anything left to upload, download or
  project, every device shows what the server holds of an entity that one device edits. That is what
  `SingleEditorConverges` says, apart from the claim that fairness brings the system to rest.
  `Refinement`: `Create`, `Update` and `Delete` map to `Edit`, a handler's `Commit` to `Accept` (it
  needs `WriteFacts`: what is staged is newer), `Materialize` of an envelope that is still ahead to
  `Show`.
- **`DatabaseSealingProofs`**. `Resting` says which combinations of files a dead process can leave,
  `Ready` what each step finds. From them `DataSurvives`, `PlaintextRemoved`, `RecoveryIsAutomatic`,
  `KeyIsKept`. `Refinement`: the deletion of the last plain copy is `Encrypt`, a commit `Add`, and a kill
  of an open database `Close`. Of `EventuallyOpen` everything but fairness is proved: `InitializeGoesOn`
  (until the database is open, the step that `initialize()` is at can deal with the files it finds) and
  `StepsAreBounded` (a natural number, of the faults left and the steps left, falls with every step
  that is not a commit).
- **`TaskRemindersProofs`**. `RowInvariant`, `FlowInvariant` and `CycleInvariant` say what a row, a
  half-done confirmation and a cycle between claim and mark know of each other: that `FindReminder`
  found nothing means no active reminder can have appeared before `StoreReminder` inserts one, which
  holds only because flows are serial and no other operation makes a reminder active for a task that
  has none. From them `OneReminder`, `DeliveryIsReal`, `ReminderHasReason`, `LeasesHold`,
  `FinalIsFinal`, and in `TypeCorrect` the bound on attempts. `Refinement` needs one fact more,
  `FoundInvariant`: a reminder that a confirmation has found, and is about to set anew, is of its task.
  `ClaimIsInHand` says what `reminders_given_up` takes: while the app is not killed and at most one
  transaction has failed, whatever a token holds is still to be shown by its cycle or being shown
  (`ClaimsAreInHand`), because a mark that throws is followed by the mark of its failure
  (`HandsInvariant`). So a claim that no cycle will settle, which on the last attempt gives the reminder
  up, needs a kill or two failures.
- **`CaptureStoreProofs`**. The properties say what a commit or an undo leaves when it is over; the
  invariant says what each has in hand until then. `FlowInvariant`: a commit is made in one flow and no
  undo has it before it marked; `EntityInvariant`: a commit knows what it has made so far, but for the
  memos in `stray`, and an undo has every entity that is still to be trashed in its list;
  `TokenInvariant`: a token is of a commit of its turn, and an undo knows the turn that shows its token;
  `SerialInvariant`: while no two operations overlap, what the one under way has read is still so. From
  them `CommitsAreTraced`, `TokensWork`, `NoStrayEntities` and `SessionsRemember`. `Refinement` needs
  `MadeInvariant` besides: a commit in hand knows all that it has made and not reported as failed, and
  not only what is still active, a token covers nothing that was never made, and a commit that was cut
  is over. `CreateEntity` is `Make` or `Miss`, `MarkCommitted` is `Mark`, `Throws` and `Kill` are `Cut`;
  `FinishUndo` is `Use`, or, when another undo has used the token before, at most `Hide`; `FinishRevise`
  is `Hide`, and a trashed entity `Trash`.
- **`DesktopBridgeProofs`**. The invariant says where a call can be: in the input of a host, and then
  nothing of it exists (`InboxInvariant`); in the hands of the one host that runs (`HostInvariant`,
  `WorkInvariant`); or in a line on its way back, which tells the truth (`LineInvariant`): "done" only
  if nothing was left. That a call is in one of these places only is why a late line settles its own
  call and no other. `StoreInvariant` and `TokenInvariant` tie turns, entities and tokens of captures
  that are whole to each other. Theorems: `TypeCorrect`, `OneHostHolds`, `PendingHolds`, and
  `Refinement`, that the bridge implements `LocalCoreService`: `Invoke` and its variants map to `Call`,
  `Timeout` and a line that settles a call to `Reply`, whatever kills a host or rejects calls to `Fail`,
  `HandleWrite`, `HandleParse`, `CommitMarks` and `UndoMarks` to `Perform`, a first half of a commit or
  an undo that leaves an entity to `Leave`, and every other step, the first halves that leave none
  included, to a stutter.

Only model-checked: everything about liveness (`EveryRequestSettles`, `EveryPlanEnds`,
`SingleEditorConverges`, `EventuallyOpen`, `EveryReminderIsTried`, `EveryInvokeSettles`), since fairness
and ENABLED are out of the provers' reach; what of `SingleEditorConverges` and `EventuallyOpen` can be
said without them is proved. `CompletedHasAnswer`, `RequesterSawTheAnswer`, `DeliveredWasShown` and,
with one handler, `CloudNeverGoesBack` are proved and not checked by a passing run of their own, where
the refinements check more; `CompletedUnlessAbandoned`, `ErrorsHaveCauses` and `ClaimsAreInHand`, which
complement the runs that find a violation, are proved too and stand in no `.cfg`. Every invariant,
action property and refinement that a passing run checks is also a theorem. No module uses RECURSIVE
operators, and nothing here needs induction over data.

## Where the code disagrees with its documents

Each is a run that TLC finds violated; `PROJECT.json` quotes the lines.

1. **A completed request becomes failed** (`relay_completed_is_final`). `mark_failed` refuses a
   completed request, on a status read without a lock; a result committed in between is overwritten,
   and the requester gets an error although the result row exists. It takes an abandoned call of a
   worker, handled late: theorem `CompletedStays`.
2. **The server goes back to an older revision** (`sync_regress`). `_apply_envelope` compares
   revisions on a row read without a lock; of two handlers that read the same row the one with the
   lower revision may write last. `sync_serial` shows that it never happens with one handler.
3. **Devices that edit the same revision do not agree** (`sync_diverges`). The second push is skipped,
   its batch is dropped by the client, and the other device's envelope has the same revision and is
   not projected. `sync_serial` shows agreement on an entity that is edited by one device.
4. **A reminder out of attempts that nobody can retry** (`reminders_given_up`). A kill, or two
   failing marks, after the last claim leave it `pending` with all attempts used: it is not claimed
   again, and a manual retry returns a pending reminder unchanged. Nothing less does
   (`ClaimIsInHand`), except a manual retry that keeps the attempts, which no page asks for.

Also met while modelling, and recorded only as hazards: a result submitted late completes a request
that had failed or expired (`submit_result` checks no status); a transient HTTP error of the worker's
key lookup counts as terminal; a reminder can be confirmed for a closed task (it is never claimed);
two devices apart can each create an active budget of one month and category; a memo whose
classification throws is stored although its action is reported as failed, no undo covers it, and its
turn may make it a second time (`powersync_memo_store.dart:72`, against
`doc/requirements/product-definition.md:131`: what AI writes can be traced and undone); an undo marks the
entries used of what it could not trash; two handlers that race may leave a row on the server that no
device can decrypt, and until a newer revision replaces it every projection pass of every device ends at
it, the one at the unlock of the account included; and a suggestion made between the two statements of a
confirmation or a dismissal leaves a task with two live strategies.

## Not modelled, and why

- Cryptography, key derivation and formats: opaque. Key rotation of the encrypted store has no
  caller outside the tests.
- `getCrudBatch` takes at most 100 changes at a time; here a batch is the whole queue. A longer queue
  is uploaded as several batches, one after the other.
- The month and category of a budget are fixed (`Identity`); the code can change them under the same
  guard that a restored budget meets.
- Several callers of `initialize()` share one future, so there is one sequence of its steps.
- The dispatch of reminders is modelled as its classes are written and tested; at this commit no page
  starts `ReminderRuntime`. The other platform adapters report "unsupported" or answer in the same way. The
  synchronisation of reminders between devices, reminders of other channels, and the limit of 20
  claims are left out.
- At most one confirmation or dismissal runs at a time: the pages disable their buttons while one is
  awaited (`_isSaving`, `_isCreating`). A user who leaves the page before it has ended, opens the task
  anew and sets another reminder could have two under way, and both could then insert a row:
  `OneActivePerTask` is about what one of them does against everything else. Recorded as a hazard.
- Capture: texts, assets, the turns of user and system and the choice of a provider. Undo entries have an
  expiry column of 24 hours that `captureUndo` does not look at, so it is not in the model either. The
  server's variant behind Cloud MCP does a whole commit or undo in one transaction per request: what
  `CaptureStore` is about, the steps in between, does not exist there.
- Desktop bridge: validation of inputs, capability reports, the wording of errors, the job cipher. That
  a kill signal takes effect before the next host has opened the database is assumed; the code does not
  wait for the exit.
- Device registry and sessions: rows of single transactions, but for the two commits of a
  revocation, a hazard on record. `AiRelay` has what the rest of the system sees of it: the relay checks
  the trust of a device on every call.
- Imports: preview, commit and rollback are one request each. Two commits of one batch that both read it
  in preview both import its rows, as neither locks it: a hazard on record, of which a property could
  only state that it happens.
- Plaintext migration: a pass that can be run again. It compares the revision again in the
  transaction that seals a row, so an edit in between makes it throw, and the next pass skips the row.
- Assets: what could go wrong lies between a record and its object in the storage, which is external.
- Read models, UI, parsing and formatting, declarations, deployment: no state that outlives them.

## What could come next

In order of worth, for who extends this directory: the device registry with sessions as a component that
refines `Revoke` of `AiRelay`; the import batch with its rollback of rows edited since; the plaintext
pass as an action of `EncryptedSync` at start-up; assets with an external store; and a composition of
`CaptureStore` with `DesktopBridge`, whose two-step commit abstracts its transactions.
