--------------------------- MODULE DesktopBridge ---------------------------
(***************************************************************************)
(* Local MCP tools on the desktop: a Node process (LocalMcpServer, or the  *)
(* compute node) calls the Local Core through a host process that owns the *)
(* database.  Requests and responses are lines of JSON on the stdin and    *)
(* stdout of the host.                                                     *)
(*                                                                         *)
(*   - DesktopLocalCoreProcessTransport spawns a host when it has none,    *)
(*     matches responses to requests by id, gives a request up after a     *)
(*     time, and on an exit, an error or a line it cannot read rejects     *)
(*     everything pending and kills the host it has now.  The listeners    *)
(*     of an old host stay: its exit and the rest of its output may arrive *)
(*     when a new one is at work, and they share one buffer.               *)
(*   - The host reads lines one by one.  A response that could not be tied *)
(*     to a request has id 0.  A capture is committed, and undone, in      *)
(*     several transactions: a kill in between leaves half of it.  Single  *)
(*     actions of a commit and deletions of an undo may fail, which the    *)
(*     answer lists; a memo whose classification throws fails like that    *)
(*     and is there.                                                       *)
(*                                                                         *)
(* A request names the commit or the parse it is about, and a capture and  *)
(* an undo token are the requests that made them.  Contents, validation    *)
(* and the audit log are left out; the two writes of a commit and an undo  *)
(* stand for the transactions that CaptureStore has one by one.  A killed  *)
(* host is dead before its successor has started.                          *)
(***************************************************************************)
EXTENDS Naturals, Sequences, FiniteSets

CONSTANTS
    MaxRequests,   \* bound: requests of the callers
    MaxHosts,      \* bound: host processes spawned
    Parallel,      \* requests the callers await at once
    MaxFaults      \* bound: hosts, transactions and statements that fail, stray output

ASSUME BridgeAssumption ==
    /\ MaxRequests \in Nat /\ MaxHosts \in Nat /\ MaxFaults \in Nat
    /\ Parallel \in Nat

VARIABLES
    node,      \* the Node process
    child,     \* the host the transport has, or none
    pending,   \* requests the transport waits for
    buffer,    \* whose half of a line stdoutBuffer holds
    op,        \* what each request asks for
    answer,    \* what each caller was told
    sent,      \* the host each request was written to
    proc,      \* each host process
    ready,     \* hosts that have initialised their runtime
    inbox,     \* lines on the stdin of each host; 0 is _runtime_init
    work,      \* what each host is doing
    outbox,    \* lines on the stdout of each host
    cut,       \* hosts whose first line of outbox has been half delivered
    turn,      \* status of the turn each parse made
    rows,      \* commits whose entities are active, those a token covers
    tokens,    \* commits whose undo entries are pending
    done,      \* history: requests that have had their effect
    left,      \* history: commits and undos that left an entity no token covers
    torn,      \* history: captures cut in a commit or an undo
    faults     \* failures so far

callers == <<op, answer, sent>>
pipes   == <<inbox, outbox, cut>>
hosts   == <<proc, ready, work>>
store   == <<turn, rows, tokens, done, left>>
vars    == <<node, child, pending, buffer, callers, hosts, pipes, store, torn, faults>>

Requests == 1 .. MaxRequests
Hosts    == 1 .. MaxHosts
Mixed    == MaxHosts + 1    \* the buffer holds pieces of several lines

Op     == [kind : {"write", "parse", "commit", "undo"}, of : Requests \cup {0}]
NoOp   == [kind |-> "none", of |-> 0]
\* "part" and "nothing" list what failed, "part" beside what was done.
Result == {"done", "part", "nothing", "refused"}
Line   == [req : Requests \cup {0}, result : Result \cup {"stray"}]
Work   == [req : Requests \cup {0}, phase : {"idle", "begun", "made", "answer"},
           result : Result]
Idle   == [req |-> 0, phase |-> "idle", result |-> "nothing"]

TypeOK ==
    /\ node \in {"up", "closed", "down"}
    /\ child \in Hosts \cup {0}
    /\ pending \subseteq Requests
    /\ buffer \in 0 .. Mixed
    /\ op \in [Requests -> Op \cup {NoOp}]
    /\ answer \in [Requests -> {"none", "done", "part", "nothing", "error"}]
    /\ sent \in [Requests -> Hosts \cup {0}]
    /\ proc \in [Hosts -> {"none", "running", "exited", "gone"}]
    /\ ready \subseteq Hosts
    /\ inbox \in [Hosts -> Seq(Requests \cup {0})]
    /\ work \in [Hosts -> Work]
    /\ outbox \in [Hosts -> Seq(Line)]
    /\ cut \subseteq Hosts
    /\ turn \in [Requests -> {"none", "parsed", "failed", "committed", "undone"}]
    /\ rows \subseteq Requests
    /\ tokens \subseteq Requests
    /\ done \subseteq Requests
    /\ left \subseteq Requests
    /\ torn \subseteq Requests \cup {0}
    /\ faults \in 0 .. MaxFaults

Init ==
    /\ node = "up"
    /\ child = 0
    /\ pending = {}
    /\ buffer = 0
    /\ op = [r \in Requests |-> NoOp]
    /\ answer = [r \in Requests |-> "none"]
    /\ sent = [r \in Requests |-> 0]
    /\ proc = [h \in Hosts |-> "none"]
    /\ ready = {}
    /\ inbox = [h \in Hosts |-> <<>>]
    /\ work = [h \in Hosts |-> Idle]
    /\ outbox = [h \in Hosts |-> <<>>]
    /\ cut = {}
    /\ turn = [r \in Requests |-> "none"]
    /\ rows = {}
    /\ tokens = {}
    /\ done = {}
    /\ left = {}
    /\ torn = {}
    /\ faults = 0

\* The capture that a commit or an undo is about.
CaptureOf(r) == IF op[r].kind = "undo" THEN op[op[r].of].of ELSE op[r].of

Fault == faults < MaxFaults /\ faults' = faults + 1

-----------------------------------------------------------------------------
(* The transport.                                                          *)

\* A process that dies between the two writes of its work tears a capture.
Interrupted(h) == IF work[h].phase = "made" THEN {CaptureOf(work[h].req)} ELSE {}

\* What h had read and not answered is gone; what it printed stays in the pipe.
Dies(h) ==
    /\ torn' = torn \cup Interrupted(h)
    /\ inbox' = [inbox EXCEPT ![h] = <<>>]
    /\ work' = [work EXCEPT ![h] = Idle]

\* Everything pending is rejected.
RejectAll ==
    /\ answer' = [r \in Requests |-> IF r \in pending THEN "error" ELSE answer[r]]
    /\ pending' = {}
    /\ UNCHANGED <<op, sent>>

\* child.kill(), of the host the transport has, if it still runs; p is what
\* else changes in the processes.
KillChild(p) ==
    IF child # 0 /\ proc[child] = "running"
    THEN Dies(child) /\ proc' = [p EXCEPT ![child] = "exited"]
    ELSE proc' = p /\ UNCHANGED <<torn, inbox, work>>

\* Mutant of FailChild: the host is forgotten and not killed.
FailChildAlive(p) ==
    /\ child' = 0
    /\ buffer' = 0
    /\ RejectAll
    /\ proc' = p
    /\ UNCHANGED <<torn, inbox, work>>

\* Mutant of FailChild: what is pending waits for the next host.
FailChildSilent(p) ==
    /\ child' = 0
    /\ buffer' = 0
    /\ UNCHANGED <<pending, callers>>
    /\ KillChild(p)

\* failChild, whichever host it is that failed.
FailChild(p) ==
    /\ child' = 0
    /\ buffer' = 0
    /\ RejectAll
    /\ KillChild(p)

\* What a caller can ask: commit a capture it was told of, undo a commit whose
\* token it was given.
Askable(o) ==
    CASE o.kind = "commit" -> o.of # 0 /\ op[o.of].kind = "parse" /\ answer[o.of] = "done"
      [] o.kind = "undo"   -> o.of # 0 /\ op[o.of].kind = "commit" /\ answer[o.of] \in {"done", "part"}
      [] OTHER             -> o.of = 0

Asks(r, o) ==
    /\ node = "up"
    /\ Cardinality(pending) < Parallel
    /\ op[r] = NoOp
    /\ \A q \in 1 .. r - 1 : op[q] # NoOp
    /\ Askable(o)
    /\ op' = [op EXCEPT ![r] = o]
    /\ UNCHANGED <<answer, buffer, ready, work, outbox, cut, store, torn>>

\* invoke() with a host at hand.  A line written to a process that has exited
\* is lost.
Invoke(r, o) ==
    /\ Asks(r, o)
    /\ child # 0
    /\ inbox' = IF proc[child] = "running" THEN [inbox EXCEPT ![child] = Append(@, r)]
                ELSE inbox
    /\ pending' = pending \cup {r}
    /\ sent' = [sent EXCEPT ![r] = child]
    /\ UNCHANGED <<node, child, proc, faults>>

\* invoke() without a host: ensureChild spawns one and writes its runtime
\* keys first.
InvokeSpawns(r, o, h) ==
    /\ Asks(r, o)
    /\ child = 0
    /\ proc[h] = "none"
    /\ \A g \in 1 .. h - 1 : proc[g] # "none"
    /\ child' = h
    /\ \/ /\ proc' = [proc EXCEPT ![h] = "running"]
          /\ inbox' = [inbox EXCEPT ![h] = <<0, r>>]
          /\ UNCHANGED faults
       \/ /\ proc' = [proc EXCEPT ![h] = "exited"]
          /\ Fault
          /\ UNCHANGED inbox
    /\ pending' = pending \cup {r}
    /\ sent' = [sent EXCEPT ![r] = h]
    /\ UNCHANGED node

\* Nobody listens to errors of stdin: the broken pipe of a host that has
\* exited, met before its exit event, ends the Node process.
InvokeBreaks(r, o) ==
    /\ Asks(r, o)
    /\ child # 0
    /\ proc[child] = "exited"
    /\ node' = "down"
    /\ UNCHANGED <<child, pending, sent, proc, inbox, faults>>

\* Mutant of Timeout: only a request that a host is working on is given up.
TimeoutWorking(r) ==
    /\ node = "up"
    /\ r \in pending
    /\ \E h \in Hosts : work[h].req = r
    /\ pending' = pending \ {r}
    /\ answer' = [answer EXCEPT ![r] = "error"]
    /\ UNCHANGED <<node, child, buffer, op, sent, hosts, pipes, store, torn, faults>>

\* The timer of a request: the host may still get to it.
Timeout(r) ==
    /\ node = "up"
    /\ r \in pending
    /\ pending' = pending \ {r}
    /\ answer' = [answer EXCEPT ![r] = "error"]
    /\ UNCHANGED <<node, child, buffer, op, sent, hosts, pipes, store, torn, faults>>

\* A chunk of stdout ends inside a line.
HalfLine(h) ==
    /\ node = "up"
    /\ outbox[h] # <<>>
    /\ h \notin cut
    /\ cut' = cut \cup {h}
    /\ buffer' = IF buffer = 0 THEN h ELSE Mixed
    /\ UNCHANGED <<node, child, pending, callers, hosts, inbox, outbox, store, torn, faults>>

\* Mutant of Settle: an error response resolves its request.
SettleAsIs(l) ==
    /\ answer' = IF l.req \notin pending THEN answer
                 ELSE [answer EXCEPT ![l.req] = l.result]
    /\ pending' = pending \ {l.req}

\* A response with an unknown id (0, or of a request given up) is ignored.
Settle(l) ==
    /\ answer' = IF l.req \notin pending THEN answer
                 ELSE [answer EXCEPT ![l.req] = IF l.result = "refused" THEN "error"
                                                ELSE l.result]
    /\ pending' = pending \ {l.req}

\* consumeStdout, when a chunk completes a line: it is a response if the
\* buffer held nothing but the beginning of that line.  What the chunk holds
\* of the next line after a bad one is dropped with the buffer.
LineEnds(h) ==
    /\ node = "up"
    /\ outbox[h] # <<>>
    /\ outbox' = [outbox EXCEPT ![h] = Tail(@)]
    /\ IF buffer = (IF h \in cut THEN h ELSE 0) /\ Head(outbox[h]).result # "stray"
       THEN /\ Settle(Head(outbox[h]))
            /\ buffer' = 0
            /\ cut' = cut \ {h}
            /\ UNCHANGED <<child, op, sent, proc, work, inbox, torn>>
       ELSE /\ FailChild(proc)
            /\ cut' \in {cut \ {h}, IF Len(outbox[h]) > 1 THEN cut \cup {h} ELSE cut \ {h}}
    /\ UNCHANGED <<node, ready, store, faults>>

\* The exit or error event of a host, which need not be the one in use.
ExitEvent(h) ==
    /\ node = "up"
    /\ proc[h] = "exited"
    /\ FailChild([proc EXCEPT ![h] = "gone"])
    /\ UNCHANGED <<node, ready, outbox, cut, store, faults>>

\* close(), after which nobody calls invoke() again.
Close ==
    /\ node = "up"
    /\ node' = "closed"
    /\ child' = 0
    /\ RejectAll
    /\ KillChild(proc)
    /\ UNCHANGED <<buffer, ready, outbox, cut, store, faults>>

-----------------------------------------------------------------------------
(* The host.                                                               *)

Emit(h, l) == outbox' = [outbox EXCEPT ![h] = Append(@, l)]

Reads(h) ==
    /\ proc[h] = "running"
    /\ work[h].phase = "idle"
    /\ inbox[h] # <<>>
    /\ inbox' = [inbox EXCEPT ![h] = Tail(@)]
    /\ UNCHANGED <<node, child, pending, buffer, callers, proc, cut, torn>>

\* _runtime_init; its response, and its error, have id 0.
InitRuntime(h) ==
    /\ Reads(h)
    /\ Head(inbox[h]) = 0
    /\ \/ /\ ready' = ready \cup {h}
          /\ Emit(h, [req |-> 0, result |-> "done"])
          /\ UNCHANGED faults
       \/ /\ Fault
          /\ Emit(h, [req |-> 0, result |-> "refused"])
          /\ UNCHANGED ready
    /\ UNCHANGED <<work, store>>

\* A request met before the runtime is initialised is answered with id 0.
NotReady(h) ==
    /\ Reads(h)
    /\ Head(inbox[h]) # 0
    /\ h \notin ready
    /\ Emit(h, [req |-> 0, result |-> "refused"])
    /\ UNCHANGED <<ready, work, store, faults>>

Answers(h, r, result) ==
    work' = [work EXCEPT ![h] = [req |-> r, phase |-> "answer", result |-> result]]

\* A method of one transaction.  memo_create may throw after it.
HandleWrite(h, r) ==
    /\ op[r].kind = "write"
    /\ done' = done \cup {r}
    /\ \/ Answers(h, r, "done") /\ UNCHANGED faults
       \/ Answers(h, r, "refused") /\ Fault
    /\ UNCHANGED <<turn, rows, tokens, left>>

HandleParse(h, r) ==
    /\ op[r].kind = "parse"
    /\ turn' = [turn EXCEPT ![r] = "parsed"]
    /\ done' = done \cup {r}
    /\ Answers(h, r, "done")
    /\ UNCHANGED <<rows, tokens, left>>

Begins(h, r) ==
    /\ work' = [work EXCEPT ![h] = [req |-> r, phase |-> "begun", result |-> "nothing"]]
    /\ UNCHANGED store

\* Mutant of BeginCommit: a turn may be committed again.
BeginCommitAgain(h, r) ==
    /\ op[r].kind = "commit"
    /\ turn[op[r].of] \in {"parsed", "failed", "committed"}
    /\ Begins(h, r)

\* captureCommit finds the turn: without a turn id, one that is parsed or
\* whose last commit made nothing.
BeginCommit(h, r) ==
    /\ op[r].kind = "commit"
    /\ turn[op[r].of] \in {"parsed", "failed"}
    /\ Begins(h, r)

BeginUndo(h, r) ==
    /\ op[r].kind = "undo"
    /\ op[r].of \in tokens
    /\ Begins(h, r)

\* The method throws before it has changed anything: no turn to commit, no
\* token, an input that is not valid.
Refuse(h, r) ==
    /\ Answers(h, r, "refused")
    /\ UNCHANGED store

Handle(h) ==
    /\ Reads(h)
    /\ h \in ready
    /\ LET r == Head(inbox[h])
       IN  /\ r # 0
           /\ \/ HandleWrite(h, r)
              \/ /\ HandleParse(h, r) \/ BeginCommit(h, r) \/ BeginUndo(h, r) \/ Refuse(h, r)
                 /\ UNCHANGED faults
    /\ UNCHANGED <<ready, outbox>>

Works(h, kind, phase) ==
    /\ proc[h] = "running"
    /\ work[h].phase = phase
    /\ op[work[h].req].kind = kind
    /\ UNCHANGED <<node, child, pending, buffer, callers, proc, ready, pipes, torn>>

\* The request that h works on leaves an entity that no token covers: a memo
\* that was made and whose action failed, or what could not be trashed.
Leaves(h) == left' = left \cup {work[h].req} /\ Fault

LeavesNone == UNCHANGED <<left, faults>>

\* The entities, each in a transaction of its own, of all actions or of some.
CommitMakes(h) ==
    /\ Works(h, "commit", "begun")
    /\ rows' = rows \cup {work[h].req}
    /\ \E result \in {"done", "part"} :
          /\ work' = [work EXCEPT ![h].phase = "made", ![h].result = result]
          /\ LeavesNone \/ (result = "part" /\ Leaves(h))
    /\ UNCHANGED <<turn, tokens, done>>

\* All actions failed: so has the turn, which may be committed again.
CommitFails(h) ==
    /\ Works(h, "commit", "begun")
    /\ turn' = [turn EXCEPT ![op[work[h].req].of] = "failed"]
    /\ LeavesNone \/ Leaves(h)
    /\ Answers(h, work[h].req, "nothing")
    /\ UNCHANGED <<rows, tokens, done>>

\* The last transaction: turn and undo entries.
CommitMarks(h) ==
    /\ Works(h, "commit", "made")
    /\ turn' = [turn EXCEPT ![op[work[h].req].of] = "committed"]
    /\ tokens' = tokens \cup {work[h].req}
    /\ done' = done \cup {work[h].req}
    /\ Answers(h, work[h].req, work[h].result)
    /\ LeavesNone
    /\ UNCHANGED rows

\* The deletions.  One of an entity that is not there fails, and any may throw:
\* its entity stays, and no token covers it any more.
UndoTrashes(h) ==
    /\ Works(h, "undo", "begun")
    /\ rows' = rows \ {op[work[h].req].of}
    /\ \E result \in {"done", "part"} :
          /\ result = "done" => op[work[h].req].of \in rows
          /\ work' = [work EXCEPT ![h].phase = "made", ![h].result = result]
          /\ LeavesNone \/ (result = "part" /\ Leaves(h))
    /\ UNCHANGED <<turn, tokens, done>>

\* The last transaction: whatever failed, the entries are used and the turn is
\* undone.
UndoMarks(h) ==
    /\ Works(h, "undo", "made")
    /\ turn' = [turn EXCEPT ![CaptureOf(work[h].req)] = "undone"]
    /\ tokens' = tokens \ {op[work[h].req].of}
    /\ done' = done \cup {work[h].req}
    /\ Answers(h, work[h].req, work[h].result)
    /\ LeavesNone
    /\ UNCHANGED rows

\* The last transaction of a commit or an undo throws.
MarkThrows(h) ==
    /\ proc[h] = "running"
    /\ work[h].phase = "made"
    /\ Fault
    /\ torn' = torn \cup Interrupted(h)
    /\ Answers(h, work[h].req, "refused")
    /\ UNCHANGED <<node, child, pending, buffer, callers, proc, ready, pipes, store>>

Respond(h) ==
    /\ proc[h] = "running"
    /\ work[h].phase = "answer"
    /\ Emit(h, [req |-> work[h].req, result |-> work[h].result])
    /\ work' = [work EXCEPT ![h] = Idle]
    /\ UNCHANGED <<node, child, pending, buffer, callers, proc, ready, inbox, cut, store,
                   torn, faults>>

\* The host dies of itself.
HostExits(h) ==
    /\ proc[h] = "running"
    /\ Fault
    /\ Dies(h)
    /\ proc' = [proc EXCEPT ![h] = "exited"]
    /\ UNCHANGED <<node, child, pending, buffer, callers, ready, outbox, cut, store>>

\* Something in the host prints a line that is no response.
PrintsStray(h) ==
    /\ proc[h] = "running"
    /\ Fault
    /\ Emit(h, [req |-> 0, result |-> "stray"])
    /\ UNCHANGED <<node, child, pending, buffer, callers, hosts, inbox, cut, store, torn>>

-----------------------------------------------------------------------------

Host(h) ==
    \/ InitRuntime(h) \/ NotReady(h) \/ Handle(h)
    \/ CommitMakes(h) \/ CommitFails(h) \/ CommitMarks(h)
    \/ UndoTrashes(h) \/ UndoMarks(h) \/ MarkThrows(h)
    \/ Respond(h) \/ HostExits(h) \/ PrintsStray(h)

Transport(h) == HalfLine(h) \/ LineEnds(h) \/ ExitEvent(h)

Caller(r, o) ==
    \/ Invoke(r, o) \/ InvokeBreaks(r, o)
    \/ \E h \in Hosts : InvokeSpawns(r, o, h)

Next ==
    \/ \E r \in Requests, o \in Op : Caller(r, o)
    \/ \E r \in Requests : Timeout(r)
    \/ \E h \in Hosts : Transport(h) \/ Host(h)
    \/ Close

Spec == Init /\ [][Next]_vars

\* Timers fire.  Nothing is assumed of the hosts.
Fairness == \A r \in Requests : WF_vars(Timeout(r))

FairSpec == Spec /\ Fairness

-----------------------------------------------------------------------------
(* Properties.                                                             *)

\* At most one host works on the database: whatever makes the transport
\* forget a host, it has killed it.
OneHost == \A g, h \in Hosts : proc[g] = "running" /\ proc[h] = "running" => g = h

\* A request that is waited for was written to the host the transport has:
\* none waits on a host that is gone, with its timer as the only way out.
PendingIsAtTheChild == \A r \in pending : child # 0 /\ sent[r] = child

\* The callers see a service: each call has its effect at most once and in one
\* step, and is answered with what became of it, except for captures that a
\* dying host has torn (fake-local-core.ts).  A commit or an undo that left an
\* entity behind is never answered as done with nothing failed.
Making   == {work[h].req : h \in {g \in Hosts : work[g].phase = "made"
                                                /\ op[work[g].req].kind = "commit"}}
Unmaking == {op[work[h].req].of : h \in {g \in Hosts : work[g].phase = "made"
                                                       /\ op[work[g].req].kind = "undo"}}

Service == INSTANCE LocalCoreService WITH
              open <- {p \in Requests : turn[p] \in {"parsed", "failed"} /\ p \notin torn},
              live <- {c \in (rows \ Making) \cup Unmaking : op[c].of \notin torn}

ImplementsService == Service!Spec

\* Every call ends, whatever the host does.
EveryInvokeSettles ==
    \A r \in Requests : r \in pending ~> (r \notin pending \/ node = "down")

=============================================================================
