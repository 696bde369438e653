-------------------------- MODULE LocalCoreService --------------------------
(***************************************************************************)
(* What the callers of LocalCoreBridge are promised, as the in-memory      *)
(* FakeLocalCoreBridge of the tests does it: a call has its whole effect   *)
(* in one step, a capture is committed at most once, and its entities are  *)
(* trashed at most once.  Around it, what a remote call adds: the effect   *)
(* comes between the call and its answer, an error says nothing of the     *)
(* effect, and a host that dies inside a commit or an undo breaks that one *)
(* capture, of which nothing more is promised.  A commit may also leave an *)
(* entity behind that its token does not cover, and an undo one that it    *)
(* could not trash: their answers then list something that failed.         *)
(*                                                                         *)
(* A capture is named by the call that parsed it, an undo token by the     *)
(* call that committed.                                                    *)
(***************************************************************************)
EXTENDS Naturals

CONSTANTS Requests   \* calls, none of them 0

VARIABLES
    op,       \* what each call asks for
    done,     \* calls that have had their effect
    answer,   \* what each caller was told
    open,     \* captures parsed and not committed
    live,     \* commits whose entities are active, those a token covers
    left,     \* commits and undos that left an entity no token covers
    torn      \* captures broken by a host that died

vars == <<op, done, answer, open, live, left, torn>>

Op   == [kind : {"write", "parse", "commit", "undo"}, of : Requests \cup {0}]
NoOp == [kind |-> "none", of |-> 0]

\* The capture that a commit or an undo is about.
CaptureOf(r) == IF op[r].kind = "undo" THEN op[op[r].of].of ELSE op[r].of

Init ==
    /\ op = [r \in Requests |-> NoOp]
    /\ done = {}
    /\ answer = [r \in Requests |-> "none"]
    /\ open = {}
    /\ live = {}
    /\ left = {}
    /\ torn = {}

Call(r) ==
    /\ op[r] = NoOp
    /\ \E o \in Op : op' = [op EXCEPT ![r] = o]
    /\ UNCHANGED <<done, answer, open, live, left, torn>>

\* createMemo, createExpense, createTask, completeTask, registerExternalAsset.
Write(r) ==
    /\ op[r].kind = "write"
    /\ UNCHANGED <<open, live>>

Parse(r) ==
    /\ op[r].kind = "parse"
    /\ open' = open \cup {r}
    /\ UNCHANGED live

Commit(r) ==
    /\ op[r].kind = "commit"
    /\ op[r].of \in open
    /\ open' = open \ {op[r].of}
    /\ live' = live \cup {r}

Undo(r) ==
    /\ op[r].kind = "undo"
    /\ op[r].of \in live
    /\ live' = live \ {op[r].of}
    /\ UNCHANGED open

PerformTorn(r) ==
    /\ op[r].kind \in {"commit", "undo"}
    /\ CaptureOf(r) \in torn
    /\ UNCHANGED <<open, live>>

Perform(r) ==
    /\ r \notin done
    /\ Write(r) \/ Parse(r) \/ Commit(r) \/ Undo(r) \/ PerformTorn(r)
    /\ done' = done \cup {r}
    /\ UNCHANGED <<op, answer, left, torn>>

\* On its way, a commit makes an entity and reports it as failed, or an undo
\* fails to trash one.
Leave(r) ==
    /\ r \notin done
    /\ \/ op[r].kind = "commit" /\ op[r].of \in open
       \/ op[r].kind = "undo" /\ op[r].of \in live
       \/ op[r].kind \in {"commit", "undo"} /\ CaptureOf(r) \in torn
    /\ left' = left \cup {r}
    /\ UNCHANGED <<op, done, answer, open, live, torn>>

\* A caller is told that its call is done only once it is and has left nothing
\* behind, that it is in part only once it is, and that it is not only if it
\* never is.
Reply(r) ==
    /\ op[r] # NoOp
    /\ answer[r] = "none"
    /\ \E a \in {"done", "part", "nothing", "error"} :
          /\ a = "done" => r \in done \ left
          /\ a = "part" => r \in done
          /\ a = "nothing" => r \notin done
          /\ answer' = [answer EXCEPT ![r] = a]
    /\ UNCHANGED <<op, done, open, live, left, torn>>

\* Calls under way end in errors, and captures in the hands of the host break.
Fail(R, P) ==
    /\ \A r \in R : op[r] # NoOp /\ answer[r] = "none"
    /\ answer' = [r \in Requests |-> IF r \in R THEN "error" ELSE answer[r]]
    /\ torn' = torn \cup P
    /\ open' = open \ P
    /\ live' = {c \in live : CaptureOf(c) \notin P}
    /\ UNCHANGED <<op, done, left>>

Next ==
    \/ \E r \in Requests : Call(r) \/ Perform(r) \/ Leave(r) \/ Reply(r)
    \/ \E R, P \in SUBSET Requests : Fail(R, P)

Spec == Init /\ [][Next]_vars

=============================================================================
