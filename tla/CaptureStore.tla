---------------------------- MODULE CaptureStore ----------------------------
(***************************************************************************)
(* One capture session in the Local Core (powersync_capture_store.dart).   *)
(*                                                                         *)
(* A session is a conversation: what the user says becomes turns of        *)
(* candidate actions, which can be revised, committed and undone.  A       *)
(* commit creates an entity per selected action, each in a transaction of  *)
(* its own, and then marks session and turn and stores the undo entries in *)
(* one more.  A memo is classified after its transaction: if that throws,  *)
(* the memo is there and its action has failed.  An undo trashes the       *)
(* entities one by one and then marks the entries used and the turn        *)
(* undone.  Whatever an operation decides on it has read before its        *)
(* transactions, in what is one step here.                                 *)
(*                                                                         *)
(* The page of the client runs one operation at a time, but a page that is *)
(* left does not end the one it was running, and the next page may start   *)
(* another: overlapped remembers that this has happened.  Left out: texts, *)
(* assets and payloads, the turns of user and system, whose order nothing  *)
(* here reads, and the audit log.                                          *)
(***************************************************************************)
EXTENDS Naturals, FiniteSets

CONSTANTS
    Flows,        \* operations that may be under way at once
    Actions,      \* candidate actions of a turn
    Memos,        \* those of them that create a memo
    MaxTurns,     \* bound: turns of actions in the session
    MaxCommits,   \* bound: commits begun, which are also their undo tokens
    MaxOutside    \* bound: throws, kills, expiries, moves to and from the trash

ASSUME CaptureAssumption ==
    /\ Memos \subseteq Actions
    /\ MaxTurns \in Nat /\ MaxCommits \in Nat /\ MaxOutside \in Nat

VARIABLES
    session,      \* the row of mcp_capture_sessions
    turns,        \* rows of mcp_capture_turns with actions
    of,           \* the turn each commit is of
    entity,       \* what each commit made of each action
    entry,        \* rows of mcp_undo_actions, by token and action
    flow,         \* operations under way, with what they have read
    cut,          \* history: commits that ended before they marked
    left,         \* history: entities an undo could not trash and said so
    stray,        \* history: entities made by an action that was said to have failed
    overlapped,   \* history: two operations were under way at once
    outside       \* such events so far

rows    == <<session, turns, of, entity, entry>>
history == <<cut, left, stray, overlapped, outside>>
vars    == <<rows, flow, history>>

Turns   == 1 .. MaxTurns
Commits == 1 .. MaxCommits

TurnStatus == {"none", "parsed", "revised", "failed", "committed", "partial",
               "undone", "superseded"}
\* An entity that its user took out of the trash again is "restored".
EntityStatus == {"none", "active", "trashed", "restored"}
NoTurn == [status |-> "none", token |-> 0]
NoFlow == [kind |-> "none", turn |-> 0, commit |-> 0, todo |-> {}, made |-> {},
           failed |-> FALSE, committed |-> FALSE]

Flow == [kind : {"none", "append", "revise", "dismiss", "commit", "undo"},
         turn : Turns \cup {0},          \* the turn it is about
         commit : Commits \cup {0},      \* the commit made or undone
         todo : SUBSET Actions,
         made : SUBSET Actions,          \* created
         failed : BOOLEAN,               \* an action or a deletion failed
         committed : BOOLEAN]            \* session.committed as it was read

TypeOK ==
    /\ session \in [status : {"none", "active", "dismissed"},
                    committed : BOOLEAN, expired : BOOLEAN]
    /\ turns \in [Turns -> [status : TurnStatus, token : Commits \cup {0}]]
    /\ of \in [Commits -> Turns \cup {0}]
    /\ entity \in [Commits -> [Actions -> EntityStatus]]
    /\ entry \in [Commits -> [Actions -> {"none", "pending", "used"}]]
    /\ flow \in [Flows -> Flow]
    /\ cut \subseteq Commits
    /\ left \subseteq Commits \X Actions
    /\ stray \subseteq Commits \X Actions
    /\ overlapped \in BOOLEAN
    /\ outside \in 0 .. MaxOutside

Init ==
    /\ session = [status |-> "none", committed |-> FALSE, expired |-> FALSE]
    /\ turns = [t \in Turns |-> NoTurn]
    /\ of = [c \in Commits |-> 0]
    /\ entity = [c \in Commits |-> [a \in Actions |-> "none"]]
    /\ entry = [c \in Commits |-> [a \in Actions |-> "none"]]
    /\ flow = [f \in Flows |-> NoFlow]
    /\ cut = {}
    /\ left = {}
    /\ stray = {}
    /\ overlapped = FALSE
    /\ outside = 0

FromOutside == outside < MaxOutside /\ outside' = outside + 1

Live(c, a) == entity[c][a] \in {"active", "restored"}

-----------------------------------------------------------------------------
(* The session and its turns.                                              *)

\* A new operation, with what it has read.
Starts(f, r) ==
    /\ flow[f] = NoFlow
    /\ flow' = [flow EXCEPT ![f] = r]
    /\ overlapped' = (overlapped \/ \E g \in Flows : flow[g] # NoFlow)
    /\ UNCHANGED <<session, turns, entity, entry, cut, left, stray, outside>>

Ends(f) == flow' = [flow EXCEPT ![f] = NoFlow]

\* _getActiveSession.
IsActive == session.status = "active" /\ ~session.expired

\* The next row of turns gets this status.
AddTurn(old, status) ==
    \E t \in Turns :
        /\ old[t] = NoTurn
        /\ \A u \in 1 .. t - 1 : old[u] # NoTurn
        /\ turns' = [old EXCEPT ![t].status = status]

\* captureParse and captureIngestCandidates make the session and its first turn.
Ingest ==
    /\ session.status = "none"
    /\ session' = [session EXCEPT !.status = "active"]
    /\ AddTurn(turns, "parsed")
    /\ UNCHANGED <<of, entity, entry, flow, history>>

BeginAppend(f) ==
    /\ IsActive
    /\ Starts(f, [NoFlow EXCEPT !.kind = "append"])
    /\ UNCHANGED of

\* The session is active again for 30 days.
FinishAppend(f) ==
    /\ flow[f].kind = "append"
    /\ AddTurn(turns, "parsed")
    /\ session' = [session EXCEPT !.status = "active", !.expired = FALSE]
    /\ Ends(f)
    /\ UNCHANGED <<of, entity, entry, history>>

Revisable(t) == turns[t].status \notin {"none", "committed", "partial"}

BeginRevise(f, t) ==
    /\ IsActive
    /\ Revisable(t)
    /\ Starts(f, [NoFlow EXCEPT !.kind = "revise", !.turn = t])
    /\ UNCHANGED of

FinishRevise(f) ==
    /\ flow[f].kind = "revise"
    /\ AddTurn([turns EXCEPT ![flow[f].turn].status = "superseded"], "revised")
    /\ session' = [session EXCEPT !.status = "active"]
    /\ Ends(f)
    /\ UNCHANGED <<of, entity, entry, history>>

BeginDismiss(f) ==
    /\ session.status = "active"
    /\ Starts(f, [NoFlow EXCEPT !.kind = "dismiss"])
    /\ UNCHANGED of

FinishDismiss(f) ==
    /\ flow[f].kind = "dismiss"
    /\ session' = [session EXCEPT !.status = "dismissed"]
    /\ Ends(f)
    /\ UNCHANGED <<turns, of, entity, entry, history>>

\* 30 days without a new turn.
Expire ==
    /\ session.status # "none" /\ ~session.expired
    /\ FromOutside
    /\ session' = [session EXCEPT !.expired = TRUE]
    /\ UNCHANGED <<turns, of, entity, entry, flow, cut, left, stray, overlapped>>

-----------------------------------------------------------------------------
(* Commit.                                                                 *)

Begins(f, t, A) ==
    \E c \in Commits :
        /\ of[c] = 0
        /\ \A d \in 1 .. c - 1 : of[d] # 0
        /\ of' = [of EXCEPT ![c] = t]
        /\ Starts(f, [NoFlow EXCEPT !.kind = "commit", !.turn = t, !.commit = c, !.todo = A,
                                    !.committed = session.committed])

\* Mutant of BeginCommit: the status of the turn is not looked at.
BeginCommitAgain(f, t, A) ==
    /\ IsActive
    /\ turns[t].status # "none"
    /\ Begins(f, t, A)

\* captureCommit, with the turn named or the latest that can be committed.
BeginCommit(f, t, A) ==
    /\ IsActive
    /\ turns[t].status \notin {"none", "committed", "partial"}
    /\ Begins(f, t, A)

\* createMemo, createTask or createExpense, a transaction each.  createMemo then
\* classifies what it stored, in statements outside of it: when one throws, or
\* the memo was trashed meanwhile, the memo stays and the action is among the
\* failed ones.
CreateEntity(f, a) ==
    /\ flow[f].kind = "commit"
    /\ a \in flow[f].todo
    /\ \/ /\ entity' = [entity EXCEPT ![flow[f].commit][a] = "active"]
          /\ flow' = [flow EXCEPT ![f].todo = @ \ {a}, ![f].made = @ \cup {a}]
          /\ UNCHANGED <<stray, outside>>
       \/ /\ flow' = [flow EXCEPT ![f].todo = @ \ {a}, ![f].failed = TRUE]
          /\ UNCHANGED <<entity, stray, outside>>
       \/ /\ a \in Memos
          /\ FromOutside
          /\ entity' = [entity EXCEPT ![flow[f].commit][a] = "active"]
          /\ stray' = stray \cup {<<flow[f].commit, a>>}
          /\ flow' = [flow EXCEPT ![f].todo = @ \ {a}, ![f].failed = TRUE]
    /\ UNCHANGED <<session, turns, of, entry, cut, left, overlapped>>

Marked(f) ==
    IF flow[f].made = {} THEN [status |-> "failed", token |-> 0]
    ELSE [status |-> IF flow[f].failed THEN "partial" ELSE "committed",
          token |-> flow[f].commit]

\* Mutant of EntriesOf: a commit that is partial stores none.
EntriesOfWhole(f) == IF flow[f].failed THEN {} ELSE flow[f].made

\* The actions of a commit that get an undo entry.
EntriesOf(f) == flow[f].made

\* Mutant of SessionMarked: whether the session is committed is what the last
\* commit was.
SessionMarkedAnew(f) ==
    [session EXCEPT !.committed = flow[f].made # {}, !.status = "active"]

SessionMarked(f) ==
    [session EXCEPT !.committed = IF flow[f].made = {} THEN flow[f].committed ELSE TRUE,
                    !.status = "active"]

\* The last transaction of captureCommit.
MarkCommitted(f) ==
    /\ flow[f].kind = "commit"
    /\ flow[f].todo = {}
    /\ session' = SessionMarked(f)
    /\ turns' = [turns EXCEPT ![flow[f].turn] = Marked(f)]
    /\ entry' = [entry EXCEPT ![flow[f].commit] =
                    [a \in Actions |-> IF a \in EntriesOf(f) THEN "pending" ELSE @[a]]]
    /\ Ends(f)
    /\ UNCHANGED <<of, entity, history>>

-----------------------------------------------------------------------------
(* Undo.                                                                   *)

Pending(c) == {a \in Actions : entry[c][a] = "pending"}

\* captureUndo finds the entries, and the turn if it still has this token.
BeginUndo(f, c) ==
    /\ Pending(c) # {}
    /\ Starts(f, [NoFlow EXCEPT !.kind = "undo", !.commit = c, !.todo = Pending(c),
                                !.turn = IF turns[of[c]].token = c THEN of[c] ELSE 0])
    /\ UNCHANGED of

\* deleteMemo, deleteTask or deleteExpense, which throw if there is nothing to
\* delete.
DeleteEntity(f, a) ==
    /\ flow[f].kind = "undo"
    /\ a \in flow[f].todo
    /\ \/ /\ Live(flow[f].commit, a)
          /\ entity' = [entity EXCEPT ![flow[f].commit][a] = "trashed"]
          /\ flow' = [flow EXCEPT ![f].todo = @ \ {a}]
          /\ UNCHANGED <<left, outside>>
       \/ /\ ~Live(flow[f].commit, a)
          /\ flow' = [flow EXCEPT ![f].todo = @ \ {a}, ![f].failed = TRUE]
          /\ UNCHANGED <<entity, left, outside>>
       \/ /\ Live(flow[f].commit, a)
          /\ FromOutside
          /\ left' = left \cup {<<flow[f].commit, a>>}
          /\ flow' = [flow EXCEPT ![f].todo = @ \ {a}, ![f].failed = TRUE]
          /\ UNCHANGED entity
    /\ UNCHANGED <<session, turns, of, entry, cut, stray, overlapped>>

\* Mutant of UseEntries: those whose entity is still there are kept.
UseEntriesTrashed(c) ==
    entry' = [entry EXCEPT ![c] =
                 [a \in Actions |-> IF @[a] = "pending" /\ ~Live(c, a) THEN "used" ELSE @[a]]]

UseEntries(c) ==
    entry' = [entry EXCEPT ![c] = [a \in Actions |-> IF @[a] = "pending" THEN "used" ELSE @[a]]]

\* Mutant of TurnUndone: a turn that is undone in part stays as it is.
TurnUndoneWhole(f) ==
    IF flow[f].turn = 0 \/ flow[f].failed THEN turns
    ELSE [turns EXCEPT ![flow[f].turn].status = "undone"]

\* Mutant of TurnUndone: the turn gets the status of the system turn.
TurnUndonePartly(f) ==
    IF flow[f].turn = 0 THEN turns
    ELSE [turns EXCEPT ![flow[f].turn].status =
             IF flow[f].failed THEN "partial_undo" ELSE "undone"]

TurnUndone(f) ==
    IF flow[f].turn = 0 THEN turns
    ELSE [turns EXCEPT ![flow[f].turn].status = "undone"]

\* The last transaction of captureUndo: also the entries whose entity could
\* not be trashed are used.
FinishUndo(f) ==
    /\ flow[f].kind = "undo"
    /\ flow[f].todo = {}
    /\ UseEntries(flow[f].commit)
    /\ turns' = TurnUndone(f)
    /\ Ends(f)
    /\ UNCHANGED <<session, of, entity, history>>

\* The user trashes an entity, or restores it from the trash.
UserTrash(c, a) ==
    /\ Live(c, a)
    /\ FromOutside
    /\ entity' = [entity EXCEPT ![c][a] = "trashed"]
    /\ UNCHANGED <<session, turns, of, entry, flow, cut, left, stray, overlapped>>

UserRestore(c, a) ==
    /\ entity[c][a] = "trashed"
    /\ FromOutside
    /\ entity' = [entity EXCEPT ![c][a] = "restored"]
    /\ UNCHANGED <<session, turns, of, entry, flow, cut, left, stray, overlapped>>

-----------------------------------------------------------------------------
(* Failures.                                                               *)

CommitsOf(F) == {flow[f].commit : f \in {g \in F : flow[g].kind = "commit"}}

\* The last transaction of an operation throws, or a read before it.
Throws(f) ==
    /\ flow[f] # NoFlow
    /\ flow[f].todo = {}
    /\ FromOutside
    /\ cut' = cut \cup CommitsOf({f})
    /\ Ends(f)
    /\ UNCHANGED <<rows, left, stray, overlapped>>

\* The app is killed.
Kill ==
    /\ \E f \in Flows : flow[f] # NoFlow
    /\ FromOutside
    /\ cut' = cut \cup CommitsOf(Flows)
    /\ flow' = [f \in Flows |-> NoFlow]
    /\ UNCHANGED <<rows, left, stray, overlapped>>

-----------------------------------------------------------------------------

Operation(f) ==
    \/ BeginAppend(f) \/ FinishAppend(f)
    \/ \E t \in Turns : BeginRevise(f, t)
    \/ FinishRevise(f)
    \/ BeginDismiss(f) \/ FinishDismiss(f)
    \/ \E t \in Turns, A \in SUBSET Actions : BeginCommit(f, t, A)
    \/ \E a \in Actions : CreateEntity(f, a)
    \/ MarkCommitted(f)
    \/ \E c \in Commits : BeginUndo(f, c)
    \/ \E a \in Actions : DeleteEntity(f, a)
    \/ FinishUndo(f)
    \/ Throws(f)

Next ==
    \/ Ingest
    \/ \E f \in Flows : Operation(f)
    \/ \E c \in Commits, a \in Actions : UserTrash(c, a) \/ UserRestore(c, a)
    \/ Expire
    \/ Kill

Spec == Init /\ [][Next]_vars

-----------------------------------------------------------------------------
(* Properties.                                                             *)

\* A commit is being made.
InHand(c) == \E f \in Flows : flow[f].kind = "commit" /\ flow[f].commit = c

\* Whatever operations overlap: an entity that a commit created and nobody
\* trashed can be undone, by the entry of its token, once the commit is over;
\* unless the commit was cut before it marked, or an undo told its caller that
\* it could not trash the entity, or the commit told that its action had failed:
\* the memo of an action whose classification threw has no entry.
NothingUntraced ==
    \A c \in Commits, a \in Actions :
        entity[c][a] = "active" =>
            \/ entry[c][a] = "pending"
            \/ InHand(c)
            \/ c \in cut
            \/ <<c, a>> \in left \cup stray

\* Whatever operations overlap: a turn that shows as committed, wholly or in
\* part, has a token that still works, for all of its entities that are active,
\* but those of actions that it reports as failed.
CommittedCanBeUndone ==
    \A t \in Turns : turns[t].status \in {"committed", "partial"} =>
        /\ turns[t].token # 0
        /\ Pending(turns[t].token) # {}
        /\ \A a \in Actions :
              entity[turns[t].token][a] = "active" /\ <<turns[t].token, a>> \notin stray =>
                  a \in Pending(turns[t].token)

\* One operation at a time: an entity is active only through the commit that
\* its turn shows, so that a revision replaces the old content and does not
\* stand beside it; again but for the memo of an action that was said to have
\* failed, which stays when the turn is revised or committed again.
LiveEntitiesBelongToTheirTurn ==
    ~overlapped =>
        \A c \in Commits, a \in Actions :
            entity[c][a] = "active" =>
                \/ turns[of[c]].status \in {"committed", "partial"} /\ turns[of[c]].token = c
                \/ InHand(c)
                \/ c \in cut
                \/ <<c, a>> \in left \cup stray

\* One operation at a time: a session that has something committed, or is
\* dismissed, stays so.
SessionRemembers ==
    [][~overlapped' => /\ session.committed => session'.committed
                       /\ session.status = "dismissed" => session'.status = "dismissed"]_vars

\* What the user knows of commits, of what they made and of their tokens.
Stages == [c \in Commits |-> IF of[c] = 0 THEN "none" ELSE IF InHand(c) THEN "making"
                             ELSE IF c \in cut THEN "cut" ELSE "marked"]

ItemOf(status) ==
    IF status = "none" THEN "none" ELSE IF status = "active" THEN "live" ELSE "gone"

Items == [c \in Commits |-> [a \in Actions |->
             IF <<c, a>> \in stray THEN "astray" ELSE ItemOf(entity[c][a])]]

Covers == [c \in Commits |-> Pending(c)]

Shows == [t \in Turns |-> IF turns[t].status \in {"committed", "partial"} THEN turns[t].token
                          ELSE 0]

\* Whatever operations overlap, the session implements CapturePromise.
Promise == INSTANCE CapturePromise WITH
    None <- 0, stage <- Stages, item <- Items, covers <- Covers, told <- left, shows <- Shows

CaptureKeepsItsPromise == Promise!Spec

=============================================================================
