------------------------- MODULE CaptureStoreProofs -------------------------
(***************************************************************************)
(* Proofs about CaptureStore: its properties hold for any operations under *)
(* way at once, any actions, and any number of turns, commits and events.  *)
(***************************************************************************)
EXTENDS CaptureStore, TLAPS

\* Commits are made in one flow each, and what an undo has in hand is marked.
FlowInvariant ==
    /\ \A f \in Flows : flow[f].kind \in {"commit", "undo"} =>
          flow[f].commit # 0 /\ of[flow[f].commit] # 0
    /\ \A f \in Flows : flow[f].kind = "commit" => of[flow[f].commit] = flow[f].turn
    /\ \A f \in Flows : flow[f].kind = "revise" => flow[f].turn # 0
    /\ \A f, g \in Flows :
          flow[f].kind = "commit" /\ flow[g].kind = "commit"
              /\ flow[f].commit = flow[g].commit => f = g
    /\ \A f, g \in Flows :
          flow[f].kind = "commit" /\ flow[g].kind = "undo" => flow[f].commit # flow[g].commit

\* What a commit has made so far it knows, an undo has an eye on every entity
\* that is still to be trashed, and a commit not begun has left nothing.
EntityInvariant ==
    /\ \A f \in Flows, a \in Actions : flow[f].kind = "commit" =>
          /\ entity[flow[f].commit][a] = "active" =>
                a \in flow[f].made \/ <<flow[f].commit, a>> \in stray
          /\ entry[flow[f].commit][a] = "none"
    /\ \A f \in Flows, a \in Actions : 
          flow[f].kind = "undo" /\ entity[flow[f].commit][a] = "active"
              /\ entry[flow[f].commit][a] = "pending" =>
              a \in flow[f].todo \/ <<flow[f].commit, a>> \in left
    /\ \A c \in Commits, a \in Actions : of[c] = 0 =>
          entity[c][a] = "none" /\ entry[c][a] = "none"

\* A token is of a commit of its turn, and an undo knows the turn that has its
\* token.
TokenInvariant ==
    /\ \A t \in Turns : turns[t].token # 0 => of[turns[t].token] = t
    /\ \A f \in Flows : flow[f].kind = "undo"
          /\ turns[of[flow[f].commit]].token = flow[f].commit => flow[f].turn = of[flow[f].commit]

\* One operation at a time: what it has read is still so.
SerialInvariant ==
    ~overlapped =>
        /\ \A f, g \in Flows : flow[f] # NoFlow /\ flow[g] # NoFlow => f = g
        /\ \A f \in Flows : flow[f].kind \in {"revise", "commit"} =>
              turns[flow[f].turn].status \notin {"committed", "partial"}
        /\ \A f \in Flows : flow[f].kind \in {"append", "revise", "commit"} =>
              session.status = "active"
        /\ \A f \in Flows : flow[f].kind = "commit" => flow[f].committed = session.committed
        /\ \A f \in Flows : flow[f].kind = "undo" /\ flow[f].turn # 0 =>
              turns[flow[f].turn].token = flow[f].commit

Inductive ==
    /\ TypeOK
    /\ FlowInvariant
    /\ EntityInvariant
    /\ TokenInvariant
    /\ SerialInvariant
    /\ NothingUntraced
    /\ CommittedCanBeUndone
    /\ LiveEntitiesBelongToTheirTurn

-----------------------------------------------------------------------------
(* Types.                                                                  *)

\* What an operation has in hand is nothing that it reads itself.
LEMMA NoFlowFacts ==
  /\ NoFlow \in Flow
  /\ NoFlow.kind = "none"
BY DEF NoFlow, Flow

\* An entity gets a status.
LEMMA EntityType ==
  ASSUME TypeOK, NEW c \in Commits, NEW a \in Actions, NEW v \in EntityStatus,
         entity' = [entity EXCEPT ![c][a] = v]
  PROVE  /\ entity' \in [Commits -> [Actions -> EntityStatus]]
         /\ entity'[c][a] = v
         /\ \A d \in Commits, b \in Actions :
               d # c \/ b # a => entity'[d][b] = entity[d][b]
<1>1. entity \in [Commits -> [Actions -> EntityStatus]]
  BY DEF TypeOK
<1>2. entity[c] \in [Actions -> EntityStatus]
  BY <1>1
<1>3. [entity[c] EXCEPT ![a] = v] \in [Actions -> EntityStatus]
  BY <1>2
<1>4. entity' = [entity EXCEPT ![c] = [entity[c] EXCEPT ![a] = v]]
  OBVIOUS
<1>5. entity'[c] = [entity[c] EXCEPT ![a] = v]
  BY <1>1, <1>4
<1> QED BY <1>1, <1>2, <1>3, <1>4, <1>5

\* What ends in the middle of a commit is a commit.
LEMMA CommitsOfType ==
  ASSUME TypeOK, FlowInvariant, NEW F \in SUBSET Flows
  PROVE  CommitsOf(F) \subseteq Commits
<1>1. \A f \in Flows : flow[f].kind = "commit" => flow[f].commit \in Commits
  BY DEF TypeOK, FlowInvariant, Flow
<1> QED BY <1>1 DEF CommitsOf

\* An operation begins with a record of its own, and the rest stays.
LEMMA StartsType ==
  ASSUME TypeOK, NEW f \in Flows, NEW r \in Flow, Starts(f, r)
  PROVE  /\ flow' \in [Flows -> Flow] /\ overlapped' \in BOOLEAN
         /\ UNCHANGED <<session, turns, entity, entry, cut, left, stray, outside>>
BY DEF TypeOK, Starts

\* A turn more, and a status changed before it, keep the turns in their types.
LEMMA AddTurnType ==
  ASSUME TypeOK, NEW old \in [Turns -> [status : TurnStatus, token : Commits \cup {0}]],
         NEW status \in TurnStatus, AddTurn(old, status)
  PROVE  turns' \in [Turns -> [status : TurnStatus, token : Commits \cup {0}]]
BY DEF AddTurn

\* A status alone, too, even if there is no such turn.
LEMMA TurnStatusType ==
  ASSUME TypeOK, NEW t, NEW status \in TurnStatus
  PROVE  [turns EXCEPT ![t].status = status]
            \in [Turns -> [status : TurnStatus, token : Commits \cup {0}]]
<1>1. turns \in [Turns -> [status : TurnStatus, token : Commits \cup {0}]]
  BY DEF TypeOK
<1> QED BY <1>1

\* What comes from outside is counted.
LEMMA OutsideType ==
  ASSUME TypeOK, FromOutside PROVE outside' \in 0 .. MaxOutside
BY CaptureAssumption DEF FromOutside, TypeOK, CaptureAssumption

\* A commit takes a number and begins.
LEMMA BeginsType ==
  ASSUME TypeOK, NEW f \in Flows, NEW t \in Turns, NEW A \in SUBSET Actions, Begins(f, t, A)
  PROVE  TypeOK'
<1>1. PICK c \in Commits :
         /\ of' = [of EXCEPT ![c] = t]
         /\ Starts(f, [NoFlow EXCEPT !.kind = "commit", !.turn = t, !.commit = c, !.todo = A,
                                     !.committed = session.committed])
  BY DEF Begins
<1>2. [NoFlow EXCEPT !.kind = "commit", !.turn = t, !.commit = c, !.todo = A,
                     !.committed = session.committed] \in Flow
  BY DEF NoFlow, Flow, TypeOK
<1>3. /\ flow' \in [Flows -> Flow] /\ overlapped' \in BOOLEAN
      /\ UNCHANGED <<session, turns, entity, entry, cut, left, stray, outside>>
  BY <1>1, <1>2, StartsType
<1>4. of' \in [Commits -> Turns \cup {0}]
  BY <1>1 DEF TypeOK
<1> QED BY <1>3, <1>4 DEF TypeOK

\* Every step keeps every variable in its type.
LEMMA TypeStep == ASSUME TypeOK, FlowInvariant, [Next]_vars PROVE TypeOK'
<1> USE DEF TurnStatus
<1>1. CASE Ingest
  <2>1. turns' \in [Turns -> [status : TurnStatus, token : Commits \cup {0}]]
    BY <1>1, AddTurnType DEF Ingest, TypeOK
  <2> QED BY <1>1, <2>1 DEF Ingest, TypeOK, history
<1>2. ASSUME NEW f \in Flows, BeginAppend(f) \/ BeginDismiss(f) PROVE TypeOK'
  <2>1. /\ [NoFlow EXCEPT !.kind = "append"] \in Flow
        /\ [NoFlow EXCEPT !.kind = "dismiss"] \in Flow
    BY DEF NoFlow, Flow
  <2>2. /\ flow' \in [Flows -> Flow] /\ overlapped' \in BOOLEAN
        /\ UNCHANGED <<session, turns, entity, entry, cut, left, stray, outside>>
    BY <1>2, <2>1, StartsType DEF BeginAppend, BeginDismiss
  <2> QED BY <1>2, <2>2 DEF BeginAppend, BeginDismiss, TypeOK
<1>3. ASSUME NEW f \in Flows, NEW t \in Turns, BeginRevise(f, t) PROVE TypeOK'
  <2>1. [NoFlow EXCEPT !.kind = "revise", !.turn = t] \in Flow
    BY DEF NoFlow, Flow
  <2>2. /\ flow' \in [Flows -> Flow] /\ overlapped' \in BOOLEAN
        /\ UNCHANGED <<session, turns, entity, entry, cut, left, stray, outside>>
    BY <1>3, <2>1, StartsType DEF BeginRevise
  <2> QED BY <1>3, <2>2 DEF BeginRevise, TypeOK
<1>4. ASSUME NEW f \in Flows, FinishAppend(f) PROVE TypeOK'
  <2>1. turns' \in [Turns -> [status : TurnStatus, token : Commits \cup {0}]]
    BY <1>4, AddTurnType DEF FinishAppend, TypeOK
  <2> QED BY <1>4, <2>1, NoFlowFacts DEF FinishAppend, Ends, TypeOK, history
<1>5. ASSUME NEW f \in Flows, FinishRevise(f) PROVE TypeOK'
  <2>1. [turns EXCEPT ![flow[f].turn].status = "superseded"]
           \in [Turns -> [status : TurnStatus, token : Commits \cup {0}]]
    BY TurnStatusType
  <2>2. turns' \in [Turns -> [status : TurnStatus, token : Commits \cup {0}]]
    BY <1>5, <2>1, AddTurnType DEF FinishRevise
  <2> QED BY <1>5, <2>2, NoFlowFacts DEF FinishRevise, Ends, TypeOK, history
<1>6. ASSUME NEW f \in Flows, FinishDismiss(f) PROVE TypeOK'
  BY <1>6, NoFlowFacts DEF FinishDismiss, Ends, TypeOK, history
<1>7. ASSUME NEW f \in Flows, NEW t \in Turns, NEW A \in SUBSET Actions, BeginCommit(f, t, A)
      PROVE  TypeOK'
  BY <1>7, BeginsType DEF BeginCommit
<1>8. ASSUME NEW f \in Flows, NEW a \in Actions, CreateEntity(f, a) PROVE TypeOK'
  <2>1. flow[f] \in Flow /\ flow[f].commit \in Commits
    BY <1>8 DEF CreateEntity, FlowInvariant, TypeOK, Flow
  <2>2. /\ [flow[f] EXCEPT !.todo = @ \ {a}, !.made = @ \cup {a}] \in Flow
        /\ [flow[f] EXCEPT !.todo = @ \ {a}, !.failed = TRUE] \in Flow
    BY <2>1 DEF Flow
  <2>3. \/ flow' = [flow EXCEPT ![f] = [flow[f] EXCEPT !.todo = @ \ {a}, !.made = @ \cup {a}]]
        \/ flow' = [flow EXCEPT ![f] = [flow[f] EXCEPT !.todo = @ \ {a}, !.failed = TRUE]]
    BY <1>8, <2>1 DEF CreateEntity
  <2>4. flow' \in [Flows -> Flow]
    BY <2>2, <2>3 DEF TypeOK
  <2>5. entity' \in [Commits -> [Actions -> EntityStatus]]
    <3>1. CASE UNCHANGED entity
      BY <3>1 DEF TypeOK
    <3>2. CASE entity' = [entity EXCEPT ![flow[f].commit][a] = "active"]
      BY <2>1, <3>2, EntityType DEF EntityStatus
    <3> QED BY <1>8, <3>1, <3>2 DEF CreateEntity
  <2>6. stray' \subseteq Commits \X Actions
    BY <1>8, <2>1 DEF CreateEntity, TypeOK
  <2>7. outside' \in 0 .. MaxOutside
    BY <1>8, OutsideType DEF CreateEntity, TypeOK
  <2> QED BY <1>8, <2>4, <2>5, <2>6, <2>7 DEF CreateEntity, TypeOK
<1>9. ASSUME NEW f \in Flows, MarkCommitted(f) PROVE TypeOK'
  <2>1. flow[f] \in Flow /\ flow' \in [Flows -> Flow]
    BY <1>9, NoFlowFacts DEF MarkCommitted, Ends, TypeOK
  <2>2. session' \in [status : {"none", "active", "dismissed"},
                      committed : BOOLEAN, expired : BOOLEAN]
    BY <1>9, <2>1 DEF MarkCommitted, SessionMarked, TypeOK, Flow
  <2>3. turns' \in [Turns -> [status : TurnStatus, token : Commits \cup {0}]]
    BY <1>9, <2>1 DEF MarkCommitted, Marked, TypeOK, Flow
  <2>4. entry' \in [Commits -> [Actions -> {"none", "pending", "used"}]]
    BY <1>9, <2>1 DEF MarkCommitted, TypeOK, Flow
  <2> QED BY <1>9, <2>1, <2>2, <2>3, <2>4 DEF MarkCommitted, TypeOK, history
<1>10. ASSUME NEW f \in Flows, NEW c \in Commits, BeginUndo(f, c) PROVE TypeOK'
  <2> DEFINE r == [NoFlow EXCEPT !.kind = "undo", !.commit = c, !.todo = Pending(c),
                      !.turn = IF turns[of[c]].token = c THEN of[c] ELSE 0]
  <2>1. r \in Flow
    BY DEF NoFlow, Flow, Pending, TypeOK
  <2>2. /\ flow' \in [Flows -> Flow] /\ overlapped' \in BOOLEAN
        /\ UNCHANGED <<session, turns, entity, entry, cut, left, stray, outside>>
    BY <1>10, <2>1, StartsType DEF BeginUndo
  <2> QED BY <1>10, <2>2 DEF BeginUndo, TypeOK
<1>11. ASSUME NEW f \in Flows, NEW a \in Actions, DeleteEntity(f, a) PROVE TypeOK'
  <2>1. flow[f] \in Flow /\ flow[f].commit \in Commits
    BY <1>11 DEF DeleteEntity, FlowInvariant, TypeOK, Flow
  <2>2. /\ [flow[f] EXCEPT !.todo = @ \ {a}] \in Flow
        /\ [flow[f] EXCEPT !.todo = @ \ {a}, !.failed = TRUE] \in Flow
    BY <2>1 DEF Flow
  <2>3. \/ flow' = [flow EXCEPT ![f] = [flow[f] EXCEPT !.todo = @ \ {a}]]
        \/ flow' = [flow EXCEPT ![f] = [flow[f] EXCEPT !.todo = @ \ {a}, !.failed = TRUE]]
    BY <1>11, <2>1 DEF DeleteEntity
  <2>4. flow' \in [Flows -> Flow]
    BY <2>2, <2>3 DEF TypeOK
  <2>5. entity' \in [Commits -> [Actions -> EntityStatus]]
    <3>1. CASE UNCHANGED entity
      BY <3>1 DEF TypeOK
    <3>2. CASE entity' = [entity EXCEPT ![flow[f].commit][a] = "trashed"]
      BY <2>1, <3>2, EntityType DEF EntityStatus
    <3> QED BY <1>11, <3>1, <3>2 DEF DeleteEntity
  <2>6. left' \subseteq Commits \X Actions
    BY <1>11, <2>1 DEF DeleteEntity, TypeOK
  <2>7. outside' \in 0 .. MaxOutside
    BY <1>11, OutsideType DEF DeleteEntity, TypeOK
  <2> QED BY <1>11, <2>4, <2>5, <2>6, <2>7 DEF DeleteEntity, TypeOK
<1>12. ASSUME NEW f \in Flows, FinishUndo(f) PROVE TypeOK'
  <2>1. flow[f] \in Flow /\ flow' \in [Flows -> Flow]
    BY <1>12, NoFlowFacts DEF FinishUndo, Ends, TypeOK
  <2>2. turns' \in [Turns -> [status : TurnStatus, token : Commits \cup {0}]]
    <3>1. CASE turns' = turns
      BY <3>1 DEF TypeOK
    <3>2. CASE turns' = [turns EXCEPT ![flow[f].turn].status = "undone"]
      BY <3>2, TurnStatusType
    <3> QED BY <1>12, <3>1, <3>2 DEF FinishUndo, TurnUndone
  <2>3. entry' \in [Commits -> [Actions -> {"none", "pending", "used"}]]
    BY <1>12, <2>1 DEF FinishUndo, UseEntries, TypeOK, Flow
  <2> QED BY <1>12, <2>1, <2>2, <2>3 DEF FinishUndo, TypeOK, history
<1>13. ASSUME NEW f \in Flows, Throws(f) PROVE TypeOK'
  <2>1. flow' \in [Flows -> Flow]
    BY <1>13, NoFlowFacts DEF Throws, Ends, TypeOK
  <2>2. CommitsOf({f}) \subseteq Commits
    BY CommitsOfType
  <2>3. cut \subseteq Commits /\ cut' = cut \cup CommitsOf({f})
    BY <1>13 DEF Throws, TypeOK
  <2>4. cut' \subseteq Commits
    BY <2>2, <2>3
  <2>5. outside' \in 0 .. MaxOutside
    BY <1>13, OutsideType DEF Throws
  <2>6. UNCHANGED <<session, turns, of, entity, entry, left, stray, overlapped>>
    BY <1>13 DEF Throws, rows
  <2> QED BY <2>1, <2>4, <2>5, <2>6 DEF TypeOK
<1>14. CASE Kill
  <2>1. CommitsOf(Flows) \subseteq Commits
    BY CommitsOfType
  <2>2. cut \subseteq Commits /\ cut' = cut \cup CommitsOf(Flows)
    BY <1>14 DEF Kill, TypeOK
  <2>3. cut' \subseteq Commits
    BY <2>1, <2>2
  <2>4. outside' \in 0 .. MaxOutside
    BY <1>14, OutsideType DEF Kill
  <2>5. UNCHANGED <<session, turns, of, entity, entry, left, stray, overlapped>>
    BY <1>14 DEF Kill, rows
  <2>6. flow' \in [Flows -> Flow]
    BY <1>14, NoFlowFacts DEF Kill
  <2> QED BY <2>3, <2>4, <2>5, <2>6 DEF TypeOK
<1>15. CASE Expire
  <2>1. outside' \in 0 .. MaxOutside
    BY <1>15, OutsideType DEF Expire
  <2>2. session' \in [status : {"none", "active", "dismissed"},
                      committed : BOOLEAN, expired : BOOLEAN]
    BY <1>15 DEF Expire, TypeOK
  <2> QED BY <1>15, <2>1, <2>2 DEF Expire, TypeOK
<1>16. ASSUME NEW c \in Commits, NEW a \in Actions, UserTrash(c, a) \/ UserRestore(c, a)
       PROVE  TypeOK'
  <2>1. entity' \in [Commits -> [Actions -> EntityStatus]]
    BY <1>16, EntityType DEF UserTrash, UserRestore, EntityStatus
  <2>2. outside' \in 0 .. MaxOutside
    BY <1>16, OutsideType DEF UserTrash, UserRestore
  <2>3. UNCHANGED <<session, turns, of, entry, flow, cut, left, stray, overlapped>>
    BY <1>16 DEF UserTrash, UserRestore
  <2> QED BY <2>1, <2>2, <2>3 DEF TypeOK
<1>17. CASE UNCHANGED vars
  BY <1>17 DEF vars, rows, history, TypeOK
<1> QED BY <1>1, <1>2, <1>3, <1>4, <1>5, <1>6, <1>7, <1>8, <1>9, <1>10, <1>11, <1>12, <1>13,
           <1>14, <1>15, <1>16, <1>17 DEF Next, Operation

-----------------------------------------------------------------------------
(* The other invariants, one lemma per kind of step.                       *)

\* What TypeOK says of the fields the invariants read.
LEMMA Fields ==
  ASSUME TypeOK
  PROVE  /\ \A f \in Flows : flow[f] \in Flow
         /\ \A f \in Flows : flow[f].turn \in Turns \cup {0} /\ flow[f].commit \in Commits \cup {0}
         /\ \A t \in Turns : turns[t].token \in Commits \cup {0}
         /\ \A c \in Commits : of[c] \in Turns \cup {0}
         /\ 0 \notin Turns /\ 0 \notin Commits
BY CaptureAssumption DEF TypeOK, Flow, Turns, Commits, CaptureAssumption

\* The record of an operation that ends is idle.
LEMMA EndsFacts ==
  ASSUME TypeOK, NEW f \in Flows, Ends(f)
  PROVE  flow'[f] = NoFlow /\ \A g \in Flows : g # f => flow'[g] = flow[g]
BY DEF TypeOK, Ends

LEMMA StartsFacts ==
  ASSUME TypeOK, NEW f \in Flows, NEW r, Starts(f, r)
  PROVE  /\ flow[f] = NoFlow /\ flow'[f] = r
         /\ \A g \in Flows : g # f => flow'[g] = flow[g]
         /\ ~overlapped' => ~overlapped /\ \A g \in Flows : g # f => flow'[g] = NoFlow
         /\ UNCHANGED <<session, turns, entity, entry, cut, left, stray, outside>>
BY DEF TypeOK, Starts

\* A turn more has no token and is not committed, and the others are as before.
LEMMA AddTurnFacts ==
  ASSUME NEW old \in [Turns -> [status : TurnStatus, token : Commits \cup {0}]],
         NEW status, AddTurn(old, status)
  PROVE  \E t \in Turns :
            /\ old[t] = NoTurn
            /\ turns'[t].status = status /\ turns'[t].token = 0
            /\ \A u \in Turns : u # t => turns'[u] = old[u]
BY DEF AddTurn, NoTurn

\* An operation that only writes to session and turns begins.
LEMMA BeginOtherStep ==
  ASSUME Inductive, NEW f \in Flows, NEW r \in Flow, Starts(f, r), UNCHANGED of,
         r.kind \in {"append", "revise", "dismiss"},
         session.status = "active",
         r.kind = "revise" => /\ r.turn # 0
                              /\ turns[r.turn].status \notin {"committed", "partial"}
  PROVE  /\ FlowInvariant' /\ EntityInvariant' /\ TokenInvariant' /\ SerialInvariant'
         /\ NothingUntraced' /\ CommittedCanBeUndone' /\ LiveEntitiesBelongToTheirTurn'
<1>1. /\ flow[f] = NoFlow /\ flow'[f] = r
      /\ \A g \in Flows : g # f => flow'[g] = flow[g]
      /\ ~overlapped' => ~overlapped /\ \A g \in Flows : g # f => flow'[g] = NoFlow
      /\ UNCHANGED <<session, turns, entity, entry, cut, left, stray, outside>>
  BY StartsFacts DEF Inductive
<1>2. /\ flow'[f].kind \in {"append", "revise", "dismiss"}
      /\ flow[f].kind = "none"
  BY <1>1, NoFlowFacts
<1>3. FlowInvariant'
  BY <1>1, <1>2 DEF Inductive, FlowInvariant
<1>4. EntityInvariant'
  BY <1>1, <1>2 DEF Inductive, EntityInvariant
<1>5. TokenInvariant'
  BY <1>1, <1>2 DEF Inductive, TokenInvariant
<1>6. SerialInvariant'
  BY <1>1, <1>2, NoFlowFacts DEF Inductive, SerialInvariant
<1>7. \A c \in Commits : InHand(c) => InHand(c)'
  BY <1>1, <1>2 DEF InHand
<1>8. NothingUntraced'
  BY <1>1, <1>7 DEF Inductive, NothingUntraced
<1>9. CommittedCanBeUndone'
  BY <1>1 DEF Inductive, CommittedCanBeUndone, Pending
<1>10. LiveEntitiesBelongToTheirTurn'
  BY <1>1, <1>7 DEF Inductive, LiveEntitiesBelongToTheirTurn
<1> QED BY <1>3, <1>4, <1>5, <1>6, <1>8, <1>9, <1>10

\* A commit begins, under a number no row knows.
LEMMA BeginCommitStep ==
  ASSUME Inductive, NEW f \in Flows, NEW t \in Turns, NEW A \in SUBSET Actions,
         BeginCommit(f, t, A)
  PROVE  /\ FlowInvariant' /\ EntityInvariant' /\ TokenInvariant' /\ SerialInvariant'
         /\ NothingUntraced' /\ CommittedCanBeUndone' /\ LiveEntitiesBelongToTheirTurn'
<1> DEFINE r(c) == [NoFlow EXCEPT !.kind = "commit", !.turn = t, !.commit = c, !.todo = A,
                                  !.committed = session.committed]
<1>1. PICK c \in Commits : of[c] = 0 /\ of' = [of EXCEPT ![c] = t] /\ Starts(f, r(c))
  BY DEF BeginCommit, Begins
<1>2. /\ flow[f] = NoFlow
      /\ \A g \in Flows : g # f => flow'[g] = flow[g]
      /\ ~overlapped' => ~overlapped /\ \A g \in Flows : g # f => flow'[g] = NoFlow
      /\ UNCHANGED <<session, turns, entity, entry, cut, left, stray, outside>>
  BY <1>1, StartsFacts DEF Inductive
<1>3. /\ flow'[f].kind = "commit" /\ flow'[f].turn = t /\ flow'[f].commit = c
      /\ flow'[f].committed = session.committed /\ flow[f].kind = "none"
  <2>1. flow[f] = NoFlow /\ flow'[f] = r(c)
    BY <1>1, StartsFacts DEF Inductive
  <2> QED BY <2>1 DEF NoFlow
<1> HIDE DEF r
<1>4. /\ of'[c] = t /\ \A d \in Commits : d # c => of'[d] = of[d]
      /\ t # 0 /\ c # 0
  BY <1>1, Fields DEF Inductive, TypeOK
<1>5. \A g \in Flows : g # f /\ flow[g].kind \in {"commit", "undo"} =>
         flow[g].commit \in Commits /\ flow[g].commit # c
  BY <1>1, Fields DEF Inductive, FlowInvariant
<1>6. FlowInvariant'
  <2>1. FlowInvariant
    BY DEF Inductive
  <2>2. \A g \in Flows : flow'[g].kind \in {"commit", "undo"} =>
           flow'[g].commit # 0 /\ of'[flow'[g].commit] # 0
    BY <1>2, <1>3, <1>4, <1>5, <2>1 DEF FlowInvariant
  <2>3. \A g \in Flows : flow'[g].kind = "commit" => of'[flow'[g].commit] = flow'[g].turn
    BY <1>2, <1>3, <1>4, <1>5, <2>1 DEF FlowInvariant
  <2>4. \A g, h \in Flows :
           flow'[g].kind = "commit" /\ flow'[h].kind \in {"commit", "undo"}
               /\ flow'[g].commit = flow'[h].commit => g = h
    BY <1>2, <1>3, <1>5, <2>1 DEF FlowInvariant
  <2>5. \A g \in Flows : flow'[g].kind = "revise" => flow'[g].turn # 0
    BY <1>2, <1>3, <2>1 DEF FlowInvariant
  <2> QED BY <2>2, <2>3, <2>4, <2>5 DEF FlowInvariant
<1>7. EntityInvariant'
  <2>1. EntityInvariant
    BY DEF Inductive
  <2>2. \A a \in Actions : entity[c][a] = "none" /\ entry[c][a] = "none"
    BY <1>1, <2>1 DEF EntityInvariant
  <2> QED BY <1>2, <1>3, <1>4, <2>1, <2>2 DEF EntityInvariant
<1>8. \A u \in Turns : turns[u].token # c
  BY <1>1, Fields DEF Inductive, TokenInvariant
<1>9. TokenInvariant'
  <2>1. TokenInvariant
    BY DEF Inductive
  <2>2. \A u \in Turns : turns[u].token \in Commits \cup {0}
    BY Fields DEF Inductive
  <2> QED BY <1>2, <1>3, <1>4, <1>5, <1>8, <2>1, <2>2 DEF TokenInvariant
<1>10. SerialInvariant'
  BY <1>2, <1>3, NoFlowFacts DEF Inductive, SerialInvariant, BeginCommit, IsActive
<1>11. \A d \in Commits : InHand(d) => InHand(d)'
  BY <1>2, <1>3 DEF InHand
<1>12. NothingUntraced'
  BY <1>2, <1>11 DEF Inductive, NothingUntraced
<1>13. CommittedCanBeUndone'
  BY <1>2 DEF Inductive, CommittedCanBeUndone, Pending
<1>14. \A a \in Actions : entity[c][a] # "active"
  BY <1>1 DEF Inductive, EntityInvariant
<1>15. LiveEntitiesBelongToTheirTurn'
  BY <1>2, <1>4, <1>11, <1>14 DEF Inductive, LiveEntitiesBelongToTheirTurn
<1> QED BY <1>6, <1>7, <1>9, <1>10, <1>12, <1>13, <1>15

\* A commit makes an entity, which it knows or takes for one that it did not make.
LEMMA CreateEntityStep ==
  ASSUME Inductive, NEW f \in Flows, NEW a \in Actions, CreateEntity(f, a)
  PROVE  /\ FlowInvariant' /\ EntityInvariant' /\ TokenInvariant' /\ SerialInvariant'
         /\ NothingUntraced' /\ CommittedCanBeUndone' /\ LiveEntitiesBelongToTheirTurn'
<1>1. PICK c \in Commits : /\ flow[f].commit = c /\ flow[f].kind = "commit"
                           /\ of[c] # 0 /\ flow[f] \in Flow
  BY Fields DEF Inductive, FlowInvariant, CreateEntity
<1>2. UNCHANGED <<session, turns, of, entry, cut, left, overlapped>> /\ stray \subseteq stray'
  BY DEF CreateEntity
<1>3. /\ \A g \in Flows : g # f => flow'[g] = flow[g]
      /\ flow'[f].kind = "commit" /\ flow'[f].turn = flow[f].turn /\ flow'[f].commit = c
      /\ flow'[f].committed = flow[f].committed
      /\ flow[f].made \subseteq flow'[f].made
  BY <1>1 DEF CreateEntity, Inductive, TypeOK, Flow
<1>4. /\ \A d \in Commits, b \in Actions :
            d # c \/ b # a => entity'[d][b] = entity[d][b]
      /\ entity'[c][a] = entity[c][a] \/ a \in flow'[f].made \/ <<c, a>> \in stray'
  <2>1. CASE UNCHANGED entity
    BY <2>1
  <2>2. CASE entity' = [entity EXCEPT ![c][a] = "active"]
    <3>1. a \in flow'[f].made \/ <<c, a>> \in stray'
      <4>1. CASE flow' = [flow EXCEPT ![f].todo = @ \ {a}, ![f].made = @ \cup {a}]
        BY <1>1, <4>1 DEF Inductive, TypeOK, Flow
      <4>2. CASE stray' = stray \cup {<<c, a>>}
        BY <4>2
      <4>3. CASE UNCHANGED entity
        <5>1. entity[c][a] = "active"
          BY <2>2, <4>3, EntityType DEF Inductive, EntityStatus
        <5> QED BY <1>1, <1>2, <1>3, <5>1 DEF Inductive, EntityInvariant
      <4> QED BY <1>1, <4>1, <4>2, <4>3 DEF CreateEntity
    <3>2. \A d \in Commits, b \in Actions :
            d # c \/ b # a => entity'[d][b] = entity[d][b]
      BY <2>2, EntityType DEF Inductive, EntityStatus
    <3> QED BY <3>1, <3>2
  <2> QED BY <1>1, <2>1, <2>2 DEF CreateEntity
<1>5. \A g \in Flows : g # f /\ flow[g].kind \in {"commit", "undo"} =>
         flow[g].commit \in Commits /\ flow[g].commit # c
  BY <1>1, Fields DEF Inductive, FlowInvariant
<1>6. FlowInvariant'
  BY <1>1, <1>2, <1>3 DEF Inductive, FlowInvariant
<1>7. EntityInvariant'
  BY <1>1, <1>2, <1>3, <1>4, <1>5 DEF Inductive, EntityInvariant
<1>8. TokenInvariant'
  BY <1>1, <1>2, <1>3 DEF Inductive, TokenInvariant
<1>9. SerialInvariant'
  BY <1>1, <1>2, <1>3, NoFlowFacts DEF Inductive, SerialInvariant
<1>10. InHand(c)' /\ \A d \in Commits : InHand(d) => InHand(d)'
  BY <1>1, <1>3 DEF InHand
<1>11. NothingUntraced'
  BY <1>2, <1>4, <1>10 DEF Inductive, NothingUntraced
<1>12. \A t \in Turns : turns[t].status \in {"committed", "partial"} => turns[t].token # c
  BY <1>1 DEF Inductive, CommittedCanBeUndone, EntityInvariant, Pending
<1>13. CommittedCanBeUndone'
  BY <1>2, <1>4, <1>12, Fields DEF Inductive, CommittedCanBeUndone, Pending
<1>14. LiveEntitiesBelongToTheirTurn'
  BY <1>2, <1>4, <1>10 DEF Inductive, LiveEntitiesBelongToTheirTurn
<1> QED BY <1>6, <1>7, <1>8, <1>9, <1>11, <1>13, <1>14

\* The last transaction of a commit: its entities get their entries and its
\* turn their token.
LEMMA MarkCommittedStep ==
  ASSUME Inductive, NEW f \in Flows, MarkCommitted(f)
  PROVE  /\ FlowInvariant' /\ EntityInvariant' /\ TokenInvariant' /\ SerialInvariant'
         /\ NothingUntraced' /\ CommittedCanBeUndone' /\ LiveEntitiesBelongToTheirTurn'
<1>1. PICK c \in Commits, t \in Turns :
         /\ flow[f].commit = c /\ flow[f].turn = t /\ flow[f].kind = "commit" /\ of[c] = t
         /\ flow[f] \in Flow
  BY Fields DEF Inductive, FlowInvariant, MarkCommitted
<1>2. PICK made \in SUBSET Actions : made = flow[f].made
  BY <1>1 DEF Flow
<1>3. UNCHANGED <<of, entity, cut, left, stray, overlapped>>
  BY DEF MarkCommitted, history
<1>4. /\ \A g \in Flows : g # f => flow'[g] = flow[g]
      /\ flow'[f] = NoFlow /\ flow'[f].kind = "none"
  BY EndsFacts, NoFlowFacts DEF MarkCommitted, Inductive
<1>5. /\ \A d \in Commits, a \in Actions : d # c => entry'[d][a] = entry[d][a]
      /\ \A a \in Actions : entry'[c][a] = IF a \in made THEN "pending" ELSE entry[c][a]
  BY <1>1, <1>2 DEF MarkCommitted, EntriesOf, Inductive, TypeOK
<1>6. /\ \A u \in Turns : u # t => turns'[u] = turns[u]
      /\ turns'[t] = Marked(f)
  <2>1. turns' = [turns EXCEPT ![t] = Marked(f)]
    BY <1>1 DEF MarkCommitted
  <2>2. turns \in [Turns -> [status : TurnStatus, token : Commits \cup {0}]]
    BY DEF Inductive, TypeOK
  <2> QED BY <2>1, <2>2
<1>7. /\ made = {} => turns'[t].status = "failed" /\ turns'[t].token = 0
      /\ made # {} => turns'[t].status \in {"committed", "partial"} /\ turns'[t].token = c
  <2>1. made = {} => Marked(f) = [status |-> "failed", token |-> 0]
    BY <1>2 DEF Marked
  <2>2. made # {} => \/ Marked(f) = [status |-> "partial", token |-> c]
                     \/ Marked(f) = [status |-> "committed", token |-> c]
    BY <1>1, <1>2 DEF Marked
  <2> QED BY <1>6, <2>1, <2>2
<1>8. /\ \A a \in Actions : entity[c][a] = "active" => a \in made \/ <<c, a>> \in stray
      /\ \A a \in Actions : entry[c][a] = "none"
  BY <1>1, <1>2 DEF Inductive, EntityInvariant
<1>9. \A g \in Flows : g # f /\ flow[g].kind \in {"commit", "undo"} =>
         flow[g].commit \in Commits /\ flow[g].commit # c
  BY <1>1, Fields DEF Inductive, FlowInvariant
<1>10. c # 0 /\ t # 0
  BY Fields DEF Inductive
<1>11. FlowInvariant'
  BY <1>3, <1>4 DEF Inductive, FlowInvariant
<1>12. EntityInvariant'
  <2>1. EntityInvariant
    BY DEF Inductive
  <2> QED BY <1>1, <1>3, <1>4, <1>5, <1>9, <1>10, <2>1 DEF EntityInvariant
<1>13. TokenInvariant'
  <2>1. TokenInvariant
    BY DEF Inductive
  <2>2. \A u \in Turns : turns'[u].token # 0 => of[turns'[u].token] = u
    BY <1>1, <1>6, <1>7, <2>1 DEF TokenInvariant
  <2>3. \A d \in Commits : d # c /\ of[d] \in Turns /\ turns'[of[d]].token = d => turns[of[d]].token = d
    BY <1>6, <1>7, Fields DEF Inductive
  <2>4. \A g \in Flows : flow[g].kind = "undo" => flow[g].commit # 0 /\ of[flow[g].commit] # 0
    BY DEF Inductive, FlowInvariant
  <2>5. \A d \in Commits : of[d] \in Turns \cup {0}
    BY Fields DEF Inductive
  <2> QED BY <1>3, <1>4, <1>9, <2>1, <2>2, <2>3, <2>4, <2>5 DEF TokenInvariant
<1>14. ASSUME ~overlapped
       PROVE  /\ \A g \in Flows : flow'[g] = NoFlow
              /\ turns[t].status \notin {"committed", "partial"}
  BY <1>1, <1>4, <1>14, NoFlowFacts DEF Inductive, SerialInvariant
<1>15. SerialInvariant'
  BY <1>3, <1>14, NoFlowFacts DEF SerialInvariant
<1>16. \A d \in Commits : d # c /\ InHand(d) => InHand(d)'
  BY <1>1, <1>4 DEF InHand
<1>17. NothingUntraced'
  <2>1. NothingUntraced
    BY DEF Inductive
  <2> QED BY <1>3, <1>5, <1>8, <1>16, <2>1 DEF NothingUntraced
<1>18. \A u \in Turns : turns[u].token \in Commits /\ u # t => turns[u].token # c
  BY <1>1, <1>10 DEF Inductive, TokenInvariant
<1>19. CommittedCanBeUndone'
  <2>1. \A u \in Turns : turns[u].status \in {"committed", "partial"} =>
           /\ turns[u].token # 0
           /\ \E a \in Actions : entry[turns[u].token][a] = "pending"
           /\ \A a \in Actions : entity[turns[u].token][a] = "active"
                 /\ <<turns[u].token, a>> \notin stray =>
                 entry[turns[u].token][a] = "pending"
    BY DEF Inductive, CommittedCanBeUndone, Pending
  <2>2. ASSUME NEW u \in Turns, turns'[u].status \in {"committed", "partial"}
        PROVE  /\ turns'[u].token # 0
               /\ \E a \in Actions : entry'[turns'[u].token][a] = "pending"
               /\ \A a \in Actions : entity'[turns'[u].token][a] = "active"
                     /\ <<turns'[u].token, a>> \notin stray' =>
                     entry'[turns'[u].token][a] = "pending"
    <3>1. CASE u = t
      <4>1. made # {} /\ turns'[u].token = c
        BY <1>7, <2>2, <3>1
      <4> QED BY <1>3, <1>5, <1>8, <1>10, <4>1
    <3>2. CASE u # t
      <4>1. turns'[u] = turns[u] /\ turns[u].token \in Commits /\ turns[u].token # c
        BY <1>6, <1>18, <2>1, <2>2, <3>2, Fields DEF Inductive
      <4> QED BY <1>3, <1>5, <2>1, <2>2, <4>1
    <3> QED BY <3>1, <3>2
  <2> QED BY <2>2 DEF CommittedCanBeUndone, Pending
<1>20. LiveEntitiesBelongToTheirTurn'
  <2> SUFFICES ASSUME ~overlapped', NEW d \in Commits, NEW a \in Actions, entity'[d][a] = "active"
               PROVE  \/ turns'[of'[d]].status \in {"committed", "partial"}
                         /\ turns'[of'[d]].token = d
                      \/ InHand(d)' \/ d \in cut' \/ <<d, a>> \in left' \cup stray'
    BY DEF LiveEntitiesBelongToTheirTurn
  <2>1. CASE d = c
    BY <1>1, <1>3, <1>7, <1>8, <2>1
  <2>2. CASE d # c
    <3>1. \/ turns[of[d]].status \in {"committed", "partial"} /\ turns[of[d]].token = d
          \/ InHand(d) \/ d \in cut \/ <<d, a>> \in left \cup stray
      BY <1>3 DEF Inductive, LiveEntitiesBelongToTheirTurn
    <3>2. of[d] # 0 /\ of[d] \in Turns
      BY <1>3, Fields DEF Inductive, EntityInvariant
    <3> QED BY <1>3, <1>6, <1>14, <1>16, <2>2, <3>1, <3>2
  <2> QED BY <2>1, <2>2
<1> QED BY <1>11, <1>12, <1>13, <1>15, <1>17, <1>19, <1>20

\* An undo begins: it has every entry that is pending in hand.
LEMMA BeginUndoStep ==
  ASSUME Inductive, NEW f \in Flows, NEW c \in Commits, BeginUndo(f, c)
  PROVE  /\ FlowInvariant' /\ EntityInvariant' /\ TokenInvariant' /\ SerialInvariant'
         /\ NothingUntraced' /\ CommittedCanBeUndone' /\ LiveEntitiesBelongToTheirTurn'
<1> DEFINE r == [NoFlow EXCEPT !.kind = "undo", !.commit = c, !.todo = Pending(c),
                               !.turn = IF turns[of[c]].token = c THEN of[c] ELSE 0]
<1>1. Starts(f, r) /\ UNCHANGED of /\ Pending(c) # {}
  BY DEF BeginUndo
<1>2. /\ flow[f] = NoFlow
      /\ \A g \in Flows : g # f => flow'[g] = flow[g]
      /\ ~overlapped' => ~overlapped /\ \A g \in Flows : g # f => flow'[g] = NoFlow
      /\ UNCHANGED <<session, turns, entity, entry, cut, left, stray, outside>>
  BY <1>1, StartsFacts DEF Inductive
<1>3. /\ flow'[f].kind = "undo" /\ flow'[f].commit = c /\ flow'[f].todo = Pending(c)
      /\ flow'[f].turn = IF turns[of[c]].token = c THEN of[c] ELSE 0
      /\ flow[f].kind = "none"
  <2>1. flow[f] = NoFlow /\ flow'[f] = r
    BY <1>1, StartsFacts DEF Inductive
  <2> QED BY <2>1 DEF NoFlow
<1> HIDE DEF r
<1>4. PICK b \in Actions : entry[c][b] = "pending"
  BY <1>1 DEF Pending
<1>5. of[c] # 0 /\ c # 0
  BY <1>4, Fields DEF Inductive, EntityInvariant
<1>6. \A g \in Flows : flow[g].kind = "commit" => flow[g].commit # c
  BY <1>4 DEF Inductive, EntityInvariant
<1>7. FlowInvariant'
  BY <1>1, <1>2, <1>3, <1>5, <1>6 DEF Inductive, FlowInvariant
<1>8. EntityInvariant'
  <2>1. EntityInvariant
    BY DEF Inductive
  <2>2. \A a \in Actions : entry[c][a] = "pending" => a \in flow'[f].todo
    BY <1>3 DEF Pending
  <2> QED BY <1>1, <1>2, <1>3, <2>1, <2>2 DEF EntityInvariant
<1>9. TokenInvariant'
  BY <1>1, <1>2, <1>3 DEF Inductive, TokenInvariant
<1>10. SerialInvariant'
  BY <1>2, <1>3, NoFlowFacts DEF Inductive, SerialInvariant
<1>11. \A d \in Commits : InHand(d) => InHand(d)'
  BY <1>2, <1>3 DEF InHand
<1>12. NothingUntraced'
  BY <1>2, <1>11 DEF Inductive, NothingUntraced
<1>13. CommittedCanBeUndone'
  BY <1>2 DEF Inductive, CommittedCanBeUndone, Pending
<1>14. LiveEntitiesBelongToTheirTurn'
  BY <1>1, <1>2, <1>11 DEF Inductive, LiveEntitiesBelongToTheirTurn
<1> QED BY <1>7, <1>8, <1>9, <1>10, <1>12, <1>13, <1>14

\* An undo trashes an entity, finds that it is, or takes note that it cannot.
LEMMA DeleteEntityStep ==
  ASSUME Inductive, NEW f \in Flows, NEW a \in Actions, DeleteEntity(f, a)
  PROVE  /\ FlowInvariant' /\ EntityInvariant' /\ TokenInvariant' /\ SerialInvariant'
         /\ NothingUntraced' /\ CommittedCanBeUndone' /\ LiveEntitiesBelongToTheirTurn'
<1>1. PICK c \in Commits : /\ flow[f].commit = c /\ flow[f].kind = "undo"
                           /\ of[c] # 0 /\ flow[f] \in Flow
  BY Fields DEF Inductive, FlowInvariant, DeleteEntity
<1>2. UNCHANGED <<session, turns, of, entry, cut, stray, overlapped>> /\ left \subseteq left'
  BY DEF DeleteEntity
<1>3. /\ \A g \in Flows : g # f => flow'[g] = flow[g]
      /\ flow'[f].kind = "undo" /\ flow'[f].turn = flow[f].turn /\ flow'[f].commit = c
      /\ flow'[f].todo = flow[f].todo \ {a}
  BY <1>1 DEF DeleteEntity, Inductive, TypeOK, Flow
<1>4. \A d \in Commits, b \in Actions :
         entity'[d][b] = "active" => entity[d][b] = "active"
  <2>1. CASE entity' = [entity EXCEPT ![c][a] = "trashed"]
    <3>1. entity'[c][a] = "trashed"
      BY <2>1, EntityType DEF Inductive, EntityStatus
    <3>2. \A d \in Commits, b \in Actions : d # c \/ b # a => entity'[d][b] = entity[d][b]
      BY <2>1, EntityType DEF Inductive, EntityStatus
    <3> QED BY <3>1, <3>2
  <2> QED BY <1>1, <2>1 DEF DeleteEntity
<1>5. entity'[c][a] = "active" => <<c, a>> \in left'
  <2>1. CASE entity' = [entity EXCEPT ![c][a] = "trashed"]
    BY <2>1, EntityType DEF Inductive, EntityStatus
  <2> QED BY <1>1, <2>1 DEF DeleteEntity, Live
<1>6. FlowInvariant'
  BY <1>1, <1>2, <1>3 DEF Inductive, FlowInvariant
<1>7. \A d \in Commits : of[d] = 0 => d # c
  BY <1>1
<1>8. EntityInvariant'
  <2>1. EntityInvariant
    BY DEF Inductive
  <2>2. \A g \in Flows, b \in Actions : flow'[g].kind = "commit" =>
           /\ entity'[flow'[g].commit][b] = "active" =>
                 b \in flow'[g].made \/ <<flow'[g].commit, b>> \in stray'
           /\ entry'[flow'[g].commit][b] = "none"
    <3>1. \A g \in Flows : flow[g].kind = "commit" => flow[g].commit \in Commits
      BY Fields DEF Inductive, FlowInvariant
    <3> QED BY <1>1, <1>2, <1>3, <1>4, <2>1, <3>1 DEF EntityInvariant
  <2>3. ASSUME NEW g \in Flows, NEW b \in Actions, flow'[g].kind = "undo",
               entity'[flow'[g].commit][b] = "active", entry'[flow'[g].commit][b] = "pending"
        PROVE  b \in flow'[g].todo \/ <<flow'[g].commit, b>> \in left'
    <3>1. \A h \in Flows : flow[h].kind = "undo" => flow[h].commit \in Commits
      BY Fields DEF Inductive, FlowInvariant
    <3>2. CASE g = f
      BY <1>1, <1>2, <1>3, <1>4, <1>5, <2>1, <2>3, <3>2 DEF EntityInvariant
    <3>3. CASE g # f
      BY <1>2, <1>3, <1>4, <2>1, <2>3, <3>1, <3>3 DEF EntityInvariant
    <3> QED BY <3>2, <3>3
  <2>4. \A d \in Commits, b \in Actions : of'[d] = 0 =>
           entity'[d][b] = "none" /\ entry'[d][b] = "none"
    <3>1. \A d \in Commits, b \in Actions : d # c => entity'[d][b] = entity[d][b]
      <4>1. CASE entity' = [entity EXCEPT ![c][a] = "trashed"]
        BY <4>1, EntityType DEF Inductive, EntityStatus
      <4> QED BY <1>1, <4>1 DEF DeleteEntity
    <3> QED BY <1>2, <1>7, <2>1, <3>1 DEF EntityInvariant
  <2> QED BY <2>2, <2>3, <2>4 DEF EntityInvariant
<1>9. TokenInvariant'
  BY <1>1, <1>2, <1>3 DEF Inductive, TokenInvariant
<1>10. SerialInvariant'
  BY <1>1, <1>2, <1>3, NoFlowFacts DEF Inductive, SerialInvariant
<1>11. \A d \in Commits : InHand(d) => InHand(d)'
  BY <1>1, <1>3 DEF InHand
<1>12. NothingUntraced'
  BY <1>2, <1>4, <1>11 DEF Inductive, NothingUntraced
<1>13. CommittedCanBeUndone'
  BY <1>2, <1>4, Fields DEF Inductive, CommittedCanBeUndone, Pending
<1>14. LiveEntitiesBelongToTheirTurn'
  BY <1>2, <1>4, <1>11 DEF Inductive, LiveEntitiesBelongToTheirTurn
<1> QED BY <1>6, <1>8, <1>9, <1>10, <1>12, <1>13, <1>14

\* When the only operation ends, none is left.
LEMMA SerialEnds ==
  ASSUME Inductive, NEW f \in Flows, flow[f] # NoFlow, Ends(f), UNCHANGED overlapped
  PROVE  /\ SerialInvariant'
         /\ \A d \in Commits : InHand(d) /\ ~(flow[f].kind = "commit" /\ flow[f].commit = d) => InHand(d)'
<1>1. /\ \A g \in Flows : g # f => flow'[g] = flow[g]
      /\ flow'[f] = NoFlow
  BY EndsFacts DEF Inductive
<1>2. ~overlapped => \A g \in Flows : flow'[g] = NoFlow
  BY <1>1 DEF Inductive, SerialInvariant
<1>3. SerialInvariant'
  BY <1>2, NoFlowFacts DEF SerialInvariant
<1>4. ASSUME NEW d \in Commits, InHand(d), ~(flow[f].kind = "commit" /\ flow[f].commit = d)
      PROVE  InHand(d)'
  BY <1>1, <1>4 DEF InHand
<1> QED BY <1>3, <1>4

\* The last transaction of an undo: its entries are used, and the turn is undone.
LEMMA FinishUndoStep ==
  ASSUME Inductive, NEW f \in Flows, FinishUndo(f)
  PROVE  /\ FlowInvariant' /\ EntityInvariant' /\ TokenInvariant' /\ SerialInvariant'
         /\ NothingUntraced' /\ CommittedCanBeUndone' /\ LiveEntitiesBelongToTheirTurn'
<1>1. PICK c \in Commits : /\ flow[f].commit = c /\ flow[f].kind = "undo" /\ of[c] # 0
                           /\ flow[f].todo = {} /\ flow[f].turn \in Turns \cup {0} /\ c # 0
  BY Fields DEF Inductive, FlowInvariant, FinishUndo
<1>2. UNCHANGED <<session, of, entity, cut, left, stray, overlapped>>
  BY DEF FinishUndo, history
<1>3. /\ \A g \in Flows : g # f => flow'[g] = flow[g]
      /\ flow'[f] = NoFlow /\ flow'[f].kind = "none" /\ flow[f] # NoFlow
  BY <1>1, EndsFacts, NoFlowFacts DEF FinishUndo, Inductive
<1>4. /\ \A d \in Commits, a \in Actions : d # c => entry'[d][a] = entry[d][a]
      /\ \A a \in Actions : entry'[c][a] = IF entry[c][a] = "pending" THEN "used" ELSE entry[c][a]
  BY <1>1 DEF FinishUndo, UseEntries, Inductive, TypeOK
<1>5. \A u \in Turns :
         /\ turns'[u].token = turns[u].token
         /\ u = flow[f].turn => turns'[u].status = "undone"
         /\ u # flow[f].turn => turns'[u] = turns[u]
  <2>1. CASE flow[f].turn = 0
    BY <2>1, Fields DEF FinishUndo, TurnUndone, Inductive
  <2>2. CASE flow[f].turn # 0
    <3>1. turns' = [turns EXCEPT ![flow[f].turn].status = "undone"]
      BY <2>2 DEF FinishUndo, TurnUndone
    <3> QED BY <3>1 DEF Inductive, TypeOK
  <2> QED BY <2>1, <2>2
<1>6. SerialInvariant' /\ \A d \in Commits : InHand(d) => InHand(d)'
  BY <1>1, <1>2, <1>3, SerialEnds DEF FinishUndo
<1>7. FlowInvariant'
  BY <1>2, <1>3 DEF Inductive, FlowInvariant
<1>8. EntityInvariant'
  <2>1. EntityInvariant
    BY DEF Inductive
  <2>2. \A g \in Flows : flow[g].kind \in {"commit", "undo"} => flow[g].commit \in Commits
    BY Fields DEF Inductive, FlowInvariant
  <2> QED BY <1>1, <1>2, <1>3, <1>4, <2>1, <2>2 DEF EntityInvariant
<1>9. TokenInvariant'
  <2>1. \A g \in Flows : flow[g].kind = "undo" => of[flow[g].commit] \in Turns
    BY Fields DEF Inductive, FlowInvariant
  <2> QED BY <1>2, <1>3, <1>5, <2>1 DEF Inductive, TokenInvariant
<1>10. \A a \in Actions : entity[c][a] = "active" =>
          InHand(c) \/ c \in cut \/ <<c, a>> \in left \cup stray
  <2>1. \A a \in Actions : entity[c][a] = "active" /\ entry[c][a] = "pending" => <<c, a>> \in left
    BY <1>1 DEF Inductive, EntityInvariant
  <2> QED BY <2>1 DEF Inductive, NothingUntraced
<1>11. NothingUntraced'
  BY <1>2, <1>4, <1>6, <1>10 DEF Inductive, NothingUntraced
<1>12. CommittedCanBeUndone'
  <2>1. \A u \in Turns : turns[u].status \in {"committed", "partial"} =>
           /\ turns[u].token # 0
           /\ \E a \in Actions : entry[turns[u].token][a] = "pending"
           /\ \A a \in Actions : entity[turns[u].token][a] = "active"
                 /\ <<turns[u].token, a>> \notin stray =>
                 entry[turns[u].token][a] = "pending"
    BY DEF Inductive, CommittedCanBeUndone, Pending
  <2>2. ASSUME NEW u \in Turns, turns'[u].status \in {"committed", "partial"}
        PROVE  /\ turns'[u].token # 0
               /\ \E a \in Actions : entry'[turns'[u].token][a] = "pending"
               /\ \A a \in Actions : entity'[turns'[u].token][a] = "active"
                     /\ <<turns'[u].token, a>> \notin stray' =>
                     entry'[turns'[u].token][a] = "pending"
    <3>1. u # flow[f].turn /\ turns'[u] = turns[u]
      BY <1>5, <2>2
    <3>2. turns[u].token \in Commits
      BY <2>1, <2>2, <3>1, Fields DEF Inductive
    <3>3. turns[u].token # c
      BY <1>1, <3>1 DEF Inductive, TokenInvariant
    <3> QED BY <1>2, <1>4, <2>1, <2>2, <3>1, <3>2, <3>3
  <2> QED BY <2>2 DEF CommittedCanBeUndone, Pending
<1>13. LiveEntitiesBelongToTheirTurn'
  <2> SUFFICES ASSUME ~overlapped', NEW d \in Commits, NEW a \in Actions, entity'[d][a] = "active"
               PROVE  \/ turns'[of'[d]].status \in {"committed", "partial"}
                         /\ turns'[of'[d]].token = d
                      \/ InHand(d)' \/ d \in cut' \/ <<d, a>> \in left' \cup stray'
    BY DEF LiveEntitiesBelongToTheirTurn
  <2>1. CASE d = c
    BY <1>2, <1>6, <1>10, <2>1
  <2>2. CASE d # c
    <3>1. \/ turns[of[d]].status \in {"committed", "partial"} /\ turns[of[d]].token = d
          \/ InHand(d) \/ d \in cut \/ <<d, a>> \in left \cup stray
      BY <1>2 DEF Inductive, LiveEntitiesBelongToTheirTurn
    <3>2. of[d] \in Turns
      BY <1>2, Fields DEF Inductive, EntityInvariant
    <3>3. turns[of[d]].token = d => of[d] # flow[f].turn
      BY <1>1, <1>2, <2>2, <3>2, Fields DEF Inductive, SerialInvariant
    <3> QED BY <1>2, <1>5, <1>6, <3>1, <3>2, <3>3
  <2> QED BY <2>1, <2>2
<1> QED BY <1>6, <1>7, <1>8, <1>9, <1>11, <1>12, <1>13

\* An operation that only writes to session and turns ends: no token changes,
\* and no turn becomes committed.
LEMMA FinishOtherStep ==
  ASSUME Inductive, NEW f \in Flows, FinishAppend(f) \/ FinishRevise(f) \/ FinishDismiss(f)
  PROVE  /\ FlowInvariant' /\ EntityInvariant' /\ TokenInvariant' /\ SerialInvariant'
         /\ NothingUntraced' /\ CommittedCanBeUndone' /\ LiveEntitiesBelongToTheirTurn'
<1>1. /\ flow[f].kind \in {"append", "revise", "dismiss"}
      /\ UNCHANGED <<of, entity, entry, cut, left, stray, overlapped>> /\ Ends(f)
  BY DEF FinishAppend, FinishRevise, FinishDismiss, history
<1>2. /\ \A g \in Flows : g # f => flow'[g] = flow[g]
      /\ flow'[f] = NoFlow /\ flow'[f].kind = "none" /\ flow[f] # NoFlow
  BY <1>1, EndsFacts, NoFlowFacts DEF Inductive
<1>3. \A u \in Turns :
         /\ turns'[u].token = turns[u].token
         /\ turns'[u].status \in {"committed", "partial"} => turns'[u].status = turns[u].status
         /\ ~overlapped /\ turns[u].status \in {"committed", "partial"} =>
               turns'[u].status = turns[u].status
  <2>1. CASE FinishAppend(f)
    <3>1. turns \in [Turns -> [status : TurnStatus, token : Commits \cup {0}]]
      BY DEF Inductive, TypeOK
    <3>2. PICK t \in Turns :
             /\ turns[t] = NoTurn
             /\ turns'[t].status = "parsed" /\ turns'[t].token = 0
             /\ \A u \in Turns : u # t => turns'[u] = turns[u]
      BY <2>1, <3>1, AddTurnFacts DEF FinishAppend
    <3> QED BY <3>2 DEF NoTurn
  <2>2. CASE FinishRevise(f)
    <3> DEFINE old == [turns EXCEPT ![flow[f].turn].status = "superseded"]
    <3>1. old \in [Turns -> [status : TurnStatus, token : Commits \cup {0}]]
      BY DEF Inductive, TypeOK, TurnStatus
    <3>2. AddTurn(old, "revised")
      BY <2>2 DEF FinishRevise
    <3>3. \A u \in Turns :
             /\ old[u].token = turns[u].token
             /\ u # flow[f].turn => old[u] = turns[u]
             /\ u = flow[f].turn => old[u].status = "superseded"
      BY DEF Inductive, TypeOK
    <3>4. ~overlapped => turns[flow[f].turn].status \notin {"committed", "partial"}
      BY <2>2 DEF Inductive, SerialInvariant, FinishRevise
    <3> HIDE DEF old
    <3>5. PICK t \in Turns :
             /\ old[t] = NoTurn
             /\ turns'[t].status = "revised" /\ turns'[t].token = 0
             /\ \A u \in Turns : u # t => turns'[u] = old[u]
      BY <3>1, <3>2, AddTurnFacts
    <3> QED BY <3>3, <3>4, <3>5 DEF NoTurn
  <2>3. CASE FinishDismiss(f)
    BY <2>3 DEF FinishDismiss
  <2> QED BY <2>1, <2>2, <2>3
<1>4. SerialInvariant' /\ \A d \in Commits : InHand(d) => InHand(d)'
  BY <1>1, <1>2, SerialEnds
<1>5. FlowInvariant'
  BY <1>1, <1>2 DEF Inductive, FlowInvariant
<1>6. EntityInvariant'
  BY <1>1, <1>2 DEF Inductive, EntityInvariant
<1>7. TokenInvariant'
  <2>1. \A g \in Flows : flow[g].kind = "undo" => of[flow[g].commit] \in Turns
    BY Fields DEF Inductive, FlowInvariant
  <2> QED BY <1>1, <1>2, <1>3, <2>1 DEF Inductive, TokenInvariant
<1>8. NothingUntraced'
  BY <1>1, <1>4 DEF Inductive, NothingUntraced
<1>9. CommittedCanBeUndone'
  BY <1>1, <1>3 DEF Inductive, CommittedCanBeUndone, Pending
<1>10. LiveEntitiesBelongToTheirTurn'
  <2>1. \A d \in Commits, a \in Actions : entity[d][a] = "active" => of[d] \in Turns
    BY Fields DEF Inductive, EntityInvariant
  <2> QED BY <1>1, <1>3, <1>4, <2>1 DEF Inductive, LiveEntitiesBelongToTheirTurn
<1> QED BY <1>4, <1>5, <1>6, <1>7, <1>8, <1>9, <1>10

\* An operation is stopped, or all are: a commit that was under way is cut.
LEMMA StopStep ==
  ASSUME Inductive, NEW F \in SUBSET Flows,
         flow' = [f \in Flows |-> IF f \in F THEN NoFlow ELSE flow[f]],
         cut' = cut \cup CommitsOf(F), UNCHANGED <<rows, left, stray, overlapped>>
  PROVE  /\ FlowInvariant' /\ EntityInvariant' /\ TokenInvariant' /\ SerialInvariant'
         /\ NothingUntraced' /\ CommittedCanBeUndone' /\ LiveEntitiesBelongToTheirTurn'
<1>1. \A g \in Flows : flow'[g] = flow[g] \/ (g \in F /\ flow'[g] = NoFlow)
  OBVIOUS
<1>2. UNCHANGED <<session, turns, of, entity, entry, left, stray, overlapped>> /\ cut \subseteq cut'
  BY DEF rows
<1>3. \A g \in Flows : flow'[g] = flow[g] \/ flow'[g].kind = "none"
  BY <1>1, NoFlowFacts
<1>4. FlowInvariant'
  BY <1>2, <1>3 DEF Inductive, FlowInvariant
<1>5. EntityInvariant'
  BY <1>2, <1>3 DEF Inductive, EntityInvariant
<1>6. TokenInvariant'
  BY <1>2, <1>3 DEF Inductive, TokenInvariant
<1>7. SerialInvariant'
  BY <1>1, <1>2, <1>3 DEF Inductive, SerialInvariant
<1>8. \A d \in Commits : InHand(d) => InHand(d)' \/ d \in cut'
  <2> SUFFICES ASSUME NEW d \in Commits, NEW g \in Flows,
                      flow[g].kind = "commit", flow[g].commit = d
               PROVE  InHand(d)' \/ d \in cut'
    BY DEF InHand
  <2>1. CASE g \in F
    BY <2>1 DEF CommitsOf
  <2>2. CASE g \notin F
    BY <2>2 DEF InHand
  <2> QED BY <2>1, <2>2
<1>9. NothingUntraced'
  BY <1>2, <1>8 DEF Inductive, NothingUntraced
<1>10. CommittedCanBeUndone'
  BY <1>2 DEF Inductive, CommittedCanBeUndone, Pending
<1>11. LiveEntitiesBelongToTheirTurn'
  BY <1>2, <1>8 DEF Inductive, LiveEntitiesBelongToTheirTurn
<1> QED BY <1>4, <1>5, <1>6, <1>7, <1>9, <1>10, <1>11

\* What the user does in the trash makes nothing active in the sense of the
\* invariants.
LEMMA TrashStep ==
  ASSUME Inductive, NEW c \in Commits, NEW a \in Actions, UserTrash(c, a) \/ UserRestore(c, a)
  PROVE  /\ FlowInvariant' /\ EntityInvariant' /\ TokenInvariant' /\ SerialInvariant'
         /\ NothingUntraced' /\ CommittedCanBeUndone' /\ LiveEntitiesBelongToTheirTurn'
<1>1. UNCHANGED <<session, turns, of, entry, flow, cut, left, stray, overlapped>>
  BY DEF UserTrash, UserRestore
<1>2. PICK v \in {"trashed", "restored"} : entity' = [entity EXCEPT ![c][a] = v]
  BY DEF UserTrash, UserRestore
<1>3. v \in EntityStatus
  BY DEF EntityStatus
<1>4. /\ entity'[c][a] = v
      /\ \A d \in Commits, b \in Actions : d # c \/ b # a => entity'[d][b] = entity[d][b]
  BY <1>2, <1>3, EntityType DEF Inductive
<1>5. \A d \in Commits, b \in Actions : entity'[d][b] = "active" => entity[d][b] = "active"
  BY <1>4
<1>6. entity[c][a] # "none"
  BY DEF UserTrash, UserRestore, Live
<1>7. FlowInvariant'
  BY <1>1 DEF Inductive, FlowInvariant
<1>8. EntityInvariant'
  <2>1. EntityInvariant
    BY DEF Inductive
  <2>2. \A g \in Flows : flow[g].kind \in {"commit", "undo"} => flow[g].commit \in Commits
    BY Fields DEF Inductive, FlowInvariant
  <2>3. of[c] # 0
    BY <1>6, <2>1 DEF EntityInvariant
  <2> QED BY <1>1, <1>4, <1>5, <2>1, <2>2, <2>3 DEF EntityInvariant
<1>9. TokenInvariant'
  BY <1>1 DEF Inductive, TokenInvariant
<1>10. SerialInvariant'
  BY <1>1 DEF Inductive, SerialInvariant
<1>11. \A d \in Commits : InHand(d) => InHand(d)'
  BY <1>1 DEF InHand
<1>12. NothingUntraced'
  BY <1>1, <1>5, <1>11 DEF Inductive, NothingUntraced
<1>13. CommittedCanBeUndone'
  BY <1>1, <1>5, Fields DEF Inductive, CommittedCanBeUndone, Pending
<1>14. LiveEntitiesBelongToTheirTurn'
  BY <1>1, <1>5, <1>11 DEF Inductive, LiveEntitiesBelongToTheirTurn
<1> QED BY <1>7, <1>8, <1>9, <1>10, <1>12, <1>13, <1>14

\* The session is made, or expires, or nothing happens.
LEMMA SessionStep ==
  ASSUME Inductive, Ingest \/ Expire \/ UNCHANGED vars
  PROVE  /\ FlowInvariant' /\ EntityInvariant' /\ TokenInvariant' /\ SerialInvariant'
         /\ NothingUntraced' /\ CommittedCanBeUndone' /\ LiveEntitiesBelongToTheirTurn'
<1>1. UNCHANGED <<of, entity, entry, flow, cut, left, stray, overlapped>>
  BY DEF Ingest, Expire, vars, rows, history
<1>2. \A u \in Turns :
         /\ turns'[u].token = turns[u].token
         /\ turns'[u].status \in {"committed", "partial"} <=>
                turns[u].status \in {"committed", "partial"}
         /\ turns[u].status \in {"committed", "partial"} => turns'[u] = turns[u]
  <2>1. CASE Ingest
    <3>1. turns \in [Turns -> [status : TurnStatus, token : Commits \cup {0}]]
      BY DEF Inductive, TypeOK
    <3>2. PICK t \in Turns :
             /\ turns[t] = NoTurn
             /\ turns'[t].status = "parsed" /\ turns'[t].token = 0
             /\ \A u \in Turns : u # t => turns'[u] = turns[u]
      BY <2>1, <3>1, AddTurnFacts DEF Ingest
    <3> QED BY <3>2 DEF NoTurn
  <2>2. CASE Expire \/ UNCHANGED vars
    BY <2>2 DEF Expire, vars, rows
  <2> QED BY <2>1, <2>2
<1>3. /\ session'.committed = session.committed
      /\ session.status = "active" => session'.status = "active"
  BY DEF Ingest, Expire, vars, rows, Inductive, TypeOK
<1>4. FlowInvariant'
  BY <1>1 DEF Inductive, FlowInvariant
<1>5. EntityInvariant'
  BY <1>1 DEF Inductive, EntityInvariant
<1>6. TokenInvariant'
  <2>1. \A g \in Flows : flow[g].kind = "undo" => of[flow[g].commit] \in Turns
    BY Fields DEF Inductive, FlowInvariant
  <2> QED BY <1>1, <1>2, <2>1 DEF Inductive, TokenInvariant
<1>7. SerialInvariant'
  <2>1. \A g \in Flows : flow[g].kind \in {"revise", "commit"} => flow[g].turn \in Turns
    BY Fields DEF Inductive, FlowInvariant, EntityInvariant
  <2>2. \A g \in Flows : flow[g].turn \in Turns \cup {0}
    BY Fields DEF Inductive
  <2> QED BY <1>1, <1>2, <1>3, <2>1, <2>2 DEF Inductive, SerialInvariant
<1>8. \A d \in Commits : InHand(d) => InHand(d)'
  BY <1>1 DEF InHand
<1>9. NothingUntraced'
  BY <1>1, <1>8 DEF Inductive, NothingUntraced
<1>10. CommittedCanBeUndone'
  BY <1>1, <1>2 DEF Inductive, CommittedCanBeUndone, Pending
<1>11. LiveEntitiesBelongToTheirTurn'
  <2>1. \A d \in Commits, a \in Actions : entity[d][a] = "active" => of[d] \in Turns
    BY Fields DEF Inductive, EntityInvariant
  <2> QED BY <1>1, <1>2, <1>8, <2>1 DEF Inductive, LiveEntitiesBelongToTheirTurn
<1> QED BY <1>4, <1>5, <1>6, <1>7, <1>9, <1>10, <1>11

-----------------------------------------------------------------------------
(* The theorems.                                                           *)

\* Nothing has begun.
LEMMA InitInductive == Init => Inductive
<1> SUFFICES ASSUME Init PROVE Inductive
  OBVIOUS
<1>1. TypeOK
  <2>1. outside \in 0 .. MaxOutside
    BY CaptureAssumption DEF Init
  <2>2. NoTurn \in [status : TurnStatus, token : Commits \cup {0}]
    BY DEF NoTurn, TurnStatus
  <2>3. turns \in [Turns -> [status : TurnStatus, token : Commits \cup {0}]]
    BY <2>2 DEF Init
  <2>4. flow \in [Flows -> Flow]
    BY NoFlowFacts DEF Init
  <2>5. session \in [status : {"none", "active", "dismissed"},
                     committed : BOOLEAN, expired : BOOLEAN]
    BY DEF Init
  <2>6. /\ of \in [Commits -> Turns \cup {0}]
        /\ entity \in [Commits -> [Actions -> EntityStatus]]
        /\ entry \in [Commits -> [Actions -> {"none", "pending", "used"}]]
        /\ cut \subseteq Commits
        /\ stray \subseteq Commits \X Actions
        /\ left \subseteq Commits \X Actions
        /\ overlapped \in BOOLEAN
    BY DEF Init, EntityStatus
  <2> QED BY <2>1, <2>3, <2>4, <2>5, <2>6 DEF TypeOK
<1>2. /\ \A f \in Flows : flow[f] = NoFlow /\ flow[f].kind = "none"
      /\ \A t \in Turns : turns[t].status = "none" /\ turns[t].token = 0
      /\ \A c \in Commits, a \in Actions : entity[c][a] = "none" /\ entry[c][a] = "none"
  BY NoFlowFacts DEF Init, NoTurn
<1>3. FlowInvariant /\ EntityInvariant /\ TokenInvariant /\ SerialInvariant
  BY <1>2 DEF FlowInvariant, EntityInvariant, TokenInvariant, SerialInvariant
<1>4. NothingUntraced /\ CommittedCanBeUndone /\ LiveEntitiesBelongToTheirTurn
  BY <1>2 DEF NothingUntraced, CommittedCanBeUndone, LiveEntitiesBelongToTheirTurn
<1> QED BY <1>1, <1>3, <1>4 DEF Inductive

\* Every step keeps the invariant.
LEMMA NextInductive == Inductive /\ [Next]_vars => Inductive'
<1> SUFFICES ASSUME Inductive, [Next]_vars PROVE Inductive'
  OBVIOUS
<1>1. TypeOK'
  BY TypeStep DEF Inductive
<1> DEFINE Rest == /\ FlowInvariant /\ EntityInvariant /\ TokenInvariant /\ SerialInvariant
                   /\ NothingUntraced /\ CommittedCanBeUndone
                   /\ LiveEntitiesBelongToTheirTurn
<1>2. ASSUME Ingest \/ Expire \/ UNCHANGED vars PROVE Rest'
  BY <1>2, SessionStep
<1>3. ASSUME NEW f \in Flows, BeginAppend(f) \/ BeginDismiss(f) PROVE Rest'
  <2>1. PICK kind \in {"append", "dismiss"} :
           /\ Starts(f, [NoFlow EXCEPT !.kind = kind]) /\ UNCHANGED of /\ session.status = "active"
    BY <1>3 DEF BeginAppend, BeginDismiss, IsActive
  <2>2. /\ [NoFlow EXCEPT !.kind = kind] \in Flow
        /\ [NoFlow EXCEPT !.kind = kind].kind \in {"append", "dismiss"}
    BY DEF NoFlow, Flow
  <2> QED BY <2>1, <2>2, BeginOtherStep
<1>4. ASSUME NEW f \in Flows, NEW t \in Turns, BeginRevise(f, t) PROVE Rest'
  <2> DEFINE r == [NoFlow EXCEPT !.kind = "revise", !.turn = t]
  <2>1. r \in Flow /\ r.kind = "revise" /\ r.turn = t
    BY DEF NoFlow, Flow
  <2>2. /\ Starts(f, r) /\ UNCHANGED of /\ session.status = "active"
        /\ turns[t].status \notin {"committed", "partial"}
    BY <1>4 DEF BeginRevise, IsActive, Revisable
  <2>3. t # 0
    BY Fields DEF Inductive
  <2> HIDE DEF r
  <2> QED BY <2>1, <2>2, <2>3, BeginOtherStep
<1>5. ASSUME NEW f \in Flows, FinishAppend(f) \/ FinishRevise(f) \/ FinishDismiss(f) PROVE Rest'
  BY <1>5, FinishOtherStep
<1>6. ASSUME NEW f \in Flows, NEW t \in Turns, NEW A \in SUBSET Actions, BeginCommit(f, t, A)
      PROVE  Rest'
  BY <1>6, BeginCommitStep
<1>7. ASSUME NEW f \in Flows, NEW a \in Actions, CreateEntity(f, a) PROVE Rest'
  BY <1>7, CreateEntityStep
<1>8. ASSUME NEW f \in Flows, MarkCommitted(f) PROVE Rest'
  BY <1>8, MarkCommittedStep
<1>9. ASSUME NEW f \in Flows, NEW c \in Commits, BeginUndo(f, c) PROVE Rest'
  BY <1>9, BeginUndoStep
<1>10. ASSUME NEW f \in Flows, NEW a \in Actions, DeleteEntity(f, a) PROVE Rest'
  BY <1>10, DeleteEntityStep
<1>11. ASSUME NEW f \in Flows, FinishUndo(f) PROVE Rest'
  BY <1>11, FinishUndoStep
<1>12. ASSUME NEW f \in Flows, Throws(f) PROVE Rest'
  <2>1. flow' = [g \in Flows |-> IF g \in {f} THEN NoFlow ELSE flow[g]]
    BY <1>12 DEF Throws, Ends, Inductive, TypeOK
  <2>2. cut' = cut \cup CommitsOf({f}) /\ UNCHANGED <<rows, left, stray, overlapped>>
    BY <1>12 DEF Throws
  <2>3. {f} \in SUBSET Flows
    OBVIOUS
  <2> QED BY <2>1, <2>2, <2>3, StopStep
<1>13. ASSUME Kill PROVE Rest'
  <2>1. flow' = [g \in Flows |-> IF g \in Flows THEN NoFlow ELSE flow[g]]
    BY <1>13 DEF Kill
  <2>2. cut' = cut \cup CommitsOf(Flows) /\ UNCHANGED <<rows, left, stray, overlapped>>
    BY <1>13 DEF Kill
  <2>3. Flows \in SUBSET Flows
    OBVIOUS
  <2> QED BY <2>1, <2>2, <2>3, StopStep
<1>14. ASSUME NEW c \in Commits, NEW a \in Actions, UserTrash(c, a) \/ UserRestore(c, a)
       PROVE  Rest'
  BY <1>14, TrashStep
<1> HIDE DEF Rest
<1>15. Rest'
  BY <1>2, <1>3, <1>4, <1>5, <1>6, <1>7, <1>8, <1>9, <1>10, <1>11, <1>12, <1>13, <1>14
     DEF Next, Operation
<1> QED BY <1>1, <1>15 DEF Inductive, Rest

\* The invariant holds always.
THEOREM Invariance == Spec => []Inductive
<1>1. Init => Inductive
  BY InitInductive
<1>2. Inductive /\ [Next]_vars => Inductive'
  BY NextInductive
<1> QED BY <1>1, <1>2, PTL DEF Spec

\* Every variable keeps its type.
THEOREM TypeCorrect == Spec => []TypeOK
<1>1. Inductive => TypeOK
  BY DEF Inductive
<1> QED BY <1>1, Invariance, PTL

\* Whatever operations overlap, an entity that a commit left active can be
\* undone by its token, unless the commit was cut, an undo said it could not, or
\* the commit said that the action which made it had failed.
THEOREM CommitsAreTraced == Spec => []NothingUntraced
<1>1. Inductive => NothingUntraced
  BY DEF Inductive
<1> QED BY <1>1, Invariance, PTL

\* Whatever operations overlap, the token of a committed turn works, for all
\* that the commit did not report as failed.
THEOREM TokensWork == Spec => []CommittedCanBeUndone
<1>1. Inductive => CommittedCanBeUndone
  BY DEF Inductive
<1> QED BY <1>1, Invariance, PTL

\* One operation at a time, only the commit a turn shows has active entities,
\* but for those an action left that was reported as failed.
THEOREM NoStrayEntities == Spec => []LiveEntitiesBelongToTheirTurn
<1>1. Inductive => LiveEntitiesBelongToTheirTurn
  BY DEF Inductive
<1> QED BY <1>1, Invariance, PTL

\* One operation at a time, what is committed or dismissed stays so.
LEMMA SessionAction ==
  ASSUME Inductive, [Next]_vars
  PROVE  [~overlapped' => /\ session.committed => session'.committed
                          /\ session.status = "dismissed" => session'.status = "dismissed"]_vars
<1> DEFINE P == ~overlapped' => /\ session.committed => session'.committed
                                /\ session.status = "dismissed" => session'.status = "dismissed"
<1>1. ASSUME UNCHANGED session PROVE P
  BY <1>1
<1>2. ASSUME Ingest \/ Expire PROVE P
  BY <1>2 DEF Ingest, Expire, Inductive, TypeOK
<1>3. ASSUME NEW f \in Flows, FinishAppend(f) \/ FinishRevise(f) \/ FinishDismiss(f) PROVE P
  <2>1. UNCHANGED overlapped
    BY <1>3 DEF FinishAppend, FinishRevise, FinishDismiss, history
  <2>2. flow[f].kind \in {"append", "revise"} /\ ~overlapped => session.status = "active"
    BY DEF Inductive, SerialInvariant
  <2> QED BY <1>3, <2>1, <2>2 DEF FinishAppend, FinishRevise, FinishDismiss, Inductive, TypeOK
<1>4. ASSUME NEW f \in Flows, MarkCommitted(f) PROVE P
  <2>1. UNCHANGED overlapped
    BY <1>4 DEF MarkCommitted, history
  <2>2. ~overlapped => session.status = "active" /\ flow[f].committed = session.committed
    BY <1>4 DEF MarkCommitted, Inductive, SerialInvariant
  <2>3. session'.committed = IF flow[f].made = {} THEN flow[f].committed ELSE TRUE
    BY <1>4 DEF MarkCommitted, SessionMarked, Inductive, TypeOK
  <2> QED BY <2>1, <2>2, <2>3
<1>5. P
  <2>1. ASSUME NEW f \in Flows, Operation(f) PROVE P
    <3>1. CASE BeginAppend(f) \/ BeginDismiss(f) \/ \E t \in Turns : BeginRevise(f, t)
      BY <1>1, <3>1 DEF BeginAppend, BeginDismiss, BeginRevise, Starts
    <3>2. CASE \E t \in Turns, A \in SUBSET Actions : BeginCommit(f, t, A)
      BY <1>1, <3>2 DEF BeginCommit, Begins, Starts
    <3>3. CASE \/ \E a \in Actions : CreateEntity(f, a) \/ DeleteEntity(f, a)
               \/ FinishUndo(f) \/ Throws(f)
      BY <1>1, <3>3 DEF CreateEntity, DeleteEntity, FinishUndo, Throws, rows
    <3>4. CASE \E c \in Commits : BeginUndo(f, c)
      BY <1>1, <3>4 DEF BeginUndo, Starts
    <3> QED BY <1>3, <1>4, <2>1, <3>1, <3>2, <3>3, <3>4 DEF Operation
  <2>2. CASE Kill \/ UNCHANGED vars
    BY <1>1, <2>2 DEF Kill, rows, vars
  <2>3. CASE \E c \in Commits, a \in Actions : UserTrash(c, a) \/ UserRestore(c, a)
    BY <1>1, <2>3 DEF UserTrash, UserRestore
  <2> HIDE DEF P
  <2> QED BY <1>2, <2>1, <2>2, <2>3 DEF Next
<1> QED BY <1>5

\* One operation at a time, what is committed or dismissed stays so.
THEOREM SessionsRemember == Spec => SessionRemembers
<1>1. Inductive /\ [Next]_vars =>
        [~overlapped' => /\ session.committed => session'.committed
                         /\ session.status = "dismissed" => session'.status = "dismissed"]_vars
  BY SessionAction
<1> QED BY <1>1, Invariance, PTL DEF Spec, SessionRemembers

-----------------------------------------------------------------------------
(* Refinement: every step of CaptureStore is a step of CapturePromise or   *)
(* leaves its variables alone.                                             *)

\* What a commit made, and said that it made.
MadeSaid(c, a) == entity[c][a] # "none" /\ <<c, a>> \notin stray

\* A commit in hand knows all that it has made but for what went astray, a token
\* covers nothing that was never made or went astray, and a commit that was cut
\* is over.
MadeInvariant ==
    /\ \A f \in Flows, a \in Actions : flow[f].kind = "commit" =>
          /\ a \in flow[f].made <=> MadeSaid(flow[f].commit, a)
          /\ a \in flow[f].todo => entity[flow[f].commit][a] = "none"
    /\ \A c \in Commits, a \in Actions : entry[c][a] = "pending" => MadeSaid(c, a)
    /\ \A c \in Commits, a \in Actions : <<c, a>> \in stray => entity[c][a] # "none"
    /\ \A c \in cut : of[c] # 0 /\ ~ InHand(c)

Kept == Inductive /\ MadeInvariant

\* What neither begins, goes on with nor ends a commit or an undo.
LEMMA Quiet ==
  ASSUME Kept, UNCHANGED <<of, entity, entry, cut, stray>>,
         \A g \in Flows : flow[g].kind = "commit" \/ flow'[g].kind = "commit" => flow'[g] = flow[g]
  PROVE  MadeInvariant' /\ UNCHANGED <<Stages, Items, Covers>>
<1>1. \A c \in Commits : InHand(c)' <=> InHand(c)
  BY DEF InHand
<1>2. MadeInvariant'
  <2>1. cut \subseteq Commits
    BY DEF Kept, Inductive, TypeOK
  <2> QED BY <1>1, <2>1 DEF Kept, MadeInvariant, MadeSaid
<1>3. UNCHANGED Stages
  BY <1>1 DEF Stages
<1>4. UNCHANGED <<Items, Covers>>
  BY DEF Items, Covers, Pending
<1> QED BY <1>2, <1>3, <1>4

\* Some turns are hidden, and the others show what they showed.
LEMMA ShowsAfter ==
  ASSUME NEW T \in SUBSET Turns,
         \A t \in T : turns'[t].status \notin {"committed", "partial"},
         \A t \in Turns \ T :
            \/ turns'[t] = turns[t]
            \/ /\ turns[t].status \notin {"committed", "partial"}
               /\ turns'[t].status \notin {"committed", "partial"}
  PROVE  Shows' = Promise!Hidden(T)
BY DEF Shows, Promise!Hidden

\* No turn is hidden.
LEMMA NothingHidden == Promise!Hidden({}) = Shows
BY DEF Shows, Promise!Hidden

\* An entity gets a status, seen from outside.
LEMMA ItemMoves ==
  ASSUME TypeOK, NEW c \in Commits, NEW a \in Actions, NEW v \in EntityStatus,
         entity' = [entity EXCEPT ![c][a] = v],
         stray' \in {stray, stray \cup {<<c, a>>}}
  PROVE  /\ <<c, a>> \in stray' => /\ Items' = [Items EXCEPT ![c][a] = "astray"]
                                   /\ Items[c][a] = "astray" => UNCHANGED Items
         /\ <<c, a>> \notin stray' => /\ Items' = [Items EXCEPT ![c][a] = ItemOf(v)]
                                      /\ Items[c][a] = ItemOf(v) => UNCHANGED Items
<1> DEFINE w == IF <<c, a>> \in stray' THEN "astray" ELSE ItemOf(v)
<1>1. /\ entity'[c][a] = v
      /\ \A d \in Commits, b \in Actions : d # c \/ b # a => entity'[d][b] = entity[d][b]
  BY EntityType
<1> DEFINE Old(d, b) == IF <<d, b>> \in stray THEN "astray" ELSE ItemOf(entity[d][b])
           New(d, b) == IF <<d, b>> \in stray' THEN "astray" ELSE ItemOf(entity'[d][b])
<1>2. Items = [d \in Commits |-> [b \in Actions |-> Old(d, b)]]
  BY DEF Items
<1>3. Items' = [d \in Commits |-> [b \in Actions |-> New(d, b)]]
  BY DEF Items
<1>8. New(c, a) = w /\ \A d \in Commits, b \in Actions : d # c \/ b # a => New(d, b) = Old(d, b)
  BY <1>1
<1> HIDE DEF w, Old, New
<1>4. Items'[c] = [Items[c] EXCEPT ![a] = w]
  BY <1>2, <1>3, <1>8
<1>5. \A d \in Commits : d # c => Items'[d] = Items[d]
  BY <1>2, <1>3, <1>8
<1>6. Items' = [Items EXCEPT ![c] = [Items[c] EXCEPT ![a] = w]]
  BY <1>2, <1>3, <1>4, <1>5
<1>7. w = Items[c][a] => UNCHANGED Items
  BY <1>2, <1>6
<1> QED BY <1>6, <1>7 DEF w

\* The same for an entity whose action did not fail.
LEMMA ItemOfKnown ==
  ASSUME TypeOK, NEW c \in Commits, NEW a \in Actions, NEW v \in EntityStatus,
         entity' = [entity EXCEPT ![c][a] = v], stray' = stray, <<c, a>> \notin stray
  PROVE  /\ Items' = [Items EXCEPT ![c][a] = ItemOf(v)]
         /\ Items[c][a] = ItemOf(v) => UNCHANGED Items
<1>1. stray' \in {stray, stray \cup {<<c, a>>}}
  OBVIOUS
<1>2. <<c, a>> \notin stray'
  OBVIOUS
<1> QED BY <1>1, <1>2, ItemMoves

-----------------------------------------------------------------------------
(* One lemma per action.                                                   *)

\* What is no commit and no undo at most hides the turn that is revised.
LEMMA OtherPromised ==
  ASSUME Kept, NEW f \in Flows,
         \/ BeginAppend(f) \/ FinishAppend(f) \/ FinishRevise(f)
         \/ BeginDismiss(f) \/ FinishDismiss(f)
         \/ \E t \in Turns : BeginRevise(f, t)
         \/ \E c \in Commits : BeginUndo(f, c)
  PROVE  /\ MadeInvariant'
         /\ Promise!Next \/ UNCHANGED <<Stages, Items, Covers, left, Shows>>
<1> USE DEF Kept
<1>1. CASE \/ BeginAppend(f) \/ BeginDismiss(f)
           \/ \E t \in Turns : BeginRevise(f, t)
           \/ \E c \in Commits : BeginUndo(f, c)
  <2>1. PICK r : Starts(f, r) /\ r.kind # "commit" /\ UNCHANGED of
    BY <1>1 DEF BeginAppend, BeginDismiss, BeginRevise, BeginUndo, NoFlow
  <2>2. UNCHANGED <<turns, entity, entry, cut, left, stray>>
    BY <2>1 DEF Starts
  <2>3. \A g \in Flows : flow[g].kind = "commit" \/ flow'[g].kind = "commit" => flow'[g] = flow[g]
    BY <2>1, StartsFacts, NoFlowFacts DEF Inductive
  <2> QED BY <2>1, <2>2, <2>3, Quiet DEF Shows
<1>2. CASE FinishAppend(f) \/ FinishRevise(f) \/ FinishDismiss(f)
  <2>1. UNCHANGED <<of, entity, entry, cut, left, stray>> /\ Ends(f) /\ flow[f].kind # "commit"
    BY <1>2 DEF FinishAppend, FinishRevise, FinishDismiss, history
  <2>2. \A g \in Flows : flow[g].kind = "commit" \/ flow'[g].kind = "commit" => flow'[g] = flow[g]
    BY <2>1, EndsFacts, NoFlowFacts DEF Inductive
  <2>3. MadeInvariant' /\ UNCHANGED <<Stages, Items, Covers>>
    BY <2>1, <2>2, Quiet
  <2>4. CASE FinishDismiss(f)
    BY <2>1, <2>3, <2>4 DEF FinishDismiss, Shows
  <2>5. CASE FinishAppend(f)
    <3>1. turns \in [Turns -> [status : TurnStatus, token : Commits \cup {0}]]
      BY DEF Inductive, TypeOK
    <3>2. AddTurn(turns, "parsed")
      BY <2>5 DEF FinishAppend
    <3>3. PICK t \in Turns : /\ turns[t] = NoTurn /\ turns'[t].status = "parsed"
                             /\ \A u \in Turns : u # t => turns'[u] = turns[u]
      BY <3>1, <3>2, AddTurnFacts
    <3>4. Shows' = Promise!Hidden({})
      BY <3>3, ShowsAfter DEF NoTurn
    <3> QED BY <2>1, <2>3, <3>4, NothingHidden
  <2>6. CASE FinishRevise(f)
    <3> DEFINE v   == flow[f].turn
               old == [turns EXCEPT ![v].status = "superseded"]
    <3>1. v \in Turns
      BY <2>6, Fields DEF FinishRevise, Inductive, FlowInvariant
    <3>2. /\ old \in [Turns -> [status : TurnStatus, token : Commits \cup {0}]]
          /\ old[v].status = "superseded" /\ \A u \in Turns : u # v => old[u] = turns[u]
      <4>1. turns \in [Turns -> [status : TurnStatus, token : Commits \cup {0}]]
        BY DEF Inductive, TypeOK
      <4> QED BY <3>1, <4>1 DEF TurnStatus
    <3>3. AddTurn(old, "revised")
      BY <2>6 DEF FinishRevise
    <3> HIDE DEF old
    <3>4. PICK t \in Turns : /\ old[t] = NoTurn /\ turns'[t].status = "revised"
                             /\ \A u \in Turns : u # t => turns'[u] = old[u]
      BY <3>2, <3>3, AddTurnFacts
    <3>5. t # v
      BY <3>2, <3>4 DEF NoTurn
    <3>6. Shows' = Promise!Hidden({v})
      BY <3>1, <3>2, <3>4, <3>5, ShowsAfter DEF NoTurn
    <3>7. Promise!Hide(v)
      BY <2>1, <2>3, <3>6 DEF Promise!Hide
    <3> QED BY <2>3, <3>1, <3>7 DEF Promise!Next
  <2> QED BY <1>2, <2>4, <2>5, <2>6
<1> QED BY <1>1, <1>2

\* The session is made or expires.
LEMMA SessionPromised ==
  ASSUME Kept, Ingest \/ Expire \/ UNCHANGED vars
  PROVE  MadeInvariant' /\ UNCHANGED <<Stages, Items, Covers, left, Shows>>
<1> USE DEF Kept
<1>1. UNCHANGED <<of, entity, entry, flow, cut, left, stray>>
  BY DEF Ingest, Expire, vars, rows, history
<1>2. MadeInvariant' /\ UNCHANGED <<Stages, Items, Covers>>
  BY <1>1, Quiet
<1>3. CASE Ingest
  <2>1. turns \in [Turns -> [status : TurnStatus, token : Commits \cup {0}]]
    BY DEF Inductive, TypeOK
  <2>2. AddTurn(turns, "parsed")
    BY <1>3 DEF Ingest
  <2>3. PICK t \in Turns : /\ turns[t] = NoTurn /\ turns'[t].status = "parsed"
                           /\ \A u \in Turns : u # t => turns'[u] = turns[u]
    BY <2>1, <2>2, AddTurnFacts
  <2>4. Shows' = Promise!Hidden({})
    BY <2>3, ShowsAfter DEF NoTurn
  <2> QED BY <1>1, <1>2, <2>4, NothingHidden
<1>4. CASE Expire \/ UNCHANGED vars
  BY <1>1, <1>2, <1>4 DEF Expire, vars, rows, Shows
<1> QED BY <1>3, <1>4

\* A commit begins.
LEMMA BeginCommitPromised ==
  ASSUME Kept, NEW f \in Flows, NEW t \in Turns, NEW A \in SUBSET Actions, BeginCommit(f, t, A)
  PROVE  MadeInvariant' /\ Promise!Next
<1> USE DEF Kept
<1> DEFINE r(c) == [NoFlow EXCEPT !.kind = "commit", !.turn = t, !.commit = c, !.todo = A,
                                  !.committed = session.committed]
<1>1. PICK c \in Commits : of[c] = 0 /\ of' = [of EXCEPT ![c] = t] /\ Starts(f, r(c))
  BY DEF BeginCommit, Begins
<1>2. /\ flow[f] = NoFlow /\ flow'[f] = r(c)
      /\ \A g \in Flows : g # f => flow'[g] = flow[g]
      /\ UNCHANGED <<turns, entity, entry, cut, left, stray>>
  BY <1>1, StartsFacts DEF Inductive
<1>3. /\ flow'[f].kind = "commit" /\ flow'[f].commit = c /\ flow'[f].made = {}
      /\ flow[f].kind = "none"
  BY <1>2 DEF NoFlow
<1> HIDE DEF r
<1>4. of'[c] = t /\ t # 0 /\ \A d \in Commits : d # c => of'[d] = of[d]
  BY <1>1, Fields DEF Inductive, TypeOK
<1>5. \A a \in Actions : entity[c][a] = "none"
  BY <1>1 DEF Inductive, EntityInvariant
<1>6. InHand(c)' /\ \A d \in Commits : d # c => (InHand(d)' <=> InHand(d))
  BY <1>2, <1>3 DEF InHand
<1>7. c \notin cut /\ cut \subseteq Commits
  BY <1>1 DEF MadeInvariant, MadeSaid, Inductive, TypeOK
<1>8. MadeInvariant'
  <2>1. \A g \in Flows, a \in Actions : flow'[g].kind = "commit" =>
           /\ a \in flow'[g].made <=> MadeSaid(flow[g].commit, a)'
           /\ a \in flow'[g].todo => entity'[flow'[g].commit][a] = "none"
    BY <1>2, <1>3, <1>5 DEF MadeInvariant, MadeSaid
  <2>2. \A d \in cut' : of'[d] # 0 /\ ~ InHand(d)'
    BY <1>2, <1>4, <1>6, <1>7 DEF MadeInvariant, MadeSaid
  <2> QED BY <1>2, <2>1, <2>2 DEF MadeInvariant, MadeSaid
<1>9. Stages' = [Stages EXCEPT ![c] = "making"]
  BY <1>2, <1>4, <1>6 DEF Stages
<1>10. Stages[c] = "none"
  BY <1>1 DEF Stages
<1>11. UNCHANGED <<Items, Covers, Shows>>
  BY <1>2 DEF Items, Covers, Pending, Shows
<1>12. Promise!Begin(c)
  BY <1>2, <1>9, <1>10, <1>11 DEF Promise!Begin
<1> QED BY <1>8, <1>12 DEF Promise!Next

\* As long as the same commits are in hand, each is where it was.
LEMMA StagesStay ==
  ASSUME Kept, UNCHANGED <<of, cut>>, \A c \in Commits : InHand(c)' <=> InHand(c)
  PROVE  /\ UNCHANGED Stages
         /\ \A c \in cut' : of'[c] # 0 /\ ~ InHand(c)'
<1>1. cut \subseteq Commits /\ \A c \in cut : of[c] # 0 /\ ~ InHand(c)
  BY DEF Kept, Inductive, TypeOK, MadeInvariant, MadeSaid
<1> QED BY <1>1 DEF Stages

\* A commit makes an entity of an action that has none, fails to, or makes one
\* that goes astray.
LEMMA CreateEntityPromised ==
  ASSUME Kept, NEW f \in Flows, NEW a \in Actions, CreateEntity(f, a)
  PROVE  /\ MadeInvariant'
         /\ Promise!Next \/ UNCHANGED <<Stages, Items, Covers, left, Shows>>
<1> USE DEF Kept
<1>1. PICK c \in Commits : /\ flow[f].commit = c /\ flow[f].kind = "commit"
                           /\ of[c] # 0 /\ flow[f] \in Flow /\ a \in flow[f].todo
  BY Fields DEF Inductive, FlowInvariant, CreateEntity
<1>2. UNCHANGED <<turns, of, entry, cut, left>>
  BY DEF CreateEntity
<1>3. /\ \A g \in Flows : g # f => flow'[g] = flow[g]
      /\ flow'[f].kind = "commit" /\ flow'[f].commit = c
      /\ flow'[f].todo = flow[f].todo \ {a}
  BY <1>1 DEF CreateEntity, Inductive, TypeOK, Flow
<1>4. entity[c][a] = "none" /\ a \notin flow[f].made /\ <<c, a>> \notin stray
  <2>1. entity[c][a] = "none"
    BY <1>1 DEF MadeInvariant
  <2> QED BY <1>1, <2>1 DEF MadeInvariant, MadeSaid
<1>5. \A g \in Flows : flow[g].kind = "commit" /\ g # f => flow[g].commit # c
  BY <1>1 DEF Inductive, FlowInvariant
<1>6. \A g \in Flows : flow[g].kind = "commit" => flow[g].commit \in Commits
  BY Fields DEF Inductive, FlowInvariant
<1>7. \A d \in Commits : InHand(d)' <=> InHand(d)
  BY <1>1, <1>3 DEF InHand
<1>8. /\ UNCHANGED Stages
      /\ \A d \in cut' : of'[d] # 0 /\ ~ InHand(d)'
  BY <1>2, <1>7, StagesStay
<1>9. UNCHANGED <<Covers, left, Shows>>
  BY <1>2 DEF Covers, Pending, Shows
<1>10. entry[c][a] # "pending"
  BY <1>4 DEF MadeInvariant, MadeSaid
<1>11. ASSUME entity' = [entity EXCEPT ![c][a] = "active"],
              \/ flow'[f].made = flow[f].made \cup {a} /\ UNCHANGED stray
              \/ flow'[f].made = flow[f].made /\ stray' = stray \cup {<<c, a>>}
       PROVE  /\ MadeInvariant'
              /\ Promise!Next
  <2>1. "active" \in EntityStatus
    BY DEF EntityStatus
  <2>2. /\ entity'[c][a] = "active"
        /\ \A d \in Commits, b \in Actions : d # c \/ b # a =>
              /\ entity'[d][b] = entity[d][b]
              /\ <<d, b>> \in stray' <=> <<d, b>> \in stray
    <3>1. \A d \in Commits, b \in Actions : d # c \/ b # a =>
             (<<d, b>> \in stray' <=> <<d, b>> \in stray)
      BY <1>11
    <3>2. /\ entity'[c][a] = "active"
          /\ \A d \in Commits, b \in Actions : d # c \/ b # a => entity'[d][b] = entity[d][b]
      BY <1>11, <2>1, EntityType DEF Inductive
    <3> QED BY <3>1, <3>2
  <2>3. MadeInvariant'
    <3>1. ASSUME NEW g \in Flows, NEW b \in Actions, flow'[g].kind = "commit"
          PROVE  /\ b \in flow'[g].made <=> MadeSaid(flow[g].commit, b)'
                 /\ b \in flow'[g].todo => entity'[flow'[g].commit][b] = "none"
      <4>1. CASE g = f
        <5>1. CASE b = a
          BY <1>1, <1>3, <1>4, <1>11, <2>2, <4>1, <5>1 DEF MadeSaid
        <5>2. CASE b # a
          BY <1>1, <1>3, <1>11, <2>2, <4>1, <5>2 DEF MadeInvariant, MadeSaid
        <5> QED BY <5>1, <5>2
      <4>2. CASE g # f
        BY <1>3, <1>5, <1>6, <2>2, <3>1, <4>2 DEF MadeInvariant, MadeSaid
      <4> QED BY <4>1, <4>2
    <3>2. \A d \in Commits, b \in Actions : entry'[d][b] = "pending" => MadeSaid(d, b)'
      BY <1>2, <1>10, <2>2 DEF MadeInvariant, MadeSaid
    <3>3. \A d \in Commits, b \in Actions : <<d, b>> \in stray' => entity'[d][b] # "none"
      BY <2>2 DEF MadeInvariant
    <3> QED BY <1>8, <3>1, <3>2, <3>3 DEF MadeInvariant
  <2>4. Items' = [Items EXCEPT ![c][a] = IF <<c, a>> \in stray' THEN "astray" ELSE "live"]
    <3>1. ItemOf("active") = "live"
      BY DEF ItemOf
    <3>2. TypeOK
      BY DEF Inductive
    <3> HIDE DEF Kept
    <3>3. stray' \in {stray, stray \cup {<<c, a>>}}
      BY <1>11
    <3>4. entity' = [entity EXCEPT ![c][a] = "active"]
      BY <1>11
    <3>5. /\ <<c, a>> \in stray' => Items' = [Items EXCEPT ![c][a] = "astray"]
          /\ <<c, a>> \notin stray' => Items' = [Items EXCEPT ![c][a] = ItemOf("active")]
      BY <2>1, <3>2, <3>3, <3>4, ItemMoves
    <3> QED BY <3>1, <3>5
  <2>5. Stages[c] = "making"
    BY <1>1 DEF Stages, InHand
  <2>6. Items[c][a] = "none"
    BY <1>4 DEF Items, ItemOf
  <2>7. Promise!Make(c, a) \/ Promise!Miss(c, a)
    BY <1>8, <1>9, <2>4, <2>5, <2>6 DEF Promise!Make, Promise!Miss
  <2> QED BY <2>3, <2>7 DEF Promise!Next
<1>12. CASE UNCHANGED <<entity, stray>> /\ flow'[f].made = flow[f].made
  <2>1. ASSUME NEW g \in Flows, NEW b \in Actions, flow'[g].kind = "commit"
        PROVE  /\ b \in flow'[g].made <=> MadeSaid(flow[g].commit, b)'
               /\ b \in flow'[g].todo => entity'[flow'[g].commit][b] = "none"
    <3>1. CASE g = f
      BY <1>1, <1>3, <1>12, <3>1 DEF MadeInvariant, MadeSaid
    <3>2. CASE g # f
      BY <1>3, <1>12, <2>1, <3>2 DEF MadeInvariant, MadeSaid
    <3> QED BY <3>1, <3>2
  <2>2. MadeInvariant'
    BY <1>2, <1>8, <1>12, <2>1 DEF MadeInvariant, MadeSaid
  <2> QED BY <1>8, <1>9, <1>12, <2>2 DEF Items
<1>13. \/ /\ entity' = [entity EXCEPT ![c][a] = "active"]
          /\ \/ flow'[f].made = flow[f].made \cup {a} /\ UNCHANGED stray
             \/ flow'[f].made = flow[f].made /\ stray' = stray \cup {<<c, a>>}
       \/ UNCHANGED <<entity, stray>> /\ flow'[f].made = flow[f].made
  BY <1>1 DEF CreateEntity, Inductive, TypeOK, Flow
<1> QED BY <1>11, <1>12, <1>13

\* A commit marks: it stores an entry for everything it has made, and its turn
\* shows its token if there is any.
LEMMA MarkCommittedPromised ==
  ASSUME Kept, NEW f \in Flows, MarkCommitted(f)
  PROVE  MadeInvariant' /\ Promise!Next
<1> USE DEF Kept
<1>1. PICK c \in Commits : /\ flow[f].commit = c /\ flow[f].kind = "commit"
                           /\ of[c] = flow[f].turn /\ of[c] \in Turns /\ c # 0
                           /\ flow[f].made \subseteq Actions
  BY Fields DEF Inductive, FlowInvariant, MarkCommitted, Flow
<1> DEFINE t == of[c]
           made == flow[f].made
<1>2. UNCHANGED <<of, entity, cut, left, stray>>
  BY DEF MarkCommitted, history
<1>3. /\ \A g \in Flows : g # f => flow'[g] = flow[g]
      /\ flow'[f] = NoFlow /\ flow'[f].kind = "none"
  BY EndsFacts, NoFlowFacts DEF MarkCommitted, Inductive
<1>4. /\ \A d \in Commits, a \in Actions : d # c => entry'[d][a] = entry[d][a]
      /\ \A a \in Actions : entry'[c][a] = IF a \in made THEN "pending" ELSE entry[c][a]
  BY <1>1 DEF MarkCommitted, EntriesOf, Inductive, TypeOK
<1>5. \A a \in Actions : entry[c][a] = "none" /\ (a \in made <=> MadeSaid(c, a))
  BY <1>1 DEF Inductive, EntityInvariant, MadeInvariant, MadeSaid
<1>6. /\ turns'[t] = Marked(f)
      /\ \A u \in Turns : u # t => turns'[u] = turns[u]
  BY <1>1 DEF MarkCommitted, Inductive, TypeOK
<1>7. ~ InHand(c)' /\ \A d \in Commits : d # c => (InHand(d)' <=> InHand(d))
  <2>1. \A g \in Flows : flow[g].kind = "commit" /\ g # f => flow[g].commit # c
    BY <1>1 DEF Inductive, FlowInvariant
  <2> QED BY <1>1, <1>3, <2>1 DEF InHand
<1>8. InHand(c) /\ c \notin cut
  BY <1>1 DEF InHand, MadeInvariant, MadeSaid
<1>9. cut \subseteq Commits
  BY DEF Inductive, TypeOK
<1>10. MadeInvariant'
  <2>1. \A g \in Flows, a \in Actions : flow'[g].kind = "commit" =>
           /\ a \in flow'[g].made <=> MadeSaid(flow[g].commit, a)'
           /\ a \in flow'[g].todo => entity'[flow'[g].commit][a] = "none"
    BY <1>2, <1>3 DEF MadeInvariant, MadeSaid
  <2>2. \A d \in Commits, a \in Actions : entry'[d][a] = "pending" => MadeSaid(d, a)'
    BY <1>2, <1>4, <1>5 DEF MadeInvariant, MadeSaid
  <2>3. \A d \in cut' : of'[d] # 0 /\ ~ InHand(d)'
    BY <1>2, <1>7, <1>8, <1>9 DEF MadeInvariant, MadeSaid
  <2>4. \A d \in Commits, a \in Actions : <<d, a>> \in stray' => entity'[d][a] # "none"
    BY <1>2 DEF MadeInvariant
  <2> QED BY <2>1, <2>2, <2>3, <2>4 DEF MadeInvariant, MadeSaid
<1>11. made = {a \in Actions : Items[c][a] \in {"live", "gone"}}
  <2>1. \A a \in Actions : Items[c][a] \in {"live", "gone"} <=> MadeSaid(c, a)
    BY DEF Items, ItemOf, MadeSaid
  <2> HIDE DEF made
  <2> QED BY <1>1, <1>5, <2>1 DEF made
<1>12. Stages[c] = "making"
  BY <1>1, <1>8, Fields DEF Stages, Inductive
<1>13. Stages' = [Stages EXCEPT ![c] = "marked"]
  BY <1>1, <1>2, <1>7, <1>8, Fields DEF Stages, Inductive
<1>14. Covers' = [Covers EXCEPT ![c] = made]
  <2>1. {a \in Actions : entry'[c][a] = "pending"} = made
    BY <1>1, <1>4, <1>5
  <2>2. Pending(c)' = made
    BY <2>1 DEF Pending
  <2>3. ASSUME NEW d \in Commits, d # c PROVE Pending(d)' = Pending(d)
    BY <1>4, <2>3 DEF Pending
  <2> HIDE DEF made, Kept
  <2> QED BY <1>1, <2>2, <2>3 DEF Covers
<1>15. Shows' = [Shows EXCEPT ![t] = IF made = {} THEN 0 ELSE c]
  <2>1. (IF turns'[t].status \in {"committed", "partial"} THEN turns'[t].token ELSE 0)
          = IF made = {} THEN 0 ELSE c
    <3>1. CASE made = {}
      <4>1. turns'[t].status = "failed"
        BY <1>6, <3>1 DEF Marked
      <4> QED BY <3>1, <4>1
    <3>2. CASE made # {}
      <4>1. turns'[t].status \in {"committed", "partial"} /\ turns'[t].token = c
        BY <1>1, <1>6, <3>2 DEF Marked
      <4> QED BY <3>2, <4>1
    <3> QED BY <3>1, <3>2
  <2> QED BY <1>6, <2>1 DEF Shows
<1>16. UNCHANGED Items
  BY <1>2 DEF Items
<1>17. Promise!Mark(c, t)
  BY <1>2, <1>11, <1>12, <1>13, <1>14, <1>15, <1>16 DEF Promise!Mark
<1> QED BY <1>1, <1>10, <1>17 DEF Promise!Next

\* What an undo, or the user, does to an entity that was made changes nothing
\* of what commits and tokens know of it.
LEMMA EntityMoved ==
  ASSUME Kept, NEW c \in Commits, NEW a \in Actions, NEW v \in {"trashed", "restored"},
         entity' = [entity EXCEPT ![c][a] = v], entity[c][a] # "none",
         UNCHANGED <<turns, of, entry, cut, stray>>,
         \A g \in Flows : /\ flow'[g].kind = "commit" <=> flow[g].kind = "commit"
                          /\ flow[g].kind = "commit" => flow'[g] = flow[g]
  PROVE  /\ MadeInvariant'
         /\ UNCHANGED <<Stages, Covers, Shows>>
         /\ \/ UNCHANGED Items
            \/ Items[c][a] = "live" /\ Items' = [Items EXCEPT ![c][a] = "gone"]
<1> USE DEF Kept
<1>1. v \in EntityStatus /\ ItemOf(v) = "gone"
  BY DEF EntityStatus, ItemOf
<1>2. /\ entity'[c][a] = v
      /\ \A d \in Commits, b \in Actions : d # c \/ b # a => entity'[d][b] = entity[d][b]
  BY <1>1, EntityType DEF Inductive
<1>3. \A d \in Commits, b \in Actions : entity'[d][b] = "none" <=> entity[d][b] = "none"
  BY <1>2
<1>4. \A d \in Commits : InHand(d)' <=> InHand(d)
  BY DEF InHand
<1>5. /\ UNCHANGED Stages
      /\ \A d \in cut' : of'[d] # 0 /\ ~ InHand(d)'
  BY <1>4, StagesStay
<1>6. \A g \in Flows : flow[g].kind = "commit" => flow[g].commit \in Commits
  BY Fields DEF Inductive, FlowInvariant
<1>7. MadeInvariant'
  BY <1>3, <1>5, <1>6 DEF MadeInvariant, MadeSaid
<1>8. \/ UNCHANGED Items
      \/ Items[c][a] = "live" /\ Items' = [Items EXCEPT ![c][a] = "gone"]
  <2>1. TypeOK
    BY DEF Inductive
  <2>2. CASE <<c, a>> \in stray
    BY <1>1, <2>1, <2>2, ItemMoves DEF Items
  <2>3. CASE <<c, a>> \notin stray
    <3>1. Items[c][a] \in {"live", "gone"}
      BY <2>3 DEF Items, ItemOf
    <3>2. /\ Items' = [Items EXCEPT ![c][a] = ItemOf(v)]
          /\ Items[c][a] = ItemOf(v) => UNCHANGED Items
      <4> HIDE DEF Kept
      <4> QED BY <1>1, <2>1, <2>3, ItemOfKnown
    <3> QED BY <1>1, <3>1, <3>2
  <2> QED BY <2>2, <2>3
<1>9. UNCHANGED <<Covers, Shows>>
  BY DEF Covers, Pending, Shows
<1> QED BY <1>5, <1>7, <1>8, <1>9

\* An undo trashes an entity, finds that it is, or tells that it cannot.
LEMMA DeleteEntityPromised ==
  ASSUME Kept, NEW f \in Flows, NEW a \in Actions, DeleteEntity(f, a)
  PROVE  /\ MadeInvariant'
         /\ Promise!Next \/ UNCHANGED <<Stages, Items, Covers, left, Shows>>
<1> USE DEF Kept
<1>1. PICK c \in Commits : /\ flow[f].commit = c /\ flow[f].kind = "undo"
                           /\ of[c] # 0 /\ flow[f] \in Flow
  BY Fields DEF Inductive, FlowInvariant, DeleteEntity
<1>2. UNCHANGED <<turns, of, entry, cut, stray>>
  BY DEF DeleteEntity
<1>3. /\ \A g \in Flows : g # f => flow'[g] = flow[g]
      /\ flow'[f].kind = "undo"
  BY <1>1 DEF DeleteEntity, Inductive, TypeOK, Flow
<1>4. CASE Live(c, a) /\ entity' = [entity EXCEPT ![c][a] = "trashed"] /\ UNCHANGED left
  <2>1. /\ MadeInvariant'
        /\ UNCHANGED <<Stages, Covers, Shows>>
        /\ \/ UNCHANGED Items
           \/ Items[c][a] = "live" /\ Items' = [Items EXCEPT ![c][a] = "gone"]
    BY <1>1, <1>2, <1>3, <1>4, EntityMoved DEF Live
  <2> QED BY <1>4, <2>1 DEF Promise!Trash, Promise!Next
<1>5. CASE UNCHANGED entity
  <2>1. \A g \in Flows : flow[g].kind = "commit" \/ flow'[g].kind = "commit" => flow'[g] = flow[g]
    BY <1>1, <1>3
  <2>2. MadeInvariant' /\ UNCHANGED <<Stages, Items, Covers>>
    BY <1>2, <1>5, <2>1, Quiet
  <2>3. UNCHANGED Shows
    BY <1>2 DEF Shows
  <2>4. CASE left' = left \cup {<<c, a>>}
    BY <2>2, <2>3, <2>4 DEF Promise!Tell, Promise!Next
  <2>5. UNCHANGED left \/ left' = left \cup {<<c, a>>}
    BY <1>1 DEF DeleteEntity
  <2> QED BY <2>2, <2>3, <2>4, <2>5
<1> QED BY <1>1, <1>4, <1>5 DEF DeleteEntity

\* The user trashes an entity, or restores it.
LEMMA TrashPromised ==
  ASSUME Kept, NEW c \in Commits, NEW a \in Actions, UserTrash(c, a) \/ UserRestore(c, a)
  PROVE  /\ MadeInvariant'
         /\ Promise!Next \/ UNCHANGED <<Stages, Items, Covers, left, Shows>>
<1>1. PICK v \in {"trashed", "restored"} : entity' = [entity EXCEPT ![c][a] = v]
  BY DEF UserTrash, UserRestore
<1>2. entity[c][a] # "none" /\ UNCHANGED <<turns, of, entry, flow, cut, left, stray>>
  BY DEF UserTrash, UserRestore, Live
<1>3. /\ MadeInvariant'
      /\ UNCHANGED <<Stages, Covers, Shows>>
      /\ \/ UNCHANGED Items
         \/ Items[c][a] = "live" /\ Items' = [Items EXCEPT ![c][a] = "gone"]
  BY <1>1, <1>2, EntityMoved
<1> QED BY <1>2, <1>3 DEF Promise!Trash, Promise!Next

\* An undo uses the token: what it covered is trashed, or the user was told
\* that it is not, and no turn shows the token any more.
LEMMA FinishUndoPromised ==
  ASSUME Kept, NEW f \in Flows, FinishUndo(f)
  PROVE  /\ MadeInvariant'
         /\ Promise!Next \/ UNCHANGED <<Stages, Items, Covers, left, Shows>>
<1> USE DEF Kept
<1>1. PICK c \in Commits : /\ flow[f].commit = c /\ flow[f].kind = "undo" /\ of[c] # 0
                           /\ flow[f].todo = {} /\ flow[f].turn \in Turns \cup {0} /\ c # 0
  BY Fields DEF Inductive, FlowInvariant, FinishUndo
<1>2. UNCHANGED <<of, entity, cut, left, stray>>
  BY DEF FinishUndo, history
<1>3. /\ \A g \in Flows : g # f => flow'[g] = flow[g]
      /\ flow'[f] = NoFlow /\ flow'[f].kind = "none"
  BY EndsFacts, NoFlowFacts DEF FinishUndo, Inductive
<1>4. /\ \A d \in Commits, a \in Actions : d # c => entry'[d][a] = entry[d][a]
      /\ \A a \in Actions : entry'[c][a] = IF entry[c][a] = "pending" THEN "used" ELSE entry[c][a]
  BY <1>1 DEF FinishUndo, UseEntries, Inductive, TypeOK
<1>5. \A d \in Commits : InHand(d)' <=> InHand(d)
  BY <1>1, <1>3 DEF InHand
<1>6. /\ UNCHANGED Stages
      /\ \A d \in cut' : of'[d] # 0 /\ ~ InHand(d)'
  BY <1>2, <1>5, StagesStay
<1>7. MadeInvariant'
  <2>1. \A g \in Flows, a \in Actions : flow'[g].kind = "commit" =>
           /\ a \in flow'[g].made <=> MadeSaid(flow[g].commit, a)'
           /\ a \in flow'[g].todo => entity'[flow'[g].commit][a] = "none"
    BY <1>2, <1>3 DEF MadeInvariant, MadeSaid
  <2>2. \A d \in Commits, a \in Actions : entry'[d][a] = "pending" => MadeSaid(d, a)'
    BY <1>2, <1>4 DEF MadeInvariant, MadeSaid
  <2>3. \A d \in Commits, a \in Actions : <<d, a>> \in stray' => entity'[d][a] # "none"
    BY <1>2 DEF MadeInvariant
  <2> QED BY <1>6, <2>1, <2>2, <2>3 DEF MadeInvariant, MadeSaid
<1>8. UNCHANGED Items
  BY <1>2 DEF Items
<1> DEFINE T == IF flow[f].turn = 0 THEN {} ELSE {flow[f].turn}
<1>9. T \in SUBSET Turns
  BY <1>1
<1>10. Shows' = Promise!Hidden(T)
  <2>1. CASE flow[f].turn = 0
    <3>1. turns' = turns
      BY <2>1 DEF FinishUndo, TurnUndone
    <3> QED BY <2>1, <3>1, ShowsAfter
  <2>2. CASE flow[f].turn # 0
    <3>1. turns' = [turns EXCEPT ![flow[f].turn].status = "undone"]
      BY <2>2 DEF FinishUndo, TurnUndone
    <3>2. /\ turns'[flow[f].turn].status = "undone"
          /\ \A t \in Turns : t # flow[f].turn => turns'[t] = turns[t]
      BY <1>1, <2>2, <3>1 DEF Inductive, TypeOK
    <3>3. T = {flow[f].turn}
      BY <2>2
    <3> HIDE DEF T
    <3> QED BY <1>9, <3>2, <3>3, ShowsAfter
  <2> QED BY <2>1, <2>2
<1>11. CASE Pending(c) # {}
  <2>1. Covers[c] = Pending(c)
    BY DEF Covers
  <2>2. ASSUME NEW a \in Covers[c] PROVE Items[c][a] = "gone" \/ <<c, a>> \in left
    <3>1. a \in Actions /\ entry[c][a] = "pending"
      BY <2>1 DEF Pending
    <3>2. entity[c][a] # "none" /\ <<c, a>> \notin stray
      BY <3>1 DEF MadeInvariant, MadeSaid
    <3>3. entity[c][a] = "active" => <<c, a>> \in left
      BY <1>1, <3>1 DEF Inductive, EntityInvariant
    <3> QED BY <3>1, <3>2, <3>3 DEF Items, ItemOf
  <2>3. Covers' = [Covers EXCEPT ![c] = {}]
    <3>1. {a \in Actions : entry'[c][a] = "pending"} = {}
      BY <1>4
    <3> QED BY <1>4, <3>1 DEF Covers, Pending
  <2>4. ASSUME NEW t \in Turns, Shows[t] = c PROVE t \in T
    <3>1. turns[t].token = c
      BY <1>1, <2>4 DEF Shows
    <3>2. of[c] = t
      BY <1>1, <3>1 DEF Inductive, TokenInvariant
    <3>3. flow[f].turn = t
      BY <1>1, <3>1, <3>2 DEF Inductive, TokenInvariant
    <3> QED BY <2>4, <3>3, Fields DEF Inductive
  <2> HIDE DEF T
  <2>5. Promise!Use(c)
    BY <1>2, <1>6, <1>8, <1>9, <1>10, <1>11, <2>1, <2>2, <2>3, <2>4 DEF Promise!Use
  <2> QED BY <1>7, <2>5 DEF Promise!Next
<1>12. CASE Pending(c) = {}
  <2>1. \A a \in Actions : entry[c][a] # "pending"
    BY <1>12 DEF Pending
  <2>2. UNCHANGED Covers
    BY <1>4, <2>1 DEF Covers, Pending
  <2>3. CASE flow[f].turn = 0
    BY <1>2, <1>6, <1>7, <1>8, <1>10, <2>2, <2>3, NothingHidden
  <2>4. CASE flow[f].turn # 0
    BY <1>1, <1>2, <1>6, <1>7, <1>8, <1>10, <2>2, <2>4 DEF Promise!Hide, Promise!Next
  <2> QED BY <2>3, <2>4
<1> QED BY <1>11, <1>12

\* Operations are stopped: the commits among them are cut.
LEMMA StopPromised ==
  ASSUME Kept, NEW F \in SUBSET Flows,
         flow' = [f \in Flows |-> IF f \in F THEN NoFlow ELSE flow[f]],
         cut' = cut \cup CommitsOf(F), UNCHANGED <<rows, left, stray>>
  PROVE  MadeInvariant' /\ Promise!Next
<1> USE DEF Kept
<1> DEFINE C == CommitsOf(F)
<1>1. UNCHANGED <<turns, of, entity, entry, left, stray>>
  BY DEF rows
<1>2. C \subseteq Commits /\ cut \subseteq Commits
  BY CommitsOfType DEF Inductive, TypeOK
<1>3. \A g \in Flows : IF g \in F THEN flow'[g].kind = "none" ELSE flow'[g] = flow[g]
  BY NoFlowFacts
<1>4. \A d \in C : \E h \in F : flow[h].kind = "commit" /\ flow[h].commit = d
  BY DEF CommitsOf
<1>5. ASSUME NEW d \in Commits PROVE InHand(d)' <=> InHand(d) /\ d \notin C
  <2>1. ASSUME NEW g \in Flows, flow[g].kind = "commit", flow[g].commit = d
        PROVE  g \in F <=> d \in C
    <3>1. g \in F => d \in C
      BY <2>1 DEF CommitsOf
    <3>2. d \in C => g \in F
      BY <1>4, <2>1 DEF Inductive, FlowInvariant
    <3> QED BY <3>1, <3>2
  <2> HIDE DEF C
  <2> QED BY <1>3, <2>1 DEF InHand
<1>6. \A d \in C : InHand(d) /\ of[d] # 0
  BY <1>4 DEF InHand, Inductive, FlowInvariant
<1> HIDE DEF C
<1>7. cut' = cut \cup C
  BY DEF C
<1>8. MadeInvariant'
  <2>1. \A g \in Flows, a \in Actions : flow'[g].kind = "commit" =>
           /\ a \in flow'[g].made <=> MadeSaid(flow[g].commit, a)'
           /\ a \in flow'[g].todo => entity'[flow'[g].commit][a] = "none"
    BY <1>1, <1>3 DEF MadeInvariant, MadeSaid
  <2>2. \A d \in cut' : of'[d] # 0 /\ ~ InHand(d)'
    BY <1>1, <1>2, <1>5, <1>6, <1>7 DEF MadeInvariant, MadeSaid
  <2> QED BY <1>1, <2>1, <2>2 DEF MadeInvariant, MadeSaid
<1>9. Stages' = [d \in Commits |-> IF d \in C THEN "cut" ELSE Stages[d]]
  BY <1>1, <1>2, <1>5, <1>6, <1>7 DEF Stages
<1>10. \A d \in C : Stages[d] = "making"
  BY <1>2, <1>6 DEF Stages
<1>11. UNCHANGED <<Items, Covers, Shows>>
  BY <1>1 DEF Items, Covers, Pending, Shows
<1>12. Promise!Cut(C)
  BY <1>1, <1>9, <1>10, <1>11 DEF Promise!Cut
<1> QED BY <1>2, <1>8, <1>12 DEF Promise!Next

-----------------------------------------------------------------------------
(* The refinement.                                                         *)

\* Every step keeps MadeInvariant, and is one of the promise or changes nothing
\* that it speaks of.
LEMMA StepPromised ==
  ASSUME Kept, [Next]_vars
  PROVE  MadeInvariant' /\ [Promise!Next]_<<Stages, Items, Covers, left, Shows>>
<1> DEFINE Good == /\ MadeInvariant'
                   /\ Promise!Next \/ UNCHANGED <<Stages, Items, Covers, left, Shows>>
<1>1. ASSUME Ingest \/ Expire \/ UNCHANGED vars PROVE Good
  BY <1>1, SessionPromised
<1>2. ASSUME NEW f \in Flows,
             \/ BeginAppend(f) \/ FinishAppend(f) \/ FinishRevise(f)
             \/ BeginDismiss(f) \/ FinishDismiss(f)
             \/ \E t \in Turns : BeginRevise(f, t)
             \/ \E c \in Commits : BeginUndo(f, c)
      PROVE  Good
  BY <1>2, OtherPromised
<1>3. ASSUME NEW f \in Flows, NEW t \in Turns, NEW A \in SUBSET Actions, BeginCommit(f, t, A)
      PROVE  Good
  BY <1>3, BeginCommitPromised
<1>4. ASSUME NEW f \in Flows, NEW a \in Actions, CreateEntity(f, a) PROVE Good
  BY <1>4, CreateEntityPromised
<1>5. ASSUME NEW f \in Flows, MarkCommitted(f) PROVE Good
  BY <1>5, MarkCommittedPromised
<1>6. ASSUME NEW f \in Flows, NEW a \in Actions, DeleteEntity(f, a) PROVE Good
  BY <1>6, DeleteEntityPromised
<1>7. ASSUME NEW f \in Flows, FinishUndo(f) PROVE Good
  BY <1>7, FinishUndoPromised
<1>8. ASSUME NEW f \in Flows, Throws(f) PROVE Good
  <2>1. flow' = [g \in Flows |-> IF g \in {f} THEN NoFlow ELSE flow[g]]
    BY <1>8 DEF Throws, Ends, Kept, Inductive, TypeOK
  <2>2. cut' = cut \cup CommitsOf({f}) /\ UNCHANGED <<rows, left, stray>>
    BY <1>8 DEF Throws
  <2>3. {f} \in SUBSET Flows
    OBVIOUS
  <2> QED BY <2>1, <2>2, <2>3, StopPromised
<1>9. ASSUME Kill PROVE Good
  <2>1. flow' = [g \in Flows |-> IF g \in Flows THEN NoFlow ELSE flow[g]]
    BY <1>9 DEF Kill
  <2>2. cut' = cut \cup CommitsOf(Flows) /\ UNCHANGED <<rows, left, stray>>
    BY <1>9 DEF Kill
  <2> QED BY <2>1, <2>2, StopPromised
<1>10. ASSUME NEW c \in Commits, NEW a \in Actions, UserTrash(c, a) \/ UserRestore(c, a)
       PROVE  Good
  BY <1>10, TrashPromised
<1> HIDE DEF Good
<1>11. Good
  BY <1>1, <1>2, <1>3, <1>4, <1>5, <1>6, <1>7, <1>8, <1>9, <1>10 DEF Next, Operation
<1> QED BY <1>11 DEF Good

\* Nothing is made and nothing is shown.
LEMMA InitPromised == Init => MadeInvariant /\ Promise!Init
<1> SUFFICES ASSUME Init PROVE MadeInvariant /\ Promise!Init
  OBVIOUS
<1>1. /\ \A f \in Flows : flow[f].kind = "none"
      /\ \A t \in Turns : turns[t].status = "none"
      /\ \A c \in Commits, a \in Actions : entity[c][a] = "none" /\ entry[c][a] = "none"
      /\ \A c \in Commits : of[c] = 0
      /\ cut = {} /\ left = {} /\ stray = {}
  BY NoFlowFacts DEF Init, NoTurn
<1>2. MadeInvariant
  BY <1>1 DEF MadeInvariant, MadeSaid
<1>3. /\ Stages = [c \in Commits |-> "none"]
      /\ Items = [c \in Commits |-> [a \in Actions |-> "none"]]
      /\ Covers = [c \in Commits |-> {}]
      /\ Shows = [t \in Turns |-> 0]
  BY <1>1 DEF Stages, Items, ItemOf, Covers, Pending, Shows
<1> QED BY <1>1, <1>2, <1>3 DEF Promise!Init

\* Whatever operations overlap, throw or are killed, the session keeps what
\* CapturePromise promises of commits and their undo tokens.
THEOREM Refinement == Spec => CaptureKeepsItsPromise
<1>1. Init => MadeInvariant /\ Promise!Init
  BY InitPromised
<1>2. Inductive /\ MadeInvariant /\ [Next]_vars =>
        MadeInvariant' /\ [Promise!Next]_<<Stages, Items, Covers, left, Shows>>
  BY StepPromised DEF Kept
<1> QED BY <1>1, <1>2, Invariance, PTL DEF Spec, CaptureKeepsItsPromise, Promise!Spec, Promise!vars

=============================================================================
