------------------------ MODULE EncryptedSyncProofs ------------------------
(***************************************************************************)
(* Proofs about EncryptedSync for any set of devices, entities, editors    *)
(* and handlers, any number of edits, lost answers and failures: whatever  *)
(* the races on the server do to an entity, a device never shows content   *)
(* that no device sealed under that revision, nor drops what no device     *)
(* deleted under it, and its projection never goes back.                   *)
(***************************************************************************)
EXTENDS EncryptedSync, SequenceTheorems, TLAPS

USE SyncAssumption

-----------------------------------------------------------------------------
(* The records and sequences the actions build.                            *)

\* A sealed row is an envelope that holds something.
LEMMA SealedRow ==
  ASSUME NEW r \in Row, r.state # "absent", r.rev # 0
  PROVE  Seal(r) \in Envelope /\ Seal(r).rev = r.rev
BY DEF Row, Seal, Envelope

LEMMA ContentIsSome == NoContent \notin Contents
BY DEF NoContent, Contents

\* It can be opened again.
LEMMA SealedOpens ==
  ASSUME NEW r, r.state = "active" => r.val \in Contents
  PROVE  Authentic(Seal(r))
BY ContentIsSome DEF Seal, Authentic

\* What an envelope projects to is a row; an active one seals to the envelope.
LEMMA ProjectedEnvelope ==
  ASSUME NEW env \in Envelope
  PROVE  /\ Projected(env) \in Row
         /\ Projected(env).state # "absent" => Projected(env).rev = env.rev
         /\ Projected(env).state = "active" => Seal(Projected(env)) = env
<1>1. CASE env.state = "active"
  BY <1>1 DEF Projected, Envelope, Row, Seal
<1>2. CASE env.state # "active"
  BY <1>2 DEF Projected, Row, NoRow
<1> QED BY <1>1, <1>2

\* A change is its entity and its envelope.
LEMMA ChangeFields ==
  ASSUME NEW c \in Change
  PROVE  c.entity \in Entities /\ c.env \in Envelope /\ c = [entity |-> c.entity, env |-> c.env]
BY DEF Change

LEMMA NothingIsEmpty ==
  /\ Nothing \in [Entities -> Envelope] /\ NoEnvelope \in Envelope
  /\ \A e \in Entities : Nothing[e].rev = 0 /\ ~ Authentic(Nothing[e])
BY DEF Nothing, NoEnvelope, Envelope, Authentic

LEMMA FreeHandler ==
  /\ Free \in Handler /\ Free.todo = <<>> /\ Free.state = "free"
  /\ \A e \in Entities : Free.staged[e].rev = 0 /\ ~ Authentic(Free.staged[e])
<1>1. <<>> \in Seq(Change)
  BY EmptySeq
<1> QED BY <1>1, NothingIsEmpty DEF Free, Handler

\* A change appended to, or dropped from, a sequence of changes.
LEMMA Appended ==
  ASSUME NEW S, NEW T, S \subseteq T, NEW q \in Seq(S), NEW c \in T
  PROVE  Append(q, c) \in Seq(T)
<1>1. q \in Seq(T)
  BY SeqMonotonic
<1> QED BY <1>1

LEMMA Dropped ==
  ASSUME NEW S, NEW q \in Seq(S), NEW n \in Nat
  PROVE  SubSeq(q, n + 1, Len(q)) \in Seq(S)
<1>1. \A i \in n + 1 .. Len(q) : q[i] \in S
  BY LenProperties
<1> QED BY <1>1, LenProperties, SubSeqProperties

-----------------------------------------------------------------------------
(* One lemma per action.                                                   *)

LEMMA InitialInductive == Init => Inductive
<1> SUFFICES ASSUME Init PROVE Inductive
  OBVIOUS
<1>1. TypeOK
  <2>1. <<>> \in Seq(Change)
    BY EmptySeq
  <2> QED BY <2>1, NothingIsEmpty, FreeHandler DEF Init, TypeOK, Row, NoRow
<1>2. SealedInvariant
  <2>1. <<>> \in Seq(sealed)
    BY EmptySeq
  <2> QED BY <2>1, NothingIsEmpty, FreeHandler DEF Init, SealedInvariant
<1>3. RowInvariant
  BY DEF Init, RowInvariant, RowsWereSealed, NoRow
<1> QED BY <1>1, <1>2, <1>3 DEF Inductive

\* The transaction of an edit.
LEMMA WriteStep ==
  ASSUME Inductive, NEW d \in Devices, NEW e \in Entities, NEW new \in Row,
         new.state # "absent", new.state = "active" => new.val \in Contents, new.rev # 0,
         edits[d] < MaxEdits, Write(d, e, new)
  PROVE  Inductive'
<1> DEFINE c == [entity |-> e, env |-> Seal(new)]
<1>1. Seal(new) \in Envelope /\ Seal(new).rev = new.rev
  BY SealedRow
<1>2. c \in Change /\ c \in sealed' /\ sealed \subseteq sealed' /\ sealed' \subseteq Change
  BY <1>1 DEF Write, Inductive, TypeOK, Change
<1>3. queue'[d] = Append(queue[d], c) /\ queue' = [queue EXCEPT ![d] = queue'[d]]
  BY DEF Write, Inductive, TypeOK
<1>4. TypeOK'
  <2>1. queue' \in [Devices -> Seq(Change)]
    <3>1. queue[d] \in Seq(Change) /\ c \in Change
      BY <1>2 DEF Inductive, TypeOK
    <3>2. Append(queue[d], c) \in Seq(Change)
      BY <3>1, Appended
    <3> QED BY <3>2, <1>3 DEF Inductive, TypeOK
  <2>2. new.rev \in Nat
    BY DEF Row
  <2> QED BY <1>1, <1>2, <2>1, <2>2 DEF Inductive, TypeOK, Write, bounds
<1>5. SealedInvariant'
  <2>0. \A b \in sealed' : Authentic(b.env)
    <3>1. Authentic(c.env)
      BY SealedOpens
    <3> QED BY <3>1 DEF Inductive, SealedInvariant, Write
  <2>1. \A f \in Entities : Authentic(cloud'[f]) => [entity |-> f, env |-> cloud'[f]] \in sealed'
    BY <1>2 DEF Inductive, SealedInvariant, Write
  <2>2. \A g \in Devices, f \in Entities :
           Authentic(enc'[g][f]) => [entity |-> f, env |-> enc'[g][f]] \in sealed'
    BY <1>2 DEF Inductive, TypeOK, SealedInvariant, Write
  <2>3. \A g \in Devices : \A b \in pending'[g] : Authentic(b.env) => b \in sealed'
    BY <1>2 DEF Inductive, SealedInvariant, Write
  <2>4. \A g \in Devices : queue'[g] \in Seq(sealed')
    <3> TAKE g \in Devices
    <3>1. CASE g = d
      BY <3>1, <1>2, <1>3, Appended DEF Inductive, SealedInvariant
    <3>2. CASE g # d
      BY <3>2, <1>2, SeqMonotonic DEF Inductive, TypeOK, SealedInvariant, Write
    <3> QED BY <3>1, <3>2
  <2>5. \A s \in Slots : push'[s].todo \in Seq(sealed')
    BY <1>2, SeqMonotonic DEF Inductive, SealedInvariant, Write
  <2>6. \A s \in Slots, f \in Entities : Authentic(push'[s].staged[f])
           => [entity |-> f, env |-> push'[s].staged[f]] \in sealed'
    BY <1>2 DEF Inductive, SealedInvariant, Write
  <2>7. \A s \in Slots : push'[s].state = "write" => push'[s].todo # <<>>
    BY DEF Inductive, SealedInvariant, Write
  <2> QED BY <2>0, <2>1, <2>2, <2>3, <2>4, <2>5, <2>6, <2>7 DEF SealedInvariant
<1>6. RowInvariant'
  <2>1. /\ row'[d][e] = new /\ applied'[d][e] = new.rev
        /\ \A g \in Devices, f \in Entities : ~ (g = d /\ f = e)
              => row'[g][f] = row[g][f] /\ applied'[g][f] = applied[g][f]
    BY DEF Inductive, TypeOK, Write
  <2>2. new.state # "active" => c.env.state = "tombstone"
    BY DEF Seal
  <2>3. c.entity = e /\ c.env = Seal(new) /\ c.env.rev = new.rev
    BY <1>1
  <2> HIDE DEF c
  <2>4. ASSUME NEW g \in Devices, NEW f \in Entities
        PROVE  /\ row'[g][f].state = "active"
                    => [entity |-> f, env |-> Seal(row'[g][f])] \in sealed'
               /\ row'[g][f].state # "active" /\ applied'[g][f] # 0 =>
                     \E k \in sealed' : /\ k.entity = f /\ k.env.rev = applied'[g][f]
                                        /\ k.env.state = "tombstone"
    <3>1. CASE g = d /\ f = e
      BY <1>2, <2>1, <2>2, <2>3, <3>1 DEF c
    <3>2. CASE ~ (g = d /\ f = e)
      BY <1>2, <2>1, <3>2 DEF Inductive, RowInvariant, RowsWereSealed
    <3> QED BY <3>1, <3>2
  <2>5. RowsWereSealed'
    BY <2>4 DEF RowsWereSealed, Seal
  <2>6. \A g \in Devices, f \in Entities :
           /\ row'[g][f].state # "absent" => row'[g][f].rev = applied'[g][f]
           /\ applied'[g][f] # 0 => \E k \in sealed' : k.entity = f
    BY <1>2, <2>1, <2>3 DEF Inductive, RowInvariant, c
  <2> QED BY <2>5, <2>6 DEF RowInvariant
<1> QED BY <1>4, <1>5, <1>6 DEF Inductive

LEMMA CreatedRow ==
  ASSUME Inductive, NEW d \in Devices, NEW e \in Entities, Create(d, e)
  PROVE  \E new \in Row : /\ Write(d, e, new) /\ new.state # "absent"
                          /\ new.state = "active" => new.val \in Contents
                          /\ new.rev = 1 /\ edits[d] < MaxEdits
<1>1. NextContent(d) \in Contents
  BY DEF Create, NextContent, Contents, Inductive, TypeOK
<1> QED BY <1>1 DEF Create, Row

LEMMA UpdatedRow ==
  ASSUME Inductive, NEW d \in Devices, NEW e \in Entities, NEW state \in {"active", "deleted"},
         Update(d, e, state)
  PROVE  \E new \in Row : /\ Write(d, e, new) /\ new.state # "absent"
                          /\ new.state = "active" => new.val \in Contents
                          /\ new.rev = applied[d][e] + 1 /\ edits[d] < MaxEdits
<1>1. NextContent(d) \in Contents
  BY DEF Update, NextContent, Contents, Inductive, TypeOK
<1>2. row[d][e].rev = applied[d][e] /\ applied[d][e] \in Nat
  BY DEF Update, Inductive, RowInvariant, TypeOK
<1> QED BY <1>1, <1>2 DEF Update, Row

LEMMA DeletedRow ==
  ASSUME Inductive, NEW d \in Devices, NEW e \in Entities, Delete(d, e)
  PROVE  \E new \in Row : /\ Write(d, e, new) /\ new.state # "absent"
                          /\ new.state = "active" => new.val \in Contents
                          /\ new.rev = applied[d][e] + 1 /\ edits[d] < MaxEdits
<1> DEFINE r == row[d][e]
           new == [rev |-> r.rev + 1, val |-> r.val, state |-> "deleted"]
<1>1. r \in Row /\ r.rev = applied[d][e]
  BY DEF Delete, Inductive, RowInvariant, TypeOK
<1>2. new \in Row /\ new.state = "deleted" /\ new.rev = r.rev + 1
  BY <1>1 DEF Row
<1>3. Write(d, e, new) /\ edits[d] < MaxEdits
  BY DEF Delete
<1> QED BY <1>1, <1>2, <1>3

LEMMA EditStep == ASSUME Inductive, NEW d \in Devices, Edit(d) PROVE Inductive'
<1>1. PICK e \in Entities : \/ Create(d, e)
                            \/ \E state \in {"active", "deleted"} : Update(d, e, state)
                            \/ Delete(d, e)
  BY DEF Edit
<1>2. applied[d][e] \in Nat
  BY DEF Inductive, TypeOK
<1>3. \E new \in Row : /\ Write(d, e, new) /\ new.state # "absent"
                       /\ new.state = "active" => new.val \in Contents
                       /\ new.rev # 0 /\ edits[d] < MaxEdits
  BY <1>1, <1>2, CreatedRow, UpdatedRow, DeletedRow
<1> QED BY <1>3, WriteStep

\* The other actions leave the rows and the history alone, or the handlers
\* and the server: what they leave is stated once.
LEMMA RowsUntouched ==
  ASSUME RowInvariant, UNCHANGED <<row, applied, sealed>>
  PROVE  RowInvariant'
BY DEF RowInvariant, RowsWereSealed

LEMMA StartPushStep ==
  ASSUME Inductive, NEW d \in Devices, NEW s \in Slots, StartPush(d, s) PROVE Inductive'
<1> DEFINE h == [Free EXCEPT !.state = "read", !.device = d, !.live = TRUE,
                             !.todo = queue[d], !.size = Len(queue[d])]
<1>1. push' = [push EXCEPT ![s] = h]
  BY DEF StartPush
<1>2. h \in Handler /\ h.todo = queue[d] /\ h.staged = Free.staged /\ h.state = "read"
  <2>1. queue[d] \in Seq(Change) /\ Len(queue[d]) \in Nat
    BY DEF Inductive, TypeOK
  <2> QED BY <2>1, FreeHandler DEF Handler
<1> HIDE DEF h
<1>3. TypeOK'
  BY <1>1, <1>2 DEF Inductive, TypeOK, StartPush, local, bounds
<1>4. SealedInvariant'
  BY <1>1, <1>2, FreeHandler DEF Inductive, TypeOK, SealedInvariant, StartPush, local, bounds
<1>5. RowInvariant'
  BY RowsUntouched DEF Inductive, StartPush, local
<1> QED BY <1>3, <1>4, <1>5 DEF Inductive

\* What a transaction sees of an entity.
LEMMA FoundType ==
  ASSUME TypeOK, NEW s \in Slots, NEW e \in Entities PROVE Found(s, e) \in Envelope
BY DEF Found, TypeOK, Handler

LEMMA ReadEntityStep == ASSUME Inductive, NEW s \in Slots, ReadEntity(s) PROVE Inductive'
<1> DEFINE e == Head(push[s].todo).entity
           n == Found(s, e)
           h == [push[s] EXCEPT !.state = "write", !.seen = n]
<1>1. push' = [push EXCEPT ![s] = h]
  BY DEF ReadEntity, Inductive, TypeOK
<1>2. n \in Envelope
  <2>1. Head(push[s].todo) \in Change
    BY HeadTailProperties DEF ReadEntity, Inductive, TypeOK, Handler
  <2>2. e \in Entities
    BY <2>1, ChangeFields
  <2> QED BY <2>2, FoundType DEF Inductive
<1> HIDE DEF n
<1>3. h \in Handler /\ h.todo = push[s].todo /\ h.staged = push[s].staged
  <2>1. push[s] \in Handler
    BY DEF Inductive, TypeOK
  <2> DEFINE g == [push[s] EXCEPT !.state = "write"]
  <2>2. g \in Handler /\ g.todo = push[s].todo /\ g.staged = push[s].staged
    BY <2>1 DEF Handler
  <2>3. h = [g EXCEPT !.seen = n]
    BY <2>1 DEF Handler
  <2> HIDE DEF g
  <2>4. [g EXCEPT !.seen = n] \in Handler
    BY <1>2, <2>2 DEF Handler
  <2> QED BY <2>2, <2>3, <2>4 DEF Handler
<1> HIDE DEF h
<1>4. TypeOK'
  BY <1>1, <1>3 DEF Inductive, TypeOK, ReadEntity, local, bounds
<1>5. SealedInvariant'
  BY <1>1, <1>3 DEF Inductive, TypeOK, SealedInvariant, ReadEntity, local, bounds
<1>6. RowInvariant'
  BY RowsUntouched DEF Inductive, ReadEntity, local
<1> QED BY <1>4, <1>5, <1>6 DEF Inductive

\* What is left of a batch once its head is done.
LEMMA DoneHandler ==
  ASSUME Inductive, NEW s \in Slots, push[s].todo # <<>>
  PROVE  /\ Done(s) \in Handler
         /\ Done(s).todo \in Seq(sealed)
         /\ Done(s).staged = push[s].staged
         /\ Done(s).state = "read"
<1>1. push[s] \in Handler /\ Tail(push[s].todo) \in Seq(Change) /\ Tail(push[s].todo) \in Seq(sealed)
  BY HeadTailProperties DEF Inductive, TypeOK, SealedInvariant, Handler
<1> QED BY <1>1, NothingIsEmpty DEF Done, Handler

\* What is written is the sealed envelope, or it does not open.
LEMMA WrittenEnvelope ==
  ASSUME Inductive, NEW s \in Slots, push[s].todo # <<>>
  PROVE  LET c == Head(push[s].todo)
         IN  /\ c \in sealed /\ c.entity \in Entities /\ c.env \in Envelope
             /\ Written(s) \in Envelope /\ Written(s).rev = c.env.rev
             /\ push[s].seen.state = Found(s, c.entity).state => Written(s) = c.env
             /\ Authentic(Written(s)) => [entity |-> c.entity, env |-> Written(s)] \in sealed
<1> DEFINE c == Head(push[s].todo)
<1>1. c \in Change /\ c \in sealed
  <2>1. push[s] \in Handler /\ push[s].todo \in Seq(sealed)
    BY DEF Inductive, TypeOK, SealedInvariant
  <2>2. push[s].todo \in Seq(Change)
    BY <2>1 DEF Handler
  <2> QED BY <2>1, <2>2, HeadTailProperties
<1>2. c.entity \in Entities /\ c.env \in Envelope /\ c = [entity |-> c.entity, env |-> c.env]
  BY <1>1, ChangeFields
<1>3. Found(s, c.entity) \in Envelope
  BY <1>2, FoundType DEF Inductive
<1> DEFINE st == IF c.env.state = push[s].seen.state THEN Found(s, c.entity).state ELSE c.env.state
<1>4. Written(s) = [c.env EXCEPT !.state = st]
  BY <1>2 DEF Written, Envelope
<1> HIDE DEF c
<1>5. st \in {"none", "active", "tombstone"}
  BY <1>2, <1>3 DEF Envelope
<1>6. push[s].seen.state = Found(s, c.entity).state => st = c.env.state
  OBVIOUS
<1> HIDE DEF st
<1>7. /\ Written(s) \in Envelope /\ Written(s).rev = c.env.rev /\ Written(s).val = c.env.val
      /\ Written(s).state = st
      /\ st = c.env.state => Written(s) = c.env
  BY <1>2, <1>4, <1>5 DEF Envelope
<1>8. Authentic(c.env)
  BY <1>1 DEF Inductive, SealedInvariant
<1>9. Authentic(Written(s)) => st = c.env.state
  BY <1>7, <1>8 DEF Authentic
<1>10. Authentic(Written(s)) => [entity |-> c.entity, env |-> Written(s)] \in sealed
  BY <1>1, <1>2, <1>7, <1>9
<1> QED BY <1>1, <1>2, <1>6, <1>7, <1>10 DEF c

LEMMA SkipEntityStep == ASSUME Inductive, NEW s \in Slots, SkipEntity(s) PROVE Inductive'
<1>1. push' = [push EXCEPT ![s] = Done(s)]
  BY DEF SkipEntity
<1>2. /\ Done(s) \in Handler
      /\ Done(s).todo \in Seq(sealed)
      /\ Done(s).staged = push[s].staged
      /\ Done(s).state = "read"
  BY DoneHandler DEF SkipEntity, Inductive, SealedInvariant
<1>3. TypeOK'
  BY <1>1, <1>2 DEF Inductive, TypeOK, SkipEntity, local, bounds
<1>4. SealedInvariant'
  BY <1>1, <1>2 DEF Inductive, TypeOK, SealedInvariant, SkipEntity, local, bounds
<1>5. RowInvariant'
  BY RowsUntouched DEF Inductive, SkipEntity, local
<1> QED BY <1>3, <1>4, <1>5 DEF Inductive

LEMMA WriteEntityStep == ASSUME Inductive, NEW s \in Slots, WriteEntity(s) PROVE Inductive'
<1> DEFINE e == Head(push[s].todo).entity
           w == Written(s)
           h == [Done(s) EXCEPT !.staged[e] = w]
<1>1. push' = [push EXCEPT ![s] = h]
  BY DEF WriteEntity
<1> push[s].todo # <<>>
  BY DEF WriteEntity, Wants, Inductive, SealedInvariant
<1>3. /\ e \in Entities /\ w \in Envelope
      /\ Authentic(w) => [entity |-> e, env |-> w] \in sealed
  BY WrittenEnvelope
<1>4. /\ Done(s) \in Handler
      /\ Done(s).todo \in Seq(sealed)
      /\ Done(s).staged = push[s].staged
      /\ Done(s).state = "read"
  BY DoneHandler
<1> HIDE DEF e, w
<1>5. /\ h \in Handler
      /\ h.todo = Done(s).todo /\ h.state = Done(s).state
      /\ h.staged = [push[s].staged EXCEPT ![e] = w]
  BY <1>3, <1>4 DEF Handler
<1> HIDE DEF h
<1>6. TypeOK'
  BY <1>1, <1>5 DEF Inductive, TypeOK, WriteEntity, local, bounds
<1>7. SealedInvariant'
  <2>1. \A t \in Slots : push'[t].todo \in Seq(sealed)
    BY <1>1, <1>4, <1>5 DEF Inductive, TypeOK, SealedInvariant
  <2>2. \A t \in Slots, f \in Entities : Authentic(push'[t].staged[f])
           => [entity |-> f, env |-> push'[t].staged[f]] \in sealed
    <3> TAKE t \in Slots, f \in Entities
    <3>1. CASE t = s
      <4>1. push'[t].staged = [push[s].staged EXCEPT ![e] = w]
        BY <3>1, <1>1, <1>5 DEF Inductive, TypeOK
      <4>2. push[s].staged \in [Entities -> Envelope]
        BY DEF Inductive, TypeOK, Handler
      <4>3. \/ f = e /\ push'[t].staged[f] = w
            \/ f # e /\ push'[t].staged[f] = push[s].staged[f]
        BY <4>1, <4>2
      <4>4. CASE f = e /\ push'[t].staged[f] = w
        BY <4>4, <1>3
      <4>5. CASE push'[t].staged[f] = push[s].staged[f]
        BY <4>5 DEF Inductive, SealedInvariant
      <4> QED BY <4>3, <4>4, <4>5
    <3>2. CASE t # s
      BY <3>2, <1>1 DEF Inductive, TypeOK, SealedInvariant
    <3> QED BY <3>1, <3>2
  <2>3. \A t \in Slots : push'[t].state = "write" => push'[t].todo # <<>>
    BY <1>1, <1>4, <1>5 DEF Inductive, TypeOK, SealedInvariant
  <2> QED BY <2>1, <2>2, <2>3 DEF Inductive, SealedInvariant, WriteEntity, local, bounds
<1>8. RowInvariant'
  BY RowsUntouched DEF Inductive, WriteEntity, local
<1> QED BY <1>6, <1>7, <1>8 DEF Inductive

LEMMA CommitStep == ASSUME Inductive, NEW s \in Slots, Commit(s) PROVE Inductive'
<1>1. push' = [push EXCEPT ![s] = Free]
  BY DEF Commit
<1>2. push[s] \in Handler /\ push[s].size \in Nat /\ push[s].staged \in [Entities -> Envelope]
  BY DEF Inductive, TypeOK, Handler
<1>3. \A d \in Devices : queue'[d] \in Seq(Change) /\ queue'[d] \in Seq(sealed)
  <2> TAKE d \in Devices
  <2>1. queue[d] \in Seq(Change) /\ queue[d] \in Seq(sealed)
    BY DEF Inductive, TypeOK, SealedInvariant
  <2>2. /\ SubSeq(queue[d], push[s].size + 1, Len(queue[d])) \in Seq(Change)
        /\ SubSeq(queue[d], push[s].size + 1, Len(queue[d])) \in Seq(sealed)
    BY <1>2, <2>1, Dropped
  <2> QED BY <2>1, <2>2 DEF Commit
<1>4. /\ cloud' \in [Entities -> Envelope]
      /\ \A e \in Entities : Authentic(cloud'[e]) => [entity |-> e, env |-> cloud'[e]] \in sealed
  BY <1>2 DEF Commit, Found, Inductive, TypeOK, SealedInvariant
<1>5. queue' \in [Devices -> Seq(Change)]
  BY <1>3 DEF Commit
<1>6. TypeOK'
  BY <1>1, <1>4, <1>5, FreeHandler DEF Inductive, TypeOK, Commit, local, bounds
<1>7. SealedInvariant'
  <2>1. \A t \in Slots : push'[t].todo \in Seq(sealed)
    <3>1. <<>> \in Seq(sealed)
      BY EmptySeq
    <3> QED BY <3>1, <1>1, FreeHandler DEF Inductive, TypeOK, SealedInvariant
  <2>2. \A t \in Slots, f \in Entities : Authentic(push'[t].staged[f])
           => [entity |-> f, env |-> push'[t].staged[f]] \in sealed
    BY <1>1, FreeHandler DEF Inductive, TypeOK, SealedInvariant
  <2>3. \A t \in Slots : push'[t].state = "write" => push'[t].todo # <<>>
    BY <1>1, FreeHandler DEF Inductive, TypeOK, SealedInvariant
  <2> QED BY <1>3, <1>4, <2>1, <2>2, <2>3 DEF Inductive, SealedInvariant, Commit, local
<1>8. RowInvariant'
  BY RowsUntouched DEF Inductive, Commit, local
<1> QED BY <1>6, <1>7, <1>8 DEF Inductive

LEMMA AbortStep == ASSUME Inductive, NEW s \in Slots, Abort(s) PROVE Inductive'
<1>1. push' = [push EXCEPT ![s] = Free]
  BY DEF Abort
<1>2. faults' \in 0 .. MaxFaults
  BY DEF Abort, Inductive, TypeOK
<1>3. TypeOK'
  BY <1>1, <1>2, FreeHandler DEF Inductive, TypeOK, Abort, local
<1>4. SealedInvariant'
  <2>1. <<>> \in Seq(sealed)
    BY EmptySeq
  <2> QED BY <2>1, <1>1, FreeHandler DEF Inductive, TypeOK, SealedInvariant, Abort, local
<1>5. RowInvariant'
  BY RowsUntouched DEF Inductive, Abort, local
<1> QED BY <1>3, <1>4, <1>5 DEF Inductive

\* Giving up an answer changes nothing else of a handler.
LEMMA UnheardHandler ==
  ASSUME NEW h \in Handler
  PROVE  LET g == [h EXCEPT !.live = FALSE]
         IN  g \in Handler /\ g.todo = h.todo /\ g.staged = h.staged /\ g.state = h.state
BY DEF Handler

LEMMA TimeoutStep == ASSUME Inductive, NEW s \in Slots, Timeout(s) PROVE Inductive'
<1> DEFINE h == [push[s] EXCEPT !.live = FALSE]
<1>1. push' = [push EXCEPT ![s] = h]
  BY DEF Timeout, Inductive, TypeOK
<1>2. /\ h \in Handler /\ h.todo = push[s].todo
      /\ h.staged = push[s].staged /\ h.state = push[s].state
  BY UnheardHandler DEF Inductive, TypeOK
<1> HIDE DEF h
<1>3. breaks' \in 0 .. MaxBreaks
  BY DEF Timeout, Inductive, TypeOK
<1>4. TypeOK'
  BY <1>1, <1>2, <1>3 DEF Inductive, TypeOK, Timeout, local
<1>5. SealedInvariant'
  BY <1>1, <1>2 DEF Inductive, TypeOK, SealedInvariant, Timeout, local
<1>6. RowInvariant'
  BY RowsUntouched DEF Inductive, Timeout, local
<1> QED BY <1>4, <1>5, <1>6 DEF Inductive

LEMMA RestartStep == ASSUME Inductive, NEW d \in Devices, Restart(d) PROVE Inductive'
<1>1. \A s \in Slots : /\ push'[s] \in Handler
                       /\ push'[s].todo = push[s].todo
                       /\ push'[s].staged = push[s].staged
                       /\ push'[s].state = push[s].state
  BY UnheardHandler DEF Restart, Inductive, TypeOK
<1>2. push' \in [Slots -> Handler]
  BY <1>1 DEF Restart
<1>3. breaks' \in 0 .. MaxBreaks
  BY DEF Restart, Inductive, TypeOK
<1>4. \A g \in Devices : pending'[g] = pending[g] \/ pending'[g] = {}
  BY DEF Restart, Inductive, TypeOK
<1>5. TypeOK'
  BY <1>2, <1>3 DEF Inductive, TypeOK, Restart, local
<1>6. SealedInvariant'
  BY <1>1, <1>4 DEF Inductive, SealedInvariant, Restart, local
<1>7. RowInvariant'
  BY RowsUntouched DEF Inductive, Restart, local
<1> QED BY <1>5, <1>6, <1>7 DEF Inductive

LEMMA DownloadStep == ASSUME Inductive, NEW d \in Devices, Download(d) PROVE Inductive'
<1>1. enc' = [enc EXCEPT ![d] = cloud]
  BY DEF Download
<1>2. TypeOK'
  BY <1>1 DEF Inductive, TypeOK, Download, local, bounds
<1>3. SealedInvariant'
  BY <1>1 DEF Inductive, TypeOK, SealedInvariant, Download, local, bounds
<1>4. RowInvariant'
  BY RowsUntouched DEF Inductive, Download, local
<1> QED BY <1>2, <1>3, <1>4 DEF Inductive

LEMMA ListPendingStep == ASSUME Inductive, NEW d \in Devices, ListPending(d) PROVE Inductive'
<1>1. Ahead(d) \subseteq Change /\ \A c \in Ahead(d) : Authentic(c.env) => c \in sealed
  <2> SUFFICES ASSUME NEW e \in Entities, applied[d][e] < enc[d][e].rev
               PROVE  /\ [entity |-> e, env |-> enc[d][e]] \in Change
                      /\ Authentic(enc[d][e]) => [entity |-> e, env |-> enc[d][e]] \in sealed
    BY DEF Ahead
  <2>1. enc[d][e] \in Envelope /\ applied[d][e] \in Nat
    BY DEF Inductive, TypeOK
  <2> QED BY <2>1 DEF Inductive, SealedInvariant, Change
<1>2. pending' = [pending EXCEPT ![d] = @ \cup Ahead(d)]
  BY DEF ListPending
<1>3. TypeOK'
  BY <1>1, <1>2 DEF Inductive, TypeOK, ListPending, local, bounds
<1>4. SealedInvariant'
  BY <1>1, <1>2 DEF Inductive, TypeOK, SealedInvariant, ListPending, local, bounds
<1>5. RowInvariant'
  BY RowsUntouched DEF Inductive, ListPending, local
<1> QED BY <1>3, <1>4, <1>5 DEF Inductive

LEMMA MaterializeStep ==
  ASSUME Inductive, NEW d \in Devices, NEW c \in pending[d], Materialize(d, c) PROVE Inductive'
<1> DEFINE e == c.entity
           r == Projected(c.env)
<1>1. /\ c \in sealed /\ e \in Entities /\ c.env \in Envelope
      /\ c = [entity |-> e, env |-> c.env]
  BY ChangeFields DEF Inductive, TypeOK, SealedInvariant, Materialize
<1>2. /\ r \in Row
      /\ r.state # "absent" => r.rev = c.env.rev
      /\ r.state = "active" => Seal(r) = c.env
      /\ r.state # "active" => c.env.state = "tombstone"
  <2>1. r.state # "active" => c.env.state = "tombstone"
    BY DEF Materialize, Authentic, Projected
  <2> QED BY <1>1, <2>1, ProjectedEnvelope
<1>3. pending' = [pending EXCEPT ![d] = @ \ {c}]
  BY DEF Materialize
<1>4. \/ /\ row' = [row EXCEPT ![d][e] = r]
         /\ applied' = [applied EXCEPT ![d][e] = c.env.rev]
      \/ UNCHANGED <<row, applied>>
  BY DEF Materialize
<1>5. c.env.rev \in Nat
  BY <1>1 DEF Envelope
<1> HIDE DEF r
<1>6. TypeOK'
  <2>1. row' \in [Devices -> [Entities -> Row]] /\ applied' \in [Devices -> [Entities -> Nat]]
    <3>1. CASE UNCHANGED <<row, applied>>
      BY <3>1 DEF Inductive, TypeOK
    <3>2. CASE /\ row' = [row EXCEPT ![d][e] = r]
               /\ applied' = [applied EXCEPT ![d][e] = c.env.rev]
      BY <3>2, <1>1, <1>2, <1>5 DEF Inductive, TypeOK
    <3> QED BY <1>4, <3>1, <3>2
  <2>2. pending' \in [Devices -> SUBSET Change]
    BY <1>3 DEF Inductive, TypeOK
  <2> QED BY <2>1, <2>2 DEF Inductive, TypeOK, Materialize, bounds
<1>7. SealedInvariant'
  BY <1>3 DEF Inductive, TypeOK, SealedInvariant, Materialize
<1>8. RowInvariant'
  <2>1. CASE UNCHANGED <<row, applied>>
    BY <2>1, RowsUntouched DEF Inductive, Materialize
  <2>2. CASE /\ row' = [row EXCEPT ![d][e] = r]
             /\ applied' = [applied EXCEPT ![d][e] = c.env.rev]
    <3>1. sealed' = sealed
      BY DEF Materialize
    <3>2. /\ row'[d][e] = r
          /\ applied'[d][e] = c.env.rev
          /\ \A g \in Devices, f \in Entities : ~ (g = d /\ f = e)
                => row'[g][f] = row[g][f] /\ applied'[g][f] = applied[g][f]
      BY <1>1, <2>2 DEF Inductive, TypeOK
    <3>3. ASSUME NEW g \in Devices, NEW f \in Entities
          PROVE  /\ row'[g][f].state = "active"
                      => [entity |-> f, env |-> Seal(row'[g][f])] \in sealed
                 /\ row'[g][f].state # "active" /\ applied'[g][f] # 0 =>
                       \E k \in sealed : /\ k.entity = f /\ k.env.rev = applied'[g][f]
                                         /\ k.env.state = "tombstone"
                 /\ row'[g][f].state # "absent" => row'[g][f].rev = applied'[g][f]
                 /\ applied'[g][f] # 0 => \E k \in sealed : k.entity = f
      <4>1. CASE g = d /\ f = e
        BY <3>2, <4>1, <1>1, <1>2
      <4>2. CASE ~ (g = d /\ f = e)
        BY <3>2, <4>2 DEF Inductive, RowInvariant, RowsWereSealed
      <4> QED BY <4>1, <4>2
    <3>4. RowsWereSealed'
      BY <3>1, <3>3 DEF RowsWereSealed, Seal
    <3> QED BY <3>1, <3>3, <3>4 DEF RowInvariant
  <2> QED BY <1>4, <2>1, <2>2
<1> QED BY <1>6, <1>7, <1>8 DEF Inductive

LEMMA RejectStep ==
  ASSUME Inductive, NEW d \in Devices, NEW c \in pending[d], Reject(d, c) PROVE Inductive'
<1>1. \A g \in Devices : pending'[g] \subseteq pending[g]
  BY DEF Reject, Inductive, TypeOK
<1>2. pending' \in [Devices -> SUBSET Change]
  <2>1. PICK rest \in SUBSET (pending[d] \ {c}) : pending' = [pending EXCEPT ![d] = rest]
    BY DEF Reject
  <2> QED BY <2>1 DEF Inductive, TypeOK
<1>3. TypeOK'
  BY <1>2 DEF Inductive, TypeOK, Reject, local, bounds
<1>4. SealedInvariant'
  BY <1>1 DEF Inductive, SealedInvariant, Reject, local
<1>5. RowInvariant'
  BY RowsUntouched DEF Inductive, Reject, local
<1> QED BY <1>3, <1>4, <1>5 DEF Inductive

LEMMA StutterStep == ASSUME Inductive, UNCHANGED vars PROVE Inductive'
BY DEF Inductive, TypeOK, SealedInvariant, RowInvariant, RowsWereSealed, Seal,
       vars, local, bounds

LEMMA InductiveStep == Inductive /\ [Next]_vars => Inductive'
<1> SUFFICES ASSUME Inductive, [Next]_vars PROVE Inductive'
  OBVIOUS
<1>1. CASE UNCHANGED vars
  BY <1>1, StutterStep
<1>2. ASSUME NEW d \in Devices, Edit(d) \/ Download(d) \/ Project(d) \/ Restart(d)
      PROVE  Inductive'
  BY <1>2, EditStep, DownloadStep, ListPendingStep, MaterializeStep, RejectStep,
     RestartStep DEF Project
<1>3. ASSUME NEW d \in Devices, NEW s \in Slots, StartPush(d, s)
      PROVE  Inductive'
  BY <1>3, StartPushStep
<1>4. ASSUME NEW s \in Slots, Handle(s) \/ Abort(s) \/ Timeout(s)
      PROVE  Inductive'
  <2>1. CASE ReadEntity(s)
    BY <2>1, ReadEntityStep
  <2>2. CASE SkipEntity(s)
    BY <2>2, SkipEntityStep
  <2>3. CASE WriteEntity(s)
    BY <2>3, WriteEntityStep
  <2>4. CASE Commit(s)
    BY <2>4, CommitStep
  <2>5. CASE Abort(s)
    BY <2>5, AbortStep
  <2>6. CASE Timeout(s)
    BY <2>6, TimeoutStep
  <2> QED BY <1>4, <2>1, <2>2, <2>3, <2>4, <2>5, <2>6 DEF Handle
<1> QED BY <1>1, <1>2, <1>3, <1>4 DEF Next

-----------------------------------------------------------------------------
(* Theorems.                                                               *)

\* The invariant the others follow from.
THEOREM InductiveHolds == Spec => []Inductive
<1> QED BY InitialInductive, InductiveStep, PTL DEF Spec

\* Every variable keeps its type.
THEOREM TypeCorrect == Spec => []TypeOK
<1>1. Inductive => TypeOK
  BY DEF Inductive
<1> QED BY <1>1, InductiveHolds, PTL

\* Whatever handlers race on the server and whatever is lost or restarted, an
\* active row of a device is, revision and content, one that was sealed, and an
\* entity it shows no longer was deleted under the revision it has projected.
THEOREM RowsCorrect == Spec => []RowsWereSealed
<1>1. Inductive => RowsWereSealed
  BY DEF Inductive, RowInvariant
<1> QED BY <1>1, InductiveHolds, PTL

\* An edit moves the projection forward: a new entity was never projected, and
\* a row has the revision of the projection state.
LEMMA EditMovesForward ==
  ASSUME Inductive, NEW d \in Devices, Edit(d), NEW g \in Devices, NEW f \in Entities
  PROVE  applied'[g][f] >= applied[g][f]
<1>1. PICK e \in Entities : \/ Create(d, e)
                            \/ \E state \in {"active", "deleted"} : Update(d, e, state)
                            \/ Delete(d, e)
  BY DEF Edit
<1>2. \A b \in Devices, k \in Entities : applied[b][k] \in Nat
  BY DEF Inductive, TypeOK
<1>3. \E new \in Row : Write(d, e, new) /\ new.rev >= applied[d][e]
  <2>1. CASE Create(d, e)
    <3>1. applied[d][e] = 0
      BY <2>1 DEF Create, Inductive, RowInvariant
    <3> QED BY <2>1, <3>1, CreatedRow
  <2>2. CASE \E state \in {"active", "deleted"} : Update(d, e, state)
    BY <2>2, <1>2, UpdatedRow
  <2>3. CASE Delete(d, e)
    BY <2>3, <1>2, DeletedRow
  <2> QED BY <1>1, <2>1, <2>2, <2>3
<1>4. PICK new \in Row : Write(d, e, new) /\ new.rev >= applied[d][e]
  BY <1>3
<1>5. applied' = [applied EXCEPT ![d][e] = new.rev]
  BY <1>4 DEF Write
<1> QED BY <1>2, <1>4, <1>5 DEF Inductive, TypeOK

\* So does the projection of a downloaded envelope.
LEMMA MaterializeMovesForward ==
  ASSUME Inductive, NEW d \in Devices, NEW c \in pending[d], Materialize(d, c),
         NEW g \in Devices, NEW f \in Entities
  PROVE  applied'[g][f] >= applied[g][f]
<1>1. c.entity \in Entities /\ c.env.rev \in Nat
  BY ChangeFields DEF Inductive, TypeOK, Envelope
<1>2. \A b \in Devices, k \in Entities : applied[b][k] \in Nat
  BY DEF Inductive, TypeOK
<1>3. applied' = applied
      \/ /\ applied' = [applied EXCEPT ![d][c.entity] = c.env.rev]
         /\ applied[d][c.entity] < c.env.rev
  BY DEF Materialize
<1>4. CASE g = d /\ f = c.entity
  BY <1>1, <1>2, <1>3, <1>4 DEF Inductive, TypeOK
<1>5. CASE ~ (g = d /\ f = c.entity)
  <2>1. applied'[g][f] = applied[g][f]
    BY <1>1, <1>3, <1>5 DEF Inductive, TypeOK
  <2> QED BY <1>2, <2>1
<1> QED BY <1>4, <1>5

\* No step projects an older revision over a newer one.
THEOREM ProjectionMonotone == Spec => ProjectionNeverGoesBack
<1>1. ASSUME Inductive, [Next]_vars
      PROVE  [\A d \in Devices, e \in Entities : applied'[d][e] >= applied[d][e]]_vars
  <2> SUFFICES ASSUME Next, NEW g \in Devices, NEW f \in Entities
               PROVE  applied'[g][f] >= applied[g][f]
    BY <1>1
  <2>1. applied[g][f] \in Nat
    BY <1>1 DEF Inductive, TypeOK
  <2>2. CASE UNCHANGED applied
    BY <2>1, <2>2
  <2>3. ASSUME NEW d \in Devices, Edit(d)
        PROVE  applied'[g][f] >= applied[g][f]
    BY <1>1, <2>3, EditMovesForward
  <2>4. ASSUME NEW d \in Devices, NEW c \in pending[d], Materialize(d, c)
        PROVE  applied'[g][f] >= applied[g][f]
    BY <1>1, <2>4, MaterializeMovesForward
  <2> QED BY <2>2, <2>3, <2>4
          DEF Next, Project, Handle, Download, ListPending, Reject, Restart, StartPush, ReadEntity,
              SkipEntity, WriteEntity, Commit, Abort, Timeout
<1> QED BY <1>1, InductiveHolds, PTL DEF Spec, ProjectionNeverGoesBack

=============================================================================
