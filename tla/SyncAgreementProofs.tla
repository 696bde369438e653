------------------------ MODULE SyncAgreementProofs ------------------------
(***************************************************************************)
(* Proofs that devices agree.  Of an entity that one device edits, every   *)
(* revision has one content, whatever handlers race on the server; and     *)
(* with one handler at a time EncryptedSync implements SyncPromise, and    *)
(* whoever has nothing left to upload, download or project shows what the  *)
(* server holds.                                                           *)
(*                                                                         *)
(* The invariants say that an editor shows the newest revision of what it  *)
(* alone edits, that a projection has the content of its revision, and     *)
(* that what a device has still to project came from the server.           *)
(***************************************************************************)
EXTENDS SerialSyncProofs

\* An editor that is the only one has projected every revision it has sealed.
EditorInvariant ==
    \A c \in sealed, d \in Devices :
       Sole(c.entity) /\ d \in Editors[c.entity] => c.env.rev <= applied[d][c.entity]

\* A row shows what was sealed under its revision, deleted or not.
ProjectedRevision(d, e) ==
    IF applied[d][e] = 0 THEN row[d][e].state = "absent"
    ELSE \E c \in sealed : /\ c.entity = e /\ c.env.rev = applied[d][e]
                           /\ Shows(row[d][e]) = Shows(c.env)

\* An envelope that was sealed is known by its revision and what it shows.
Whole(env) ==
    /\ env.rev # 0
    /\ \/ env.state = "active" /\ env.val # NoContent
       \/ env.state = "tombstone" /\ env.val = NoContent

Agreement ==
    /\ EditorInvariant
    /\ RevisionsAgree
    /\ \A d \in Devices, e \in Entities : ProjectedRevision(d, e)
    /\ \A c \in sealed : Whole(c.env)
    /\ \A e \in Entities : cloud[e].rev = 0 => cloud[e].state # "active"

-----------------------------------------------------------------------------
(* Contents.                                                               *)

\* Two whole envelopes of a revision that show the same are the same.
LEMMA WholeIsKnown ==
  ASSUME NEW a \in Envelope, NEW b \in Envelope, Whole(a), Whole(b), a.rev = b.rev,
         Shows(a) = Shows(b)
  PROVE  a = b
<1>1. a.val = b.val /\ a.state = b.state
  BY DEF Whole, Shows
<1> QED BY <1>1 DEF Envelope

\* What an edit seals.
LEMMA EditIsWrite ==
  ASSUME Inductive, NEW d \in Devices, Edit(d)
  PROVE  \E e \in Entities, new \in Row :
            /\ Write(d, e, new)
            /\ d \in Editors[e] /\ edits[d] < MaxEdits
            /\ new.rev = applied[d][e] + 1
            /\ \/ new.state = "active" /\ new.val \in Contents
               \/ new.state = "deleted"
<1>1. PICK e \in Entities : \/ Create(d, e)
                            \/ \E state \in {"active", "deleted"} : Update(d, e, state)
                            \/ Delete(d, e)
  BY DEF Edit
<1>2. applied[d][e] \in Nat /\ row[d][e] \in Row
  BY DEF Inductive, TypeOK
<1>3. row[d][e].state # "absent" => row[d][e].rev = applied[d][e]
  BY DEF Inductive, RowInvariant
<1>4. edits[d] < MaxEdits => NextContent(d) \in Contents
  <2>1. edits[d] \in 0 .. MaxEdits /\ MaxEdits \in Nat
    BY SyncAssumption DEF Inductive, TypeOK
  <2>2. edits[d] < MaxEdits => edits[d] + 1 \in 1 .. MaxEdits
    BY <2>1
  <2> QED BY <2>2 DEF NextContent, Contents
<1>5. CASE Create(d, e)
  <2> DEFINE new == [rev |-> 1, val |-> NextContent(d), state |-> "active"]
  <2>1. applied[d][e] = 0
    BY <1>5 DEF Create, Inductive, RowInvariant
  <2>2. new \in Row /\ Write(d, e, new) /\ d \in Editors[e] /\ edits[d] < MaxEdits
    BY <1>4, <1>5 DEF Create, Row
  <2> QED BY <1>4, <2>1, <2>2
<1>6. ASSUME NEW state \in {"active", "deleted"}, Update(d, e, state)
      PROVE  \E new \in Row :
                /\ Write(d, e, new)
                /\ d \in Editors[e] /\ edits[d] < MaxEdits
                /\ new.rev = applied[d][e] + 1
                /\ \/ new.state = "active" /\ new.val \in Contents
                   \/ new.state = "deleted"
  <2> DEFINE new == [rev |-> row[d][e].rev + 1, val |-> NextContent(d), state |-> state]
  <2>1. new \in Row /\ Write(d, e, new) /\ d \in Editors[e] /\ edits[d] < MaxEdits
    BY <1>2, <1>4, <1>6 DEF Update, Row
  <2>2. new.rev = applied[d][e] + 1
    BY <1>3, <1>6 DEF Update
  <2> QED BY <1>4, <2>1, <2>2
<1>7. CASE Delete(d, e)
  <2> DEFINE new == [rev |-> row[d][e].rev + 1, val |-> row[d][e].val, state |-> "deleted"]
  <2>1. new \in Row /\ Write(d, e, new) /\ d \in Editors[e] /\ edits[d] < MaxEdits
    BY <1>2, <1>7 DEF Delete, Row
  <2>2. new.rev = applied[d][e] + 1
    BY <1>3, <1>7 DEF Delete
  <2> QED BY <2>1, <2>2
<1> QED BY <1>1, <1>5, <1>6, <1>7

-----------------------------------------------------------------------------
(* One lemma per action that changes rows or the server.                   *)

LEMMA InitialAgreement == Init => Agreement
BY DEF Init, Agreement, EditorInvariant, RevisionsAgree, ProjectedRevision, NoRow, Nothing,
       NoEnvelope

\* The only editor of an entity seals a revision past all that were sealed.
LEMMA WriteAgrees ==
  ASSUME Inductive, Agreement, NEW d \in Devices, NEW e \in Entities, NEW new \in Row,
         Write(d, e, new), d \in Editors[e], new.rev = applied[d][e] + 1,
         \/ new.state = "active" /\ new.val \in Contents
         \/ new.state = "deleted"
  PROVE  Agreement'
<1> DEFINE c == [entity |-> e, env |-> Seal(new)]
<1>1. /\ sealed' = sealed \cup {c} /\ cloud' = cloud
      /\ row' = [row EXCEPT ![d][e] = new]
      /\ applied' = [applied EXCEPT ![d][e] = new.rev]
  BY DEF Write
<1>2. c.entity = e /\ c.env.rev = new.rev /\ Shows(c.env) = Shows(new)
  BY DEF Seal, Shows
<1>3. Whole(c.env)
  <2>1. new.rev # 0
    BY DEF Inductive, TypeOK
  <2> QED BY <2>1, ContentIsSome DEF Seal, Whole
<1>4. /\ row'[d][e] = new /\ applied'[d][e] = new.rev
      /\ \A g \in Devices, f \in Entities : ~ (g = d /\ f = e)
            => row'[g][f] = row[g][f] /\ applied'[g][f] = applied[g][f]
  BY <1>1 DEF Inductive, TypeOK
<1>5. /\ \A b \in sealed : b.entity \in Entities /\ b.env.rev \in Nat
      /\ \A g \in Devices, f \in Entities : applied[g][f] \in Nat
  BY DEF Inductive, TypeOK, Change, Envelope
<1> HIDE DEF c
<1>6. \A b \in sealed : Sole(e) /\ b.entity = e => b.env.rev < new.rev
  <2> SUFFICES ASSUME NEW b \in sealed, Sole(e), b.entity = e PROVE b.env.rev < new.rev
    OBVIOUS
  <2>1. b.env.rev <= applied[d][e]
    BY DEF Agreement, EditorInvariant
  <2> QED BY <1>5, <2>1
<1>7. EditorInvariant'
  <2> SUFFICES ASSUME NEW b \in sealed', NEW g \in Devices, Sole(b.entity),
                      g \in Editors[b.entity]
               PROVE  b.env.rev <= applied'[g][b.entity]
    BY DEF EditorInvariant, Sole
  <2>1. CASE b = c
    <3>1. g = d
      BY <1>2, <2>1 DEF Sole
    <3> QED BY <1>2, <1>4, <1>5, <2>1, <3>1 DEF Row
  <2>2. CASE b \in sealed /\ g = d /\ b.entity = e
    BY <1>4, <1>5, <1>6, <2>2
  <2>3. CASE b \in sealed /\ ~ (g = d /\ b.entity = e)
    BY <1>4, <1>5, <2>3 DEF Agreement, EditorInvariant
  <2> QED BY <1>1, <2>1, <2>2, <2>3
<1>8. RevisionsAgree'
  <2> SUFFICES ASSUME NEW a \in sealed', NEW b \in sealed', Sole(a.entity),
                      a.entity = b.entity, a.env.rev = b.env.rev
               PROVE  a = b
    BY DEF RevisionsAgree, Sole
  <2>1. CASE a \in sealed /\ b \in sealed
    BY <2>1 DEF Agreement, RevisionsAgree
  <2>2. ~ (a = c /\ b \in sealed) /\ ~ (b = c /\ a \in sealed)
    BY <1>2, <1>5, <1>6 DEF Row
  <2> QED BY <1>1, <2>1, <2>2
<1>9. \A g \in Devices, f \in Entities : ProjectedRevision(g, f)'
  <2> TAKE g \in Devices, f \in Entities
  <2>1. CASE g = d /\ f = e
    <3>1. new.rev # 0 /\ c \in sealed'
      BY <1>1, <1>5
    <3> QED BY <1>2, <1>4, <2>1, <3>1 DEF ProjectedRevision, Shows
  <2>2. CASE ~ (g = d /\ f = e)
    BY <1>1, <1>4, <2>2 DEF Agreement, ProjectedRevision, Shows
  <2> QED BY <2>1, <2>2
<1>10. \A b \in sealed' : Whole(b.env)
  BY <1>1, <1>3 DEF Agreement
<1> QED BY <1>1, <1>7, <1>8, <1>9, <1>10 DEF Agreement, Whole

\* What is projected was sealed.
LEMMA MaterializeAgrees ==
  ASSUME Inductive, Agreement, NEW d \in Devices, NEW c \in pending[d], Materialize(d, c)
  PROVE  Agreement'
<1> DEFINE e == c.entity
<1>1. /\ c \in sealed /\ e \in Entities /\ c.env \in Envelope /\ c.env.rev \in Nat
      /\ Whole(c.env)
  BY ChangeFields DEF Inductive, TypeOK, SealedInvariant, Envelope, Agreement, Materialize
<1>2. UNCHANGED <<sealed, cloud>>
  BY DEF Materialize
<1>3. CASE UNCHANGED <<row, applied>>
  BY <1>2, <1>3 DEF Agreement, EditorInvariant, RevisionsAgree, ProjectedRevision, Whole,
                    Shows, Sole
<1>4. CASE /\ applied[d][e] < c.env.rev
           /\ row' = [row EXCEPT ![d][e] = Projected(c.env)]
           /\ applied' = [applied EXCEPT ![d][e] = c.env.rev]
  <2>1. /\ row'[d][e] = Projected(c.env) /\ applied'[d][e] = c.env.rev
        /\ \A g \in Devices, f \in Entities : ~ (g = d /\ f = e)
              => row'[g][f] = row[g][f] /\ applied'[g][f] = applied[g][f]
    BY <1>1, <1>4 DEF Inductive, TypeOK
  <2>2. Shows(Projected(c.env)) = Shows(c.env)
    BY DEF Projected, Shows, NoRow
  <2>3. \A b \in sealed : b.entity \in Entities /\ b.env.rev \in Nat
    BY DEF Inductive, TypeOK, Change, Envelope
  <2>4. \A g \in Devices, f \in Entities : applied[g][f] \in Nat
    BY DEF Inductive, TypeOK
  <2>5. EditorInvariant'
    <3> SUFFICES ASSUME NEW b \in sealed, NEW g \in Devices, Sole(b.entity),
                        g \in Editors[b.entity]
                 PROVE  b.env.rev <= applied'[g][b.entity]
      BY <1>2 DEF EditorInvariant, Sole
    <3>1. b.env.rev <= applied[g][b.entity]
      BY DEF Agreement, EditorInvariant
    <3>2. applied'[g][b.entity] >= applied[g][b.entity]
      BY <2>3, MaterializeMovesForward
    <3>3. applied'[g][b.entity] \in Nat
      BY <1>1, <2>1, <2>3, <2>4
    <3> QED BY <2>3, <2>4, <3>1, <3>2, <3>3
  <2>6. \A g \in Devices, f \in Entities : ProjectedRevision(g, f)'
    <3> TAKE g \in Devices, f \in Entities
    <3>1. CASE g = d /\ f = e
      <4>1. applied'[d][e] # 0
        BY <1>1, <2>1 DEF Whole
      <4>2. c.entity = e /\ Shows(row'[d][e]) = Shows(c.env)
        BY <2>1, <2>2
      <4> QED BY <1>1, <1>2, <2>1, <3>1, <4>1, <4>2 DEF ProjectedRevision, Shows
    <3>2. CASE ~ (g = d /\ f = e)
      BY <1>2, <2>1, <3>2 DEF Agreement, ProjectedRevision, Shows
    <3> QED BY <3>1, <3>2
  <2> QED BY <1>2, <2>5, <2>6 DEF Agreement, RevisionsAgree, Whole, Sole
<1> QED BY <1>3, <1>4 DEF Materialize

\* The server keeps a row or gets one that was sealed.
LEMMA CommitAgrees == ASSUME Inductive, Agreement, NEW s \in Slots, Commit(s) PROVE Agreement'
<1>1. UNCHANGED <<sealed, applied, row>>
  BY DEF Commit, local
<1>2. \A e \in Entities : cloud'[e] = cloud[e] \/ cloud'[e].rev # 0
  BY DEF Commit, Found
<1> QED BY <1>1, <1>2 DEF Agreement, EditorInvariant, RevisionsAgree, ProjectedRevision, Whole,
                          Shows, Sole

LEMMA AgreementStays ==
  ASSUME Agreement, UNCHANGED <<sealed, applied, row, cloud>> PROVE Agreement'
BY DEF Agreement, EditorInvariant, RevisionsAgree, ProjectedRevision, Whole, Shows, Sole

LEMMA AgreementStep == ASSUME Inductive, Agreement, [Next]_vars PROVE Agreement'
<1>1. ASSUME NEW d \in Devices, Edit(d) PROVE Agreement'
  BY <1>1, EditIsWrite, WriteAgrees
<1>2. ASSUME NEW d \in Devices, NEW c \in pending[d], Materialize(d, c) PROVE Agreement'
  BY <1>2, MaterializeAgrees
<1>3. ASSUME NEW s \in Slots, Commit(s) PROVE Agreement'
  BY <1>3, CommitAgrees
<1>4. ASSUME NEW d \in Devices, \/ Download(d) \/ ListPending(d) \/ Restart(d)
                                \/ \E c \in pending[d] : Reject(d, c)
      PROVE  Agreement'
  BY <1>4, AgreementStays DEF Download, ListPending, Restart, Reject, local
<1>5. ASSUME NEW d \in Devices, NEW s \in Slots, StartPush(d, s) PROVE Agreement'
  BY <1>5, AgreementStays DEF StartPush, local
<1>6. ASSUME NEW s \in Slots, \/ ReadEntity(s) \/ SkipEntity(s) \/ WriteEntity(s)
                              \/ Abort(s) \/ Timeout(s)
      PROVE  Agreement'
  BY <1>6, AgreementStays DEF ReadEntity, SkipEntity, WriteEntity, Abort, Timeout, local
<1>7. CASE UNCHANGED vars
  BY <1>7, AgreementStays DEF vars, local
<1> QED BY <1>1, <1>2, <1>3, <1>4, <1>5, <1>6, <1>7 DEF Next, Project, Handle

-----------------------------------------------------------------------------
(* Theorems for any number of handlers.                                    *)

\* Editors, revisions and projections agree in content, as Agreement says.
THEOREM AgreementHolds == Spec => [](Inductive /\ Agreement)
<1>1. Init => Inductive /\ Agreement
  BY InitialInductive, InitialAgreement
<1>2. Inductive /\ Agreement /\ [Next]_vars => (Inductive /\ Agreement)'
  BY InductiveStep, AgreementStep
<1> QED BY <1>1, <1>2, PTL DEF Spec

\* Whatever handlers race on the server and however often a batch is sent, a
\* revision of an entity that one device edits has one content: two devices,
\* or a device and the server, that hold the same revision hold the same.
THEOREM OneContentPerRevision == Spec => []RevisionsAgree
<1>1. Inductive /\ Agreement => RevisionsAgree
  BY DEF Agreement
<1> QED BY <1>1, AgreementHolds, PTL

-----------------------------------------------------------------------------
(* With one handler at a time: what is still to be projected.              *)

\* A projection is never ahead of its envelope, and behind it only while the
\* envelope is the server's; what was listed is no newer than the envelope.
DownloadInvariant ==
    \A d \in Devices :
       /\ \A e \in Entities :
             /\ applied[d][e] <= enc[d][e].rev
             /\ applied[d][e] < enc[d][e].rev => enc[d][e].rev <= cloud[e].rev
       /\ \A c \in pending[d] : c.env.rev <= enc[d][c.entity].rev

LEMMA RevisionTypes ==
  ASSUME TypeOK
  PROVE  \A d \in Devices :
            /\ \A e \in Entities : /\ applied[d][e] \in Nat /\ enc[d][e].rev \in Nat
                                   /\ cloud[e].rev \in Nat
            /\ \A c \in pending[d] : c.entity \in Entities /\ c.env.rev \in Nat
BY DEF TypeOK, Envelope, Change

\* Envelopes and the server may move forward under what has been projected.
LEMMA ForwardDownloads ==
  ASSUME DownloadInvariant, TypeOK, TypeOK', UNCHANGED <<applied, enc>>,
         \A e \in Entities : cloud'[e].rev >= cloud[e].rev,
         \A d \in Devices : pending'[d] \subseteq pending[d]
  PROVE  DownloadInvariant'
<1> SUFFICES ASSUME NEW d \in Devices
             PROVE  /\ \A e \in Entities :
                          /\ applied[d][e] <= enc[d][e].rev
                          /\ applied[d][e] < enc[d][e].rev => enc[d][e].rev <= cloud'[e].rev
                    /\ \A c \in pending'[d] : c.env.rev <= enc[d][c.entity].rev
  BY DEF DownloadInvariant
<1>1. \A e \in Entities : /\ applied[d][e] \in Nat /\ enc[d][e].rev \in Nat
                          /\ cloud[e].rev \in Nat /\ cloud'[e].rev \in Nat
  BY DEF TypeOK, Envelope
<1> QED BY <1>1 DEF DownloadInvariant

LEMMA EditDownloads ==
  ASSUME Inductive, DownloadInvariant, NEW d \in Devices, Edit(d) PROVE DownloadInvariant'
<1>1. PICK e \in Entities, new \in Row : Write(d, e, new) /\ new.rev = applied[d][e] + 1
  BY EditIsWrite
<1>2. /\ UNCHANGED <<cloud, pending>>
      /\ enc' = [enc EXCEPT ![d][e] = Seal(new)] /\ Seal(new).rev = new.rev
      /\ applied' = [applied EXCEPT ![d][e] = new.rev]
      /\ new.rev > enc[d][e].rev /\ new.rev \in Nat
  BY <1>1 DEF Write, Seal, Row
<1>3. /\ enc'[d][e].rev = new.rev /\ applied'[d][e] = new.rev
      /\ \A g \in Devices, f \in Entities : ~ (g = d /\ f = e)
            => enc'[g][f] = enc[g][f] /\ applied'[g][f] = applied[g][f]
  BY <1>2 DEF Inductive, TypeOK
<1>4. \A g \in Devices :
         /\ \A f \in Entities : /\ applied[g][f] \in Nat /\ enc[g][f].rev \in Nat
                                /\ cloud[f].rev \in Nat
         /\ \A c \in pending[g] : c.entity \in Entities /\ c.env.rev \in Nat
  BY RevisionTypes DEF Inductive
<1>5. \A g \in Devices, f \in Entities :
         /\ applied'[g][f] <= enc'[g][f].rev
         /\ applied'[g][f] < enc'[g][f].rev => enc'[g][f].rev <= cloud[f].rev
  <2> TAKE g \in Devices, f \in Entities
  <2>1. CASE g = d /\ f = e
    BY <1>2, <1>3, <2>1
  <2>2. CASE ~ (g = d /\ f = e)
    BY <1>3, <2>2 DEF DownloadInvariant
  <2> QED BY <2>1, <2>2
<1>6. \A g \in Devices : \A c \in pending[g] : c.env.rev <= enc'[g][c.entity].rev
  <2> TAKE g \in Devices
  <2> TAKE c \in pending[g]
  <2>1. c.env.rev <= enc[g][c.entity].rev
    BY DEF DownloadInvariant
  <2>2. CASE g = d /\ c.entity = e
    BY <1>2, <1>3, <1>4, <2>1, <2>2
  <2>3. CASE ~ (g = d /\ c.entity = e)
    BY <1>3, <1>4, <2>1, <2>3
  <2> QED BY <2>2, <2>3
<1> QED BY <1>2, <1>5, <1>6 DEF DownloadInvariant

\* A download brings the server's envelopes, none older than the device's.
LEMMA DownloadDownloads ==
  ASSUME Serial, DownloadInvariant, NEW d \in Devices, Download(d) PROVE DownloadInvariant'
<1>1. /\ UNCHANGED <<cloud, pending, applied>> /\ enc'[d] = cloud
      /\ \A g \in Devices : g # d => enc'[g] = enc[g]
  BY DEF Download, local, Serial, Inductive, TypeOK
<1>2. \A e \in Entities : enc'[d][e].rev >= enc[d][e].rev
  BY DownloadIsForward
<1>3. \A g \in Devices :
         /\ \A f \in Entities : /\ applied[g][f] \in Nat /\ enc[g][f].rev \in Nat
                                /\ cloud[f].rev \in Nat
         /\ \A c \in pending[g] : c.entity \in Entities /\ c.env.rev \in Nat
  BY RevisionTypes DEF Serial, Inductive
<1>4. \A e \in Entities : /\ applied[d][e] <= cloud[e].rev
                          /\ applied[d][e] < cloud[e].rev => cloud[e].rev <= cloud[e].rev
  BY <1>1, <1>2, <1>3 DEF DownloadInvariant
<1>5. \A c \in pending[d] : c.env.rev <= cloud[c.entity].rev
  BY <1>1, <1>2, <1>3 DEF DownloadInvariant
<1> QED BY <1>1, <1>4, <1>5 DEF DownloadInvariant

LEMMA ListPendingDownloads ==
  ASSUME Inductive, DownloadInvariant, NEW d \in Devices, ListPending(d)
  PROVE  DownloadInvariant'
<1>1. /\ UNCHANGED <<cloud, applied, enc>> /\ pending'[d] = pending[d] \cup Ahead(d)
      /\ \A g \in Devices : g # d => pending'[g] = pending[g]
  BY DEF ListPending, local, Inductive, TypeOK
<1>2. \A c \in Ahead(d) : c.env.rev <= enc[d][c.entity].rev
  BY RevisionTypes DEF Ahead, Inductive
<1> QED BY <1>1, <1>2 DEF DownloadInvariant

LEMMA MaterializeDownloads ==
  ASSUME Inductive, DownloadInvariant, NEW d \in Devices, NEW c \in pending[d], Materialize(d, c)
  PROVE  DownloadInvariant'
<1>1. UNCHANGED <<cloud, enc>> /\ \A g \in Devices : pending'[g] \subseteq pending[g]
  BY DEF Materialize, Inductive, TypeOK
<1>2. \A g \in Devices :
         /\ \A f \in Entities : /\ applied[g][f] \in Nat /\ enc[g][f].rev \in Nat
                                /\ cloud[f].rev \in Nat
         /\ \A b \in pending[g] : b.entity \in Entities /\ b.env.rev \in Nat
  BY RevisionTypes DEF Inductive
<1>3. \A g \in Devices, f \in Entities :
         \/ applied'[g][f] = applied[g][f]
         \/ /\ g = d /\ f = c.entity /\ applied'[g][f] = c.env.rev
            /\ applied[g][f] < c.env.rev
  <2>1. applied \in [Devices -> [Entities -> Nat]]
    BY DEF Inductive, TypeOK
  <2>2. \/ applied' = applied
        \/ /\ applied[d][c.entity] < c.env.rev
           /\ applied' = [applied EXCEPT ![d][c.entity] = c.env.rev]
    BY DEF Materialize
  <2> QED BY <2>1, <2>2
<1>4. \A g \in Devices, f \in Entities :
         /\ applied'[g][f] <= enc[g][f].rev
         /\ applied'[g][f] < enc[g][f].rev => enc[g][f].rev <= cloud[f].rev
  <2> TAKE g \in Devices, f \in Entities
  <2>1. CASE applied'[g][f] = applied[g][f]
    BY <2>1 DEF DownloadInvariant
  <2>2. CASE g = d /\ f = c.entity /\ applied'[g][f] = c.env.rev /\ applied[g][f] < c.env.rev
    BY <1>2, <2>2 DEF DownloadInvariant
  <2> QED BY <1>3, <2>1, <2>2
<1> QED BY <1>1, <1>4 DEF DownloadInvariant

LEMMA DownloadInvariantStep ==
  ASSUME OneHandler, Serial, DownloadInvariant, [Next]_vars PROVE DownloadInvariant'
<1>1. Inductive /\ TypeOK
  BY DEF Serial, Inductive
<1>2. TypeOK'
  BY <1>1, InductiveStep DEF Inductive
<1>3. ASSUME NEW d \in Devices, Edit(d) PROVE DownloadInvariant'
  BY <1>1, <1>3, EditDownloads
<1>4. ASSUME NEW d \in Devices, Download(d) PROVE DownloadInvariant'
  BY <1>4, DownloadDownloads
<1>5. ASSUME NEW d \in Devices, ListPending(d) PROVE DownloadInvariant'
  BY <1>1, <1>5, ListPendingDownloads
<1>6. ASSUME NEW d \in Devices, NEW c \in pending[d], Materialize(d, c) PROVE DownloadInvariant'
  BY <1>1, <1>6, MaterializeDownloads
<1>7. ASSUME NEW d \in Devices, Restart(d) \/ \E c \in pending[d] : Reject(d, c)
      PROVE  DownloadInvariant'
  <2>1. UNCHANGED <<cloud, applied, enc>> /\ \A g \in Devices : pending'[g] \subseteq pending[g]
    BY <1>1, <1>7 DEF Restart, Reject, local, TypeOK
  <2>2. \A e \in Entities : cloud'[e].rev >= cloud[e].rev
    BY <1>1, <2>1 DEF TypeOK, Envelope
  <2> QED BY <1>1, <1>2, <2>1, <2>2, ForwardDownloads
<1>8. ASSUME NEW s \in Slots, Commit(s) PROVE DownloadInvariant'
  <2>1. UNCHANGED <<applied, enc, pending>>
    BY <1>8 DEF Commit
  <2>2. \A e \in Entities : cloud'[e].rev >= cloud[e].rev
    BY <1>8, CommitMerges
  <2> QED BY <1>1, <1>2, <2>1, <2>2, ForwardDownloads
<1>9. CASE UNCHANGED <<cloud, applied, enc, pending>>
  BY <1>9 DEF DownloadInvariant
<1>10. ASSUME NEW d \in Devices, NEW s \in Slots, StartPush(d, s)
       PROVE  UNCHANGED <<cloud, applied, enc, pending>>
  BY <1>10 DEF StartPush
<1>11. ASSUME NEW s \in Slots, \/ ReadEntity(s) \/ SkipEntity(s) \/ WriteEntity(s)
                               \/ Abort(s) \/ Timeout(s)
       PROVE  UNCHANGED <<cloud, applied, enc, pending>>
  BY <1>11 DEF ReadEntity, SkipEntity, WriteEntity, Abort, Timeout
<1>12. UNCHANGED vars => UNCHANGED <<cloud, applied, enc, pending>>
  BY DEF vars
<1> QED BY <1>3, <1>4, <1>5, <1>6, <1>7, <1>8, <1>9, <1>10, <1>11, <1>12 DEF Next, Project, Handle

-----------------------------------------------------------------------------
(* With one handler at a time: the refinement of SyncPromise.              *)

LEMMA VersionFields ==
  ASSUME NEW e \in Entities
  PROVE  /\ ServerVersions[e] = [rev |-> cloud[e].rev, shows |-> Shows(cloud[e])]
         /\ ServerVersions[e].rev = cloud[e].rev
         /\ \A d \in Devices :
               /\ DeviceVersions[d][e] = [rev |-> applied[d][e], shows |-> Shows(row[d][e])]
               /\ DeviceVersions[d][e].rev = applied[d][e]
<1>1. ServerVersions[e] = [rev |-> cloud[e].rev, shows |-> Shows(cloud[e])]
  BY DEF ServerVersions, VersionOf
<1>2. \A d \in Devices :
         DeviceVersions[d][e] = [rev |-> applied[d][e], shows |-> Shows(row[d][e])]
  BY DEF DeviceVersions, VersionOf
<1> QED BY <1>1, <1>2

\* What is not about a device leaves what devices show alone.
LEMMA DevicesStay == UNCHANGED <<applied, row>> => UNCHANGED DeviceVersions
BY DEF DeviceVersions, VersionOf, Shows

LEMMA ServerStays == UNCHANGED cloud => UNCHANGED ServerVersions
BY DEF ServerVersions, VersionOf, Shows

LEMMA HistoryStays == UNCHANGED sealed => UNCHANGED AllVersions
BY DEF AllVersions, VersionOf, Shows

\* One device shows another version of one entity.
LEMMA DeviceMoves ==
  ASSUME TypeOK, NEW d \in Devices, NEW e \in Entities, NEW n, NEW r,
         row' = [row EXCEPT ![d][e] = r], applied' = [applied EXCEPT ![d][e] = n]
  PROVE  DeviceVersions' = [DeviceVersions EXCEPT ![d][e] = VersionOf(n, r)]
<1>1. /\ row'[d][e] = r /\ applied'[d][e] = n
      /\ \A g \in Devices, f \in Entities : ~ (g = d /\ f = e)
            => row'[g][f] = row[g][f] /\ applied'[g][f] = applied[g][f]
  BY DEF TypeOK
<1>2. \A g \in Devices, f \in Entities : VersionOf(applied'[g][f], row'[g][f])
         = IF g = d /\ f = e THEN VersionOf(n, r) ELSE VersionOf(applied[g][f], row[g][f])
  BY <1>1
<1>3. DeviceVersions' =
         [g \in Devices |-> [f \in Entities |-> VersionOf(applied'[g][f], row'[g][f])]]
  BY DEF DeviceVersions, VersionOf, Shows
<1> QED BY <1>2, <1>3 DEF DeviceVersions

LEMMA EditPromised ==
  ASSUME Inductive, NEW d \in Devices, Edit(d)
  PROVE  \E e \in Entities, shows \in Contents \cup {NoContent} : Promise!Edit(d, e, shows)
<1>1. PICK e \in Entities, new \in Row :
         /\ Write(d, e, new) /\ d \in Editors[e]
         /\ new.rev = applied[d][e] + 1
         /\ \/ new.state = "active" /\ new.val \in Contents
            \/ new.state = "deleted"
  BY EditIsWrite
<1> DEFINE c == [entity |-> e, env |-> Seal(new)]
           v == VersionOf(new.rev, new)
<1>2. Shows(new) \in Contents \cup {NoContent}
  BY <1>1 DEF Shows
<1>3. v = [rev |-> DeviceVersions[d][e].rev + 1, shows |-> Shows(new)]
  <2>1. DeviceVersions[d][e].rev = applied[d][e]
    BY VersionFields
  <2> QED BY <1>1, <2>1 DEF VersionOf
<1>4. AllVersions' = AllVersions \cup {[entity |-> e, version |-> v]}
  <2>1. sealed' = sealed \cup {c}
    BY <1>1 DEF Write
  <2>2. c.entity = e /\ VersionOf(c.env.rev, c.env) = v
    BY DEF VersionOf, Shows, Seal
  <2>3. AllVersions' = {[entity |-> b.entity, version |-> VersionOf(b.env.rev, b.env)] :
                           b \in sealed'}
    BY DEF AllVersions, VersionOf, Shows
  <2> HIDE DEF c, v
  <2> QED BY <2>1, <2>2, <2>3 DEF AllVersions
<1>5. DeviceVersions' = [DeviceVersions EXCEPT ![d][e] = v]
  BY <1>1, DeviceMoves DEF Write, Inductive
<1>6. UNCHANGED ServerVersions
  BY <1>1, ServerStays DEF Write
<1> HIDE DEF v
<1>7. Promise!Edit(d, e, Shows(new))
  BY <1>1, <1>3, <1>4, <1>5, <1>6 DEF Promise!Edit
<1> QED BY <1>2, <1>7

LEMMA MaterializePromised ==
  ASSUME Inductive, DownloadInvariant, NEW d \in Devices, NEW c \in pending[d], Materialize(d, c)
  PROVE  Promise!Show(d, c.entity) \/ UNCHANGED <<AllVersions, ServerVersions, DeviceVersions>>
<1>1. UNCHANGED <<AllVersions, ServerVersions>>
  BY HistoryStays, ServerStays DEF Materialize
<1>2. CASE UNCHANGED <<row, applied>>
  BY <1>1, <1>2, DevicesStay
<1>3. CASE /\ applied[d][c.entity] < c.env.rev
           /\ row' = [row EXCEPT ![d][c.entity] = Projected(c.env)]
           /\ applied' = [applied EXCEPT ![d][c.entity] = c.env.rev]
  <2> DEFINE e == c.entity
             k == [entity |-> e, version |-> VersionOf(c.env.rev, c.env)]
  <2>1. c \in sealed /\ e \in Entities /\ c.env.rev \in Nat
    BY ChangeFields DEF Inductive, TypeOK, SealedInvariant, Envelope, Materialize
  <2>2. k \in AllVersions
    BY <2>1 DEF AllVersions
  <2>3. DeviceVersions' = [DeviceVersions EXCEPT ![d][e] = VersionOf(c.env.rev, Projected(c.env))]
    BY <1>3, <2>1, DeviceMoves DEF Inductive
  <2>4. VersionOf(c.env.rev, Projected(c.env)) = k.version
    BY DEF VersionOf, Shows, Projected, NoRow
  <2>5. c.env.rev > applied[d][e] /\ c.env.rev <= cloud[e].rev
    <3>1. /\ applied[d][e] \in Nat /\ enc[d][e].rev \in Nat /\ cloud[e].rev \in Nat
      BY <2>1, RevisionTypes DEF Inductive
    <3>2. c.env.rev <= enc[d][e].rev
      BY DEF DownloadInvariant
    <3>3. applied[d][e] < enc[d][e].rev
      BY <1>3, <2>1, <3>1, <3>2
    <3>4. enc[d][e].rev <= cloud[e].rev
      BY <2>1, <3>3 DEF DownloadInvariant
    <3> QED BY <1>3, <2>1, <3>1, <3>2, <3>4
  <2>6. /\ k.entity = e
        /\ k.version.rev > DeviceVersions[d][e].rev
        /\ k.version.rev <= ServerVersions[e].rev
    <3>1. DeviceVersions[d][e].rev = applied[d][e] /\ ServerVersions[e].rev = cloud[e].rev
      BY <2>1, VersionFields
    <3>2. k.version.rev = c.env.rev
      BY DEF VersionOf
    <3> QED BY <2>5, <3>1, <3>2
  <2> HIDE DEF k
  <2>7. Promise!Show(d, e)
    BY <1>1, <2>2, <2>3, <2>4, <2>6 DEF Promise!Show
  <2> QED BY <2>7
<1> QED BY <1>2, <1>3 DEF Materialize

LEMMA CommitPromised ==
  ASSUME Serial, NEW s \in Slots, Commit(s) PROVE Promise!Accept
<1>1. UNCHANGED <<AllVersions, DeviceVersions>>
  BY HistoryStays, DevicesStay DEF Commit, local
<1>2. Inductive' /\ EveryEnvelopeOpens' /\ sealed' = sealed
  <2>1. [Next]_vars
    BY DEF Next, Handle
  <2> QED BY <2>1, CommitStep, OpensStep DEF Serial, Commit, local
<1>3. ServerVersions' =
         [e \in Entities |-> [rev |-> cloud'[e].rev, shows |-> Shows(cloud'[e])]]
  BY DEF ServerVersions, VersionOf, Shows
<1>4. ServerVersions' \in [Entities -> Promise!Version]
  <2>1. \A e \in Entities : cloud'[e] \in Envelope
    BY <1>2 DEF Inductive, TypeOK
  <2>2. \A env \in Envelope : [rev |-> env.rev, shows |-> Shows(env)] \in Promise!Version
    BY DEF Envelope, Shows, Promise!Version
  <2> QED BY <1>3, <2>1, <2>2
<1>5. ASSUME NEW e \in Entities, ServerVersions'[e] # ServerVersions[e]
      PROVE  /\ ServerVersions'[e].rev > ServerVersions[e].rev
             /\ [entity |-> e, version |-> ServerVersions'[e]] \in AllVersions
  <2>1. ServerVersions'[e] = [rev |-> cloud'[e].rev, shows |-> Shows(cloud'[e])]
    BY <1>3
  <2>2. ServerVersions[e] = [rev |-> cloud[e].rev, shows |-> Shows(cloud[e])]
    BY VersionFields
  <2>3. cloud'[e] # cloud[e]
    BY <1>5, <2>1, <2>2
  <2>4. cloud'[e].rev > cloud[e].rev /\ cloud'[e].rev \in Nat /\ cloud[e].rev \in Nat
    BY <2>3, CommitMerges
  <2>5. [entity |-> e, env |-> cloud'[e]] \in sealed
    <3>1. cloud'[e].rev # 0
      BY <2>4
    <3> QED BY <1>2, <3>1 DEF Inductive, SealedInvariant, EveryEnvelopeOpens
  <2>6. [entity |-> e, version |-> ServerVersions'[e]] \in AllVersions
    <3> DEFINE c == [entity |-> e, env |-> cloud'[e]]
    <3>1. [entity |-> c.entity, version |-> VersionOf(c.env.rev, c.env)] \in AllVersions
      <4> HIDE DEF c
      <4> QED BY <2>5 DEF AllVersions, c
    <3>2. VersionOf(c.env.rev, c.env) = ServerVersions'[e]
      BY <2>1 DEF VersionOf
    <3> QED BY <3>1, <3>2
  <2> QED BY <2>1, <2>2, <2>4, <2>6
<1> QED BY <1>1, <1>4, <1>5 DEF Promise!Accept

LEMMA InitialPromised == Init => Promise!Init
<1> SUFFICES ASSUME Init PROVE Promise!Init
  OBVIOUS
<1>1. AllVersions = {}
  BY DEF Init, AllVersions
<1>2. ServerVersions = [e \in Entities |-> Promise!Unborn]
  BY DEF Init, ServerVersions, VersionOf, Shows, Nothing, NoEnvelope, Promise!Unborn
<1>3. DeviceVersions = [d \in Devices |-> [e \in Entities |-> Promise!Unborn]]
  BY DEF Init, DeviceVersions, VersionOf, Shows, NoRow, Promise!Unborn
<1> QED BY <1>1, <1>2, <1>3 DEF Promise!Init

LEMMA StepPromised ==
  ASSUME Serial, DownloadInvariant, [Next]_vars
  PROVE  Promise!Next \/ UNCHANGED <<AllVersions, ServerVersions, DeviceVersions>>
<1>1. Inductive
  BY DEF Serial
<1>2. ASSUME NEW d \in Devices, Edit(d) PROVE Promise!Next
  BY <1>1, <1>2, EditPromised DEF Promise!Next
<1>3. ASSUME NEW d \in Devices, NEW c \in pending[d], Materialize(d, c)
      PROVE  Promise!Next \/ UNCHANGED <<AllVersions, ServerVersions, DeviceVersions>>
  <2>1. c.entity \in Entities
    BY <1>1, RevisionTypes DEF Inductive
  <2> QED BY <1>1, <1>3, <2>1, MaterializePromised DEF Promise!Next
<1>4. ASSUME NEW s \in Slots, Commit(s) PROVE Promise!Next
  BY <1>4, CommitPromised DEF Promise!Next
<1>5. CASE UNCHANGED <<sealed, applied, row, cloud>>
  BY <1>5, HistoryStays, ServerStays, DevicesStay
<1>6. ASSUME NEW d \in Devices, \/ Download(d) \/ ListPending(d) \/ Restart(d)
                                \/ \E c \in pending[d] : Reject(d, c)
      PROVE  UNCHANGED <<sealed, applied, row, cloud>>
  BY <1>6 DEF Download, ListPending, Restart, Reject, local
<1>7. ASSUME NEW d \in Devices, NEW s \in Slots, StartPush(d, s)
      PROVE  UNCHANGED <<sealed, applied, row, cloud>>
  BY <1>7 DEF StartPush, local
<1>8. ASSUME NEW s \in Slots, \/ ReadEntity(s) \/ SkipEntity(s) \/ WriteEntity(s)
                              \/ Abort(s) \/ Timeout(s)
      PROVE  UNCHANGED <<sealed, applied, row, cloud>>
  BY <1>8 DEF ReadEntity, SkipEntity, WriteEntity, Abort, Timeout, local
<1>9. UNCHANGED vars => UNCHANGED <<sealed, applied, row, cloud>>
  BY DEF vars, local
<1> QED BY <1>2, <1>3, <1>4, <1>5, <1>6, <1>7, <1>8, <1>9 DEF Next, Project, Handle

-----------------------------------------------------------------------------
(* With one handler at a time: what it means to be at rest.                *)

\* A row of the server's revision shows what the server holds.
LEMMA SameRevisionShows ==
  ASSUME Serial, Agreement, NEW d \in Devices, NEW e \in Entities, Sole(e),
         applied[d][e] = cloud[e].rev
  PROVE  IF cloud[e].state = "active" THEN row[d][e] = Projected(cloud[e])
         ELSE row[d][e].state # "active"
<1>1. row[d][e] \in Row /\ cloud[e] \in Envelope
  BY DEF Serial, Inductive, TypeOK
<1>2. CASE applied[d][e] = 0
  BY <1>2 DEF Agreement, ProjectedRevision
<1>3. CASE applied[d][e] # 0
  <2> DEFINE b == [entity |-> e, env |-> cloud[e]]
  <2>1. b \in sealed
    BY <1>3 DEF Serial, EveryEnvelopeOpens, Inductive, SealedInvariant
  <2>2. PICK c \in sealed : c.entity = e /\ c.env.rev = applied[d][e]
                            /\ Shows(row[d][e]) = Shows(c.env)
    BY <1>3 DEF Agreement, ProjectedRevision
  <2>3. b = c
    BY <2>1, <2>2 DEF Agreement, RevisionsAgree
  <2>4. Shows(row[d][e]) = Shows(cloud[e])
    BY <2>2, <2>3
  <2>5. Whole(cloud[e])
    BY <2>1 DEF Agreement
  <2>6. row[d][e].state = "active" => row[d][e].val # NoContent
    <3>1. row[d][e].state = "active" => [entity |-> e, env |-> Seal(row[d][e])] \in sealed
      BY DEF Serial, Inductive, RowInvariant, RowsWereSealed
    <3>2. row[d][e].state = "active" => Whole(Seal(row[d][e]))
      BY <3>1 DEF Agreement
    <3> QED BY <3>2 DEF Whole, Seal
  <2>7. row[d][e].state # "absent" => row[d][e].rev = cloud[e].rev
    BY DEF Serial, Inductive, RowInvariant
  <2>8. CASE cloud[e].state = "active"
    <3>1. row[d][e].state = "active" /\ row[d][e].val = cloud[e].val
      BY <2>4, <2>5, <2>8 DEF Shows, Whole
    <3> QED BY <1>1, <2>7, <2>8, <3>1 DEF Row, Projected
  <2>9. CASE cloud[e].state # "active"
    BY <2>4, <2>6, <2>9 DEF Shows
  <2> QED BY <2>8, <2>9
<1> QED BY <1>2, <1>3

LEMMA RestAgrees == ASSUME Serial, Agreement, DownloadInvariant PROVE RestIsAgreement
<1> SUFFICES ASSUME AtRest, NEW e \in Entities, Sole(e), NEW d \in Devices
             PROVE  IF cloud[e].state = "active" THEN row[d][e] = Projected(cloud[e])
                    ELSE row[d][e].state # "active"
  BY DEF RestIsAgreement, Shown
<1>1. enc[d] = cloud /\ Ahead(d) = {}
  BY DEF AtRest
<1>2. applied[d][e] \in Nat /\ cloud[e].rev \in Nat
  BY RevisionTypes DEF Serial, Inductive
<1>3. ~ (applied[d][e] < enc[d][e].rev)
  BY <1>1 DEF Ahead
<1>4. applied[d][e] <= cloud[e].rev
  BY <1>1 DEF DownloadInvariant
<1>5. applied[d][e] = cloud[e].rev
  BY <1>1, <1>2, <1>3, <1>4
<1> QED BY <1>5, SameRevisionShows

-----------------------------------------------------------------------------
(* Theorems for one handler at a time.                                     *)

\* In addition, what a device has still to project came from the server.
THEOREM SerialAgreementHolds ==
  ASSUME OneHandler PROVE Spec => [](Serial /\ Agreement /\ DownloadInvariant)
<1>1. Init => Serial /\ Agreement /\ DownloadInvariant
  <2>1. Init => DownloadInvariant
    <3> SUFFICES ASSUME Init, NEW d \in Devices PROVE DownloadInvariant!(d)
      BY DEF DownloadInvariant
    <3>1. \A e \in Entities : applied[d][e] = 0 /\ enc[d][e].rev = 0
      BY NothingIsEmpty DEF Init
    <3>2. pending[d] = {}
      BY DEF Init
    <3> QED BY <3>1, <3>2
  <2> QED BY <2>1, InitialSerial, InitialAgreement
<1>2. ASSUME Serial, Agreement, DownloadInvariant, [Next]_vars
      PROVE  Serial' /\ Agreement' /\ DownloadInvariant'
  BY <1>2, SerialStep, AgreementStep, DownloadInvariantStep DEF Serial
<1> QED BY <1>1, <1>2, PTL DEF Spec

\* With one handler at a time EncryptedSync implements SyncPromise: an edit
\* is Edit, a commit of the server Accept, the projection of an envelope that
\* is still ahead Show, and every other step a stutter.
THEOREM Refinement == ASSUME OneHandler PROVE Spec => SyncKeepsItsPromise
<1>1. ASSUME Serial, DownloadInvariant, [Next]_vars
      PROVE  [Promise!Next]_(Promise!vars)
  BY <1>1, StepPromised DEF Promise!vars
<1> QED BY <1>1, InitialPromised, SerialAgreementHolds, PTL DEF Spec, SyncKeepsItsPromise, Promise!Spec

\* With one handler at a time nobody comes to rest in a disagreement: when
\* nothing is left to upload, to download or to project, every device shows
\* what the server holds of an entity that one device edits.
THEOREM RestMeansAgreement == ASSUME OneHandler PROVE Spec => []RestIsAgreement
<1>1. Serial /\ Agreement /\ DownloadInvariant => RestIsAgreement
  BY RestAgrees
<1> QED BY <1>1, SerialAgreementHolds, PTL

=============================================================================
