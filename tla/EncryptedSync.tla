--------------------------- MODULE EncryptedSync ---------------------------
(***************************************************************************)
(* End-to-end encrypted sync of one account between its devices.           *)
(*                                                                         *)
(*   - A device edits its decrypted projection.  The transaction that      *)
(*     changes a row also seals it (PowerSyncEncryptedLocalMutation-       *)
(*     Committer), so the row, its envelope, the projection state and the  *)
(*     upload queue of PowerSync change together or not at all.            *)
(*   - uploadData posts the whole queue as one batch and drops it once     *)
(*     the server has answered, whatever the answer says of each envelope. *)
(*   - The handler of POST /sync/encrypted reads and writes each envelope  *)
(*     in turn inside one database transaction, committed at the end.  A   *)
(*     read takes no lock; a write keeps the row locked until the commit   *)
(*     and changes the columns that differ from what was read.             *)
(*     A client that stops waiting sends the batch again, while the first  *)
(*     handler may still run.                                              *)
(*   - PowerSync downloads the server's rows into a device whose queue is  *)
(*     empty; materializePendingEnvelopes then decrypts and projects them, *)
(*     from a list it read earlier.                                        *)
(*                                                                         *)
(* The entities are ledger budgets, the one kind whose deletion is sealed  *)
(* as a tombstone and whose creation is guarded by a business rule.  A     *)
(* payload is the edit that made it.  Of keys and ciphers there is only    *)
(* this: what was sealed as deleted cannot be opened as active, nor the    *)
(* other way round.                                                        *)
(***************************************************************************)
EXTENDS Naturals, Sequences

CONSTANTS
    Devices,      \* trusted devices of the account
    NoDevice,     \* the device of no edit
    Entities,     \* budget ids, each drawn by one device
    Editors,      \* the devices that edit each entity
    Identity,     \* month and category of each budget
    Slots,        \* handlers the server runs at once
    MaxEdits,     \* bound: edits on each device
    MaxBreaks,    \* bound: answers given up and apps killed
    MaxFaults     \* bound: pushes that fail on the server

ASSUME SyncAssumption ==
    /\ NoDevice \notin Devices
    /\ Editors \in [Entities -> SUBSET Devices]
    /\ MaxEdits \in Nat /\ MaxBreaks \in Nat /\ MaxFaults \in Nat

VARIABLES
    cloud,     \* encrypted_entities of the server
    push,      \* handlers of POST /sync/encrypted
    enc,       \* encrypted_entities of each device
    row,       \* decrypted projection of each device
    applied,   \* revision in e2ee_projection_state of each device
    queue,     \* upload queue of each device
    pending,   \* envelopes materializePendingEnvelopes has read on each device
    edits,     \* edits each device has made
    breaks,    \* answers given up and apps killed so far
    faults,    \* failed pushes so far
    sealed     \* history: every change ever sealed

local  == <<row, edits, sealed>>
bounds == <<breaks, faults>>
vars   == <<cloud, push, enc, applied, queue, pending, local, bounds>>

Contents  == Devices \X (1 .. MaxEdits)
NoContent == <<NoDevice, 0>>

Envelope == [rev : Nat, val : Contents \cup {NoContent}, state : {"none", "active", "tombstone"}]
Row      == [rev : Nat, val : Contents \cup {NoContent}, state : {"absent", "active", "deleted"}]
Change   == [entity : Entities, env : Envelope]

NoEnvelope == [rev |-> 0, val |-> NoContent, state |-> "none"]
NoRow      == [rev |-> 0, val |-> NoContent, state |-> "absent"]
Nothing    == [e \in Entities |-> NoEnvelope]

\* A handler has read the entity of the head of todo ("write") or is about to
\* ("read"); what it has written is seen by others only once committed.
Handler == [state : {"free", "read", "write"}, device : Devices \cup {NoDevice},
            todo : Seq(Change), size : Nat, seen : Envelope,
            staged : [Entities -> Envelope], live : BOOLEAN]

Free == [state |-> "free", device |-> NoDevice, todo |-> <<>>, size |-> 0,
         seen |-> NoEnvelope, staged |-> Nothing, live |-> FALSE]

TypeOK ==
    /\ cloud \in [Entities -> Envelope]
    /\ push \in [Slots -> Handler]
    /\ enc \in [Devices -> [Entities -> Envelope]]
    /\ row \in [Devices -> [Entities -> Row]]
    /\ applied \in [Devices -> [Entities -> Nat]]
    /\ queue \in [Devices -> Seq(Change)]
    /\ pending \in [Devices -> SUBSET Change]
    /\ edits \in [Devices -> 0 .. MaxEdits]
    /\ breaks \in 0 .. MaxBreaks
    /\ faults \in 0 .. MaxFaults
    /\ sealed \subseteq Change

Init ==
    /\ cloud = Nothing
    /\ push = [s \in Slots |-> Free]
    /\ enc = [d \in Devices |-> Nothing]
    /\ row = [d \in Devices |-> [e \in Entities |-> NoRow]]
    /\ applied = [d \in Devices |-> [e \in Entities |-> 0]]
    /\ queue = [d \in Devices |-> <<>>]
    /\ pending = [d \in Devices |-> {}]
    /\ edits = [d \in Devices |-> 0]
    /\ breaks = 0
    /\ faults = 0
    /\ sealed = {}

-----------------------------------------------------------------------------
(* Edits, each in a local transaction.                                     *)

Seal(r) == [rev   |-> r.rev,
            val   |-> IF r.state = "active" THEN r.val ELSE NoContent,
            state |-> IF r.state = "active" THEN "active" ELSE "tombstone"]

\* Mutant of Write: the revision is not compared with the envelope's.
WriteUnchecked(d, e, new) ==
    /\ row' = [row EXCEPT ![d][e] = new]
    /\ enc' = [enc EXCEPT ![d][e] = Seal(new)]
    /\ applied' = [applied EXCEPT ![d][e] = new.rev]
    /\ queue' = [queue EXCEPT ![d] = Append(@, [entity |-> e, env |-> Seal(new)])]
    /\ sealed' = sealed \cup {[entity |-> e, env |-> Seal(new)]}
    /\ edits' = [edits EXCEPT ![d] = @ + 1]
    /\ UNCHANGED <<cloud, push, pending, bounds>>

\* The committer refuses a row whose revision is not past the envelope, which
\* may be newer than the projection, and the whole transaction rolls back.
Write(d, e, new) ==
    /\ new.rev > enc[d][e].rev
    /\ row' = [row EXCEPT ![d][e] = new]
    /\ enc' = [enc EXCEPT ![d][e] = Seal(new)]
    /\ applied' = [applied EXCEPT ![d][e] = new.rev]
    /\ queue' = [queue EXCEPT ![d] = Append(@, [entity |-> e, env |-> Seal(new)])]
    /\ sealed' = sealed \cup {[entity |-> e, env |-> Seal(new)]}
    /\ edits' = [edits EXCEPT ![d] = @ + 1]
    /\ UNCHANGED <<cloud, push, pending, bounds>>

\* _ensureBudgetIdentityAvailable, among the rows of this device.
Available(d, e) ==
    \A f \in Entities \ {e} : Identity[f] = Identity[e] => row[d][f].state # "active"

NextContent(d) == <<d, edits[d] + 1>>

Create(d, e) ==
    /\ d \in Editors[e] /\ edits[d] < MaxEdits
    /\ \A c \in sealed : c.entity # e
    /\ Available(d, e)
    /\ Write(d, e, [rev |-> 1, val |-> NextContent(d), state |-> "active"])

\* updateLedgerBudget also restores a deleted budget, and may delete one.
Update(d, e, state) ==
    /\ d \in Editors[e] /\ edits[d] < MaxEdits
    /\ row[d][e].state # "absent"
    /\ state = "active" => Available(d, e)
    /\ Write(d, e, [rev |-> row[d][e].rev + 1, val |-> NextContent(d), state |-> state])

Delete(d, e) ==
    /\ d \in Editors[e] /\ edits[d] < MaxEdits
    /\ row[d][e].state = "active"
    /\ Write(d, e, [rev |-> row[d][e].rev + 1, val |-> row[d][e].val, state |-> "deleted"])

-----------------------------------------------------------------------------
(* Upload.                                                                 *)

StartPush(d, s) ==
    /\ queue[d] # <<>>
    /\ \A t \in Slots : push[t].device = d => ~ push[t].live
    /\ push[s].state = "free"
    /\ push' = [push EXCEPT ![s] = [Free EXCEPT !.state = "read", !.device = d, !.live = TRUE,
                                                !.todo = queue[d], !.size = Len(queue[d])]]
    /\ UNCHANGED <<cloud, enc, applied, queue, pending, local, bounds>>

\* What the transaction itself wrote, or the last committed row.
Found(s, e) == IF push[s].staged[e].rev # 0 THEN push[s].staged[e] ELSE cloud[e]

\* _find_encrypted_entity.
ReadEntity(s) ==
    /\ push[s].state = "read"
    /\ push[s].todo # <<>>
    /\ push' = [push EXCEPT ![s].state = "write",
                            ![s].seen = Found(s, Head(push[s].todo).entity)]
    /\ UNCHANGED <<cloud, enc, applied, queue, pending, local, bounds>>

Done(s) == [push[s] EXCEPT !.state = "read", !.todo = Tail(@), !.seen = NoEnvelope]

SkipEntity(s) ==
    /\ push[s].state = "write"
    /\ push[s].seen.rev >= Head(push[s].todo).env.rev
    /\ push' = [push EXCEPT ![s] = Done(s)]
    /\ UNCHANGED <<cloud, enc, applied, queue, pending, local, bounds>>

\* Mutant of Wants: revisions are not compared.
WantsAny(s) == push[s].state = "write"

Wants(s) ==
    /\ push[s].state = "write"
    /\ push[s].seen.rev < Head(push[s].todo).env.rev

\* The transaction of t has written the row that s is about to write.
Waits(s, t) ==
    s # t /\ Wants(s) /\ push[t].staged[Head(push[s].todo).entity].rev # 0

\* The row was inserted by another transaction since s found none.
Conflicts(s) ==
    LET e == Head(push[s].todo).entity
    IN  Wants(s) /\ push[s].seen.rev = 0 /\ cloud[e].rev # 0

\* SQLAlchemy writes the columns that differ from the row it has read: nonce,
\* ciphertext and revision do, and the lifecycle status may.
Written(s) ==
    LET c == Head(push[s].todo)
    IN  [c.env EXCEPT !.state = IF @ = push[s].seen.state THEN Found(s, c.entity).state ELSE @]

WriteEntity(s) ==
    /\ Wants(s)
    /\ \A t \in Slots : ~ Waits(s, t)
    /\ ~ Conflicts(s)
    /\ LET e == Head(push[s].todo).entity
       IN  push' = [push EXCEPT ![s] = [Done(s) EXCEPT !.staged[e] = Written(s)]]
    /\ UNCHANGED <<cloud, enc, applied, queue, pending, local, bounds>>

\* Mutant of Commit: the client drops its queue, not the batch it sent.
CommitAndClear(s) ==
    /\ push[s].state = "read"
    /\ push[s].todo = <<>>
    /\ cloud' = [e \in Entities |-> Found(s, e)]
    /\ queue' = [d \in Devices |-> IF d = push[s].device /\ push[s].live THEN <<>>
                                   ELSE queue[d]]
    /\ push' = [push EXCEPT ![s] = Free]
    /\ UNCHANGED <<enc, applied, pending, local, bounds>>

\* The commit of the handler and, if the client still waits, batch.complete().
Commit(s) ==
    /\ push[s].state = "read"
    /\ push[s].todo = <<>>
    /\ cloud' = [e \in Entities |-> Found(s, e)]
    /\ queue' = [d \in Devices |-> IF d = push[s].device /\ push[s].live
                                   THEN SubSeq(queue[d], push[s].size + 1, Len(queue[d]))
                                   ELSE queue[d]]
    /\ push' = [push EXCEPT ![s] = Free]
    /\ UNCHANGED <<enc, applied, pending, local, bounds>>

\* The transaction rolls back, the client gets an error and keeps its queue:
\* a duplicate key, a deadlock the database breaks, or any other failure.
Abort(s) ==
    /\ push[s].state # "free"
    /\ IF (Conflicts(s) /\ \A t \in Slots : ~ Waits(s, t))
          \/ \E S \in SUBSET Slots :
                s \in S /\ \A t \in S : \E u, v \in S : Waits(t, u) /\ Waits(v, t)
       THEN UNCHANGED faults
       ELSE faults < MaxFaults /\ faults' = faults + 1
    /\ push' = [push EXCEPT ![s] = Free]
    /\ UNCHANGED <<cloud, enc, applied, queue, pending, local, breaks>>

\* receiveTimeout: the client will send its queue again.
Timeout(s) ==
    /\ push[s].live
    /\ breaks < MaxBreaks
    /\ breaks' = breaks + 1
    /\ push' = [push EXCEPT ![s].live = FALSE]
    /\ UNCHANGED <<cloud, enc, applied, queue, pending, local, faults>>

-----------------------------------------------------------------------------
(* Download.                                                               *)

\* PowerSync applies the rows of the server when nothing waits for upload.
Download(d) ==
    /\ queue[d] = <<>>
    /\ enc[d] # cloud
    /\ enc' = [enc EXCEPT ![d] = cloud]
    /\ UNCHANGED <<cloud, push, applied, queue, pending, local, bounds>>

\* Mutant of Ahead: an envelope one revision ahead is not listed.
AheadByTwo(d) == {[entity |-> e, env |-> enc[d][e]] :
                     e \in {f \in Entities : applied[d][f] + 1 < enc[d][f].rev}}

\* materializePendingEnvelopes lists the envelopes ahead of the projection.
Ahead(d) == {[entity |-> e, env |-> enc[d][e]] :
                e \in {f \in Entities : applied[d][f] < enc[d][f].rev}}

ListPending(d) ==
    /\ ~ (Ahead(d) \subseteq pending[d])
    /\ pending' = [pending EXCEPT ![d] = @ \cup Ahead(d)]
    /\ UNCHANGED <<cloud, push, enc, applied, queue, local, bounds>>

\* Mutant of Projected: a deleted entity keeps a row with the state of its
\* envelope.
ProjectedAsIs(env) == [rev |-> env.rev, val |-> env.val, state |-> env.state]

Projected(env) ==
    IF env.state = "active" THEN [rev |-> env.rev, val |-> env.val, state |-> "active"]
    ELSE NoRow

\* Mutant of Authentic: the lifecycle status is no part of what is authenticated.
AuthenticAlways(env) == TRUE

\* decryptEntity: the cipher covers the status along with the content.
Authentic(env) == env.state = (IF env.val = NoContent THEN "tombstone" ELSE "active")

\* Mutant of Materialize: what was listed is projected without the check.
MaterializeListed(d, c) ==
    /\ Authentic(c.env)
    /\ pending' = [pending EXCEPT ![d] = @ \ {c}]
    /\ row' = [row EXCEPT ![d][c.entity] = Projected(c.env)]
    /\ applied' = [applied EXCEPT ![d][c.entity] = c.env.rev]
    /\ UNCHANGED <<cloud, push, enc, queue, edits, sealed, bounds>>

\* materializeWithTransaction: an envelope that a later edit or another pass
\* has overtaken is skipped.
Materialize(d, c) ==
    /\ Authentic(c.env)
    /\ pending' = [pending EXCEPT ![d] = @ \ {c}]
    /\ IF applied[d][c.entity] < c.env.rev
       THEN /\ row' = [row EXCEPT ![d][c.entity] = Projected(c.env)]
            /\ applied' = [applied EXCEPT ![d][c.entity] = c.env.rev]
       ELSE UNCHANGED <<row, applied>>
    /\ UNCHANGED <<cloud, push, enc, queue, edits, sealed, bounds>>

\* An envelope that does not decrypt ends the pass, and with it what the pass
\* had still to project.
Reject(d, c) ==
    /\ ~ Authentic(c.env)
    /\ \E rest \in SUBSET (pending[d] \ {c}) : pending' = [pending EXCEPT ![d] = rest]
    /\ UNCHANGED <<cloud, push, enc, applied, queue, local, bounds>>

\* The app is killed and starts again: the database is kept, the list of
\* envelopes and the wait for an answer are not.
Restart(d) ==
    /\ breaks < MaxBreaks
    /\ breaks' = breaks + 1
    /\ pending' = [pending EXCEPT ![d] = {}]
    /\ push' = [s \in Slots |-> IF push[s].device = d THEN [push[s] EXCEPT !.live = FALSE]
                                ELSE push[s]]
    /\ UNCHANGED <<cloud, enc, applied, queue, local, faults>>

-----------------------------------------------------------------------------

Edit(d) ==
    \E e \in Entities :
       \/ Create(d, e)
       \/ \E state \in {"active", "deleted"} : Update(d, e, state)
       \/ Delete(d, e)

Handle(s) == ReadEntity(s) \/ SkipEntity(s) \/ WriteEntity(s) \/ Commit(s)

Project(d) == ListPending(d) \/ \E c \in pending[d] : Materialize(d, c) \/ Reject(d, c)

Next ==
    \/ \E d \in Devices : Edit(d) \/ Download(d) \/ Project(d) \/ Restart(d)
    \/ \E d \in Devices, s \in Slots : StartPush(d, s)
    \/ \E s \in Slots : Handle(s) \/ Abort(s) \/ Timeout(s)

Spec == Init /\ [][Next]_vars

\* A connected device keeps uploading, downloading and projecting, and the
\* server works on what it was sent.  Nobody has to edit, and no failure has
\* to happen, except that a deadlock is broken and a duplicate key refused.
Fairness ==
    /\ \A d \in Devices : /\ WF_vars(\E s \in Slots : StartPush(d, s))
                          /\ WF_vars(Download(d))
                          /\ WF_vars(ListPending(d))
                          /\ WF_vars(\E c \in pending[d] : Materialize(d, c) \/ Reject(d, c))
    /\ \A s \in Slots : WF_vars(Handle(s) \/ Abort(s))

FairSpec == Spec /\ Fairness

-----------------------------------------------------------------------------
(* Properties.                                                             *)

\* A device never projects an older revision over a newer one, although what
\* it lists for decryption may be overtaken by its own edits and by other
\* downloads: local_decrypted_projection.dart.
ProjectionNeverGoesBack ==
    [][\A d \in Devices, e \in Entities : applied'[d][e] >= applied[d][e]]_vars

\* What a device shows is, revision and content, what some device sealed in the
\* transaction that made it, and what it shows no longer was deleted under that
\* revision, although racing handlers may put a row of the server together from
\* two envelopes: encrypted_sync_store.dart.
RowsWereSealed ==
    \A d \in Devices, e \in Entities :
       /\ row[d][e].state = "active" => [entity |-> e, env |-> Seal(row[d][e])] \in sealed
       /\ row[d][e].state # "active" /\ applied[d][e] # 0 =>
             \E c \in sealed : /\ c.entity = e /\ c.env.rev = applied[d][e]
                               /\ c.env.state = "tombstone"

\* What makes them inductive: an envelope that decrypts was sealed, wherever it
\* is, and a row has the revision of the projection state, which is 0 before
\* the entity exists.
SealedInvariant ==
    /\ \A c \in sealed : Authentic(c.env)
    /\ \A e \in Entities : Authentic(cloud[e]) => [entity |-> e, env |-> cloud[e]] \in sealed
    /\ \A d \in Devices, e \in Entities :
          Authentic(enc[d][e]) => [entity |-> e, env |-> enc[d][e]] \in sealed
    /\ \A d \in Devices : \A c \in pending[d] : Authentic(c.env) => c \in sealed
    /\ \A d \in Devices : queue[d] \in Seq(sealed)
    /\ \A s \in Slots : push[s].todo \in Seq(sealed)
    /\ \A s \in Slots : push[s].state = "write" => push[s].todo # <<>>
    /\ \A s \in Slots, e \in Entities : Authentic(push[s].staged[e])
          => [entity |-> e, env |-> push[s].staged[e]] \in sealed

RowInvariant ==
    /\ RowsWereSealed
    /\ \A d \in Devices, e \in Entities :
          /\ row[d][e].state # "absent" => row[d][e].rev = applied[d][e]
          /\ applied[d][e] # 0 => \E c \in sealed : c.entity = e

Inductive == TypeOK /\ SealedInvariant /\ RowInvariant

\* The server never replaces a revision by one that is not newer, as
\* _apply_envelope means to.
CloudNeverGoesBack ==
    [][\A e \in Entities : cloud'[e] # cloud[e] => cloud'[e].rev > cloud[e].rev]_vars

\* A local edit never puts the envelope of an entity back behind one that was
\* downloaded and not projected yet.
EnvelopesNeverGoBack ==
    [][\A d \in Devices, e \in Entities : enc'[d][e].rev >= enc[d][e].rev]_vars

\* What a device has sealed is in its queue until the server holds that
\* revision or a newer one: edits made while a batch is under way, retries and
\* killed apps lose none.
NothingUnsentIsForgotten ==
    \A d \in Devices, e \in Entities :
       enc[d][e].rev > cloud[e].rev =>
          \E i \in 1 .. Len(queue[d]) : queue[d][i] = [entity |-> e, env |-> enc[d][e]]

\* Every device shows what the server holds of an entity.
Shown(e) ==
    \A d \in Devices :
       IF cloud[e].state = "active" THEN row[d][e] = Projected(cloud[e])
       ELSE row[d][e].state # "active"

Converged == \A e \in Entities : Shown(e)

\* One device at most edits the entity.
Sole(e) == \A d, g \in Editors[e] : d = g

\* Once editing ends, every device shows what the server holds of an entity
\* that was edited on one device, whatever becomes of the others
\* (sync-and-offline.md: the cloud and the clients agree in the end).
SingleEditorConverges ==
    \A e \in Entities : Sole(e) => <>[]Shown(e)

\* No handler runs, and no device has anything to upload, to download, to list
\* or to project.
AtRest ==
    /\ \A s \in Slots : push[s].state = "free"
    /\ \A d \in Devices : /\ queue[d] = <<>> /\ enc[d] = cloud
                          /\ Ahead(d) \subseteq pending[d] /\ pending[d] = {}

\* Nobody comes to rest in a disagreement.
RestIsAgreement == AtRest => \A e \in Entities : Sole(e) => Shown(e)

\* What a row shows, or an envelope: its content, unless it is deleted.
Shows(r) == IF r.state = "active" THEN r.val ELSE NoContent

\* Of an entity that one device edits, a revision is the same wherever it is.
RevisionsAgree ==
    \A b, c \in sealed : Sole(b.entity) /\ b.entity = c.entity /\ b.env.rev = c.env.rev => b = c

\* What SyncPromise sees: revisions and what they show.
VersionOf(n, r) == [rev |-> n, shows |-> Shows(r)]

AllVersions == {[entity |-> c.entity, version |-> VersionOf(c.env.rev, c.env)] : c \in sealed}

ServerVersions == [e \in Entities |-> VersionOf(cloud[e].rev, cloud[e])]

DeviceVersions ==
    [d \in Devices |-> [e \in Entities |-> VersionOf(applied[d][e], row[d][e])]]

\* With one handler at a time the sync implements SyncPromise.
Promise == INSTANCE SyncPromise WITH
    Gone <- NoContent, history <- AllVersions, server <- ServerVersions,
    device <- DeviceVersions

SyncKeepsItsPromise == Promise!Spec

\* The same of every entity, however many devices edit it.
EventuallyConverged == <>[]Converged

=============================================================================
