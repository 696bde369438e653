------------------------- MODULE SerialSyncProofs --------------------------
(***************************************************************************)
(* Proofs about EncryptedSync when the server runs one handler at a time:  *)
(* for any set of devices, entities and editors, any number of edits, lost *)
(* answers, restarts and failures, no device forgets an edit before the    *)
(* server has it, neither the server nor the envelopes of a device go      *)
(* back, and whatever is downloaded can be opened.  MCEncryptedSyncRegress *)
(* shows that two handlers are enough for the server to go back.           *)
(*                                                                         *)
(* The invariant ties a handler to the server and to the device that       *)
(* waits: what it has read is still so, what it has written is newer, the  *)
(* rest of its batch is in the queue where it was, and the part of the     *)
(* batch it has been through is on the server or will be.                  *)
(***************************************************************************)
EXTENDS EncryptedSyncProofs

OneHandler == \A s, t \in Slots : s = t

\* The revision that the transaction of s sees.
Stored(s, e) == Found(s, e).rev

WriteFacts(s) ==
    /\ \A e \in Entities : push[s].staged[e].rev # 0 => push[s].staged[e].rev > cloud[e].rev
    /\ push[s].state = "write" => push[s].seen = Found(s, Head(push[s].todo).entity)

\* Changes of its batch that the handler has been through.
Passed(s) == push[s].size - Len(push[s].todo)

BatchFacts(s) ==
    push[s].live =>
       /\ push[s].device \in Devices /\ Passed(s) \in Nat
       /\ push[s].size <= Len(queue[push[s].device])
       /\ \A i \in 1 .. Len(push[s].todo) :
             push[s].todo[i] = queue[push[s].device][Passed(s) + i]
       /\ \A i \in 1 .. Passed(s) :
             queue[push[s].device][i].env.rev <= Stored(s, queue[push[s].device][i].entity)

HandlerInvariant == \A s \in Slots : WriteFacts(s) /\ BatchFacts(s)

\* No row was put together from two envelopes, which could not be opened.
EveryEnvelopeOpens ==
    /\ \A e \in Entities : cloud[e].rev # 0 => Authentic(cloud[e])
    /\ \A d \in Devices, e \in Entities : enc[d][e].rev # 0 => Authentic(enc[d][e])
    /\ \A s \in Slots, e \in Entities :
          push[s].staged[e].rev # 0 => Authentic(push[s].staged[e])
    /\ \A d \in Devices : \A c \in pending[d] : Authentic(c.env)

Serial == /\ Inductive /\ HandlerInvariant /\ NothingUnsentIsForgotten
          /\ EveryEnvelopeOpens

-----------------------------------------------------------------------------
(* Types of the parts.                                                     *)

LEMMA StoredType ==
  ASSUME TypeOK, NEW s \in Slots
  PROVE  \A e \in Entities : /\ Stored(s, e) \in Nat
                             /\ cloud[e].rev \in Nat /\ push[s].staged[e].rev \in Nat
BY DEF TypeOK, Handler, Envelope, Stored, Found

LEMMA QueueType ==
  ASSUME TypeOK, NEW d \in Devices
  PROVE  /\ queue[d] \in Seq(Change) /\ Len(queue[d]) \in Nat
         /\ \A i \in 1 .. Len(queue[d]) :
               queue[d][i].entity \in Entities /\ queue[d][i].env.rev \in Nat
<1>1. queue[d] \in Seq(Change)
  BY DEF TypeOK
<1>2. \A c \in Change : c.entity \in Entities /\ c.env.rev \in Nat
  BY DEF Change, Envelope
<1> QED BY <1>1, <1>2

LEMMA TodoType ==
  ASSUME TypeOK, NEW s \in Slots
  PROVE  push[s].todo \in Seq(Change) /\ Len(push[s].todo) \in Nat /\ push[s].size \in Nat
BY DEF TypeOK, Handler

\* The places of a batch of n changes of which k are left, in a queue of m.
LEMMA Positions ==
  ASSUME NEW n \in Nat, NEW k \in Nat, NEW m \in Nat, NEW p \in Nat, p = n - k, n <= m
  PROVE  /\ \A i \in 1 .. k : p + i \in 1 .. m
         /\ \A i \in 1 .. p : i \in 1 .. m
OBVIOUS

\* The rest of a batch.
LEMMA TailOf ==
  ASSUME NEW S, NEW q \in Seq(S), q # <<>>
  PROVE  /\ Len(q) \in Nat \ {0} /\ Len(Tail(q)) = Len(q) - 1
         /\ Head(q) = q[1] /\ q[1] \in S
         /\ \A i \in 1 .. Len(Tail(q)) : i + 1 \in 1 .. Len(q) /\ Tail(q)[i] = q[i + 1]
<1>1. /\ Len(q) \in Nat \ {0} /\ Len(Tail(q)) = Len(q) - 1 /\ Head(q) = q[1] /\ q[1] \in S
      /\ \A i \in 1 .. Len(Tail(q)) : Tail(q)[i] = q[i + 1]
  OBVIOUS
<1> DEFINE n == Len(q)
<1>2. n \in Nat \ {0} => \A i \in 1 .. n - 1 : i + 1 \in 1 .. n
  OBVIOUS
<1> QED BY <1>1, <1>2

-----------------------------------------------------------------------------
(* One lemma per action.                                                   *)

\* A change is appended: the batch under way is still the front of the queue.
LEMMA WriteSerial ==
  ASSUME Serial, NEW d \in Devices, NEW e \in Entities, NEW new \in Row, new.state # "absent",
         new.rev # 0, Write(d, e, new)
  PROVE  HandlerInvariant' /\ NothingUnsentIsForgotten'
<1> DEFINE c == [entity |-> e, env |-> Seal(new)]
<1>1. /\ UNCHANGED <<cloud, push>>
      /\ enc' = [enc EXCEPT ![d][e] = Seal(new)]
      /\ queue' = [queue EXCEPT ![d] = Append(@, c)]
  BY DEF Write
<1>2. c \in Change
  BY SealedRow DEF Change
<1>3. /\ \A g \in Devices : g # d => queue'[g] = queue[g]
      /\ queue'[d] = Append(queue[d], c) /\ queue[d] \in Seq(Change)
  BY <1>1 DEF Serial, Inductive, TypeOK
<1>4. /\ Len(queue[d]) \in Nat /\ Len(queue'[d]) = Len(queue[d]) + 1
      /\ \A i \in 1 .. Len(queue[d]) : queue'[d][i] = queue[d][i]
      /\ queue'[d][Len(queue[d]) + 1] = c
  BY <1>2, <1>3
<1> HIDE DEF c
<1>5. \A g \in Devices : /\ Len(queue[g]) \in Nat /\ Len(queue'[g]) \in Nat
                         /\ Len(queue[g]) <= Len(queue'[g])
                         /\ \A i \in 1 .. Len(queue[g]) : queue'[g][i] = queue[g][i]
  <2> TAKE g \in Devices
  <2>1. CASE g = d
    BY <1>3, <1>4, <2>1
  <2>2. CASE g # d
    BY <1>3, <2>2, QueueType DEF Serial, Inductive
  <2> QED BY <2>1, <2>2
<1>6. HandlerInvariant'
  <2> SUFFICES ASSUME NEW s \in Slots PROVE WriteFacts(s)' /\ BatchFacts(s)'
    BY DEF HandlerInvariant
  <2>1. WriteFacts(s) /\ BatchFacts(s)
    BY DEF Serial, HandlerInvariant
  <2>2. WriteFacts(s)'
    BY <1>1, <2>1 DEF WriteFacts, Stored, Found
  <2>3. BatchFacts(s)'
    <3> SUFFICES ASSUME push[s].live PROVE BatchFacts(s)'
      BY <1>1 DEF BatchFacts
    <3> DEFINE q == queue[push[s].device]
           n == push[s].size
           k == Len(push[s].todo)
           p == Passed(s)
    <3>1. /\ push[s].device \in Devices /\ Passed(s) \in Nat
          /\ push[s].size <= Len(q) /\ Len(q) \in Nat
          /\ push[s].size \in Nat /\ Len(push[s].todo) \in Nat
          /\ Passed(s) = push[s].size - Len(push[s].todo)
      BY <2>1, <1>5, TodoType DEF BatchFacts, Passed, Serial, Inductive
    <3>2. /\ \A i \in 1 .. Len(push[s].todo) : Passed(s) + i \in 1 .. Len(q)
          /\ \A i \in 1 .. Passed(s) : i \in 1 .. Len(q)
      <4>1. p \in Nat /\ n \in Nat /\ k \in Nat /\ Len(q) \in Nat /\ p = n - k /\ n <= Len(q)
        BY <3>1
      <4> HIDE DEF n, k, p, q
      <4>2. /\ \A i \in 1 .. k : p + i \in 1 .. Len(q)
            /\ \A i \in 1 .. p : i \in 1 .. Len(q)
        BY <4>1, Positions
      <4> QED BY <4>2 DEF n, k, p, q
    <3>3. Passed(s)' = Passed(s) /\ \A f : Stored(s, f)' = Stored(s, f)
      BY <1>1 DEF Passed, Stored, Found
    <3>4. /\ push' = push /\ push[s].size <= Len(q)' /\ Len(q)' \in Nat
          /\ \A i \in 1 .. Len(q) : q'[i] = q[i]
      BY <1>1, <1>5, <3>1
    <3>5. \A i \in 1 .. Len(push[s].todo) : push[s].todo[i] = q'[Passed(s) + i]
      BY <2>1, <3>2, <3>4 DEF BatchFacts
    <3>6. \A i \in 1 .. Passed(s) : q'[i].env.rev <= Stored(s, q'[i].entity)
      BY <2>1, <3>2, <3>4 DEF BatchFacts
    <3> QED BY <3>1, <3>3, <3>4, <3>5, <3>6 DEF BatchFacts
  <2> QED BY <2>2, <2>3
<1>7. NothingUnsentIsForgotten'
  <2> SUFFICES ASSUME NEW g \in Devices, NEW f \in Entities, enc'[g][f].rev > cloud'[f].rev
               PROVE  \E i \in 1 .. Len(queue'[g]) :
                         queue'[g][i] = [entity |-> f, env |-> enc'[g][f]]
    BY DEF NothingUnsentIsForgotten
  <2>1. CASE g = d /\ f = e
    <3>1. enc'[g][f] = Seal(new)
      BY <1>1, <2>1 DEF Serial, Inductive, TypeOK
    <3>2. Len(queue[d]) + 1 \in 1 .. Len(queue'[d])
      BY <1>4
    <3> QED BY <1>4, <2>1, <3>1, <3>2 DEF c
  <2>2. CASE ~ (g = d /\ f = e)
    <3>1. enc'[g][f] = enc[g][f]
      BY <1>1, <2>2 DEF Serial, Inductive, TypeOK
    <3>2. PICK i \in 1 .. Len(queue[g]) : queue[g][i] = [entity |-> f, env |-> enc[g][f]]
      BY <1>1, <3>1 DEF Serial, NothingUnsentIsForgotten
    <3>3. i \in 1 .. Len(queue'[g]) /\ queue'[g][i] = queue[g][i]
      BY <1>5, <3>2
    <3> QED BY <3>1, <3>2, <3>3
  <2> QED BY <2>1, <2>2
<1> QED BY <1>6, <1>7

LEMMA EditSerial ==
  ASSUME Serial, NEW d \in Devices, Edit(d) PROVE HandlerInvariant' /\ NothingUnsentIsForgotten'
<1>1. PICK e \in Entities : \/ Create(d, e)
                            \/ \E state \in {"active", "deleted"} : Update(d, e, state)
                            \/ Delete(d, e)
  BY DEF Edit
<1>2. applied[d][e] \in Nat /\ Inductive
  BY DEF Serial, Inductive, TypeOK
<1>3. \E new \in Row : Write(d, e, new) /\ new.state # "absent" /\ new.rev # 0
  BY <1>1, <1>2, CreatedRow, UpdatedRow, DeletedRow
<1> QED BY <1>3, WriteSerial

\* What leaves envelopes, queues and server alone forgets nothing.
LEMMA QueuesStay ==
  ASSUME NothingUnsentIsForgotten, UNCHANGED <<cloud, enc, queue>>
  PROVE  NothingUnsentIsForgotten'
BY DEF NothingUnsentIsForgotten

\* So does what a handler that keeps its batch knows of it.
LEMMA BatchStays ==
  ASSUME NEW s \in Slots, BatchFacts(s), UNCHANGED <<cloud, queue>>,
         push'[s].todo = push[s].todo, push'[s].staged = push[s].staged,
         push'[s].size = push[s].size, push'[s].device = push[s].device,
         push'[s].live => push[s].live
  PROVE  BatchFacts(s)'
<1> SUFFICES ASSUME push[s].live PROVE BatchFacts(s)'
  BY DEF BatchFacts
<1> DEFINE q == queue[push[s].device]
<1>1. Passed(s)' = Passed(s) /\ queue'[push'[s].device] = q
  BY DEF Passed
<1>2. /\ push[s].device \in Devices /\ Passed(s) \in Nat /\ push[s].size <= Len(q)
      /\ \A i \in 1 .. Len(push[s].todo) : push[s].todo[i] = q[Passed(s) + i]
  BY DEF BatchFacts
<1>3. \A i \in 1 .. Passed(s) : q[i].env.rev <= Stored(s, q[i].entity)
  BY DEF BatchFacts
<1>4. \A f : Stored(s, f)' = Stored(s, f)
  BY DEF Stored, Found
<1> HIDE DEF q
<1>5. \A i \in 1 .. Passed(s) : q[i].env.rev
         <= (IF push'[s].staged[q[i].entity].rev # 0 THEN push'[s].staged[q[i].entity].rev
             ELSE cloud'[q[i].entity].rev)
  BY <1>3 DEF Stored, Found
<1>6. \A i \in 1 .. Passed(s)' : queue'[push'[s].device][i].env.rev
         <= Stored(s, queue[push[s].device][i].entity)'
  BY <1>1, <1>5 DEF Stored, Found, q
<1> QED BY <1>1, <1>2, <1>6 DEF BatchFacts

\* A handler starts with the whole queue before it.
LEMMA StartPushSerial ==
  ASSUME Serial, OneHandler, NEW d \in Devices, NEW s \in Slots, StartPush(d, s)
  PROVE  HandlerInvariant' /\ NothingUnsentIsForgotten'
<1> DEFINE h == [Free EXCEPT !.state = "read", !.device = d, !.live = TRUE,
                             !.todo = queue[d], !.size = Len(queue[d])]
<1>1. push' = [push EXCEPT ![s] = h] /\ UNCHANGED <<cloud, enc, queue>>
  BY DEF StartPush
<1>2. /\ h.todo = queue[d] /\ h.staged = Free.staged /\ h.state = "read" /\ h.device = d
      /\ h.size = Len(queue[d])
  BY DEF Free
<1> HIDE DEF h
<1>3. \A t \in Slots : t = s /\ push'[t] = h
  BY <1>1 DEF OneHandler, Serial, Inductive, TypeOK
<1>4. Len(queue[d]) \in Nat
  BY QueueType DEF Serial, Inductive
<1>5. Passed(s)' = 0
  BY <1>2, <1>3, <1>4 DEF Passed
<1>6. WriteFacts(s)'
  BY <1>2, <1>3, FreeHandler DEF WriteFacts
<1>7. BatchFacts(s)'
  BY <1>1, <1>2, <1>3, <1>4, <1>5 DEF BatchFacts
<1> QED BY <1>1, <1>3, <1>6, <1>7, QueuesStay DEF HandlerInvariant, Serial

\* The handler reads what its transaction sees.
LEMMA ReadEntitySerial ==
  ASSUME Serial, OneHandler, NEW s \in Slots, ReadEntity(s)
  PROVE  HandlerInvariant' /\ NothingUnsentIsForgotten'
<1>1. /\ UNCHANGED <<cloud, enc, queue>>
      /\ push' = [push EXCEPT ![s].state = "write",
                              ![s].seen = Found(s, Head(push[s].todo).entity)]
  BY DEF ReadEntity
<1>2. push[s] \in Handler
  BY DEF Serial, Inductive, TypeOK
<1>3. /\ push'[s].todo = push[s].todo /\ push'[s].staged = push[s].staged
      /\ push'[s].size = push[s].size /\ push'[s].device = push[s].device
      /\ push'[s].live = push[s].live
      /\ push'[s].seen = Found(s, Head(push[s].todo).entity)
  BY <1>1, <1>2 DEF Serial, Inductive, TypeOK, Handler
<1>4. \A t \in Slots : t = s
  BY DEF OneHandler
<1>5. WriteFacts(s) /\ BatchFacts(s)
  BY DEF Serial, HandlerInvariant
<1>7. WriteFacts(s)'
  BY <1>1, <1>3, <1>5 DEF WriteFacts, Stored, Found
<1>8. BatchFacts(s)'
  BY <1>1, <1>3, <1>5, BatchStays
<1> QED BY <1>1, <1>4, <1>7, <1>8, QueuesStay DEF HandlerInvariant, Serial

\* The head of a batch is done: it is on the server, or staged, in this
\* revision or a newer one.
LEMMA DoneSerial ==
  ASSUME Serial, OneHandler, NEW s \in Slots, push[s].todo # <<>>,
         UNCHANGED <<cloud, enc, queue>>,
         push'[s].todo = Tail(push[s].todo), push'[s].size = push[s].size,
         push'[s].device = push[s].device, push'[s].live = push[s].live,
         push'[s].state = "read",
         \A e \in Entities : push'[s].staged[e].rev # 0 => push'[s].staged[e].rev > cloud[e].rev,
         \A e \in Entities : Stored(s, e)' \in Nat /\ Stored(s, e)' >= Stored(s, e),
         \A e \in Entities : e = Head(push[s].todo).entity =>
            Stored(s, e)' >= Head(push[s].todo).env.rev
  PROVE  HandlerInvariant' /\ NothingUnsentIsForgotten'
<1> DEFINE d == push[s].device
           q == queue[d]
           k == Len(push[s].todo)
           p == Passed(s)
<1>1. \A t \in Slots : t = s
  BY DEF OneHandler
<1>2. WriteFacts(s)'
  BY DEF WriteFacts
<1>3. BatchFacts(s)'
  <2> SUFFICES ASSUME push[s].live PROVE BatchFacts(s)'
    BY DEF BatchFacts
  <2>1. /\ d \in Devices /\ p \in Nat /\ push[s].size <= Len(q)
        /\ \A i \in 1 .. k : push[s].todo[i] = q[p + i]
        /\ \A i \in 1 .. p : q[i].env.rev <= Stored(s, q[i].entity)
    BY DEF Serial, HandlerInvariant, BatchFacts
  <2>2. /\ k \in Nat \ {0} /\ push[s].size \in Nat /\ Len(q) \in Nat /\ p = push[s].size - k
        /\ Len(push'[s].todo) = k - 1 /\ Head(push[s].todo) = push[s].todo[1]
        /\ \A i \in 1 .. k - 1 : i + 1 \in 1 .. k /\ push'[s].todo[i] = push[s].todo[i + 1]
    BY <2>1, TodoType, TailOf, QueueType DEF Serial, Inductive, Passed
  <2>3. Passed(s)' = push[s].size - (k - 1)
    BY <2>2 DEF Passed
  <2>4. \A i \in 1 .. Len(q) : q[i].entity \in Entities /\ q[i].env.rev \in Nat
    BY <2>1, QueueType DEF Serial, Inductive
  <2>5. \A i \in 1 .. p + 1 : i \in 1 .. Len(q) /\ (i \in 1 .. p \/ i = p + 1)
    <3> DEFINE n == push[s].size
               m == Len(q)
    <3>1. /\ p \in Nat /\ k \in Nat \ {0} /\ n \in Nat /\ m \in Nat
          /\ p = n - k /\ n <= m
      BY <2>1, <2>2
    <3> HIDE DEF q, k, p, n, m
    <3>2. \A i \in 1 .. p + 1 : i \in 1 .. m /\ (i \in 1 .. p \/ i = p + 1)
      BY <3>1
    <3> QED BY <3>2 DEF m
  <2>6. 1 \in 1 .. k /\ q[p + 1] = Head(push[s].todo)
    <3>1. 1 \in 1 .. k
      BY <2>2
    <3> QED BY <2>1, <2>2, <3>1
  <2>7. Passed(s)' = p + 1 /\ p + 1 \in Nat
    BY <2>1, <2>2, <2>3
  <2>8. \A i \in 1 .. k - 1 : push'[s].todo[i] = q[(p + 1) + i]
    <3> TAKE i \in 1 .. k - 1
    <3>1. i + 1 \in 1 .. k /\ push'[s].todo[i] = push[s].todo[i + 1]
      BY <2>2
    <3>2. push[s].todo[i + 1] = q[p + (i + 1)]
      BY <2>1, <3>1
    <3>3. p + (i + 1) = (p + 1) + i
      <4>1. p \in Nat /\ i \in Nat
        BY <2>1, <2>2
      <4> HIDE DEF p
      <4> QED BY <4>1
    <3> QED BY <3>1, <3>2, <3>3
  <2>9. \A e \in Entities : Stored(s, e) \in Nat
    BY StoredType DEF Serial, Inductive
  <2>10. \A i \in 1 .. p + 1, e \in Entities :
            q[i].entity = e => q[i].env.rev <= Stored(s, e)'
    <3> SUFFICES ASSUME NEW i \in 1 .. p + 1, NEW e \in Entities, q[i].entity = e
                 PROVE  q[i].env.rev <= Stored(s, e)'
      OBVIOUS
    <3>1. q[i].env.rev \in Nat
      BY <2>4, <2>5
    <3>2. Stored(s, e) \in Nat /\ Stored(s, e)' \in Nat /\ Stored(s, e)' >= Stored(s, e)
      BY <2>9
    <3>3. CASE i \in 1 .. p
      <4>1. q[i].env.rev <= Stored(s, e)
        BY <2>1, <3>3
      <4> QED BY <3>1, <3>2, <4>1
    <3>4. CASE i = p + 1
      <4>1. Stored(s, e)' >= q[i].env.rev
        BY <2>6, <3>4
      <4> QED BY <3>1, <3>2, <4>1
    <3> QED BY <2>5, <3>3, <3>4
  <2>11. \A i \in 1 .. p + 1 : q[i].entity \in Entities
    BY <2>4, <2>5
  <2>12. queue'[push'[s].device] = q /\ push'[s].device = d /\ push'[s].size = push[s].size
    OBVIOUS
  <2>13. \A i \in 1 .. Passed(s)' : queue'[push'[s].device][i].env.rev
                                    <= Stored(s, queue[push[s].device][i].entity)'
    <3> TAKE i \in 1 .. Passed(s)'
    <3> DEFINE e == q[i].entity
    <3>1. i \in 1 .. p + 1 /\ e \in Entities
      BY <2>7, <2>11
    <3>2. queue'[push'[s].device][i].entity = e
      OBVIOUS
    <3>3. q[i].env.rev <= (IF push'[s].staged[e].rev # 0 THEN push'[s].staged[e].rev
                           ELSE cloud'[e].rev)
      BY <2>10, <3>1 DEF Stored, Found
    <3> QED BY <3>2, <3>3 DEF Stored, Found
  <2>14. \A i \in 1 .. Len(push'[s].todo) :
            push'[s].todo[i] = queue'[push'[s].device][Passed(s)' + i]
    BY <2>2, <2>7, <2>8, <2>12
  <2> HIDE DEF k, p, q, d
  <2> QED BY <2>1, <2>2, <2>7, <2>12, <2>13, <2>14 DEF BatchFacts, q, d
<1> QED BY <1>1, <1>2, <1>3, QueuesStay DEF HandlerInvariant, Serial

LEMMA DoneFields ==
  ASSUME Inductive, NEW s \in Slots
  PROVE  /\ Done(s).todo = Tail(push[s].todo) /\ Done(s).size = push[s].size
         /\ Done(s).device = push[s].device /\ Done(s).live = push[s].live
         /\ Done(s).state = "read" /\ Done(s).staged = push[s].staged
BY DEF Done, Inductive, TypeOK, Handler

\* The change under hand is one of the batch.
LEMMA HeadChange ==
  ASSUME Inductive, NEW s \in Slots, push[s].state = "write"
  PROVE  /\ push[s].todo # <<>>
         /\ Head(push[s].todo).entity \in Entities /\ Head(push[s].todo).env \in Envelope
         /\ Head(push[s].todo).env.rev \in Nat
<1>1. push[s].todo # <<>> /\ push[s].todo \in Seq(Change)
  BY DEF Inductive, SealedInvariant, TypeOK, Handler
<1>2. Head(push[s].todo) \in Change
  BY <1>1, HeadTailProperties
<1> QED BY <1>1, <1>2, ChangeFields DEF Envelope

\* What the transaction sees is as new as the change: it is passed over.
LEMMA SkipEntitySerial ==
  ASSUME Serial, OneHandler, NEW s \in Slots, SkipEntity(s)
  PROVE  HandlerInvariant' /\ NothingUnsentIsForgotten'
<1> DEFINE c == Head(push[s].todo)
<1>1. /\ push' = [push EXCEPT ![s] = Done(s)] /\ UNCHANGED <<cloud, enc, queue>>
      /\ push[s].state = "write" /\ push[s].seen.rev >= c.env.rev
  BY DEF SkipEntity
<1>2. push'[s] = Done(s)
  BY <1>1 DEF Serial, Inductive, TypeOK
<1>3. push[s].todo # <<>> /\ c.entity \in Entities
  BY <1>1, HeadChange DEF Serial
<1>4. WriteFacts(s)
  BY DEF Serial, HandlerInvariant
<1>5. /\ push'[s].todo = Tail(push[s].todo) /\ push'[s].size = push[s].size
      /\ push'[s].device = push[s].device /\ push'[s].live = push[s].live
      /\ push'[s].state = "read" /\ push'[s].staged = push[s].staged
  BY <1>2, DoneFields DEF Serial
<1>6. \A e \in Entities : push'[s].staged[e].rev # 0 => push'[s].staged[e].rev > cloud[e].rev
  BY <1>4, <1>5 DEF WriteFacts
<1>7. \A e \in Entities : Stored(s, e) \in Nat
  BY StoredType DEF Serial, Inductive
<1>8. \A e \in Entities : Stored(s, e)' = Stored(s, e)
  BY <1>1, <1>5 DEF Stored, Found
<1>9. \A e \in Entities : Stored(s, e)' \in Nat /\ Stored(s, e)' >= Stored(s, e)
  BY <1>7, <1>8
<1>10. \A e \in Entities : e = c.entity => Stored(s, e)' >= c.env.rev
  BY <1>1, <1>4, <1>8 DEF WriteFacts, Stored
<1> HIDE DEF c
<1>11. \A e \in Entities : e = Head(push[s].todo).entity => Stored(s, e)' >= Head(push[s].todo).env.rev
  BY <1>10 DEF c
<1> QED BY <1>1, <1>3, <1>5, <1>6, <1>9, <1>11, DoneSerial

\* What the handler has read is still so: it writes the envelope it was sent.
LEMMA WholeWrites ==
  ASSUME Serial, NEW s \in Slots, WriteEntity(s)
  PROVE  Written(s) = Head(push[s].todo).env
<1>1. push[s].state = "write" /\ push[s].todo # <<>> /\ Inductive
  BY HeadChange DEF WriteEntity, Wants, Serial
<1>2. push[s].seen = Found(s, Head(push[s].todo).entity)
  BY <1>1 DEF Serial, HandlerInvariant, WriteFacts
<1> QED BY <1>1, <1>2, WrittenEnvelope

\* The change is newer than what the transaction sees: it is staged.
LEMMA WriteEntitySerial ==
  ASSUME Serial, OneHandler, NEW s \in Slots, WriteEntity(s)
  PROVE  HandlerInvariant' /\ NothingUnsentIsForgotten'
<1> DEFINE c == Head(push[s].todo)
           h == [Done(s) EXCEPT !.staged[c.entity] = c.env]
<1>0. Written(s) = c.env
  BY WholeWrites
<1>1. /\ push' = [push EXCEPT ![s] = h] /\ UNCHANGED <<cloud, enc, queue>>
      /\ push[s].state = "write" /\ push[s].seen.rev < c.env.rev
  BY <1>0 DEF WriteEntity, Wants
<1>2. /\ push[s].todo # <<>> /\ c.entity \in Entities
      /\ c.env \in Envelope /\ c.env.rev \in Nat
  BY <1>1, HeadChange DEF Serial
<1>3. Done(s) \in Handler
  BY <1>2, DoneHandler DEF Serial
<1> HIDE DEF c
<1>4. /\ h.todo = Done(s).todo /\ h.size = Done(s).size /\ h.device = Done(s).device
      /\ h.live = Done(s).live /\ h.state = Done(s).state
      /\ h.staged = [Done(s).staged EXCEPT ![c.entity] = c.env]
  BY <1>3 DEF Handler
<1>5. push'[s] = h
  BY <1>1 DEF Serial, Inductive, TypeOK
<1> HIDE DEF h
<1>6. /\ push'[s].todo = Tail(push[s].todo) /\ push'[s].size = push[s].size
      /\ push'[s].device = push[s].device /\ push'[s].live = push[s].live
      /\ push'[s].state = "read"
      /\ push'[s].staged = [push[s].staged EXCEPT ![c.entity] = c.env]
  BY <1>4, <1>5, DoneFields DEF Serial
<1>7. push[s].staged \in [Entities -> Envelope]
  BY DEF Serial, Inductive, TypeOK, Handler
<1>8. /\ push'[s].staged[c.entity] = c.env
      /\ \A e \in Entities : e # c.entity => push'[s].staged[e] = push[s].staged[e]
  BY <1>2, <1>6, <1>7
<1>9. /\ WriteFacts(s)
      /\ \A e \in Entities : Stored(s, e) \in Nat /\ cloud[e].rev \in Nat
  BY StoredType DEF Serial, Inductive, HandlerInvariant
<1>10. Stored(s, c.entity) < c.env.rev /\ cloud[c.entity].rev <= Stored(s, c.entity)
  <2>1. push[s].seen.rev = Stored(s, c.entity)
    BY <1>1, <1>9 DEF WriteFacts, Stored, c
  <2>2. push[s].staged[c.entity].rev # 0 => push[s].staged[c.entity].rev > cloud[c.entity].rev
    BY <1>2, <1>9 DEF WriteFacts
  <2> QED BY <1>1, <1>2, <1>9, <2>1, <2>2 DEF Stored, Found
<1>11. \A e \in Entities : e = c.entity => Stored(s, e)' = c.env.rev
  <2>1. c.env.rev # 0
    BY <1>2, <1>9, <1>10
  <2> QED BY <1>8, <2>1 DEF Stored, Found
<1>12. \A e \in Entities : e # c.entity => Stored(s, e)' = Stored(s, e)
  BY <1>1, <1>8 DEF Stored, Found
<1>13. \A e \in Entities : push'[s].staged[e].rev # 0 => push'[s].staged[e].rev > cloud[e].rev
  <2> TAKE e \in Entities
  <2>1. CASE e = c.entity
    <3>1. cloud[c.entity].rev < c.env.rev
      BY <1>2, <1>9, <1>10
    <3> QED BY <1>2, <1>8, <1>9, <2>1, <3>1
  <2>2. CASE e # c.entity
    BY <1>8, <1>9, <2>2 DEF WriteFacts
  <2> QED BY <2>1, <2>2
<1>14. \A e \in Entities : Stored(s, e)' \in Nat /\ Stored(s, e)' >= Stored(s, e)
  <2> TAKE e \in Entities
  <2>1. CASE e = c.entity
    <3>1. Stored(s, e)' = c.env.rev
      BY <1>11, <2>1
    <3> QED BY <1>2, <1>9, <1>10, <2>1, <3>1
  <2>2. CASE e # c.entity
    BY <1>9, <1>12, <2>2
  <2> QED BY <2>1, <2>2
<1>15. \A e \in Entities : e = Head(push[s].todo).entity => Stored(s, e)' >= Head(push[s].todo).env.rev
  <2> SUFFICES ASSUME NEW e \in Entities, e = c.entity PROVE Stored(s, e)' >= c.env.rev
    BY DEF c
  <2>1. Stored(s, e)' = c.env.rev
    BY <1>11
  <2> QED BY <1>2, <2>1
<1> QED BY <1>1, <1>2, <1>6, <1>13, <1>14, <1>15, DoneSerial

\* The server keeps the newest of what it had and what the handler staged.
LEMMA CommitMerges ==
  ASSUME Serial, NEW s \in Slots, Commit(s)
  PROVE  \A e \in Entities : /\ cloud'[e].rev = Stored(s, e)
                             /\ cloud'[e].rev \in Nat /\ cloud[e].rev \in Nat
                             /\ cloud'[e] # cloud[e] => cloud'[e].rev > cloud[e].rev
                             /\ cloud'[e].rev >= cloud[e].rev
<1> TAKE e \in Entities
<1>1. WriteFacts(s) /\ Stored(s, e) \in Nat /\ cloud[e].rev \in Nat /\ push[s].staged[e].rev \in Nat
  BY StoredType DEF Serial, Inductive, HandlerInvariant
<1>2. cloud'[e] = IF push[s].staged[e].rev # 0 THEN push[s].staged[e] ELSE cloud[e]
  BY DEF Commit, Found
<1>3. CASE push[s].staged[e].rev # 0
  BY <1>1, <1>2, <1>3 DEF WriteFacts, Stored, Found
<1>4. CASE push[s].staged[e].rev = 0
  BY <1>1, <1>2, <1>4 DEF Stored, Found
<1> QED BY <1>3, <1>4

\* A free slot knows nothing.
LEMMA FreedSerial ==
  ASSUME OneHandler, NEW s \in Slots, push'[s] = Free
  PROVE  HandlerInvariant'
<1>1. \A t \in Slots : t = s
  BY DEF OneHandler
<1>2. ~ Free.live /\ Free.state = "free" /\ \A e \in Entities : Free.staged[e].rev = 0
  BY FreeHandler DEF Free
<1>3. WriteFacts(s)'
  BY <1>2 DEF WriteFacts
<1>4. BatchFacts(s)'
  BY <1>2 DEF BatchFacts
<1> QED BY <1>1, <1>3, <1>4 DEF HandlerInvariant

LEMMA AbortSerial ==
  ASSUME Serial, OneHandler, NEW s \in Slots, Abort(s)
  PROVE  HandlerInvariant' /\ NothingUnsentIsForgotten'
<1>1. push'[s] = Free /\ UNCHANGED <<cloud, enc, queue>>
  BY DEF Abort, Serial, Inductive, TypeOK
<1> QED BY <1>1, FreedSerial, QueuesStay DEF Serial

\* The part of a queue that outlives a batch of n.
LEMMA Survivor ==
  ASSUME NEW S, NEW q \in Seq(S), NEW n \in Nat, NEW i \in 1 .. Len(q), i > n
  PROVE  \E j \in 1 .. Len(SubSeq(q, n + 1, Len(q))) : SubSeq(q, n + 1, Len(q))[j] = q[i]
<1> DEFINE m == Len(q)
           t == SubSeq(q, n + 1, Len(q))
<1>1. m \in Nat /\ i \in Nat /\ n < m
  <2>1. m \in Nat
    OBVIOUS
  <2> HIDE DEF m
  <2>2. i \in 1 .. m
    BY DEF m
  <2> QED BY <2>1, <2>2
<1>2. Len(t) = m - n /\ \A j \in 1 .. m - n : t[j] = q[n + j]
  <2>1. \A k \in n + 1 .. m : q[k] \in S
    BY <1>1, LenProperties
  <2>2. Len(t) = IF n + 1 <= m THEN m - (n + 1) + 1 ELSE 0
    BY <1>1, <2>1, SubSeqProperties
  <2>3. \A j \in 1 .. m - n : t[j] = q[(n + 1) + j - 1]
    BY <1>1, <2>1, <2>2, SubSeqProperties
  <2> HIDE DEF t, m
  <2>4. Len(t) = m - n
    BY <1>1, <2>2
  <2>5. \A j \in 1 .. m - n : (n + 1) + j - 1 = n + j
    BY <1>1
  <2> QED BY <2>3, <2>4, <2>5
<1>3. i - n \in 1 .. m - n /\ n + (i - n) = i
  <2>1. i <= m
    OBVIOUS
  <2> HIDE DEF m
  <2> QED BY <1>1, <2>1
<1> HIDE DEF t, m
<1>4. t[i - n] = q[i] /\ i - n \in 1 .. Len(t)
  BY <1>2, <1>3
<1> QED BY <1>4 DEF t

\* The batch the client drops is on the server, each change in its revision or
\* a newer one: what is still newer was appended after it was sent.
LEMMA CommitSerial ==
  ASSUME Serial, OneHandler, NEW s \in Slots, Commit(s)
  PROVE  HandlerInvariant' /\ NothingUnsentIsForgotten'
<1>1. push'[s] = Free /\ enc' = enc /\ push[s].todo = <<>>
  BY DEF Commit, Serial, Inductive, TypeOK
<1>2. HandlerInvariant'
  BY <1>1, FreedSerial
<1>3. NothingUnsentIsForgotten'
  <2> SUFFICES ASSUME NEW d \in Devices, NEW e \in Entities, enc[d][e].rev > cloud'[e].rev
               PROVE  \E j \in 1 .. Len(queue'[d]) :
                         queue'[d][j] = [entity |-> e, env |-> enc[d][e]]
    BY <1>1 DEF NothingUnsentIsForgotten
  <2>1. /\ cloud'[e].rev = Stored(s, e) /\ cloud'[e].rev >= cloud[e].rev
        /\ cloud[e].rev \in Nat /\ cloud'[e].rev \in Nat
    BY CommitMerges
  <2>2. enc[d][e].rev \in Nat
    BY DEF Serial, Inductive, TypeOK, Envelope
  <2>3. PICK i \in 1 .. Len(queue[d]) : queue[d][i] = [entity |-> e, env |-> enc[d][e]]
    <3>1. enc[d][e].rev > cloud[e].rev
      BY <2>1, <2>2
    <3> QED BY <3>1 DEF Serial, NothingUnsentIsForgotten
  <2>4. CASE d = push[s].device /\ push[s].live
    <3>1. queue'[d] = SubSeq(queue[d], push[s].size + 1, Len(queue[d]))
      BY <2>4 DEF Commit
    <3>2. /\ queue[d] \in Seq(Change) /\ Len(queue[d]) \in Nat
          /\ push[s].size \in Nat /\ Passed(s) = push[s].size
      BY <1>1, QueueType, TodoType DEF Serial, Inductive, Passed
    <3>3. ~ (i \in 1 .. push[s].size)
      <4> SUFFICES ASSUME i \in 1 .. push[s].size PROVE FALSE
        OBVIOUS
      <4>1. queue[d][i].env.rev <= Stored(s, queue[d][i].entity)
        BY <2>4, <3>2 DEF Serial, HandlerInvariant, BatchFacts
      <4>2. enc[d][e].rev <= Stored(s, e)
        BY <2>3, <4>1
      <4> QED BY <2>1, <2>2, <4>2
    <3>4. i > push[s].size
      BY <3>2, <3>3
    <3>5. \A q \in Seq(Change), n \in Nat : \A k \in 1 .. Len(q) : k > n
             => \E j \in 1 .. Len(SubSeq(q, n + 1, Len(q))) : SubSeq(q, n + 1, Len(q))[j] = q[k]
      BY Survivor
    <3> DEFINE q == queue[d]
               n == push[s].size
    <3>6. q \in Seq(Change) /\ n \in Nat /\ i \in 1 .. Len(q) /\ i > n
      BY <3>2, <3>4
    <3> HIDE DEF q, n
    <3>7. \E j \in 1 .. Len(SubSeq(q, n + 1, Len(q))) : SubSeq(q, n + 1, Len(q))[j] = q[i]
      BY <3>5, <3>6
    <3>8. \E j \in 1 .. Len(queue'[d]) : queue'[d][j] = q[i]
      BY <3>1, <3>7 DEF q, n
    <3> QED BY <2>3, <3>8 DEF q
  <2>5. CASE ~ (d = push[s].device /\ push[s].live)
    <3>1. queue'[d] = queue[d]
      BY <2>5 DEF Commit
    <3> QED BY <2>3, <3>1
  <2> QED BY <2>4, <2>5
<1> QED BY <1>2, <1>3

\* Nobody waits for the handler any more: its batch is no concern of its.
LEMMA UnheardSerial ==
  ASSUME Serial, OneHandler, NEW s \in Slots, UNCHANGED <<cloud, enc, queue>>,
         push'[s].todo = push[s].todo, push'[s].staged = push[s].staged,
         push'[s].size = push[s].size, push'[s].device = push[s].device,
         push'[s].state = push[s].state, push'[s].seen = push[s].seen,
         push'[s].live => push[s].live
  PROVE  HandlerInvariant' /\ NothingUnsentIsForgotten'
<1>1. \A t \in Slots : t = s
  BY DEF OneHandler
<1>2. WriteFacts(s) /\ BatchFacts(s)
  BY DEF Serial, HandlerInvariant
<1>3. WriteFacts(s)'
  BY <1>2 DEF WriteFacts, Stored, Found
<1>4. BatchFacts(s)'
  BY <1>2, BatchStays
<1> QED BY <1>1, <1>3, <1>4, QueuesStay DEF HandlerInvariant, Serial

LEMMA UnheardFields ==
  ASSUME NEW h \in Handler
  PROVE  LET g == [h EXCEPT !.live = FALSE]
         IN  /\ g.todo = h.todo /\ g.staged = h.staged /\ g.size = h.size
             /\ g.device = h.device /\ g.state = h.state /\ g.seen = h.seen /\ g.live = FALSE
BY DEF Handler

LEMMA TimeoutSerial ==
  ASSUME Serial, OneHandler, NEW s \in Slots, Timeout(s)
  PROVE  HandlerInvariant' /\ NothingUnsentIsForgotten'
<1>1. push'[s] = [push[s] EXCEPT !.live = FALSE] /\ UNCHANGED <<cloud, enc, queue>>
  BY DEF Timeout, Serial, Inductive, TypeOK
<1>2. push[s] \in Handler
  BY DEF Serial, Inductive, TypeOK
<1> QED BY <1>1, <1>2, UnheardFields, UnheardSerial

LEMMA RestartSerial ==
  ASSUME Serial, OneHandler, NEW d \in Devices, NEW s \in Slots, Restart(d)
  PROVE  HandlerInvariant' /\ NothingUnsentIsForgotten'
<1>1. /\ UNCHANGED <<cloud, enc, queue>>
      /\ push'[s] = push[s] \/ push'[s] = [push[s] EXCEPT !.live = FALSE]
  BY DEF Restart, local
<1>2. push[s] \in Handler
  BY DEF Serial, Inductive, TypeOK
<1>3. /\ push'[s].todo = push[s].todo /\ push'[s].staged = push[s].staged
      /\ push'[s].size = push[s].size /\ push'[s].device = push[s].device
      /\ push'[s].state = push[s].state /\ push'[s].seen = push[s].seen
      /\ push'[s].live => push[s].live
  BY <1>1, <1>2, UnheardFields
<1> QED BY <1>1, <1>3, UnheardSerial

\* A device that has nothing to send holds nothing newer than the server.
LEMMA DownloadIsForward ==
  ASSUME Serial, NEW d \in Devices, Download(d), NEW e \in Entities
  PROVE  enc'[d] = cloud /\ enc'[d][e].rev >= enc[d][e].rev
<1>1. enc'[d] = cloud /\ Len(queue[d]) = 0
  BY DEF Download, Serial, Inductive, TypeOK
<1>2. enc[d][e].rev \in Nat /\ cloud[e].rev \in Nat
  BY DEF Serial, Inductive, TypeOK, Envelope
<1>3. ~ (enc[d][e].rev > cloud[e].rev)
  <2>1. \A i : i \notin 1 .. Len(queue[d])
    BY <1>1
  <2> QED BY <2>1 DEF Serial, NothingUnsentIsForgotten
<1> QED BY <1>1, <1>2, <1>3

\* What leaves the server, its handlers and the queues alone.
LEMMA HandlersStay ==
  ASSUME HandlerInvariant, UNCHANGED <<cloud, push, queue>>
  PROVE  HandlerInvariant'
<1> SUFFICES ASSUME NEW s \in Slots PROVE WriteFacts(s)' /\ BatchFacts(s)'
  BY DEF HandlerInvariant
<1>1. WriteFacts(s)'
  BY DEF HandlerInvariant, WriteFacts, Stored, Found
<1>2. BatchFacts(s)'
  BY BatchStays DEF HandlerInvariant
<1> QED BY <1>1, <1>2

LEMMA DownloadSerial ==
  ASSUME Serial, NEW d \in Devices, Download(d)
  PROVE  HandlerInvariant' /\ NothingUnsentIsForgotten'
<1>1. UNCHANGED <<cloud, push, queue>> /\ \A g \in Devices : g # d => enc'[g] = enc[g]
  BY DEF Download, Serial, Inductive, TypeOK
<1>2. NothingUnsentIsForgotten'
  <2> SUFFICES ASSUME NEW g \in Devices, NEW e \in Entities, enc'[g][e].rev > cloud[e].rev
               PROVE  \E i \in 1 .. Len(queue[g]) :
                         queue[g][i] = [entity |-> e, env |-> enc'[g][e]]
    BY <1>1 DEF NothingUnsentIsForgotten
  <2>1. g # d
    <3>1. enc'[d] = cloud /\ cloud[e].rev \in Nat
      BY DownloadIsForward DEF Serial, Inductive, TypeOK, Envelope
    <3> QED BY <3>1
  <2> QED BY <1>1, <2>1 DEF Serial, NothingUnsentIsForgotten
<1> QED BY <1>1, <1>2, HandlersStay DEF Serial

-----------------------------------------------------------------------------
(* Whatever is written, committed, downloaded and listed can be opened.    *)

\* Nothing new is written, or a handler forgets what it has written.
LEMMA OpensStay ==
  ASSUME EveryEnvelopeOpens, UNCHANGED <<cloud, enc>>,
         \A s \in Slots : push'[s].staged = push[s].staged \/ push'[s].staged = Free.staged,
         \A d \in Devices : pending'[d] \subseteq pending[d]
  PROVE  EveryEnvelopeOpens'
BY FreeHandler DEF EveryEnvelopeOpens

LEMMA EditOpens == ASSUME Serial, NEW d \in Devices, Edit(d) PROVE EveryEnvelopeOpens'
<1>1. PICK e \in Entities : \/ Create(d, e)
                            \/ \E state \in {"active", "deleted"} : Update(d, e, state)
                            \/ Delete(d, e)
  BY DEF Edit
<1>2. PICK new \in Row : /\ Write(d, e, new)
                         /\ new.state = "active" => new.val \in Contents
  BY <1>1, CreatedRow, UpdatedRow, DeletedRow DEF Serial
<1>3. Authentic(Seal(new))
  BY <1>2, SealedOpens
<1>4. /\ UNCHANGED <<cloud, push, pending>>
      /\ \A g \in Devices, f \in Entities : enc'[g][f] = enc[g][f] \/ enc'[g][f] = Seal(new)
  BY <1>2 DEF Write, Serial, Inductive, TypeOK
<1> QED BY <1>3, <1>4 DEF Serial, EveryEnvelopeOpens

LEMMA WriteEntityOpens ==
  ASSUME Serial, NEW s \in Slots, WriteEntity(s) PROVE EveryEnvelopeOpens'
<1> DEFINE e == Head(push[s].todo).entity
           w == Written(s)
           h == [Done(s) EXCEPT !.staged[e] = w]
<1>1. push[s].todo # <<>> /\ Inductive
  BY HeadChange DEF WriteEntity, Wants, Serial
<1>2. Authentic(w) /\ e \in Entities
  BY <1>1, WholeWrites, WrittenEnvelope DEF Inductive, SealedInvariant
<1>3. push' = [push EXCEPT ![s] = h] /\ UNCHANGED <<cloud, enc, pending>>
  BY DEF WriteEntity
<1>4. Done(s) \in Handler /\ Done(s).staged = push[s].staged
  BY <1>1, DoneHandler
<1> HIDE DEF e, w
<1>5. h.staged = [push[s].staged EXCEPT ![e] = w]
  BY <1>4 DEF Handler
<1> HIDE DEF h
<1>6. /\ push'[s].staged = [push[s].staged EXCEPT ![e] = w]
      /\ \A t \in Slots : t # s => push'[t] = push[t]
  BY <1>3, <1>5 DEF Inductive, TypeOK, Serial
<1>7. push[s].staged \in [Entities -> Envelope]
  BY DEF Inductive, TypeOK, Serial, Handler
<1>8. \A t \in Slots, f \in Entities :
         push'[t].staged[f] = push[t].staged[f] \/ push'[t].staged[f] = w
  BY <1>6, <1>7
<1> QED BY <1>2, <1>3, <1>8 DEF Serial, EveryEnvelopeOpens

LEMMA OpensStep == ASSUME Serial, [Next]_vars PROVE EveryEnvelopeOpens'
<1>1. EveryEnvelopeOpens /\ Inductive
  BY DEF Serial
<1>2. ASSUME NEW d \in Devices, Download(d) PROVE EveryEnvelopeOpens'
  BY <1>1, <1>2 DEF Download, EveryEnvelopeOpens, Inductive, TypeOK
<1>3. ASSUME NEW d \in Devices, ListPending(d) PROVE EveryEnvelopeOpens'
  <2>1. \A c \in Ahead(d) : Authentic(c.env)
    <3> SUFFICES ASSUME NEW e \in Entities, applied[d][e] < enc[d][e].rev
                 PROVE  Authentic(enc[d][e])
      BY DEF Ahead
    <3>1. applied[d][e] \in Nat /\ enc[d][e].rev \in Nat
      BY <1>1 DEF Inductive, TypeOK, Envelope
    <3> QED BY <1>1, <3>1 DEF EveryEnvelopeOpens
  <2>2. \A g \in Devices : pending'[g] \subseteq pending[g] \cup Ahead(d)
    BY <1>1, <1>3 DEF ListPending, Inductive, TypeOK
  <2>3. UNCHANGED <<cloud, push, enc>>
    BY <1>3 DEF ListPending
  <2> QED BY <1>1, <2>1, <2>2, <2>3 DEF EveryEnvelopeOpens
<1>4. ASSUME NEW d \in Devices, NEW c \in pending[d], Materialize(d, c) \/ Reject(d, c)
      PROVE  EveryEnvelopeOpens'
  <2>1. \A g \in Devices : pending'[g] \subseteq pending[g]
    BY <1>1, <1>4 DEF Materialize, Reject, Inductive, TypeOK
  <2> QED BY <1>1, <1>4, <2>1, OpensStay DEF Materialize, Reject
<1>5. ASSUME NEW d \in Devices, Restart(d) PROVE EveryEnvelopeOpens'
  <2>1. \A g \in Devices : pending'[g] \subseteq pending[g]
    BY <1>1, <1>5 DEF Restart, Inductive, TypeOK
  <2>2. \A s \in Slots : push'[s].staged = push[s].staged
    BY <1>1, <1>5, UnheardFields DEF Restart, Inductive, TypeOK
  <2> QED BY <1>1, <1>5, <2>1, <2>2, OpensStay DEF Restart
<1>6. ASSUME NEW d \in Devices, NEW s \in Slots, StartPush(d, s) PROVE EveryEnvelopeOpens'
  <2>1. \A t \in Slots : push'[t].staged = push[t].staged \/ push'[t].staged = Free.staged
    BY <1>1, <1>6 DEF StartPush, Inductive, TypeOK, Free
  <2> QED BY <1>1, <1>6, <2>1, OpensStay DEF StartPush
<1>7. ASSUME NEW s \in Slots, ReadEntity(s) \/ SkipEntity(s) \/ Abort(s) \/ Timeout(s)
      PROVE  EveryEnvelopeOpens'
  <2>1. push'[s].staged = push[s].staged \/ push'[s].staged = Free.staged
    <3>1. push[s] \in Handler
      BY <1>1 DEF Inductive, TypeOK
    <3>2. CASE ReadEntity(s)
      BY <1>1, <3>1, <3>2 DEF ReadEntity, Inductive, TypeOK, Handler
    <3>3. CASE SkipEntity(s)
      BY <1>1, <3>3, DoneFields DEF SkipEntity, Inductive, TypeOK
    <3>4. CASE Abort(s)
      BY <1>1, <3>4 DEF Abort, Inductive, TypeOK
    <3>5. CASE Timeout(s)
      BY <1>1, <3>1, <3>5, UnheardFields DEF Timeout, Inductive, TypeOK
    <3> QED BY <1>7, <3>2, <3>3, <3>4, <3>5
  <2>2. /\ UNCHANGED <<cloud, enc, pending>>
        /\ \A t \in Slots : t # s => push'[t] = push[t]
    BY <1>1, <1>7 DEF ReadEntity, SkipEntity, Abort, Timeout, Inductive, TypeOK
  <2> QED BY <1>1, <2>1, <2>2, OpensStay
<1>8. ASSUME NEW s \in Slots, Commit(s) PROVE EveryEnvelopeOpens'
  <2>1. \A t \in Slots : push'[t].staged = push[t].staged \/ push'[t].staged = Free.staged
    BY <1>1, <1>8 DEF Commit, Inductive, TypeOK
  <2>2. \A e \in Entities : cloud'[e].rev # 0 => Authentic(cloud'[e])
    BY <1>1, <1>8 DEF Commit, Found, EveryEnvelopeOpens
  <2>3. UNCHANGED <<enc, pending>>
    BY <1>8 DEF Commit
  <2> QED BY <1>1, <2>1, <2>2, <2>3, FreeHandler DEF EveryEnvelopeOpens
<1>9. CASE UNCHANGED vars
  BY <1>1, <1>9 DEF vars, EveryEnvelopeOpens
<1> QED BY <1>2, <1>3, <1>4, <1>5, <1>6, <1>7, <1>8, <1>9, EditOpens, WriteEntityOpens
        DEF Next, Project, Handle

-----------------------------------------------------------------------------
(* Theorems.                                                               *)

LEMMA InitialSerial == Init => Serial
<1> SUFFICES ASSUME Init PROVE Serial
  OBVIOUS
<1>1. HandlerInvariant
  <2>1. ~ Free.live /\ Free.state = "free" /\ \A e \in Entities : Free.staged[e].rev = 0
    BY FreeHandler DEF Free
  <2> QED BY <2>1 DEF Init, HandlerInvariant, WriteFacts, BatchFacts
<1>2. NothingUnsentIsForgotten
  <2>1. \A e \in Entities : Nothing[e].rev = 0
    BY NothingIsEmpty
  <2> QED BY <2>1 DEF Init, NothingUnsentIsForgotten
<1>3. EveryEnvelopeOpens
  BY NothingIsEmpty, FreeHandler DEF Init, EveryEnvelopeOpens
<1> QED BY <1>1, <1>2, <1>3, InitialInductive DEF Serial

LEMMA SerialStep == ASSUME OneHandler, Serial, [Next]_vars PROVE Serial'
<1>1. Inductive'
  BY InductiveStep DEF Serial
<1>2. HandlerInvariant' /\ NothingUnsentIsForgotten'
  <2>1. CASE UNCHANGED <<cloud, push, enc, queue>>
    BY <2>1, HandlersStay, QueuesStay DEF Serial
  <2>2. ASSUME NEW d \in Devices, Edit(d) \/ Download(d)
        PROVE  HandlerInvariant' /\ NothingUnsentIsForgotten'
    BY <2>2, EditSerial, DownloadSerial
  <2>3. ASSUME NEW d \in Devices, Project(d)
        PROVE  UNCHANGED <<cloud, push, enc, queue>>
    BY <2>3 DEF Project, ListPending, Materialize, Reject, local
  <2>4. ASSUME NEW d \in Devices, Restart(d)
        PROVE  HandlerInvariant' /\ NothingUnsentIsForgotten'
    <3>1. CASE Slots = {}
      BY <2>4, <3>1, QueuesStay DEF Restart, HandlerInvariant, Serial
    <3>2. CASE Slots # {}
      BY <2>4, <3>2, RestartSerial
    <3> QED BY <3>1, <3>2
  <2>5. ASSUME NEW d \in Devices, NEW s \in Slots, StartPush(d, s)
        PROVE  HandlerInvariant' /\ NothingUnsentIsForgotten'
    BY <2>5, StartPushSerial
  <2>6. ASSUME NEW s \in Slots, Handle(s) \/ Abort(s) \/ Timeout(s)
        PROVE  HandlerInvariant' /\ NothingUnsentIsForgotten'
    <3>1. CASE ReadEntity(s)
      BY <3>1, ReadEntitySerial
    <3>2. CASE SkipEntity(s)
      BY <3>2, SkipEntitySerial
    <3>3. CASE WriteEntity(s)
      BY <3>3, WriteEntitySerial
    <3>4. CASE Commit(s)
      BY <3>4, CommitSerial
    <3>5. CASE Abort(s)
      BY <3>5, AbortSerial
    <3>6. CASE Timeout(s)
      BY <3>6, TimeoutSerial
    <3> QED BY <2>6, <3>1, <3>2, <3>3, <3>4, <3>5, <3>6 DEF Handle
  <2>7. CASE UNCHANGED vars
    BY <2>1, <2>7 DEF vars
  <2> QED BY <2>1, <2>2, <2>3, <2>4, <2>5, <2>6, <2>7 DEF Next
<1> QED BY <1>1, <1>2, OpensStep DEF Serial

\* The invariant the others follow from.
THEOREM SerialHolds == ASSUME OneHandler PROVE Spec => []Serial
<1>1. ASSUME Serial, [Next]_vars PROVE Serial'
  BY <1>1, SerialStep
<1> QED BY <1>1, InitialSerial, PTL DEF Spec

\* With one handler at a time no device drops a change from its queue before
\* the server holds it in that revision or a newer one, whatever is edited
\* while a batch is under way and however often it is sent.
THEOREM NothingForgotten == ASSUME OneHandler PROVE Spec => []NothingUnsentIsForgotten
<1>1. Serial => NothingUnsentIsForgotten
  BY DEF Serial
<1> QED BY <1>1, SerialHolds, PTL

\* With one handler at a time no device meets an envelope that it cannot open:
\* what a handler read is still so when it writes, so that it writes the whole
\* of an envelope, and no pass over what was downloaded ends early.
THEOREM EverythingOpens == ASSUME OneHandler PROVE Spec => []EveryEnvelopeOpens
<1>1. Serial => EveryEnvelopeOpens
  BY DEF Serial
<1> QED BY <1>1, SerialHolds, PTL

\* With one handler at a time the server only moves to newer revisions.
THEOREM CloudMovesForward == ASSUME OneHandler PROVE Spec => CloudNeverGoesBack
<1>1. ASSUME Serial, [Next]_vars
      PROVE  [\A e \in Entities : cloud'[e] # cloud[e] => cloud'[e].rev > cloud[e].rev]_vars
  <2> SUFFICES ASSUME Next
               PROVE  \A e \in Entities : cloud'[e] # cloud[e] => cloud'[e].rev > cloud[e].rev
    BY <1>1
  <2>1. ASSUME NEW s \in Slots, Commit(s)
        PROVE  \A e \in Entities : cloud'[e] # cloud[e] => cloud'[e].rev > cloud[e].rev
    BY <1>1, <2>1, CommitMerges
  <2>2. CASE UNCHANGED cloud
    BY <2>2
  <2>3. ASSUME NEW d \in Devices, Edit(d) \/ Download(d) \/ Project(d) \/ Restart(d)
        PROVE  UNCHANGED cloud
    BY <2>3 DEF Edit, Create, Update, Delete, Write, Download, Project, ListPending, Materialize,
                Reject, Restart
  <2>4. ASSUME NEW d \in Devices, NEW s \in Slots, StartPush(d, s)
        PROVE  UNCHANGED cloud
    BY <2>4 DEF StartPush
  <2>5. ASSUME NEW s \in Slots, Handle(s) \/ Abort(s) \/ Timeout(s), ~ Commit(s)
        PROVE  UNCHANGED cloud
    BY <2>5 DEF Handle, ReadEntity, SkipEntity, WriteEntity, Abort, Timeout
  <2> QED BY <2>1, <2>2, <2>3, <2>4, <2>5 DEF Next
<1> QED BY <1>1, SerialHolds, PTL DEF Spec, CloudNeverGoesBack

\* An edit replaces an envelope by a newer one.
LEMMA EditIsForward ==
  ASSUME Serial, NEW d \in Devices, Edit(d), NEW g \in Devices, NEW e \in Entities
  PROVE  enc'[g][e].rev >= enc[g][e].rev
<1>1. PICK f \in Entities, new \in Row : Write(d, f, new) /\ new.state # "absent" /\ new.rev # 0
  <2>1. PICK f \in Entities : \/ Create(d, f)
                              \/ \E state \in {"active", "deleted"} : Update(d, f, state)
                              \/ Delete(d, f)
    BY DEF Edit
  <2>2. applied[d][f] \in Nat /\ Inductive
    BY DEF Serial, Inductive, TypeOK
  <2> QED BY <2>1, <2>2, CreatedRow, UpdatedRow, DeletedRow
<1>2. /\ new.rev > enc[d][f].rev /\ Seal(new).rev = new.rev
      /\ enc' = [enc EXCEPT ![d][f] = Seal(new)]
  BY <1>1 DEF Write, Seal
<1>3. enc[g][e].rev \in Nat /\ new.rev \in Nat
  BY DEF Serial, Inductive, TypeOK, Envelope, Row
<1>4. CASE g = d /\ e = f
  <2>1. enc'[g][e].rev = new.rev
    BY <1>2, <1>4 DEF Serial, Inductive, TypeOK
  <2> QED BY <1>2, <1>3, <1>4, <2>1
<1>5. CASE ~ (g = d /\ e = f)
  <2>1. enc'[g][e] = enc[g][e]
    BY <1>2, <1>5 DEF Serial, Inductive, TypeOK
  <2> QED BY <1>3, <2>1
<1> QED BY <1>4, <1>5

\* With one handler at a time no device's envelope is ever replaced by an
\* older one: an edit moves it forward, and a download finds the server at
\* least as far as a device that has nothing left to send.
THEOREM EnvelopesMoveForward == ASSUME OneHandler PROVE Spec => EnvelopesNeverGoBack
<1>1. ASSUME Serial, [Next]_vars
      PROVE  [\A d \in Devices, e \in Entities : enc'[d][e].rev >= enc[d][e].rev]_vars
  <2> SUFFICES ASSUME Next, NEW g \in Devices, NEW e \in Entities
               PROVE  enc'[g][e].rev >= enc[g][e].rev
    BY <1>1
  <2>1. enc[g][e].rev \in Nat
    BY <1>1 DEF Serial, Inductive, TypeOK, Envelope
  <2>2. CASE enc'[g] = enc[g]
    BY <2>1, <2>2
  <2>3. ASSUME NEW d \in Devices, Edit(d)
        PROVE  enc'[g][e].rev >= enc[g][e].rev
    BY <1>1, <2>3, EditIsForward
  <2>4. ASSUME NEW d \in Devices, Download(d)
        PROVE  enc'[g][e].rev >= enc[g][e].rev
    <3>1. CASE g = d
      BY <1>1, <2>4, <3>1, DownloadIsForward
    <3>2. CASE g # d
      BY <1>1, <2>2, <2>4, <3>2 DEF Download, Serial, Inductive, TypeOK
    <3> QED BY <3>1, <3>2
  <2> QED BY <2>2, <2>3, <2>4
          DEF Next, Project, Handle, ListPending, Materialize, Reject, Restart, StartPush,
              ReadEntity, SkipEntity, WriteEntity, Commit, Abort, Timeout
<1> QED BY <1>1, SerialHolds, PTL DEF Spec, EnvelopesNeverGoBack

=============================================================================
