------------------------ MODULE DesktopBridgeProofs ------------------------
(***************************************************************************)
(* Proofs about DesktopBridge, for any number of calls, hosts, failures    *)
(* and calls at once: at most one host works on the database, no call      *)
(* waits on a host that is gone, and what the callers see is the service   *)
(* of LocalCoreService.                                                    *)
(*                                                                         *)
(* The invariant says where a call can be: not yet read by a host, and     *)
(* then nothing of it exists; in the hands of the one host that runs; or   *)
(* on its way back, and then what the line says is so.                     *)
(***************************************************************************)
EXTENDS DesktopBridge, TLAPS

Elems(s) == {s[i] : i \in 1 .. Len(s)}

\* No call is in s twice.
Once(s) == \A i, j \in 1 .. Len(s) : s[i] = s[j] /\ s[i] # 0 => i = j

\* No host has begun with r.
Untouched(r) ==
    /\ r \notin done /\ r \notin left /\ r \notin rows /\ r \notin tokens
    /\ turn[r] = "none"
    /\ \A h \in Hosts : work[h].req # r /\ \A l \in Elems(outbox[h]) : l.req # r

OpInvariant ==
    /\ \A r \in Requests : op[r].kind = "commit" =>
          op[r].of \in Requests /\ op[op[r].of].kind = "parse"
    /\ \A r \in Requests : op[r].kind = "undo" =>
          op[r].of \in Requests /\ op[op[r].of].kind = "commit"
    /\ \A r \in Requests : op[r] = NoOp =>
          /\ Untouched(r)
          /\ answer[r] = "none"
          /\ r \notin pending
          /\ \A h \in Hosts : r \notin Elems(inbox[h])

HostInvariant ==
    /\ \A h \in Hosts : proc[h] = "running" => child = h
    /\ \A h \in Hosts : proc[h] # "running" => work[h] = Idle /\ inbox[h] = <<>>
    /\ PendingIsAtTheChild
    /\ \A r \in pending : answer[r] = "none"

InboxInvariant ==
    \A h \in Hosts :
       /\ Once(inbox[h])
       /\ \A r \in Elems(inbox[h]) : r # 0 => Untouched(r)

LineInvariant ==
    \A h \in Hosts : \A l \in Elems(outbox[h]) : l.req # 0 =>
       /\ l.result = "done" => l.req \in done /\ l.req \notin left
       /\ l.result = "part" => l.req \in done
       /\ l.result = "nothing" => l.req \notin done
       /\ \A g \in Hosts : work[g].req # l.req

\* What a host that is at work on w knows.
WorkFacts(w) ==
    /\ w.phase = "idle" <=> w.req = 0
    /\ w.phase \in {"begun", "made"} =>
          /\ op[w.req].kind \in {"commit", "undo"}
          /\ w.req \notin done /\ w.req \notin tokens
          /\ op[w.req].kind = "commit" => turn[op[w.req].of] \in {"parsed", "failed"}
          /\ op[w.req].kind = "undo" => op[w.req].of \in tokens
    /\ w.phase = "begun" => w.req \notin rows /\ w.req \notin left
    /\ w.phase = "made" =>
          /\ w.result \in {"done", "part"}
          /\ w.result = "done" => w.req \notin left
          /\ op[w.req].kind = "commit" => w.req \in rows
          /\ op[w.req].kind = "undo" => op[w.req].of \notin rows
    /\ w.phase = "answer" =>
          /\ w.result = "done" => w.req \in done /\ w.req \notin left
          /\ w.result = "part" => w.req \in done
          /\ w.result = "nothing" => w.req \notin done

WorkInvariant == \A h \in Hosts : WorkFacts(work[h])

StoreInvariant ==
    /\ \A p \in Requests : turn[p] # "none" => op[p].kind = "parse"
    /\ \A c \in rows \cup tokens : op[c].kind = "commit"
    /\ \A c \in tokens : turn[op[c].of] # "none"
    /\ \A p \in torn : p \in Requests /\ turn[p] # "none"

\* A token of a capture that is whole is the token of its commit.
TokenInvariant ==
    /\ \A c \in tokens : op[c].of \notin torn =>
          turn[op[c].of] = "committed" /\ (c \in rows \/ c \in Unmaking)
    /\ \A c, d \in tokens : op[c].of = op[d].of /\ op[c].of \notin torn => c = d

Inductive ==
    /\ TypeOK
    /\ OpInvariant /\ HostInvariant /\ InboxInvariant /\ LineInvariant
    /\ WorkInvariant /\ StoreInvariant /\ TokenInvariant

-----------------------------------------------------------------------------
(* Queues.                                                                 *)

LEMMA EmptyFacts == Elems(<<>>) = {} /\ Once(<<>>)
BY DEF Elems, Once

LEMMA ElemsOf == ASSUME NEW S, NEW s \in Seq(S) PROVE Elems(s) \subseteq S
BY DEF Elems

LEMMA AppendFacts ==
  ASSUME NEW S, NEW s \in Seq(S), NEW e \in S
  PROVE  /\ Append(s, e) \in Seq(S)
         /\ Elems(Append(s, e)) = Elems(s) \cup {e}
         /\ Once(s) /\ e \notin Elems(s) => Once(Append(s, e))
<1> DEFINE t == Append(s, e)
<1>1. /\ t \in Seq(S) /\ Len(s) \in Nat /\ Len(t) = Len(s) + 1 /\ t[Len(s) + 1] = e
      /\ \A i \in 1 .. Len(s) : t[i] = s[i]
  OBVIOUS
<1>2. 1 .. Len(t) = (1 .. Len(s)) \cup {Len(s) + 1}
  BY <1>1
<1> HIDE DEF t
<1>3. Elems(t) = Elems(s) \cup {e}
  BY <1>1, <1>2 DEF Elems
<1>4. ASSUME Once(s), e \notin Elems(s), NEW i \in 1 .. Len(t), NEW j \in 1 .. Len(t),
             t[i] = t[j], t[i] # 0
      PROVE  i = j
  <2>1. \A k \in 1 .. Len(s) : s[k] # e
    BY <1>4 DEF Elems
  <2>2. CASE i \in 1 .. Len(s) /\ j \in 1 .. Len(s)
    BY <1>1, <1>4, <2>2 DEF Once
  <2> QED BY <1>1, <1>2, <1>4, <2>1, <2>2
<1>5. Once(s) /\ e \notin Elems(s) => Once(t)
  BY <1>4 DEF Once
<1> QED BY <1>1, <1>3, <1>5 DEF t

LEMMA TailFacts ==
  ASSUME NEW S, NEW s \in Seq(S), s # <<>>
  PROVE  /\ Head(s) \in S /\ Tail(s) \in Seq(S)
         /\ Head(s) \in Elems(s)
         /\ Elems(Tail(s)) \subseteq Elems(s)
         /\ Once(s) => Once(Tail(s))
         /\ Once(s) /\ Head(s) # 0 => Head(s) \notin Elems(Tail(s))
<1> DEFINE t == Tail(s)
<1>1. /\ t \in Seq(S) /\ Len(s) \in Nat /\ Len(s) > 0 /\ Len(t) = Len(s) - 1
      /\ \A i \in 1 .. Len(t) : t[i] = s[i + 1]
      /\ Head(s) = s[1] /\ s[1] \in S
  OBVIOUS
<1> HIDE DEF t
<1>2. 1 \in 1 .. Len(s) /\ \A i \in 1 .. Len(t) : i + 1 \in 1 .. Len(s) /\ i + 1 # 1
  BY <1>1
<1>3. Head(s) \in Elems(s) /\ Elems(t) \subseteq Elems(s)
  BY <1>1, <1>2 DEF Elems
<1>4. Once(s) => Once(t)
  <2>1. ASSUME Once(s), NEW i \in 1 .. Len(t), NEW j \in 1 .. Len(t), t[i] = t[j], t[i] # 0
        PROVE  i = j
    <3>1. i + 1 = j + 1
      BY <1>1, <1>2, <2>1 DEF Once
    <3> QED BY <3>1, <1>1
  <2> QED BY <2>1 DEF Once
<1>5. Once(s) /\ Head(s) # 0 => Head(s) \notin Elems(t)
  BY <1>1, <1>2 DEF Once, Elems
<1> QED BY <1>1, <1>3, <1>4, <1>5 DEF t

\* A host that is spawned has its runtime keys and one call to read.
LEMMA FirstLines ==
  ASSUME NEW r \in Requests
  PROVE  /\ <<0, r>> \in Seq(Requests \cup {0})
         /\ Elems(<<0, r>>) = {0, r} /\ Once(<<0, r>>)
<1> DEFINE s == <<0, r>>
<1>1. /\ s \in Seq(Requests \cup {0}) /\ Len(s) = 2 /\ s[1] = 0 /\ s[2] = r
      /\ 1 .. Len(s) = {1, 2} /\ r # 0
  BY DEF Requests
<1> HIDE DEF s
<1>2. Elems(s) = {0, r} /\ Once(s)
  BY <1>1 DEF Elems, Once
<1> QED BY <1>1, <1>2 DEF s

-----------------------------------------------------------------------------
(* Types.                                                                  *)

LEMMA Numbers ==
  /\ 0 \notin Requests /\ 0 \notin Hosts /\ Mixed \notin Hosts
  /\ Hosts \subseteq 0 .. Mixed /\ 0 \in 0 .. Mixed /\ Mixed \in 0 .. Mixed
BY BridgeAssumption DEF BridgeAssumption, Requests, Hosts, Mixed

LEMMA FaultType == TypeOK /\ Fault => faults' \in 0 .. MaxFaults
BY BridgeAssumption DEF BridgeAssumption, TypeOK, Fault

LEMMA WorkTypes ==
  /\ Idle \in Work
  /\ \A r \in Requests, p \in {"begun", "made", "answer"}, x \in Result :
        [req |-> r, phase |-> p, result |-> x] \in Work
BY DEF Idle, Work, Result

\* What a busy host works on is a request.
LEMMA BusyRequest ==
  ASSUME TypeOK, WorkInvariant, NEW h \in Hosts, work[h].phase # "idle"
  PROVE  work[h].req \in Requests
BY DEF TypeOK, WorkInvariant, WorkFacts, Work

\* A killed host can only tear a capture.
LEMMA InterruptedType ==
  ASSUME TypeOK, OpInvariant, WorkInvariant, NEW h \in Hosts
  PROVE  Interrupted(h) \subseteq Requests
<1>1. CASE work[h].phase # "made"
  BY <1>1 DEF Interrupted
<1>2. CASE work[h].phase = "made"
  <2> DEFINE r == work[h].req
  <2>1. r \in Requests /\ op[r].kind \in {"commit", "undo"}
    BY <1>2, BusyRequest DEF WorkInvariant, WorkFacts
  <2>2. op[r].kind = "undo" => op[r].of \in Requests /\ op[op[r].of].of \in Requests
    BY <2>1 DEF OpInvariant
  <2>3. op[r].kind = "commit" => op[r].of \in Requests
    BY <2>1 DEF OpInvariant
  <2> QED BY <1>2, <2>1, <2>2, <2>3 DEF Interrupted, CaptureOf
<1> QED BY <1>1, <1>2

LEMMA DiesType ==
  ASSUME TypeOK, OpInvariant, WorkInvariant, NEW h \in Hosts, Dies(h)
  PROVE  /\ torn' \subseteq Requests \cup {0}
         /\ inbox' \in [Hosts -> Seq(Requests \cup {0})]
         /\ work' \in [Hosts -> Work]
<1>1. Interrupted(h) \subseteq Requests
  BY InterruptedType
<1>2. torn' \subseteq Requests \cup {0} /\ work' \in [Hosts -> Work]
  BY <1>1, WorkTypes DEF Dies, TypeOK
<1>3. <<>> \in Seq(Requests \cup {0})
  OBVIOUS
<1> QED BY <1>2, <1>3 DEF Dies, TypeOK

LEMMA RejectType ==
  ASSUME TypeOK, RejectAll
  PROVE  /\ pending' \subseteq Requests /\ op' = op /\ sent' = sent
         /\ answer' \in [Requests -> {"none", "done", "part", "nothing", "error"}]
BY DEF TypeOK, RejectAll

LEMMA KillType ==
  ASSUME TypeOK, OpInvariant, WorkInvariant,
         NEW p \in [Hosts -> {"none", "running", "exited", "gone"}], KillChild(p)
  PROVE  /\ torn' \subseteq Requests \cup {0}
         /\ inbox' \in [Hosts -> Seq(Requests \cup {0})]
         /\ work' \in [Hosts -> Work]
         /\ proc' \in [Hosts -> {"none", "running", "exited", "gone"}]
<1>1. CASE child # 0 /\ proc[child] = "running"
  <2>1. child \in Hosts /\ Dies(child)
    BY <1>1 DEF KillChild, TypeOK
  <2> QED BY <1>1, <2>1, DiesType DEF KillChild
<1>2. CASE ~(child # 0 /\ proc[child] = "running")
  BY <1>2 DEF KillChild, TypeOK
<1> QED BY <1>1, <1>2

LEMMA AskType ==
  ASSUME TypeOK, NEW r \in Requests, NEW o \in Op, Asks(r, o)
  PROVE  /\ op' \in [Requests -> Op \cup {NoOp}]
         /\ UNCHANGED <<answer, buffer, ready, work, outbox, cut, turn, rows, tokens, done, left, torn>>
BY DEF TypeOK, Asks, store

\* A line that is read leaves the inbox.
LEMMA ReadType ==
  ASSUME TypeOK, NEW h \in Hosts, Reads(h)
  PROVE  /\ inbox' \in [Hosts -> Seq(Requests \cup {0})]
         /\ Head(inbox[h]) \in Requests \cup {0}
         /\ UNCHANGED <<node, child, pending, buffer, op, answer, sent, proc, cut, torn>>
<1>1. inbox[h] \in Seq(Requests \cup {0}) /\ inbox[h] # <<>>
  BY DEF TypeOK, Reads
<1>2. Tail(inbox[h]) \in Seq(Requests \cup {0}) /\ Head(inbox[h]) \in Requests \cup {0}
  BY <1>1, TailFacts
<1> QED BY <1>2 DEF TypeOK, Reads, callers

LEMMA EmitType ==
  ASSUME TypeOK, NEW h \in Hosts, NEW l \in Line, Emit(h, l)
  PROVE  outbox' \in [Hosts -> Seq(Line)]
<1>1. Append(outbox[h], l) \in Seq(Line)
  BY AppendFacts DEF TypeOK
<1> QED BY <1>1 DEF TypeOK, Emit

\* Every step keeps every variable in its type.
LEMMA TypeStep ==
  ASSUME TypeOK, OpInvariant, WorkInvariant, [Next]_vars PROVE TypeOK'
<1>1. ASSUME NEW r \in Requests, NEW o \in Op, Invoke(r, o) PROVE TypeOK'
  <2>1. Asks(r, o) /\ child \in Hosts
    BY <1>1 DEF Invoke, TypeOK
  <2>2. Append(inbox[child], r) \in Seq(Requests \cup {0})
    BY <2>1, AppendFacts DEF TypeOK
  <2> QED BY <1>1, <2>1, <2>2, AskType DEF Invoke, TypeOK
<1>2. ASSUME NEW r \in Requests, NEW o \in Op, NEW h \in Hosts, InvokeSpawns(r, o, h)
      PROVE  TypeOK'
  <2>1. <<0, r>> \in Seq(Requests \cup {0})
    BY FirstLines
  <2>2. Asks(r, o)
    BY <1>2 DEF InvokeSpawns
  <2>3. /\ child' \in Hosts /\ pending' \subseteq Requests /\ UNCHANGED node
        /\ sent' \in [Requests -> Hosts \cup {0}]
    BY <1>2 DEF InvokeSpawns, TypeOK
  <2>4. proc' \in [Hosts -> {"none", "running", "exited", "gone"}]
    BY <1>2 DEF InvokeSpawns, TypeOK
  <2>5. inbox' \in [Hosts -> Seq(Requests \cup {0})]
    BY <1>2, <2>1 DEF InvokeSpawns, TypeOK
  <2>6. faults' \in 0 .. MaxFaults
    BY <1>2, FaultType DEF InvokeSpawns, TypeOK
  <2> QED BY <2>2, <2>3, <2>4, <2>5, <2>6, AskType DEF TypeOK
<1>3. ASSUME NEW r \in Requests, NEW o \in Op, InvokeBreaks(r, o) PROVE TypeOK'
  <2>1. Asks(r, o)
    BY <1>3 DEF InvokeBreaks
  <2> QED BY <1>3, <2>1, AskType DEF InvokeBreaks, TypeOK
<1>4. ASSUME NEW r \in Requests, Timeout(r) PROVE TypeOK'
  BY <1>4 DEF Timeout, TypeOK, hosts, pipes, store
<1>5. ASSUME NEW h \in Hosts, HalfLine(h) PROVE TypeOK'
  BY <1>5, Numbers DEF HalfLine, TypeOK, callers, hosts, store
<1>6. ASSUME NEW h \in Hosts, LineEnds(h) PROVE TypeOK'
  <2>1. /\ outbox[h] \in Seq(Line) /\ outbox[h] # <<>>
        /\ outbox' = [outbox EXCEPT ![h] = Tail(@)]
        /\ UNCHANGED <<node, ready, store, faults>>
    BY <1>6 DEF TypeOK, LineEnds
  <2>2. Head(outbox[h]) \in Line /\ Tail(outbox[h]) \in Seq(Line)
    BY <2>1, TailFacts
  <2>3. outbox' \in [Hosts -> Seq(Line)]
    BY <2>1, <2>2 DEF TypeOK
  <2>4. CASE /\ Head(outbox[h]).result # "stray"
             /\ Settle(Head(outbox[h]))
             /\ buffer' = 0
             /\ cut' = cut \ {h}
             /\ UNCHANGED <<child, op, sent, proc, work, inbox, torn>>
    <3>1. Head(outbox[h]).result \in Result
      BY <2>2, <2>4 DEF Line
    <3>2. /\ answer' \in [Requests -> {"none", "done", "part", "nothing", "error"}]
          /\ pending' \subseteq Requests
      BY <2>4, <3>1 DEF Settle, TypeOK, Result
    <3> QED BY <2>1, <2>3, <2>4, <3>2, Numbers DEF TypeOK, store
  <2>5. CASE /\ FailChild(proc)
             /\ cut' \in {cut \ {h}, IF Len(outbox[h]) > 1 THEN cut \cup {h} ELSE cut \ {h}}
    <3>1. cut' \subseteq Hosts
      BY <2>5 DEF TypeOK
    <3>2. proc \in [Hosts -> {"none", "running", "exited", "gone"}]
      BY DEF TypeOK
    <3> QED BY <2>1, <2>3, <2>5, <3>1, <3>2, RejectType, KillType, Numbers
            DEF TypeOK, store, FailChild
  <2> QED BY <1>6, <2>4, <2>5 DEF LineEnds
<1>7. ASSUME NEW h \in Hosts, ExitEvent(h) PROVE TypeOK'
  <2>1. [proc EXCEPT ![h] = "gone"] \in [Hosts -> {"none", "running", "exited", "gone"}]
    BY DEF TypeOK
  <2> QED BY <1>7, <2>1, RejectType, KillType, Numbers
          DEF TypeOK, store, FailChild, ExitEvent
<1>8. CASE Close
  <2>1. proc \in [Hosts -> {"none", "running", "exited", "gone"}]
    BY DEF TypeOK
  <2> QED BY <1>8, <2>1, RejectType, KillType DEF TypeOK, store, Close
<1>9. ASSUME NEW h \in Hosts, InitRuntime(h) PROVE TypeOK'
  <2>1. Reads(h)
    BY <1>9 DEF InitRuntime
  <2>2. \A x \in {"done", "refused"} : [req |-> 0, result |-> x] \in Line
    BY DEF Line, Result
  <2>3. outbox' \in [Hosts -> Seq(Line)]
    BY <1>9, <2>2, EmitType DEF InitRuntime
  <2>4. ready' \subseteq Hosts /\ faults' \in 0 .. MaxFaults
    BY <1>9, FaultType DEF InitRuntime, TypeOK
  <2> QED BY <1>9, <2>1, <2>3, <2>4, ReadType DEF InitRuntime, TypeOK, store
<1>10. ASSUME NEW h \in Hosts, NotReady(h) PROVE TypeOK'
  <2>1. Reads(h)
    BY <1>10 DEF NotReady
  <2>2. [req |-> 0, result |-> "refused"] \in Line
    BY DEF Line, Result
  <2>3. outbox' \in [Hosts -> Seq(Line)]
    BY <1>10, <2>2, EmitType DEF NotReady
  <2> QED BY <1>10, <2>1, <2>3, ReadType DEF NotReady, TypeOK, store
<1>11. ASSUME NEW h \in Hosts, Handle(h) PROVE TypeOK'
  <2> DEFINE r == Head(inbox[h])
  <2>1. Reads(h) /\ r # 0 /\ UNCHANGED <<ready, outbox>>
    BY <1>11 DEF Handle
  <2>2. r \in Requests
    BY <2>1, ReadType
  <2>3. \A p \in {"begun", "made", "answer"}, x \in Result :
           [req |-> r, phase |-> p, result |-> x] \in Work
    BY <2>2, WorkTypes
  <2>4. \/ HandleWrite(h, r) \/ HandleParse(h, r) \/ BeginCommit(h, r)
        \/ BeginUndo(h, r) \/ Refuse(h, r)
    BY <1>11 DEF Handle
  <2>6. faults' \in 0 .. MaxFaults
    BY <1>11, FaultType DEF Handle, HandleWrite, TypeOK
  <2> HIDE DEF r
  <2>5. /\ work' \in [Hosts -> Work]
        /\ turn' \in [Requests -> {"none", "parsed", "failed", "committed", "undone"}]
        /\ done' \subseteq Requests /\ UNCHANGED <<rows, tokens, left>>
    <3> DEFINE Turned == [Requests -> {"none", "parsed", "failed", "committed", "undone"}]
    <3>1. work \in [Hosts -> Work] /\ turn \in Turned /\ done \subseteq Requests
      BY DEF TypeOK
    <3>2. CASE HandleWrite(h, r)
      BY <2>2, <2>3, <3>1, <3>2 DEF HandleWrite, Answers, Result
    <3>3. CASE HandleParse(h, r)
      BY <2>2, <2>3, <3>1, <3>3 DEF HandleParse, Answers, Result
    <3>4. CASE BeginCommit(h, r) \/ BeginUndo(h, r) \/ Refuse(h, r)
      BY <2>3, <3>1, <3>4 DEF BeginCommit, BeginUndo, Refuse, Begins, Answers, store, Result
    <3> QED BY <2>4, <3>2, <3>3, <3>4
  <2> QED BY <2>1, <2>5, <2>6, ReadType DEF TypeOK
<1>12. ASSUME NEW h \in Hosts,
              \/ CommitMakes(h) \/ CommitFails(h) \/ CommitMarks(h)
              \/ UndoTrashes(h) \/ UndoMarks(h)
       PROVE  TypeOK'
  <2>1. work[h].req \in Requests
    BY <1>12, BusyRequest
       DEF CommitMakes, CommitFails, CommitMarks, UndoTrashes, UndoMarks, Works
  <2>2. /\ \A x \in Result : [req |-> work[h].req, phase |-> "answer", result |-> x] \in Work
        /\ work[h].result \in Result
        /\ \A x \in Result :
              [work EXCEPT ![h].phase = "made", ![h].result = x] \in [Hosts -> Work]
    <3>1. work[h] \in Work
      BY DEF TypeOK
    <3>2. /\ work[h].result \in Result
          /\ \A x \in Result : [work[h] EXCEPT !.phase = "made", !.result = x] \in Work
      BY <3>1 DEF Work
    <3> QED BY <2>1, <3>2, WorkTypes DEF TypeOK
  <2>3. /\ work' \in [Hosts -> Work]
        /\ turn' \in [Requests -> {"none", "parsed", "failed", "committed", "undone"}]
        /\ done' \subseteq Requests /\ rows' \subseteq Requests /\ tokens' \subseteq Requests
    <3>0. {"done", "part", "nothing"} \subseteq Result
      BY DEF Result
    <3> USE <3>0 DEF TypeOK, Answers
    <3>1. CASE CommitMakes(h) \/ UndoTrashes(h)
      <4>1. PICK x \in {"done", "part"} :
               work' = [work EXCEPT ![h].phase = "made", ![h].result = x]
        BY <3>1 DEF CommitMakes, UndoTrashes
      <4>2. work' \in [Hosts -> Work]
        BY <2>2, <4>1
      <4> QED BY <3>1, <2>1, <4>2 DEF CommitMakes, UndoTrashes
    <3>2. CASE CommitFails(h)
      BY <3>2, <2>2 DEF CommitFails
    <3>3. CASE CommitMarks(h)
      BY <3>3, <2>1, <2>2 DEF CommitMarks
    <3>4. CASE UndoMarks(h)
      BY <3>4, <2>1, <2>2 DEF UndoMarks
    <3> QED BY <1>12, <3>1, <3>2, <3>3, <3>4
  <2>5. left' \subseteq Requests /\ faults' \in 0 .. MaxFaults
    BY <1>12, <2>1, FaultType
       DEF CommitMakes, CommitFails, CommitMarks, UndoTrashes, UndoMarks, Leaves, LeavesNone,
           TypeOK
  <2>4. UNCHANGED <<node, child, pending, buffer, callers, proc, ready, pipes, torn>>
    BY <1>12 DEF CommitMakes, CommitFails, CommitMarks, UndoTrashes, UndoMarks, Works
  <2> QED BY <2>3, <2>4, <2>5 DEF TypeOK, callers, pipes
<1>13. ASSUME NEW h \in Hosts, MarkThrows(h) PROVE TypeOK'
  <2>1. work[h].req \in Requests /\ Interrupted(h) \subseteq Requests
    BY <1>13, BusyRequest, InterruptedType DEF MarkThrows
  <2>2. [req |-> work[h].req, phase |-> "answer", result |-> "refused"] \in Work
    BY <2>1, WorkTypes DEF Result
  <2> QED BY <1>13, <2>1, <2>2, FaultType
          DEF MarkThrows, Answers, TypeOK, callers, pipes, store
<1>14. ASSUME NEW h \in Hosts, Respond(h) PROVE TypeOK'
  <2>1. [req |-> work[h].req, result |-> work[h].result] \in Line
    BY DEF TypeOK, Line, Work
  <2> QED BY <1>14, <2>1, EmitType, WorkTypes DEF Respond, TypeOK, callers, store
<1>15. ASSUME NEW h \in Hosts, HostExits(h) PROVE TypeOK'
  <2>1. /\ torn' \subseteq Requests \cup {0} /\ work' \in [Hosts -> Work]
        /\ inbox' \in [Hosts -> Seq(Requests \cup {0})] /\ faults' \in 0 .. MaxFaults
    BY <1>15, DiesType, FaultType DEF HostExits
  <2> QED BY <1>15, <2>1 DEF HostExits, TypeOK, callers, store
<1>16. ASSUME NEW h \in Hosts, PrintsStray(h) PROVE TypeOK'
  <2>1. [req |-> 0, result |-> "stray"] \in Line
    BY DEF Line
  <2> QED BY <1>16, <2>1, EmitType, FaultType
          DEF PrintsStray, TypeOK, callers, hosts, store
<1>17. CASE UNCHANGED vars
  BY <1>17 DEF vars, TypeOK, callers, hosts, pipes, store
<1> QED BY <1>1, <1>2, <1>3, <1>4, <1>5, <1>6, <1>7, <1>8, <1>9, <1>10, <1>11, <1>12,
           <1>13, <1>14, <1>15, <1>16, <1>17
        DEF Next, Caller, Transport, Host

-----------------------------------------------------------------------------
(* Steps that leave the store and the work alone.                          *)

\* No response comes to the pipes.
NoNewAnswers ==
    \A g \in Hosts : \A l \in Elems(outbox'[g]) : l.req # 0 => l \in Elems(outbox[g])

\* No call comes to a host.
NoNewCalls ==
    \A g \in Hosts : /\ Once(inbox'[g])
                     /\ \A r \in Elems(inbox'[g]) : r # 0 => r \in Elems(inbox[g])

\* The host that runs is the only one at work.
LEMMA OneBusy ==
  ASSUME TypeOK, HostInvariant, NEW h \in Hosts,
         proc[h] = "running" \/ work[h].phase # "idle"
  PROVE  /\ child = h /\ proc[h] = "running"
         /\ \A g \in Hosts : g # h => /\ proc[g] # "running"
                                      /\ work[g] = Idle /\ inbox[g] = <<>>
BY DEF HostInvariant, Idle

LEMMA WhoMakes ==
  /\ \A c : c \in Making <=> \E h \in Hosts : /\ work[h].phase = "made"
                                              /\ op[work[h].req].kind = "commit"
                                              /\ c = work[h].req
  /\ \A c : c \in Unmaking <=> \E h \in Hosts : /\ work[h].phase = "made"
                                                /\ op[work[h].req].kind = "undo"
                                                /\ c = op[work[h].req].of
BY DEF Making, Unmaking

LEMMA StoreStays ==
  ASSUME Inductive, NoNewAnswers, UNCHANGED <<op, work, store, torn>>
  PROVE  /\ LineInvariant' /\ WorkInvariant' /\ StoreInvariant' /\ TokenInvariant'
         /\ \A r \in Requests : Untouched(r) => Untouched(r)'
<1> USE DEF store
<1>1. LineInvariant'
  BY DEF Inductive, LineInvariant, NoNewAnswers
<1>2. WorkInvariant'
  BY DEF Inductive, WorkInvariant, WorkFacts
<1>3. StoreInvariant'
  BY DEF Inductive, StoreInvariant
<1>4. TokenInvariant'
  <2>1. Unmaking' = Unmaking
    BY DEF Unmaking
  <2> QED BY <2>1 DEF Inductive, TokenInvariant
<1>5. \A r \in Requests : Untouched(r) => Untouched(r)'
  BY Numbers DEF Untouched, NoNewAnswers
<1> QED BY <1>1, <1>2, <1>3, <1>4, <1>5

\* Nothing begins: what no host has touched stays so.
LEMMA CallsStay ==
  ASSUME Inductive, NoNewCalls, op' = op, pending' \subseteq pending,
         \A r \in Requests : Untouched(r) => Untouched(r)',
         \A r \in Requests : r \notin pending => answer'[r] = answer[r]
  PROVE  OpInvariant' /\ InboxInvariant'
<1>1. OpInvariant'
  BY Numbers DEF Inductive, OpInvariant, NoNewCalls
<1>2. \A g \in Hosts : Elems(inbox[g]) \subseteq Requests \cup {0}
  BY ElemsOf DEF Inductive, TypeOK
<1>3. InboxInvariant'
  BY <1>2 DEF Inductive, InboxInvariant, NoNewCalls
<1> QED BY <1>1, <1>3

LEMMA TimeoutStep ==
  ASSUME Inductive, TypeOK', NEW r \in Requests, Timeout(r) PROVE Inductive'
<1>1. /\ UNCHANGED <<child, op, sent, proc, inbox, work, outbox, store, torn>>
      /\ pending' = pending \ {r} /\ answer' = [answer EXCEPT ![r] = "error"] /\ r \in pending
  BY DEF Timeout, hosts, pipes
<1>2. NoNewAnswers /\ NoNewCalls
  BY <1>1 DEF NoNewAnswers, NoNewCalls, Inductive, InboxInvariant
<1>3. answer \in [Requests -> {"none", "done", "part", "nothing", "error"}]
  BY DEF Inductive, TypeOK
<1>4. HostInvariant'
  BY <1>1, <1>3 DEF Inductive, HostInvariant, PendingIsAtTheChild, TypeOK
<1> QED BY <1>1, <1>2, <1>3, <1>4, StoreStays, CallsStay DEF Inductive

LEMMA HalfLineStep ==
  ASSUME Inductive, TypeOK', NEW h \in Hosts, HalfLine(h) PROVE Inductive'
<1>1. UNCHANGED <<child, op, answer, pending, sent, proc, inbox, work, outbox, store, torn>>
  BY DEF HalfLine, hosts, callers
<1>2. NoNewAnswers /\ NoNewCalls
  BY <1>1 DEF NoNewAnswers, NoNewCalls, Inductive, InboxInvariant
<1>3. HostInvariant'
  BY <1>1 DEF Inductive, HostInvariant, PendingIsAtTheChild
<1> QED BY <1>1, <1>2, <1>3, StoreStays, CallsStay DEF Inductive

LEMMA SettleStep ==
  ASSUME Inductive, TypeOK', NEW l \in Line, l.result # "stray", Settle(l), NoNewAnswers,
         UNCHANGED <<child, op, sent, proc, work, inbox, store, torn>>
  PROVE  Inductive'
<1>1. NoNewCalls
  BY DEF NoNewCalls, Inductive, InboxInvariant
<1>2. answer \in [Requests -> {"none", "done", "part", "nothing", "error"}]
  BY DEF Inductive, TypeOK
<1>3. /\ pending' \subseteq pending
      /\ \A r \in Requests : r # l.req \/ r \notin pending => answer'[r] = answer[r]
  BY <1>2 DEF Settle
<1>4. HostInvariant'
  <2>1. l.req \notin pending'
    BY DEF Settle
  <2> QED BY <1>3, <2>1 DEF Inductive, HostInvariant, PendingIsAtTheChild, TypeOK
<1> QED BY <1>1, <1>3, <1>4, StoreStays, CallsStay DEF Inductive

LEMMA PrintsStrayStep ==
  ASSUME Inductive, TypeOK', NEW h \in Hosts, PrintsStray(h) PROVE Inductive'
<1>1. /\ UNCHANGED <<child, op, answer, pending, sent, proc, inbox, work, store, torn>>
      /\ Emit(h, [req |-> 0, result |-> "stray"])
  BY DEF PrintsStray, hosts, callers
<1>2. [req |-> 0, result |-> "stray"] \in Line
  BY DEF Line
<1>3. NoNewAnswers
  BY <1>1, <1>2, AppendFacts DEF NoNewAnswers, Emit, Inductive, TypeOK
<1>4. NoNewCalls
  BY <1>1 DEF NoNewCalls, Inductive, InboxInvariant
<1>5. HostInvariant'
  BY <1>1 DEF Inductive, HostInvariant, PendingIsAtTheChild
<1> QED BY <1>1, <1>3, <1>4, <1>5, StoreStays, CallsStay DEF Inductive

\* A line is read: the rest of the inbox has other calls.
LEMMA ReadFacts ==
  ASSUME Inductive, NEW h \in Hosts, Reads(h)
  PROVE  /\ NoNewCalls
         /\ (\A g \in Hosts : g # h => work'[g] = work[g]) => HostInvariant'
         /\ UNCHANGED <<child, op, answer, pending, sent, proc, torn>>
         /\ proc[h] = "running" /\ work[h].phase = "idle"
         /\ Head(inbox[h]) # 0 =>
               /\ Head(inbox[h]) \in Requests
               /\ Untouched(Head(inbox[h])) /\ op[Head(inbox[h])] # NoOp
               /\ \A g \in Hosts : Head(inbox[h]) \notin Elems(inbox'[g])

<1> DEFINE r == Head(inbox[h])
<1>1. /\ inbox[h] \in Seq(Requests \cup {0}) /\ inbox[h] # <<>>
      /\ inbox' = [inbox EXCEPT ![h] = Tail(@)]
      /\ UNCHANGED <<child, op, answer, pending, sent, proc, torn>>
      /\ proc[h] = "running" /\ work[h].phase = "idle"
  BY DEF Inductive, TypeOK, Reads, callers
<1>2. /\ r \in Requests \cup {0} /\ r \in Elems(inbox[h])
      /\ Elems(Tail(inbox[h])) \subseteq Elems(inbox[h])
      /\ Once(inbox[h]) => Once(Tail(inbox[h]))
      /\ Once(inbox[h]) /\ r # 0 => r \notin Elems(Tail(inbox[h]))
  BY <1>1, TailFacts
<1>3. \A g \in Hosts : inbox'[g] = IF g = h THEN Tail(inbox[h]) ELSE inbox[g]
  BY <1>1 DEF Inductive, TypeOK
<1>4. \A g \in Hosts : g # h => Elems(inbox[g]) = {}
  BY <1>1, OneBusy, EmptyFacts DEF Inductive
<1> HIDE DEF r
<1>5. NoNewCalls
  BY <1>2, <1>3 DEF NoNewCalls, Inductive, InboxInvariant
<1>6. r # 0 => /\ r \in Requests /\ Untouched(r) /\ op[r] # NoOp
               /\ \A g \in Hosts : r \notin Elems(inbox'[g])
  BY <1>2, <1>3, <1>4 DEF Inductive, InboxInvariant, OpInvariant
<1>7. ASSUME \A g \in Hosts : g # h => work'[g] = work[g] PROVE HostInvariant'
  BY <1>1, <1>3, <1>7 DEF Inductive, HostInvariant, PendingIsAtTheChild
<1> QED BY <1>1, <1>5, <1>6, <1>7 DEF r

LEMMA EarlyAnswerStep ==
  ASSUME Inductive, TypeOK', NEW h \in Hosts, InitRuntime(h) \/ NotReady(h) PROVE Inductive'
<1>1. /\ Reads(h) /\ UNCHANGED <<work, store>>
      /\ \E x \in {"done", "refused"} : Emit(h, [req |-> 0, result |-> x])
  BY DEF InitRuntime, NotReady
<1>2. \A x \in {"done", "refused"} : [req |-> 0, result |-> x] \in Line
  BY DEF Line, Result
<1>3. NoNewAnswers
  BY <1>1, <1>2, AppendFacts DEF NoNewAnswers, Emit, Inductive, TypeOK
<1> QED BY <1>1, <1>3, ReadFacts, StoreStays, CallsStay DEF Inductive

-----------------------------------------------------------------------------
(* A caller asks.                                                          *)

\* The call that is asked for is new to every host, and what it is about has
\* been answered.
LEMMA AskStep ==
  ASSUME Inductive, TypeOK', NEW r \in Requests, NEW o \in Op, Asks(r, o)
  PROVE  /\ LineInvariant' /\ WorkInvariant' /\ StoreInvariant' /\ TokenInvariant'
         /\ Untouched(r) /\ \A q \in Requests : Untouched(q)' <=> Untouched(q)
         /\ \A q \in Requests : q # r => op'[q] = op[q]
         /\ op'[r] # NoOp /\ op[r] = NoOp
         /\ \A q \in Requests : op'[q].kind = "commit" =>
               op'[q].of \in Requests /\ op'[op'[q].of].kind = "parse"
         /\ \A q \in Requests : op'[q].kind = "undo" =>
               op'[q].of \in Requests /\ op'[op'[q].of].kind = "commit"
<1>1. /\ op[r] = NoOp /\ op' = [op EXCEPT ![r] = o] /\ Askable(o)
      /\ UNCHANGED <<work, outbox, turn, rows, tokens, done, left, torn>>
  BY DEF Asks, store
<1>2. /\ op'[r] = o /\ \A q \in Requests : q # r => op'[q] = op[q]
      /\ op[r].kind = "none" /\ o # NoOp
  BY <1>1 DEF Inductive, TypeOK, NoOp, Op
<1>3. Untouched(r) /\ \A q \in Requests : Untouched(q)' <=> Untouched(q)
  BY <1>1 DEF Inductive, OpInvariant, Untouched
<1>4. \A q \in Requests : op[q].kind # "none" => op'[q] = op[q]
  BY <1>2
<1>5. /\ o.kind = "commit" => o.of \in Requests /\ op[o.of].kind = "parse"
      /\ o.kind = "undo" => o.of \in Requests /\ op[o.of].kind = "commit"
  BY <1>1 DEF Askable, Op
<1>6. /\ \A q \in Requests : op'[q].kind = "commit" =>
            op'[q].of \in Requests /\ op'[op'[q].of].kind = "parse"
      /\ \A q \in Requests : op'[q].kind = "undo" =>
            op'[q].of \in Requests /\ op'[op'[q].of].kind = "commit"
  BY <1>2, <1>4, <1>5 DEF Inductive, OpInvariant
<1>7. LineInvariant'
  BY <1>1 DEF Inductive, LineInvariant
<1>8. WorkInvariant'
  <2> SUFFICES ASSUME NEW h \in Hosts PROVE WorkFacts(work[h])'
    BY DEF WorkInvariant
  <2>1. WorkFacts(work[h]) /\ work'[h] = work[h]
    BY <1>1 DEF Inductive, WorkInvariant
  <2>2. work[h].phase \in {"begun", "made"} => op'[work[h].req] = op[work[h].req]
    BY <2>1, <1>4, BusyRequest DEF WorkFacts, Inductive
  <2> QED BY <1>1, <2>1, <2>2 DEF WorkFacts
<1>9. StoreInvariant'
  <2>1. \A c \in rows \cup tokens : c \in Requests /\ op'[c] = op[c]
    BY <1>4 DEF Inductive, StoreInvariant, TypeOK
  <2> QED BY <1>1, <1>4, <2>1 DEF Inductive, StoreInvariant
<1>10. TokenInvariant'
  <2>1. \A c \in tokens : c \in Requests /\ op'[c] = op[c]
    BY <1>4 DEF Inductive, StoreInvariant, TypeOK
  <2>2. Unmaking' = Unmaking
    <3>1. \A h \in Hosts : work[h].phase = "made" => op'[work[h].req] = op[work[h].req]
      BY <1>4, BusyRequest DEF WorkFacts, Inductive, WorkInvariant
    <3> QED BY <1>1, <3>1 DEF Unmaking
  <2> QED BY <1>1, <2>1, <2>2 DEF Inductive, TokenInvariant
<1> QED BY <1>1, <1>2, <1>3, <1>6, <1>7, <1>8, <1>9, <1>10

\* The rest of OpInvariant, for a call that waits for the host it was
\* written to.
LEMMA AskedStep ==
  ASSUME Inductive, TypeOK', NEW r \in Requests, NEW o \in Op, Asks(r, o),
         pending' \subseteq pending \cup {r},
         \A h \in Hosts : Once(inbox'[h])
                          /\ Elems(inbox'[h]) \subseteq Elems(inbox[h]) \cup {0, r}
  PROVE  OpInvariant' /\ InboxInvariant'
<1>1. answer' = answer
  BY DEF Asks
<1>2. OpInvariant'
  <2>1. ASSUME NEW q \in Requests, op'[q] = NoOp
        PROVE  /\ Untouched(q)' /\ answer'[q] = "none" /\ q \notin pending'
               /\ \A h \in Hosts : q \notin Elems(inbox'[h])
    <3>1. q # r /\ op[q] = NoOp /\ q # 0
      BY <2>1, AskStep, Numbers
    <3>2. Untouched(q)'
      BY <3>1, AskStep DEF Inductive, OpInvariant
    <3> QED BY <1>1, <3>1, <3>2 DEF Inductive, OpInvariant
  <2> HIDE DEF Untouched
  <2> QED BY <2>1, AskStep DEF OpInvariant
<1>3. \A g \in Hosts : Elems(inbox[g]) \subseteq Requests \cup {0}
  BY ElemsOf DEF Inductive, TypeOK
<1>4. InboxInvariant'
  BY <1>3, AskStep DEF Inductive, InboxInvariant
<1> QED BY <1>2, <1>4

LEMMA InvokeStep ==
  ASSUME Inductive, TypeOK', NEW r \in Requests, NEW o \in Op, Invoke(r, o)
  PROVE  Inductive'
<1>1. /\ Asks(r, o) /\ child \in Hosts
      /\ inbox' = IF proc[child] = "running" THEN [inbox EXCEPT ![child] = Append(@, r)]
                  ELSE inbox
      /\ pending' = pending \cup {r} /\ sent' = [sent EXCEPT ![r] = child]
      /\ UNCHANGED <<child, proc, work, answer>>
  BY DEF Invoke, Inductive, TypeOK, Asks
<1>2. op[r] = NoOp /\ answer[r] = "none" /\ r \notin Elems(inbox[child])
  BY <1>1 DEF Asks, Inductive, OpInvariant
<1>3. /\ Elems(Append(inbox[child], r)) = Elems(inbox[child]) \cup {r}
      /\ Once(Append(inbox[child], r))
  BY <1>1, <1>2, AppendFacts DEF Inductive, TypeOK, InboxInvariant
<1>4. \A h \in Hosts : /\ Once(inbox'[h])
                       /\ Elems(inbox'[h]) \subseteq Elems(inbox[h]) \cup {0, r}
  BY <1>1, <1>3 DEF Inductive, TypeOK, InboxInvariant
<1>5. HostInvariant'
  <2>1. \A h \in Hosts : proc[h] # "running" => inbox'[h] = inbox[h]
    BY <1>1 DEF Inductive, TypeOK
  <2>2. \A q \in pending' : child # 0 /\ sent'[q] = child /\ answer'[q] = "none"
    BY <1>1, <1>2, Numbers DEF Inductive, HostInvariant, PendingIsAtTheChild, TypeOK
  <2> QED BY <1>1, <2>1, <2>2 DEF Inductive, HostInvariant, PendingIsAtTheChild
<1> QED BY <1>1, <1>4, <1>5, AskStep, AskedStep DEF Inductive

LEMMA InvokeSpawnsStep ==
  ASSUME Inductive, TypeOK', NEW r \in Requests, NEW o \in Op, NEW h \in Hosts,
         InvokeSpawns(r, o, h)
  PROVE  Inductive'
<1>1. /\ Asks(r, o) /\ child = 0 /\ child' = h /\ proc[h] = "none"
      /\ pending' = pending \cup {r} /\ sent' = [sent EXCEPT ![r] = h]
      /\ UNCHANGED <<work, answer>>
      /\ \/ /\ proc' = [proc EXCEPT ![h] = "running"]
            /\ inbox' = [inbox EXCEPT ![h] = <<0, r>>]
         \/ proc' = [proc EXCEPT ![h] = "exited"] /\ inbox' = inbox
  BY DEF InvokeSpawns, Asks
<1>2. op[r] = NoOp /\ answer[r] = "none"
  BY <1>1 DEF Asks, Inductive, OpInvariant
<1>3. pending = {} /\ \A g \in Hosts : proc[g] # "running"
  BY <1>1, Numbers DEF Inductive, HostInvariant, PendingIsAtTheChild
<1>4. \A g \in Hosts : /\ Once(inbox'[g])
                       /\ Elems(inbox'[g]) \subseteq Elems(inbox[g]) \cup {0, r}
  <2>1. \A g \in Hosts : inbox'[g] = inbox[g] \/ inbox'[g] = <<0, r>>
    BY <1>1 DEF Inductive, TypeOK
  <2> QED BY <2>1, FirstLines DEF Inductive, InboxInvariant
<1>5. HostInvariant'
  <2>1. \A g \in Hosts : /\ g # h => proc'[g] = proc[g] /\ inbox'[g] = inbox[g]
                         /\ proc'[g] # "running" => inbox'[g] = inbox[g]
    BY <1>1 DEF Inductive, TypeOK
  <2>2. \A q \in pending' : child' # 0 /\ sent'[q] = child' /\ answer'[q] = "none"
    BY <1>1, <1>2, <1>3, Numbers DEF Inductive, TypeOK
  <2> QED BY <1>1, <1>3, <2>1, <2>2 DEF Inductive, HostInvariant, PendingIsAtTheChild
<1> QED BY <1>1, <1>4, <1>5, AskStep, AskedStep DEF Inductive

LEMMA InvokeBreaksStep ==
  ASSUME Inductive, TypeOK', NEW r \in Requests, NEW o \in Op, InvokeBreaks(r, o)
  PROVE  Inductive'
<1>1. Asks(r, o) /\ UNCHANGED <<child, pending, sent, proc, inbox, work, answer>>
  BY DEF InvokeBreaks, Asks
<1>2. \A g \in Hosts : /\ Once(inbox'[g])
                       /\ Elems(inbox'[g]) \subseteq Elems(inbox[g]) \cup {0, r}
  BY <1>1 DEF Inductive, InboxInvariant
<1>3. HostInvariant'
  BY <1>1 DEF Inductive, HostInvariant, PendingIsAtTheChild
<1> QED BY <1>1, <1>2, <1>3, AskStep, AskedStep DEF Inductive

-----------------------------------------------------------------------------
(* A host dies.                                                            *)

\* A capture in the hands of a host was parsed.
LEMMA InterruptedParsed ==
  ASSUME Inductive, NEW h \in Hosts
  PROVE  \A p \in Interrupted(h) : p \in Requests /\ turn[p] # "none"
<1>1. CASE work[h].phase # "made"
  BY <1>1 DEF Interrupted
<1>2. CASE work[h].phase = "made"
  <2> DEFINE r == work[h].req
  <2>1. /\ r \in Requests /\ op[r].kind \in {"commit", "undo"}
        /\ op[r].kind = "commit" => turn[op[r].of] \in {"parsed", "failed"}
        /\ op[r].kind = "undo" => op[r].of \in tokens
    BY <1>2, BusyRequest DEF WorkInvariant, WorkFacts, Inductive
  <2>2. op[r].kind = "undo" => turn[op[op[r].of].of] # "none"
    BY <2>1 DEF Inductive, StoreInvariant
  <2>3. CaptureOf(r) \in Requests
    BY <1>2, InterruptedType DEF Inductive, Interrupted
  <2> QED BY <1>2, <2>1, <2>2, <2>3 DEF Interrupted, CaptureOf
<1> QED BY <1>1, <1>2

LEMMA DieStep ==
  ASSUME Inductive, NEW h \in Hosts, Dies(h), NoNewAnswers, UNCHANGED <<op, store>>
  PROVE  /\ LineInvariant' /\ WorkInvariant' /\ StoreInvariant' /\ TokenInvariant'
         /\ \A r \in Requests : Untouched(r) => Untouched(r)'
         /\ NoNewCalls
         /\ \A g \in Hosts : IF g = h THEN work'[g] = Idle /\ inbox'[g] = <<>>
                             ELSE work'[g] = work[g] /\ inbox'[g] = inbox[g]
<1> USE DEF store
<1>1. /\ \A g \in Hosts : IF g = h THEN work'[g] = Idle /\ inbox'[g] = <<>>
                          ELSE work'[g] = work[g] /\ inbox'[g] = inbox[g]
      /\ torn' = torn \cup Interrupted(h)
  BY DEF Dies, Inductive, TypeOK
<1>2. Idle.req = 0 /\ Idle.phase = "idle"
  BY DEF Idle
<1>3. LineInvariant'
  BY <1>1, <1>2 DEF Inductive, LineInvariant, NoNewAnswers
<1>4. WorkInvariant'
  <2> SUFFICES ASSUME NEW g \in Hosts PROVE WorkFacts(work[g])'
    BY DEF WorkInvariant
  <2>1. CASE g = h
    BY <1>1, <1>2, <2>1 DEF WorkFacts
  <2>2. CASE g # h
    BY <1>1, <2>2 DEF Inductive, WorkInvariant, WorkFacts
  <2> QED BY <2>1, <2>2
<1>5. StoreInvariant'
  BY <1>1, InterruptedParsed DEF Inductive, StoreInvariant
<1>6. TokenInvariant'
  <2>1. ASSUME NEW c \in Unmaking, op[c].of \notin torn' PROVE c \in Unmaking'
    <3>1. PICK g \in Hosts : /\ work[g].phase = "made" /\ op[work[g].req].kind = "undo"
                             /\ c = op[work[g].req].of
      BY <2>1, WhoMakes
    <3>2. g # h
      BY <1>1, <2>1, <3>1 DEF Interrupted, CaptureOf
    <3> QED BY <1>1, <3>1, <3>2 DEF Unmaking
  <2> QED BY <1>1, <2>1 DEF Inductive, TokenInvariant
<1>7. \A r \in Requests : Untouched(r) => Untouched(r)'
  BY <1>1, <1>2, Numbers DEF Untouched, NoNewAnswers
<1>8. NoNewCalls
  BY <1>1, EmptyFacts DEF NoNewCalls, Inductive, InboxInvariant
<1> QED BY <1>1, <1>3, <1>4, <1>5, <1>6, <1>7, <1>8

\* The transport kills the only host that runs, or there is none.
LEMMA KillStep ==
  ASSUME Inductive, NoNewAnswers, UNCHANGED <<op, store>>,
         NEW p \in [Hosts -> {"none", "running", "exited", "gone"}],
         \A g \in Hosts : p[g] = "running" => proc[g] = "running",
         KillChild(p)
  PROVE  /\ LineInvariant' /\ WorkInvariant' /\ StoreInvariant' /\ TokenInvariant'
         /\ \A r \in Requests : Untouched(r) => Untouched(r)'
         /\ NoNewCalls
         /\ \A g \in Hosts : proc'[g] # "running" /\ work'[g] = Idle /\ inbox'[g] = <<>>
<1>1. CASE child # 0 /\ proc[child] = "running"
  <2>1. child \in Hosts /\ Dies(child) /\ proc' = [p EXCEPT ![child] = "exited"]
    BY <1>1 DEF KillChild, Inductive, TypeOK
  <2>2. \A g \in Hosts : g # child => /\ proc[g] # "running" /\ proc'[g] # "running"
                                      /\ work[g] = Idle /\ inbox[g] = <<>>
    BY <1>1, <2>1, OneBusy DEF Inductive
  <2> QED BY <2>1, <2>2, DieStep
<1>2. CASE ~(child # 0 /\ proc[child] = "running")
  <2>1. proc' = p /\ UNCHANGED <<torn, inbox, work>>
    BY <1>2 DEF KillChild
  <2>2. \A g \in Hosts : proc[g] # "running" /\ work[g] = Idle /\ inbox[g] = <<>>
    BY <1>2, Numbers DEF Inductive, HostInvariant
  <2>3. NoNewCalls
    BY <2>1 DEF NoNewCalls, Inductive, InboxInvariant
  <2> QED BY <2>1, <2>2, <2>3, StoreStays
<1> QED BY <1>1, <1>2

LEMMA FailStep ==
  ASSUME Inductive, TypeOK', NoNewAnswers, UNCHANGED store,
         NEW p \in [Hosts -> {"none", "running", "exited", "gone"}],
         \A g \in Hosts : p[g] = "running" => proc[g] = "running",
         RejectAll, KillChild(p)
  PROVE  Inductive'
<1>1. /\ op' = op /\ pending' = {}
      /\ \A r \in Requests : r \notin pending => answer'[r] = answer[r]
  BY DEF RejectAll, Inductive, TypeOK
<1>2. HostInvariant'
  BY <1>1, KillStep DEF HostInvariant, PendingIsAtTheChild
<1> QED BY <1>1, <1>2, KillStep, CallsStay DEF Inductive

LEMMA LineEndsStep ==
  ASSUME Inductive, TypeOK', NEW h \in Hosts, LineEnds(h) PROVE Inductive'
<1> DEFINE l == Head(outbox[h])
<1>1. /\ outbox[h] \in Seq(Line) /\ outbox[h] # <<>>
      /\ outbox' = [outbox EXCEPT ![h] = Tail(@)]
      /\ UNCHANGED store
  BY DEF Inductive, TypeOK, LineEnds
<1>2. l \in Line /\ Elems(Tail(outbox[h])) \subseteq Elems(outbox[h])
  BY <1>1, TailFacts
<1>3. NoNewAnswers
  BY <1>1, <1>2 DEF NoNewAnswers, Inductive, TypeOK
<1>4. CASE /\ l.result # "stray" /\ Settle(l)
           /\ UNCHANGED <<child, op, sent, proc, work, inbox, torn>>
  BY <1>1, <1>2, <1>3, <1>4, SettleStep
<1>5. CASE FailChild(proc)
  BY <1>1, <1>3, <1>5, FailStep DEF FailChild, Inductive, TypeOK
<1> QED BY <1>4, <1>5 DEF LineEnds

LEMMA ExitEventStep ==
  ASSUME Inductive, TypeOK', NEW h \in Hosts, ExitEvent(h) PROVE Inductive'
<1> DEFINE p == [proc EXCEPT ![h] = "gone"]
<1>1. /\ FailChild(p) /\ UNCHANGED <<outbox, store>>
      /\ p \in [Hosts -> {"none", "running", "exited", "gone"}]
      /\ \A g \in Hosts : p[g] = "running" => proc[g] = "running"
  BY DEF ExitEvent, Inductive, TypeOK
<1>2. NoNewAnswers
  BY <1>1 DEF NoNewAnswers
<1> HIDE DEF p
<1> QED BY <1>1, <1>2, FailStep DEF FailChild

LEMMA CloseStep == ASSUME Inductive, TypeOK', Close PROVE Inductive'
<1>1. /\ RejectAll /\ KillChild(proc) /\ UNCHANGED <<outbox, store>>
      /\ proc \in [Hosts -> {"none", "running", "exited", "gone"}]
  BY DEF Close, Inductive, TypeOK
<1>2. NoNewAnswers
  BY <1>1 DEF NoNewAnswers
<1> QED BY <1>1, <1>2, FailStep

LEMMA HostExitsStep ==
  ASSUME Inductive, TypeOK', NEW h \in Hosts, HostExits(h) PROVE Inductive'
<1>1. /\ Dies(h) /\ proc[h] = "running" /\ proc' = [proc EXCEPT ![h] = "exited"]
      /\ UNCHANGED <<child, pending, op, answer, sent, outbox, store>>
  BY DEF HostExits, callers
<1>2. NoNewAnswers
  BY <1>1 DEF NoNewAnswers
<1>3. HostInvariant'
  <2>1. \A g \in Hosts : proc'[g] = IF g = h THEN "exited" ELSE proc[g]
    BY <1>1 DEF Inductive, TypeOK
  <2> QED BY <1>1, <1>2, <2>1, DieStep DEF Inductive, HostInvariant, PendingIsAtTheChild
<1> QED BY <1>1, <1>2, <1>3, DieStep, CallsStay DEF Inductive

-----------------------------------------------------------------------------
(* A host works.                                                           *)

\* What is being made and trashed, when one host can be at work.
LEMMA OnlyWork ==
  ASSUME NEW h \in Hosts, \A g \in Hosts : g # h => work[g] = Idle
  PROVE  /\ Making = IF work[h].phase = "made" /\ op[work[h].req].kind = "commit"
                     THEN {work[h].req} ELSE {}
         /\ Unmaking = IF work[h].phase = "made" /\ op[work[h].req].kind = "undo"
                       THEN {op[work[h].req].of} ELSE {}
BY DEF Making, Unmaking, Idle

LEMMA OnlyWorkAfter ==
  ASSUME NEW h \in Hosts, \A g \in Hosts : g # h => work'[g] = Idle
  PROVE  /\ Making' = IF work'[h].phase = "made" /\ op'[work'[h].req].kind = "commit"
                      THEN {work'[h].req} ELSE {}
         /\ Unmaking' = IF work'[h].phase = "made" /\ op'[work'[h].req].kind = "undo"
                        THEN {op'[work'[h].req].of} ELSE {}
BY DEF Making, Unmaking, Idle

\* A host has read a call that no host has touched.
LEMMA HandleStep ==
  ASSUME Inductive, TypeOK', NEW h \in Hosts, Handle(h) PROVE Inductive'
<1> DEFINE r == Head(inbox[h])
<1>1. /\ Reads(h) /\ r # 0 /\ UNCHANGED outbox
      /\ HandleWrite(h, r) \/ HandleParse(h, r) \/ BeginCommit(h, r)
         \/ BeginUndo(h, r) \/ Refuse(h, r)
  BY DEF Handle
<1>2. /\ NoNewCalls
      /\ (\A g \in Hosts : g # h => work'[g] = work[g]) => HostInvariant'
      /\ UNCHANGED <<child, op, answer, pending, sent, proc, torn>>
      /\ proc[h] = "running" /\ work[h].phase = "idle"
      /\ r \in Requests /\ Untouched(r) /\ op[r] # NoOp
      /\ \A g \in Hosts : r \notin Elems(inbox'[g])
  BY <1>1, ReadFacts
<1>3. \A g \in Hosts : g # h => work[g] = Idle
  BY <1>2, OneBusy DEF Inductive
<1> HIDE DEF r
<1>4. /\ \A g \in Hosts : g # h => work'[g] = work[g]
      /\ work'[h].req = r /\ work'[h].phase \in {"begun", "answer"}
      /\ work'[h].phase = "begun" =>
            /\ \/ op[r].kind = "commit" /\ turn[op[r].of] \in {"parsed", "failed"}
               \/ op[r].kind = "undo" /\ op[r].of \in tokens
            /\ UNCHANGED store
      /\ work'[h].phase = "answer" => /\ work'[h].result \in {"done", "refused"}
                                      /\ work'[h].result = "done" => r \in done'
      /\ left' = left
      /\ \/ UNCHANGED store
         \/ /\ done' = done \cup {r} /\ UNCHANGED <<rows, tokens, left>>
            /\ \/ turn' = turn
               \/ turn' = [turn EXCEPT ![r] = "parsed"] /\ op[r].kind = "parse"
  <2>1. work \in [Hosts -> Work]
    BY DEF Inductive, TypeOK
  <2>2. CASE HandleWrite(h, r)
    BY <2>1, <2>2 DEF HandleWrite, Answers
  <2>3. CASE HandleParse(h, r)
    BY <2>1, <2>3 DEF HandleParse, Answers
  <2>4. CASE BeginCommit(h, r) \/ BeginUndo(h, r)
    BY <2>1, <2>4 DEF BeginCommit, BeginUndo, Begins, store
  <2>5. CASE Refuse(h, r)
    BY <2>1, <2>5 DEF Refuse, Answers, store
  <2> QED BY <1>1, <2>2, <2>3, <2>4, <2>5
<1>5. /\ \A q \in Requests : q # r => turn'[q] = turn[q]
      /\ done \subseteq done' /\ done' \subseteq done \cup {r} /\ UNCHANGED <<rows, tokens, left>>
      /\ turn'[r] # turn[r] => turn'[r] = "parsed" /\ op[r].kind = "parse"
  BY <1>2, <1>4 DEF Inductive, TypeOK, store
<1>6. \A q \in Requests : q # r /\ Untouched(q) => Untouched(q)'
  BY <1>1, <1>4, <1>5 DEF Untouched
<1>7. OpInvariant'
  BY <1>2, <1>6, Numbers DEF Inductive, OpInvariant, NoNewCalls
<1>8. InboxInvariant'
  <2>1. \A g \in Hosts : Elems(inbox[g]) \subseteq Requests \cup {0}
    BY ElemsOf DEF Inductive, TypeOK
  <2> QED BY <1>2, <1>6, <2>1 DEF Inductive, InboxInvariant, NoNewCalls
<1>9. LineInvariant'
  BY <1>1, <1>2, <1>4, <1>5 DEF Inductive, LineInvariant, Untouched
<1>10. WorkInvariant'
  <2> SUFFICES ASSUME NEW g \in Hosts PROVE WorkFacts(work[g])'
    BY DEF WorkInvariant
  <2>1. CASE g = h
    <3>1. work'[h].phase = "begun" => r \notin done' /\ r \notin tokens' /\ r \notin rows'
      BY <1>2, <1>4 DEF Untouched, store
    <3>2. r \notin left'
      BY <1>2, <1>4 DEF Untouched
    <3>3. CASE work'[h].phase = "begun"
      BY <1>2, <1>4, <2>1, <3>1, <3>2, <3>3, Numbers DEF WorkFacts, store
    <3>4. CASE work'[h].phase = "answer"
      BY <1>2, <1>4, <2>1, <3>2, <3>4, Numbers DEF WorkFacts
    <3> QED BY <1>4, <3>3, <3>4
  <2>2. CASE g # h
    BY <1>3, <1>4, <2>2 DEF WorkFacts, Idle
  <2> QED BY <2>1, <2>2
<1>11. StoreInvariant'
  <2>1. \A q \in Requests : turn[q] # "none" => turn'[q] = turn[q]
    BY <1>2, <1>5 DEF Untouched
  <2>2. \A q \in Requests : turn'[q] # "none" => op[q].kind = "parse"
    BY <1>5, <2>1 DEF Inductive, StoreInvariant
  <2>3. \A c \in tokens : op[c].of \in Requests
    BY DEF Inductive, StoreInvariant, OpInvariant, TypeOK
  <2> QED BY <1>2, <1>5, <2>1, <2>2, <2>3 DEF Inductive, StoreInvariant
<1>12. TokenInvariant'
  <2>1. Unmaking' = Unmaking
    <3>1. /\ work[h].phase # "made" /\ work'[h].phase # "made"
          /\ \A g \in Hosts : g # h => work'[g] = Idle
      BY <1>2, <1>3, <1>4
    <3> QED BY <1>3, <3>1, OnlyWork, OnlyWorkAfter
  <2>2. \A c \in tokens : op[c].of # r /\ op[c].of \in Requests
    BY <1>2 DEF Inductive, StoreInvariant, OpInvariant, Untouched, TypeOK
  <2> QED BY <1>2, <1>5, <2>1, <2>2 DEF Inductive, TokenInvariant
<1> QED BY <1>2, <1>4, <1>7, <1>8, <1>9, <1>10, <1>11, <1>12 DEF Inductive

\* A host at work goes on with its call.
LEMMA ProgressStep ==
  ASSUME Inductive, TypeOK', NEW h \in Hosts, proc[h] = "running", work[h].phase # "idle",
         UNCHANGED <<child, op, answer, pending, sent, proc, inbox, outbox>>,
         \A g \in Hosts : g # h => work'[g] = work[g],
         work'[h].req = work[h].req, WorkFacts(work[h])',
         done \subseteq done', done' \subseteq done \cup {work[h].req},
         left' \subseteq left \cup {work[h].req},
         rows' \subseteq rows \cup {work[h].req}, tokens' \subseteq tokens \cup {work[h].req},
         \A q \in Requests : turn[q] = "none" => turn'[q] = "none",
         StoreInvariant', TokenInvariant'
  PROVE  Inductive'
<1>1. \A g \in Hosts : work'[g].req = work[g].req
  OBVIOUS
<1>2. \A g \in Hosts : g # h => work[g] = Idle
  BY OneBusy DEF Inductive
<1>3. \A q \in Requests : Untouched(q) => Untouched(q)'
  BY <1>1 DEF Untouched
<1>4. NoNewCalls
  BY DEF NoNewCalls, Inductive, InboxInvariant
<1>5. LineInvariant'
  BY <1>1 DEF Inductive, LineInvariant
<1>6. WorkInvariant'
  <2>1. \A g \in Hosts : g # h => WorkFacts(work[g])'
    BY <1>2 DEF WorkFacts, Idle
  <2> QED BY <2>1 DEF WorkInvariant
<1>7. HostInvariant'
  BY <1>1 DEF Inductive, HostInvariant, PendingIsAtTheChild
<1> QED BY <1>3, <1>4, <1>5, <1>6, <1>7, CallsStay DEF Inductive

\* What a commit or an undo in the hands of a host knows.
LEMMA WorksFacts ==
  ASSUME Inductive, NEW h \in Hosts, NEW kind \in {"commit", "undo"},
         NEW phase \in {"begun", "made"}, Works(h, kind, phase)
  PROVE  /\ work[h].req \in Requests /\ work[h] \in Work
         /\ work[h].req \notin done /\ work[h].req \notin tokens
         /\ op[work[h].req].of \in Requests /\ op[op[work[h].req].of].of \in Requests \cup {0}
         /\ op[work[h].req].kind = kind /\ work[h].phase = phase
         /\ phase = "begun" => work[h].req \notin rows /\ work[h].req \notin left
         /\ phase = "made" => /\ work[h].result \in {"done", "part"}
                               /\ work[h].result = "done" => work[h].req \notin left
         /\ kind = "commit" =>
               /\ turn[op[work[h].req].of] \in {"parsed", "failed"}
               /\ phase = "made" => work[h].req \in rows
         /\ kind = "undo" =>
               /\ op[work[h].req].of \in tokens
               /\ turn[op[op[work[h].req].of].of] # "none"
               /\ op[op[work[h].req].of].of \in Requests
               /\ phase = "made" => op[work[h].req].of \notin rows
         /\ proc[h] = "running" /\ \A g \in Hosts : g # h => work[g] = Idle
         /\ UNCHANGED <<child, op, answer, pending, sent, proc, inbox, outbox, torn>>
<1>1. /\ proc[h] = "running" /\ work[h].phase = phase /\ op[work[h].req].kind = kind
      /\ UNCHANGED <<child, op, answer, pending, sent, proc, inbox, outbox, torn>>
  BY DEF Works, callers, pipes
<1>2. work[h].req \in Requests /\ WorkFacts(work[h]) /\ work[h] \in Work
  BY <1>1, BusyRequest DEF Inductive, WorkInvariant, TypeOK
<1>3. \A g \in Hosts : g # h => work[g] = Idle
  BY <1>1, OneBusy DEF Inductive
<1>4. /\ op[work[h].req].of \in Requests
      /\ kind = "undo" => op[op[work[h].req].of].kind = "commit"
  BY <1>1, <1>2 DEF Inductive, OpInvariant
<1>5. /\ op[op[work[h].req].of].of \in Requests \cup {0}
      /\ kind = "undo" => op[op[work[h].req].of].of \in Requests
  <2>1. op[op[work[h].req].of] \in Op \cup {NoOp}
    BY <1>4 DEF Inductive, TypeOK
  <2>2. op[op[work[h].req].of].of \in Requests \cup {0}
    BY <2>1 DEF Op, NoOp
  <2> QED BY <1>4, <2>2 DEF Inductive, OpInvariant
<1>6. kind = "undo" => turn[op[op[work[h].req].of].of] # "none"
  BY <1>1, <1>2 DEF WorkFacts, Inductive, StoreInvariant
<1> QED BY <1>1, <1>2, <1>3, <1>4, <1>5, <1>6 DEF WorkFacts

LEMMA CommitMakesStep ==
  ASSUME Inductive, TypeOK', NEW h \in Hosts, CommitMakes(h) PROVE Inductive'
<1> DEFINE r == work[h].req
<1>1. /\ Works(h, "commit", "begun") /\ rows' = rows \cup {r}
      /\ UNCHANGED <<turn, tokens, done>>
  BY DEF CommitMakes
<1>2. /\ \A g \in Hosts : g # h => work'[g] = work[g]
      /\ work'[h].req = r /\ work'[h].phase = "made"
      /\ work'[h].result \in {"done", "part"}
      /\ left' = left \/ (work'[h].result = "part" /\ left' = left \cup {r})
  <2>1. work \in [Hosts -> Work]
    BY DEF Inductive, TypeOK
  <2>2. PICK x \in {"done", "part"} :
           /\ work' = [work EXCEPT ![h].phase = "made", ![h].result = x]
           /\ left' = left \/ (x = "part" /\ left' = left \cup {r})
    BY DEF CommitMakes, Leaves, LeavesNone
  <2> QED BY <2>1, <2>2 DEF Work
<1>3. WorkFacts(work[h])'
  <2>1. work[h].req \in Requests /\ op' = op
    BY <1>1, WorksFacts
  <2> QED BY <1>1, <1>2, <2>1, WorksFacts, Numbers DEF WorkFacts
<1>4. StoreInvariant'
  BY <1>1, WorksFacts DEF Inductive, StoreInvariant
<1>5. TokenInvariant'
  <2>1. Unmaking = {}
    BY <1>1, WorksFacts, OnlyWork
  <2> QED BY <1>1, <2>1, WorksFacts DEF Inductive, TokenInvariant
<1> QED BY <1>1, <1>2, <1>3, <1>4, <1>5, WorksFacts, ProgressStep

LEMMA CommitFailsStep ==
  ASSUME Inductive, TypeOK', NEW h \in Hosts, CommitFails(h) PROVE Inductive'
<1> DEFINE r == work[h].req
<1>1. /\ Works(h, "commit", "begun") /\ turn' = [turn EXCEPT ![op[r].of] = "failed"]
      /\ UNCHANGED <<rows, tokens, done>>
  BY DEF CommitFails
<1>2. /\ \A g \in Hosts : g # h => work'[g] = work[g]
      /\ work'[h].req = r /\ work'[h].phase = "answer" /\ work'[h].result = "nothing"
      /\ left' \subseteq left \cup {r}
  BY DEF CommitFails, Answers, Leaves, LeavesNone, Inductive, TypeOK
<1>3. /\ turn'[op[r].of] = "failed" /\ turn[op[r].of] \in {"parsed", "failed"}
      /\ \A p \in Requests : p # op[r].of => turn'[p] = turn[p]
  BY <1>1, WorksFacts DEF Inductive, TypeOK
<1>4. WorkFacts(work[h])'
  BY <1>1, <1>2, WorksFacts, Numbers DEF WorkFacts
<1>5. \A c \in tokens : op[c].of \in Requests
  BY DEF Inductive, StoreInvariant, OpInvariant, TypeOK
<1>6. StoreInvariant'
  BY <1>1, <1>3, <1>5, WorksFacts DEF Inductive, StoreInvariant
<1>7. TokenInvariant'
  <2>1. Unmaking = {}
    BY <1>1, WorksFacts, OnlyWork
  <2> QED BY <1>1, <1>3, <1>5, <2>1, WorksFacts DEF Inductive, TokenInvariant
<1> QED BY <1>1, <1>2, <1>3, <1>4, <1>6, <1>7, WorksFacts, ProgressStep

LEMMA CommitMarksStep ==
  ASSUME Inductive, TypeOK', NEW h \in Hosts, CommitMarks(h) PROVE Inductive'
<1> DEFINE r == work[h].req
<1>1. /\ Works(h, "commit", "made") /\ turn' = [turn EXCEPT ![op[r].of] = "committed"]
      /\ tokens' = tokens \cup {r} /\ done' = done \cup {r} /\ UNCHANGED rows
  BY DEF CommitMarks
<1>2. /\ \A g \in Hosts : g # h => work'[g] = work[g]
      /\ work'[h].req = r /\ work'[h].phase = "answer" /\ work'[h].result = work[h].result /\ left' = left
  BY DEF CommitMarks, Answers, LeavesNone, Inductive, TypeOK
<1>3. /\ turn'[op[r].of] = "committed" /\ turn[op[r].of] \in {"parsed", "failed"}
      /\ \A p \in Requests : p # op[r].of => turn'[p] = turn[p]
  BY <1>1, WorksFacts DEF Inductive, TypeOK
<1>4. WorkFacts(work[h])'
  <2>1. /\ r \in Requests /\ r \in done' /\ work'[h].result \in {"done", "part"}
        /\ work'[h].result = "done" => r \notin left'
    <3>1. /\ r \in Requests /\ work[h].result \in {"done", "part"}
          /\ work[h].result = "done" => r \notin left
      BY <1>1, BusyRequest DEF Works, Inductive, WorkInvariant, WorkFacts
    <3> HIDE DEF r
    <3> QED BY <1>1, <1>2, <3>1
  <2> QED BY <1>2, <2>1, Numbers DEF WorkFacts
<1>5. \A c \in tokens : op[c].of \in Requests
  BY DEF Inductive, StoreInvariant, OpInvariant, TypeOK
<1>6. StoreInvariant'
  BY <1>1, <1>3, <1>5, WorksFacts DEF Inductive, StoreInvariant
<1>7. TokenInvariant'
  <2>1. Unmaking = {}
    BY <1>1, WorksFacts, OnlyWork
  <2>2. \A c \in tokens : op[c].of \notin torn => op[c].of # op[r].of
    BY <1>3 DEF Inductive, TokenInvariant
  <2> QED BY <1>1, <1>3, <1>5, <2>1, <2>2, WorksFacts DEF Inductive, TokenInvariant
<1> QED BY <1>1, <1>2, <1>3, <1>4, <1>6, <1>7, WorksFacts, ProgressStep

LEMMA UndoTrashesStep ==
  ASSUME Inductive, TypeOK', NEW h \in Hosts, UndoTrashes(h) PROVE Inductive'
<1> DEFINE r == work[h].req
<1>1. /\ Works(h, "undo", "begun") /\ rows' = rows \ {op[r].of}
      /\ UNCHANGED <<turn, tokens, done>>
  BY DEF UndoTrashes
<1>2. /\ \A g \in Hosts : g # h => work'[g] = work[g]
      /\ work'[h].req = r /\ work'[h].phase = "made"
      /\ work'[h].result \in {"done", "part"}
      /\ left' = left \/ (work'[h].result = "part" /\ left' = left \cup {r})
  <2>1. work \in [Hosts -> Work]
    BY DEF Inductive, TypeOK
  <2>2. PICK x \in {"done", "part"} :
           /\ work' = [work EXCEPT ![h].phase = "made", ![h].result = x]
           /\ left' = left \/ (x = "part" /\ left' = left \cup {r})
    BY DEF UndoTrashes, Leaves, LeavesNone
  <2> QED BY <2>1, <2>2 DEF Work
<1>3. WorkFacts(work[h])'
  <2>1. work[h].req \in Requests /\ op' = op
    BY <1>1, WorksFacts
  <2> QED BY <1>1, <1>2, <2>1, WorksFacts, Numbers DEF WorkFacts
<1>4. StoreInvariant'
  BY <1>1, WorksFacts DEF Inductive, StoreInvariant
<1>5. TokenInvariant'
  <2>1. Unmaking = {} /\ Unmaking' = {op[r].of}
    BY <1>1, <1>2, WorksFacts, OnlyWork, OnlyWorkAfter
  <2> QED BY <1>1, <2>1, WorksFacts DEF Inductive, TokenInvariant
<1> QED BY <1>1, <1>2, <1>3, <1>4, <1>5, WorksFacts, ProgressStep

LEMMA UndoMarksStep ==
  ASSUME Inductive, TypeOK', NEW h \in Hosts, UndoMarks(h) PROVE Inductive'
<1> DEFINE r == work[h].req
           c0 == op[r].of
<1>1. /\ Works(h, "undo", "made") /\ turn' = [turn EXCEPT ![op[c0].of] = "undone"]
      /\ tokens' = tokens \ {c0} /\ done' = done \cup {r} /\ UNCHANGED rows
  BY WorksFacts DEF UndoMarks, CaptureOf
<1>2. /\ \A g \in Hosts : g # h => work'[g] = work[g]
      /\ work'[h].req = r /\ work'[h].phase = "answer" /\ work'[h].result = work[h].result /\ left' = left
  BY DEF UndoMarks, Answers, LeavesNone, Inductive, TypeOK
<1>3. /\ turn'[op[c0].of] = "undone" /\ turn[op[c0].of] # "none"
      /\ \A p \in Requests : p # op[c0].of => turn'[p] = turn[p]
  BY <1>1, WorksFacts DEF Inductive, TypeOK
<1>4. WorkFacts(work[h])'
  <2>1. /\ r \in Requests /\ r \in done' /\ work'[h].result \in {"done", "part"}
        /\ work'[h].result = "done" => r \notin left'
    <3>1. /\ r \in Requests /\ work[h].result \in {"done", "part"}
          /\ work[h].result = "done" => r \notin left
      BY <1>1, BusyRequest DEF Works, Inductive, WorkInvariant, WorkFacts
    <3> HIDE DEF r
    <3> QED BY <1>1, <1>2, <3>1
  <2> QED BY <1>2, <2>1, Numbers DEF WorkFacts
<1>5. \A c \in tokens : op[c].of \in Requests
  BY DEF Inductive, StoreInvariant, OpInvariant, TypeOK
<1>6. /\ op' = op /\ torn' = torn /\ c0 \in tokens /\ op[c0].of \in Requests
      /\ turn[op[c0].of] # "none" /\ Unmaking = {c0}
  BY <1>1, WorksFacts, OnlyWork
<1>7. StoreInvariant' /\ TokenInvariant'
  <2> HIDE DEF c0, r
  <2>1. \A p \in Requests : turn'[p] # "none" => turn[p] # "none"
    BY <1>3
  <2>2. \A p \in Requests : turn[p] # "none" => turn'[p] # "none"
    BY <1>3
  <2>3. StoreInvariant'
    BY <1>1, <1>5, <1>6, <2>1, <2>2 DEF Inductive, StoreInvariant
  <2>4. \A c \in tokens' : op[c].of \notin torn => op[c].of # op[c0].of /\ c # c0
    BY <1>1, <1>6 DEF Inductive, TokenInvariant
  <2>5. TokenInvariant'
    BY <1>1, <1>3, <1>5, <1>6, <2>4 DEF Inductive, TokenInvariant
  <2> QED BY <2>3, <2>5
<1>8. \A p \in Requests : turn[p] = "none" => turn'[p] = "none"
  BY <1>3
<1> HIDE DEF c0
<1> QED BY <1>1, <1>2, <1>4, <1>7, <1>8, WorksFacts, ProgressStep

\* The capture that a host had half done is torn, and the call refused.
LEMMA MarkThrowsStep ==
  ASSUME Inductive, TypeOK', NEW h \in Hosts, MarkThrows(h) PROVE Inductive'
<1> DEFINE r == work[h].req
<1>1. /\ proc[h] = "running" /\ work[h].phase = "made" /\ torn' = torn \cup Interrupted(h)
      /\ UNCHANGED <<child, op, answer, pending, sent, proc, inbox, outbox, store>>
  BY DEF MarkThrows, callers, pipes
<1>2. /\ \A g \in Hosts : g # h => work'[g] = work[g]
      /\ work'[h].req = r /\ work'[h].phase = "answer" /\ work'[h].result = "refused"
  BY DEF MarkThrows, Answers, Inductive, TypeOK
<1>3. r \in Requests
  BY <1>1, BusyRequest DEF Inductive
<1>4. WorkFacts(work[h])'
  BY <1>2, <1>3, Numbers DEF WorkFacts
<1>5. StoreInvariant'
  BY <1>1, InterruptedParsed DEF Inductive, StoreInvariant, store
<1>6. TokenInvariant'
  <2>1. \A g \in Hosts : g # h => work[g] = Idle
    BY <1>1, OneBusy DEF Inductive
  <2>2. ASSUME NEW c \in Unmaking PROVE op[c].of \in torn'
    BY <1>1, <2>1, <2>2, OnlyWork DEF Interrupted, CaptureOf
  <2> QED BY <1>1, <2>2 DEF Inductive, TokenInvariant, store
<1> QED BY <1>1, <1>2, <1>4, <1>5, <1>6, ProgressStep DEF store

\* The answer goes to the pipe, and says what has become of the call.
LEMMA RespondStep ==
  ASSUME Inductive, TypeOK', NEW h \in Hosts, Respond(h) PROVE Inductive'
<1> DEFINE r == work[h].req
           l == [req |-> r, result |-> work[h].result]
<1>1. /\ proc[h] = "running" /\ work[h].phase = "answer"
      /\ outbox' = [outbox EXCEPT ![h] = Append(@, l)]
      /\ UNCHANGED <<child, op, answer, pending, sent, proc, inbox, store, torn>>
  BY DEF Respond, callers, Emit
<1>2. \A g \in Hosts : work'[g] = Idle
  BY <1>1, OneBusy DEF Respond, Inductive, TypeOK
<1>3. /\ r \in Requests /\ l \in Line
      /\ l.result = "done" => r \in done /\ r \notin left
      /\ l.result = "part" => r \in done
      /\ l.result = "nothing" => r \notin done
  BY <1>1, BusyRequest DEF Inductive, WorkInvariant, WorkFacts, TypeOK, Work, Line
<1>4. \A g \in Hosts : \A m \in Elems(outbox'[g]) : m \in Elems(outbox[g]) \/ m = l
  BY <1>1, <1>3, AppendFacts DEF Inductive, TypeOK
<1>5. Idle.req = 0 /\ Idle.phase = "idle"
  BY DEF Idle
<1>6. \A q \in Requests : Untouched(q) => Untouched(q)'
  BY <1>1, <1>2, <1>4, <1>5, Numbers DEF Untouched, store
<1>7. LineInvariant'
  BY <1>1, <1>2, <1>3, <1>4, <1>5 DEF Inductive, LineInvariant, store
<1>8. WorkInvariant'
  BY <1>2, <1>5 DEF WorkInvariant, WorkFacts
<1>9. StoreInvariant'
  BY <1>1 DEF Inductive, StoreInvariant, store
<1>10. TokenInvariant'
  <2>1. Unmaking = {}
    BY <1>1, OneBusy, OnlyWork DEF Inductive
  <2> QED BY <1>1, <2>1 DEF Inductive, TokenInvariant, store
<1>11. NoNewCalls
  BY <1>1 DEF NoNewCalls, Inductive, InboxInvariant
<1>12. HostInvariant'
  BY <1>1, <1>2 DEF Inductive, HostInvariant, PendingIsAtTheChild
<1> QED BY <1>1, <1>6, <1>7, <1>8, <1>9, <1>10, <1>11, <1>12, CallsStay DEF Inductive

-----------------------------------------------------------------------------
(* Invariance.                                                             *)

LEMMA InitInductive == Init => Inductive
<1> SUFFICES ASSUME Init PROVE Inductive
  OBVIOUS
<1> USE DEF Init
<1>1. TypeOK
  <2>1. <<>> \in Seq(Requests \cup {0}) /\ <<>> \in Seq(Line)
    OBVIOUS
  <2>2. NoOp \in Op \cup {NoOp} /\ faults \in 0 .. MaxFaults
    BY BridgeAssumption DEF BridgeAssumption
  <2> QED BY <2>1, <2>2, WorkTypes, Numbers DEF TypeOK
<1>2. \A h \in Hosts : Elems(inbox[h]) = {} /\ Once(inbox[h]) /\ Elems(outbox[h]) = {}
  BY EmptyFacts
<1>3. Idle.req = 0 /\ Idle.phase = "idle" /\ NoOp.kind = "none"
  BY DEF Idle, NoOp
<1>4. OpInvariant
  BY <1>2, <1>3, Numbers DEF OpInvariant, Untouched
<1>5. HostInvariant
  BY DEF HostInvariant, PendingIsAtTheChild
<1>6. InboxInvariant /\ LineInvariant
  BY <1>2 DEF InboxInvariant, LineInvariant
<1>7. WorkInvariant
  BY <1>3 DEF WorkInvariant, WorkFacts
<1>8. StoreInvariant /\ TokenInvariant
  BY DEF StoreInvariant, TokenInvariant
<1> QED BY <1>1, <1>4, <1>5, <1>6, <1>7, <1>8 DEF Inductive

LEMMA NextInductive == Inductive /\ [Next]_vars => Inductive'
<1> SUFFICES ASSUME Inductive, [Next]_vars PROVE Inductive'
  OBVIOUS
<1>1. TypeOK'
  BY TypeStep DEF Inductive
<1>2. ASSUME NEW r \in Requests, NEW o \in Op, Caller(r, o) PROVE Inductive'
  BY <1>1, <1>2, InvokeStep, InvokeBreaksStep, InvokeSpawnsStep DEF Caller
<1>3. ASSUME NEW r \in Requests, Timeout(r) PROVE Inductive'
  BY <1>1, <1>3, TimeoutStep
<1>4. ASSUME NEW h \in Hosts, Transport(h) PROVE Inductive'
  BY <1>1, <1>4, HalfLineStep, LineEndsStep, ExitEventStep DEF Transport
<1>5. ASSUME NEW h \in Hosts, Host(h) PROVE Inductive'
  BY <1>1, <1>5, EarlyAnswerStep, HandleStep, CommitMakesStep, CommitFailsStep,
     CommitMarksStep, UndoTrashesStep, UndoMarksStep, MarkThrowsStep, RespondStep,
     HostExitsStep, PrintsStrayStep
     DEF Host
<1>6. CASE Close
  BY <1>1, <1>6, CloseStep
<1>7. CASE UNCHANGED vars
  <2>1. /\ UNCHANGED <<child, op, answer, pending, sent, proc, inbox, work, outbox, store, torn>>
    BY <1>7 DEF vars, hosts, callers, pipes
  <2>2. NoNewAnswers /\ NoNewCalls
    BY <2>1 DEF NoNewAnswers, NoNewCalls, Inductive, InboxInvariant
  <2>3. HostInvariant'
    BY <2>1 DEF Inductive, HostInvariant, PendingIsAtTheChild
  <2> QED BY <1>1, <2>1, <2>2, <2>3, StoreStays, CallsStay DEF Inductive
<1> QED BY <1>2, <1>3, <1>4, <1>5, <1>6, <1>7 DEF Next

\* The invariant holds of every state: a call is with one host at most, and
\* what its line says of it is so.
THEOREM Invariance == Spec => []Inductive
<1> QED BY InitInductive, NextInductive, PTL DEF Spec

\* Every variable has its type.
THEOREM TypeCorrect == Spec => []TypeOK
<1>1. Inductive => TypeOK
  BY DEF Inductive
<1> QED BY <1>1, Invariance, PTL

\* At most one host process works on the database, whichever host failed, was
\* killed, closed or replaced (DesktopLocalCoreProcessTransport).
THEOREM OneHostHolds == Spec => []OneHost
<1>1. Inductive => OneHost
  BY DEF Inductive, HostInvariant, OneHost
<1> QED BY <1>1, Invariance, PTL

\* No call waits on a host that the transport has forgotten.
THEOREM PendingHolds == Spec => []PendingIsAtTheChild
<1>1. Inductive => PendingIsAtTheChild
  BY DEF Inductive, HostInvariant
<1> QED BY <1>1, Invariance, PTL

-----------------------------------------------------------------------------
(* The callers see the service.                                            *)

Open == {p \in Requests : turn[p] \in {"parsed", "failed"} /\ p \notin torn}
Live == {c \in (rows \ Making) \cup Unmaking : op[c].of \notin torn}

\* A call is answered.
LEMMA ReplyMaps ==
  ASSUME Inductive, NEW r \in pending, NEW x \in {"done", "part", "nothing", "error"},
         x = "done" => r \in done \ left, x = "part" => r \in done, x = "nothing" => r \notin done,
         answer' = [answer EXCEPT ![r] = x],
         UNCHANGED <<op, work, store, torn>>
  PROVE  Service!Next
<1>1. r \in Requests /\ op[r] # NoOp /\ answer[r] = "none"
  BY DEF Inductive, TypeOK, HostInvariant, OpInvariant
<1>2. Open' = Open /\ Live' = Live
  BY DEF Open, Live, Making, Unmaking, store
<1>3. Service!Reply(r)
  BY <1>1, <1>2 DEF Service!Reply, Service!NoOp, NoOp, Open, Live, store
<1> QED BY <1>1, <1>3 DEF Service!Next

LEMMA StutterMaps ==
  ASSUME UNCHANGED <<op, done, left, answer, torn>>, Open' = Open, Live' = Live
  PROVE  UNCHANGED Service!vars
BY DEF Service!vars, Open, Live

\* What is active and whole is a commit.
LEMMA LiveCommits ==
  ASSUME Inductive
  PROVE  \A c \in rows \cup Unmaking : c \in Requests /\ op[c].kind = "commit"
<1>1. ASSUME NEW c \in Unmaking PROVE c \in Requests /\ op[c].kind = "commit"
  <2>1. PICK h \in Hosts : /\ work[h].phase = "made" /\ op[work[h].req].kind = "undo"
                           /\ c = op[work[h].req].of
    BY WhoMakes
  <2> QED BY <2>1, BusyRequest DEF Inductive, OpInvariant
<1> QED BY <1>1 DEF Inductive, StoreInvariant, TypeOK

LEMMA AskMaps ==
  ASSUME Inductive, TypeOK', NEW r \in Requests, NEW o \in Op, Asks(r, o) PROVE Service!Next
<1>1. /\ op[r] = NoOp /\ op' = [op EXCEPT ![r] = o]
      /\ UNCHANGED <<answer, work, turn, rows, done, left, torn>>
  BY DEF Asks, store
<1>2. \A q \in Requests : op[q].kind # "none" => op'[q] = op[q]
  BY <1>1, AskStep DEF NoOp
<1>3. Making' = Making /\ Unmaking' = Unmaking
  <2>1. \A h \in Hosts : work[h].phase = "made" => op'[work[h].req] = op[work[h].req]
    BY <1>2, BusyRequest DEF WorkFacts, Inductive, WorkInvariant
  <2> QED BY <1>1, <2>1 DEF Making, Unmaking
<1>4. Open' = Open
  BY <1>1 DEF Open
<1>5. Live' = Live
  <2>1. \A c \in rows \cup Unmaking : op'[c] = op[c]
    BY <1>2, LiveCommits
  <2> QED BY <1>1, <1>3, <2>1 DEF Live
<1>6. Service!Call(r)
  BY <1>1, <1>4, <1>5 DEF Service!Call, Service!NoOp, Service!Op, NoOp, Op, Open, Live
<1> QED BY <1>6 DEF Service!Next

\* A host that stops in the middle of its work breaks the capture it has.
LEMMA StopMaps ==
  ASSUME Inductive, NEW h \in Hosts, proc[h] = "running",
         \A g \in Hosts : g # h => work'[g] = work[g], work'[h].phase # "made",
         torn' = torn \cup Interrupted(h), UNCHANGED <<op, store>>
  PROVE  /\ Open' = Open \ Interrupted(h)
         /\ Live' = {c \in Live : CaptureOf(c) \notin Interrupted(h)}
<1>1. /\ \A g \in Hosts : g # h => work[g] = Idle /\ work'[g] = Idle
      /\ UNCHANGED <<turn, rows>>
  BY OneBusy DEF Inductive, store
<1>2. Making' = {} /\ Unmaking' = {}
  BY <1>1, OnlyWorkAfter
<1>3. Open' = Open \ Interrupted(h)
  BY <1>1 DEF Open
<1>4. Live' = {c \in rows : op[c].of \notin torn \cup Interrupted(h)}
  BY <1>1, <1>2 DEF Live
<1>5. \A c \in rows \cup Unmaking : CaptureOf(c) = op[c].of
  BY LiveCommits DEF CaptureOf
<1>6. \A c : c \in rows /\ op[c].of \notin torn \cup Interrupted(h)
             <=> c \in Live /\ op[c].of \notin Interrupted(h)
  <2>1. CASE work[h].phase # "made"
    BY <1>1, <2>1, OnlyWork DEF Live
  <2>2. CASE work[h].phase = "made" /\ op[work[h].req].kind = "commit"
    <3>1. /\ Making = {work[h].req} /\ Unmaking = {} /\ work[h].req \in rows
          /\ Interrupted(h) = {op[work[h].req].of}
      BY <1>1, <2>2, OnlyWork DEF Inductive, WorkInvariant, WorkFacts, Interrupted, CaptureOf
    <3> QED BY <3>1 DEF Live
  <2>3. CASE work[h].phase = "made" /\ op[work[h].req].kind = "undo"
    <3> DEFINE c0 == op[work[h].req].of
    <3>1. /\ Making = {} /\ Unmaking = {c0} /\ Interrupted(h) = {op[c0].of}
      BY <1>1, <2>3, OnlyWork DEF Interrupted, CaptureOf
    <3> HIDE DEF c0
    <3> QED BY <3>1 DEF Live
  <2>4. work[h].phase = "made" => op[work[h].req].kind \in {"commit", "undo"}
    BY DEF Inductive, WorkInvariant, WorkFacts
  <2> QED BY <2>1, <2>2, <2>3, <2>4
<1>7. Live' = {c \in Live : op[c].of \notin Interrupted(h)}
  BY <1>4, <1>6
<1>8. \A c \in Live : CaptureOf(c) = op[c].of
  BY <1>5 DEF Live
<1> QED BY <1>3, <1>7, <1>8

\* Calls end in errors and captures break.
LEMMA FailMaps ==
  ASSUME Inductive, NEW P \in SUBSET Requests, NEW R \in SUBSET pending,
         answer' = [r \in Requests |-> IF r \in R THEN "error" ELSE answer[r]],
         torn' = torn \cup P, Open' = Open \ P, Live' = {c \in Live : CaptureOf(c) \notin P},
         UNCHANGED <<op, done, left>>
  PROVE  Service!Next
<1>1. R \in SUBSET Requests /\ \A r \in R : op[r] # NoOp /\ answer[r] = "none"
  BY DEF Inductive, TypeOK, HostInvariant, OpInvariant
<1>2. \A c : Service!CaptureOf(c) = CaptureOf(c)
  BY DEF Service!CaptureOf, CaptureOf
<1>3. Service!Fail(R, P)
  BY <1>1, <1>2 DEF Service!Fail, Service!NoOp, NoOp, Open, Live
<1> QED BY <1>1, <1>3 DEF Service!Next

\* The transport rejects what is pending and kills its host.
LEMMA RejectMaps ==
  ASSUME Inductive, NEW p, RejectAll, KillChild(p), UNCHANGED store PROVE Service!Next
<1>1. /\ answer' = [r \in Requests |-> IF r \in pending THEN "error" ELSE answer[r]]
      /\ op' = op /\ UNCHANGED <<turn, rows, done, left>>
  BY DEF RejectAll, store
<1>2. CASE child # 0 /\ proc[child] = "running"
  <2>1. /\ child \in Hosts /\ torn' = torn \cup Interrupted(child)
        /\ work' = [work EXCEPT ![child] = Idle]
    BY <1>2 DEF KillChild, Dies, Inductive, TypeOK
  <2>2. /\ \A g \in Hosts : g # child => work'[g] = work[g]
        /\ work'[child].phase # "made"
    BY <2>1 DEF Inductive, TypeOK, Idle
  <2>3. Interrupted(child) \in SUBSET Requests
    BY <2>1, InterruptedType DEF Inductive
  <2>4. /\ Open' = Open \ Interrupted(child)
        /\ Live' = {c \in Live : CaptureOf(c) \notin Interrupted(child)}
    BY <1>1, <1>2, <2>1, <2>2, StopMaps
  <2> QED BY <1>1, <2>1, <2>3, <2>4, FailMaps
<1>3. CASE ~(child # 0 /\ proc[child] = "running")
  <2>1. torn' = torn /\ work' = work
    BY <1>3 DEF KillChild
  <2>2. Open' = Open /\ Live' = Live
    BY <1>1, <2>1 DEF Open, Live, Making, Unmaking
  <2>3. {} \in SUBSET Requests /\ torn' = torn \cup {} /\ Open' = Open \ {}
        /\ Live' = {c \in Live : CaptureOf(c) \notin {}}
    BY <2>1, <2>2
  <2> QED BY <1>1, <2>3, FailMaps
<1> QED BY <1>2, <1>3

\* A call has its effect.
LEMMA PerformMaps ==
  ASSUME NEW r \in Requests, r \notin done, done' = done \cup {r},
         Service!Write(r) \/ Service!Parse(r) \/ Service!Commit(r) \/ Service!Undo(r)
         \/ Service!PerformTorn(r),
         UNCHANGED <<op, answer, left, torn>>
  PROVE  Service!Next
<1>1. Service!Perform(r)
  BY DEF Service!Perform
<1> QED BY <1>1 DEF Service!Next

\* A commit or an undo leaves an entity, or nothing is seen of it.
LEMMA LeaveMaps ==
  ASSUME NEW r \in Requests, r \notin done, left' \in {left, left \cup {r}},
         \/ op[r].kind = "commit" /\ op[r].of \in Open
         \/ op[r].kind = "undo" /\ op[r].of \in Live
         \/ op[r].kind \in {"commit", "undo"} /\ CaptureOf(r) \in torn,
         UNCHANGED <<op, done, answer, torn>>, Open' = Open, Live' = Live
  PROVE  [Service!Next]_(Service!vars)
<1>1. CASE left' = left
  BY <1>1, StutterMaps
<1>2. CASE left' = left \cup {r}
  <2>1. Service!Leave(r)
    BY <1>2 DEF Service!Leave, Service!CaptureOf, CaptureOf, Open, Live
  <2> QED BY <2>1 DEF Service!Next
<1> QED BY <1>1, <1>2

LEMMA HandleMaps ==
  ASSUME Inductive, NEW h \in Hosts, Handle(h) PROVE [Service!Next]_(Service!vars)
<1> SUFFICES ASSUME NEW r \in Requests \cup {0}, r = Head(inbox[h])
             PROVE  [Service!Next]_(Service!vars)
  BY ReadType DEF Handle, Inductive
<1>1. /\ Reads(h) /\ r # 0 /\ UNCHANGED outbox
      /\ HandleWrite(h, r) \/ HandleParse(h, r) \/ BeginCommit(h, r)
         \/ BeginUndo(h, r) \/ Refuse(h, r)
  BY DEF Handle
<1>2. /\ UNCHANGED <<op, answer, torn>> /\ proc[h] = "running" /\ work[h].phase = "idle"
      /\ r \in Requests /\ Untouched(r)
  BY <1>1, ReadFacts
<1>3. /\ rows' = rows /\ work'[h].phase # "made" /\ \A g \in Hosts : g # h => work'[g] = work[g]
      /\ left' = left
      /\ \/ UNCHANGED <<turn, done>>
         \/ done' = done \cup {r} /\ op[r].kind = "write" /\ turn' = turn
         \/ done' = done \cup {r} /\ op[r].kind = "parse" /\ turn' = [turn EXCEPT ![r] = "parsed"]
  <2>1. work \in [Hosts -> Work]
    BY DEF Inductive, TypeOK
  <2>2. CASE HandleWrite(h, r)
    BY <2>1, <2>2 DEF HandleWrite, Answers
  <2>3. CASE HandleParse(h, r)
    BY <2>1, <2>3 DEF HandleParse, Answers
  <2>4. CASE BeginCommit(h, r) \/ BeginUndo(h, r)
    BY <2>1, <2>4 DEF BeginCommit, BeginUndo, Begins, store
  <2>5. CASE Refuse(h, r)
    BY <2>1, <2>5 DEF Refuse, Answers, store
  <2> QED BY <1>1, <2>2, <2>3, <2>4, <2>5
<1>4. \A g \in Hosts : g # h => work[g] = Idle /\ work'[g] = Idle
  BY <1>2, <1>3, OneBusy DEF Inductive
<1>5. Live' = Live
  <2>1. Making = {} /\ Unmaking = {} /\ Making' = {} /\ Unmaking' = {}
    BY <1>2, <1>3, <1>4, OnlyWork, OnlyWorkAfter
  <2> QED BY <1>2, <1>3, <2>1 DEF Live
<1>6. CASE UNCHANGED <<turn, done>>
  <2>1. Open' = Open
    BY <1>2, <1>6 DEF Open
  <2> QED BY <1>2, <1>3, <1>5, <1>6, <2>1, StutterMaps
<1>7. CASE done' = done \cup {r} /\ op[r].kind = "write" /\ turn' = turn
  <2>1. Open' = Open
    BY <1>2, <1>7 DEF Open
  <2>2. Service!Write(r)
    BY <1>5, <1>7, <2>1 DEF Service!Write, Open, Live
  <2> QED BY <1>2, <1>3, <1>7, <2>2, PerformMaps DEF Untouched
<1>8. CASE done' = done \cup {r} /\ op[r].kind = "parse" /\ turn' = [turn EXCEPT ![r] = "parsed"]
  <2>1. r \notin torn
    BY <1>2 DEF Untouched, Inductive, StoreInvariant
  <2>2. Open' = Open \cup {r}
    BY <1>2, <1>8, <2>1 DEF Open, Inductive, TypeOK
  <2>3. Service!Parse(r)
    BY <1>5, <1>8, <2>2 DEF Service!Parse, Open, Live
  <2> QED BY <1>2, <1>3, <1>8, <2>3, PerformMaps DEF Untouched
<1> QED BY <1>3, <1>6, <1>7, <1>8

\* The entities are active for the callers when their commit is marked.
LEMMA CommitMakesMaps ==
  ASSUME Inductive, NEW h \in Hosts, CommitMakes(h) PROVE [Service!Next]_(Service!vars)
<1> DEFINE r == work[h].req
<1>1. /\ Works(h, "commit", "begun") /\ rows' = rows \cup {r} /\ UNCHANGED <<turn, done>>
      /\ left' \in {left, left \cup {r}}
  BY DEF CommitMakes, Leaves, LeavesNone
<1>2. /\ \A g \in Hosts : g # h => work'[g] = work[g]
      /\ work'[h].req = r /\ work'[h].phase = "made"
  BY <1>1, WorksFacts DEF CommitMakes, Inductive, TypeOK, Work
<1>3. Making = {} /\ Unmaking = {} /\ Making' = {r} /\ Unmaking' = {}
  BY <1>1, <1>2, WorksFacts, OnlyWork, OnlyWorkAfter
<1>4. /\ r \notin rows /\ UNCHANGED <<op, answer, torn>> /\ r \in Requests /\ r \notin done
      /\ op[r].kind = "commit" /\ op[r].of \in Requests
      /\ turn[op[r].of] \in {"parsed", "failed"}
  BY <1>1, WorksFacts
<1>5. Open' = Open /\ Live' = Live
  BY <1>1, <1>3, <1>4 DEF Open, Live
<1>6. op[r].of \in Open \/ CaptureOf(r) \in torn
  BY <1>4 DEF Open, CaptureOf
<1> HIDE DEF r
<1> QED BY <1>1, <1>4, <1>5, <1>6, LeaveMaps

LEMMA CommitFailsMaps ==
  ASSUME Inductive, NEW h \in Hosts, CommitFails(h) PROVE [Service!Next]_(Service!vars)
<1> DEFINE r == work[h].req
<1>1. /\ Works(h, "commit", "begun") /\ turn' = [turn EXCEPT ![op[r].of] = "failed"]
      /\ UNCHANGED <<rows, done>> /\ left' \in {left, left \cup {r}}
  BY DEF CommitFails, Leaves, LeavesNone
<1>2. /\ \A g \in Hosts : g # h => work'[g] = work[g]
      /\ work'[h].req = r /\ work'[h].phase = "answer"
  BY DEF CommitFails, Answers, Inductive, TypeOK
<1>3. Making = {} /\ Unmaking = {} /\ Making' = {} /\ Unmaking' = {}
  BY <1>1, <1>2, WorksFacts, OnlyWork, OnlyWorkAfter
<1>4. /\ UNCHANGED <<op, answer, torn>> /\ op[r].of \in Requests
      /\ turn[op[r].of] \in {"parsed", "failed"}
      /\ r \in Requests /\ r \notin done /\ op[r].kind = "commit"
  BY <1>1, WorksFacts
<1>5. \A p \in Requests : turn'[p] \in {"parsed", "failed"} <=> turn[p] \in {"parsed", "failed"}
  BY <1>1, <1>4 DEF Inductive, TypeOK
<1>6. Open' = Open /\ Live' = Live
  BY <1>1, <1>3, <1>4, <1>5 DEF Open, Live
<1>7. op[r].of \in Open \/ CaptureOf(r) \in torn
  BY <1>4 DEF Open, CaptureOf
<1> HIDE DEF r
<1> QED BY <1>1, <1>4, <1>6, <1>7, LeaveMaps

LEMMA CommitMarksMaps ==
  ASSUME Inductive, NEW h \in Hosts, CommitMarks(h) PROVE Service!Next
<1> SUFFICES ASSUME NEW r \in Requests, r = work[h].req PROVE Service!Next
  BY WorksFacts DEF CommitMarks
<1>1. /\ Works(h, "commit", "made") /\ turn' = [turn EXCEPT ![op[r].of] = "committed"]
      /\ done' = done \cup {r} /\ UNCHANGED <<rows, left>>
  BY DEF CommitMarks, LeavesNone
<1>2. /\ \A g \in Hosts : g # h => work'[g] = work[g]
      /\ work'[h].req = r /\ work'[h].phase = "answer"
  BY DEF CommitMarks, Answers, Inductive, TypeOK
<1>3. Making = {r} /\ Unmaking = {} /\ Making' = {} /\ Unmaking' = {}
  BY <1>1, <1>2, WorksFacts, OnlyWork, OnlyWorkAfter
<1>4. /\ UNCHANGED <<op, answer, torn>> /\ op[r].of \in Requests
      /\ turn[op[r].of] \in {"parsed", "failed"} /\ r \in Requests /\ r \notin done
      /\ r \in rows /\ op[r].kind = "commit"
  BY <1>1, WorksFacts
<1>5. CASE op[r].of \notin torn
  <2>1. op[r].of \in Open /\ Open' = Open \ {op[r].of}
    BY <1>1, <1>4, <1>5 DEF Open, Inductive, TypeOK
  <2>2. Live' = Live \cup {r}
    BY <1>1, <1>3, <1>4, <1>5 DEF Live
  <2>3. Service!Commit(r)
    BY <1>4, <2>1, <2>2 DEF Service!Commit, Open, Live
  <2> QED BY <1>1, <1>4, <2>3, PerformMaps
<1>6. CASE op[r].of \in torn
  <2>1. Open' = Open
    BY <1>1, <1>4, <1>6 DEF Open, Inductive, TypeOK
  <2>2. Live' = Live
    BY <1>1, <1>3, <1>4, <1>6 DEF Live
  <2>3. Service!PerformTorn(r)
    BY <1>4, <1>6, <2>1, <2>2 DEF Service!PerformTorn, Service!CaptureOf, Open, Live
  <2> QED BY <1>1, <1>4, <2>3, PerformMaps
<1> QED BY <1>5, <1>6

\* The entities are gone for the callers when their undo is marked.
LEMMA UndoTrashesMaps ==
  ASSUME Inductive, NEW h \in Hosts, UndoTrashes(h) PROVE [Service!Next]_(Service!vars)
<1> DEFINE r == work[h].req
           c0 == op[r].of
<1>1. /\ Works(h, "undo", "begun") /\ rows' = rows \ {c0} /\ UNCHANGED <<turn, done>>
      /\ left' \in {left, left \cup {r}}
  BY DEF UndoTrashes, Leaves, LeavesNone
<1>2. /\ \A g \in Hosts : g # h => work'[g] = work[g]
      /\ work'[h].req = r /\ work'[h].phase = "made"
  BY <1>1, WorksFacts DEF UndoTrashes, Inductive, TypeOK, Work
<1>3. Making = {} /\ Unmaking = {} /\ Making' = {} /\ Unmaking' = {c0}
  BY <1>1, <1>2, WorksFacts, OnlyWork, OnlyWorkAfter
<1>4. /\ UNCHANGED <<op, answer, torn>> /\ c0 \in tokens
      /\ r \in Requests /\ r \notin done /\ op[r].kind = "undo" /\ op[r].of = c0
  BY <1>1, WorksFacts
<1> HIDE DEF c0, r
<1>5. op[c0].of \notin torn => c0 \in rows
  BY <1>3, <1>4 DEF Inductive, TokenInvariant
<1>6. Open' = Open /\ Live' = Live
  BY <1>1, <1>3, <1>4, <1>5 DEF Open, Live
<1>7. c0 \in Live \/ CaptureOf(r) \in torn
  BY <1>3, <1>4, <1>5 DEF Live, CaptureOf
<1> QED BY <1>1, <1>4, <1>6, <1>7, LeaveMaps

LEMMA UndoMarksMaps ==
  ASSUME Inductive, NEW h \in Hosts, UndoMarks(h) PROVE Service!Next
<1> SUFFICES ASSUME NEW r \in Requests, r = work[h].req PROVE Service!Next
  BY WorksFacts DEF UndoMarks
<1> DEFINE c0 == op[r].of
<1>1. /\ Works(h, "undo", "made") /\ turn' = [turn EXCEPT ![op[c0].of] = "undone"]
      /\ done' = done \cup {r} /\ UNCHANGED <<rows, left>>
  BY WorksFacts DEF UndoMarks, CaptureOf, LeavesNone
<1>2. /\ \A g \in Hosts : g # h => work'[g] = work[g]
      /\ work'[h].req = r /\ work'[h].phase = "answer"
  BY DEF UndoMarks, Answers, Inductive, TypeOK
<1>3. Making = {} /\ Unmaking = {c0} /\ Making' = {} /\ Unmaking' = {}
  BY <1>1, <1>2, WorksFacts, OnlyWork, OnlyWorkAfter
<1>4. /\ UNCHANGED <<op, answer, torn>> /\ op[c0].of \in Requests /\ c0 \in tokens
      /\ r \in Requests /\ r \notin done /\ c0 \notin rows
      /\ op[r].kind = "undo" /\ c0 = op[r].of
  BY <1>1, WorksFacts
<1> HIDE DEF c0
<1>5. CASE op[c0].of \notin torn
  <2>1. turn[op[c0].of] = "committed"
    BY <1>4, <1>5 DEF Inductive, TokenInvariant
  <2>2. Open' = Open
    BY <1>1, <1>4, <2>1 DEF Open, Inductive, TypeOK
  <2>3. c0 \in Live /\ Live' = Live \ {c0}
    BY <1>1, <1>3, <1>4, <1>5 DEF Live
  <2>4. Service!Undo(r)
    BY <1>4, <2>2, <2>3 DEF Service!Undo, Open, Live
  <2> QED BY <1>1, <1>4, <2>4, PerformMaps
<1>6. CASE op[c0].of \in torn
  <2>1. Open' = Open
    BY <1>1, <1>4, <1>6 DEF Open, Inductive, TypeOK
  <2>2. Live' = Live
    BY <1>1, <1>3, <1>4, <1>6 DEF Live
  <2>3. Service!PerformTorn(r)
    BY <1>4, <1>6, <2>1, <2>2 DEF Service!PerformTorn, Service!CaptureOf, Open, Live
  <2> QED BY <1>1, <1>4, <2>3, PerformMaps
<1> QED BY <1>5, <1>6

\* A host that exits, or whose last transaction throws.
LEMMA BreakMaps ==
  ASSUME Inductive, NEW h \in Hosts, HostExits(h) \/ MarkThrows(h) PROVE Service!Next
<1>1. /\ proc[h] = "running" /\ torn' = torn \cup Interrupted(h)
      /\ UNCHANGED <<op, answer, store>>
      /\ \A g \in Hosts : g # h => work'[g] = work[g]
      /\ work'[h].phase # "made"
  BY DEF HostExits, MarkThrows, Dies, Answers, Idle, callers, Inductive, TypeOK
<1>2. /\ Open' = Open \ Interrupted(h)
      /\ Live' = {c \in Live : CaptureOf(c) \notin Interrupted(h)}
  BY <1>1, StopMaps
<1>3. Interrupted(h) \in SUBSET Requests
  BY InterruptedType DEF Inductive
<1>4. answer' = [r \in Requests |-> IF r \in {} THEN "error" ELSE answer[r]]
  BY <1>1 DEF Inductive, TypeOK
<1>5. done' = done /\ left' = left
  BY <1>1 DEF store
<1>6. {} \in SUBSET pending
  OBVIOUS
<1> QED BY <1>1, <1>2, <1>3, <1>4, <1>5, <1>6, FailMaps

\* A line that is a response answers a call that waits, or nobody.
LEMMA LineEndsMaps ==
  ASSUME Inductive, NEW h \in Hosts, LineEnds(h) PROVE [Service!Next]_(Service!vars)
<1> DEFINE l == Head(outbox[h])
<1>1. outbox[h] \in Seq(Line) /\ outbox[h] # <<>> /\ UNCHANGED store
  BY DEF Inductive, TypeOK, LineEnds
<1>2. l \in Line /\ l \in Elems(outbox[h])
  BY <1>1, TailFacts
<1>3. CASE l.result # "stray" /\ Settle(l) /\ UNCHANGED <<op, work, torn>>
  <2> HIDE DEF l
  <2>1. CASE l.req \notin pending
    <3>1. UNCHANGED answer
      BY <1>3, <2>1 DEF Settle
    <3>2. Open' = Open /\ Live' = Live /\ done' = done /\ left' = left
      BY <1>1, <1>3 DEF Open, Live, Making, Unmaking, store
    <3> QED BY <1>3, <3>1, <3>2, StutterMaps
  <2>2. CASE l.req \in pending
    <3>1. l.req # 0 /\ l.result \in {"done", "part", "nothing", "refused"}
      BY <1>2, <1>3, <2>2, Numbers DEF Inductive, TypeOK, Line, Result
    <3>2. /\ l.result = "done" => l.req \in done \ left
          /\ l.result = "part" => l.req \in done
          /\ l.result = "nothing" => l.req \notin done
      BY <1>2, <3>1 DEF Inductive, LineInvariant
    <3>3. CASE l.result = "refused"
      <4>1. answer' = [answer EXCEPT ![l.req] = "error"]
        BY <1>3, <2>2, <3>3 DEF Settle
      <4> QED BY <1>1, <1>3, <2>2, <4>1, ReplyMaps
    <3>4. CASE l.result \in {"done", "part", "nothing"}
      <4>1. answer' = [answer EXCEPT ![l.req] = l.result]
        BY <1>3, <2>2, <3>4 DEF Settle
      <4>2. CASE l.result = "done"
        BY <1>1, <1>3, <2>2, <3>2, <4>1, <4>2, ReplyMaps
      <4>3. CASE l.result = "nothing"
        BY <1>1, <1>3, <2>2, <3>2, <4>1, <4>3, ReplyMaps
      <4>4. CASE l.result = "part"
        BY <1>1, <1>3, <2>2, <3>2, <4>1, <4>4, ReplyMaps
      <4> QED BY <3>4, <4>2, <4>3, <4>4
    <3> QED BY <3>1, <3>3, <3>4
  <2> QED BY <2>1, <2>2
<1>4. CASE FailChild(proc)
  BY <1>1, <1>4, RejectMaps DEF FailChild
<1> QED BY <1>3, <1>4 DEF LineEnds

\* What changes neither the store nor what the callers see.
LEMMA SilentMaps ==
  ASSUME UNCHANGED <<op, answer, work, store, torn>> PROVE UNCHANGED Service!vars
<1>1. Open' = Open /\ Live' = Live /\ done' = done /\ left' = left
  BY DEF Open, Live, Making, Unmaking, store
<1> QED BY <1>1, StutterMaps

LEMMA InitMaps == Init => Service!Init
<1> SUFFICES ASSUME Init PROVE Service!Init
  OBVIOUS
<1>1. Open = {}
  BY DEF Init, Open
<1>2. Unmaking = {} /\ rows = {}
  BY DEF Init, Unmaking, Idle
<1>3. Live = {}
  BY <1>2 DEF Live
<1> QED BY <1>1, <1>3 DEF Init, Service!Init, Service!NoOp, NoOp, Open, Live

LEMMA NextMaps == Inductive /\ Inductive' /\ [Next]_vars => [Service!Next]_(Service!vars)
<1> SUFFICES ASSUME Inductive, Inductive', [Next]_vars PROVE [Service!Next]_(Service!vars)
  OBVIOUS
<1>1. TypeOK'
  BY DEF Inductive
<1>2. ASSUME NEW r \in Requests, NEW o \in Op, Caller(r, o) PROVE Service!Next
  <2>1. Asks(r, o)
    BY <1>2 DEF Caller, Invoke, InvokeBreaks, InvokeSpawns
  <2> QED BY <1>1, <2>1, AskMaps
<1>3. ASSUME NEW r \in Requests, Timeout(r) PROVE Service!Next
  BY <1>3, ReplyMaps DEF Timeout, hosts, callers
<1>4. ASSUME NEW h \in Hosts, HalfLine(h) PROVE UNCHANGED Service!vars
  BY <1>4, SilentMaps DEF HalfLine, hosts, callers
<1>5. ASSUME NEW h \in Hosts, ExitEvent(h) PROVE Service!Next
  BY <1>5, RejectMaps DEF ExitEvent, FailChild
<1>6. CASE Close
  BY <1>6, RejectMaps DEF Close
<1>7. ASSUME NEW h \in Hosts, InitRuntime(h) \/ NotReady(h) \/ PrintsStray(h)
      PROVE  UNCHANGED Service!vars
  BY <1>7, SilentMaps DEF InitRuntime, NotReady, PrintsStray, Reads, hosts, callers
<1>8. ASSUME NEW h \in Hosts, Respond(h) PROVE UNCHANGED Service!vars
  <2>1. /\ proc[h] = "running" /\ work[h].phase = "answer"
        /\ UNCHANGED <<op, answer, turn, rows, done, left, torn>>
    BY <1>8 DEF Respond, callers, store
  <2>2. \A g \in Hosts : work'[g] = Idle /\ (g # h => work[g] = Idle)
    BY <1>8, <2>1, OneBusy DEF Respond, Inductive, TypeOK
  <2>3. Making = {} /\ Unmaking = {} /\ Making' = {} /\ Unmaking' = {}
    BY <2>1, <2>2, OnlyWork, OnlyWorkAfter DEF Idle
  <2>4. Open' = Open /\ Live' = Live
    BY <2>1, <2>3 DEF Open, Live
  <2> QED BY <2>1, <2>4, StutterMaps
<1>9. ASSUME NEW h \in Hosts, Host(h) PROVE [Service!Next]_(Service!vars)
  BY <1>7, <1>8, <1>9, HandleMaps, CommitMakesMaps, CommitFailsMaps, CommitMarksMaps,
     UndoTrashesMaps, UndoMarksMaps, BreakMaps
     DEF Host
<1>10. ASSUME NEW h \in Hosts, Transport(h) PROVE [Service!Next]_(Service!vars)
  BY <1>4, <1>5, <1>10, LineEndsMaps DEF Transport
<1>11. CASE UNCHANGED vars
  BY <1>11, SilentMaps DEF vars, callers, hosts
<1> QED BY <1>2, <1>3, <1>6, <1>9, <1>10, <1>11 DEF Next

\* What the callers see is LocalCoreService (fake-local-core.ts): whatever
\* hosts die, and however late or torn their lines are, each call has its
\* effect at most once and as a whole, and its answer says what became of it;
\* only a capture in the hands of a host that stopped is excepted.
THEOREM Refinement == Spec => ImplementsService
<1>1. Init => Service!Init
  BY InitMaps
<1>2. Inductive /\ Inductive' /\ [Next]_vars => [Service!Next]_(Service!vars)
  BY NextMaps
<1> QED BY <1>1, <1>2, Invariance, PTL DEF Spec, Service!Spec, ImplementsService

=============================================================================
