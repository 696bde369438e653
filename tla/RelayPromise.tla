---------------------------- MODULE RelayPromise ----------------------------
(***************************************************************************)
(* What the AI relay promises a requester, whatever the network, the lease *)
(* and the processes of the compute node do: a request is answered at most *)
(* once, the answer never changes, plan() ends at most once, and if it     *)
(* ends with a result, that is the answer of the request.                  *)
(***************************************************************************)
CONSTANTS
    Jobs,       \* requests
    AnswerIds,  \* results a compute node may make
    NoAnswer    \* in place of a result

VARIABLES
    answers,    \* the results that exist, each with its job
    asked,      \* where plan() stands
    got         \* what plan() returned

vars == <<answers, asked, got>>

Init ==
    /\ answers = {}
    /\ asked = [j \in Jobs |-> "new"]
    /\ got = [j \in Jobs |-> NoAnswer]

Ask(j) ==
    /\ asked[j] = "new"
    /\ asked' = [asked EXCEPT ![j] = "waiting"]
    /\ UNCHANGED <<answers, got>>

\* An answer may come after plan() has given up, never before it has asked.
Answer(j, id) ==
    /\ asked[j] # "new"
    /\ \A a \in answers : a.job # j
    /\ answers' = answers \cup {[job |-> j, id |-> id]}
    /\ UNCHANGED <<asked, got>>

Return(j) ==
    /\ asked[j] = "waiting"
    /\ \E a \in answers : a.job = j /\ got' = [got EXCEPT ![j] = a.id]
    /\ asked' = [asked EXCEPT ![j] = "answered"]
    /\ UNCHANGED answers

Throw(j, reason) ==
    /\ asked[j] = "waiting"
    /\ asked' = [asked EXCEPT ![j] = reason]
    /\ UNCHANGED <<answers, got>>

Next ==
    \E j \in Jobs :
       \/ Ask(j)
       \/ \E id \in AnswerIds : Answer(j, id)
       \/ Return(j)
       \/ \E reason \in {"failed", "expired", "unavailable"} : Throw(j, reason)

Spec == Init /\ [][Next]_vars

=============================================================================
