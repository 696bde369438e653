--------------------------- MODULE CapturePromise ---------------------------
(***************************************************************************)
(* What a capture session promises the user, whatever operations overlap:  *)
(* what a commit says that it made is covered by its undo token as soon as *)
(* it is marked, all of it; what an action made and reported as failed     *)
(* goes astray, and no token ever covers it; a token works until an undo   *)
(* uses it, and never again; an undo uses it only when what it covers is   *)
(* gone, or the user was told that it is not; and a turn shows only a      *)
(* token that works.                                                       *)
(***************************************************************************)
CONSTANTS
    Turns,
    Commits,    \* which are also the undo tokens
    Actions,
    None        \* no token

VARIABLES
    stage,      \* of each commit
    item,       \* what each commit made of each action
    covers,     \* the actions that the token of each commit can undo
    told,       \* what the user was told could not be undone
    shows       \* the token each turn shows

vars == <<stage, item, covers, told, shows>>

Init ==
    /\ stage = [c \in Commits |-> "none"]
    /\ item = [c \in Commits |-> [a \in Actions |-> "none"]]
    /\ covers = [c \in Commits |-> {}]
    /\ told = {}
    /\ shows = [t \in Turns |-> None]

Begin(c) ==
    /\ stage[c] = "none"
    /\ stage' = [stage EXCEPT ![c] = "making"]
    /\ UNCHANGED <<item, covers, told, shows>>

Make(c, a) ==
    /\ stage[c] = "making"
    /\ item[c][a] = "none"
    /\ item' = [item EXCEPT ![c][a] = "live"]
    /\ UNCHANGED <<stage, covers, told, shows>>

\* The commit makes it and reports it as failed.
Miss(c, a) ==
    /\ stage[c] = "making"
    /\ item[c][a] = "none"
    /\ item' = [item EXCEPT ![c][a] = "astray"]
    /\ UNCHANGED <<stage, covers, told, shows>>

Mark(c, t) ==
    LET made == {a \in Actions : item[c][a] \in {"live", "gone"}}
    IN  /\ stage[c] = "making"
        /\ stage' = [stage EXCEPT ![c] = "marked"]
        /\ covers' = [covers EXCEPT ![c] = made]
        /\ shows' = [shows EXCEPT ![t] = IF made = {} THEN None ELSE c]
        /\ UNCHANGED <<item, told>>

\* The commits end before they are marked.
Cut(C) ==
    /\ \A c \in C : stage[c] = "making"
    /\ stage' = [c \in Commits |-> IF c \in C THEN "cut" ELSE stage[c]]
    /\ UNCHANGED <<item, covers, told, shows>>

\* An undo or the user moves it to the trash.  What the user restores from
\* there is no longer the commit's.
Trash(c, a) ==
    /\ item[c][a] = "live"
    /\ item' = [item EXCEPT ![c][a] = "gone"]
    /\ UNCHANGED <<stage, covers, told, shows>>

Tell(c, a) ==
    /\ told' = told \cup {<<c, a>>}
    /\ UNCHANGED <<stage, item, covers, shows>>

Hidden(T) == [t \in Turns |-> IF t \in T THEN None ELSE shows[t]]

Use(c) ==
    /\ covers[c] # {}
    /\ \A a \in covers[c] : item[c][a] = "gone" \/ <<c, a>> \in told
    /\ covers' = [covers EXCEPT ![c] = {}]
    /\ \E T \in SUBSET Turns : shows' = Hidden(T) /\ \A t \in Turns : shows[t] = c => t \in T
    /\ UNCHANGED <<stage, item, told>>

\* The turn is revised, or undone again.
Hide(t) ==
    /\ shows' = Hidden({t})
    /\ UNCHANGED <<stage, item, covers, told>>

Next ==
    \/ \E t \in Turns : Hide(t)
    \/ \E C \in SUBSET Commits : Cut(C)
    \/ \E c \in Commits :
          \/ Begin(c) \/ Use(c)
          \/ \E t \in Turns : Mark(c, t)
          \/ \E a \in Actions : Make(c, a) \/ Miss(c, a) \/ Trash(c, a) \/ Tell(c, a)

Spec == Init /\ [][Next]_vars

=============================================================================
