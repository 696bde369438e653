---------------------------- MODULE SyncPromise ----------------------------
(***************************************************************************)
(* What encrypted sync promises the user of several devices, as long as    *)
(* the server handles one batch at a time: an edit makes the next version  *)
(* of what its device shows, and from then on server and devices only take *)
(* over versions that somebody made, each newer than the one before, and a *)
(* device no version of another device that is newer than the server's.    *)
(*                                                                         *)
(* What a version shows is a content, or that the entity is gone.          *)
(***************************************************************************)
EXTENDS Naturals

CONSTANTS
    Devices,
    Entities,
    Editors,    \* the devices that edit each entity
    Contents,   \* what edits make of entities
    Gone        \* nothing to show

VARIABLES
    history,    \* every version ever made
    server,     \* the version of each entity that the server holds
    device      \* the version of each entity that each device shows

vars == <<history, server, device>>

Version == [rev : Nat, shows : Contents \cup {Gone}]
Unborn  == [rev |-> 0, shows |-> Gone]

Init ==
    /\ history = {}
    /\ server = [e \in Entities |-> Unborn]
    /\ device = [d \in Devices |-> [e \in Entities |-> Unborn]]

Edit(d, e, shows) ==
    LET v == [rev |-> device[d][e].rev + 1, shows |-> shows]
    IN  /\ d \in Editors[e]
        /\ history' = history \cup {[entity |-> e, version |-> v]}
        /\ device' = [device EXCEPT ![d][e] = v]
        /\ UNCHANGED server

\* The server takes over any number of newer versions at once.
Accept ==
    /\ server' \in [Entities -> Version]
    /\ \A e \in Entities : server'[e] # server[e] =>
          /\ server'[e].rev > server[e].rev
          /\ [entity |-> e, version |-> server'[e]] \in history
    /\ UNCHANGED <<history, device>>

\* A device takes over a newer version, no newer than the server's.
Show(d, e) ==
    /\ \E c \in history :
          /\ c.entity = e
          /\ c.version.rev > device[d][e].rev
          /\ c.version.rev <= server[e].rev
          /\ device' = [device EXCEPT ![d][e] = c.version]
    /\ UNCHANGED <<history, server>>

Next ==
    \/ Accept
    \/ \E d \in Devices, e \in Entities :
          \/ \E shows \in Contents \cup {Gone} : Edit(d, e, shows)
          \/ Show(d, e)

Spec == Init /\ [][Next]_vars

=============================================================================
