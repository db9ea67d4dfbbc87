---------------------------- MODULE SnapshotFeed ----------------------------
(***************************************************************************)
(* What the entity updates of a server promise to a client: the client     *)
(* shows nothing, or a snapshot the server took, whole; and never one that *)
(* is older than what it has already received.                             *)
(***************************************************************************)
EXTENDS Naturals

CONSTANT Number     \* the numbers a packet can have, all above 0

VARIABLES
    taken,      \* the numbers of the snapshots the server has taken
    newest,     \* the number of the newest packet the client has received
    shown       \* the snapshot the client shows, 0 if none

Init == taken = {} /\ newest = 0 /\ shown = 0

Take ==
    /\ \E n \in Number :
          /\ \A t \in taken : t < n
          /\ taken' = taken \cup {n}
    /\ UNCHANGED <<newest, shown>>

(* A packet arrives: its snapshot is shown, or what is shown stays, or     *)
(* goes.                                                                   *)
Receive ==
    /\ newest' \in Number /\ newest' > newest
    /\ \/ newest' \in taken /\ shown' = newest'
       \/ shown' \in {0, shown}
    /\ UNCHANGED taken

Hide == shown' = 0 /\ UNCHANGED <<taken, newest>>

Next == Take \/ Receive \/ Hide

Spec == Init /\ [][Next]_<<taken, newest, shown>>

=============================================================================
