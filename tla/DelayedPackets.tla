--------------------------- MODULE DelayedPackets ---------------------------
(* The packets the server holds back for clients below sv_minping: the     *)
(* lists of packet_t that SV_ReadPackets moves between svs.free_packets    *)
(* and each client_t (sv_main.c), and the delay that every packet run      *)
(* adjusts (sv_user.c).                                                    *)
(*                                                                         *)
(* Time is counted in frames and delays in units of a frame.  A connect    *)
(* packet opens the slot of its client again; that it may open another     *)
(* slot makes no difference to the lists.                                  *)
(***************************************************************************)
EXTENDS Integers, Sequences, FiniteSetsExt

CONSTANTS
    Clients,            \* the slots
    MAX_DELAYED_PACKETS,
    MaxDelay,           \* one second, in frames
    MaxPackets,         \* bounds: packets of each client,
    MaxSocket           \*   packets the socket holds

ASSUME DelayedAssumption ==
    /\ IsFiniteSet(Clients) /\ Clients # {}
    /\ {MAX_DELAYED_PACKETS, MaxDelay, MaxSocket} \subseteq Nat \ {0}
    /\ MaxPackets \in [Clients -> Nat \ {0}]

VARIABLES
    phase,      \* where SV_Frame is: before SV_ReadPackets, in its first
                \*   loop or in its second
    paused,     \* sv.paused
    state,      \* cl->state
    delay,      \* cl->delay
    packets,    \* cl->packets
    last_packet,
    free_packets,
    node,       \* the packet_t of the pool
    socket,     \* packets not yet read
    arrived,    \* the number of packets that came for a client
    last        \* the last packet run

lists == <<packets, last_packet, free_packets, node>>
vars == <<phase, paused, state, delay, lists, socket, arrived, last>>

Node == 1 .. MAX_DELAYED_PACKETS
Number == 1 .. Max({MaxPackets[c] : c \in Clients})
NULL == 0

(* A packet_t.  age is one more than realtime - time, and 0 in the free    *)
(* list, where nothing reads what the packet was.                          *)
Unused == [number |-> 1, kind |-> "move", age |-> 0, next |-> NULL]

Packet == [client : Clients, number : Number,
           kind : {"move", "drop", "connect"}]

(* The list that starts at n; one with a cycle is longer than the pool.    *)
ListIn(nodes, n) ==
    LET nth[k \in 0 .. MAX_DELAYED_PACKETS + 1] ==
            IF k = 0 THEN n
            ELSE IF nth[k - 1] = NULL THEN NULL ELSE nodes[nth[k - 1]].next
        past == {k \in 0 .. MAX_DELAYED_PACKETS : nth[k] = NULL}
        len  == IF past = {} THEN MAX_DELAYED_PACKETS + 1
                ELSE CHOOSE k \in past : \A j \in past : k <= j
    IN  [k \in 1 .. len |-> nth[k - 1]]

List(n) == ListIn(node, n)

(* The server has run for a while: any delay may have been reached.        *)
Init ==
    /\ phase = "frame" /\ paused = FALSE
    /\ state = [c \in Clients |-> "connected"]
    /\ delay \in [Clients -> 0 .. MaxDelay]
    /\ packets = [c \in Clients |-> NULL]
    /\ last_packet = [c \in Clients |-> NULL]
    /\ free_packets = 1
    /\ node = [n \in Node |->
                 [Unused EXCEPT !.next = IF n = MAX_DELAYED_PACKETS THEN NULL
                                                                    ELSE n + 1]]
    /\ socket = <<>>
    /\ arrived = [c \in Clients |-> 0]
    /\ last = [c \in Clients |-> 0]

-----------------------------------------------------------------------------
(* Packets come at any time.                                               *)
Arrive(c, kind) ==
    /\ arrived[c] < MaxPackets[c] /\ Len(socket) < MaxSocket
    /\ arrived' = [arrived EXCEPT ![c] = @ + 1]
    /\ socket' = Append(socket, [client |-> c, number |-> arrived'[c],
                                 kind |-> kind])
    /\ UNCHANGED <<phase, paused, state, delay, lists, last>>

TogglePause ==
    /\ phase = "frame"
    /\ paused' = ~paused
    /\ UNCHANGED <<phase, state, delay, lists, socket, arrived, last>>

(* A zombie's time is over, or a client was silent for long after its      *)
(* last packet was run.                                                    *)
SV_CheckTimeouts(c) ==
    /\ phase = "frame"
    /\ \/ state[c] = "zombie"
       \/ state[c] = "connected" /\ packets[c] = NULL
    /\ state' = [state EXCEPT ![c] = "free"]
    /\ UNCHANGED <<phase, paused, delay, lists, socket, arrived, last>>

(* realtime stands still while the game is paused.                         *)
SV_Frame ==
    /\ phase = "frame"
    /\ phase' = "delayed"
    /\ node' = IF paused THEN node
               ELSE [n \in Node |-> [node[n] EXCEPT
                        !.age = IF 0 < @ /\ @ <= MaxDelay THEN @ + 1 ELSE @]]
    /\ UNCHANGED <<paused, state, delay, packets, last_packet, free_packets,
                   socket, arrived, last>>

(* cl->delay = bound(0, cl->delay, 1)                                      *)
Delays(d) == (d - 1 .. d + 1) \cap (0 .. MaxDelay)

(* SV_ExecuteClientMessage.  The ping it measures against sv_minping moves *)
(* the delay; it is not adjusted for a spectator.                          *)
SV_ExecuteClientMessage(c, number, kind) ==
    /\ last' = [last EXCEPT ![c] = number]
    /\ state' = IF kind = "drop" THEN [state EXCEPT ![c] = "zombie"]
                                 ELSE state
    /\ \E d \in Delays(delay[c]) :
          /\ d = delay[c] \/ ~paused
          /\ delay' = [delay EXCEPT ![c] = d]

-----------------------------------------------------------------------------
(* SV_ReadPackets, first loop.                                             *)

(* Mutant of Due: a packet waits for the longest delay, not the client's.  *)
Due_Late(c) == node[packets[c]].age > MaxDelay \/ paused

(* Mutant of Due: no packet is due while the game is paused.               *)
Due_Unpaused(c) == node[packets[c]].age > delay[c]

Due(c) == node[packets[c]].age > delay[c] \/ paused

CanRun(c) == state[c] # "free" /\ packets[c] # NULL /\ Due(c)

SV_FreeHeadDelayedPacket(c) ==
    LET head == packets[c]
    IN  /\ node' = [node EXCEPT ![head] = [Unused EXCEPT !.next = free_packets]]
        /\ free_packets' = head
        /\ packets' = [packets EXCEPT ![c] = node[head].next]

RunDelayed(c) ==
    /\ phase = "delayed" /\ CanRun(c)
    /\ SV_ExecuteClientMessage(c, node[packets[c]].number,
                               node[packets[c]].kind)
    /\ SV_FreeHeadDelayedPacket(c)
    /\ UNCHANGED <<phase, paused, last_packet, socket, arrived>>

EndDelayed ==
    /\ phase = "delayed" /\ \A c \in Clients : ~CanRun(c)
    /\ phase' = "new"
    /\ UNCHANGED <<paused, state, delay, lists, socket, arrived, last>>

-----------------------------------------------------------------------------
(* SV_ReadPackets, second loop.                                            *)

NET_GetPacket ==
    /\ phase = "new" /\ socket # <<>>
    /\ socket' = Tail(socket)
    /\ UNCHANGED <<paused, arrived>>

(* CheckReConnect frees the slot; SVC_DirectConnect clears the client_t.   *)
SVC_DirectConnect(p) ==
    /\ p.kind = "connect"
    /\ state' = [state EXCEPT ![p.client] = "connected"]
    /\ delay' = [delay EXCEPT ![p.client] = 0]
    /\ packets' = [packets EXCEPT ![p.client] = NULL]
    /\ last_packet' = [last_packet EXCEPT ![p.client] = NULL]
    /\ UNCHANGED <<phase, free_packets, node, last>>

(* "we know who sent this packet", and no slot did.                        *)
Unknown(p) ==
    /\ p.kind # "connect" /\ state[p.client] = "free"
    /\ UNCHANGED <<phase, state, delay, lists, last>>

Known(p) == p.kind # "connect" /\ state[p.client] # "free"

RunNew(p) ==
    /\ Known(p) /\ delay[p.client] = 0
    /\ SV_ExecuteClientMessage(p.client, p.number, p.kind)
    /\ UNCHANGED <<phase, lists>>

(* "packet has to be dropped.." and the loop is left.                      *)
NoFreePacket(p) ==
    /\ Known(p) /\ delay[p.client] > 0 /\ free_packets = NULL
    /\ phase' = "frame"
    /\ UNCHANGED <<state, delay, lists, last>>

(* Mutant of Terminated: cl->last_packet->next keeps the free list.        *)
Terminated_Not(nodes, n) == nodes

(* cl->last_packet->next = NULL                                            *)
Terminated(nodes, n) == [nodes EXCEPT ![n].next = NULL]

(* "insert at end of list"                                                 *)
Delay(p) ==
    LET c      == p.client
        n      == free_packets
        linked == IF packets[c] = NULL THEN node
                  ELSE [node EXCEPT ![last_packet[c]].next = n]
        filled == [linked EXCEPT ![n].number = p.number, ![n].kind = p.kind,
                                 ![n].age = 1]
    IN  /\ Known(p) /\ delay[c] > 0 /\ free_packets # NULL
        /\ packets' = [packets EXCEPT ![c] = IF @ = NULL THEN n ELSE @]
        /\ last_packet' = [last_packet EXCEPT ![c] = n]
        /\ free_packets' = node[n].next
        /\ node' = Terminated(filled, n)
        /\ UNCHANGED <<phase, state, delay, last>>

ReadPacket ==
    /\ NET_GetPacket
    /\ LET p == Head(socket)
       IN  \/ SVC_DirectConnect(p) \/ Unknown(p) \/ RunNew(p)
           \/ NoFreePacket(p) \/ Delay(p)

EndNew ==
    /\ phase = "new" /\ socket = <<>>
    /\ phase' = "frame"
    /\ UNCHANGED <<paused, state, delay, lists, socket, arrived, last>>

-----------------------------------------------------------------------------
(* The steps of the frame itself.                                          *)
Server ==
    SV_Frame \/ EndDelayed \/ ReadPacket \/ EndNew
    \/ \E c \in Clients : RunDelayed(c)

Next ==
    \/ Server \/ TogglePause
    \/ \E c \in Clients :
          \/ SV_CheckTimeouts(c)
          \/ \E kind \in {"move", "drop", "connect"} : Arrive(c, kind)

(* The server's frames go on.                                              *)
Spec == Init /\ [][Next]_vars /\ WF_vars(Server)

-----------------------------------------------------------------------------
(* Properties.                                                             *)

TypeOK ==
    /\ phase \in {"frame", "delayed", "new"} /\ paused \in BOOLEAN
    /\ state \in [Clients -> {"free", "zombie", "connected"}]
    /\ delay \in [Clients -> 0 .. MaxDelay]
    /\ packets \in [Clients -> Node \cup {NULL}]
    /\ last_packet \in [Clients -> Node \cup {NULL}]
    /\ free_packets \in Node \cup {NULL}
    /\ node \in [Node -> [number : Number,
                          kind : {"move", "drop"}, age : 0 .. MaxDelay + 1,
                          next : Node \cup {NULL}]]
    /\ socket \in Seq(Packet)
    /\ arrived \in [Clients -> {0} \cup Number]
    /\ last \in [Clients -> {0} \cup Number]

Elements(n) == {List(n)[i] : i \in DOMAIN List(n)}

(* A packet_t is in one list at most, lists end, and last_packet is the    *)
(* end of its client's: appending and freeing never tangle them.           *)
ListsApart ==
    /\ TypeOK
    /\ Len(List(free_packets)) <= MAX_DELAYED_PACKETS
    /\ \A c \in Clients :
          /\ Len(List(packets[c])) <= MAX_DELAYED_PACKETS
          /\ Elements(packets[c]) \cap Elements(free_packets) = {}
          /\ \A d \in Clients \ {c} :
                Elements(packets[c]) \cap Elements(packets[d]) = {}
          /\ packets[c] # NULL =>
                List(packets[c])[Len(List(packets[c]))] = last_packet[c]

(* What each client waits with, in the order of its list.                  *)
Pending ==
    [c \in Clients |-> [i \in DOMAIN List(packets[c]) |->
                           node[List(packets[c])[i]].number]]

(* Each client's packets are run in the order of arrival, those held back  *)
(* and those run at once, whatever its delay does meanwhile.               *)
Line == INSTANCE DelayLine WITH Packets <- Number, pending <- Pending

FirstInFirstOut == Line!Spec

(* A packet held back is run, or forgotten with its client, however the    *)
(* delay moves, pause or not, and however often the pool is empty.         *)
HeldIsRun ==
    \A c \in Clients, k \in Number :
        (\E n \in Elements(packets[c]) : node[n].number = k /\ state[c] # "free")
        ~> (last[c] >= k \/ packets[c] = NULL \/ state[c] = "free")

(* The pool holds every packet_t that no client waits with: "maxclients 32 *)
(* * 77fps * max minping 0.3" (server.h) of them suffice, if none is lost. *)
(* Does not hold: SVC_DirectConnect clears the slot of a client that comes *)
(* again, and its packets with it (sv_main.c:1361).                        *)
PoolConserved ==
    Elements(free_packets) \cup UNION {Elements(packets[c]) : c \in Clients}
        = Node

=============================================================================
