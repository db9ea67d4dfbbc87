------------------------------ MODULE Connect ------------------------------
(***************************************************************************)
(* How a client gets a slot of the server and loses it: the challenge and  *)
(* connect packets (cl_main.c, sv_main.c), reconnects, drops, zombies and  *)
(* timeouts, over a network that loses, repeats and delays packets.        *)
(*                                                                         *)
(* A session is the life of a client_t between SVC_DirectConnect and       *)
(* cs_free; user numbers them.  Netchan sequence numbers are kept as far   *)
(* as they decide whether a packet is stale.  Each client has an address   *)
(* of its own, as if not behind address translation.                       *)
(***************************************************************************)
EXTENDS Naturals, FiniteSets

CONSTANTS
    Clients,
    MAX_CLIENTS,
    Lifetime,           \* a packet older than this never arrives
    sv_reconnectlimit,
    zombietime,
    timeout,
    MaxTime,            \* bounds: the clock, the sessions, and the packets
    MaxUsers,           \*   of a session, those on the way, cls.qport
    MaxSeq,
    MaxNet,
    MaxQport

ASSUME ClientsAssumption == Clients # {} /\ IsFiniteSet(Clients)
ASSUME BoundsAssumption ==
    {MAX_CLIENTS, Lifetime, sv_reconnectlimit, zombietime, timeout,
     MaxTime, MaxUsers, MaxSeq, MaxNet, MaxQport} \subseteq Nat

VARIABLES
    now,        \* curtime
    net,        \* packets sent that may still arrive
    cl,         \* the clients
    slots,      \* svs.clients
    challenges, \* svs.challenges, by address; 0 if there is none
    users       \* number of sessions so far

vars == <<now, net, cl, slots, challenges, users>>

Slot == 1 .. MAX_CLIENTS

(* A client: cls.state, whether connect_time and server_adr are set,       *)
(* cls.challenge, cls.qport; its channel's qport and outgoing_sequence,    *)
(* and the session whose S2C_CONNECTION opened the channel.                *)
Client == [state : {"disconnected", "connected"}, trying : BOOLEAN,
           challenge : Nat, qport : Nat, chan_qport : Nat, sequence : Nat,
           user : Nat]

(* A client_t.  started is connection_started_curtime, 0 until the first   *)
(* new command; heard is netchan.last_received.                            *)
ClientSlot == [state : {"free", "zombie", "preconnected", "connected"},
               client : Clients, qport : Nat, user : Nat, started : Nat,
               heard : Nat, sequence : Nat]

FreeSlot == [state |-> "free", client |-> CHOOSE c \in Clients : TRUE,
             qport |-> 0, user |-> 0, started |-> 0, heard |-> 0,
             sequence |-> 0]

Live(i) == slots[i].state \in {"preconnected", "connected"}

(* Packets.  number is a challenge or a session.  The kinds are, without   *)
(* connection, getchallenge, S2C_CHALLENGE, connect, S2C_CONNECTION, and   *)
(* in a channel of the client, new, drop, any other (cmd), and of the      *)
(* server, disconnect.                                                     *)
Packet == [kind : {"getchallenge", "challenge", "connect", "connection",
                   "new", "drop", "cmd", "disconnect"},
           client : Clients, number : Nat, qport : Nat, sequence : Nat,
           sent : Nat]

OutOfBand(kind, c, number, qport) ==
    [kind |-> kind, client |-> c, number |-> number, qport |-> qport,
     sequence |-> 0, sent |-> now]

InChannel(kind, c, user, qport, sequence) ==
    [kind |-> kind, client |-> c, number |-> user, qport |-> qport,
     sequence |-> sequence, sent |-> now]

(* A packet that finds MaxNet others on the way is lost.                   *)
Sent(p) == IF Cardinality(net) < MaxNet THEN net \cup {p} ELSE net

Init ==
    /\ now = 1
    /\ net = {}
    /\ cl = [c \in Clients |->
                [state |-> "disconnected", trying |-> FALSE, challenge |-> 0,
                 qport |-> 0, chan_qport |-> 0, sequence |-> 0, user |-> 0]]
    /\ slots = [i \in Slot |-> FreeSlot]
    /\ challenges = [c \in Clients |-> 0]
    /\ users = 0

Tick ==
    /\ now < MaxTime
    /\ now' = now + 1
    /\ net' = {p \in net : p.sent + Lifetime >= now'}
    /\ UNCHANGED <<cl, slots, challenges, users>>

-----------------------------------------------------------------------------
(* The client.                                                             *)

(* CL_Connect_f, CL_Reconnect_f on a client that is not connected.         *)
CL_BeginServerConnect(c) ==
    /\ cl[c].state = "disconnected" /\ ~cl[c].trying
    /\ cl' = [cl EXCEPT ![c].trying = TRUE]
    /\ net' = Sent(OutOfBand("getchallenge", c, 0, 0))
    /\ UNCHANGED <<now, slots, challenges, users>>

CL_CheckForResend(c) ==
    /\ cl[c].state = "disconnected" /\ cl[c].trying
    /\ net' = Sent(OutOfBand("getchallenge", c, 0, 0))
    /\ UNCHANGED <<now, cl, slots, challenges, users>>

(* cls.qport = Cvar_Value("qport")                                         *)
ConnectQport(c) == 0

(* S2C_CHALLENGE is taken from cls.server_adr only, and CL_SendConnect-    *)
(* Packet returns unless the client is disconnected.                       *)
CL_Challenge(p) ==
    LET c == p.client
    IN  /\ p.kind = "challenge"
        /\ cl[c].trying
        /\ cl' = [cl EXCEPT ![c].challenge = p.number,
                            ![c].qport = IF cl[c].state = "disconnected"
                                         THEN ConnectQport(c) ELSE @]
        /\ net' = IF cl[c].state = "disconnected"
                  THEN Sent(OutOfBand("connect", c, p.number,
                                           ConnectQport(c)))
                  ELSE net
        /\ UNCHANGED <<now, slots, challenges, users>>

(* S2C_CONNECTION: "Dup connect received.  Ignored." when connected.       *)
CL_Connection(p) ==
    LET c == p.client
    IN  /\ p.kind = "connection"
        /\ cl[c].trying /\ cl[c].state = "disconnected"
        /\ cl' = [cl EXCEPT ![c].state = "connected",
                            ![c].chan_qport = cl[c].qport,
                            ![c].sequence = 0,
                            ![c].user = p.number]
        /\ UNCHANGED <<now, net, slots, challenges, users>>

(* A packet of the channel.                                                *)
CL_Send(c, kind) ==
    /\ cl[c].state = "connected"
    /\ cl[c].sequence < MaxSeq
    /\ cl' = [cl EXCEPT ![c].sequence = @ + 1]
    /\ net' = Sent(InChannel(kind, c, cl[c].user, cl[c].chan_qport,
                                  cl[c].sequence + 1))
    /\ UNCHANGED <<now, slots, challenges, users>>

(* The state CL_Disconnect leaves.                                         *)
Disconnected(c) ==
    [cl[c] EXCEPT !.state = "disconnected", !.trying = FALSE,
                  !.chan_qport = 0, !.sequence = 0, !.user = 0,
                  !.qport = @ + 1]

(* The user leaves, gives up, or the connection times out.                 *)
CL_Disconnect(c) ==
    /\ cl[c].trying /\ cl[c].qport < MaxQport
    /\ cl' = [cl EXCEPT ![c] = Disconnected(c)]
    /\ net' = IF cl[c].state = "connected"
              THEN Sent(InChannel("drop", c, cl[c].user,
                                       cl[c].chan_qport, cl[c].sequence + 1))
              ELSE net
    /\ UNCHANGED <<now, slots, challenges, users>>

(* svc_disconnect ends the connection; Host_EndGame calls CL_Disconnect.   *)
CL_ParseDisconnect(p) ==
    LET c == p.client
    IN  /\ p.kind = "disconnect"
        /\ cl[c].state = "connected" /\ cl[c].qport < MaxQport
        /\ cl' = [cl EXCEPT ![c] = Disconnected(c)]
        /\ net' = Sent(InChannel("drop", c, cl[c].user,
                                      cl[c].chan_qport, cl[c].sequence + 1))
        /\ UNCHANGED <<now, slots, challenges, users>>

-----------------------------------------------------------------------------
(* The server.                                                             *)

SVC_GetChallenge(p) ==
    LET c      == p.client
        answer == IF challenges[c] = 0 THEN 1 ELSE challenges[c]
    IN  /\ p.kind = "getchallenge"
        /\ challenges' = [challenges EXCEPT ![c] = answer]
        /\ net' = Sent(OutOfBand("challenge", c, answer, 0))
        /\ UNCHANGED <<now, cl, slots, users>>

(* CheckChallange                                                          *)
ChallengeHolds(p) == p.number # 0 /\ challenges[p.client] = p.number

(* The address is the same: the ports match, if not the qports.            *)
SameClient(i, c) == slots[i].state # "free" /\ slots[i].client = c

SV_ClientConnectedTime(s) == IF s.started = 0 THEN 0 ELSE now - s.started

(* Mutant of TooSoon: the limit is not observed.                           *)
TooSoon_Never(c) == FALSE

(* "reconnect rejected: too soon"                                          *)
TooSoon(c) ==
    \E i \in Slot : SameClient(i, c)
                    /\ SV_ClientConnectedTime(slots[i]) < sv_reconnectlimit

(* Mutant of CheckReConnect: a zombie keeps its slot.                      *)
CheckReConnect_ZombieStays(c) ==
    [i \in Slot |-> IF SameClient(i, c) /\ Live(i) THEN FreeSlot
                                                   ELSE slots[i]]

(* The slot of the client's last session is freed: the first that matches, *)
(* and by OneSlot there is no other.                                       *)
CheckReConnect(c) ==
    [i \in Slot |-> IF SameClient(i, c) THEN FreeSlot ELSE slots[i]]

(* "server is full": there is no free slot, or the players, spectators or  *)
(* VIPs there may be are reached.                                          *)
SVC_DirectConnect(p) ==
    LET c    == p.client
        kept == CheckReConnect(c)
        free == {i \in Slot : kept[i].state = "free"}
        i    == CHOOSE j \in free : \A k \in free : j <= k
    IN  /\ p.kind = "connect"
        /\ ChallengeHolds(p) /\ ~TooSoon(c)
        /\ \/ /\ slots' = kept
              /\ UNCHANGED <<net, users>>
           \/ /\ free # {} /\ users < MaxUsers
              /\ users' = users + 1
              /\ slots' = [kept EXCEPT ![i] =
                    [state |-> "preconnected", client |-> c,
                     qport |-> p.qport, user |-> users', started |-> 0,
                     heard |-> now, sequence |-> 0]]
              /\ net' = Sent(OutOfBand("connection", c, users', 0))
        /\ UNCHANGED <<now, cl, challenges>>

(* SV_ReadPackets: the slot of a packet in a channel.                      *)
SlotOf(p, i) == SameClient(i, p.client) /\ slots[i].qport = p.qport

(* What the channel does with the packet, and what is answered: a zombie   *)
(* repeats its disconnect.                                                 *)
Netchan_Process(i, p) ==
    /\ SlotOf(p, i)
    /\ p.sequence > slots[i].sequence
    /\ net' = IF Live(i) THEN net
              ELSE Sent(InChannel("disconnect", p.client,
                                       slots[i].user, 0, p.sequence))

Received(i, p) ==
    [slots[i] EXCEPT !.sequence = p.sequence, !.heard = now]

(* Cmd_New_f sets the time the connection started, and the state when it   *)
(* need not wait for extensions or the real address.                       *)
Cmd_New(i, p) ==
    /\ p.kind = "new"
    /\ Netchan_Process(i, p)
    /\ \E state \in IF slots[i].state = "preconnected"
                    THEN {"preconnected", "connected"} ELSE {slots[i].state} :
          slots' = [slots EXCEPT ![i] =
             [Received(i, p) EXCEPT
                !.state = state,
                !.started = IF SV_ClientConnectedTime(slots[i]) = 0
                               \/ slots[i].state = "connected"
                            THEN now ELSE @]]
    /\ UNCHANGED <<now, cl, challenges, users>>

(* SV_DropClient                                                           *)
Dropped(s) == [s EXCEPT !.state = "zombie", !.started = now]

(* Cmd_Drop_f does nothing for a zombie.                                   *)
Cmd_Drop(i, p) ==
    /\ p.kind = "drop"
    /\ Netchan_Process(i, p)
    /\ slots' = [slots EXCEPT ![i] = IF Live(i) THEN Dropped(Received(i, p))
                                                ELSE Received(i, p)]
    /\ UNCHANGED <<now, cl, challenges, users>>

(* Any other packet of the channel.                                        *)
Cmd_Other(i, p) ==
    /\ p.kind = "cmd"
    /\ Netchan_Process(i, p)
    /\ slots' = [slots EXCEPT ![i] = Received(i, p)]
    /\ UNCHANGED <<now, cl, challenges, users>>

SV_KickClient(i) ==
    /\ Live(i)
    /\ slots' = [slots EXCEPT ![i] = Dropped(@)]
    /\ UNCHANGED <<now, net, cl, challenges, users>>

(* Silent clients and old zombies become free.                             *)
SV_CheckTimeouts(i) ==
    /\ \/ Live(i) /\ slots[i].heard + timeout < now
       \/ slots[i].state = "zombie"
          /\ SV_ClientConnectedTime(slots[i]) > zombietime
    /\ slots' = [slots EXCEPT ![i] = FreeSlot]
    /\ UNCHANGED <<now, net, cl, challenges, users>>

-----------------------------------------------------------------------------
Next ==
    \/ Tick
    \/ \E c \in Clients :
          \/ CL_BeginServerConnect(c) \/ CL_CheckForResend(c)
          \/ CL_Disconnect(c)
          \/ \E kind \in {"new", "cmd"} : CL_Send(c, kind)
    \/ \E p \in net :
          \/ CL_Challenge(p) \/ CL_Connection(p) \/ CL_ParseDisconnect(p)
          \/ SVC_GetChallenge(p) \/ SVC_DirectConnect(p)
          \/ \E i \in Slot : \/ Cmd_New(i, p) \/ Cmd_Drop(i, p)
                             \/ Cmd_Other(i, p)
    \/ \E i \in Slot : SV_KickClient(i) \/ SV_CheckTimeouts(i)

Spec == Init /\ [][Next]_vars

-----------------------------------------------------------------------------
(* Properties.                                                             *)

(* Types; no time of a slot lies in the future.                            *)
TypeOK ==
    /\ now \in Nat
    /\ net \subseteq Packet
    /\ cl \in [Clients -> Client]
    /\ slots \in [Slot -> ClientSlot]
    /\ \A i \in Slot : slots[i].started <= now /\ slots[i].heard <= now
    /\ challenges \in [Clients -> Nat]
    /\ users \in Nat

(* A client never holds two slots, whatever its connect packets and drops  *)
(* do: SV_ReadPackets takes the first slot that matches.                   *)
OneSlot ==
    TypeOK /\ \A i, j \in Slot :
        slots[i].state # "free" /\ slots[j].state # "free"
        /\ slots[i].client = slots[j].client => i = j

(* sv_reconnectlimit, the time a zombie stays and the timeout of a silent  *)
(* client all exceed the time two packets can take.  It is not so on a     *)
(* server as it comes: sv_reconnectlimit is 0.                             *)
RoundTrip ==
    /\ 2 * Lifetime < sv_reconnectlimit
    /\ 2 * Lifetime <= timeout /\ 2 * Lifetime <= zombietime

(* A connected client is never in a later session than its slot: what a    *)
(* late S2C_CONNECTION opens is no session that is still to come.  It may  *)
(* be in an older one, when a late or repeated connect packet gave it a    *)
(* second session behind its back: it talks to a fresh channel with an old *)
(* one, and ignores the S2C_CONNECTION.  With RoundTrip that cannot happen *)
(* ("reconnect rejected: too soon").                                       *)
SameSession ==
    \A c \in Clients, i \in Slot :
        cl[c].state = "connected" /\ Live(i) /\ slots[i].client = c
        => /\ cl[c].user <= slots[i].user
           /\ RoundTrip => slots[i].user = cl[c].user

(* cls.qport++ in CL_Disconnect ("A hack I picked up from qizmo") is to    *)
(* keep packets of an old connection out of the next one: once client and  *)
(* slot speak in the same session, the slot takes no packet of another.    *)
(* It does not hold: CL_SendConnectPacket sets cls.qport to the cvar again. *)
Speaking(i) ==
    LET c == cl[slots[i].client]
    IN  /\ Live(i) /\ c.state = "connected"
        /\ c.user = slots[i].user /\ c.chan_qport = slots[i].qport

NoStalePackets ==
    \A p \in net, i \in Slot :
        p.kind \in {"new", "drop", "cmd"} /\ Speaking(i) /\ SlotOf(p, i)
        /\ p.sequence > slots[i].sequence
        => p.number = slots[i].user

=============================================================================
