--------------------------- MODULE ClientProofs ----------------------------
(* Of the client: the panel of the server browser, the connection, and the *)
(* moves it sends.                                                         *)
(*                                                                         *)
(* What Connect promises, for any number of clients and slots and any      *)
(* bounds: a client holds one slot; its session is never newer than that   *)
(* of its slot, and the same when sv_reconnectlimit, the time of a zombie  *)
(* and the timeout are above a round trip.                                 *)
(*                                                                         *)
(* What Serverinfo promises, for any number of servers, of threads and of  *)
(* openings of the panel: the semaphore lets in no more threads than the   *)
(* panel was opened times.                                                 *)
(*                                                                         *)
(* What UserCmds promises, for any number of moves, any length of the      *)
(* losses made up for and any cl_c2sImpulseBackup.                         *)
EXTENDS Connect, Serverinfo, UserCmds, FiniteSetTheorems, SequenceTheorems, TLAPS

LEMMA Naturals ==
    /\ MAX_CLIENTS \in Nat /\ Lifetime \in Nat /\ sv_reconnectlimit \in Nat
    /\ zombietime \in Nat /\ timeout \in Nat /\ MaxTime \in Nat
    /\ MaxUsers \in Nat /\ MaxSeq \in Nat /\ MaxQport \in Nat
  BY BoundsAssumption DEF BoundsAssumption

(* A set of numbers that is not empty has a smallest one.                  *)
LEMMA SmallestNumber ==
    ASSUME NEW T \in SUBSET Nat, T # {}
    PROVE  \E x \in T : \A y \in T : x <= y
  <1> DEFINE R == StrictSubsetOrdering(Nat)
             F == FiniteSubsetsOf(Nat)
             U == {0 .. x : x \in T}
  <1>1. IsWellFoundedOn(R, F)
    BY FS_StrictSubsetOrderingWellFounded
  <1>2. U \subseteq F /\ U # {}
    <2>1. \A x \in T : 0 .. x \in SUBSET Nat /\ IsFiniteSet(0 .. x)
      BY FS_Interval
    <2> QED
      BY <2>1 DEF FiniteSubsetsOf
  <1>3. \E u \in U : \A w \in U : ~ (<<w, u>> \in R)
    <2> HIDE DEF R, F, U
    <2> QED
      BY <1>1, <1>2, WFMin
  <1>4. PICK x \in T : \A w \in U : ~ (<<w, 0 .. x>> \in R)
    BY <1>3
  <1>5. ASSUME NEW y \in T, y < x PROVE FALSE
    <2>1. 0 .. y \subseteq 0 .. x /\ 0 .. y # 0 .. x
      BY <1>5
    <2>2. 0 .. y \in SUBSET Nat /\ 0 .. x \in SUBSET Nat
      OBVIOUS
    <2>3. <<0 .. y, 0 .. x>> \in R
      BY <2>1, <2>2 DEF StrictSubsetOrdering
    <2> QED
      BY <2>3, <1>4
  <1> QED
    BY <1>5

-----------------------------------------------------------------------------
(* Types.                                                                  *)

LEMMA FreeSlotType == FreeSlot \in ClientSlot
  <1>1. (CHOOSE c \in Clients : TRUE) \in Clients
    BY ClientsAssumption DEF ClientsAssumption
  <1> QED
    BY <1>1 DEF FreeSlot, ClientSlot

(* A packet sent may be lost at once.                                      *)
LEMMA SentPackets ==
    ASSUME NEW p
    PROVE  Sent(p) \in SUBSET (net \cup {p})
  BY DEF Sent

LEMMA PacketTypes ==
    ASSUME now \in Nat, NEW c \in Clients, NEW kind, NEW number \in Nat,
           NEW qport \in Nat, NEW sequence \in Nat
    PROVE  /\ kind \in {"getchallenge", "challenge", "connect", "connection"}
                 => OutOfBand(kind, c, number, qport) \in Packet
           /\ kind \in {"new", "drop", "cmd", "disconnect"}
                 => InChannel(kind, c, number, qport, sequence) \in Packet
  BY DEF OutOfBand, InChannel, Packet

LEMMA PacketParts ==
    ASSUME NEW p \in Packet
    PROVE  /\ p.client \in Clients /\ p.number \in Nat /\ p.qport \in Nat
           /\ p.sequence \in Nat /\ p.sent \in Nat
  BY DEF Packet

LEMMA ClientParts ==
    ASSUME NEW s \in Client
    PROVE  /\ s.state \in {"disconnected", "connected"}
           /\ s.challenge \in Nat /\ s.qport \in Nat /\ s.chan_qport \in Nat
           /\ s.sequence \in Nat /\ s.user \in Nat
  BY DEF Client

LEMMA SlotParts ==
    ASSUME NEW s \in ClientSlot
    PROVE  /\ s.state \in {"free", "zombie", "preconnected", "connected"}
           /\ s.client \in Clients /\ s.qport \in Nat /\ s.user \in Nat
           /\ s.started \in Nat /\ s.heard \in Nat /\ s.sequence \in Nat
  BY DEF ClientSlot

-----------------------------------------------------------------------------
(* The inductive invariant of a session.                                   *)

(* No packet on the way is older than a packet can be, and only a slot     *)
(* that has never seen "new" says its connection has not started.          *)
Timely ==
    /\ now >= 1
    /\ \A p \in net : p.sent <= now /\ now <= p.sent + Lifetime
    /\ \A i \in Slot : slots[i].state = "zombie" => slots[i].started # 0

(* Client c has session user, which was alive at that time.                *)
HasSession(i, c, user, since) ==
    /\ SameClient(i, c) /\ slots[i].user = user
    /\ slots[i].started = 0 \/ since <= slots[i].started
    /\ since <= slots[i].heard

(* The session an S2C_CONNECTION speaks of has its slot still.             *)
Opened ==
    \A p \in net : p.kind = "connection" =>
        \E i \in Slot : HasSession(i, p.client, p.number, p.sent)

(* A connect packet that was left over when its client was connected is    *)
(* hardly older than the session.                                          *)
LeftOver ==
    \A p \in net : p.kind = "connect" /\ cl[p.client].state = "connected" =>
        \E i \in Slot :
            HasSession(i, p.client, cl[p.client].user, p.sent - Lifetime)

(* A connected client is in the session of its slot.                       *)
Agreed ==
    \A c \in Clients, i \in Slot :
        cl[c].state = "connected" /\ Live(i) /\ slots[i].client = c
        => slots[i].user = cl[c].user

IInv == OneSlot /\ Timely /\ Opened /\ LeftOver /\ Agreed

-----------------------------------------------------------------------------
LEMMA InitType == Init => TypeOK
  <1> SUFFICES ASSUME Init PROVE TypeOK
    OBVIOUS
  <1>1. cl \in [Clients -> Client]
    BY DEF Init, Client
  <1>2. slots \in [Slot -> ClientSlot] /\ \A i \in Slot : slots[i] = FreeSlot
    BY FreeSlotType DEF Init
  <1>3. \A i \in Slot : slots[i].started <= now /\ slots[i].heard <= now
    BY <1>2 DEF FreeSlot, Init
  <1> QED
    BY <1>1, <1>2, <1>3 DEF Init, TypeOK

(* A client's step sends at most one packet and leaves the server alone.   *)
LEMMA ClientStepType ==
    ASSUME TypeOK, NEW c \in Clients, NEW s \in Client,
           cl' = cl \/ cl' = [cl EXCEPT ![c] = s],
           net' \in SUBSET (net \cup Packet),
           UNCHANGED <<now, slots, challenges, users>>
    PROVE  TypeOK'
  <1>1. cl' \in [Clients -> Client] /\ net' \subseteq Packet
    BY DEF TypeOK
  <1> QED
    BY <1>1 DEF TypeOK

LEMMA BeginType ==
    ASSUME TypeOK, NEW c \in Clients,
           CL_BeginServerConnect(c) \/ CL_CheckForResend(c)
    PROVE  TypeOK'
  <1> DEFINE s == [cl[c] EXCEPT !.trying = TRUE]
             p == OutOfBand("getchallenge", c, 0, 0)
  <1>1. cl[c] \in Client /\ now \in Nat
    BY DEF TypeOK
  <1>2. s \in Client
    BY <1>1 DEF Client
  <1>3. p \in Packet
    BY <1>1, PacketTypes
  <1>4. cl' = cl \/ cl' = [cl EXCEPT ![c] = s]
    BY DEF CL_BeginServerConnect, CL_CheckForResend
  <1>5. net' \in SUBSET (net \cup {p})
    BY SentPackets DEF CL_BeginServerConnect, CL_CheckForResend
  <1>6. UNCHANGED <<now, slots, challenges, users>>
    BY DEF CL_BeginServerConnect, CL_CheckForResend
  <1> HIDE DEF s, p
  <1> QED
    BY <1>2, <1>3, <1>4, <1>5, <1>6, ClientStepType

LEMMA SendType ==
    ASSUME TypeOK, NEW c \in Clients, NEW kind \in {"new", "cmd"},
           CL_Send(c, kind)
    PROVE  TypeOK'
  <1> DEFINE s == [cl[c] EXCEPT !.sequence = @ + 1]
             p == InChannel(kind, c, cl[c].user, cl[c].chan_qport,
                            cl[c].sequence + 1)
  <1>1. cl[c] \in Client /\ now \in Nat
    BY DEF TypeOK
  <1>2. s \in Client
    BY <1>1 DEF Client
  <1>3. p \in Packet
    BY <1>1, ClientParts, PacketTypes
  <1>4. cl' = [cl EXCEPT ![c] = s]
    BY DEF CL_Send
  <1>5. net' \in SUBSET (net \cup {p})
    BY SentPackets DEF CL_Send
  <1>6. UNCHANGED <<now, slots, challenges, users>>
    BY DEF CL_Send
  <1> HIDE DEF s, p
  <1> QED
    BY <1>2, <1>3, <1>4, <1>5, <1>6, ClientStepType

LEMMA ChallengeType ==
    ASSUME TypeOK, NEW p \in net, CL_Challenge(p)
    PROVE  TypeOK'
  <1> DEFINE c == p.client
             s == [cl[c] EXCEPT !.challenge = p.number,
                                !.qport = IF cl[c].state = "disconnected"
                                          THEN ConnectQport(c) ELSE @]
             q == OutOfBand("connect", c, p.number, ConnectQport(c))
  <1>1. p \in Packet /\ now \in Nat
    BY DEF TypeOK
  <1>2. c \in Clients /\ p.number \in Nat
    BY <1>1, PacketParts
  <1>3. cl[c] \in Client
    BY <1>2 DEF TypeOK
  <1>4. s \in Client
    <2>1. (IF cl[c].state = "disconnected" THEN ConnectQport(c)
                                           ELSE cl[c].qport) \in Nat
      BY <1>3, ClientParts DEF ConnectQport
    <2> QED
      BY <1>2, <1>3, <2>1 DEF Client
  <1>5. q \in Packet
    BY <1>1, <1>2, PacketTypes DEF ConnectQport
  <1>6. cl' = [cl EXCEPT ![c] = s]
    BY DEF CL_Challenge
  <1>7. net' \in SUBSET (net \cup {q})
    BY SentPackets DEF CL_Challenge
  <1>8. UNCHANGED <<now, slots, challenges, users>>
    BY DEF CL_Challenge
  <1> HIDE DEF c, s, q
  <1> QED
    BY <1>2, <1>4, <1>5, <1>6, <1>7, <1>8, ClientStepType

LEMMA ConnectionType ==
    ASSUME TypeOK, NEW p \in net, CL_Connection(p)
    PROVE  TypeOK'
  <1> DEFINE c == p.client
             s == [cl[c] EXCEPT !.state = "connected",
                                !.chan_qport = cl[c].qport,
                                !.sequence = 0, !.user = p.number]
  <1>1. p \in Packet
    BY DEF TypeOK
  <1>2. c \in Clients /\ p.number \in Nat
    BY <1>1, PacketParts
  <1>3. cl[c] \in Client
    BY <1>2 DEF TypeOK
  <1>4. s \in Client
    BY <1>2, <1>3 DEF Client
  <1>5. cl' = [cl EXCEPT ![c] = s]
    BY DEF CL_Connection
  <1>6. net' = net /\ UNCHANGED <<now, slots, challenges, users>>
    BY DEF CL_Connection
  <1> HIDE DEF c, s
  <1> QED
    BY <1>2, <1>4, <1>5, <1>6, ClientStepType

LEMMA DisconnectType ==
    ASSUME TypeOK, NEW c \in Clients,
           \/ CL_Disconnect(c)
           \/ \E p \in net : p.client = c /\ CL_ParseDisconnect(p)
    PROVE  TypeOK'
  <1> DEFINE q == InChannel("drop", c, cl[c].user, cl[c].chan_qport,
                            cl[c].sequence + 1)
  <1>1. cl[c] \in Client /\ now \in Nat
    BY DEF TypeOK
  <1>2. Disconnected(c) \in Client
    <2>1. cl[c].qport + 1 \in Nat
      BY <1>1, ClientParts
    <2> QED
      BY <1>1, <2>1 DEF Disconnected, Client
  <1>3. q \in Packet
    BY <1>1, ClientParts, PacketTypes
  <1>4. cl' = [cl EXCEPT ![c] = Disconnected(c)]
    BY DEF CL_Disconnect, CL_ParseDisconnect
  <1>5. net' \in SUBSET (net \cup {q})
    BY SentPackets DEF CL_Disconnect, CL_ParseDisconnect
  <1>6. UNCHANGED <<now, slots, challenges, users>>
    BY DEF CL_Disconnect, CL_ParseDisconnect
  <1> HIDE DEF q
  <1> QED
    BY <1>2, <1>3, <1>4, <1>5, <1>6, ClientStepType

(* A step of the server other than a connect changes one slot.             *)
LEMMA SlotStepType ==
    ASSUME TypeOK, NEW i \in Slot, NEW s \in ClientSlot,
           s.started <= now, s.heard <= now,
           slots' = [slots EXCEPT ![i] = s],
           net' \in SUBSET (net \cup Packet),
           UNCHANGED <<now, cl, challenges, users>>
    PROVE  TypeOK'
  <1>1. slots' \in [Slot -> ClientSlot]
    BY DEF TypeOK
  <1>2. \A j \in Slot : slots'[j].started <= now /\ slots'[j].heard <= now
    BY DEF TypeOK
  <1>3. net' \subseteq Packet
    BY DEF TypeOK
  <1> QED
    BY <1>1, <1>2, <1>3 DEF TypeOK

(* The slot keeps its session; its times move to now, if at all.           *)
Touched(old, new) ==
    /\ new.client = old.client /\ new.user = old.user
    /\ new.state = "free" <=> old.state = "free"
    /\ new.state \in {"preconnected", "connected"}
          => old.state \in {"preconnected", "connected"}
    /\ new.state = "zombie" => old.state = "zombie" \/ new.started = now
    /\ new.started \in {old.started, now} /\ new.heard \in {old.heard, now}

(* What Cmd_New_f, Cmd_Drop_f, any other packet and a kick have in common. *)
SlotStep(i) ==
    /\ \E s \in ClientSlot :
          slots' = [slots EXCEPT ![i] = s] /\ Touched(slots[i], s)
    /\ \A q \in net' \ net :
          q \in Packet /\ q.kind = "disconnect" /\ q.sent = now
    /\ UNCHANGED <<now, cl, challenges, users>>

LEMMA AnswerPackets ==
    ASSUME TypeOK, NEW i \in Slot, NEW p \in net, Netchan_Process(i, p)
    PROVE  \A q \in net' \ net :
              q \in Packet /\ q.kind = "disconnect" /\ q.sent = now
  <1> DEFINE q == InChannel("disconnect", p.client, slots[i].user, 0,
                            p.sequence)
  <1>1. p \in Packet /\ slots[i] \in ClientSlot /\ now \in Nat
    BY DEF TypeOK
  <1>2. q \in Packet
    BY <1>1, PacketParts, SlotParts, PacketTypes
  <1>3. q.kind = "disconnect" /\ q.sent = now
    BY DEF InChannel
  <1>4. net' \in SUBSET (net \cup {q})
    BY SentPackets DEF Netchan_Process
  <1> HIDE DEF q
  <1> QED
    BY <1>2, <1>3, <1>4

LEMMA ReceivedSlot ==
    ASSUME TypeOK, NEW i \in Slot, NEW p \in net
    PROVE  /\ Received(i, p) \in ClientSlot
           /\ Received(i, p).client = slots[i].client
           /\ Received(i, p).user = slots[i].user
           /\ Received(i, p).state = slots[i].state
           /\ Received(i, p).started = slots[i].started
           /\ Received(i, p).heard = now
  <1>1. p \in Packet /\ slots[i] \in ClientSlot /\ now \in Nat
    BY DEF TypeOK
  <1>2. p.sequence \in Nat
    BY <1>1, PacketParts
  <1> QED
    BY <1>1, <1>2 DEF Received, ClientSlot

LEMMA NewIsSlotStep ==
    ASSUME TypeOK, NEW i \in Slot, NEW p \in net, Cmd_New(i, p)
    PROVE  SlotStep(i)
  <1> DEFINE r == Received(i, p)
             started == IF SV_ClientConnectedTime(slots[i]) = 0
                           \/ slots[i].state = "connected"
                        THEN now ELSE slots[i].started
  <1>1. PICK st \in IF slots[i].state = "preconnected"
                    THEN {"preconnected", "connected"}
                    ELSE {slots[i].state} :
           slots' = [slots EXCEPT ![i] =
                       [r EXCEPT !.state = st, !.started = started]]
    BY ReceivedSlot DEF Cmd_New
  <1>2. /\ r \in ClientSlot /\ r.client = slots[i].client
        /\ r.user = slots[i].user /\ r.heard = now
    BY ReceivedSlot
  <1>3. slots[i] \in ClientSlot /\ now \in Nat
    BY DEF TypeOK
  <1>4. started \in {slots[i].started, now} /\ started \in Nat
    BY <1>3, SlotParts
  <1> HIDE DEF r, started
  <1> DEFINE s == [r EXCEPT !.state = st, !.started = started]
  <1>5. slots[i].state \in {"free", "zombie", "preconnected", "connected"}
    BY <1>3, SlotParts
  <1>6. s \in ClientSlot
    BY <1>2, <1>4, <1>5 DEF ClientSlot
  <1>7. /\ s.client = slots[i].client /\ s.user = slots[i].user
        /\ s.heard = now /\ s.state = st /\ s.started = started
    BY <1>2 DEF ClientSlot
  <1> HIDE DEF s
  <1>8. Touched(slots[i], s)
    BY <1>4, <1>5, <1>7 DEF Touched
  <1>9. UNCHANGED <<now, cl, challenges, users>> /\ Netchan_Process(i, p)
    BY DEF Cmd_New
  <1>10. slots' = [slots EXCEPT ![i] = s]
    BY <1>1 DEF s
  <1> QED
    BY <1>6, <1>8, <1>9, <1>10, AnswerPackets DEF SlotStep

LEMMA PacketIsSlotStep ==
    ASSUME TypeOK, NEW i \in Slot, NEW p \in net,
           Cmd_Drop(i, p) \/ Cmd_Other(i, p)
    PROVE  SlotStep(i)
  <1> DEFINE r == Received(i, p)
             d == Dropped(r)
  <1>1. /\ r \in ClientSlot /\ r.client = slots[i].client
        /\ r.user = slots[i].user /\ r.heard = now
        /\ r.state = slots[i].state /\ r.started = slots[i].started
    BY ReceivedSlot
  <1>2. slots[i] \in ClientSlot /\ now \in Nat
    BY DEF TypeOK
  <1>3. SlotOf(p, i)
    BY DEF Cmd_Drop, Cmd_Other, Netchan_Process
  <1>4. slots[i].state \in {"zombie", "preconnected", "connected"}
    BY <1>2, <1>3, SlotParts DEF SlotOf, SameClient
  <1> HIDE DEF r
  <1>5. /\ d \in ClientSlot /\ d.client = r.client /\ d.user = r.user
        /\ d.heard = r.heard /\ d.state = "zombie" /\ d.started = now
    BY <1>1, <1>2 DEF Dropped, ClientSlot
  <1> HIDE DEF d
  <1>6. Touched(slots[i], r) /\ Touched(slots[i], d)
    BY <1>1, <1>4, <1>5 DEF Touched
  <1>7. slots' = [slots EXCEPT ![i] = r] \/ slots' = [slots EXCEPT ![i] = d]
    BY DEF Cmd_Drop, Cmd_Other, r, d
  <1>8. UNCHANGED <<now, cl, challenges, users>> /\ Netchan_Process(i, p)
    BY DEF Cmd_Drop, Cmd_Other
  <1> QED
    BY <1>1, <1>5, <1>6, <1>7, <1>8, AnswerPackets DEF SlotStep

LEMMA KickIsSlotStep ==
    ASSUME TypeOK, NEW i \in Slot, SV_KickClient(i)
    PROVE  SlotStep(i)
  <1> DEFINE d == Dropped(slots[i])
  <1>1. slots[i] \in ClientSlot /\ now \in Nat
    BY DEF TypeOK
  <1>2. /\ d \in ClientSlot /\ d.client = slots[i].client
        /\ d.user = slots[i].user /\ d.heard = slots[i].heard
        /\ d.state = "zombie" /\ d.started = now
    BY <1>1 DEF Dropped, ClientSlot
  <1>3. slots[i].state \in {"preconnected", "connected"}
    BY DEF SV_KickClient, Live
  <1>4. slots' = [slots EXCEPT ![i] = d]
    BY <1>1 DEF SV_KickClient, Dropped
  <1> HIDE DEF d
  <1>5. Touched(slots[i], d)
    BY <1>2, <1>3 DEF Touched
  <1>6. net' = net /\ UNCHANGED <<now, cl, challenges, users>>
    BY DEF SV_KickClient
  <1> QED
    BY <1>2, <1>4, <1>5, <1>6 DEF SlotStep

LEMMA SlotStepKeepsType ==
    ASSUME TypeOK, NEW i \in Slot, SlotStep(i)
    PROVE  TypeOK'
  <1>1. PICK s \in ClientSlot :
           slots' = [slots EXCEPT ![i] = s] /\ Touched(slots[i], s)
    BY DEF SlotStep
  <1>2. slots[i] \in ClientSlot /\ now \in Nat
        /\ slots[i].started <= now /\ slots[i].heard <= now
    BY DEF TypeOK
  <1>3. s.started <= now /\ s.heard <= now
    BY <1>1, <1>2, SlotParts DEF Touched
  <1>4. net' \in SUBSET (net \cup Packet)
        /\ UNCHANGED <<now, cl, challenges, users>>
    BY DEF SlotStep
  <1> QED
    BY <1>1, <1>3, <1>4, SlotStepType

-----------------------------------------------------------------------------
(* SVC_DirectConnect.                                                      *)

(* CheckReConnect frees the slot of the client and no other.               *)
LEMMA KeptSlots ==
    ASSUME TypeOK, NEW c
    PROVE  /\ CheckReConnect(c) \in [Slot -> ClientSlot]
           /\ \A i \in Slot :
                 CheckReConnect(c)[i] = IF SameClient(i, c) THEN FreeSlot
                                                            ELSE slots[i]
  BY FreeSlotType DEF CheckReConnect, TypeOK

(* The first free slot is one that is free.                                *)
LEMMA FirstFree ==
    ASSUME NEW free \in SUBSET Slot, free # {}
    PROVE  (CHOOSE j \in free : \A k \in free : j <= k) \in free
  <1>1. free \in SUBSET Nat
    BY Naturals DEF Slot
  <1>2. \E j \in free : \A k \in free : j <= k
    BY <1>1, SmallestNumber
  <1> QED
    BY <1>2

NewSession(c, qport, user) ==
    [state |-> "preconnected", client |-> c, qport |-> qport, user |-> user,
     started |-> 0, heard |-> now, sequence |-> 0]

(* The other clients keep their slots; this one has none now, or a new one *)
(* that its S2C_CONNECTION speaks of.                                      *)
ConnectStep(c) ==
    /\ \A i \in Slot : slots'[i].state # "free" /\ slots'[i].client # c
                       => slots'[i] = slots[i]
    /\ \A i \in Slot : slots[i].state # "free" /\ slots[i].client # c
                       => slots'[i] = slots[i]
    /\ \/ /\ net' = net
          /\ \A i \in Slot : slots'[i].state # "free" => slots'[i].client # c
       \/ \E i \in Slot, qport \in Nat :
             /\ users' = users + 1
             /\ slots'[i] = NewSession(c, qport, users')
             /\ \A j \in Slot : /\ slots'[j].state # "free"
                                /\ slots'[j].client = c
                                => j = i
             /\ net' \in SUBSET
                   (net \cup {OutOfBand("connection", c, users', 0)})
    /\ users' \in {users, users + 1} /\ UNCHANGED <<now, cl>>

LEMMA DirectConnectStep ==
    ASSUME TypeOK, NEW p \in net, SVC_DirectConnect(p)
    PROVE  TypeOK' /\ ConnectStep(p.client)
  <1> DEFINE c == p.client
             kept == CheckReConnect(c)
             free == {i \in Slot : kept[i].state = "free"}
             i == CHOOSE j \in free : \A k \in free : j <= k
             new == NewSession(c, p.qport, users')
             q == OutOfBand("connection", c, users', 0)
  <1>1. p \in Packet /\ now \in Nat /\ users \in Nat
    BY DEF TypeOK
  <1>2. c \in Clients /\ p.qport \in Nat
    BY <1>1, PacketParts
  <1>3. /\ kept \in [Slot -> ClientSlot]
        /\ \A j \in Slot : kept[j] = IF SameClient(j, c) THEN FreeSlot
                                                         ELSE slots[j]
    BY KeptSlots
  <1>4. \/ slots' = kept /\ UNCHANGED <<net, users>>
        \/ /\ free # {} /\ users' = users + 1
           /\ slots' = [kept EXCEPT ![i] = new]
           /\ net' = Sent(q)
    BY DEF SVC_DirectConnect, NewSession
  <1>5. UNCHANGED <<now, cl, challenges>>
    BY DEF SVC_DirectConnect
  <1>6. free # {} => i \in free
    <2>1. free \in SUBSET Slot
      OBVIOUS
    <2> HIDE DEF free
    <2> QED
      BY <2>1, FirstFree
  <1>7. FreeSlot.state = "free" /\ FreeSlot.started = 0 /\ FreeSlot.heard = 0
    BY DEF FreeSlot
  <1>8. \A j \in Slot : kept[j].started <= now /\ kept[j].heard <= now
    BY <1>1, <1>3, <1>7 DEF TypeOK
  <1>9. free # {} => i \in Slot /\ kept[i].state = "free"
    BY <1>6
  <1>10. users' \in Nat
    BY <1>1, <1>4
  <1>11. new \in ClientSlot /\ new.started <= now /\ new.heard <= now
         /\ new.client = c /\ new.state = "preconnected"
    BY <1>1, <1>2, <1>10 DEF NewSession, ClientSlot
  <1>12. q \in Packet
    BY <1>1, <1>2, <1>10, PacketTypes
  <1>13. Sent(q) \in SUBSET (net \cup {q})
    BY SentPackets
  <1> HIDE DEF free, i, new, q, kept
  <1>14. slots' \in [Slot -> ClientSlot]
    BY <1>3, <1>4, <1>11
  <1>15. \A j \in Slot : slots'[j].started <= now /\ slots'[j].heard <= now
    BY <1>3, <1>4, <1>8, <1>11
  <1>16. TypeOK'
    <2>1. net' \subseteq Packet
      BY <1>4, <1>12, <1>13 DEF TypeOK
    <2> QED
      BY <1>5, <1>10, <1>14, <1>15, <2>1 DEF TypeOK
  <1>17. \A j \in Slot : kept[j].state # "free" =>
            kept[j] = slots[j] /\ slots[j].client # c
    BY <1>3, <1>7 DEF SameClient
  <1>18. \A j \in Slot : slots[j].state # "free" /\ slots[j].client # c
                         => kept[j] = slots[j]
    BY <1>3 DEF SameClient
  <1>19. CASE slots' = kept /\ UNCHANGED <<net, users>>
    <2>1. ConnectStep(c)
      BY <1>5, <1>10, <1>17, <1>18, <1>19 DEF ConnectStep
    <2> QED
      BY <1>16, <2>1
  <1>20. CASE /\ free # {} /\ users' = users + 1
              /\ slots' = [kept EXCEPT ![i] = new]
              /\ net' = Sent(q)
    <2>1. \A j \in Slot : slots'[j] = IF j = i THEN new ELSE kept[j]
      BY <1>3, <1>20
    <2>2. slots'[i] = new /\ i \in Slot
      BY <1>9, <1>20, <2>1
    <2>3. \A j \in Slot : slots'[j].state # "free" /\ slots'[j].client # c
                          => slots'[j] = slots[j]
      BY <1>11, <1>17, <2>1
    <2>4. \A j \in Slot : slots[j].state # "free" /\ slots[j].client # c
                          => slots'[j] = slots[j]
      BY <1>9, <1>18, <1>20, <2>1
    <2>5. \A j \in Slot : slots'[j].state # "free" /\ slots'[j].client = c
                          => j = i
      BY <1>17, <2>1
    <2>6. ConnectStep(c)
      BY <1>2, <1>5, <1>10, <1>13, <1>20, <2>2, <2>3, <2>4, <2>5
      DEF ConnectStep, new, q
    <2> QED
      BY <1>16, <2>6
  <1> QED
    BY <1>4, <1>19, <1>20

-----------------------------------------------------------------------------
LEMMA TimeoutType ==
    ASSUME TypeOK, NEW i \in Slot, SV_CheckTimeouts(i)
    PROVE  TypeOK'
  <1>1. FreeSlot.started = 0 /\ FreeSlot.heard = 0 /\ FreeSlot \in ClientSlot
    BY FreeSlotType DEF FreeSlot
  <1>2. /\ slots' = [slots EXCEPT ![i] = FreeSlot] /\ net' = net
        /\ UNCHANGED <<now, cl, challenges, users>>
    BY DEF SV_CheckTimeouts
  <1>3. FreeSlot.started <= now /\ FreeSlot.heard <= now
    BY <1>1 DEF TypeOK
  <1>4. net' \in SUBSET (net \cup Packet)
    BY <1>2
  <1> QED
    BY <1>1, <1>2, <1>3, <1>4, SlotStepType

LEMMA OtherType ==
    ASSUME TypeOK,
           Tick \/ (\E p \in net : SVC_GetChallenge(p)) \/ UNCHANGED vars
    PROVE  TypeOK'
  <1>1. CASE Tick
    <2>1. now \in Nat /\ now' = now + 1 /\ UNCHANGED slots
      BY <1>1 DEF TypeOK, Tick
    <2>2. \A i \in Slot : slots'[i].started <= now' /\ slots'[i].heard <= now'
      <3>1. \A i \in Slot : slots[i].started \in Nat /\ slots[i].heard \in Nat
        BY SlotParts DEF TypeOK
      <3> QED
        BY <2>1, <3>1 DEF TypeOK
    <2>3. net' \subseteq net
      BY <1>1 DEF Tick
    <2> QED
      BY <1>1, <2>1, <2>2, <2>3 DEF TypeOK, Tick
  <1>2. ASSUME NEW p \in net, SVC_GetChallenge(p) PROVE TypeOK'
    <2> DEFINE c == p.client
               answer == IF challenges[c] = 0 THEN 1 ELSE challenges[c]
               q == OutOfBand("challenge", c, answer, 0)
    <2>1. p \in Packet /\ now \in Nat
      BY DEF TypeOK
    <2>2. c \in Clients
      BY <2>1, PacketParts
    <2>3. answer \in Nat
      BY <2>2 DEF TypeOK
    <2>4. q \in Packet
      <3> HIDE DEF answer
      <3> QED
        BY <2>1, <2>2, <2>3, PacketTypes
    <2>5. net' \in SUBSET (net \cup {q})
          /\ challenges' = [challenges EXCEPT ![c] = answer]
          /\ UNCHANGED <<now, cl, slots, users>>
      BY <1>2, SentPackets DEF SVC_GetChallenge
    <2> HIDE DEF c, answer, q
    <2> QED
      BY <2>2, <2>3, <2>4, <2>5 DEF TypeOK
  <1>3. CASE UNCHANGED vars
    BY <1>3 DEF TypeOK, vars
  <1> QED
    BY <1>1, <1>2, <1>3

LEMMA NextType == ASSUME TypeOK, [Next]_vars PROVE TypeOK'
  <1>1. ASSUME NEW p \in net, CL_ParseDisconnect(p) PROVE TypeOK'
    <2>1. p.client \in Clients
      BY PacketParts DEF TypeOK
    <2> QED
      BY <1>1, <2>1, DisconnectType
  <1> QED
    BY <1>1, BeginType, SendType, ChallengeType, ConnectionType,
       DisconnectType, DirectConnectStep, NewIsSlotStep, PacketIsSlotStep,
       KickIsSlotStep, SlotStepKeepsType, TimeoutType, OtherType
    DEF Next

LEMMA ConnectTypes == Spec => []TypeOK
  BY InitType, NextType, PTL DEF Spec

-----------------------------------------------------------------------------
(* The slots, whatever the round trip.                                     *)

Unique ==
    \A i, j \in Slot :
        slots[i].state # "free" /\ slots[j].state # "free"
        /\ slots[i].client = slots[j].client => i = j

(* A client's step, SVC_GetChallenge, or time passing.                     *)
LEMMA StepKinds ==
    ASSUME TypeOK, [Next]_vars
    PROVE  \/ UNCHANGED slots
           \/ \E i \in Slot : SlotStep(i)
           \/ \E p \in net : SVC_DirectConnect(p) /\ ConnectStep(p.client)
           \/ \E i \in Slot : SV_CheckTimeouts(i)
  <1>1. CASE \/ Tick \/ UNCHANGED vars
             \/ \E c \in Clients :
                   \/ CL_BeginServerConnect(c) \/ CL_CheckForResend(c)
                   \/ CL_Disconnect(c)
                   \/ \E kind \in {"new", "cmd"} : CL_Send(c, kind)
    BY <1>1 DEF Tick, vars, CL_BeginServerConnect, CL_CheckForResend,
                CL_Disconnect, CL_Send
  <1>2. CASE \E p \in net : \/ CL_Challenge(p) \/ CL_Connection(p)
                            \/ CL_ParseDisconnect(p) \/ SVC_GetChallenge(p)
    BY <1>2 DEF CL_Challenge, CL_Connection, CL_ParseDisconnect,
                SVC_GetChallenge
  <1>3. CASE \E p \in net : SVC_DirectConnect(p)
    BY <1>3, DirectConnectStep
  <1>4. CASE \E p \in net, i \in Slot :
                \/ Cmd_New(i, p) \/ Cmd_Drop(i, p)
                \/ Cmd_Other(i, p)
    BY <1>4, NewIsSlotStep, PacketIsSlotStep
  <1>5. CASE \E i \in Slot : SV_KickClient(i) \/ SV_CheckTimeouts(i)
    BY <1>5, KickIsSlotStep
  <1> QED
    BY <1>1, <1>2, <1>3, <1>4, <1>5 DEF Next

(* What a step of a slot does to all of them.                              *)
LEMMA AllTouched ==
    ASSUME TypeOK, NEW i \in Slot, SlotStep(i)
    PROVE  \A j \in Slot : slots'[j] = slots[j] \/ Touched(slots[j], slots'[j])
  BY DEF SlotStep, TypeOK

LEMMA FreedSlot ==
    ASSUME TypeOK, NEW i \in Slot, SV_CheckTimeouts(i)
    PROVE  \A j \in Slot : IF j = i THEN slots'[j].state = "free"
                                    ELSE slots'[j] = slots[j]
  BY DEF SV_CheckTimeouts, FreeSlot, TypeOK

LEMMA NextUnique == ASSUME TypeOK, Unique, [Next]_vars PROVE Unique'
  <1>1. CASE UNCHANGED slots
    BY <1>1 DEF Unique
  <1>2. ASSUME NEW i \in Slot, SlotStep(i) PROVE Unique'
    <2>1. \A j \in Slot : /\ slots'[j].client = slots[j].client
                          /\ slots'[j].state = "free" <=> slots[j].state = "free"
      BY <1>2, AllTouched DEF Touched
    <2> QED
      BY <2>1 DEF Unique
  <1>3. ASSUME NEW c, ConnectStep(c) PROVE Unique'
    <2> SUFFICES ASSUME NEW i \in Slot, NEW j \in Slot,
                        slots'[i].state # "free", slots'[j].state # "free",
                        slots'[i].client = slots'[j].client
                 PROVE  i = j
      BY DEF Unique
    <2>1. CASE slots'[i].client = c
      BY <1>3, <2>1 DEF ConnectStep
    <2>2. CASE slots'[i].client # c
      BY <1>3, <2>2 DEF ConnectStep, Unique
    <2> QED
      BY <2>1, <2>2
  <1>4. ASSUME NEW i \in Slot, SV_CheckTimeouts(i) PROVE Unique'
    BY <1>4, FreedSlot DEF Unique
  <1> QED
    BY <1>1, <1>2, <1>3, <1>4, StepKinds

LEMMA InitUnique == Init => Unique
  BY DEF Init, Unique, FreeSlot

(* A client never holds two slots, however its connect packets are lost,   *)
(* repeated or late (CheckReConnect).                                      *)
THEOREM OneSlotEach == Spec => []OneSlot
  <1>1. TypeOK /\ Unique /\ [Next]_vars => TypeOK' /\ Unique'
    BY NextType, NextUnique
  <1>2. TypeOK /\ Unique => OneSlot
    BY DEF OneSlot, Unique
  <1> QED
    BY <1>1, <1>2, InitType, InitUnique, PTL DEF Spec

-----------------------------------------------------------------------------
(* The session.                                                            *)

(* What a client does, but for opening its channel, and SVC_GetChallenge:  *)
(* a connect packet leaves a client that is not connected only.            *)
TalkStep ==
    /\ \A q \in net' \ net :
          /\ q \in Packet /\ q.sent = now /\ q.kind # "connection"
          /\ q.kind = "connect" => cl'[q.client].state # "connected"
    /\ \A c \in Clients : cl'[c].state = "connected" =>
          cl[c].state = "connected" /\ cl'[c].user = cl[c].user
    /\ UNCHANGED <<now, slots, users>>

LEMMA BeginTalks ==
    ASSUME TypeOK, NEW c \in Clients,
           CL_BeginServerConnect(c) \/ CL_CheckForResend(c)
    PROVE  TalkStep
  <1> DEFINE q == OutOfBand("getchallenge", c, 0, 0)
  <1>1. q \in Packet /\ q.sent = now /\ q.kind = "getchallenge"
    BY PacketTypes DEF OutOfBand, TypeOK
  <1>2. net' \in SUBSET (net \cup {q})
    BY SentPackets DEF CL_BeginServerConnect, CL_CheckForResend
  <1>3. \A d \in Clients : /\ cl'[d].state = cl[d].state
                           /\ cl'[d].user = cl[d].user
    BY DEF CL_BeginServerConnect, CL_CheckForResend, TypeOK, Client
  <1>4. UNCHANGED <<now, slots, users>>
    BY DEF CL_BeginServerConnect, CL_CheckForResend
  <1> HIDE DEF q
  <1> QED
    BY <1>1, <1>2, <1>3, <1>4 DEF TalkStep

LEMMA SendTalks ==
    ASSUME TypeOK, NEW c \in Clients, NEW kind \in {"new", "cmd"},
           CL_Send(c, kind)
    PROVE  TalkStep
  <1> DEFINE q == InChannel(kind, c, cl[c].user, cl[c].chan_qport,
                            cl[c].sequence + 1)
  <1>1. cl[c] \in Client /\ now \in Nat
    BY DEF TypeOK
  <1>2. q \in Packet
    BY <1>1, ClientParts, PacketTypes
  <1>3. q.sent = now /\ q.kind \in {"new", "cmd"}
    BY DEF InChannel
  <1>4. net' \in SUBSET (net \cup {q})
    BY SentPackets DEF CL_Send
  <1>5. \A d \in Clients : /\ cl'[d].state = cl[d].state
                           /\ cl'[d].user = cl[d].user
    BY DEF CL_Send, TypeOK, Client
  <1>6. UNCHANGED <<now, slots, users>>
    BY DEF CL_Send
  <1> HIDE DEF q
  <1> QED
    BY <1>2, <1>3, <1>4, <1>5, <1>6 DEF TalkStep

LEMMA ChallengeTalks ==
    ASSUME TypeOK, NEW p \in net, CL_Challenge(p)
    PROVE  TalkStep
  <1> DEFINE c == p.client
             q == OutOfBand("connect", c, p.number, ConnectQport(c))
  <1>1. p \in Packet /\ now \in Nat
    BY DEF TypeOK
  <1>2. c \in Clients /\ p.number \in Nat
    BY <1>1, PacketParts
  <1>3. q \in Packet
    BY <1>1, <1>2, PacketTypes DEF ConnectQport
  <1>4. q.sent = now /\ q.kind = "connect" /\ q.client = c
    BY DEF OutOfBand
  <1>5. \/ net' = net
        \/ cl[c].state = "disconnected" /\ net' \in SUBSET (net \cup {q})
    BY SentPackets DEF CL_Challenge
  <1>6. \A d \in Clients : /\ cl'[d].state = cl[d].state
                           /\ cl'[d].user = cl[d].user
    BY DEF CL_Challenge, TypeOK, Client
  <1>7. UNCHANGED <<now, slots, users>>
    BY DEF CL_Challenge
  <1> HIDE DEF c, q
  <1> QED
    BY <1>2, <1>3, <1>4, <1>5, <1>6, <1>7 DEF TalkStep

LEMMA DisconnectTalks ==
    ASSUME TypeOK, NEW c \in Clients,
           \/ CL_Disconnect(c)
           \/ \E p \in net : p.client = c /\ CL_ParseDisconnect(p)
    PROVE  TalkStep
  <1> DEFINE q == InChannel("drop", c, cl[c].user, cl[c].chan_qport,
                            cl[c].sequence + 1)
             s == Disconnected(c)
  <1>1. cl[c] \in Client /\ now \in Nat
    BY DEF TypeOK
  <1>2. q \in Packet
    BY <1>1, ClientParts, PacketTypes
  <1>3. q.sent = now /\ q.kind = "drop"
    BY DEF InChannel
  <1>4. net' \in SUBSET (net \cup {q})
    BY SentPackets DEF CL_Disconnect, CL_ParseDisconnect
  <1>5. s.state = "disconnected"
    BY <1>1 DEF Disconnected, Client
  <1>6. cl' = [cl EXCEPT ![c] = s]
    BY DEF CL_Disconnect, CL_ParseDisconnect
  <1>7. UNCHANGED <<now, slots, users>>
    BY DEF CL_Disconnect, CL_ParseDisconnect
  <1> HIDE DEF q, s
  <1>8. \A d \in Clients : cl'[d] = IF d = c THEN s ELSE cl[d]
    BY <1>6 DEF TypeOK
  <1> QED
    BY <1>2, <1>3, <1>4, <1>5, <1>7, <1>8 DEF TalkStep

LEMMA GetChallengeTalks ==
    ASSUME TypeOK, NEW p \in net, SVC_GetChallenge(p)
    PROVE  TalkStep
  <1> DEFINE c == p.client
             answer == IF challenges[c] = 0 THEN 1 ELSE challenges[c]
             q == OutOfBand("challenge", c, answer, 0)
  <1>1. p \in Packet /\ now \in Nat
    BY DEF TypeOK
  <1>2. c \in Clients
    BY <1>1, PacketParts
  <1>3. answer \in Nat
    BY <1>2 DEF TypeOK
  <1>4. q.sent = now /\ q.kind = "challenge"
    BY DEF OutOfBand
  <1>5. net' \in SUBSET (net \cup {q}) /\ UNCHANGED <<now, slots, cl, users>>
    BY SentPackets DEF SVC_GetChallenge
  <1>6. q \in Packet
    <2> HIDE DEF answer
    <2> QED
      BY <1>1, <1>2, <1>3, PacketTypes
  <1> HIDE DEF c, answer, q
  <1> QED
    BY <1>4, <1>5, <1>6 DEF TalkStep

(* All there is to a step.                                                 *)
LEMMA SessionSteps ==
    ASSUME TypeOK, [Next]_vars
    PROVE  \/ TalkStep \/ Tick
           \/ \E p \in net : CL_Connection(p)
           \/ \E i \in Slot : SlotStep(i)
           \/ \E p \in net : SVC_DirectConnect(p) /\ ConnectStep(p.client)
           \/ \E i \in Slot : SV_CheckTimeouts(i)
  <1>1. CASE UNCHANGED vars
    BY <1>1 DEF vars, TalkStep
  <1>2. ASSUME NEW p \in net, CL_ParseDisconnect(p) PROVE TalkStep
    <2>1. p.client \in Clients
      BY PacketParts DEF TypeOK
    <2> QED
      BY <1>2, <2>1, DisconnectTalks
  <1>3. CASE Next
    BY <1>2, <1>3, BeginTalks, SendTalks, ChallengeTalks, DisconnectTalks,
       GetChallengeTalks, NewIsSlotStep, PacketIsSlotStep, KickIsSlotStep,
       DirectConnectStep
    DEF Next
  <1> QED
    BY <1>1, <1>3

(* A session that is alive stays so when its slot takes packets.           *)
LEMMA SessionKept ==
    ASSUME TypeOK, NEW i \in Slot, SlotStep(i),
           NEW j \in Slot, NEW c, NEW user, NEW since \in Int,
           since <= now, HasSession(j, c, user, since)
    PROVE  HasSession(j, c, user, since)'
  <1>1. slots'[j] = slots[j] \/ Touched(slots[j], slots'[j])
    BY AllTouched
  <1>2. now \in Nat /\ UNCHANGED now
    BY DEF TypeOK, SlotStep
  <1> QED
    BY <1>1, <1>2 DEF HasSession, SameClient, Touched

(* SV_CheckTimeouts frees no slot that was alive within a round trip.      *)
LEMMA SessionOutlives ==
    ASSUME RoundTrip, TypeOK, Timely, NEW i \in Slot, SV_CheckTimeouts(i),
           NEW j \in Slot, NEW c, NEW user, NEW since \in Int,
           now <= since + 2 * Lifetime, HasSession(j, c, user, since)
    PROVE  HasSession(j, c, user, since)'
  <1>1. /\ now \in Nat /\ slots[j].started \in Nat /\ slots[j].heard \in Nat
        /\ slots[j].started <= now
    BY SlotParts DEF TypeOK
  <1>2. j # i
    <2> SUFFICES ASSUME j = i PROVE FALSE
      OBVIOUS
    <2>1. since <= slots[j].heard
      BY DEF HasSession
    <2>2. CASE Live(j) /\ slots[j].heard + timeout < now
      BY <1>1, <2>1, <2>2, Naturals DEF RoundTrip
    <2>3. CASE slots[j].state = "zombie"
               /\ SV_ClientConnectedTime(slots[j]) > zombietime
      <3>1. slots[j].started # 0 /\ since <= slots[j].started
        BY <2>3 DEF Timely, HasSession
      <3>2. now - slots[j].started > zombietime
        BY <2>3, <3>1 DEF SV_ClientConnectedTime
      <3> QED
        BY <1>1, <3>1, <3>2, Naturals DEF RoundTrip
    <2> QED
      BY <2>2, <2>3 DEF SV_CheckTimeouts
  <1>3. slots'[j] = slots[j]
    BY <1>2, FreedSlot
  <1> QED
    BY <1>3 DEF HasSession, SameClient

(* A client whose session began within a round trip has its connect        *)
(* packets refused ("reconnect rejected: too soon").                       *)
LEMMA SessionRefuses ==
    ASSUME RoundTrip, TypeOK, NEW c, ~TooSoon(c),
           NEW j \in Slot, NEW user, NEW since \in Int,
           now <= since + 2 * Lifetime, HasSession(j, c, user, since)
    PROVE  FALSE
  <1>1. /\ now \in Nat /\ slots[j].started \in Nat
        /\ slots[j].started <= now
    BY SlotParts DEF TypeOK
  <1>2. SV_ClientConnectedTime(slots[j]) <= 2 * Lifetime
    <2>1. CASE slots[j].started = 0
      BY <2>1, Naturals DEF SV_ClientConnectedTime
    <2>2. CASE slots[j].started # 0
      <3>1. since <= slots[j].started
        BY <2>2 DEF HasSession
      <3>2. SV_ClientConnectedTime(slots[j]) = now - slots[j].started
        BY <2>2 DEF SV_ClientConnectedTime
      <3> QED
        BY <1>1, <3>1, <3>2, Naturals
    <2> QED
      BY <2>1, <2>2
  <1>3. SV_ClientConnectedTime(slots[j]) \in Int
    BY <1>1 DEF SV_ClientConnectedTime
  <1>4. SV_ClientConnectedTime(slots[j]) < sv_reconnectlimit
    BY <1>2, <1>3, Naturals DEF RoundTrip
  <1> QED
    BY <1>4 DEF TooSoon, HasSession

(* Every packet on the way that the invariant speaks of is young.          *)
LEMMA YoungPackets ==
    ASSUME TypeOK, Timely, NEW p \in net
    PROVE  /\ p.client \in Clients /\ p.number \in Nat /\ p.sent \in Nat
           /\ now \in Nat /\ Lifetime \in Nat
           /\ p.sent <= now /\ p.sent - Lifetime <= now
           /\ now <= p.sent + 2 * Lifetime
           /\ now <= (p.sent - Lifetime) + 2 * Lifetime
  <1>1. p.client \in Clients /\ p.number \in Nat /\ p.sent \in Nat
        /\ now \in Nat /\ Lifetime \in Nat
    BY PacketParts, Naturals DEF TypeOK
  <1>2. p.sent <= now /\ now <= p.sent + Lifetime
    BY DEF Timely
  <1> QED
    BY <1>1, <1>2

-----------------------------------------------------------------------------
(* One step at a time.                                                     *)

SessionInv == Timely /\ Opened /\ LeftOver /\ Agreed

LEMMA TalkKeeps ==
    ASSUME IInv, TypeOK', TalkStep
    PROVE  SessionInv'
  <1>1. \A i \in Slot : \A c, user, since :
           HasSession(i, c, user, since)' <=> HasSession(i, c, user, since)
    BY DEF TalkStep, HasSession, SameClient
  <1>2. Timely'
    <2>1. \A p \in net' : p.sent <= now' /\ now' <= p.sent + Lifetime
      <3> TAKE p \in net'
      <3>1. CASE p \in net
        BY <3>1 DEF IInv, Timely, TalkStep
      <3>2. CASE p \notin net
        BY <3>2, Naturals DEF TalkStep, IInv, OneSlot, TypeOK
      <3> QED
        BY <3>1, <3>2
    <2> QED
      BY <2>1 DEF IInv, Timely, TalkStep
  <1>3. Opened'
    BY <1>1 DEF IInv, Opened, TalkStep
  <1>4. LeftOver'
    <2>1. ASSUME NEW p \in net', p.kind = "connect",
                 cl'[p.client].state = "connected"
          PROVE  /\ p \in net /\ p.client \in Clients
                 /\ cl[p.client].state = "connected"
                 /\ cl'[p.client].user = cl[p.client].user
      <3>1. p \in net
        BY <2>1 DEF TalkStep
      <3>2. p.client \in Clients
        BY <3>1, PacketParts DEF IInv, OneSlot, TypeOK
      <3> QED
        BY <2>1, <3>1, <3>2 DEF TalkStep
    <2>2. slots' = slots
      BY DEF TalkStep
    <2> QED
      BY <2>1, <2>2 DEF IInv, LeftOver, HasSession, SameClient
  <1>5. Agreed'
    BY DEF IInv, Agreed, TalkStep, Live
  <1> QED
    BY <1>2, <1>3, <1>4, <1>5 DEF SessionInv

LEMMA TickKeeps ==
    ASSUME IInv, TypeOK', Tick
    PROVE  SessionInv'
  <1>1. /\ net' = {p \in net : p.sent + Lifetime >= now'}
        /\ now' = now + 1 /\ UNCHANGED <<cl, slots>>
    BY DEF Tick
  <1>2. \A p \in net : p.sent \in Nat /\ p.sent <= now
    BY PacketParts DEF IInv, Timely, OneSlot, TypeOK
  <1>3. now \in Nat /\ Lifetime \in Nat
    BY Naturals DEF IInv, OneSlot, TypeOK
  <1>4. Timely'
    <2>1. \A p \in net' : p.sent <= now' /\ now' <= p.sent + Lifetime
      BY <1>1, <1>2, <1>3
    <2> QED
      BY <1>1, <1>3, <2>1 DEF IInv, Timely
  <1>5. Opened' /\ LeftOver' /\ Agreed'
    BY <1>1 DEF IInv, Opened, LeftOver, Agreed, HasSession, SameClient,
                Live
  <1> QED
    BY <1>4, <1>5 DEF SessionInv

(* The channel a client opens is that of a session that lives still.       *)
LEMMA ConnectionKeeps ==
    ASSUME IInv, TypeOK', NEW k \in net, CL_Connection(k)
    PROVE  SessionInv'
  <1> DEFINE c == k.client
  <1>1. /\ TypeOK /\ Timely /\ Opened /\ LeftOver /\ Agreed /\ Unique
        /\ k.kind = "connection"
    BY DEF IInv, OneSlot, Unique, CL_Connection
  <1>2. c \in Clients /\ k.sent \in Nat /\ k.number \in Nat
    BY <1>1, YoungPackets
  <1>3. UNCHANGED <<now, net, slots>>
    BY DEF CL_Connection
  <1>4. /\ cl'[c].state = "connected" /\ cl'[c].user = k.number
        /\ \A d \in Clients : d # c => cl'[d] = cl[d]
    BY <1>1, <1>2 DEF CL_Connection, TypeOK, Client
  <1>5. PICK i \in Slot : HasSession(i, c, k.number, k.sent)
    BY <1>1 DEF Opened
  <1>6. Timely' /\ Opened'
    BY <1>1, <1>3 DEF Timely, Opened, HasSession, SameClient
  <1>7. LeftOver'
    <2>1. ASSUME NEW p \in net, p.kind = "connect",
                 cl'[p.client].state = "connected"
          PROVE  \E j \in Slot :
                    HasSession(j, p.client, cl'[p.client].user,
                               p.sent - Lifetime)
      <3>1. p.client \in Clients
        BY <1>1, YoungPackets
      <3>2. CASE p.client = c
        <4>1. p.sent - Lifetime <= k.sent /\ p.sent - Lifetime \in Int
              /\ k.sent \in Int
          BY <1>1, YoungPackets DEF Timely
        <4>2. slots[i].started \in Nat /\ slots[i].heard \in Nat
          BY <1>1, SlotParts DEF TypeOK
        <4>3. HasSession(i, c, k.number, p.sent - Lifetime)
          BY <1>5, <4>1, <4>2 DEF HasSession
        <4> QED
          BY <1>4, <3>2, <4>3
      <3>3. CASE p.client # c
        BY <1>1, <1>4, <2>1, <3>1, <3>3 DEF LeftOver
      <3> QED
        BY <3>2, <3>3
    <2> QED
      BY <1>3, <2>1 DEF LeftOver, HasSession, SameClient
  <1>8. Agreed'
    <2>1. ASSUME NEW d \in Clients, NEW j \in Slot,
                 cl'[d].state = "connected", Live(j), slots[j].client = d
          PROVE  slots[j].user = cl'[d].user
      <3>1. CASE d = c
        <4>1. j = i
          BY <1>1, <1>5, <2>1, <3>1 DEF Unique, Live, HasSession, SameClient
        <4> QED
          BY <1>4, <1>5, <3>1, <4>1 DEF HasSession
      <3>2. CASE d # c
        BY <1>1, <1>4, <2>1, <3>2 DEF Agreed
      <3> QED
        BY <3>1, <3>2
    <2> QED
      BY <1>3, <2>1 DEF Agreed, Live
  <1> QED
    BY <1>6, <1>7, <1>8 DEF SessionInv

LEMMA SlotKeeps ==
    ASSUME IInv, TypeOK', NEW i \in Slot, SlotStep(i)
    PROVE  SessionInv'
  <1>1. TypeOK /\ Timely /\ Opened /\ LeftOver /\ Agreed
    BY DEF IInv, OneSlot
  <1>2. /\ \A q \in net' \ net : q.kind = "disconnect" /\ q.sent = now
        /\ UNCHANGED <<now, cl>> /\ now \in Nat
    BY <1>1 DEF SlotStep, TypeOK
  <1>3. \A j \in Slot : slots'[j] = slots[j] \/ Touched(slots[j], slots'[j])
    BY <1>1, AllTouched
  <1>4. Timely'
    <2>1. \A p \in net' : p.sent <= now' /\ now' <= p.sent + Lifetime
      <3> TAKE p \in net'
      <3>1. CASE p \in net
        BY <1>1, <1>2, <3>1 DEF Timely
      <3>2. CASE p \notin net
        BY <1>2, <3>2, Naturals
      <3> QED
        BY <3>1, <3>2
    <2>2. \A j \in Slot : slots'[j].state = "zombie" => slots'[j].started # 0
      BY <1>1, <1>2, <1>3 DEF Timely, Touched
    <2> QED
      BY <1>1, <1>2, <2>1, <2>2 DEF Timely
  <1>5. Opened'
    <2>1. ASSUME NEW p \in net', p.kind = "connection"
          PROVE  \E j \in Slot : HasSession(j, p.client, p.number, p.sent)'
      <3>1. p \in net
        BY <1>2, <2>1
      <3>2. PICK j \in Slot : HasSession(j, p.client, p.number, p.sent)
        BY <1>1, <2>1, <3>1 DEF Opened
      <3>3. p.sent \in Int /\ p.sent <= now
        BY <1>1, <3>1, YoungPackets
      <3>4. ASSUME NEW owner, owner = p.client, NEW user, user = p.number,
                   NEW since, since = p.sent
            PROVE  HasSession(j, owner, user, since)'
        BY <1>1, <3>2, <3>3, <3>4, SessionKept
      <3> QED
        BY <3>4
    <2> QED
      BY <2>1 DEF Opened
  <1>6. LeftOver'
    <2>1. ASSUME NEW p \in net', p.kind = "connect",
                 cl'[p.client].state = "connected"
          PROVE  \E j \in Slot : HasSession(j, p.client, cl[p.client].user,
                                            p.sent - Lifetime)'
      <3>1. p \in net
        BY <1>2, <2>1
      <3>2. PICK j \in Slot : HasSession(j, p.client, cl[p.client].user,
                                         p.sent - Lifetime)
        BY <1>1, <1>2, <2>1, <3>1 DEF LeftOver
      <3>3. p.sent - Lifetime \in Int /\ p.sent - Lifetime <= now
        BY <1>1, <3>1, YoungPackets
      <3>4. ASSUME NEW owner, owner = p.client,
                   NEW user, user = cl[p.client].user,
                   NEW since, since = p.sent - Lifetime
            PROVE  HasSession(j, owner, user, since)'
        BY <1>1, <3>2, <3>3, <3>4, SessionKept
      <3> QED
        BY <1>2, <3>4
    <2> QED
      BY <1>2, <2>1 DEF LeftOver
  <1>7. Agreed'
    BY <1>1, <1>2, <1>3 DEF Agreed, Live, Touched
  <1> QED
    BY <1>4, <1>5, <1>6, <1>7 DEF SessionInv

LEMMA TimeoutKeeps ==
    ASSUME RoundTrip, IInv, TypeOK', NEW i \in Slot, SV_CheckTimeouts(i)
    PROVE  SessionInv'
  <1>1. TypeOK /\ Timely /\ Opened /\ LeftOver /\ Agreed
    BY DEF IInv, OneSlot
  <1>2. UNCHANGED <<now, net, cl>>
    BY DEF SV_CheckTimeouts
  <1>3. \A j \in Slot : IF j = i THEN slots'[j].state = "free"
                                 ELSE slots'[j] = slots[j]
    BY <1>1, FreedSlot
  <1>4. Timely'
    BY <1>1, <1>2, <1>3 DEF Timely
  <1>5. Opened'
    <2>1. ASSUME NEW p \in net, p.kind = "connection"
          PROVE  \E j \in Slot : HasSession(j, p.client, p.number, p.sent)'
      <3>1. PICK j \in Slot : HasSession(j, p.client, p.number, p.sent)
        BY <1>1, <2>1 DEF Opened
      <3>2. p.sent \in Int /\ now <= p.sent + 2 * Lifetime
        BY <1>1, YoungPackets
      <3>3. ASSUME NEW owner, owner = p.client, NEW user, user = p.number,
                   NEW since, since = p.sent
            PROVE  HasSession(j, owner, user, since)'
        BY <1>1, <3>1, <3>2, <3>3, SessionOutlives
      <3> QED
        BY <3>3
    <2> QED
      BY <1>2, <2>1 DEF Opened
  <1>6. LeftOver'
    <2>1. ASSUME NEW p \in net, p.kind = "connect",
                 cl[p.client].state = "connected"
          PROVE  \E j \in Slot : HasSession(j, p.client, cl[p.client].user,
                                            p.sent - Lifetime)'
      <3>1. PICK j \in Slot : HasSession(j, p.client, cl[p.client].user,
                                         p.sent - Lifetime)
        BY <1>1, <2>1 DEF LeftOver
      <3>2. /\ p.sent - Lifetime \in Int
            /\ now <= (p.sent - Lifetime) + 2 * Lifetime
        BY <1>1, YoungPackets
      <3>3. ASSUME NEW owner, owner = p.client,
                   NEW user, user = cl[p.client].user,
                   NEW since, since = p.sent - Lifetime
            PROVE  HasSession(j, owner, user, since)'
        BY <1>1, <3>1, <3>2, <3>3, SessionOutlives
      <3> QED
        BY <1>2, <3>3
    <2> QED
      BY <1>2, <2>1 DEF LeftOver
  <1>7. Agreed'
    BY <1>1, <1>2, <1>3 DEF Agreed, Live
  <1> QED
    BY <1>4, <1>5, <1>6, <1>7 DEF SessionInv

(* While the client of a connect packet is connected, or about to be, the  *)
(* packet comes too soon: a connect packet that is accepted leaves every   *)
(* other client's session alone and none of its own behind.                *)
LEMMA ConnectKeeps ==
    ASSUME RoundTrip, IInv, TypeOK', NEW k \in net, SVC_DirectConnect(k),
           ConnectStep(k.client)
    PROVE  SessionInv'
  <1> DEFINE c == k.client
  <1>1. TypeOK /\ Timely /\ Opened /\ LeftOver /\ Agreed
    BY DEF IInv, OneSlot
  <1>2. k.kind = "connect" /\ ~TooSoon(c)
    BY DEF SVC_DirectConnect
  <1>3. c \in Clients /\ now \in Nat /\ Lifetime \in Nat
    BY <1>1, YoungPackets
  <1>4. cl[c].state # "connected"
    <2> SUFFICES ASSUME cl[c].state = "connected" PROVE FALSE
      OBVIOUS
    <2>1. PICK j \in Slot :
             HasSession(j, c, cl[c].user, k.sent - Lifetime)
      BY <1>1, <1>2 DEF LeftOver
    <2>2. /\ k.sent - Lifetime \in Int
          /\ now <= (k.sent - Lifetime) + 2 * Lifetime
      BY <1>1, YoungPackets
    <2> QED
      BY <1>1, <1>2, <2>1, <2>2, SessionRefuses
  <1>5. ASSUME NEW p \in net, p.kind = "connection" PROVE p.client # c
    <2> SUFFICES ASSUME p.client = c PROVE FALSE
      OBVIOUS
    <2>1. PICK j \in Slot : HasSession(j, c, p.number, p.sent)
      BY <1>1, <1>5 DEF Opened
    <2>2. p.sent \in Int /\ now <= p.sent + 2 * Lifetime
      BY <1>1, YoungPackets
    <2> QED
      BY <1>1, <1>2, <2>1, <2>2, SessionRefuses
  <1> DEFINE q == OutOfBand("connection", c, users', 0)
  <1>6. /\ q.kind = "connection" /\ q.client = c /\ q.number = users'
        /\ q.sent = now
    BY DEF OutOfBand
  <1>7. /\ \A j \in Slot : slots'[j].state # "free" /\ slots'[j].client # c
                           => slots'[j] = slots[j]
        /\ \A j \in Slot : slots[j].state # "free" /\ slots[j].client # c
                           => slots'[j] = slots[j]
        /\ UNCHANGED <<now, cl>>
    BY DEF ConnectStep
  <1>8. \/ /\ net' = net
           /\ \A j \in Slot : slots'[j].state # "free"
                              => slots'[j].client # c
        \/ \E i \in Slot :
              /\ slots'[i].state = "preconnected" /\ slots'[i].client = c
              /\ slots'[i].user = users' /\ slots'[i].started = 0
              /\ slots'[i].heard = now
              /\ \A j \in Slot : slots'[j].state # "free"
                                 /\ slots'[j].client = c => j = i
              /\ net' \in SUBSET (net \cup {q})
    <2>1. ConnectStep(c)
      OBVIOUS
    <2>2. CASE \E i \in Slot, qport \in Nat :
                  /\ slots'[i] = NewSession(c, qport, users')
                  /\ \A j \in Slot :
                        slots'[j].state # "free" /\ slots'[j].client = c
                        => j = i
                  /\ net' \in SUBSET (net \cup {q})
      <3> HIDE DEF c, q
      <3>1. PICK i \in Slot, qport \in Nat :
               /\ slots'[i] = NewSession(c, qport, users')
               /\ \A j \in Slot :
                     slots'[j].state # "free" /\ slots'[j].client = c
                     => j = i
               /\ net' \in SUBSET (net \cup {q})
        BY <2>2
      <3>2. /\ slots'[i].state = "preconnected" /\ slots'[i].client = c
            /\ slots'[i].user = users' /\ slots'[i].started = 0
            /\ slots'[i].heard = now
        BY <3>1 DEF NewSession
      <3> QED
        BY <3>1, <3>2
    <2> QED
      BY <2>1, <2>2 DEF ConnectStep
  <1> HIDE DEF c, q
  <1>9. Timely'
    <2>1. \A p \in net' : p.sent <= now' /\ now' <= p.sent + Lifetime
      <3> TAKE p \in net'
      <3>1. CASE p \in net
        BY <1>1, <1>7, <3>1 DEF Timely
      <3>2. CASE p \notin net
        BY <1>3, <1>6, <1>7, <1>8, <3>2
      <3> QED
        BY <3>1, <3>2
    <2>2. \A j \in Slot : slots'[j].state = "zombie" => slots'[j].started # 0
      BY <1>1, <1>7, <1>8 DEF Timely
    <2> QED
      BY <1>1, <1>7, <2>1, <2>2 DEF Timely
  <1>10. \A j \in Slot : \A d, user, since :
            d # c /\ HasSession(j, d, user, since)
            => HasSession(j, d, user, since)'
    BY <1>7 DEF HasSession, SameClient
  <1>11. Opened'
    <2>1. ASSUME NEW p \in net', p.kind = "connection"
          PROVE  \E j \in Slot : HasSession(j, p.client, p.number, p.sent)'
      <3>1. CASE p \in net
        BY <1>1, <1>5, <1>10, <2>1, <3>1 DEF Opened
      <3>2. CASE p \notin net
        <4>1. p = q
          BY <1>8, <3>2
        <4>2. PICK i \in Slot :
                 /\ slots'[i].state = "preconnected" /\ slots'[i].client = c
                 /\ slots'[i].user = users' /\ slots'[i].started = 0
                 /\ slots'[i].heard = now
          BY <1>8, <3>2
        <4>3. HasSession(i, p.client, p.number, p.sent)'
          BY <1>3, <1>6, <4>1, <4>2 DEF HasSession, SameClient
        <4> QED
          BY <4>3
      <3> QED
        BY <3>1, <3>2
    <2> QED
      BY <2>1 DEF Opened
  <1>12. LeftOver'
    <2>1. ASSUME NEW p \in net', p.kind = "connect",
                 cl'[p.client].state = "connected"
          PROVE  \E j \in Slot : HasSession(j, p.client, cl[p.client].user,
                                            p.sent - Lifetime)'
      <3>1. p \in net /\ p.client # c /\ cl[p.client].state = "connected"
        BY <1>4, <1>6, <1>7, <1>8, <2>1
      <3>2. PICK j \in Slot : HasSession(j, p.client, cl[p.client].user,
                                         p.sent - Lifetime)
        BY <1>1, <2>1, <3>1 DEF LeftOver
      <3>3. slots'[j] = slots[j]
        BY <1>7, <3>1, <3>2 DEF HasSession, SameClient
      <3> QED
        BY <1>7, <3>2, <3>3 DEF HasSession, SameClient
    <2> QED
      BY <1>7, <2>1 DEF LeftOver
  <1>13. Agreed'
    BY <1>1, <1>4, <1>7 DEF Agreed, Live
  <1> QED
    BY <1>9, <1>11, <1>12, <1>13 DEF SessionInv

-----------------------------------------------------------------------------
LEMMA InitSession == Init => IInv
  <1> SUFFICES ASSUME Init PROVE IInv
    OBVIOUS
  <1>1. OneSlot
    BY InitType, InitUnique DEF OneSlot, Unique
  <1>2. Timely
    BY DEF Init, Timely, FreeSlot
  <1>3. Opened /\ LeftOver /\ Agreed
    BY DEF Init, Opened, LeftOver, Agreed
  <1> QED
    BY <1>1, <1>2, <1>3 DEF IInv

LEMMA NextSession ==
    ASSUME RoundTrip, IInv, [Next]_vars
    PROVE  IInv'
  <1>1. TypeOK /\ Unique
    BY DEF IInv, OneSlot, Unique
  <1>2. TypeOK' /\ Unique'
    BY <1>1, NextType, NextUnique
  <1>3. SessionInv'
    BY <1>1, <1>2, SessionSteps, TalkKeeps, TickKeeps, ConnectionKeeps,
       SlotKeeps, ConnectKeeps, TimeoutKeeps
  <1> QED
    BY <1>2, <1>3 DEF IInv, OneSlot, Unique, SessionInv

-----------------------------------------------------------------------------
(* The sessions in the order of their numbers, whatever the round trip.    *)

(* Neither an S2C_CONNECTION nor a connected client is of a later session  *)
(* than the slot of its client.                                            *)
NotLater(table, last, c, user) ==
    /\ user <= last
    /\ \A i \in Slot : table[i].state # "free" /\ table[i].client = c
                        => user <= table[i].user

Numbered ==
    /\ \A i \in Slot : slots[i].state # "free" => slots[i].user <= users
    /\ \A p \in net : p.kind = "connection" => NotLater(slots, users, p.client, p.number)
    /\ \A c \in Clients : cl[c].state = "connected" => NotLater(slots, users, c, cl[c].user)

LEMMA NotLaterKept ==
    ASSUME TypeOK, NEW c, NEW user \in Nat, NotLater(slots, users, c, user), users' = users,
           \A i \in Slot : slots'[i].state # "free" =>
               /\ slots[i].state # "free" /\ slots'[i].client = slots[i].client
               /\ slots'[i].user = slots[i].user
    PROVE  NotLater(slots', users', c, user)
  BY DEF NotLater

LEMMA NextNumbered == ASSUME TypeOK, TypeOK', Numbered, [Next]_vars PROVE Numbered'
  <1>1. /\ users \in Nat /\ \A i \in Slot : slots[i].user \in Nat
        /\ \A p \in net : p.number \in Nat /\ p.client \in Clients
        /\ \A c \in Clients : cl[c].user \in Nat
    BY PacketParts, SlotParts, ClientParts DEF TypeOK
  <1>2. ASSUME users' = users,
               \A i \in Slot : slots'[i].state # "free" =>
                   /\ slots[i].state # "free" /\ slots'[i].client = slots[i].client
                   /\ slots'[i].user = slots[i].user,
               \A p \in net' \ net : p.kind # "connection",
               \A c \in Clients : cl'[c].state = "connected" =>
                   \/ cl[c].state = "connected" /\ cl'[c].user = cl[c].user
                   \/ \E p \in net : /\ p.kind = "connection" /\ p.client = c
                                     /\ cl'[c].user = p.number
        PROVE  Numbered'
    <2>1. \A i \in Slot : slots'[i].state # "free" => slots'[i].user <= users'
      BY <1>2 DEF Numbered
    <2>2. ASSUME NEW p \in net', p.kind = "connection" PROVE NotLater(slots', users', p.client, p.number)
      <3>1. p \in net
        BY <1>2, <2>2
      <3> QED
        BY <1>1, <1>2, <2>2, <3>1, NotLaterKept DEF Numbered
    <2>3. ASSUME NEW c \in Clients, cl'[c].state = "connected"
          PROVE  NotLater(slots', users', c, cl'[c].user)
      <3>1. cl'[c].user \in Nat /\ NotLater(slots, users, c, cl'[c].user)
        BY <1>1, <1>2, <2>3 DEF Numbered
      <3> QED
        BY <1>2, <3>1, NotLaterKept
    <2> QED
      BY <2>1, <2>2, <2>3 DEF Numbered
  <1>3. CASE TalkStep \/ Tick
    <2>1. UNCHANGED <<slots, users>> /\ \A p \in net' \ net : p.kind # "connection"
      BY <1>3 DEF TalkStep, Tick
    <2>2. \A c \in Clients : cl'[c].state = "connected" =>
              cl[c].state = "connected" /\ cl'[c].user = cl[c].user
      BY <1>3 DEF TalkStep, Tick
    <2> QED
      BY <1>2, <2>1, <2>2
  <1>4. ASSUME NEW p \in net, CL_Connection(p) PROVE Numbered'
    <2>1. UNCHANGED <<net, slots, users>> /\ p.kind = "connection"
      BY <1>4 DEF CL_Connection
    <2>2. /\ cl'[p.client].user = p.number
          /\ \A d \in Clients : d # p.client => cl'[d] = cl[d]
      BY <1>1, <1>4 DEF CL_Connection, TypeOK, Client
    <2> QED
      BY <1>2, <2>1, <2>2
  <1>5. ASSUME NEW i \in Slot, SlotStep(i) PROVE Numbered'
    <2>1. /\ UNCHANGED <<cl, users>>
          /\ \A p \in net' \ net : p.kind # "connection"
      BY <1>5 DEF SlotStep
    <2>2. \A j \in Slot : slots'[j].state # "free" =>
              /\ slots[j].state # "free" /\ slots'[j].client = slots[j].client
              /\ slots'[j].user = slots[j].user
      BY <1>5, AllTouched DEF Touched
    <2> QED
      BY <1>2, <2>1, <2>2
  <1>6. ASSUME NEW i \in Slot, SV_CheckTimeouts(i) PROVE Numbered'
    <2>1. UNCHANGED <<net, cl, users>>
      BY <1>6 DEF SV_CheckTimeouts
    <2> QED
      BY <1>2, <1>6, <2>1, FreedSlot
  <1>7. ASSUME NEW c, ConnectStep(c) PROVE Numbered'
    <2>1. users' \in {users, users + 1} /\ UNCHANGED cl
      BY <1>7 DEF ConnectStep
    <2>2. \A j \in Slot : slots'[j].state # "free" =>
              \/ slots'[j] = slots[j] /\ slots[j].state # "free"
              \/ users' = users + 1 /\ slots'[j].user = users'
      <3>1. SUFFICES ASSUME NEW j \in Slot, slots'[j].state # "free"
                     PROVE  \/ slots'[j] = slots[j] /\ slots[j].state # "free"
                            \/ users' = users + 1 /\ slots'[j].user = users'
        OBVIOUS
      <3>2. CASE slots'[j].client # c
        BY <1>7, <3>1, <3>2 DEF ConnectStep
      <3>3. CASE slots'[j].client = c
        <4>1. PICK i \in Slot, qport \in Nat :
                 /\ users' = users + 1
                 /\ slots'[i] = NewSession(c, qport, users')
                 /\ slots'[j].state # "free" /\ slots'[j].client = c => j = i
          BY <1>7, <3>1, <3>3 DEF ConnectStep
        <4>2. slots'[j] = NewSession(c, qport, users')
          BY <3>1, <3>3, <4>1
        <4> QED
          BY <4>1, <4>2 DEF NewSession
      <3> QED
        BY <3>2, <3>3
    <2>3. \A d : \A user \in Nat : NotLater(slots, users, d, user) => NotLater(slots', users', d, user)
      BY <1>1, <2>1, <2>2 DEF NotLater
    <2>4. \A i \in Slot : slots'[i].state # "free" => slots'[i].user <= users'
      BY <1>1, <2>1, <2>2 DEF Numbered
    <2>5. ASSUME NEW p \in net', p.kind = "connection" PROVE NotLater(slots', users', p.client, p.number)
      <3>1. CASE p \in net
        BY <1>1, <2>3, <2>5, <3>1 DEF Numbered
      <3>2. CASE p \notin net
        <4>1. users' = users + 1 /\ p = OutOfBand("connection", c, users', 0)
          BY <1>7, <3>2 DEF ConnectStep
        <4>2. p.client = c /\ p.number = users'
          BY <4>1 DEF OutOfBand
        <4>3. \A j \in Slot : slots'[j].state # "free" /\ slots'[j].client = c
                  => slots'[j].user = users'
          <5>1. net' # net
            BY <3>2
          <5>2. PICK i \in Slot, qport \in Nat :
                   /\ slots'[i] = NewSession(c, qport, users')
                   /\ \A j \in Slot : /\ slots'[j].state # "free"
                                      /\ slots'[j].client = c
                                      => j = i
            BY <1>7, <5>1 DEF ConnectStep
          <5> QED
            BY <5>2 DEF NewSession
        <4> QED
          BY <1>1, <2>1, <4>2, <4>3 DEF NotLater
      <3> QED
        BY <3>1, <3>2
    <2>6. \A d \in Clients : cl'[d].state = "connected" => NotLater(slots', users', d, cl'[d].user)
      BY <1>1, <2>1, <2>3 DEF Numbered
    <2> QED
      BY <2>4, <2>5, <2>6 DEF Numbered
  <1> QED
    BY <1>3, <1>4, <1>5, <1>6, <1>7, SessionSteps

LEMMA InitNumbered == Init => Numbered
  BY DEF Init, Numbered, FreeSlot

(* A client that thinks it is connected is never in a later session than   *)
(* its slot, however connect packets and their answers are lost, repeated  *)
(* or late; and it is in the same one on a server whose sv_reconnectlimit  *)
(* is above a round trip (SVC_DirectConnect's "reconnect rejected: too     *)
(* soon").                                                                 *)
THEOREM SessionsAgree == Spec => []SameSession
  <1>1. TypeOK /\ Numbered /\ [Next]_vars => TypeOK' /\ Numbered'
    BY NextType, NextNumbered
  <1>2. (RoundTrip => IInv) /\ [Next]_vars => (RoundTrip => IInv)'
    <2>1. RoundTrip' <=> RoundTrip
      BY DEF RoundTrip
    <2> QED
      BY <2>1, NextSession
  <1>3. TypeOK /\ Numbered /\ (RoundTrip => IInv) => SameSession
    BY DEF Numbered, NotLater, SameClient, IInv, Agreed, SameSession, Live
  <1> QED
    BY <1>1, <1>2, <1>3, InitType, InitNumbered, InitSession, PTL DEF Spec

-----------------------------------------------------------------------------
(* The panel of the server browser.                                        *)

PanelInv == PanelTypeOK /\ Tokens

-----------------------------------------------------------------------------
Updater == [at : {"off", "loop", "awake", "in", "asked", "parsing", "done"},
            serv : Servers \cup {None}]

LEMMA UpdaterParts ==
    ASSUME NEW x \in Updater
    PROVE  /\ x.at \in {"off", "loop", "awake", "in", "asked", "parsing",
                        "done"}
           /\ x.serv \in Servers \cup {None}
  BY DEF Updater

LEMMA HoldersFinite ==
    IsFiniteSet(Holders) /\ Cardinality(Holders) \in Nat
  <1>1. IsFiniteSet(Holders)
    BY ThreadAssumption, FS_Subset DEF ThreadAssumption, Holders
  <1> QED
    BY <1>1, FS_CardinalityType

(* One thread goes from x to y.                                            *)
Moves(u, x, y) == updater[u] = x /\ updater' = [updater EXCEPT ![u] = y]

(* How many hold the semaphore after it.                                   *)
LEMMA HoldersMove ==
    ASSUME PanelTypeOK, NEW u \in Updaters, NEW y \in Updater,
           updater' = [updater EXCEPT ![u] = y]
    PROVE  /\ updater' \in [Updaters -> Updater]
           /\ (updater[u].at \in Held <=> y.at \in Held) =>
                 Cardinality(Holders') = Cardinality(Holders)
           /\ updater[u].at \notin Held /\ y.at \in Held =>
                 Cardinality(Holders') = Cardinality(Holders) + 1
           /\ updater[u].at \in Held /\ y.at \notin Held =>
                 Cardinality(Holders') = Cardinality(Holders) - 1
  <1>1. updater \in [Updaters -> Updater]
    BY DEF PanelTypeOK, Updater
  <1>2. \A v \in Updaters : updater'[v] = IF v = u THEN y ELSE updater[v]
    BY <1>1
  <1>3. CASE updater[u].at \in Held <=> y.at \in Held
    <2>1. Holders' = Holders
      BY <1>2, <1>3 DEF Holders
    <2> QED
      BY <1>1, <1>3, <2>1
  <1>4. CASE updater[u].at \notin Held /\ y.at \in Held
    <2>1. Holders' = Holders \cup {u} /\ u \notin Holders
      BY <1>2, <1>4 DEF Holders
    <2> QED
      BY <1>1, <1>4, <2>1, HoldersFinite, FS_AddElement
  <1>5. CASE updater[u].at \in Held /\ y.at \notin Held
    <2>1. Holders' = Holders \ {u} /\ u \in Holders
      BY <1>2, <1>5 DEF Holders
    <2> QED
      BY <1>1, <1>5, <2>1, HoldersFinite, FS_RemoveElement
  <1> QED
    BY <1>3, <1>4, <1>5

LEMMA PanelInitInv == PanelInit => PanelInv
  <1> SUFFICES ASSUME PanelInit PROVE PanelInv
    OBVIOUS
  <1>1. MaxOpens \in Nat
    BY ThreadAssumption DEF ThreadAssumption
  <1>2. Holders = {}
    BY DEF PanelInit, Holders, Held
  <1>3. Cardinality(Holders) = 0
    BY <1>2, FS_EmptySet
  <1>4. PanelTypeOK
    <2>1. updater \in [Updaters -> Updater]
      BY DEF PanelInit, Updater
    <2>2. semaphore \in 0 .. MaxOpens + 1 /\ opens \in 0 .. MaxOpens
      BY <1>1 DEF PanelInit
    <2> QED
      BY <2>1, <2>2 DEF PanelInit, PanelTypeOK, Updater
  <1> QED
    BY <1>3, <1>4 DEF PanelInit, PanelInv, Tokens, Holding

(* Opening sets the count to one: the semaphore may let one more in than   *)
(* there were openings before.                                             *)
LEMMA OpenInv ==
    ASSUME PanelInv, NEW s \in Servers, Open(s)
    PROVE  PanelInv'
  <1>1. MaxOpens \in Nat /\ PanelTypeOK /\ Tokens
    BY ThreadAssumption DEF ThreadAssumption, PanelInv
  <1>2. PICK u \in Updaters :
           updater[u].at = "off" /\ updater' = [updater EXCEPT ![u].at = "loop"]
    BY DEF Open
  <1> DEFINE y == [updater[u] EXCEPT !.at = "loop"]
  <1>3. updater[u] \in Updater
    BY <1>1 DEF PanelTypeOK, Updater
  <1>4. y \in Updater /\ y.at = "loop"
    BY <1>3 DEF Updater
  <1>5. updater' = [updater EXCEPT ![u] = y]
    BY <1>2
  <1> HIDE DEF y
  <1>6. /\ updater' \in [Updaters -> Updater]
        /\ Cardinality(Holders') = Cardinality(Holders)
    BY <1>1, <1>2, <1>4, <1>5, HoldersMove DEF Held
  <1>7. /\ show_serverinfo' = s /\ autoupdate_serverinfo' = TRUE
        /\ autoupdate_server' = s /\ semaphore' = 1 /\ opens' = opens + 1
        /\ main = "idle" /\ opens < MaxOpens
        /\ UNCHANGED <<server_during_update, main, refreshing>>
    BY DEF Open
  <1>8. opens \in 0 .. MaxOpens /\ semaphore \in 0 .. MaxOpens + 1
    BY <1>1 DEF PanelTypeOK
  <1>9. PanelTypeOK'
    BY <1>1, <1>6, <1>7, <1>8 DEF PanelTypeOK, Updater
  <1>10. Tokens'
    BY <1>1, <1>6, <1>7, <1>8, HoldersFinite DEF Tokens, Holding
  <1> QED
    BY <1>9, <1>10 DEF PanelInv

(* The main thread takes one and gives it back.                            *)
LEMMA MainInv ==
    ASSUME PanelInv,
           \/ \E s \in Servers : Change(s) \/ RefreshAnswer(s)
           \/ Stop \/ Draw \/ RefreshParsed \/ UNCHANGED panelVars
    PROVE  PanelInv'
  <1>1. MaxOpens \in Nat /\ PanelTypeOK /\ Tokens
    BY ThreadAssumption DEF ThreadAssumption, PanelInv
  <1>2. semaphore \in 0 .. MaxOpens + 1 /\ opens \in 0 .. MaxOpens
    BY <1>1 DEF PanelTypeOK
  <1>3. updater' = updater /\ opens' = opens
    BY DEF Change, RefreshAnswer, Stop, Draw, DrawStatus, StatusDrawn,
           NoStatus, DrawName, DrawPanel, PanelDrawn, RefreshParsed, panelVars
  <1>4. Cardinality(Holders') = Cardinality(Holders)
    BY <1>3 DEF Holders
  <1>5. /\ semaphore' + Holding' = semaphore + Holding
        /\ semaphore' \in Nat
    BY <1>1, <1>2
    DEF Holding, Change, RefreshAnswer, Stop, Draw, DrawStatus, StatusDrawn,
        NoStatus, DrawName, DrawPanel, PanelDrawn, RefreshParsed, panelVars
  <1>6. Tokens'
    <2>1. Holding' \in 0 .. 1 /\ Holding \in 0 .. 1
      BY DEF Holding
    <2> QED
      BY <1>1, <1>2, <1>3, <1>4, <1>5, <2>1, HoldersFinite DEF Tokens
  <1>7. semaphore' \in 0 .. MaxOpens + 1
    <2>1. Holding' \in 0 .. 1
      BY DEF Holding
    <2>2. semaphore' + Holding' + Cardinality(Holders) <= opens
      BY <1>3, <1>4, <1>6 DEF Tokens
    <2> QED
      BY <1>1, <1>2, <1>5, <2>1, <2>2, HoldersFinite
  <1>8. /\ show_serverinfo' \in Servers \cup {None}
        /\ autoupdate_server' \in Servers \cup {None}
        /\ refreshing' \in Servers \cup {None}
    BY <1>1 DEF PanelTypeOK, shared, Change, RefreshAnswer, Stop, Draw, DrawStatus,
       StatusDrawn, NoStatus, DrawName, DrawPanel, PanelDrawn, RefreshParsed,
       panelVars
  <1>9. autoupdate_serverinfo' \in BOOLEAN /\ server_during_update' \in BOOLEAN
    BY <1>1, Zenon DEF PanelTypeOK, shared, Change, RefreshAnswer, Stop, Draw,
       DrawStatus, StatusDrawn, NoStatus, DrawName, DrawPanel, PanelDrawn,
       RefreshParsed, panelVars
  <1>10. main' \in {"idle", "status", "polling", "named", "panel"}
    BY <1>1 DEF PanelTypeOK, shared, Change, RefreshAnswer, Stop, Draw, DrawStatus,
       StatusDrawn, NoStatus, DrawName, DrawPanel, PanelDrawn, RefreshParsed,
       panelVars
  <1>11. PanelTypeOK'
    BY <1>1, <1>3, <1>7, <1>8, <1>9, <1>10 DEF PanelTypeOK
  <1> QED
    BY <1>6, <1>11 DEF PanelInv

(* An updater takes one in Wait and gives it back in Post.                 *)
LEMMA UpdaterInv ==
    ASSUME PanelInv, NEW u \in Updaters, UpdaterStep(u)
    PROVE  PanelInv'
  <1>1. MaxOpens \in Nat /\ PanelTypeOK /\ Tokens
    BY ThreadAssumption DEF ThreadAssumption, PanelInv
  <1>2. semaphore \in 0 .. MaxOpens + 1 /\ opens \in 0 .. MaxOpens
        /\ updater[u] \in Updater
    BY <1>1 DEF PanelTypeOK, Updater
  <1>3. /\ UNCHANGED <<shared, main, refreshing, opens>>
        /\ server_during_update' \in BOOLEAN
    BY <1>1, Zenon DEF UpdaterStep, Sleep, Early, Wait, Ask, NoAnswer, Answer,
       Parsed, Post, PanelTypeOK
  <1>4. Holding' = Holding /\ Holding \in 0 .. 1
    BY <1>3 DEF Holding
  <1>5. /\ updater' \in [Updaters -> Updater]
        /\ semaphore' \in Nat
        /\ semaphore' + Cardinality(Holders')
              = semaphore + Cardinality(Holders)
    <2>1. ASSUME NEW from \in {"awake", "in", "asked", "parsing", "done"},
                 NEW to \in {"loop", "in", "done", "parsing"},
                 Goes(u, from, to)
          PROVE  \E y \in Updater :
                    /\ updater[u].at = from /\ y.at = to
                    /\ updater' = [updater EXCEPT ![u] = y]
      <3> DEFINE y == [updater[u] EXCEPT !.at = to]
      <3>1. y \in Updater /\ y.at = to
        BY <1>2 DEF Updater
      <3>2. updater[u].at = from /\ updater' = [updater EXCEPT ![u] = y]
        BY <2>1 DEF Goes
      <3> HIDE DEF y
      <3> QED
        BY <3>1, <3>2
    <2>2. CASE Sleep(u)
      <3> DEFINE y == [updater[u] EXCEPT
                         !.at = IF autoupdate_serverinfo THEN "awake"
                                                         ELSE "off"]
      <3>1. y \in Updater /\ y.at \notin Held
        BY <1>2 DEF Updater, Held
      <3>2. updater' = [updater EXCEPT ![u] = y] /\ updater[u].at = "loop"
            /\ semaphore' = semaphore
        BY <2>2 DEF Sleep
      <3>3. updater[u].at \in Held <=> y.at \in Held
        BY <3>1, <3>2 DEF Held
      <3> HIDE DEF y
      <3>4. /\ updater' \in [Updaters -> Updater]
            /\ Cardinality(Holders') = Cardinality(Holders)
        BY <1>1, <3>1, <3>2, <3>3, HoldersMove
      <3> QED
        BY <1>2, <3>2, <3>4
    <2>3. CASE Ask(u)
      <3> DEFINE y == [at |-> "asked", serv |-> autoupdate_server]
      <3>1. y \in Updater /\ y.at = "asked"
        BY <1>1 DEF Updater, PanelTypeOK
      <3>2. updater' = [updater EXCEPT ![u] = y] /\ updater[u].at = "in"
            /\ semaphore' = semaphore
        BY <2>3 DEF Ask
      <3>3. updater[u].at \in Held <=> y.at \in Held
        BY <3>1, <3>2 DEF Held
      <3> HIDE DEF y
      <3>4. /\ updater' \in [Updaters -> Updater]
            /\ Cardinality(Holders') = Cardinality(Holders)
        BY <1>1, <3>1, <3>2, <3>3, HoldersMove
      <3> QED
        BY <1>2, <3>2, <3>4
    <2>4. CASE Early(u) \/ NoAnswer(u) \/ Answer(u) \/ Parsed(u)
      <3>1. /\ semaphore' = semaphore
            /\ \/ Goes(u, "awake", "loop") \/ Goes(u, "asked", "done")
               \/ Goes(u, "asked", "parsing") \/ Goes(u, "parsing", "done")
        BY <2>4 DEF Early, NoAnswer, Answer, Parsed
      <3>2. PICK y \in Updater :
               /\ updater[u].at \in Held <=> y.at \in Held
               /\ updater' = [updater EXCEPT ![u] = y]
        BY <2>1, <3>1 DEF Held
      <3>3. /\ updater' \in [Updaters -> Updater]
            /\ Cardinality(Holders') = Cardinality(Holders)
        BY <1>1, <3>2, HoldersMove
      <3> QED
        BY <1>2, <3>1, <3>3
    <2>5. CASE Wait(u)
      <3>1. PICK y \in Updater :
               /\ updater[u].at = "awake" /\ y.at = "in"
               /\ updater' = [updater EXCEPT ![u] = y]
        BY <2>1, <2>5 DEF Wait
      <3>2. Cardinality(Holders') = Cardinality(Holders) + 1
            /\ updater' \in [Updaters -> Updater]
        BY <1>1, <3>1, HoldersMove DEF Held
      <3>3. semaphore > 0 /\ semaphore' = semaphore - 1
        BY <2>5 DEF Wait
      <3> QED
        BY <1>2, <3>2, <3>3, HoldersFinite
    <2>6. CASE Post(u)
      <3>1. PICK y \in Updater :
               /\ updater[u].at = "done" /\ y.at = "loop"
               /\ updater' = [updater EXCEPT ![u] = y]
        BY <2>1, <2>6 DEF Post
      <3>2. Cardinality(Holders') = Cardinality(Holders) - 1
            /\ updater' \in [Updaters -> Updater]
        BY <1>1, <3>1, HoldersMove DEF Held
      <3>3. semaphore' = semaphore + 1
        BY <2>6 DEF Post
      <3> QED
        BY <1>2, <3>2, <3>3, HoldersFinite
    <2> QED
      BY <2>2, <2>3, <2>4, <2>5, <2>6 DEF UpdaterStep
  <1>6. Cardinality(Holders') \in Nat
    <2>1. IsFiniteSet(Holders')
      BY ThreadAssumption, FS_Subset DEF ThreadAssumption, Holders
    <2> QED
      BY <2>1, FS_CardinalityType
  <1>7. Tokens'
    BY <1>1, <1>2, <1>3, <1>4, <1>5, <1>6, HoldersFinite DEF Tokens
  <1>8. semaphore' \in 0 .. MaxOpens + 1
    <2>1. semaphore' + Holding' + Cardinality(Holders') <= opens
      BY <1>3, <1>7 DEF Tokens
    <2> QED
      BY <1>1, <1>2, <1>4, <1>5, <1>6, <2>1
  <1>9. PanelTypeOK'
    BY <1>1, <1>3, <1>5, <1>8 DEF PanelTypeOK, Updater, shared
  <1> QED
    BY <1>7, <1>9 DEF PanelInv

LEMMA PanelNextInv == ASSUME PanelInv, [PanelNext]_panelVars PROVE PanelInv'
  BY OpenInv, MainInv, UpdaterInv DEF PanelNext

(* One opening leaves room for one.                                        *)
LEMMA OneInside == PanelInv => DrawsWhole
  <1> SUFFICES ASSUME PanelInv, opens <= 1, NEW s \in Drawn, Replaced(s)
               PROVE  FALSE
    BY DEF PanelInv, DrawsWhole
  <1>1. Holding = 1
    BY DEF Drawn, Holding
  <1>2. PICK u \in Updaters : updater[u].at = "parsing"
    BY DEF Replaced
  <1>3. u \in Holders
    BY <1>2 DEF Holders, Held
  <1>4. Cardinality(Holders) # 0
    BY <1>3, HoldersFinite, FS_EmptySet
  <1>5. MaxOpens \in Nat /\ semaphore \in 0 .. MaxOpens + 1
        /\ opens \in 0 .. MaxOpens
    BY ThreadAssumption DEF ThreadAssumption, PanelInv, PanelTypeOK
  <1> QED
    BY <1>1, <1>4, <1>5, HoldersFinite DEF PanelInv, Tokens

(* serverinfo_semaphore lets in no more threads than the panel was opened  *)
(* times, and so keeps drawing and replacing apart until it is opened a    *)
(* second time (Serverinfo_Start, AutoupdateProc, Serverinfo_Draw,         *)
(* SB_Servers_Draw).                                                       *)
THEOREM SemaphoreGuards == PanelSpec => []DrawsWhole
  BY PanelInitInv, PanelNextInv, OneInside, PTL DEF PanelSpec

-----------------------------------------------------------------------------
(* The moves.                                                              *)

(* The bookkeeping of the server.                                          *)
ServerInv ==
    /\ \A n \in Move : n > incoming_sequence
                       => runs[n] = 0 /\ accepted[n] = "no"
    /\ incoming_sequence \in Move => accepted[incoming_sequence] # "no"

(* The last dropcount packets were skipped and the one before them sent.   *)
ClientInv ==
    /\ dropcount < outgoing_sequence
    /\ outgoing_sequence - dropcount - 1 \in sent \cup {0}

SafetyInv ==
    MovesTypeOK /\ ServerInv /\ ClientInv
    /\ OnceEach /\ TwoLossesRecovered /\ EveryMoveSent

LEMMA ConstantsAreNaturals ==
    cl_c2sImpulseBackup \in Nat /\ MAX_NET_DROP \in Nat /\ MaxSequence \in Nat
  BY UserCmdsAssumption DEF UserCmdsAssumption

(* MovesTypeOK without the one Boolean variable.                                *)
NumbersOK ==
    /\ outgoing_sequence \in 1 .. MaxSequence + 1
    /\ impulses \subseteq Move /\ sent \subseteq Move
    /\ dropcount \in 0 .. MAX_DROPCOUNT
    /\ incoming_sequence \in 0 .. MaxSequence
    /\ lastcmd \in 0 .. MaxSequence
    /\ accepted \in [Move -> {"no", "run", "paused"}]
    /\ runs \in [Move -> Nat]
    /\ replays \in [0 .. MaxSequence -> Nat]

LEMMA TypeParts == MovesTypeOK <=> NumbersOK /\ paused \in BOOLEAN
  BY DEF MovesTypeOK, NumbersOK

LEMMA InitSafetyInv == MovesInit => SafetyInv
  <1> SUFFICES ASSUME MovesInit PROVE SafetyInv
    OBVIOUS
  <1> USE ConstantsAreNaturals
  <1>1. MovesTypeOK
    <2>1. accepted \in [Move -> {"no", "run", "paused"}] /\ paused \in BOOLEAN
      BY DEF MovesInit
    <2>2. runs \in [Move -> Nat] /\ replays \in [0 .. MaxSequence -> Nat]
      BY DEF MovesInit
    <2>3. /\ outgoing_sequence \in 1 .. MaxSequence + 1
          /\ impulses \subseteq Move /\ sent \subseteq Move
          /\ dropcount \in 0 .. MAX_DROPCOUNT
          /\ incoming_sequence \in 0 .. MaxSequence
          /\ lastcmd \in 0 .. MaxSequence
      BY DEF MovesInit, MAX_DROPCOUNT
    <2> QED
      BY <2>1, <2>2, <2>3 DEF MovesTypeOK
  <1>2. ServerInv /\ ClientInv
    BY DEF MovesInit, ServerInv, ClientInv, Move
  <1>3. OnceEach /\ TwoLossesRecovered /\ EveryMoveSent
    BY DEF MovesInit, OnceEach, TwoLossesRecovered, EveryMoveSent, Move,
           MAX_DROPCOUNT
  <1> QED
    BY <1>1, <1>2, <1>3 DEF SafetyInv

(* The moves a packet runs are newer than all that came before it.         *)
LEMMA CarriedAreNew ==
    ASSUME NEW n \in Move, NEW i \in 0 .. MaxSequence, i < n,
           NEW m \in Carried(n, n - (i + 1))
    PROVE  i < m /\ m <= n
  BY ConstantsAreNaturals DEF Carried, Move

(* CL_SendCmd keeps the invariant.                                         *)
LEMMA SendKeepsInv ==
    ASSUME SafetyInv, NEW impulse \in BOOLEAN, CL_SendCmd(impulse)
    PROVE  SafetyInv'
  <1> USE ConstantsAreNaturals
  <1>0. NumbersOK /\ paused \in BOOLEAN /\ ServerInv /\ ClientInv
        /\ OnceEach /\ TwoLossesRecovered /\ EveryMoveSent
    BY TypeParts DEF SafetyInv
  <1>1. outgoing_sequence \in Move /\ outgoing_sequence' = outgoing_sequence + 1
    BY <1>0 DEF CL_SendCmd, NumbersOK, Move
  <1>2. UNCHANGED <<server, paused>>
    BY DEF CL_SendCmd
  <1>3. \/ sent' = sent \cup {outgoing_sequence} /\ dropcount' = 0
        \/ sent' = sent /\ dropcount' = dropcount + 1
           /\ dropcount < MAX_DROPCOUNT
    BY DEF CL_SendCmd, MaySkip
  <1>4. impulses' \subseteq Move
    BY <1>0, <1>1 DEF CL_SendCmd, NumbersOK
  <1>5. NumbersOK' /\ paused' \in BOOLEAN
    <2>1. outgoing_sequence' \in 1 .. MaxSequence + 1
      BY <1>1 DEF Move
    <2>2. sent' \subseteq Move /\ dropcount' \in 0 .. MAX_DROPCOUNT
      <3>1. sent \subseteq Move /\ dropcount \in 0 .. MAX_DROPCOUNT
        BY <1>0 DEF NumbersOK
      <3>2. sent' \subseteq Move
        BY <1>1, <1>3, <3>1
      <3>3. dropcount' \in 0 .. MAX_DROPCOUNT
        BY <1>3, <3>1 DEF MAX_DROPCOUNT
      <3> QED
        BY <3>2, <3>3
    <2> QED
      BY <1>0, <1>2, <1>4, <2>1, <2>2 DEF NumbersOK, server
  <1>6. ServerInv' /\ OnceEach' /\ TwoLossesRecovered'
    BY <1>0, <1>2 DEF server, ServerInv, OnceEach, TwoLossesRecovered, Move
  <1>7. ClientInv'
    BY <1>0, <1>1, <1>3 DEF ClientInv, NumbersOK, Move, MAX_DROPCOUNT
  <1>8. EveryMoveSent'
    <2> SUFFICES ASSUME NEW n \in Move,
                        n + MAX_DROPCOUNT < outgoing_sequence'
                 PROVE  \E m \in sent' : n <= m /\ m <= n + MAX_DROPCOUNT
      BY <1>0 DEF EveryMoveSent, Move
    <2>1. CASE n + MAX_DROPCOUNT < outgoing_sequence
      BY <1>0, <1>3, <2>1 DEF EveryMoveSent
    <2>2. CASE n + MAX_DROPCOUNT = outgoing_sequence
      <3>1. PICK k \in 0 .. 2 : k = dropcount'
        BY <1>5 DEF NumbersOK, MAX_DROPCOUNT
      <3>2. PICK m \in sent' \cup {0} : m = outgoing_sequence' - k - 1
        BY <1>7, <3>1 DEF ClientInv
      <3>5. m \in Int /\ n \in Int /\ n > 0 /\ m = n + 2 - k
        BY <1>1, <2>2, <3>2 DEF Move, MAX_DROPCOUNT
      <3>4. n <= m /\ m <= n + MAX_DROPCOUNT /\ m # 0
        BY <3>5 DEF MAX_DROPCOUNT
      <3>3. m \in sent'
        BY <3>2, <3>4
      <3> QED
        BY <3>3, <3>4
    <2> QED
      BY <1>1, <2>1, <2>2 DEF Move, MAX_DROPCOUNT
  <1> QED
    BY <1>5, <1>6, <1>7, <1>8 DEF SafetyInv, MovesTypeOK, NumbersOK

(* SV_ExecuteClientMessage keeps the invariant.                            *)
LEMMA ExecuteKeepsInv ==
    ASSUME SafetyInv, NEW n \in Move, SV_ExecuteClientMessage(n)
    PROVE  SafetyInv'
  <1> USE ConstantsAreNaturals
  <1>0. NumbersOK /\ paused \in BOOLEAN /\ ServerInv /\ ClientInv
        /\ OnceEach /\ TwoLossesRecovered /\ EveryMoveSent
    BY TypeParts DEF SafetyInv
  <1> DEFINE i == incoming_sequence
             dropped == n - (i + 1)
  <1>1. i \in 0 .. MaxSequence /\ i < n
    BY <1>0 DEF SV_ExecuteClientMessage, Stale, NumbersOK, Move
  <1>2. incoming_sequence' = n /\ UNCHANGED <<client, paused>>
    BY DEF SV_ExecuteClientMessage
  <1> DEFINE how == IF paused THEN "paused" ELSE "run"
  <1>3. accepted' = [accepted EXCEPT ![n] = how] /\ how \in {"run", "paused"}
    BY DEF SV_ExecuteClientMessage
  <1>4. \/ how = "paused" /\ runs' = runs /\ replays' = replays
        \/ /\ how = "run"
           /\ runs' = [m \in Move |-> IF m \in Carried(n, dropped)
                                      THEN runs[m] + 1 ELSE runs[m]]
           /\ replays' = [replays EXCEPT ![lastcmd] = @ + Replays(dropped)]
    BY DEF SV_ExecuteClientMessage, SV_ExecuteClientMove
  <1> HIDE DEF how
  <1>5. \A m \in Carried(n, dropped) : i < m /\ m <= n
    BY <1>1, CarriedAreNew
  <1>6. NumbersOK' /\ paused' \in BOOLEAN
    <2>1. Replays(dropped) \in Nat
      BY <1>1 DEF Replays, Move
    <2>2. runs' \in [Move -> Nat] /\ replays' \in [0 .. MaxSequence -> Nat]
      <3>1. /\ runs \in [Move -> Nat] /\ replays \in [0 .. MaxSequence -> Nat]
            /\ lastcmd \in 0 .. MaxSequence
        BY <1>0 DEF NumbersOK
      <3>2. [m \in Move |-> IF m \in Carried(n, dropped)
                            THEN runs[m] + 1 ELSE runs[m]] \in [Move -> Nat]
        BY <3>1
      <3>3. [replays EXCEPT ![lastcmd] = @ + Replays(dropped)]
                \in [0 .. MaxSequence -> Nat]
        BY <2>1, <3>1
      <3> QED
        BY <1>4, <3>1, <3>2, <3>3
    <2>3. accepted' \in [Move -> {"no", "run", "paused"}]
      BY <1>0, <1>3 DEF NumbersOK
    <2>4. lastcmd' \in 0 .. MaxSequence /\ incoming_sequence' \in 0 .. MaxSequence
      BY DEF SV_ExecuteClientMessage, Move
    <2> QED
      BY <1>0, <1>2, <2>2, <2>3, <2>4 DEF NumbersOK, client
  <1>7. ClientInv' /\ EveryMoveSent'
    BY <1>0, <1>2 DEF client, ClientInv, EveryMoveSent, Move
  <1> DEFINE ran == [m \in Move |-> IF m \in Carried(n, dropped)
                                    THEN runs[m] + 1 ELSE runs[m]]
  <1>13. /\ \A m \in Move : runs'[m] = runs[m] \/ runs'[m] = runs[m] + 1
         /\ \A m \in Move : m <= i \/ m > n => runs'[m] = runs[m]
         /\ how = "run" =>
              \A m \in Carried(n, dropped) \cap Move : runs'[m] = runs[m] + 1
    <2>1. CASE runs' = ran
      BY <1>1, <1>5, <2>1 DEF Move
    <2>2. CASE runs' = runs /\ how = "paused"
      BY <2>2
    <2> QED
      BY <1>4, <2>1, <2>2
  <1>12. runs \in [Move -> Nat] /\ accepted \in [Move -> {"no", "run", "paused"}]
    BY <1>0 DEF NumbersOK
  <1> HIDE DEF ran
  <1>8. ServerInv'
    BY <1>0, <1>1, <1>2, <1>3, <1>13, <1>12 DEF ServerInv, Move
  <1>9. OnceEach'
    <2> SUFFICES ASSUME NEW m \in Move PROVE runs'[m] <= 1
      BY DEF OnceEach
    <2>1. CASE m <= i
      BY <1>0, <1>13, <2>1 DEF OnceEach
    <2>2. CASE m > i
      BY <1>0, <1>13, <1>12, <2>2 DEF ServerInv
    <2> QED
      BY <1>1, <2>1, <2>2 DEF Move
  <1>10. TwoLossesRecovered'
    <2> SUFFICES ASSUME NEW k \in Move, NEW m \in Move,
                        k <= n, runs'[k] = 0, k <= m, m <= k + 2,
                        accepted'[m] = "run"
                 PROVE  \E j \in Move : k <= j /\ j < m
                                        /\ accepted'[j] = "paused"
      BY <1>0, <1>2 DEF TwoLossesRecovered, Move
    <2>1. CASE m # n
      <3>1. accepted[m] = "run" /\ m <= i /\ k <= i
        BY <1>0, <1>1, <1>3, <2>1 DEF NumbersOK, ServerInv, Move
      <3>2. runs[k] = 0
        BY <1>13, <3>1
      <3>3. PICK j \in Move : k <= j /\ j < m /\ accepted[j] = "paused"
        BY <1>0, <3>1, <3>2 DEF TwoLossesRecovered, Move
      <3> QED
        BY <1>0, <1>1, <1>3, <3>1, <3>3 DEF NumbersOK, Move
    <2>2. CASE m = n
      <3>1. how = "run"
        BY <1>0, <1>3, <2>2 DEF NumbersOK
      <3>2. k \notin Carried(n, dropped)
        BY <1>13, <1>12, <3>1
      <3>3. k <= i
        BY <1>1, <2>2, <3>2 DEF Carried, Move
      <3>4. i \in Move /\ accepted[i] \in {"run", "paused"}
        BY <1>0, <1>1, <3>3 DEF ServerInv, NumbersOK, Move
      <3>5. runs[k] = 0
        BY <1>13, <1>12
      <3>6. CASE accepted[i] = "paused"
        BY <1>0, <1>1, <1>3, <2>2, <3>3, <3>4, <3>6 DEF NumbersOK, Move
      <3>7. CASE accepted[i] = "run"
        <4>1. PICK j \in Move : k <= j /\ j < i /\ accepted[j] = "paused"
          BY <1>0, <1>1, <2>2, <3>3, <3>4, <3>5, <3>7 DEF TwoLossesRecovered, Move
        <4> QED
          BY <1>0, <1>1, <1>3, <2>2, <4>1 DEF NumbersOK, Move
      <3> QED
        BY <3>4, <3>6, <3>7
    <2> QED
      BY <2>1, <2>2
  <1> QED
    BY <1>6, <1>7, <1>8, <1>9, <1>10 DEF SafetyInv, MovesTypeOK, NumbersOK

(* A step that neither sends nor takes a packet keeps the invariant.       *)
LEMMA OtherKeepsInv ==
    ASSUME SafetyInv, SV_TogglePause \/ UNCHANGED moveVars
    PROVE  SafetyInv'
  BY ZenonT(30)
     DEF SV_TogglePause, moveVars, client, server, SafetyInv, MovesTypeOK, ServerInv,
         ClientInv, OnceEach, TwoLossesRecovered, EveryMoveSent

LEMMA SafetyInvariant == MovesSpec => []SafetyInv
  <1>1. SafetyInv /\ [MovesNext]_moveVars => SafetyInv'
    BY SendKeepsInv, ExecuteKeepsInv, OtherKeepsInv DEF MovesNext
  <1> QED
    BY <1>1, InitSafetyInv, PTL DEF MovesSpec

(* The variables of UserCmds keep their types.                             *)
THEOREM TypeCorrect == MovesSpec => []MovesTypeOK
  <1>1. SafetyInv => MovesTypeOK
    BY DEF SafetyInv
  <1> QED
    BY <1>1, SafetyInvariant, PTL

(* SV_ExecuteClientMove runs no move twice, however packets are lost,      *)
(* repeated or overtaken.                                                  *)
THEOREM MovesRunOnce == MovesSpec => []OnceEach
  <1>1. SafetyInv => OnceEach
    BY DEF SafetyInv
  <1> QED
    BY <1>1, SafetyInvariant, PTL

(* Two packets lost in a row cost no move, unless in a pause.              *)
THEOREM LossesRecovered == MovesSpec => []TwoLossesRecovered
  <1>1. SafetyInv => TwoLossesRecovered
    BY DEF SafetyInv
  <1> QED
    BY <1>1, SafetyInvariant, PTL

(* cl_c2spps never keeps a move out of all three packets that carry it.    *)
THEOREM SkippingKeepsMoves == MovesSpec => []EveryMoveSent
  <1>1. SafetyInv => EveryMoveSent
    BY DEF SafetyInv
  <1> QED
    BY <1>1, SafetyInvariant, PTL

-----------------------------------------------------------------------------
(* Sums.  A sum of numbers counts pairs: as many for each argument as its  *)
(* number says.                                                            *)

(* A set of subsets of a finite set that is not empty has a minimal one.   *)
LEMMA MinimalSet ==
    ASSUME NEW S, IsFiniteSet(S), NEW U \in SUBSET (SUBSET S), U # {}
    PROVE  \E s \in U : \A t \in U : t \subseteq s => t = s
  <1> DEFINE R == StrictSubsetOrdering(S)
             F == FiniteSubsetsOf(S)
  <1>1. IsWellFoundedOn(R, F)
    BY FS_StrictSubsetOrderingWellFounded
  <1>2. U \subseteq F
    BY FS_FiniteSubsetsOfFinite
  <1>3. \E s \in U : \A t \in U : ~ (<<t, s>> \in R)
    <2> HIDE DEF R, F
    <2> QED
      BY <1>1, <1>2, WFMin
  <1>4. PICK s \in U : \A t \in U : ~ (<<t, s>> \in R)
    BY <1>3
  <1>5. ASSUME NEW t \in U, t \subseteq s, t # s PROVE FALSE
    <2>1. <<t, s>> \in R
      BY <1>5 DEF StrictSubsetOrdering
    <2> QED
      BY <2>1, <1>4
  <1> QED
    BY <1>5

Pairs(f, s) == {p \in s \X Nat : p[2] >= 1 /\ p[2] <= f[p[1]]}

Column(x, a, b) == {x} \X (a .. b)

LEMMA ColumnCounts ==
    ASSUME NEW x, NEW a \in Nat, NEW k \in Nat
    PROVE  /\ IsFiniteSet(Column(x, a + 1, a + k))
           /\ Cardinality(Column(x, a + 1, a + k)) = k
  <1>1. IsFiniteSet({x}) /\ Cardinality({x}) = 1
    BY FS_Singleton
  <1>2. /\ IsFiniteSet(a + 1 .. a + k)
        /\ Cardinality(a + 1 .. a + k) = k
    <2>1. a + 1 \in Int /\ a + k \in Int
      OBVIOUS
    <2>2. Cardinality(a + 1 .. a + k)
              = IF a + 1 > a + k THEN 0 ELSE (a + k) - (a + 1) + 1
      BY <2>1, FS_Interval
    <2> QED
      BY <2>1, <2>2, FS_Interval
  <1>3. 1 * k = k
    OBVIOUS
  <1> QED
    BY <1>1, <1>2, <1>3, FS_Product DEF Column

LEMMA PairsWithout ==
    ASSUME NEW S, NEW f \in [S -> Nat], NEW s \in SUBSET S, NEW x \in s,
           IsFiniteSet(Pairs(f, s \ {x}))
    PROVE  /\ IsFiniteSet(Pairs(f, s))
           /\ Cardinality(Pairs(f, s)) = f[x] + Cardinality(Pairs(f, s \ {x}))
  <1> DEFINE A == Pairs(f, s \ {x})
             B == Column(x, 0 + 1, 0 + f[x])
  <1>1. f[x] \in Nat
    OBVIOUS
  <1>2. IsFiniteSet(B) /\ Cardinality(B) = f[x]
    BY <1>1, ColumnCounts
  <1>3. Pairs(f, s) = A \cup B
    BY <1>1 DEF Pairs, Column
  <1>4. A \cap B = {}
    BY DEF Pairs, Column
  <1> HIDE DEF A, B
  <1>5. IsFiniteSet(A)
    BY DEF A
  <1>6. /\ IsFiniteSet(A \cup B)
        /\ Cardinality(A \cup B) = Cardinality(A) + Cardinality(B)
                                   - Cardinality({})
    BY ONLY <1>2, <1>4, <1>5, FS_Union
  <1>7. Cardinality({}) = 0 /\ Cardinality(A) \in Nat
    BY FS_EmptySet, FS_CardinalityType DEF A
  <1> QED
    BY <1>1, <1>2, <1>3, <1>6, <1>7 DEF A

LEMMA PairsFinite ==
    ASSUME NEW S, IsFiniteSet(S), NEW f \in [S -> Nat]
    PROVE  \A s \in SUBSET S : IsFiniteSet(Pairs(f, s))
  <1> DEFINE U == {s \in SUBSET S : ~ IsFiniteSet(Pairs(f, s))}
  <1> SUFFICES ASSUME U # {} PROVE FALSE
    OBVIOUS
  <1>1. PICK s \in U : \A t \in U : t \subseteq s => t = s
    <2>1. U \in SUBSET (SUBSET S)
      OBVIOUS
    <2> HIDE DEF U
    <2> QED
      BY <2>1, MinimalSet
  <1>2. CASE s = {}
    <2>1. Pairs(f, s) = {}
      BY <1>2 DEF Pairs
    <2> QED
      BY <2>1, FS_EmptySet
  <1>3. CASE s # {}
    <2>1. PICK x \in s : TRUE
      BY <1>3
    <2>2. s \ {x} \in SUBSET S /\ s \ {x} # s
      BY <2>1
    <2>3. IsFiniteSet(Pairs(f, s \ {x}))
      BY <1>1, <2>2
    <2> QED
      BY <2>1, <2>3, PairsWithout
  <1> QED
    BY <1>2, <1>3

Picked(s) == CHOOSE x \in s : TRUE

(* The fold of the community modules adds up f in some order.              *)
LEMMA SumIsCount ==
    ASSUME NEW S, IsFiniteSet(S), NEW f \in [S -> Nat]
    PROVE  SumFunction(f) = Cardinality(Pairs(f, S))
  <1> DEFINE Step(g, s) == IF s = {} THEN 0
                           ELSE f[Picked(s)] + g[s \ {Picked(s)}]
             Steps(g) == [s \in SUBSET S |-> Step(g, s)]
             u == CHOOSE g : g = Steps(g)
             counts == [s \in SUBSET S |-> Cardinality(Pairs(f, s))]
             U == {s \in SUBSET S : u[s] # counts[s]}
  <1>1. SumFunction(f) = u[S]
    BY DEF SumFunction, SumFunctionOnSet, FoldFunctionOnSet, MapThenFoldSet,
           Picked
  <1>2. ASSUME NEW s \in SUBSET S, s # {}
        PROVE  Picked(s) \in s /\ s \ {Picked(s)} \in SUBSET S
    BY <1>2 DEF Picked
  <1>3. ASSUME NEW s \in SUBSET S PROVE counts[s] = Step(counts, s)
    <2>1. CASE s = {}
      <3>1. Pairs(f, s) = {}
        BY <2>1 DEF Pairs
      <3> QED
        BY <2>1, <3>1, FS_EmptySet
    <2>2. CASE s # {}
      <3> DEFINE x == Picked(s)
      <3>1. x \in s /\ s \ {x} \in SUBSET S
        BY <1>2, <2>2
      <3> HIDE DEF x
      <3>2. Cardinality(Pairs(f, s)) = f[x] + Cardinality(Pairs(f, s \ {x}))
        BY <3>1, PairsFinite, PairsWithout
      <3> QED
        BY <2>2, <3>1, <3>2 DEF x
    <2> QED
      BY <2>1, <2>2
  <1> HIDE DEF Step
  <1>4. counts = Steps(counts)
    BY <1>3
  <1> HIDE DEF counts
  <1>5. u = Steps(u)
    <2> HIDE DEF Steps
    <2> QED
      BY <1>4
  <1>6. ASSUME NEW s \in SUBSET S PROVE u[s] = Step(u, s)
    <2> HIDE DEF u
    <2> QED
      BY <1>5
  <1> HIDE DEF u
  <1>7. U = {}
    <2> SUFFICES ASSUME U # {} PROVE FALSE
      OBVIOUS
    <2>1. PICK s \in U : \A t \in U : t \subseteq s => t = s
      <3>1. U \in SUBSET (SUBSET S)
        OBVIOUS
      <3> HIDE DEF U
      <3> QED
        BY <3>1, MinimalSet
    <2>2. s # {} => u[s \ {Picked(s)}] = counts[s \ {Picked(s)}]
      BY <1>2, <2>1
    <2>3. Step(u, s) = Step(counts, s)
      BY <2>2 DEF Step
    <2> QED
      BY <1>3, <1>6, <2>1, <2>3
  <1> QED
    BY <1>1, <1>7 DEF counts

LEMMA SumType ==
    ASSUME NEW S, IsFiniteSet(S), NEW f \in [S -> Nat]
    PROVE  SumFunction(f) \in Nat
  <1>1. IsFiniteSet(Pairs(f, S))
    BY PairsFinite
  <1> QED
    BY <1>1, SumIsCount, FS_CardinalityType

LEMMA SumOfZeros ==
    ASSUME NEW S, IsFiniteSet(S)
    PROVE  SumFunction([x \in S |-> 0]) = 0
  <1> DEFINE f == [x \in S |-> 0]
  <1>1. f \in [S -> Nat] /\ Pairs(f, S) = {}
    BY DEF Pairs
  <1> HIDE DEF f
  <1>2. SumFunction(f) = 0
    BY <1>1, SumIsCount, FS_EmptySet
  <1> QED
    BY <1>2 DEF f

(* What is added at one place is added to the sum.                         *)
Plus(f, x, k) == [f EXCEPT ![x] = @ + k]

LEMMA SumGrows ==
    ASSUME NEW S, IsFiniteSet(S), NEW f \in [S -> Nat], NEW x \in S,
           NEW k \in Nat
    PROVE  /\ Plus(f, x, k) \in [S -> Nat]
           /\ SumFunction(Plus(f, x, k)) = SumFunction(f) + k
  <1> DEFINE h == Plus(f, x, k)
             A == Pairs(f, S)
             B == Column(x, f[x] + 1, f[x] + k)
  <1>1. h \in [S -> Nat] /\ f[x] \in Nat
    BY DEF Plus
  <1>2. Pairs(h, S) = A \cup B /\ A \cap B = {}
    <2>1. \A y \in S : h[y] = IF y = x THEN f[x] + k ELSE f[y]
      BY DEF Plus
    <2> HIDE DEF h
    <2> QED
      BY <1>1, <2>1 DEF Pairs, Column
  <1>3. IsFiniteSet(B) /\ Cardinality(B) = k
    BY <1>1, ColumnCounts
  <1>4. IsFiniteSet(A) /\ Cardinality(A) \in Nat
    BY PairsFinite, FS_CardinalityType
  <1>5. SumFunction(f) = Cardinality(A) /\ SumFunction(h) = Cardinality(A \cup B)
    BY <1>1, <1>2, SumIsCount
  <1> HIDE DEF A, B, h
  <1>6. Cardinality(A \cup B) = Cardinality(A) + Cardinality(B) - Cardinality({})
    BY <1>2, <1>3, <1>4, FS_Union
  <1>7. Cardinality({}) = 0
    BY FS_EmptySet
  <1> QED
    BY <1>1, <1>3, <1>4, <1>5, <1>6, <1>7 DEF h

-----------------------------------------------------------------------------
(* The moves that are run count no more than the packets that passed.      *)

LEMMA MovesFinite == IsFiniteSet(Move) /\ IsFiniteSet(0 .. MaxSequence)
  BY ConstantsAreNaturals, FS_Interval DEF Move

LEMMA OneMore ==
    ASSUME NEW f \in [Move -> Nat], NEW m \in Move
    PROVE  /\ Plus(f, m, 1) \in [Move -> Nat]
           /\ SumFunction(Plus(f, m, 1)) = SumFunction(f) + 1
  <1> DEFINE k == 1
  <1>1. /\ k \in Nat /\ IsFiniteSet(Move)
        /\ f \in [Move -> Nat] /\ m \in Move
    BY MovesFinite
  <1> HIDE DEF k
  <1>2. /\ Plus(f, m, k) \in [Move -> Nat]
        /\ SumFunction(Plus(f, m, k)) = SumFunction(f) + k
    BY ONLY <1>1, SumGrows
  <1> QED
    BY <1>2 DEF k

(* One more run of each of the moves of a packet.                          *)
LEMMA CarriedSum ==
    ASSUME NEW f \in [Move -> Nat], NEW n \in Move, NEW i \in 0 .. MaxSequence,
           i < n
    PROVE  LET d == n - (i + 1)
               g == [m \in Move |-> IF m \in Carried(n, d) THEN f[m] + 1 ELSE f[m]]
           IN  SumFunction(g) = SumFunction(f) + IF d > 1 THEN 3 ELSE d + 1
  <1> USE ConstantsAreNaturals
  <1> DEFINE d == n - (i + 1)
             g == [m \in Move |-> IF m \in Carried(n, d) THEN f[m] + 1 ELSE f[m]]
             g1 == Plus(f, n, 1)
             g2 == Plus(g1, n - 1, 1)
             g3 == Plus(g2, n - 2, 1)
  <1> SUFFICES SumFunction(g) = SumFunction(f) + IF d > 1 THEN 3 ELSE d + 1
    OBVIOUS
  <1>1. d \in Nat /\ n \in Nat /\ SumFunction(f) \in Nat
    BY MovesFinite, SumType DEF Move
  <1>2. g1 \in [Move -> Nat] /\ SumFunction(g1) = SumFunction(f) + 1
    BY OneMore
  <1>3. d > 0 => /\ n - 1 \in Move
                 /\ g2 \in [Move -> Nat]
                 /\ SumFunction(g2) = SumFunction(g1) + 1
    <2> HAVE d > 0
    <2>1. n - 1 \in Move
      BY DEF Move
    <2> HIDE DEF g1
    <2> QED
      BY <1>2, <2>1, OneMore
  <1>4. d > 1 => /\ n - 2 \in Move
                 /\ g3 \in [Move -> Nat]
                 /\ SumFunction(g3) = SumFunction(g2) + 1
    <2> HAVE d > 1
    <2>1. n - 2 \in Move /\ d > 0
      BY DEF Move
    <2>2. g2 \in [Move -> Nat]
      BY <1>3, <2>1
    <2> HIDE DEF g2
    <2> QED
      BY <2>1, <2>2, OneMore
  <1>5. CASE d = 0
    <2>1. Carried(n, d) = {n}
      BY <1>1, <1>5 DEF Carried
    <2>2. \A m \in Move : g[m] = g1[m]
      BY <2>1 DEF Plus
    <2>3. g = g1
      <3> HIDE DEF g1
      <3> QED
        BY <1>2, <2>2
    <2> HIDE DEF g, g1
    <2> QED
      BY <1>1, <1>2, <1>5, <2>3
  <1>6. CASE d = 1
    <2>1. /\ Carried(n, d) = {n, n - 1} /\ n - 1 # n
          /\ n - 1 \in Move
      BY <1>1, <1>3, <1>6 DEF Carried
    <2>2. \A m \in Move : g[m] = g2[m]
      BY <2>1 DEF Plus
    <2>3. g = g2
      <3> HIDE DEF g2
      <3> QED
        BY <1>3, <1>6, <2>2
    <2> HIDE DEF g, g1, g2
    <2> QED
      BY <1>1, <1>2, <1>3, <1>6, <2>3
  <1>7. CASE d > 1
    <2>1. /\ Carried(n, d) = {n, n - 1, n - 2}
          /\ n - 1 # n /\ n - 2 # n /\ n - 2 # n - 1
          /\ n - 1 \in Move /\ n - 2 \in Move
      BY <1>1, <1>3, <1>4, <1>7 DEF Carried
    <2>2. \A m \in Move : g[m] = g3[m]
      BY <2>1 DEF Plus
    <2>3. g = g3
      <3> HIDE DEF g3
      <3> QED
        BY <1>4, <1>7, <2>2
    <2> HIDE DEF g, g1, g2, g3
    <2> QED
      BY <1>1, <1>2, <1>3, <1>4, <1>7, <2>3
  <1> QED
    BY <1>1, <1>5, <1>6, <1>7

SumInv == MovesTypeOK /\ NotFaster

LEMMA InitSumInv == MovesInit => SumInv
  <1> SUFFICES ASSUME MovesInit PROVE SumInv
    OBVIOUS
  <1>1. MovesTypeOK
    BY InitSafetyInv DEF SafetyInv
  <1>2. SumFunction(runs) = 0 /\ SumFunction(replays) = 0
    BY MovesFinite, SumOfZeros DEF MovesInit
  <1> QED
    BY <1>1, <1>2 DEF SumInv, NotFaster, MovesInit

LEMMA ExecuteKeepsSum ==
    ASSUME SumInv, NEW n \in Move, SV_ExecuteClientMessage(n)
    PROVE  NotFaster'
  <1> USE ConstantsAreNaturals
  <1> DEFINE i == incoming_sequence
             d == n - (i + 1)
             g == [m \in Move |-> IF m \in Carried(n, d)
                                  THEN runs[m] + 1 ELSE runs[m]]
             h == Plus(replays, lastcmd, Replays(d))
  <1>1. /\ i \in 0 .. MaxSequence /\ i < n
        /\ runs \in [Move -> Nat] /\ replays \in [0 .. MaxSequence -> Nat]
        /\ lastcmd \in 0 .. MaxSequence
    BY DEF SumInv, MovesTypeOK, SV_ExecuteClientMessage, Stale, Move
  <1>2. /\ SumFunction(runs) \in Nat /\ SumFunction(replays) \in Nat
        /\ SumFunction(runs) + SumFunction(replays) <= i
    BY <1>1, MovesFinite, SumType DEF SumInv, NotFaster
  <1>3. SumFunction(g) = SumFunction(runs) + IF d > 1 THEN 3 ELSE d + 1
    BY <1>1, CarriedSum
  <1>4. Replays(d) \in Nat /\ Replays(d) <= (IF d > 2 THEN d - 2 ELSE 0)
    BY <1>1 DEF Replays, Move
  <1>5. SumFunction(h) = SumFunction(replays) + Replays(d)
    <2> DEFINE k == Replays(d)
               S == 0 .. MaxSequence
    <2>1. /\ k \in Nat /\ IsFiniteSet(S)
          /\ replays \in [S -> Nat] /\ lastcmd \in S
      BY <1>1, <1>4, MovesFinite
    <2> HIDE DEF k, d, S
    <2>2. SumFunction(Plus(replays, lastcmd, k))
              = SumFunction(replays) + k
      BY ONLY <2>1, SumGrows
    <2> QED
      BY <2>2 DEF k
  <1>6. incoming_sequence' = n
    BY DEF SV_ExecuteClientMessage
  <1>7. CASE runs' = runs /\ replays' = replays
    BY <1>1, <1>2, <1>6, <1>7 DEF NotFaster, Move
  <1>8. CASE runs' = g /\ replays' = h
    <2> HIDE DEF g, h
    <2>1. NotFaster' <=> SumFunction(g) + SumFunction(h) <= n
      BY <1>6, <1>8 DEF NotFaster
    <2>2. n \in Nat /\ d \in Nat /\ i \in Nat /\ n = i + d + 1
      BY <1>1 DEF Move
    <2> HIDE DEF d, i
    <2> QED
      BY <1>2, <1>3, <1>4, <1>5, <2>1, <2>2
  <1> QED
    BY <1>7, <1>8 DEF SV_ExecuteClientMessage, SV_ExecuteClientMove, Plus

LEMMA OtherKeepsSum ==
    ASSUME SumInv, UNCHANGED server
    PROVE  NotFaster'
  BY DEF SumInv, NotFaster, server

(* SV_ExecuteClientMove never runs more moves for a player than he made up *)
(* to the last packet that arrived: replays make up for lost moves only.   *)
THEOREM NoMoreThanMade == MovesSpec => []NotFaster
  <1>1. SumInv /\ MovesTypeOK' /\ [MovesNext]_moveVars => SumInv'
    <2> SUFFICES ASSUME SumInv, MovesTypeOK', [MovesNext]_moveVars PROVE NotFaster'
      BY DEF SumInv
    <2>1. ASSUME NEW impulse \in BOOLEAN, CL_SendCmd(impulse) PROVE NotFaster'
      BY <2>1, OtherKeepsSum DEF CL_SendCmd
    <2>2. ASSUME SV_TogglePause \/ UNCHANGED moveVars PROVE NotFaster'
      BY <2>2, OtherKeepsSum DEF SV_TogglePause, moveVars
    <2> QED
      BY <2>1, <2>2, ExecuteKeepsSum DEF MovesNext
  <1>2. SumInv => NotFaster
    BY DEF SumInv
  <1> QED
    BY <1>1, <1>2, InitSumInv, TypeCorrect, PTL DEF MovesSpec

-----------------------------------------------------------------------------
(* An impulse is sent as often as it is wanted.                            *)

(* Which of the packets that carry an impulse were not skipped.            *)
ImpulseSent(n) ==
    /\ cl_c2sImpulseBackup >= 1 => n \in sent
    /\ cl_c2sImpulseBackup >= 2 /\ n + 2 < outgoing_sequence => n + 2 \in sent
    /\ cl_c2sImpulseBackup >= 3 /\ n + 1 < outgoing_sequence => n + 1 \in sent

ImpulseInv ==
    /\ MovesTypeOK
    /\ \A n \in impulses : n < outgoing_sequence /\ ImpulseSent(n)

LEMMA SendKeepsImpulses ==
    ASSUME ImpulseInv, MovesTypeOK', NEW impulse \in BOOLEAN, CL_SendCmd(impulse)
    PROVE  ImpulseInv'
  <1> USE ConstantsAreNaturals
  <1> DEFINE o == outgoing_sequence
  <1>1. /\ o \in Move /\ outgoing_sequence' = o + 1
        /\ impulses \subseteq Move
    BY DEF ImpulseInv, MovesTypeOK, CL_SendCmd, Move
  <1>2. impulses \subseteq impulses' /\ impulses' \subseteq impulses \cup {o}
    BY DEF CL_SendCmd
  <1>3. sent \subseteq sent' /\ (o \in sent' \/ ~DontDrop(o, impulses'))
    BY DEF CL_SendCmd, MaySkip
  <1>4. \A n \in impulses : n < o /\ ImpulseSent(n)
    BY DEF ImpulseInv
  <1> SUFFICES ASSUME NEW n \in impulses'
               PROVE  n < outgoing_sequence' /\ ImpulseSent(n)'
    BY DEF ImpulseInv
  <1>5. n \in Move /\ (n \in impulses \/ n = o)
    BY <1>1, <1>2
  <1>6. cl_c2sImpulseBackup >= 1 /\ n = o => o \in sent'
    BY <1>3 DEF DontDrop
  <1>7. cl_c2sImpulseBackup >= 2 /\ n + 2 = o => o \in sent'
    <2> HAVE cl_c2sImpulseBackup >= 2 /\ n + 2 = o
    <2>1. o > 2 /\ o - 2 = n
      BY <1>5 DEF Move
    <2> QED
      BY <1>3, <2>1 DEF DontDrop
  <1>8. cl_c2sImpulseBackup >= 3 /\ n + 1 = o => o \in sent'
    <2> HAVE cl_c2sImpulseBackup >= 3 /\ n + 1 = o
    <2>1. o - 1 = n
      BY <1>5 DEF Move
    <2> QED
      BY <1>3, <2>1 DEF DontDrop
  <1>9. n <= o /\ n \in Nat /\ o \in Nat
    BY <1>1, <1>4, <1>5 DEF Move
  <1> HIDE DEF o
  <1>10. cl_c2sImpulseBackup >= 1 => n \in sent'
    BY <1>3, <1>4, <1>5, <1>6 DEF ImpulseSent
  <1>11. cl_c2sImpulseBackup >= 2 /\ n + 2 < o + 1 => n + 2 \in sent'
    BY <1>3, <1>4, <1>5, <1>7, <1>9 DEF ImpulseSent, o
  <1>12. cl_c2sImpulseBackup >= 3 /\ n + 1 < o + 1 => n + 1 \in sent'
    BY <1>3, <1>4, <1>5, <1>8, <1>9 DEF ImpulseSent, o
  <1> QED
    BY <1>1, <1>9, <1>10, <1>11, <1>12 DEF ImpulseSent

LEMMA OtherKeepsImpulses ==
    ASSUME ImpulseInv, MovesTypeOK', UNCHANGED client
    PROVE  ImpulseInv'
  BY DEF ImpulseInv, ImpulseSent, client

LEMMA ImpulsesCounted ==
    ASSUME ImpulseInv
    PROVE  ImpulseBackedUp
  <1> USE ConstantsAreNaturals
  <1> SUFFICES ASSUME NEW n \in impulses, n + 2 < outgoing_sequence
               PROVE  Cardinality(sent \cap n .. n + 2) >= Wanted
    BY DEF ImpulseInv, ImpulseBackedUp
  <1> DEFINE A == sent \cap n .. n + 2
             b == cl_c2sImpulseBackup
  <1>1. n \in Nat /\ outgoing_sequence \in Nat /\ ImpulseSent(n)
    BY DEF ImpulseInv, MovesTypeOK, Move
  <1>2. IsFiniteSet(A) /\ Cardinality(A) \in Nat
    <2>1. IsFiniteSet(n .. n + 2)
      BY <1>1, FS_Interval
    <2> QED
      BY <2>1, FS_Intersection, FS_CardinalityType
  <1>3. \A T \in SUBSET A : Cardinality(T) <= Cardinality(A)
    BY <1>2, FS_Subset
  <1>4. /\ Cardinality({n}) = 1
        /\ Cardinality({n, n + 2}) = 2
        /\ Cardinality({n, n + 1, n + 2}) = 3
    <2>1. IsFiniteSet({n}) /\ Cardinality({n}) = 1
      BY FS_Singleton
    <2>2. n + 2 \notin {n} /\ n + 1 \notin {n} \cup {n + 2}
      BY <1>1
    <2>3. /\ IsFiniteSet({n} \cup {n + 2})
          /\ Cardinality({n} \cup {n + 2}) = 1 + 1
      BY <2>1, <2>2, FS_AddElement
    <2>4. Cardinality({n} \cup {n + 2} \cup {n + 1}) = 2 + 1
      <3> DEFINE T == {n} \cup {n + 2}
      <3>1. IsFiniteSet(T) /\ Cardinality(T) = 2 /\ n + 1 \notin T
        BY <2>2, <2>3
      <3> HIDE DEF T
      <3>2. Cardinality(T \cup {n + 1}) = Cardinality(T) + 1
        BY <3>1, FS_AddElement
      <3> QED
        BY <3>1, <3>2 DEF T
    <2>5. \A x, y, z : {x} \cup {z} = {x, z}
                        /\ {x} \cup {z} \cup {y} = {x, y, z}
      OBVIOUS
    <2> QED
      BY <2>1, <2>3, <2>4, <2>5
  <1>5. CASE b = 0
    BY <1>2, <1>5 DEF Wanted
  <1>6. CASE b = 1
    <2>1. {n} \in SUBSET A
      BY <1>1, <1>6 DEF ImpulseSent
    <2> QED
      BY <1>3, <1>4, <1>6, <2>1 DEF Wanted
  <1>7. CASE b = 2
    <2>1. {n, n + 2} \in SUBSET A
      BY <1>1, <1>7 DEF ImpulseSent
    <2> QED
      BY <1>3, <1>4, <1>7, <2>1 DEF Wanted
  <1>8. CASE b >= 3
    <2>1. {n, n + 1, n + 2} \in SUBSET A
      BY <1>1, <1>8 DEF ImpulseSent
    <2>2. Wanted = 3
      BY <1>8 DEF Wanted
    <2> HIDE DEF A
    <2> QED
      BY <1>3, <1>4, <2>1, <2>2 DEF A
  <1> QED
    BY <1>5, <1>6, <1>7, <1>8

(* However cl_c2spps skips, an impulse is sent in as many packets as       *)
(* cl_c2sImpulseBackup says, if three are enough.                          *)
THEOREM ImpulsesBackedUp == MovesSpec => []ImpulseBackedUp
  <1>1. MovesInit => ImpulseInv
    <2>1. MovesInit => MovesTypeOK
      BY InitSafetyInv DEF SafetyInv
    <2> QED
      BY <2>1 DEF MovesInit, ImpulseInv
  <1>2. ImpulseInv /\ MovesTypeOK' /\ [MovesNext]_moveVars => ImpulseInv'
    <2> SUFFICES ASSUME ImpulseInv, MovesTypeOK', [MovesNext]_moveVars PROVE ImpulseInv'
      OBVIOUS
    <2>1. ASSUME NEW n \in Move, SV_ExecuteClientMessage(n) PROVE ImpulseInv'
      BY <2>1, OtherKeepsImpulses DEF SV_ExecuteClientMessage
    <2>2. ASSUME SV_TogglePause \/ UNCHANGED moveVars PROVE ImpulseInv'
      BY <2>2, OtherKeepsImpulses DEF SV_TogglePause, moveVars
    <2> QED
      BY <2>1, <2>2, SendKeepsImpulses DEF MovesNext
  <1> QED
    BY <1>1, <1>2, ImpulsesCounted, TypeCorrect, PTL DEF MovesSpec

=============================================================================
