--------------------------- MODULE DeltaEntities ---------------------------
(***************************************************************************)
(* Delta compression of entities: the server (sv_ents.c, sv_user.c) sends  *)
(* a snapshot as the difference from an earlier one that the client        *)
(* (cl_ents.c, cl_input.c) asks for.  Both keep the last UPDATE_BACKUP     *)
(* snapshots in rings of frames and name them by packet numbers.           *)
(*                                                                         *)
(* The packets go through a netchan: as Netchan shows, a packet older than *)
(* the last one taken is discarded, and the server's packet carries the    *)
(* number of the client's packet it answers.  A client packet that         *)
(* cl_c2spps holds back looks like one that is lost.                       *)
(*                                                                         *)
(* A snapshot is the number of the packet it was made for, 0 is the empty  *)
(* frame, and Garbled what a delta applied to the wrong frame gives.  The  *)
(* module covers one level of one client in the game.                      *)
(***************************************************************************)
EXTENDS Integers

CONSTANTS
    UPDATE_BACKUP,
    MaxSeq          \* bound: the client sends packets numbered below MaxSeq

ASSUME BackupAssumption == UPDATE_BACKUP \in Nat /\ UPDATE_BACKUP > 1
ASSUME MaxSeqAssumption == MaxSeq \in Nat

(* sequence & UPDATE_MASK.  The byte that goes over the wire is sequence & *)
(* 255; either side uses it through this mask only.                        *)
Slot(sequence) == sequence % UPDATE_BACKUP

Slots == 0 .. UPDATE_BACKUP - 1

NoDelta == -1

Garbled == -1

VARIABLES
    outgoing_sequence,      \* client: cls.netchan
    incoming_sequence,
    validsequence,          \* client: cl
    delta_sequence,
    requested,              \* client: cl.frames[].delta_sequence
    entities,               \* client: cl.frames[].packet_entities
    sv_incoming_sequence,   \* server: client_t's netchan
    sv_delta_sequence,
    sv_entities,            \* server: client_t's frames[].entities
    send_message,
    requests,               \* packets the client has sent
    updates,                \* packets the server has sent
    taken                   \* history: snapshots the server has taken

client == <<outgoing_sequence, incoming_sequence, validsequence,
            delta_sequence, requested, entities>>

server == <<sv_incoming_sequence, sv_delta_sequence, sv_entities,
            send_message, taken>>

vars == <<client, server, requests, updates>>

(* asked is the full number behind the byte that clc_delta carries.        *)
Request == [sequence : Nat, asked : Nat \cup {NoDelta}]

(* An update has no entities when they did not fit or the client is not    *)
(* spawned.  from is the slot svc_deltapacketentities names, base what the *)
(* server found there.                                                     *)
Update == [sequence : Nat, has_entities : BOOLEAN,
           from : Slots \cup {NoDelta}, base : Nat]

Init ==
    /\ outgoing_sequence = 1
    /\ incoming_sequence = 0
    /\ validsequence = 0
    /\ delta_sequence = 0
    /\ requested = [i \in Slots |-> 0]
    /\ entities = [i \in Slots |-> 0]
    /\ sv_incoming_sequence = 0
    /\ sv_delta_sequence = NoDelta
    /\ sv_entities = [i \in Slots |-> 0]
    /\ send_message = FALSE
    /\ requests = {}
    /\ updates = {}
    /\ taken = {}

-----------------------------------------------------------------------------
(* The client asks.                                                        *)

(* Mutant of Expired: counts what has been received, not what was sent.    *)
Expired_ByIncoming(sequence) ==
    incoming_sequence - sequence >= UPDATE_BACKUP - 1

(* Mutant of Expired: takes the ring for larger than it is.                *)
Expired_LargerRing(sequence) ==
    outgoing_sequence - sequence >= UPDATE_BACKUP + 2

(* The frame of that number is about to be overwritten.                    *)
Expired(sequence) ==
    outgoing_sequence - sequence >= UPDATE_BACKUP - 1

(* CL_SendCmd forgets an expired frame, asks for a delta from the last     *)
(* good one, if there is one and cl_nodelta allows it (nodelta), and       *)
(* remembers in the frame of this packet what it asked for.                *)
CL_SendCmd(nodelta) ==
    LET delta == IF Expired(validsequence) THEN 0 ELSE delta_sequence
        asked == IF delta # 0 /\ ~nodelta THEN delta ELSE NoDelta
    IN  /\ outgoing_sequence < MaxSeq
        /\ validsequence' = IF Expired(validsequence) THEN 0
                                                      ELSE validsequence
        /\ delta_sequence' = delta
        /\ requested' = [requested EXCEPT ![Slot(outgoing_sequence)] = asked]
        /\ requests' = requests \cup
              {[sequence |-> outgoing_sequence, asked |-> asked]}
        /\ outgoing_sequence' = outgoing_sequence + 1
        /\ UNCHANGED <<incoming_sequence, entities, server, updates>>

-----------------------------------------------------------------------------
(* The server answers.                                                     *)

(* Mutant of DeltaRequest: a packet without clc_delta leaves the request   *)
(* of the packet before it.                                                *)
DeltaRequest_Kept(r) == IF r.asked = NoDelta THEN sv_delta_sequence
                                             ELSE Slot(r.asked)

DeltaRequest(r) == IF r.asked = NoDelta THEN NoDelta ELSE Slot(r.asked)

(* SV_ExecuteClientMessage; Netchan_Process has discarded stale packets.   *)
SV_ExecuteClientMessage(r) ==
    /\ r.sequence > sv_incoming_sequence
    /\ sv_incoming_sequence' = r.sequence
    /\ sv_delta_sequence' = DeltaRequest(r)
    /\ send_message' = TRUE
    /\ UNCHANGED <<client, sv_entities, requests, updates, taken>>

(* SV_SendClientMessages without SV_SendClientDatagram: the client is      *)
(* choked (answers = FALSE) or not spawned.                                *)
SV_SendClientMessages(answers) ==
    /\ send_message
    /\ send_message' = FALSE
    /\ updates' = IF answers
                  THEN updates \cup
                          {[sequence |-> sv_incoming_sequence,
                            has_entities |-> FALSE, from |-> NoDelta,
                            base |-> 0]}
                  ELSE updates
    /\ UNCHANGED <<client, sv_incoming_sequence, sv_delta_sequence,
                   sv_entities, requests, taken>>

(* SV_WriteEntitiesToClient makes the frame of the packet it answers, then *)
(* SV_EmitPacketEntities encodes it from the frame asked for.  Netchan     *)
(* may find no room for the datagram (fits).                               *)
SV_SendClientDatagram(fits) ==
    LET n      == sv_incoming_sequence
        frames == [sv_entities EXCEPT ![Slot(n)] = n]
    IN  /\ send_message
        /\ send_message' = FALSE
        /\ sv_entities' = frames
        /\ taken' = taken \cup {n}
        /\ updates' = updates \cup
              {[sequence |-> n, has_entities |-> fits,
                from |-> IF fits THEN sv_delta_sequence ELSE NoDelta,
                base |-> IF fits /\ sv_delta_sequence # NoDelta
                         THEN frames[sv_delta_sequence] ELSE 0]}
        /\ UNCHANGED <<client, sv_incoming_sequence, sv_delta_sequence,
                       requests>>

-----------------------------------------------------------------------------
(* The client reads an update.                                             *)

Newer(m) == m.sequence > incoming_sequence

OldPacket(m) == requested[Slot(m.sequence)]

(* "There are no valid frames left": the slot of the request may have been *)
(* used again.                                                             *)
TooLate(m) == Expired(m.sequence)

Mismatch(m) == m.from # Slot(OldPacket(m))

(* What applying the difference to the frame asked for gives.              *)
Decoded(m) ==
    IF m.from = NoDelta \/ entities[Slot(OldPacket(m))] = m.base
    THEN m.sequence ELSE Garbled

(* CL_ParsePacketEntities accepts the update.                              *)
CL_Parse(m) ==
    /\ Newer(m) /\ m.has_entities
    /\ m.from # NoDelta =>
          ~TooLate(m) /\ ~Mismatch(m) /\ ~Expired(OldPacket(m))
    /\ entities' = [entities EXCEPT ![Slot(m.sequence)] = Decoded(m)]
    /\ validsequence' = m.sequence
    /\ delta_sequence' = m.sequence
    /\ incoming_sequence' = m.sequence
    /\ UNCHANGED <<outgoing_sequence, requested, server, requests, updates>>

(* FlushEntityPacket: the next request is for a full update.  When only    *)
(* the old frame has expired, what is shown stays.                         *)
CL_Flush(m) ==
    /\ Newer(m) /\ m.has_entities /\ m.from # NoDelta
    /\ TooLate(m) \/ Mismatch(m) \/ Expired(OldPacket(m))
    /\ delta_sequence' = 0
    /\ validsequence' = IF TooLate(m) \/ Mismatch(m) THEN 0
                                                     ELSE validsequence
    /\ incoming_sequence' = m.sequence
    /\ UNCHANGED <<outgoing_sequence, requested, entities, server, requests,
                   updates>>

CL_ReadWithoutEntities(m) ==
    /\ Newer(m) /\ ~m.has_entities
    /\ incoming_sequence' = m.sequence
    /\ UNCHANGED <<outgoing_sequence, validsequence, delta_sequence,
                   requested, entities, server, requests, updates>>

-----------------------------------------------------------------------------
Next ==
    \/ \E nodelta \in BOOLEAN : CL_SendCmd(nodelta)
    \/ \E r \in requests : SV_ExecuteClientMessage(r)
    \/ \E answers \in BOOLEAN : SV_SendClientMessages(answers)
    \/ \E fits \in BOOLEAN : SV_SendClientDatagram(fits)
    \/ \E m \in updates : CL_Parse(m)
    \/ \E m \in updates : CL_Flush(m)
    \/ \E m \in updates : CL_ReadWithoutEntities(m)

Spec == Init /\ [][Next]_vars

-----------------------------------------------------------------------------
(* Properties.                                                             *)

TypeOK ==
    /\ outgoing_sequence \in Nat
    /\ incoming_sequence \in Nat
    /\ validsequence \in Nat
    /\ delta_sequence \in Nat
    /\ requested \in [Slots -> Nat \cup {NoDelta}]
    /\ entities \in [Slots -> Nat \cup {Garbled}]
    /\ sv_incoming_sequence \in Nat
    /\ sv_delta_sequence \in Slots \cup {NoDelta}
    /\ sv_entities \in [Slots -> Nat]
    /\ send_message \in BOOLEAN
    /\ requests \in SUBSET Request
    /\ updates \in SUBSET Update
    /\ taken \in SUBSET Nat

(* The frame the client shows (cl.frames[cl.validsequence & UPDATE_MASK])  *)
(* is the snapshot the server took under that number: every delta was      *)
(* applied to the very frame it had been encoded from, though both rings   *)
(* are overwritten all the time.  "WARNING: from mismatch" (cl_ents.c) is   *)
(* never printed: an answer that is not too late names the frame the       *)
(* client remembers asking for.                                            *)
Shown == IF validsequence = 0 THEN 0 ELSE entities[Slot(validsequence)]

RightFrame ==
    /\ TypeOK
    /\ Shown = validsequence
    /\ \A m \in updates :
          Newer(m) /\ m.from # NoDelta /\ ~TooLate(m) => ~Mismatch(m)

(* The client is fed whole snapshots, none older than what it has received *)
(* already.                                                                *)
Feed == INSTANCE SnapshotFeed WITH
    Number <- 1 .. MaxSeq, newest <- incoming_sequence, shown <- Shown

FeedsSnapshots == Feed!Spec

=============================================================================
