------------------------------ MODULE Netchan ------------------------------
(***************************************************************************)
(* The sequenced network channel of ezQuake (src/src/net_chan.c) between   *)
(* one client and one server, with the two programs' rules for driving it: *)
(* the client transmits on its own clock (CL_SendCmd), the server answers  *)
(* packets (SV_ExecuteClientMessage, SV_SendClientMessages).               *)
(*                                                                         *)
(* A netchan_t field is a variable of the same name, a function of the     *)
(* side that owns the structure.  A reliable message is a sequence of      *)
(* blocks; a block is the number of the write that produced it, so that    *)
(* two blocks are never confused.  A block takes one unit of message       *)
(* space.  Unreliable data, statistics, the 31-bit width of the sequence   *)
(* numbers and the server's last packet (SV_FinalMessage) are left out.    *)
(***************************************************************************)
EXTENDS Naturals, Sequences

CONSTANTS
    Client, Server,
    MaxMessage,     \* chan->message.maxsize, in blocks
    MaxSeq,         \* bound: packets numbered below MaxSeq
    MaxWrites       \* bound: reliable blocks written by each side

ASSUME SidesDiffer == Client # Server
ASSUME MaxMessageAssumption == MaxMessage \in Nat \ {0}

Sides == {Client, Server}

ASSUME BoundsAssumption == MaxSeq \in Nat /\ MaxWrites \in [Sides -> Nat]

Peer(s) == IF s = Client THEN Server ELSE Client

Bit == {0, 1}

Flip(b) == 1 - b

Blocks == Seq(Nat)

Disconnect == 0     \* the block of an overflow notice and svc_disconnect

(* The header and the reliable payload of a packet.                        *)
Packet == [from : Sides, sequence : Nat, reliable : BOOLEAN,
           ack : Nat, reliable_ack : Bit, data : Blocks]

VARIABLES
    message,                        \* blocks waiting in chan->message
    overflowed,                     \* chan->message.overflowed
    fatal_error,
    reliable_buf,
    reliable_length,                \* 0: nothing waits for an acknowledgement
    reliable_sequence,              \* parity of the last reliable message sent
    last_reliable_sequence,
    outgoing_sequence,
    incoming_sequence,
    incoming_acknowledged,
    incoming_reliable_acknowledged,
    incoming_reliable_sequence,     \* parity of the last one received
    send_message,                   \* server: answer at the end of the frame
    dropped,                        \* history: SV_DropClient has been called
    dropcount,                      \* client: packets skipped in a row
    net,                            \* every packet ever sent
    written,                        \* history: blocks written and not revoked
    writes,                         \* history: number of blocks written
    delivered                       \* history: blocks handed to the parser

channel == <<message, overflowed, fatal_error, reliable_buf, reliable_length,
             reliable_sequence, last_reliable_sequence, outgoing_sequence,
             incoming_sequence, incoming_acknowledged,
             incoming_reliable_acknowledged, incoming_reliable_sequence>>

history == <<written, writes, delivered>>

vars == <<channel, send_message, dropped, dropcount, net, history>>

(* Netchan_Setup zeroes the structure on both sides.                       *)
Netchan_Setup ==
    /\ message = [s \in Sides |-> << >>]
    /\ overflowed = [s \in Sides |-> FALSE]
    /\ fatal_error = [s \in Sides |-> FALSE]
    /\ reliable_buf = [s \in Sides |-> << >>]
    /\ reliable_length = [s \in Sides |-> 0]
    /\ reliable_sequence = [s \in Sides |-> 0]
    /\ last_reliable_sequence = [s \in Sides |-> 0]
    /\ outgoing_sequence = [s \in Sides |-> 0]
    /\ incoming_sequence = [s \in Sides |-> 0]
    /\ incoming_acknowledged = [s \in Sides |-> 0]
    /\ incoming_reliable_acknowledged = [s \in Sides |-> 0]
    /\ incoming_reliable_sequence = [s \in Sides |-> 0]

Init ==
    /\ Netchan_Setup
    /\ send_message = FALSE
    /\ dropped = FALSE
    /\ dropcount = 0
    /\ net = {}
    /\ written = [s \in Sides |-> << >>]
    /\ writes = [s \in Sides |-> 0]
    /\ delivered = [s \in Sides |-> << >>]

-----------------------------------------------------------------------------
(* Writing to the reliable message.                                        *)

(* What is left of a side's history when the blocks that wait in message   *)
(* are thrown away.                                                        *)
WithoutMessage(s) ==
    SubSeq(written[s], 1, Len(written[s]) - Len(message[s]))

(* SZ_Write on chan->message: a block that does not fit empties the buffer *)
(* (SZ_Clear), raises overflowed and is written all the same.              *)
SZ_Write(s) ==
    /\ writes[s] < MaxWrites[s]
    /\ LET block == writes[s] + 1
           fits  == Len(message[s]) < MaxMessage
       IN  /\ message' = [message EXCEPT ![s] =
                 IF fits THEN Append(@, block) ELSE <<block>>]
           /\ overflowed' = [overflowed EXCEPT ![s] = @ \/ ~fits]
           /\ written' = [written EXCEPT ![s] =
                 Append(IF fits THEN @ ELSE WithoutMessage(s), block)]
           /\ writes' = [writes EXCEPT ![s] = block]
    /\ UNCHANGED <<fatal_error, reliable_buf, reliable_length,
                   reliable_sequence, last_reliable_sequence,
                   outgoing_sequence, incoming_sequence,
                   incoming_acknowledged, incoming_reliable_acknowledged,
                   incoming_reliable_sequence, send_message, dropped,
                   dropcount, net, delivered>>

(* The program starts its reliable stream afresh: CL_ClearState on the     *)
(* client when a new level arrives, SV_ClearReliable on the server.        *)
SZ_Clear(s) ==
    /\ message[s] # << >> \/ overflowed[s]
    /\ message' = [message EXCEPT ![s] = << >>]
    /\ overflowed' = [overflowed EXCEPT ![s] = FALSE]
    /\ written' = [written EXCEPT ![s] = WithoutMessage(s)]
    /\ UNCHANGED <<fatal_error, reliable_buf, reliable_length,
                   reliable_sequence, last_reliable_sequence,
                   outgoing_sequence, incoming_sequence,
                   incoming_acknowledged, incoming_reliable_acknowledged,
                   incoming_reliable_sequence, send_message, dropped,
                   dropcount, net, writes, delivered>>

(* A block overflows the back buffers of the client: sv_nchan.c (see       *)
(* ServerReliable) raises the flag of the message and leaves the rest.     *)
SV_OverflowBackbuf ==
    /\ writes[Server] < MaxWrites[Server]
    /\ writes' = [writes EXCEPT ![Server] = @ + 1]
    /\ overflowed' = [overflowed EXCEPT ![Server] = TRUE]
    /\ UNCHANGED <<message, fatal_error, reliable_buf, reliable_length,
                   reliable_sequence, last_reliable_sequence,
                   outgoing_sequence, incoming_sequence,
                   incoming_acknowledged, incoming_reliable_acknowledged,
                   incoming_reliable_sequence, send_message, dropped,
                   dropcount, net, written, delivered>>

-----------------------------------------------------------------------------
(* Netchan_Transmit.                                                       *)

(* Mutant of RemoteDropped: resends without waiting for a newer packet to  *)
(* be acknowledged.                                                        *)
RemoteDropped_Eager(s) ==
    incoming_reliable_acknowledged[s] # reliable_sequence[s]

(* The remote side dropped the last reliable message: it acknowledges a    *)
(* packet sent after the one that carried it, without its parity.          *)
RemoteDropped(s) ==
    /\ incoming_acknowledged[s] > last_reliable_sequence[s]
    /\ incoming_reliable_acknowledged[s] # reliable_sequence[s]

(* Mutant of TakesMessage: reuses the transmit buffer while its content is *)
(* unacknowledged.                                                         *)
TakesMessage_Unacked(s, msg) == msg # << >>

(* The reliable transmit buffer is empty: the message moves there.         *)
TakesMessage(s, msg) == reliable_length[s] = 0 /\ msg # << >>

(* The part of Netchan_Transmit that sends, for a side whose reliable      *)
(* message is msg and has not overflowed.  dupe copies of one packet are   *)
(* one element of net.                                                     *)
Send(s, msg) ==
    LET fresh  == TakesMessage(s, msg)
        resend == RemoteDropped(s)
        buf    == IF fresh THEN msg ELSE reliable_buf[s]
        length == IF fresh THEN Len(msg) ELSE reliable_length[s]
    IN  /\ outgoing_sequence[s] < MaxSeq
        /\ net' = net \cup
              {[from |-> s, sequence |-> outgoing_sequence[s],
                reliable |-> fresh \/ resend, ack |-> incoming_sequence[s],
                reliable_ack |-> incoming_reliable_sequence[s],
                data |-> IF fresh \/ resend THEN SubSeq(buf, 1, length)
                                            ELSE << >>]}
        /\ message' = [message EXCEPT ![s] = IF fresh THEN << >> ELSE msg]
        /\ reliable_buf' = [reliable_buf EXCEPT ![s] = buf]
        /\ reliable_length' = [reliable_length EXCEPT ![s] = length]
        /\ reliable_sequence' = [reliable_sequence EXCEPT ![s] =
              IF fresh THEN Flip(@) ELSE @]
        /\ outgoing_sequence' = [outgoing_sequence EXCEPT ![s] = @ + 1]
        /\ last_reliable_sequence' = [last_reliable_sequence EXCEPT ![s] =
              IF fresh \/ resend THEN outgoing_sequence[s] + 1 ELSE @]

(* The overflowed exit: flag the channel, send nothing.                    *)
Overflowed(s) ==
    /\ overflowed[s]
    /\ fatal_error' = [fatal_error EXCEPT ![s] = TRUE]
    /\ UNCHANGED <<message, overflowed, reliable_buf, reliable_length,
                   reliable_sequence, last_reliable_sequence,
                   outgoing_sequence, incoming_sequence,
                   incoming_acknowledged, incoming_reliable_acknowledged,
                   incoming_reliable_sequence, net, history>>

(* A frame of the client sends one packet.                                 *)
CL_SendCmd ==
    /\ \/ /\ ~overflowed[Client]
          /\ Send(Client, message[Client])
          /\ UNCHANGED <<overflowed, fatal_error, incoming_sequence,
                         incoming_acknowledged,
                         incoming_reliable_acknowledged,
                         incoming_reliable_sequence, history>>
       \/ Overflowed(Client)
    /\ dropcount' = 0
    /\ UNCHANGED <<send_message, dropped>>

(* With cl_c2spps the client spends a sequence number without a packet,    *)
(* at most twice in a row.                                                 *)
CL_SkipCmd ==
    /\ dropcount < 2
    /\ outgoing_sequence[Client] < MaxSeq
    /\ outgoing_sequence' = [outgoing_sequence EXCEPT ![Client] = @ + 1]
    /\ dropcount' = dropcount + 1
    /\ UNCHANGED <<message, overflowed, fatal_error, reliable_buf,
                   reliable_length, reliable_sequence,
                   last_reliable_sequence, incoming_sequence,
                   incoming_acknowledged, incoming_reliable_acknowledged,
                   incoming_reliable_sequence, send_message, dropped, net,
                   history>>

(* SV_SendClientMessages answers the client at the end of a frame in which *)
(* a packet of its arrived; a choked answer (Netchan_CanPacket) is lost.   *)
(* The frame's own writes may overflow just before Netchan_Transmit.       *)
SV_Reply ==
    /\ send_message
    /\ \/ /\ ~overflowed[Server]
          /\ Send(Server, message[Server])
          /\ UNCHANGED <<overflowed, fatal_error, incoming_sequence,
                         incoming_acknowledged,
                         incoming_reliable_acknowledged,
                         incoming_reliable_sequence, history>>
       \/ Overflowed(Server)
    /\ send_message' = FALSE
    /\ UNCHANGED <<dropped, dropcount>>

SV_Choke ==
    /\ send_message
    /\ ~overflowed[Server]
    /\ send_message' = FALSE
    /\ UNCHANGED <<channel, dropped, dropcount, net, history>>

(* SV_SendClientMessages finds the reliable message overflowed: it clears  *)
(* it, drops the client with an svc_disconnect and sends at once, unless   *)
(* the notice it writes first overflows a back buffer again.               *)
SV_DropOverflowed ==
    /\ overflowed[Server]
    /\ \/ /\ Send(Server, <<Disconnect>>)
          /\ overflowed' = [overflowed EXCEPT ![Server] = FALSE]
          /\ UNCHANGED fatal_error
       \/ /\ message' = [message EXCEPT ![Server] = <<Disconnect>>]
          /\ fatal_error' = [fatal_error EXCEPT ![Server] = TRUE]
          /\ UNCHANGED <<overflowed, reliable_buf, reliable_length,
                         reliable_sequence, last_reliable_sequence,
                         outgoing_sequence, net>>
    /\ written' = [written EXCEPT ![Server] =
          Append(WithoutMessage(Server), Disconnect)]
    /\ dropped' = TRUE
    /\ send_message' = FALSE
    /\ UNCHANGED <<incoming_sequence, incoming_acknowledged,
                   incoming_reliable_acknowledged,
                   incoming_reliable_sequence, dropcount, writes, delivered>>

-----------------------------------------------------------------------------
(* Netchan_Process.                                                        *)

(* Mutant of Stale: lets a duplicate of the last packet through.           *)
Stale_OffByOne(s, m) == m.sequence < incoming_sequence[s]

Stale(s, m) == m.sequence <= incoming_sequence[s]

(* Mutant of Acknowledges: takes the acknowledged number for the parity.   *)
Acknowledges_ByNumber(s, m) == m.ack >= last_reliable_sequence[s]

(* The packet acknowledges the last reliable message.                      *)
Acknowledges(s, m) == m.reliable_ack = reliable_sequence[s]

(* Side s takes packet m.  A stale or duplicated packet changes nothing    *)
(* and is not a step; any other packet of net may be taken, whatever was   *)
(* sent before or after it.                                                *)
Netchan_Process(s, m) ==
    /\ m.from = Peer(s)
    /\ ~Stale(s, m)
    /\ reliable_length' = [reliable_length EXCEPT ![s] =
          IF Acknowledges(s, m) THEN 0 ELSE @]
    /\ incoming_sequence' = [incoming_sequence EXCEPT ![s] = m.sequence]
    /\ incoming_acknowledged' = [incoming_acknowledged EXCEPT ![s] = m.ack]
    /\ incoming_reliable_acknowledged' =
          [incoming_reliable_acknowledged EXCEPT ![s] = m.reliable_ack]
    /\ incoming_reliable_sequence' = [incoming_reliable_sequence EXCEPT ![s] =
          IF m.reliable THEN Flip(@) ELSE @]
    /\ delivered' = [delivered EXCEPT ![s] = @ \o m.data]
    /\ UNCHANGED <<message, overflowed, fatal_error, reliable_buf,
                   reliable_sequence, last_reliable_sequence, dropped,
                   dropcount, net, written, writes>>

CL_ReadPackets(m) ==
    /\ Netchan_Process(Client, m)
    /\ UNCHANGED <<outgoing_sequence, send_message>>

(* Mutant of Slipped: answers every packet.                                *)
Slipped_Never(m) == FALSE

(* The server has already sent a packet numbered m or above.               *)
Slipped(m) == m.sequence < outgoing_sequence[Server]

(* Mutant of ReplySequence: the server counts on its own.                  *)
ReplySequence_Unsynchronised(m) == outgoing_sequence[Server]

ReplySequence(m) ==
    IF Slipped(m) THEN outgoing_sequence[Server] ELSE m.sequence

(* The server makes its next packet answer the one it took, unless the     *)
(* sequences have slipped: then it does not answer.                        *)
SV_ExecuteClientMessage(m) ==
    /\ Netchan_Process(Server, m)
    /\ send_message' = ~Slipped(m)
    /\ outgoing_sequence' =
          [outgoing_sequence EXCEPT ![Server] = ReplySequence(m)]

-----------------------------------------------------------------------------
Next ==
    \/ \E s \in Sides : SZ_Write(s)
    \/ \E s \in Sides : SZ_Clear(s)
    \/ SV_OverflowBackbuf
    \/ CL_SendCmd
    \/ CL_SkipCmd
    \/ SV_Reply
    \/ SV_Choke
    \/ SV_DropOverflowed
    \/ \E m \in net : CL_ReadPackets(m)
    \/ \E m \in net : SV_ExecuteClientMessage(m)

Spec == Init /\ [][Next]_vars

-----------------------------------------------------------------------------
(* Properties.                                                             *)

TypeOK ==
    /\ message \in [Sides -> Blocks]
    /\ overflowed \in [Sides -> BOOLEAN]
    /\ fatal_error \in [Sides -> BOOLEAN]
    /\ reliable_buf \in [Sides -> Blocks]
    /\ reliable_length \in [Sides -> Nat]
    /\ reliable_sequence \in [Sides -> Bit]
    /\ last_reliable_sequence \in [Sides -> Nat]
    /\ outgoing_sequence \in [Sides -> Nat]
    /\ incoming_sequence \in [Sides -> Nat]
    /\ incoming_acknowledged \in [Sides -> Nat]
    /\ incoming_reliable_acknowledged \in [Sides -> Bit]
    /\ incoming_reliable_sequence \in [Sides -> Bit]
    /\ send_message \in BOOLEAN
    /\ dropped \in BOOLEAN
    /\ dropcount \in 0 .. 2
    /\ net \in SUBSET Packet
    /\ written \in [Sides -> Blocks]
    /\ \A s \in Sides : writes[s] \in 0 .. MaxWrites[s]
    /\ delivered \in [Sides -> Blocks]

(* The reliable message of s has not reached the other side yet: the       *)
(* receiver's parity has not caught up with the sender's.                  *)
Outstanding(s) ==
    incoming_reliable_sequence[Peer(s)] # reliable_sequence[s]

Pending(s) == IF Outstanding(s) THEN reliable_buf[s] ELSE << >>

(* Whatever the network does, every block written to the reliable message  *)
(* of a side and not revoked there has been delivered exactly once and in  *)
(* order, or is the reliable message in flight, or waits in message:       *)
(* Netchan_Transmit and Netchan_Process never lose, repeat or reorder one. *)
ExactlyOnce ==
    \A s \in Sides :
        written[s] = delivered[Peer(s)] \o Pending(s) \o message[s]

(* The blocks of each side form a ReliableStream: in particular what has *)
(* been delivered is never altered and is always a prefix of what was      *)
(* written, through every loss, duplication and overtaking.                *)
ClientStream == INSTANCE ReliableStream WITH
    Block <- 0 .. MaxWrites[Client],
    written <- written[Client], delivered <- delivered[Server]

ServerStream == INSTANCE ReliableStream WITH
    Block <- 0 .. MaxWrites[Server],
    written <- written[Server], delivered <- delivered[Client]

ClientToServer == ClientStream!Spec
ServerToClient == ServerStream!Spec

(* The channel is reliable both ways: what Netchan_Transmit and             *)
(* Netchan_Process of the two sides do implements two ReliableStreams.     *)
BothReliable == ClientToServer /\ ServerToClient

(* net_chan.c: a reliable message "will not be retransmitted again until a *)
(* message after the retransmit has been acknowledged and the reliable     *)
(* still failed to get there": Netchan_Transmit sends it again only when   *)
(* the other side lacks it and has taken a packet newer than the last      *)
(* copy, which can then no longer be accepted.                             *)
Resends(s) ==
    /\ last_reliable_sequence'[s] # last_reliable_sequence[s]
    /\ reliable_sequence'[s] = reliable_sequence[s]

NoNeedlessResend ==
    [][\A s \in Sides : Resends(s) =>
          /\ Outstanding(s)
          /\ incoming_sequence[Peer(s)] >= last_reliable_sequence[s]]_vars

(* A side never puts one sequence number on two packets, though the server *)
(* sets outgoing_sequence by hand when a client packet arrives.            *)
SequenceNamesPacket ==
    \A m1, m2 \in net :
        m1.from = m2.from /\ m1.sequence = m2.sequence => m1 = m2

(* "make sure the reply sequence number matches the incoming sequence      *)
(* number" (sv_user.c): a server packet carries the number of the client   *)
(* packet it answers, by which the client finds the usercmd it sent.  Only *)
(* the unasked packet that drops an overflowed client is ahead of it.      *)
OutOfStep == {m \in net : m.from = Server /\ m.sequence # m.ack}

AnswersInStep ==
    \A m \in OutOfStep : dropped /\ m.sequence > m.ack

(* "If the message buffer is overflowed [...] the netchan signals a fatal  *)
(* error" (net_chan.c): a channel with fatal_error set sends nothing more. *)
(* It does not hold: the flag is read nowhere.                             *)
FatalErrorIsFinal ==
    [][\A m \in net' \ net : ~fatal_error[m.from]]_vars

=============================================================================
