-------------------------- MODULE NetchanInvariant --------------------------
(***************************************************************************)
(* The inductive invariants behind the properties of Netchan: IInv for the *)
(* reliable stream, PacketInv for the packet numbers.  The parts of IInv   *)
(* speak of the packets in flight: those the receiver would still accept.  *)
(* They are proved in NetchanProofs.                                       *)
(***************************************************************************)
EXTENDS Netchan

(* The packets s may still accept.                                         *)
InFlightTo(s) == {m \in net : m.from = Peer(s) /\ ~Stale(s, m)}

(* Numbers only grow: a side has seen no number that was not used, and     *)
(* acknowledges none it has not seen.                                      *)
Numbering ==
    /\ \A s \in Sides :
          /\ incoming_sequence[Peer(s)] <= outgoing_sequence[s]
          /\ incoming_acknowledged[s] <= incoming_sequence[Peer(s)]
    /\ \A m \in net :
          /\ m.sequence < outgoing_sequence[m.from]
          /\ m.ack <= incoming_sequence[m.from]

(* The transmit buffer is freed only when its content has arrived.         *)
Buffering ==
    \A s \in Sides :
        /\ reliable_length[s] \in {0, Len(reliable_buf[s])}
        /\ Outstanding(s) => reliable_length[s] # 0

(* At most one copy of a reliable message can still be accepted: the last  *)
(* one sent, carrying what the transmit buffer holds.                      *)
OneCopy ==
    /\ \A m \in net : ~m.reliable => m.data = << >>
    /\ \A s \in Sides : \A m \in InFlightTo(Peer(s)) : m.reliable =>
          /\ Outstanding(s)
          /\ m.sequence + 1 = last_reliable_sequence[s]
          /\ m.data = reliable_buf[s]

(* A positive acknowledgement in flight is true, and so is a negative one  *)
(* given after the packet that followed the last copy.                     *)
Truthful(s, ack, reliable_ack) ==
    reliable_ack # reliable_sequence[s] /\ ack >= last_reliable_sequence[s]
        => Outstanding(s)

Acknowledgements ==
    \A s \in Sides :
        /\ Truthful(s, incoming_acknowledged[s],
                       incoming_reliable_acknowledged[s])
        /\ \A m \in InFlightTo(s) :
              /\ Truthful(s, m.ack, m.reliable_ack)
              /\ m.reliable_ack = reliable_sequence[s] => ~Outstanding(s)
              /\ reliable_length[s] = 0 =>
                    m.reliable_ack = reliable_sequence[s]

(* Once acknowledged, a reliable message stays so in the packets that the  *)
(* acknowledging side sends later.                                         *)
Persistent ==
    \A s \in Sides : \A m1, m2 \in InFlightTo(s) :
        /\ m1.reliable_ack = reliable_sequence[s]
        /\ m1.sequence < m2.sequence
        => m2.reliable_ack = reliable_sequence[s]

ChannelInv ==
    Numbering /\ Buffering /\ OneCopy /\ Acknowledgements /\ Persistent

(* The channel is consistent and the histories agree with it: the whole    *)
(* of what Netchan_Transmit and Netchan_Process maintain between them.     *)
IInv == TypeOK /\ ChannelInv /\ ExactlyOnce

(* The server is never behind the packets it has taken, and level with     *)
(* them while it owes an answer.                                           *)
InStep ==
    /\ outgoing_sequence[Server] >= incoming_sequence[Server]
    /\ send_message => outgoing_sequence[Server] = incoming_sequence[Server]

(* The server sets outgoing_sequence by hand from the packets it takes; it *)
(* uses no number twice, and its packets name the ones they answer         *)
(* (SV_ExecuteClientMessage, SV_SendClientMessages).                       *)
PacketInv == SequenceNamesPacket /\ AnswersInStep /\ InStep

=============================================================================
