--------------------------- MODULE NetchanProofs ---------------------------
(***************************************************************************)
(* Machine-checked proofs about Netchan, for every message size and every  *)
(* bound on packets and writes: what IInv implies, the numbers of the      *)
(* packets, and the refinement of ReliableStream.                          *)
(***************************************************************************)
EXTENDS NetchanInvariant, SequenceTheorems, TLAPS

USE SidesDiffer, MaxMessageAssumption, BoundsAssumption

LEMMA PeerFacts ==
    /\ Client \in Sides /\ Server \in Sides
    /\ Peer(Client) = Server /\ Peer(Server) = Client
    /\ \A s \in Sides : /\ Peer(s) \in Sides
                        /\ Peer(s) # s
                        /\ Peer(Peer(s)) = s
                        /\ \A q \in Sides : q = s \/ q = Peer(s)
BY DEF Peer, Sides

LEMMA BlocksFacts ==
    /\ << >> \in Blocks
    /\ \A n \in Nat : <<n>> \in Blocks
    /\ \A b \in Blocks : /\ Len(b) \in Nat
                         /\ SubSeq(b, 1, Len(b)) = b
                         /\ b \o << >> = b
                         /\ << >> \o b = b
                         /\ Len(b) = 0 <=> b = << >>
                         /\ \A n \in Nat : /\ Append(b, n) = b \o <<n>>
                                           /\ Append(b, n) \in Blocks
    /\ \A b, c \in Blocks : b \o c \in Blocks
    /\ \A b, c, d \in Blocks : (b \o c) \o d = b \o (c \o d)
<1> USE DEF Blocks
<1>1. << >> \in Blocks /\ \A n \in Nat : <<n>> \in Blocks
  OBVIOUS
<1>2. \A b \in Blocks : /\ Len(b) \in Nat
                        /\ SubSeq(b, 1, Len(b)) = b
                        /\ b \o << >> = b
                        /\ << >> \o b = b
                        /\ Len(b) = 0 <=> b = << >>
                        /\ \A n \in Nat : /\ Append(b, n) = b \o <<n>>
                                          /\ Append(b, n) \in Blocks
  BY SubSeqFull, ConcatEmptySeq, EmptySeq, LenProperties, AppendIsConcat,
     AppendProperties
<1>3. \A b, c \in Blocks : b \o c \in Blocks
  BY ConcatProperties
<1>4. \A b, c, d \in Blocks : (b \o c) \o d = b \o (c \o d)
  BY SMTT(30), ConcatAssociative
<1> QED
  BY <1>1, <1>2, <1>3, <1>4

LEMMA AppendBlock ==
    ASSUME NEW b \in Blocks, NEW n \in Nat
    PROVE  Append(b, n) = b \o <<n>> /\ Append(b, n) \in Blocks
BY AppendIsConcat, AppendProperties DEF Blocks

LEMMA ConcatBlocks ==
    ASSUME NEW b \in Blocks, NEW c \in Blocks, NEW d \in Blocks
    PROVE  (b \o c) \o d = b \o (c \o d)
BY SMTT(30), ConcatAssociative DEF Blocks

LEMMA BitFacts == \A b \in Bit : Flip(b) \in Bit /\ Flip(b) # b
BY DEF Bit, Flip

(* Cutting off the second part of a concatenation leaves the first.        *)
LEMMA CutConcat ==
    ASSUME NEW b \in Blocks, NEW c \in Blocks
    PROVE  SubSeq(b \o c, 1, Len(b \o c) - Len(c)) = b
<1> DEFINE d == SubSeq(b \o c, 1, Len(b))
<1>1. /\ b \o c \in Blocks
      /\ Len(b \o c) = Len(b) + Len(c)
      /\ Len(b) \in Nat /\ Len(c) \in Nat
      /\ \A i \in 1 .. Len(b) : (b \o c)[i] = b[i] /\ b[i] \in Nat
  BY ConcatProperties, LenProperties, ElementOfSeq DEF Blocks
<1>2. /\ d \in Seq(Nat)
      /\ Len(d) = Len(b)
      /\ \A i \in 1 .. Len(b) : d[i] = b[i]
  BY <1>1, SubSeqProperties
<1>3. d = b
  BY <1>2, SeqEqual DEF Blocks
<1> QED
  BY <1>1, <1>3

-----------------------------------------------------------------------------
(* Steps of one side.                                                      *)

(* What TypeOK says of the variables the channel invariant speaks of.      *)
LEMMA ChannelTypes ==
    ASSUME TypeOK
    PROVE  \A s \in Sides :
              /\ message[s] \in Blocks /\ reliable_buf[s] \in Blocks
              /\ written[s] \in Blocks /\ delivered[s] \in Blocks
              /\ reliable_length[s] \in Nat
              /\ reliable_sequence[s] \in Bit
              /\ incoming_reliable_sequence[s] \in Bit
              /\ incoming_reliable_acknowledged[s] \in Bit
              /\ last_reliable_sequence[s] \in Nat
              /\ outgoing_sequence[s] \in Nat
              /\ incoming_sequence[s] \in Nat
              /\ incoming_acknowledged[s] \in Nat
BY DEF TypeOK

(* The sender's reliable message is fresh exactly when nothing of it is    *)
(* outstanding, and a resent one is whole.                                 *)
LEMMA SendFacts ==
    ASSUME TypeOK, ChannelInv, NEW s \in Sides, NEW msg \in Blocks,
           Send(s, msg)
    PROVE  /\ TakesMessage(s, msg) => ~Outstanding(s)
           /\ RemoteDropped(s) => /\ Outstanding(s)
                                  /\ reliable_length[s] = Len(reliable_buf[s])
                                  /\ ~TakesMessage(s, msg)
                                  /\ last_reliable_sequence[s]
                                        <= incoming_sequence[Peer(s)]
<1>1. TakesMessage(s, msg) => ~Outstanding(s)
  BY DEF TakesMessage, ChannelInv, Buffering
<1>2. RemoteDropped(s) => Outstanding(s)
  BY ChannelTypes DEF RemoteDropped, ChannelInv, Acknowledgements, Truthful
<1>3. RemoteDropped(s) => last_reliable_sequence[s] <= incoming_sequence[Peer(s)]
  BY ChannelTypes, PeerFacts DEF RemoteDropped, ChannelInv, Numbering
<1> QED
  BY <1>1, <1>2, <1>3 DEF ChannelInv, Buffering

(* The packet a transmission adds, in the terms the invariant uses.        *)
LEMMA SendPacket ==
    ASSUME TypeOK, ChannelInv, NEW s \in Sides, NEW msg \in Blocks,
           Send(s, msg)
    PROVE  \E m \in Packet :
              /\ net' = net \cup {m}
              /\ m.from = s
              /\ m.sequence = outgoing_sequence[s]
              /\ m.ack = incoming_sequence[s]
              /\ m.reliable_ack = incoming_reliable_sequence[s]
              /\ m.reliable <=> TakesMessage(s, msg) \/ RemoteDropped(s)
              /\ m.reliable => m.data = reliable_buf'[s]
              /\ ~m.reliable => m.data = << >>
<1> DEFINE fresh == TakesMessage(s, msg)
           buf == IF fresh THEN msg ELSE reliable_buf[s]
           length == IF fresh THEN Len(msg) ELSE reliable_length[s]
           rel == fresh \/ RemoteDropped(s)
           data == IF rel THEN SubSeq(buf, 1, length) ELSE << >>
           m == [from |-> s, sequence |-> outgoing_sequence[s],
                 reliable |-> rel, ack |-> incoming_sequence[s],
                 reliable_ack |-> incoming_reliable_sequence[s],
                 data |-> data]
<1>1. net' = net \cup {m} /\ reliable_buf'[s] = buf
  BY DEF Send, TypeOK
<1>2. rel => data = buf
  <2>1. rel => length = Len(buf)
    BY SendFacts
  <2>2. buf \in Blocks
    BY ChannelTypes
  <2> QED
    BY <2>1, <2>2, BlocksFacts
<1>3. m \in Packet
  <2>1. buf \in Blocks /\ data \in Blocks
    BY <1>2, ChannelTypes, BlocksFacts
  <2> QED
    BY <2>1, ChannelTypes DEF Packet
<1> QED
  BY <1>1, <1>2, <1>3

(* Netchan_Transmit keeps the channel consistent.                          *)
LEMMA SendKeepsChannel ==
    ASSUME TypeOK, ChannelInv, TypeOK',
           NEW s \in Sides, NEW msg \in Blocks, Send(s, msg),
           UNCHANGED <<incoming_sequence, incoming_acknowledged,
                       incoming_reliable_acknowledged,
                       incoming_reliable_sequence>>
    PROVE  ChannelInv'
<1> DEFINE p == Peer(s)
           fresh == TakesMessage(s, msg)
<1> PICK m \in Packet : /\ net' = net \cup {m}
                        /\ m.from = s
                        /\ m.sequence = outgoing_sequence[s]
                        /\ m.ack = incoming_sequence[s]
                        /\ m.reliable_ack = incoming_reliable_sequence[s]
                        /\ m.reliable <=> fresh \/ RemoteDropped(s)
                        /\ m.reliable => m.data = reliable_buf'[s]
                        /\ ~m.reliable => m.data = << >>
  BY SendPacket
<1>p. /\ p \in Sides /\ p # s /\ Peer(p) = s
      /\ \A q \in Sides : q = s \/ q = p
  BY PeerFacts
<1>u. /\ outgoing_sequence'[s] = outgoing_sequence[s] + 1
      /\ outgoing_sequence'[p] = outgoing_sequence[p]
      /\ reliable_sequence'[p] = reliable_sequence[p]
      /\ reliable_length'[p] = reliable_length[p]
      /\ reliable_buf'[p] = reliable_buf[p]
      /\ last_reliable_sequence'[p] = last_reliable_sequence[p]
      /\ reliable_sequence'[s] = IF fresh THEN Flip(reliable_sequence[s])
                                          ELSE reliable_sequence[s]
      /\ reliable_buf'[s] = IF fresh THEN msg ELSE reliable_buf[s]
      /\ reliable_length'[s] = IF fresh THEN Len(msg) ELSE reliable_length[s]
      /\ last_reliable_sequence'[s] = IF m.reliable
                                        THEN outgoing_sequence[s] + 1
                                        ELSE last_reliable_sequence[s]
  BY <1>p DEF Send, TypeOK
<1>t. /\ \A q \in Sides : /\ incoming_sequence[q] \in Nat
                          /\ outgoing_sequence[q] \in Nat
                          /\ last_reliable_sequence[q] \in Nat
                          /\ incoming_acknowledged[q] \in Nat
      /\ \A n \in net' : /\ n \in Packet /\ n.from \in Sides
                         /\ n.sequence \in Nat /\ n.ack \in Nat
  <2>1. net' \subseteq Packet
    BY DEF TypeOK
  <2> QED
    BY <2>1, ChannelTypes DEF Packet
<1>s. /\ fresh => ~Outstanding(s) /\ Outstanding(s)'
      /\ ~fresh => Outstanding(s)' = Outstanding(s)
      /\ Outstanding(p)' = Outstanding(p)
  <2>1. fresh => ~Outstanding(s)
    BY SendFacts
  <2> QED
    BY SMTT(30), <2>1, <1>u, <1>p, ChannelTypes DEF Outstanding, Flip, Bit
<1>i. /\ InFlightTo(s)' = InFlightTo(s)
      /\ InFlightTo(p)' \subseteq InFlightTo(p) \cup {m}
  BY <1>p DEF InFlightTo, Stale
<1>1. Numbering'
  <2>1. \A q \in Sides :
          /\ incoming_sequence'[Peer(q)] <= outgoing_sequence'[q]
          /\ incoming_acknowledged'[q] <= incoming_sequence'[Peer(q)]
    BY SMTT(30), <1>p, <1>u, <1>t DEF ChannelInv, Numbering
  <2>2. ASSUME NEW n \in net
        PROVE  /\ n.sequence < outgoing_sequence'[n.from]
               /\ n.ack <= incoming_sequence'[n.from]
    <3>1. /\ n.sequence < outgoing_sequence[n.from]
          /\ n.ack <= incoming_sequence[n.from]
      BY DEF ChannelInv, Numbering
    <3>2. /\ n.sequence \in Nat
          /\ n.from = s \/ n.from = p
      BY <1>t, <1>p
    <3> QED
      BY <3>1, <3>2, <1>p, <1>u, <1>t
  <2>3. /\ m.sequence < outgoing_sequence'[m.from]
        /\ m.ack <= incoming_sequence'[m.from]
    BY <1>u, <1>t
  <2> QED
    BY <2>1, <2>2, <2>3 DEF Numbering
<1>2. Buffering'
  <2>1. fresh => Len(msg) # 0
    BY BlocksFacts DEF TakesMessage
  <2> QED
    BY <2>1, <1>p, <1>u, <1>s DEF ChannelInv, Buffering
<1>3. OneCopy'
  <2>1. \A n \in net' : ~n.reliable => n.data = << >>
    BY DEF ChannelInv, OneCopy
  <2>2. ASSUME NEW n \in InFlightTo(p)', n.reliable
        PROVE  /\ Outstanding(s)'
               /\ n.sequence + 1 = last_reliable_sequence'[s]
               /\ n.data = reliable_buf'[s]
    <3>1. CASE n = m
      BY <3>1, <2>2, <1>u, <1>s, SendFacts
    <3>2. CASE n # m /\ ~m.reliable
      BY <3>2, <2>2, <1>i, <1>p, <1>u, <1>s DEF ChannelInv, OneCopy
    <3>3. CASE n # m /\ m.reliable
      <4>1. /\ Outstanding(s)
            /\ n.sequence + 1 = last_reliable_sequence[s]
            /\ ~Stale(p, n) /\ n \in net
        BY <3>3, <2>2, <1>i, <1>p DEF ChannelInv, OneCopy, InFlightTo
      <4>2. RemoteDropped(s) /\ last_reliable_sequence[s] <= incoming_sequence[p]
        BY <4>1, <3>3, SendFacts
      <4>3. /\ n.sequence \in Nat
            /\ incoming_sequence[p] \in Nat
            /\ n.sequence > incoming_sequence[p]
        BY <4>1, <1>t, <1>p DEF Stale
      <4> QED
        BY <4>1, <4>2, <4>3
    <3> QED
      BY <3>1, <3>2, <3>3
  <2>3. ASSUME NEW n \in InFlightTo(s)', n.reliable
        PROVE  /\ Outstanding(p)'
               /\ n.sequence + 1 = last_reliable_sequence'[p]
               /\ n.data = reliable_buf'[p]
    BY <2>3, <1>i, <1>p, <1>u, <1>s DEF ChannelInv, OneCopy
  <2> QED
    BY <2>1, <2>2, <2>3, <1>p DEF OneCopy
<1>4. Acknowledgements'
  <2>1. \A n \in InFlightTo(s) : n \in net /\ n.from = p
    BY DEF InFlightTo
  <2>2. ASSUME m.reliable, NEW ack \in Nat, ack <= incoming_sequence[p],
               NEW reliable_ack
        PROVE  Truthful(s, ack, reliable_ack)'
    BY <2>2, <1>p, <1>u, <1>t DEF Truthful, ChannelInv, Numbering
  <2>3. ASSUME NEW q \in Sides
        PROVE  Truthful(q, incoming_acknowledged[q],
                           incoming_reliable_acknowledged[q])'
    <3>1. Truthful(q, incoming_acknowledged[q],
                      incoming_reliable_acknowledged[q])
      BY DEF ChannelInv, Acknowledgements
    <3>2. incoming_acknowledged[q] \in Nat
          /\ incoming_acknowledged[q] <= incoming_sequence[Peer(q)]
      BY <1>t DEF ChannelInv, Numbering
    <3>3. CASE q = s /\ m.reliable
      BY <3>3, <3>2, <2>2
    <3>4. CASE q = s /\ ~m.reliable
      BY <3>4, <3>1, <1>u, <1>s DEF Truthful
    <3>5. CASE q = p
      BY <3>5, <3>1, <1>u, <1>s DEF Truthful
    <3> QED
      BY <3>3, <3>4, <3>5, <1>p
  <2>4. ASSUME NEW n \in InFlightTo(s)
        PROVE  /\ Truthful(s, n.ack, n.reliable_ack)'
               /\ n.reliable_ack = reliable_sequence'[s] => ~Outstanding(s)'
               /\ reliable_length'[s] = 0 =>
                     n.reliable_ack = reliable_sequence'[s]
    <3>1. /\ Truthful(s, n.ack, n.reliable_ack)
          /\ n.reliable_ack = reliable_sequence[s] => ~Outstanding(s)
          /\ reliable_length[s] = 0 => n.reliable_ack = reliable_sequence[s]
      BY DEF ChannelInv, Acknowledgements
    <3>2. n.ack \in Nat /\ n.ack <= incoming_sequence[p]
      BY <2>1, <1>t DEF ChannelInv, Numbering
    <3>3. Truthful(s, n.ack, n.reliable_ack)'
      <4>1. CASE m.reliable
        BY <4>1, <3>2, <2>2
      <4>2. CASE ~m.reliable
        BY <4>2, <3>1, <1>u, <1>s DEF Truthful
      <4> QED
        BY <4>1, <4>2
    <3>4. CASE fresh
      <4>1. n.reliable_ack = reliable_sequence[s]
        BY <3>4, <3>1 DEF TakesMessage
      <4>2. reliable_sequence'[s] # reliable_sequence[s] /\ Len(msg) # 0
        <5>1. reliable_sequence'[s] = 1 - reliable_sequence[s]
              /\ reliable_sequence[s] \in {0, 1}
          BY <3>4, <1>u, ChannelTypes DEF Flip, Bit
        <5>2. Len(msg) # 0
          BY <3>4, BlocksFacts DEF TakesMessage
        <5> QED
          BY <5>1, <5>2
      <4> QED
        BY <4>1, <4>2, <3>3, <3>4, <1>u
    <3>5. CASE ~fresh
      BY <3>5, <3>1, <3>3, <1>u, <1>s
    <3> QED
      BY <3>4, <3>5
  <2>5. ASSUME NEW n \in InFlightTo(p)'
        PROVE  /\ Truthful(p, n.ack, n.reliable_ack)'
               /\ n.reliable_ack = reliable_sequence'[p] => ~Outstanding(p)'
               /\ reliable_length'[p] = 0 =>
                     n.reliable_ack = reliable_sequence'[p]
    <3>1. CASE n = m
      BY <3>1, <1>p, <1>u, <1>s DEF Truthful, Outstanding, ChannelInv, Buffering
    <3>2. CASE n \in InFlightTo(p)
      BY <3>2, <1>p, <1>u, <1>s DEF Truthful, ChannelInv, Acknowledgements
    <3> QED
      BY <3>1, <3>2, <1>i
  <2> QED
    BY <2>3, <2>4, <2>5, <1>p, <1>i DEF Acknowledgements
<1>5. Persistent'
  <2>1. ASSUME NEW m1 \in InFlightTo(s), NEW m2 \in InFlightTo(s),
               m1.reliable_ack = reliable_sequence'[s],
               m1.sequence < m2.sequence
        PROVE  m2.reliable_ack = reliable_sequence'[s]
    <3>1. CASE fresh
      <4>1. m1.reliable_ack = reliable_sequence[s]
        BY <3>1 DEF TakesMessage, ChannelInv, Acknowledgements
      <4> QED
        BY SMTT(30), <4>1, <3>1, <2>1, <1>u, ChannelTypes DEF Flip, Bit
    <3>2. CASE ~fresh
      BY <3>2, <2>1, <1>u DEF ChannelInv, Persistent
    <3> QED
      BY <3>1, <3>2
  <2>2. ASSUME NEW m1 \in InFlightTo(p)', NEW m2 \in InFlightTo(p)',
               m1.reliable_ack = reliable_sequence'[p],
               m1.sequence < m2.sequence
        PROVE  m2.reliable_ack = reliable_sequence'[p]
    <3>1. CASE m2 # m /\ m1 # m
      BY <3>1, <2>2, <1>i, <1>p, <1>u DEF ChannelInv, Persistent
    <3>2. CASE m2 = m /\ m1 # m
      <4>1. ~Outstanding(p)
        BY <3>2, <2>2, <1>i, <1>p, <1>u DEF ChannelInv, Acknowledgements
      <4> QED
        BY <4>1, <3>2, <1>p, <1>u DEF Outstanding
    <3>3. CASE m1 = m
      <4>1. m2.sequence <= m.sequence
        BY <1>i, <1>p, <1>t DEF InFlightTo, ChannelInv, Numbering
      <4> QED
        BY <4>1, <3>3, <2>2, <1>t, <1>i DEF InFlightTo
    <3> QED
      BY <3>1, <3>2, <3>3
  <2> QED
    BY <2>1, <2>2, <1>p, <1>i DEF Persistent
<1> QED
  BY <1>1, <1>2, <1>3, <1>4, <1>5 DEF ChannelInv

(* Netchan_Process keeps the channel consistent; the server may at the     *)
(* same time raise its outgoing_sequence.                                  *)
LEMMA ProcessKeepsChannel ==
    ASSUME TypeOK, ChannelInv, TypeOK',
           NEW s \in Sides, NEW m \in net, Netchan_Process(s, m),
           \A q \in Sides : outgoing_sequence'[q] >= outgoing_sequence[q]
    PROVE  ChannelInv'
<1> DEFINE p == Peer(s)
<1>p. /\ p \in Sides /\ p # s /\ Peer(p) = s
      /\ \A q \in Sides : q = s \/ q = p
  BY PeerFacts
<1>m. /\ m.from = p /\ m \in InFlightTo(s)
      /\ m.sequence > incoming_sequence[s]
      /\ m.sequence \in Nat /\ m.ack \in Nat
  <2>1. m \in Packet
    BY DEF TypeOK
  <2> QED
    BY <2>1, ChannelTypes DEF Netchan_Process, InFlightTo, Stale, Packet
<1>u. /\ incoming_sequence'[s] = m.sequence
      /\ incoming_sequence'[p] = incoming_sequence[p]
      /\ incoming_acknowledged'[s] = m.ack
      /\ incoming_acknowledged'[p] = incoming_acknowledged[p]
      /\ incoming_reliable_acknowledged'[s] = m.reliable_ack
      /\ incoming_reliable_acknowledged'[p] = incoming_reliable_acknowledged[p]
      /\ reliable_length'[s] = IF Acknowledges(s, m) THEN 0
                                                     ELSE reliable_length[s]
      /\ reliable_length'[p] = reliable_length[p]
      /\ incoming_reliable_sequence'[s] =
            IF m.reliable THEN Flip(incoming_reliable_sequence[s])
                          ELSE incoming_reliable_sequence[s]
      /\ incoming_reliable_sequence'[p] = incoming_reliable_sequence[p]
      /\ UNCHANGED <<net, reliable_buf, reliable_sequence,
                     last_reliable_sequence>>
  BY <1>p DEF Netchan_Process, TypeOK
<1>t. /\ \A q \in Sides : /\ incoming_sequence[q] \in Nat
                          /\ outgoing_sequence[q] \in Nat
                          /\ outgoing_sequence'[q] \in Nat
                          /\ last_reliable_sequence[q] \in Nat
                          /\ incoming_acknowledged[q] \in Nat
      /\ \A n \in net : /\ n.from = s \/ n.from = p
                        /\ n.sequence \in Nat /\ n.ack \in Nat
  <2>1. net \subseteq Packet /\ outgoing_sequence' \in [Sides -> Nat]
    BY DEF TypeOK
  <2> QED
    BY <2>1, <1>p, ChannelTypes DEF Packet
<1>c. m.reliable => Outstanding(p) /\ m.sequence + 1 = last_reliable_sequence[p]
  BY <1>m, <1>p DEF ChannelInv, OneCopy
<1>s. /\ Outstanding(s)' = Outstanding(s)
      /\ m.reliable => ~Outstanding(p)'
      /\ ~m.reliable => Outstanding(p)' = Outstanding(p)
  <2>1. m.reliable => ~Outstanding(p)'
    <3>1. SUFFICES ASSUME m.reliable PROVE ~Outstanding(p)'
      OBVIOUS
    <3>2. /\ incoming_reliable_sequence[s] # reliable_sequence[p]
          /\ incoming_reliable_sequence[s] \in {0, 1}
          /\ reliable_sequence[p] \in {0, 1}
      BY <3>1, <1>c, <1>p, ChannelTypes DEF Outstanding, Bit
    <3> QED
      BY <3>1, <3>2, <1>u, <1>p DEF Outstanding, Flip
  <2> QED
    BY <2>1, <1>u, <1>p DEF Outstanding
<1>i. /\ InFlightTo(p)' = InFlightTo(p)
      /\ \A n \in InFlightTo(s)' : /\ n \in InFlightTo(s)
                                   /\ n.sequence > m.sequence
  <2>1. InFlightTo(p)' = InFlightTo(p)
    BY <1>u, <1>p DEF InFlightTo, Stale
  <2>2. ASSUME NEW n \in InFlightTo(s)'
        PROVE  n \in InFlightTo(s) /\ n.sequence > m.sequence
    <3>1. n \in net /\ n.from = p /\ ~(n.sequence <= m.sequence)
      BY <1>u DEF InFlightTo, Stale
    <3>2. n.sequence \in Nat /\ incoming_sequence[s] \in Nat
      BY <3>1, <1>t
    <3> QED
      BY <3>1, <3>2, <1>m DEF InFlightTo, Stale
  <2> QED
    BY <2>1, <2>2
<1>n. ASSUME NEW q \in Sides, NEW n \in InFlightTo(q)
      PROVE  /\ n \in net /\ n.from = Peer(q)
             /\ n.ack \in Nat /\ n.sequence \in Nat
             /\ n.ack <= incoming_sequence[Peer(q)]
  BY <1>t DEF InFlightTo, ChannelInv, Numbering
<1>1. Numbering'
  <2>1. m.sequence < outgoing_sequence[p] /\ m.ack <= incoming_sequence[p]
    BY <1>m DEF ChannelInv, Numbering
  <2>2. ASSUME NEW q \in Sides
        PROVE  /\ incoming_sequence'[Peer(q)] <= outgoing_sequence'[q]
               /\ incoming_acknowledged'[q] <= incoming_sequence'[Peer(q)]
    <3>1. /\ incoming_sequence[Peer(q)] <= outgoing_sequence[q]
          /\ incoming_acknowledged[q] <= incoming_sequence[Peer(q)]
      BY DEF ChannelInv, Numbering
    <3>2. CASE q = s
      BY <3>1, <3>2, <2>1, <1>u, <1>p, <1>t
    <3>3. CASE q = p
      BY <3>1, <3>3, <2>1, <1>u, <1>p, <1>t, <1>m
    <3> QED
      BY <3>2, <3>3, <1>p
  <2>3. ASSUME NEW n \in net
        PROVE  /\ n.sequence < outgoing_sequence'[n.from]
               /\ n.ack <= incoming_sequence'[n.from]
    <3>1. /\ n.sequence < outgoing_sequence[n.from]
          /\ n.ack <= incoming_sequence[n.from]
      BY DEF ChannelInv, Numbering
    <3> QED
      BY <3>1, <1>u, <1>p, <1>t, <1>m
  <2> QED
    BY <2>2, <2>3, <1>u DEF Numbering
<1>2. Buffering'
  <2>1. Acknowledges(s, m) => ~Outstanding(s)
    BY <1>m DEF Acknowledges, ChannelInv, Acknowledgements
  <2> QED
    BY <2>1, <1>u, <1>s, <1>p DEF ChannelInv, Buffering
<1>3. OneCopy'
  <2>1. \A n \in net' : ~n.reliable => n.data = << >>
    BY <1>u DEF ChannelInv, OneCopy
  <2>2. ASSUME NEW n \in InFlightTo(p)', n.reliable
        PROVE  /\ Outstanding(s)'
               /\ n.sequence + 1 = last_reliable_sequence'[s]
               /\ n.data = reliable_buf'[s]
    BY <2>2, <1>i, <1>p, <1>u, <1>s DEF ChannelInv, OneCopy
  <2>3. ASSUME NEW n \in InFlightTo(s)', n.reliable
        PROVE  /\ Outstanding(p)'
               /\ n.sequence + 1 = last_reliable_sequence'[p]
               /\ n.data = reliable_buf'[p]
    <3>1. /\ Outstanding(p)
          /\ n.sequence + 1 = last_reliable_sequence[p]
          /\ n.data = reliable_buf[p]
          /\ n.sequence \in Nat
          /\ n.sequence > m.sequence
      BY <2>3, <1>i, <1>p, <1>n DEF ChannelInv, OneCopy
    <3>2. ~m.reliable
      BY <3>1, <1>c, <1>m
    <3> QED
      BY <3>1, <3>2, <1>u, <1>s
  <2> QED
    BY <2>1, <2>2, <2>3, <1>p DEF OneCopy
<1>4. Acknowledgements'
  <2>1. /\ Truthful(s, incoming_acknowledged[s],
                       incoming_reliable_acknowledged[s])'
        /\ \A n \in InFlightTo(s) : Truthful(s, n.ack, n.reliable_ack)'
    <3>1. \A n \in InFlightTo(s) : Truthful(s, n.ack, n.reliable_ack)
      BY DEF ChannelInv, Acknowledgements
    <3> QED
      BY <3>1, <1>m, <1>u, <1>s DEF Truthful
  <2>2. ASSUME NEW ack \in Nat, NEW reliable_ack,
               ack <= incoming_sequence[s], Truthful(p, ack, reliable_ack)
        PROVE  Truthful(p, ack, reliable_ack)'
    <3>1. CASE m.reliable
      BY <3>1, <2>2, <1>c, <1>m, <1>u, <1>p, <1>t DEF Truthful
    <3>2. CASE ~m.reliable
      BY <3>2, <2>2, <1>u, <1>s DEF Truthful
    <3> QED
      BY <3>1, <3>2
  <2>3. Truthful(p, incoming_acknowledged[p],
                    incoming_reliable_acknowledged[p])'
    <3>1. /\ Truthful(p, incoming_acknowledged[p],
                         incoming_reliable_acknowledged[p])
          /\ incoming_acknowledged[p] \in Nat
          /\ incoming_acknowledged[p] <= incoming_sequence[s]
      BY <1>p, <1>t DEF ChannelInv, Acknowledgements, Numbering
    <3> QED
      BY <3>1, <2>2, <1>u
  <2>4. ASSUME NEW n \in InFlightTo(p)
        PROVE  /\ Truthful(p, n.ack, n.reliable_ack)'
               /\ n.reliable_ack = reliable_sequence'[p] => ~Outstanding(p)'
               /\ reliable_length'[p] = 0 =>
                     n.reliable_ack = reliable_sequence'[p]
    <3>1. /\ Truthful(p, n.ack, n.reliable_ack)
          /\ n.reliable_ack = reliable_sequence[p] => ~Outstanding(p)
          /\ reliable_length[p] = 0 => n.reliable_ack = reliable_sequence[p]
      BY <1>p DEF ChannelInv, Acknowledgements
    <3>2. Truthful(p, n.ack, n.reliable_ack)'
      BY <3>1, <2>2, <1>n, <1>p
    <3> QED
      BY <3>1, <3>2, <1>u, <1>s
  <2>5. ASSUME NEW n \in InFlightTo(s)'
        PROVE  /\ n.reliable_ack = reliable_sequence'[s] => ~Outstanding(s)'
               /\ reliable_length'[s] = 0 =>
                     n.reliable_ack = reliable_sequence'[s]
    <3>1. /\ n.reliable_ack = reliable_sequence[s] => ~Outstanding(s)
          /\ reliable_length[s] = 0 => n.reliable_ack = reliable_sequence[s]
      BY <1>i DEF ChannelInv, Acknowledgements
    <3>2. Acknowledges(s, m) => n.reliable_ack = reliable_sequence[s]
      BY <1>m, <1>i DEF Acknowledges, ChannelInv, Persistent
    <3> QED
      BY <3>1, <3>2, <1>u, <1>s
  <2> QED
    BY <2>1, <2>3, <2>4, <2>5, <1>i, <1>p DEF Acknowledgements
<1>5. Persistent'
  <2>1. \A n \in InFlightTo(s)' : n \in InFlightTo(s)
    BY <1>i
  <2> QED
    BY <2>1, <1>u, <1>i, <1>p DEF ChannelInv, Persistent
<1> QED
  BY <1>1, <1>2, <1>3, <1>4, <1>5 DEF ChannelInv

(* So does every step that touches neither acknowledgements nor packets.   *)
LEMMA IdleKeepsChannel ==
    ASSUME TypeOK, ChannelInv,
           \A q \in Sides : /\ outgoing_sequence'[q] \in Nat
                            /\ outgoing_sequence'[q] >= outgoing_sequence[q],
           UNCHANGED <<reliable_buf, reliable_length, reliable_sequence,
                       last_reliable_sequence, incoming_sequence,
                       incoming_acknowledged, incoming_reliable_acknowledged,
                       incoming_reliable_sequence, net>>
    PROVE  ChannelInv'
<1>1. /\ \A q \in Sides : /\ Outstanding(q)' = Outstanding(q)
                          /\ InFlightTo(q)' = InFlightTo(q)
      /\ \A q, ack, reliable_ack :
            q \in Sides =>
            Truthful(q, ack, reliable_ack)' = Truthful(q, ack, reliable_ack)
  BY PeerFacts DEF Outstanding, InFlightTo, Stale, Truthful
<1>2. Numbering'
  <2>1. ASSUME NEW n \in net
        PROVE  n.sequence < outgoing_sequence'[n.from]
    <3>1. n.from \in Sides /\ n.sequence \in Nat
      BY DEF TypeOK, Packet
    <3> QED
      BY <3>1, ChannelTypes DEF ChannelInv, Numbering
  <2> QED
    BY <2>1, ChannelTypes, PeerFacts DEF ChannelInv, Numbering
<1>3. Buffering' /\ OneCopy'
  BY <1>1, PeerFacts DEF ChannelInv, Buffering, OneCopy
<1>4. Acknowledgements' /\ Persistent'
  BY <1>1 DEF ChannelInv, Acknowledgements, Persistent
<1> QED
  BY <1>2, <1>3, <1>4 DEF ChannelInv

-----------------------------------------------------------------------------
(* The histories.                                                          *)

(* Emptying message removes exactly its blocks from the history.           *)
LEMMA WithoutMessageFacts ==
    ASSUME TypeOK, ExactlyOnce, NEW s \in Sides
    PROVE  /\ WithoutMessage(s) = delivered[Peer(s)] \o Pending(s)
           /\ WithoutMessage(s) \in Blocks
<1> DEFINE kept == delivered[Peer(s)] \o Pending(s)
<1>1. kept \in Blocks /\ message[s] \in Blocks
  BY ChannelTypes, PeerFacts, BlocksFacts DEF Pending
<1>2. written[s] = kept \o message[s]
  BY DEF ExactlyOnce
<1> QED
  BY <1>1, <1>2, CutConcat DEF WithoutMessage

(* Transmitting moves blocks from message to the transmit buffer and       *)
(* changes neither their order nor the other side's.                       *)
LEMMA SendHistory ==
    ASSUME TypeOK, ChannelInv, TypeOK',
           NEW s \in Sides, NEW msg \in Blocks, Send(s, msg),
           UNCHANGED <<incoming_reliable_sequence, delivered>>
    PROVE  /\ delivered'[Peer(s)] \o Pending(s)' \o message'[s]
                = delivered[Peer(s)] \o Pending(s) \o msg
           /\ Pending(Peer(s))' = Pending(Peer(s))
           /\ message'[Peer(s)] = message[Peer(s)]
<1> DEFINE p == Peer(s)
           fresh == TakesMessage(s, msg)
<1>p. p \in Sides /\ p # s /\ Peer(p) = s
  BY PeerFacts
<1>u. /\ reliable_sequence'[p] = reliable_sequence[p]
      /\ reliable_buf'[p] = reliable_buf[p]
      /\ message'[p] = message[p]
      /\ reliable_sequence'[s] = IF fresh THEN Flip(reliable_sequence[s])
                                          ELSE reliable_sequence[s]
      /\ reliable_buf'[s] = IF fresh THEN msg ELSE reliable_buf[s]
      /\ message'[s] = IF fresh THEN << >> ELSE msg
  BY <1>p DEF Send, TypeOK
<1>1. Pending(p)' = Pending(p)
  BY <1>u, <1>p DEF Pending, Outstanding
<1>2. CASE fresh
  <2>1. ~Outstanding(s)
    BY <1>2, SendFacts
  <2>2. Outstanding(s)'
    <3>1. /\ incoming_reliable_sequence[p] = reliable_sequence[s]
          /\ reliable_sequence[s] \in {0, 1}
      BY <2>1, ChannelTypes DEF Outstanding, Bit
    <3> QED
      BY <3>1, <1>2, <1>u DEF Outstanding, Flip
  <2>3. /\ Pending(s) = << >> /\ Pending(s)' = msg
        /\ message'[s] = << >>
    BY <2>1, <2>2, <1>2, <1>u DEF Pending
  <2>4. delivered[p] \in Blocks /\ delivered[p] \o msg \in Blocks
    BY <1>p, ChannelTypes, BlocksFacts
  <2> QED
    BY <2>3, <2>4, <1>1, <1>u, BlocksFacts
<1>3. CASE ~fresh
  BY <1>3, <1>1, <1>u DEF Pending, Outstanding
<1> QED
  BY <1>2, <1>3

(* Netchan_Process hands over what was pending, or nothing.                *)
LEMMA ProcessHistory ==
    ASSUME IInv, TypeOK', NEW s \in Sides, NEW m \in net, Netchan_Process(s, m)
    PROVE  ExactlyOnce'
<1> DEFINE p == Peer(s)
<1>0. TypeOK
  BY DEF IInv
<1>p. /\ p \in Sides /\ p # s /\ Peer(p) = s
      /\ \A q \in Sides : q = s \/ q = p
  BY PeerFacts
<1>u. /\ delivered'[s] = delivered[s] \o m.data
      /\ delivered'[p] = delivered[p]
      /\ incoming_reliable_sequence'[s] =
            IF m.reliable THEN Flip(incoming_reliable_sequence[s])
                          ELSE incoming_reliable_sequence[s]
      /\ incoming_reliable_sequence'[p] = incoming_reliable_sequence[p]
      /\ UNCHANGED <<reliable_buf, reliable_sequence, message, written>>
  <2> DEFINE bit == IF m.reliable THEN Flip(incoming_reliable_sequence[s])
                                  ELSE incoming_reliable_sequence[s]
  <2>1. /\ delivered' = [delivered EXCEPT ![s] = @ \o m.data]
        /\ incoming_reliable_sequence' =
              [incoming_reliable_sequence EXCEPT ![s] = bit]
        /\ UNCHANGED <<reliable_buf, reliable_sequence, message, written>>
    BY DEF Netchan_Process
  <2>2. /\ delivered \in [Sides -> Blocks]
        /\ incoming_reliable_sequence \in [Sides -> Bit]
    BY <1>0 DEF TypeOK
  <2>3. delivered'[s] = delivered[s] \o m.data /\ delivered'[p] = delivered[p]
    BY <1>p, <2>1, <2>2
  <2> HIDE DEF bit
  <2>4. /\ incoming_reliable_sequence'[s] = bit
        /\ incoming_reliable_sequence'[p] = incoming_reliable_sequence[p]
    BY <1>p, <2>1, <2>2
  <2> QED
    BY <2>1, <2>3, <2>4 DEF bit
<1>t. /\ delivered[s] \in Blocks /\ message[p] \in Blocks
      /\ reliable_buf[p] \in Blocks
  BY <1>p, ChannelTypes DEF IInv
<1>1. written'[s] = delivered'[p] \o Pending(s)' \o message'[s]
  BY <1>u, <1>p DEF IInv, ExactlyOnce, Pending, Outstanding
<1>2. delivered'[s] \o Pending(p)' = delivered[s] \o Pending(p)
  <2>1. CASE m.reliable
    <3>1. Outstanding(p) /\ m.data = reliable_buf[p]
      BY <2>1, <1>p
         DEF IInv, ChannelInv, OneCopy, InFlightTo, Netchan_Process
    <3>2. ~Outstanding(p)'
      <4>1. /\ incoming_reliable_sequence[s] # reliable_sequence[p]
            /\ incoming_reliable_sequence[s] \in {0, 1}
            /\ reliable_sequence[p] \in {0, 1}
        BY <3>1, <1>p, ChannelTypes DEF Outstanding, Bit, IInv
      <4> QED
        BY <4>1, <2>1, <1>u, <1>p DEF Outstanding, Flip
    <3>3. Pending(p) = reliable_buf[p] /\ Pending(p)' = << >>
      BY <3>1, <3>2 DEF Pending
    <3>4. delivered[s] \o reliable_buf[p] \in Blocks
      BY <1>t, BlocksFacts
    <3> QED
      BY <3>1, <3>3, <3>4, <1>u, BlocksFacts
  <2>2. CASE ~m.reliable
    <3>1. m.data = << >>
      BY <2>2 DEF IInv, ChannelInv, OneCopy
    <3>2. Pending(p)' = Pending(p)
      BY <2>2, <1>u, <1>p DEF Pending, Outstanding
    <3> QED
      BY <3>1, <3>2, <1>u, <1>t, BlocksFacts
  <2> QED
    BY <2>1, <2>2
<1>3. written'[p] = delivered'[s] \o Pending(p)' \o message'[p]
  BY <1>2, <1>u, <1>p DEF IInv, ExactlyOnce
<1> QED
  BY <1>1, <1>3, <1>p DEF ExactlyOnce

-----------------------------------------------------------------------------
(* Type correctness.                                                       *)

LEMMA SendTypes ==
    ASSUME TypeOK, ChannelInv, NEW s \in Sides, NEW msg \in Blocks,
           Send(s, msg)
    PROVE  /\ message' \in [Sides -> Blocks]
           /\ reliable_buf' \in [Sides -> Blocks]
           /\ reliable_length' \in [Sides -> Nat]
           /\ reliable_sequence' \in [Sides -> Bit]
           /\ last_reliable_sequence' \in [Sides -> Nat]
           /\ outgoing_sequence' \in [Sides -> Nat]
           /\ net' \in SUBSET Packet
<1>1. /\ Len(msg) \in Nat /\ << >> \in Blocks
      /\ Flip(reliable_sequence[s]) \in Bit
      /\ outgoing_sequence[s] + 1 \in Nat
  BY ChannelTypes, BlocksFacts, BitFacts
<1>2. net' \in SUBSET Packet
  BY SendPacket DEF TypeOK
<1>3. /\ message' \in [Sides -> Blocks]
      /\ reliable_buf' \in [Sides -> Blocks]
      /\ reliable_length' \in [Sides -> Nat]
  BY <1>1 DEF Send, TypeOK
<1>4. /\ reliable_sequence' \in [Sides -> Bit]
      /\ last_reliable_sequence' \in [Sides -> Nat]
      /\ outgoing_sequence' \in [Sides -> Nat]
  BY <1>1 DEF Send, TypeOK
<1> QED
  BY <1>2, <1>3, <1>4

LEMMA ProcessTypes ==
    ASSUME TypeOK, NEW s \in Sides, NEW m \in net, Netchan_Process(s, m),
           outgoing_sequence' \in [Sides -> Nat], send_message' \in BOOLEAN
    PROVE  TypeOK'
<1>1. m \in Packet
  BY DEF TypeOK
<1>2. /\ m.sequence \in Nat /\ m.ack \in Nat /\ m.reliable_ack \in Bit
      /\ delivered[s] \o m.data \in Blocks
      /\ Flip(incoming_reliable_sequence[s]) \in Bit
  <2>1. /\ m.sequence \in Nat /\ m.ack \in Nat /\ m.reliable_ack \in Bit
        /\ m.data \in Blocks
    BY <1>1 DEF Packet
  <2> QED
    BY <2>1, ChannelTypes, BlocksFacts, BitFacts
<1>3. /\ reliable_length' \in [Sides -> Nat]
      /\ incoming_sequence' \in [Sides -> Nat]
      /\ incoming_acknowledged' \in [Sides -> Nat]
  BY <1>2 DEF Netchan_Process, TypeOK
<1>4. /\ incoming_reliable_acknowledged' \in [Sides -> Bit]
      /\ incoming_reliable_sequence' \in [Sides -> Bit]
      /\ delivered' \in [Sides -> Blocks]
  BY <1>2 DEF Netchan_Process, TypeOK
<1> QED
  BY <1>3, <1>4 DEF Netchan_Process, TypeOK

LEMMA TypeStep ==
    ASSUME IInv, [Next]_vars
    PROVE  TypeOK'
<1>0. TypeOK /\ ChannelInv /\ ExactlyOnce
  BY DEF IInv
<1>1. ASSUME NEW s \in Sides, SZ_Write(s) PROVE TypeOK'
  <2>1. /\ writes[s] \in Nat /\ MaxWrites[s] \in Nat
        /\ writes[s] + 1 \in 0 .. MaxWrites[s]
    <3>1. writes[s] < MaxWrites[s]
      BY <1>1 DEF SZ_Write
    <3>2. writes[s] \in 0 .. MaxWrites[s] /\ MaxWrites[s] \in Nat
      BY <1>0 DEF TypeOK
    <3> QED
      BY ONLY <3>1, <3>2
  <2>2. /\ <<writes[s] + 1>> \in Blocks
        /\ Append(message[s], writes[s] + 1) \in Blocks
        /\ Append(written[s], writes[s] + 1) \in Blocks
        /\ Append(WithoutMessage(s), writes[s] + 1) \in Blocks
    <3>1. /\ message[s] \in Blocks /\ written[s] \in Blocks
          /\ WithoutMessage(s) \in Blocks
          /\ writes[s] + 1 \in Nat
      BY <1>0, <2>1, ChannelTypes, WithoutMessageFacts
    <3> QED
      BY <3>1, BlocksFacts
  <2>3. /\ message' \in [Sides -> Blocks]
        /\ overflowed' \in [Sides -> BOOLEAN]
        /\ written' \in [Sides -> Blocks]
        /\ \A q \in Sides : writes'[q] \in 0 .. MaxWrites[q]
    <3>1. /\ message' \in [Sides -> Blocks]
          /\ overflowed' \in [Sides -> BOOLEAN]
          /\ written' \in [Sides -> Blocks]
      BY <1>0, <1>1, <2>2 DEF SZ_Write, TypeOK
    <3>2. \A q \in Sides : writes'[q] \in 0 .. MaxWrites[q]
      BY SMTT(30), <1>0, <1>1, <2>1 DEF SZ_Write, TypeOK
    <3> QED
      BY <3>1, <3>2
  <2> QED
    BY <1>0, <1>1, <2>3 DEF SZ_Write, TypeOK
<1>2. ASSUME NEW s \in Sides, SZ_Clear(s) PROVE TypeOK'
  <2>1. << >> \in Blocks /\ WithoutMessage(s) \in Blocks
    BY <1>0, WithoutMessageFacts, BlocksFacts
  <2> QED
    BY <1>0, <1>2, <2>1 DEF SZ_Clear, TypeOK
<1>3. CASE CL_SendCmd
  <2>1. CASE ~overflowed[Client] /\ Send(Client, message[Client])
                /\ UNCHANGED <<overflowed, fatal_error, incoming_sequence,
                               incoming_acknowledged,
                               incoming_reliable_acknowledged,
                               incoming_reliable_sequence, history>>
    BY <1>0, <1>3, <2>1, SendTypes, ChannelTypes, PeerFacts
       DEF CL_SendCmd, TypeOK, history
  <2>2. CASE Overflowed(Client)
    BY <1>0, <1>3, <2>2, PeerFacts DEF CL_SendCmd, Overflowed, TypeOK, history
  <2> QED
    BY <1>3, <2>1, <2>2 DEF CL_SendCmd
<1>4. CASE CL_SkipCmd
  BY <1>0, <1>4, ChannelTypes, PeerFacts DEF CL_SkipCmd, TypeOK, history
<1>5. CASE SV_Reply
  <2>1. CASE ~overflowed[Server] /\ Send(Server, message[Server])
                /\ UNCHANGED <<overflowed, fatal_error, incoming_sequence,
                               incoming_acknowledged,
                               incoming_reliable_acknowledged,
                               incoming_reliable_sequence, history>>
    BY <1>0, <1>5, <2>1, SendTypes, ChannelTypes, PeerFacts
       DEF SV_Reply, TypeOK, history
  <2>2. CASE Overflowed(Server)
    BY <1>0, <1>5, <2>2, PeerFacts DEF SV_Reply, Overflowed, TypeOK, history
  <2> QED
    BY <1>5, <2>1, <2>2 DEF SV_Reply
<1>6. CASE SV_Choke
  BY <1>0, <1>6 DEF SV_Choke, TypeOK, channel, history
<1>7. CASE SV_DropOverflowed
  <2>1. /\ <<Disconnect>> \in Blocks
        /\ Append(WithoutMessage(Server), Disconnect) \in Blocks
    <3>1. WithoutMessage(Server) \in Blocks /\ Disconnect \in Nat
      BY <1>0, WithoutMessageFacts, PeerFacts DEF Disconnect
    <3> QED
      BY <3>1, BlocksFacts
  <2>2. CASE Send(Server, <<Disconnect>>) /\ UNCHANGED fatal_error
                /\ overflowed' = [overflowed EXCEPT ![Server] = FALSE]
    BY <1>0, <1>7, <2>1, <2>2, SendTypes, PeerFacts
       DEF SV_DropOverflowed, TypeOK
  <2>3. CASE /\ message' = [message EXCEPT ![Server] = <<Disconnect>>]
             /\ fatal_error' = [fatal_error EXCEPT ![Server] = TRUE]
             /\ UNCHANGED <<overflowed, reliable_buf, reliable_length,
                            reliable_sequence, last_reliable_sequence,
                            outgoing_sequence, net>>
    BY <1>0, <1>7, <2>1, <2>3, PeerFacts DEF SV_DropOverflowed, TypeOK
  <2> QED
    BY <1>7, <2>2, <2>3 DEF SV_DropOverflowed
<1>8. ASSUME NEW m \in net, CL_ReadPackets(m) PROVE TypeOK'
  BY <1>0, <1>8, ProcessTypes, PeerFacts DEF CL_ReadPackets, TypeOK
<1>9. ASSUME NEW m \in net, SV_ExecuteClientMessage(m) PROVE TypeOK'
  <2>1. /\ ReplySequence(m) \in Nat
        /\ Slipped(m) \in BOOLEAN
    BY <1>0, ChannelTypes, PeerFacts DEF ReplySequence, Slipped, TypeOK, Packet
  <2>2. /\ outgoing_sequence' \in [Sides -> Nat]
        /\ send_message' \in BOOLEAN
    BY <1>0, <1>9, <2>1 DEF SV_ExecuteClientMessage, TypeOK
  <2> QED
    BY <1>0, <1>9, <2>2, ProcessTypes, PeerFacts DEF SV_ExecuteClientMessage
<1>10. CASE UNCHANGED vars
  BY <1>0, <1>10 DEF vars, channel, history, TypeOK
<1>11. CASE SV_OverflowBackbuf
  BY <1>0, <1>11, BoundsAssumption, PeerFacts DEF SV_OverflowBackbuf, TypeOK
<1> QED
  BY <1>1, <1>2, <1>3, <1>4, <1>5, <1>6, <1>7, <1>8, <1>9, <1>10, <1>11
     DEF Next

-----------------------------------------------------------------------------
(* The inductive invariant.                                                *)

LEMMA ChannelStep ==
    ASSUME IInv, TypeOK', [Next]_vars
    PROVE  ChannelInv'
<1>0. TypeOK /\ ChannelInv /\ ExactlyOnce
  BY DEF IInv
<1>t. \A q \in Sides : outgoing_sequence'[q] \in Nat
  BY DEF TypeOK
<1>1. ASSUME NEW s \in Sides, SZ_Write(s) PROVE ChannelInv'
  BY <1>0, <1>1, <1>t, ChannelTypes, IdleKeepsChannel DEF SZ_Write
<1>2. ASSUME NEW s \in Sides, SZ_Clear(s) PROVE ChannelInv'
  BY <1>0, <1>2, <1>t, ChannelTypes, IdleKeepsChannel DEF SZ_Clear
<1>3. CASE CL_SendCmd
  <2>1. CASE /\ Send(Client, message[Client])
             /\ UNCHANGED <<incoming_sequence, incoming_acknowledged,
                            incoming_reliable_acknowledged,
                            incoming_reliable_sequence>>
    BY <1>0, <2>1, SendKeepsChannel, ChannelTypes, PeerFacts
  <2>2. CASE Overflowed(Client)
    BY <1>0, <2>2, <1>t, ChannelTypes, IdleKeepsChannel DEF Overflowed
  <2> QED
    BY <1>3, <2>1, <2>2 DEF CL_SendCmd
<1>4. CASE CL_SkipCmd
  <2>1. \A q \in Sides : outgoing_sequence'[q] >= outgoing_sequence[q]
    BY <1>0, <1>4 DEF CL_SkipCmd, TypeOK
  <2> QED
    BY <1>0, <1>4, <1>t, <2>1, IdleKeepsChannel DEF CL_SkipCmd
<1>5. CASE SV_Reply
  <2>1. CASE /\ Send(Server, message[Server])
             /\ UNCHANGED <<incoming_sequence, incoming_acknowledged,
                            incoming_reliable_acknowledged,
                            incoming_reliable_sequence>>
    BY <1>0, <2>1, SendKeepsChannel, ChannelTypes, PeerFacts
  <2>2. CASE /\ Overflowed(Server)
    BY <1>0, <2>2, <1>t, ChannelTypes, IdleKeepsChannel DEF Overflowed
  <2> QED
    BY <1>5, <2>1, <2>2 DEF SV_Reply
<1>6. CASE SV_Choke
  BY <1>0, <1>6, <1>t, ChannelTypes, IdleKeepsChannel DEF SV_Choke, channel
<1>7. CASE SV_DropOverflowed
  <2>1. <<Disconnect>> \in Blocks
    BY BlocksFacts DEF Disconnect
  <2>2. CASE Send(Server, <<Disconnect>>)
    BY <1>0, <1>7, <2>1, <2>2, SendKeepsChannel, PeerFacts
       DEF SV_DropOverflowed
  <2>3. CASE UNCHANGED <<reliable_buf, reliable_length, reliable_sequence,
                         last_reliable_sequence, outgoing_sequence, net>>
    BY <1>0, <1>7, <2>3, <1>t, ChannelTypes, IdleKeepsChannel
       DEF SV_DropOverflowed
  <2> QED
    BY <1>7, <2>2, <2>3 DEF SV_DropOverflowed
<1>8. ASSUME NEW m \in net, CL_ReadPackets(m) PROVE ChannelInv'
  <2>1. \A q \in Sides : outgoing_sequence'[q] >= outgoing_sequence[q]
    BY <1>0, <1>8, ChannelTypes DEF CL_ReadPackets
  <2> QED
    BY <1>0, <1>8, <2>1, ProcessKeepsChannel, PeerFacts DEF CL_ReadPackets
<1>9. ASSUME NEW m \in net, SV_ExecuteClientMessage(m) PROVE ChannelInv'
  <2>1. /\ ReplySequence(m) \in Nat
        /\ ReplySequence(m) >= outgoing_sequence[Server]
    BY <1>0, ChannelTypes, PeerFacts DEF ReplySequence, Slipped, TypeOK, Packet
  <2>2. \A q \in Sides : outgoing_sequence'[q] >= outgoing_sequence[q]
    BY <1>0, <1>9, <2>1, ChannelTypes DEF SV_ExecuteClientMessage, TypeOK
  <2> QED
    BY <1>0, <1>9, <2>2, ProcessKeepsChannel, PeerFacts
       DEF SV_ExecuteClientMessage
<1>10. CASE UNCHANGED vars
  BY <1>0, <1>10, <1>t, ChannelTypes, IdleKeepsChannel DEF vars, channel
<1>11. CASE SV_OverflowBackbuf
  BY <1>0, <1>11, <1>t, ChannelTypes, IdleKeepsChannel DEF SV_OverflowBackbuf
<1> QED
  BY <1>1, <1>2, <1>3, <1>4, <1>5, <1>6, <1>7, <1>8, <1>9, <1>10, <1>11
     DEF Next

LEMMA HistoryStep ==
    ASSUME IInv, TypeOK', [Next]_vars
    PROVE  ExactlyOnce'
<1>0. TypeOK /\ ChannelInv /\ ExactlyOnce
  BY DEF IInv
<1>e. \A s \in Sides :
        /\ delivered[Peer(s)] \in Blocks /\ Pending(s) \in Blocks
        /\ delivered[Peer(s)] \o Pending(s) \in Blocks
        /\ written[s] = delivered[Peer(s)] \o Pending(s) \o message[s]
  BY <1>0, ChannelTypes, PeerFacts, BlocksFacts DEF ExactlyOnce, Pending
<1>1. ASSUME NEW s \in Sides, SZ_Write(s) PROVE ExactlyOnce'
  <2> DEFINE block == writes[s] + 1
             sent == delivered[Peer(s)] \o Pending(s)
             fits == Len(message[s]) < MaxMessage
  <2>1. /\ \A q \in Sides : Pending(q)' = Pending(q)
        /\ UNCHANGED delivered
        /\ message'[s] = IF fits THEN Append(message[s], block) ELSE <<block>>
        /\ written'[s] = Append(IF fits THEN written[s] ELSE WithoutMessage(s),
                               block)
        /\ \A q \in Sides \ {s} : message'[q] = message[q]
                                /\ written'[q] = written[q]
    <3> DEFINE said == IF fits THEN Append(message[s], block) ELSE <<block>>
               all  == Append(IF fits THEN written[s] ELSE WithoutMessage(s),
                              block)
    <3>1. /\ message' = [message EXCEPT ![s] = said]
          /\ written' = [written EXCEPT ![s] = all]
          /\ UNCHANGED <<delivered, reliable_buf, reliable_sequence,
                         incoming_reliable_acknowledged,
                         incoming_reliable_sequence>>
      BY <1>1 DEF SZ_Write
    <3>2. \A q \in Sides : Pending(q)' = Pending(q)
      BY <3>1 DEF Pending, Outstanding
    <3>3. message \in [Sides -> Blocks] /\ written \in [Sides -> Blocks]
      BY <1>0 DEF TypeOK
    <3> HIDE DEF said, all
    <3>4. /\ message'[s] = said /\ written'[s] = all
          /\ \A q \in Sides \ {s} : message'[q] = message[q]
                                  /\ written'[q] = written[q]
      BY <3>1, <3>3
    <3> QED
      BY <3>1, <3>2, <3>4 DEF said, all
  <2>2. block \in Nat /\ message[s] \in Blocks /\ sent \in Blocks
    BY SMTT(30), <1>0, <1>e, ChannelTypes DEF TypeOK
  <2>3. written'[s] = sent \o message'[s]
    <3>1. CASE fits
      <4>1. written'[s] = (sent \o message[s]) \o <<block>>
        <5>1. written[s] = sent \o message[s] /\ written[s] \in Blocks
          BY <1>0, <1>e, ChannelTypes
        <5> QED
          BY <2>1, <2>2, <3>1, <5>1, AppendBlock
      <4>2. message'[s] = message[s] \o <<block>>
        BY <2>1, <2>2, <3>1, AppendBlock
      <4>3. <<block>> \in Blocks
        BY <2>2, BlocksFacts
      <4>4. (sent \o message[s]) \o <<block>> = sent \o (message[s] \o <<block>>)
        BY <4>3, <2>2, ConcatBlocks
      <4> QED
        BY <4>1, <4>2, <4>4, Zenon
    <3>2. CASE ~fits
      <4>1. WithoutMessage(s) = sent
        BY <1>0, WithoutMessageFacts
      <4> QED
        BY <3>2, <4>1, <2>1, <2>2, AppendBlock
    <3> QED
      BY <3>1, <3>2
  <2> QED
    BY <2>1, <2>3, <1>e DEF ExactlyOnce
<1>2. ASSUME NEW s \in Sides, SZ_Clear(s) PROVE ExactlyOnce'
  <2>1. /\ \A q \in Sides : Pending(q)' = Pending(q)
        /\ UNCHANGED delivered
        /\ message'[s] = << >>
        /\ written'[s] = delivered[Peer(s)] \o Pending(s)
        /\ \A q \in Sides \ {s} : message'[q] = message[q]
                                /\ written'[q] = written[q]
    BY <1>0, <1>2, WithoutMessageFacts
       DEF SZ_Clear, Pending, Outstanding, TypeOK
  <2>2. \A b \in Blocks : b \o << >> = b
    BY BlocksFacts
  <2>3. written'[s] = delivered'[Peer(s)] \o Pending(s)' \o message'[s]
    BY <2>1, <2>2, <1>e
  <2> QED
    BY <2>1, <2>3, <1>e DEF ExactlyOnce
<1>n. ASSUME NEW s \in Sides, NEW msg \in Blocks, Send(s, msg),
             UNCHANGED <<incoming_reliable_sequence, delivered>>,
             written'[s] = delivered[Peer(s)] \o Pending(s) \o msg,
             written'[Peer(s)] = written[Peer(s)]
      PROVE  ExactlyOnce'
  <2>1. /\ delivered'[Peer(s)] \o Pending(s)' \o message'[s]
              = delivered[Peer(s)] \o Pending(s) \o msg
        /\ Pending(Peer(s))' = Pending(Peer(s))
        /\ message'[Peer(s)] = message[Peer(s)]
    BY <1>0, <1>n, SendHistory
  <2> QED
    BY ZenonT(30), <2>1, <1>n, <1>e, PeerFacts DEF ExactlyOnce
<1>3. CASE CL_SendCmd
  <2>1. CASE /\ Send(Client, message[Client])
             /\ UNCHANGED <<incoming_reliable_sequence, delivered, written>>
    BY <1>0, <2>1, <1>n, <1>e, ChannelTypes, PeerFacts
  <2>2. CASE Overflowed(Client)
    BY <1>0, <2>2 DEF Overflowed, ExactlyOnce, Pending, Outstanding, history
  <2> QED
    BY <1>3, <2>1, <2>2 DEF CL_SendCmd, history
<1>4. CASE CL_SkipCmd
  BY <1>0, <1>4 DEF CL_SkipCmd, ExactlyOnce, Pending, Outstanding, history
<1>5. CASE SV_Reply
  <2>1. CASE /\ Send(Server, message[Server])
             /\ UNCHANGED <<incoming_reliable_sequence, delivered, written>>
    BY <1>0, <2>1, <1>n, <1>e, ChannelTypes, PeerFacts
  <2>2. CASE Overflowed(Server)
    BY <1>0, <2>2 DEF Overflowed, ExactlyOnce, Pending, Outstanding, history
  <2> QED
    BY <1>5, <2>1, <2>2 DEF SV_Reply, history
<1>6. CASE SV_Choke
  BY <1>0, <1>6
     DEF SV_Choke, ExactlyOnce, Pending, Outstanding, channel, history
<1>7. CASE SV_DropOverflowed
  <2>1. <<Disconnect>> \in Blocks
    BY BlocksFacts DEF Disconnect
  <2>2. written'[Server] =
          delivered[Peer(Server)] \o Pending(Server) \o <<Disconnect>>
    <3>1. written'[Server] = Append(WithoutMessage(Server), Disconnect)
      BY <1>0, <1>7, PeerFacts DEF SV_DropOverflowed, TypeOK
    <3>2. /\ WithoutMessage(Server) = delivered[Peer(Server)] \o Pending(Server)
          /\ WithoutMessage(Server) \in Blocks
      BY <1>0, WithoutMessageFacts, PeerFacts
    <3>3. Append(WithoutMessage(Server), Disconnect)
            = WithoutMessage(Server) \o <<Disconnect>>
      BY <3>2, AppendBlock DEF Disconnect
    <3> QED
      BY <3>1, <3>2, <3>3, Zenon
  <2>3. written'[Peer(Server)] = written[Peer(Server)]
    BY <1>0, <1>7, PeerFacts DEF SV_DropOverflowed, TypeOK
  <2>4. CASE Send(Server, <<Disconnect>>)
    BY <1>7, <1>n, <2>1, <2>2, <2>3, <2>4, PeerFacts DEF SV_DropOverflowed
  <2>5. CASE /\ message' = [message EXCEPT ![Server] = <<Disconnect>>]
             /\ UNCHANGED <<reliable_buf, reliable_sequence>>
    <3>1. /\ \A q \in Sides : Pending(q)' = Pending(q)
          /\ UNCHANGED delivered
          /\ message'[Server] = <<Disconnect>>
          /\ message'[Peer(Server)] = message[Peer(Server)]
      BY <1>0, <1>7, <2>5, PeerFacts
         DEF SV_DropOverflowed, Pending, Outstanding, TypeOK
    <3> SUFFICES ASSUME NEW q \in Sides
                 PROVE  written'[q] =
                            delivered'[Peer(q)] \o Pending(q)' \o message'[q]
      BY Zenon DEF ExactlyOnce
    <3>2. CASE q = Server
      BY <2>2, <3>1, <3>2, PeerFacts
    <3>3. CASE q = Peer(Server)
      <4>1. written[q] = delivered[Peer(q)] \o Pending(q) \o message[q]
        BY <1>e DEF ExactlyOnce
      <4> QED
        BY <2>3, <3>1, <3>3, <4>1, PeerFacts
    <3> QED
      BY <3>2, <3>3, PeerFacts
  <2> QED
    BY <1>7, <2>4, <2>5 DEF SV_DropOverflowed
<1>8. ASSUME NEW m \in net, CL_ReadPackets(m) PROVE ExactlyOnce'
  BY <1>8, ProcessHistory, PeerFacts DEF CL_ReadPackets
<1>9. ASSUME NEW m \in net, SV_ExecuteClientMessage(m) PROVE ExactlyOnce'
  BY <1>9, ProcessHistory, PeerFacts DEF SV_ExecuteClientMessage
<1>10. CASE UNCHANGED vars
  BY <1>0, <1>10
     DEF vars, ExactlyOnce, Pending, Outstanding, channel, history
<1>11. CASE SV_OverflowBackbuf
  BY <1>0, <1>11
     DEF SV_OverflowBackbuf, ExactlyOnce, Pending, Outstanding
<1> QED
  BY <1>1, <1>2, <1>3, <1>4, <1>5, <1>6, <1>7, <1>8, <1>9, <1>10, <1>11
     DEF Next

LEMMA InitIInv == Init => IInv
<1> SUFFICES ASSUME Init PROVE IInv
  OBVIOUS
<1>1. TypeOK
  <2>1. << >> \in Blocks /\ 0 \in Bit /\ net \in SUBSET Packet
    BY BlocksFacts DEF Bit, Init
  <2>2. \A s \in Sides : writes[s] \in 0 .. MaxWrites[s]
    BY DEF Init
  <2>3. /\ message \in [Sides -> Blocks] /\ reliable_buf \in [Sides -> Blocks]
        /\ written \in [Sides -> Blocks] /\ delivered \in [Sides -> Blocks]
        /\ dropcount \in 0 .. 2
    BY <2>1 DEF Init, Netchan_Setup
  <2> QED
    BY <2>1, <2>2, <2>3 DEF Init, Netchan_Setup, TypeOK
<1>2. \A s \in Sides : /\ ~Outstanding(s) /\ Pending(s) = << >>
                      /\ InFlightTo(s) = {}
  BY PeerFacts DEF Init, Netchan_Setup, Outstanding, Pending, InFlightTo
<1>3. Numbering /\ Buffering /\ OneCopy
  BY <1>2, PeerFacts DEF Init, Netchan_Setup, Numbering, Buffering, OneCopy
<1>4. Acknowledgements /\ Persistent
  BY <1>2, PeerFacts
     DEF Init, Netchan_Setup, Acknowledgements, Persistent, Truthful
<1>5. ExactlyOnce
  BY <1>2, PeerFacts, BlocksFacts DEF Init, Netchan_Setup, ExactlyOnce
<1> QED
  BY <1>1, <1>3, <1>4, <1>5 DEF IInv, ChannelInv

(* The channel, its packets in flight and the two histories always agree:  *)
(* the invariant from which the other theorems follow.                     *)
THEOREM Invariant == Spec => []IInv
<1>1. Init => IInv
  BY InitIInv
<1>2. IInv /\ [Next]_vars => IInv'
  BY TypeStep, ChannelStep, HistoryStep DEF IInv
<1> QED
  BY <1>1, <1>2, PTL DEF Spec

(* Every field of both netchan_t keeps its type: the parities stay bits,   *)
(* the payload of a packet is a sequence of blocks.                        *)
THEOREM TypeCorrect == Spec => []TypeOK
<1>1. IInv => TypeOK
  BY DEF IInv
<1> QED
  BY <1>1, Invariant, PTL

(* Netchan_Transmit and Netchan_Process deliver every reliable block       *)
(* exactly once and in order under any loss, duplication and reordering,   *)
(* for every buffer size and any number of packets.                        *)
THEOREM ExactlyOnceDelivery == Spec => []ExactlyOnce
<1>1. IInv => ExactlyOnce
  BY DEF IInv
<1> QED
  BY <1>1, Invariant, PTL

(* A reliable message is sent again only when the other side lacks it and  *)
(* can no longer accept an earlier copy.                                   *)
THEOREM Retransmission == Spec => NoNeedlessResend
<1> DEFINE A == \A s \in Sides : Resends(s) =>
                  /\ Outstanding(s)
                  /\ incoming_sequence[Peer(s)] >= last_reliable_sequence[s]
<1>1. IInv /\ [Next]_vars => A
  <2> SUFFICES ASSUME IInv, [Next]_vars, NEW s \in Sides, Resends(s)
               PROVE  /\ Outstanding(s)
                      /\ incoming_sequence[Peer(s)]
                            >= last_reliable_sequence[s]
    OBVIOUS
  <2>0. TypeOK /\ ChannelInv
    BY DEF IInv
  <2>1. ASSUME NEW q \in Sides, NEW msg \in Blocks, Send(q, msg)
        PROVE  /\ Outstanding(s)
               /\ incoming_sequence[Peer(s)] >= last_reliable_sequence[s]
    <3>1. q = s
      BY <2>0, <2>1 DEF Send, Resends, TypeOK
    <3>2. RemoteDropped(s)
      <4>1. ~TakesMessage(s, msg)
        <5>1. reliable_sequence[s] \in Bit
          BY <2>0, ChannelTypes
        <5> QED
          BY <5>1, <2>0, <2>1, <3>1, BitFacts DEF Send, Resends, TypeOK
      <4> QED
        BY <4>1, <2>0, <2>1, <3>1 DEF Send, Resends, TypeOK
    <3> QED
      BY <2>0, <2>1, <3>1, <3>2, SendFacts, ChannelTypes, PeerFacts
  <2>2. \E q \in Sides, msg \in Blocks : Send(q, msg)
    <3>1. last_reliable_sequence' # last_reliable_sequence
      BY DEF Resends
    <3>2. CL_SendCmd \/ SV_Reply \/ SV_DropOverflowed
      BY <3>1 DEF Next, vars, channel, SZ_Write, SZ_Clear, CL_SkipCmd,
         SV_Choke, SV_OverflowBackbuf, CL_ReadPackets, SV_ExecuteClientMessage, Netchan_Process
    <3>3. <<Disconnect>> \in Blocks
      BY BlocksFacts DEF Disconnect
    <3> QED
      BY <3>1, <3>2, <3>3, <2>0, ChannelTypes, PeerFacts
         DEF CL_SendCmd, Overflowed, SV_Reply, SV_DropOverflowed
  <2> QED
    BY <2>1, <2>2
<1> QED
  BY <1>1, Invariant, PTL DEF Spec, NoNeedlessResend

-----------------------------------------------------------------------------
(***************************************************************************)
(* Two more groups of theorems, on top of IInv: the numbers of the         *)
(* packets, and the refinement of ReliableStream in each direction.        *)
(***************************************************************************)

(* Only the three transmitting actions add packets or move the numbers of  *)
(* the server, apart from SV_ExecuteClientMessage.                         *)
LEMMA TransmitStep ==
    ASSUME IInv, PacketInv, TypeOK', NEW s \in Sides, NEW msg \in Blocks,
           Send(s, msg), UNCHANGED incoming_sequence,
           s = Server => /\ ~send_message'
                         /\ send_message \/ dropped',
           s = Client => UNCHANGED send_message,
           dropped => dropped'
    PROVE  PacketInv'
<1>0. TypeOK /\ ChannelInv /\ SequenceNamesPacket /\ AnswersInStep /\ InStep
  BY DEF IInv, PacketInv
<1>1. PICK m \in Packet : /\ net' = net \cup {m}
                          /\ m.from = s
                          /\ m.sequence = outgoing_sequence[s]
                          /\ m.ack = incoming_sequence[s]
  BY <1>0, SendPacket
<1>2. SequenceNamesPacket'
  <2>1. \A n \in net : n.from = s => n.sequence # m.sequence
    BY <1>0, <1>1, ChannelTypes DEF ChannelInv, Numbering, TypeOK, Packet
  <2> QED
    BY <1>0, <1>1, <2>1 DEF SequenceNamesPacket
<1>3. outgoing_sequence' = [outgoing_sequence EXCEPT ![s] = @ + 1]
  BY DEF Send
<1>4. AnswersInStep'
  <2>1. \A n \in OutOfStep : dropped' /\ n.sequence > n.ack
    BY <1>0 DEF AnswersInStep
  <2>2. m \in OutOfStep' => dropped' /\ m.sequence > m.ack
    BY <1>0, <1>1, ChannelTypes, PeerFacts DEF OutOfStep, InStep
  <2> QED
    BY <1>1, <2>1, <2>2 DEF AnswersInStep, OutOfStep
<1>5. InStep'
  <2>1. CASE s = Server
    BY <1>0, <1>3, <2>1, ChannelTypes, PeerFacts DEF InStep, TypeOK
  <2>2. CASE s = Client
    BY <1>0, <1>3, <2>2, PeerFacts DEF InStep, TypeOK
  <2> QED
    BY <2>1, <2>2, PeerFacts
<1> QED
  BY <1>2, <1>4, <1>5 DEF PacketInv

LEMMA PacketStep ==
    ASSUME IInv, TypeOK', PacketInv, [Next]_vars
    PROVE  PacketInv'
<1>0. /\ TypeOK /\ ChannelInv
      /\ SequenceNamesPacket /\ AnswersInStep /\ InStep
  BY DEF IInv, PacketInv
<1>i. ASSUME UNCHANGED <<net, dropped, send_message, incoming_sequence>>,
             outgoing_sequence'[Server] = outgoing_sequence[Server]
      PROVE  PacketInv'
  BY <1>0, <1>i
     DEF PacketInv, SequenceNamesPacket, AnswersInStep, OutOfStep, InStep
<1>1. ASSUME NEW s \in Sides, SZ_Write(s) PROVE PacketInv'
  BY <1>1, <1>i DEF SZ_Write
<1>2. ASSUME NEW s \in Sides, SZ_Clear(s) PROVE PacketInv'
  BY <1>2, <1>i DEF SZ_Clear
<1>3. CASE CL_SendCmd
  <2>1. CASE Send(Client, message[Client]) /\ UNCHANGED incoming_sequence
    BY <1>0, <1>3, <2>1, TransmitStep, ChannelTypes, PeerFacts, SidesDiffer
       DEF CL_SendCmd
  <2>2. CASE Overflowed(Client)
    BY <1>3, <2>2, <1>i DEF CL_SendCmd, Overflowed
  <2> QED
    BY <1>3, <2>1, <2>2 DEF CL_SendCmd
<1>4. CASE CL_SkipCmd
  <2>1. outgoing_sequence'[Server] = outgoing_sequence[Server]
    BY <1>0, <1>4, SidesDiffer, PeerFacts DEF CL_SkipCmd, TypeOK
  <2> QED
    BY <1>4, <1>i, <2>1 DEF CL_SkipCmd
<1>5. CASE SV_Reply
  <2>1. CASE Send(Server, message[Server]) /\ UNCHANGED incoming_sequence
    BY <1>0, <1>5, <2>1, TransmitStep, ChannelTypes, PeerFacts, SidesDiffer
       DEF SV_Reply
  <2>2. CASE Overflowed(Server)
    BY <1>0, <1>5, <2>2 DEF SV_Reply, Overflowed, PacketInv,
       SequenceNamesPacket, AnswersInStep, OutOfStep, InStep
  <2> QED
    BY <1>5, <2>1, <2>2 DEF SV_Reply
<1>6. CASE SV_Choke
  BY <1>0, <1>6 DEF SV_Choke, channel, PacketInv,
     SequenceNamesPacket, AnswersInStep, OutOfStep, InStep
<1>7. CASE SV_DropOverflowed
  <2>1. CASE Send(Server, <<Disconnect>>)
    <3>1. <<Disconnect>> \in Blocks
      BY BlocksFacts DEF Disconnect
    <3> QED
      BY <3>1, <1>7, <2>1, TransmitStep, PeerFacts, SidesDiffer
         DEF SV_DropOverflowed
  <2>2. CASE UNCHANGED <<outgoing_sequence, net>>
    BY <1>0, <1>7, <2>2 DEF SV_DropOverflowed, PacketInv,
       SequenceNamesPacket, AnswersInStep, OutOfStep, InStep
  <2> QED
    BY <1>7, <2>1, <2>2 DEF SV_DropOverflowed
<1>8. ASSUME NEW m \in net, CL_ReadPackets(m) PROVE PacketInv'
  <2>1. incoming_sequence'[Server] = incoming_sequence[Server]
    BY <1>0, <1>8, SidesDiffer, PeerFacts
       DEF CL_ReadPackets, Netchan_Process, TypeOK
  <2> QED
    BY <1>0, <1>8, <2>1 DEF CL_ReadPackets, Netchan_Process, PacketInv,
       SequenceNamesPacket, AnswersInStep, OutOfStep, InStep
<1>9. ASSUME NEW m \in net, SV_ExecuteClientMessage(m) PROVE PacketInv'
  <2>1. /\ incoming_sequence'[Server] = m.sequence
        /\ outgoing_sequence'[Server] = ReplySequence(m)
        /\ send_message' = ~Slipped(m)
        /\ UNCHANGED <<net, dropped>>
    BY <1>0, <1>9, PeerFacts
       DEF SV_ExecuteClientMessage, Netchan_Process, TypeOK
  <2>2. m.sequence \in Nat /\ outgoing_sequence[Server] \in Nat
    BY <1>0, ChannelTypes, PeerFacts DEF TypeOK, Packet
  <2>3. InStep'
    <3>1. send_message' => ~Slipped(m)
      BY <2>1
    <3>2. CASE Slipped(m)
      <4>1. /\ outgoing_sequence'[Server] = outgoing_sequence[Server]
            /\ m.sequence < outgoing_sequence[Server]
        BY <2>1, <3>2 DEF ReplySequence, Slipped
      <4> QED
        BY <2>1, <2>2, <3>1, <3>2, <4>1 DEF InStep
    <3>3. CASE ~Slipped(m)
      <4>1. outgoing_sequence'[Server] = m.sequence
        BY <2>1, <3>3 DEF ReplySequence
      <4> QED
        BY <2>1, <2>2, <4>1 DEF InStep
    <3> QED
      BY <3>2, <3>3
  <2> QED
    BY <1>0, <2>1, <2>3
       DEF PacketInv, SequenceNamesPacket, AnswersInStep, OutOfStep
<1>10. CASE UNCHANGED vars
  BY <1>10, <1>i DEF vars, channel
<1>11. CASE SV_OverflowBackbuf
  BY <1>11, <1>i DEF SV_OverflowBackbuf
<1> QED
  BY <1>1, <1>2, <1>3, <1>4, <1>5, <1>6, <1>7, <1>8, <1>9, <1>10, <1>11
     DEF Next

(* SV_ExecuteClientMessage keeps the numbers of the two sides in step: none *)
(* names two packets of one side, and answers match what they answer.      *)
THEOREM PacketInvariant == Spec => []PacketInv
<1>1. Init => PacketInv
  BY PeerFacts DEF Init, Netchan_Setup, PacketInv, SequenceNamesPacket,
     AnswersInStep, OutOfStep, InStep
<1>2. IInv /\ IInv' /\ PacketInv /\ [Next]_vars => PacketInv'
  BY PacketStep DEF IInv
<1> QED
  BY <1>1, <1>2, Invariant, PTL DEF Spec

(* However SV_ExecuteClientMessage sets outgoing_sequence by hand, one     *)
(* number never names two packets of one side.                             *)
THEOREM UniqueNumbers == Spec => []SequenceNamesPacket
<1>1. PacketInv => SequenceNamesPacket
  BY DEF PacketInv
<1> QED
  BY <1>1, PacketInvariant, PTL

(* A server packet carries the number of the client packet it answers,     *)
(* unless it announces that the client has been dropped.                   *)
THEOREM AnswersMatch == Spec => []AnswersInStep
<1>1. PacketInv => AnswersInStep
  BY DEF PacketInv
<1> QED
  BY <1>1, PacketInvariant, PTL

-----------------------------------------------------------------------------
(* The refinement of ReliableStream.  StreamStep(s) is a step of it for    *)
(* the blocks that s writes.                                               *)

Keepable(s) == Len(delivered[Peer(s)]) .. Len(written[s])

StreamStep(s) ==
    \/ /\ \E n \in Keepable(s), b \in 0 .. MaxWrites[s] :
             written'[s] = Append(SubSeq(written[s], 1, n), b)
       /\ delivered'[Peer(s)] = delivered[Peer(s)]
    \/ /\ \E n \in Keepable(s) : written'[s] = SubSeq(written[s], 1, n)
       /\ delivered'[Peer(s)] = delivered[Peer(s)]
    \/ /\ \E n \in Keepable(s) :
             delivered'[Peer(s)] = SubSeq(written[s], 1, n)
       /\ written'[s] = written[s]
    \/ /\ written'[s] = written[s]
       /\ delivered'[Peer(s)] = delivered[Peer(s)]

LEMMA ConcatPrefix ==
    ASSUME NEW b \in Blocks, NEW c \in Blocks
    PROVE  /\ SubSeq(b \o c, 1, Len(b)) = b
           /\ Len(b) \in 0 .. Len(b \o c)
<1>1. /\ b \in Seq(Nat) /\ c \in Seq(Nat)
      /\ Len(b \o c) = Len(b) + Len(c)
      /\ Len(b) \in Nat /\ Len(c) \in Nat
  BY DEF Blocks
<1>2. Len(b \o c) - Len(c) = Len(b) /\ Len(b) \in 0 .. Len(b \o c)
  BY <1>1
<1> QED
  BY <1>2, CutConcat

(* The blocks that survive when message is thrown away.                    *)
LEMMA RevokeKeeps ==
    ASSUME IInv, NEW s \in Sides
    PROVE  /\ Len(written[s]) - Len(message[s]) \in Keepable(s)
           /\ WithoutMessage(s)
                = SubSeq(written[s], 1, Len(written[s]) - Len(message[s]))
           /\ Len(written[s]) \in Keepable(s)
           /\ SubSeq(written[s], 1, Len(written[s])) = written[s]
<1>0. TypeOK /\ ExactlyOnce
  BY DEF IInv
<1>1. /\ delivered[Peer(s)] \in Blocks /\ Pending(s) \in Blocks
      /\ message[s] \in Blocks /\ written[s] \in Blocks
  BY <1>0, ChannelTypes, PeerFacts, BlocksFacts DEF Pending
<1>2. Len(written[s])
        = Len(delivered[Peer(s)]) + Len(Pending(s)) + Len(message[s])
  <2>1. written[s] = (delivered[Peer(s)] \o Pending(s)) \o message[s]
    BY <1>0 DEF ExactlyOnce
  <2>2. \A b, c \in Blocks : b \o c \in Blocks /\ Len(b \o c) = Len(b) + Len(c)
    BY DEF Blocks
  <2> QED
    BY <1>1, <2>1, <2>2
<1>3. /\ Len(delivered[Peer(s)]) \in Nat /\ Len(Pending(s)) \in Nat
      /\ Len(message[s]) \in Nat /\ Len(written[s]) \in Nat
  BY <1>1, BlocksFacts
<1>4. SubSeq(written[s], 1, Len(written[s])) = written[s]
  BY <1>1, BlocksFacts
<1>5. \A d, p, m, w \in Nat : w = d + p + m => w - m \in d .. w /\ w \in d .. w
  OBVIOUS
<1>6. /\ Len(written[s]) - Len(message[s]) \in Keepable(s)
      /\ Len(written[s]) \in Keepable(s)
  BY <1>2, <1>3, <1>5 DEF Keepable
<1> QED
  BY <1>4, <1>6 DEF WithoutMessage

LEMMA StreamStepHolds ==
    ASSUME IInv, IInv', [Next]_vars, NEW s \in Sides
    PROVE  StreamStep(s)
<1>0. TypeOK /\ ChannelInv /\ ExactlyOnce
  BY DEF IInv
<1>k. /\ Len(written[s]) - Len(message[s]) \in Keepable(s)
      /\ WithoutMessage(s)
           = SubSeq(written[s], 1, Len(written[s]) - Len(message[s]))
      /\ Len(written[s]) \in Keepable(s)
      /\ SubSeq(written[s], 1, Len(written[s])) = written[s]
  BY RevokeKeeps
<1>i. ASSUME UNCHANGED <<written, delivered>> PROVE StreamStep(s)
  BY <1>i DEF StreamStep
<1>1. ASSUME NEW q \in Sides, SZ_Write(q) PROVE StreamStep(s)
  <2>1. CASE q = s
    <3>1. writes[s] + 1 \in 0 .. MaxWrites[s]
      <4>1. /\ writes[s] \in 0 .. MaxWrites[s] /\ MaxWrites[s] \in Nat
            /\ writes[s] < MaxWrites[s]
        BY <1>0, <1>1, <2>1, BoundsAssumption DEF SZ_Write, TypeOK
      <4> QED
        BY <4>1
    <3>2. /\ \/ written'[s] = Append(written[s], writes[s] + 1)
             \/ written'[s] = Append(WithoutMessage(s), writes[s] + 1)
          /\ delivered' = delivered
      BY <1>0, <1>1, <2>1 DEF SZ_Write, TypeOK
    <3> QED
      BY <1>k, <3>1, <3>2 DEF StreamStep
  <2>2. CASE q # s
    BY <1>0, <1>1, <2>2 DEF SZ_Write, StreamStep, TypeOK
  <2> QED
    BY <2>1, <2>2
<1>2. ASSUME NEW q \in Sides, SZ_Clear(q) PROVE StreamStep(s)
  <2>1. /\ written'[s] = WithoutMessage(s) \/ written'[s] = written[s]
        /\ delivered' = delivered
    BY <1>0, <1>2 DEF SZ_Clear, TypeOK
  <2> QED
    BY <1>k, <2>1 DEF StreamStep
<1>3. CASE CL_SendCmd
  BY <1>3, <1>i DEF CL_SendCmd, Overflowed, history
<1>4. CASE CL_SkipCmd
  BY <1>4, <1>i DEF CL_SkipCmd, history
<1>5. CASE SV_Reply
  BY <1>5, <1>i DEF SV_Reply, Overflowed, history
<1>6. CASE SV_Choke
  BY <1>6, <1>i DEF SV_Choke, history
<1>7. CASE SV_DropOverflowed
  <2>1. 0 \in 0 .. MaxWrites[s]
    BY BoundsAssumption
  <2>2. /\ \/ written'[s] = Append(WithoutMessage(s), 0)
           \/ written'[s] = written[s]
        /\ delivered' = delivered
    BY <1>0, <1>7 DEF SV_DropOverflowed, TypeOK, Disconnect
  <2> QED
    BY <1>k, <2>1, <2>2 DEF StreamStep
<1>p. ASSUME NEW q \in Sides, NEW m \in net, Netchan_Process(q, m)
      PROVE  StreamStep(s)
  <2>1. written' = written
    BY <1>p DEF Netchan_Process
  <2>2. CASE q = s
    BY <1>0, <1>p, <2>1, <2>2, PeerFacts
       DEF Netchan_Process, StreamStep, TypeOK
  <2>3. CASE q = Peer(s)
    <3>1. /\ delivered'[q] \in Blocks /\ Pending(s)' \in Blocks
          /\ message'[s] \in Blocks
      <4>1. TypeOK'
        BY DEF IInv
      <4> QED
        BY <4>1, <2>3, PeerFacts, BlocksFacts DEF TypeOK, Pending
    <3>2. written[s] = (delivered'[q] \o Pending(s)') \o message'[s]
      BY <2>1, <2>3 DEF IInv, ExactlyOnce
    <3>3. /\ written[s] = delivered'[q] \o (Pending(s)' \o message'[s])
          /\ Pending(s)' \o message'[s] \in Blocks
      <4>1. \A b, c \in Blocks : b \o c \in Blocks
        BY BlocksFacts
      <4>2. \A b, c, d \in Blocks : (b \o c) \o d = b \o (c \o d)
        BY BlocksFacts
      <4> QED
        BY <3>1, <3>2, <4>1, <4>2
    <3>4. /\ SubSeq(written[s], 1, Len(delivered'[q])) = delivered'[q]
          /\ Len(delivered'[q]) \in 0 .. Len(written[s])
      BY <3>1, <3>3, ConcatPrefix
    <3>5. Len(delivered'[q]) >= Len(delivered[q])
      <4>1. /\ delivered'[q] = delivered[q] \o m.data
            /\ delivered[q] \in Seq(Nat) /\ m.data \in Seq(Nat)
        BY <1>0, <1>p, ChannelTypes
           DEF Netchan_Process, TypeOK, Packet, Blocks
      <4>2. /\ Len(delivered'[q]) = Len(delivered[q]) + Len(m.data)
            /\ Len(delivered[q]) \in Nat /\ Len(m.data) \in Nat
        BY <4>1
      <4>3. \A a, b \in Nat : a + b >= a
        OBVIOUS
      <4> QED
        BY <4>2, <4>3
    <3>6. Len(delivered'[q]) \in Keepable(s)
      <4>1. /\ Len(delivered[q]) \in Nat /\ Len(written[s]) \in Nat
            /\ Len(delivered'[q]) \in Nat
        BY <1>0, <3>1, ChannelTypes, BlocksFacts
      <4> QED
        BY <2>3, <3>4, <3>5, <4>1 DEF Keepable
    <3> QED
      BY <2>1, <2>3, <3>4, <3>6 DEF StreamStep
  <2> QED
    BY <2>2, <2>3, PeerFacts
<1>8. ASSUME NEW m \in net, CL_ReadPackets(m) PROVE StreamStep(s)
  BY <1>8, <1>p, PeerFacts DEF CL_ReadPackets
<1>9. ASSUME NEW m \in net, SV_ExecuteClientMessage(m) PROVE StreamStep(s)
  BY <1>9, <1>p, PeerFacts DEF SV_ExecuteClientMessage
<1>10. CASE UNCHANGED vars
  BY <1>10, <1>i DEF vars, history
<1>11. CASE SV_OverflowBackbuf
  BY <1>11, <1>i DEF SV_OverflowBackbuf
<1> QED
  BY <1>1, <1>2, <1>3, <1>4, <1>5, <1>6, <1>7, <1>8, <1>9, <1>10, <1>11
     DEF Next

(* What the client writes to its netchan reaches the server as the         *)
(* abstract stream promises: never altered, repeated or reordered.         *)
THEOREM ClientRefines == Spec => ClientToServer
<1>1. Init => ClientStream!Init
  BY PeerFacts DEF Init, ClientStream!Init
<1>2. IInv /\ IInv' /\ [Next]_vars =>
         [ClientStream!Next]_<<written[Client], delivered[Server]>>
  <2> SUFFICES ASSUME IInv, IInv', [Next]_vars
               PROVE  [ClientStream!Next]_<<written[Client],
                                            delivered[Server]>>
    OBVIOUS
  <2>1. StreamStep(Client) /\ Peer(Client) = Server
    BY StreamStepHolds, PeerFacts
  <2> QED
    BY <2>1 DEF StreamStep, Keepable, ClientStream!Next, ClientStream!Write,
       ClientStream!Revoke, ClientStream!Deliver, ClientStream!Kept,
       ClientStream!Keepable
<1> QED
  BY <1>1, <1>2, Invariant, PTL DEF Spec, ClientToServer, ClientStream!Spec

(* The same of what the server writes.                                     *)
THEOREM ServerRefines == Spec => ServerToClient
<1>1. Init => ServerStream!Init
  BY PeerFacts DEF Init, ServerStream!Init
<1>2. IInv /\ IInv' /\ [Next]_vars =>
         [ServerStream!Next]_<<written[Server], delivered[Client]>>
  <2> SUFFICES ASSUME IInv, IInv', [Next]_vars
               PROVE  [ServerStream!Next]_<<written[Server],
                                            delivered[Client]>>
    OBVIOUS
  <2>1. StreamStep(Server) /\ Peer(Server) = Client
    BY StreamStepHolds, PeerFacts
  <2> QED
    BY <2>1 DEF StreamStep, Keepable, ServerStream!Next, ServerStream!Write,
       ServerStream!Revoke, ServerStream!Deliver, ServerStream!Kept,
       ServerStream!Keepable
<1> QED
  BY <1>1, <1>2, Invariant, PTL DEF Spec, ServerToClient, ServerStream!Spec

(* The channel is two ReliableStreams, one in each direction, over any     *)
(* network.                                                                *)
THEOREM ChannelRefines == Spec => BothReliable
  BY ClientRefines, ServerRefines, PTL DEF BothReliable
=============================================================================
