------------------------ MODULE DeltaEntitiesProofs ------------------------
(* What DeltaEntities promises, for rings of any size and any number of    *)
(* packets: the client applies every delta to the frame it was encoded     *)
(* from, and so is fed whole snapshots.                                    *)
EXTENDS DeltaEntities, TLAPS

-----------------------------------------------------------------------------
(* The inductive invariant.                                                *)

(* Nothing has arrived that was not sent.                                  *)
Numbering ==
    /\ outgoing_sequence >= 1
    /\ incoming_sequence < outgoing_sequence
    /\ sv_incoming_sequence < outgoing_sequence
    /\ validsequence <= incoming_sequence
    /\ delta_sequence \in {0, validsequence}

(* A request asks for a snapshot the client has received and that is, when *)
(* the request leaves, less than a ring old.  As long as it has not been   *)
(* pushed out of the ring the client still remembers what it asked for,    *)
(* and has the snapshot.                                                   *)
Asking(r) ==
    /\ 1 <= r.sequence /\ r.sequence < outgoing_sequence
    /\ r.sequence < MaxSeq
    /\ outgoing_sequence - r.sequence <= UPDATE_BACKUP
          => requested[Slot(r.sequence)] = r.asked
    /\ r.asked # NoDelta =>
          /\ r.asked \in taken /\ 1 <= r.asked
          /\ r.asked <= incoming_sequence
          /\ r.asked < r.sequence
          /\ r.sequence - r.asked < UPDATE_BACKUP
          /\ outgoing_sequence - r.asked <= UPDATE_BACKUP
                => entities[Slot(r.asked)] = r.asked

(* The client's own frame is whole, and a snapshot the server took.        *)
Showing ==
    validsequence # 0 =>
        /\ entities[Slot(validsequence)] = validsequence
        /\ validsequence \in taken

(* The server has its last snapshots, none newer than the packet it        *)
(* answers, and owes an answer only to a packet it has not answered.       *)
Serving ==
    /\ \A n \in taken :
          /\ 1 <= n /\ n <= sv_incoming_sequence
          /\ sv_incoming_sequence - n < UPDATE_BACKUP
                => sv_entities[Slot(n)] = n
    /\ send_message =>
          /\ sv_incoming_sequence \notin taken
          /\ \E r \in requests : r.sequence = sv_incoming_sequence
                                 /\ sv_delta_sequence = DeltaRequest(r)

(* Every update answers a request, with the difference from the snapshot   *)
(* the request asked for.                                                  *)
Answering(m) ==
    /\ m.has_entities => m.sequence \in taken
    /\ \E r \in requests :
          /\ r.sequence = m.sequence
          /\ m.from # NoDelta => /\ r.asked # NoDelta
                                 /\ m.from = Slot(r.asked)
                                 /\ m.base = r.asked

IInv ==
    /\ TypeOK /\ Numbering /\ Showing /\ Serving
    /\ \A r \in requests : Asking(r)
    /\ \A m \in updates : Answering(m)

-----------------------------------------------------------------------------
(* Frames of the rings.                                                    *)

LEMMA Backup == UPDATE_BACKUP \in Nat /\ UPDATE_BACKUP > 1
  BY BackupAssumption DEF BackupAssumption

(* sequence & UPDATE_MASK is a place in the ring.                          *)
LEMMA SlotInRing == ASSUME NEW a \in Nat PROVE Slot(a) \in Slots
  BY Backup DEF Slot, Slots

(* Numbers less than a ring apart do not share a place.                    *)
LEMMA SlotsDiffer ==
    ASSUME NEW a \in Nat, NEW b \in Nat, a < b, b - a < UPDATE_BACKUP
    PROVE  Slot(a) # Slot(b)
  <1> DEFINE N == UPDATE_BACKUP
             p == a \div N
             q == b \div N
  <1> USE Backup
  <1>1. a = N * p + (a % N) /\ p \in Int /\ a % N \in 0 .. N - 1
    OBVIOUS
  <1>2. b = N * q + (b % N) /\ q \in Int /\ b % N \in 0 .. N - 1
    OBVIOUS
  <1>3. SUFFICES ASSUME a % N = b % N PROVE FALSE
    BY DEF Slot
  <1>4. b - a = N * q - N * p
    BY <1>1, <1>2, <1>3
  <1>5. p \in Int /\ q \in Int /\ N \in Nat
    BY <1>1, <1>2
  <1> HIDE DEF p, q
  <1>6. N * q - N * p = N * (q - p)
    BY <1>5
  <1>7. CASE q - p >= 1
    <2>1. PICK d \in Nat : q - p = d + 1
      BY <1>5, <1>7
    <2>2. N * (d + 1) = N * d + N /\ N * d \in Nat
      BY <1>5
    <2> QED
      BY <1>4, <1>6, <2>1, <2>2
  <1>8. CASE q - p <= 0
    <2>1. PICK d \in Nat : q - p = -d
      BY <1>5, <1>8
    <2>2. N * (-d) = -(N * d) /\ N * d \in Nat
      BY <1>5
    <2> QED
      BY <1>4, <1>6, <2>1, <2>2
  <1> QED
    BY <1>5, <1>7, <1>8

(* What is in a request and in an update.                                  *)
LEMMA RequestParts ==
    ASSUME NEW r \in Request
    PROVE  r.sequence \in Nat /\ r.asked \in Nat \cup {NoDelta}
  BY DEF Request

LEMMA UpdateParts ==
    ASSUME NEW m \in Update
    PROVE  /\ m.sequence \in Nat /\ m.base \in Nat
           /\ m.from \in Slots \cup {NoDelta}
  BY DEF Update

(* TypeOK without what is Boolean.                                         *)
NumbersOK ==
    /\ outgoing_sequence \in Nat /\ incoming_sequence \in Nat
    /\ validsequence \in Nat /\ delta_sequence \in Nat
    /\ requested \in [Slots -> Nat \cup {NoDelta}]
    /\ entities \in [Slots -> Nat \cup {Garbled}]
    /\ sv_incoming_sequence \in Nat
    /\ sv_delta_sequence \in Slots \cup {NoDelta}
    /\ sv_entities \in [Slots -> Nat]
    /\ taken \in SUBSET Nat

LEMMA TypeParts ==
    TypeOK <=> /\ NumbersOK /\ send_message \in BOOLEAN
               /\ requests \in SUBSET Request /\ updates \in SUBSET Update
  BY DEF TypeOK, NumbersOK

-----------------------------------------------------------------------------
LEMMA InitInv == Init => IInv
  <1> SUFFICES ASSUME Init PROVE IInv
    OBVIOUS
  <1>1. NumbersOK
    BY Backup DEF Init, NumbersOK, NoDelta
  <1>2. /\ send_message \in BOOLEAN
        /\ requests \in SUBSET Request /\ updates \in SUBSET Update
    BY DEF Init
  <1>3. Numbering /\ Showing /\ Serving
    BY DEF Init, Numbering, Showing, Serving
  <1>4. requests = {} /\ updates = {}
    BY DEF Init
  <1> QED
    BY <1>1, <1>2, <1>3, <1>4, TypeParts DEF IInv

(* CL_SendCmd: the slot of the new request belonged to one a whole ring    *)
(* older.                                                                  *)
LEMMA SendKeepsInv ==
    ASSUME IInv, NEW nodelta \in BOOLEAN, CL_SendCmd(nodelta)
    PROVE  IInv'
  <1> DEFINE delta == IF Expired(validsequence) THEN 0 ELSE delta_sequence
             asked == IF delta # 0 /\ ~nodelta THEN delta ELSE NoDelta
             new == [sequence |-> outgoing_sequence, asked |-> asked]
  <1>0. /\ NumbersOK /\ requests \in SUBSET Request
        /\ updates \in SUBSET Update /\ send_message \in BOOLEAN
        /\ Numbering /\ Showing /\ Serving
        /\ \A r \in requests : Asking(r)
        /\ \A m \in updates : Answering(m)
    BY TypeParts DEF IInv
  <1>1. /\ outgoing_sequence < MaxSeq
        /\ validsequence' = IF Expired(validsequence) THEN 0
                                                      ELSE validsequence
        /\ delta_sequence' = delta
        /\ requested' = [requested EXCEPT ![Slot(outgoing_sequence)] = asked]
        /\ requests' = requests \cup {new}
        /\ outgoing_sequence' = outgoing_sequence + 1
        /\ UNCHANGED <<incoming_sequence, entities, server, updates>>
    BY DEF CL_SendCmd
  <1>2. /\ delta \in Nat /\ asked \in Nat \cup {NoDelta}
        /\ asked # NoDelta =>
              /\ asked = validsequence /\ asked # 0
              /\ outgoing_sequence - asked < UPDATE_BACKUP - 1
        /\ delta \in {0, validsequence'}
    BY <1>0, <1>1, Backup DEF NumbersOK, Numbering, Expired, NoDelta
  <1> HIDE DEF delta, asked
  <1>3. new \in Request
    BY <1>0, <1>2 DEF NumbersOK, Request
  <1>4. NumbersOK' /\ requests' \in SUBSET Request
        /\ updates' \in SUBSET Update /\ send_message' \in BOOLEAN
    <2>1. requested' \in [Slots -> Nat \cup {NoDelta}]
      BY <1>0, <1>1, <1>2 DEF NumbersOK
    <2>2. validsequence' \in Nat /\ delta_sequence' \in Nat
          /\ outgoing_sequence' \in Nat
      BY <1>0, <1>1, <1>2 DEF NumbersOK
    <2>3. send_message' = send_message /\ requests' \in SUBSET Request
      BY <1>0, <1>1, <1>3 DEF server
    <2> QED
      BY <1>0, <1>1, <2>1, <2>2, <2>3 DEF NumbersOK, server
  <1>5. Numbering'
    BY <1>0, <1>1, <1>2 DEF Numbering, NumbersOK, server
  <1>6. Showing'
    BY <1>0, <1>1 DEF Showing, server
  <1>7. Serving'
    <2>1. \A r \in requests : r \in requests'
                             /\ DeltaRequest(r)' = DeltaRequest(r)
      BY <1>1 DEF DeltaRequest
    <2> QED
      BY <1>0, <1>1, <2>1 DEF Serving, server
  <1>8. \A r \in requests' : Asking(r)'
    <2>1. ASSUME NEW r \in requests PROVE Asking(r)'
      <3>1. r.sequence \in Nat /\ r.asked \in Nat \cup {NoDelta} /\ Asking(r)
        BY <1>0, RequestParts
      <3>2. ASSUME outgoing_sequence' - r.sequence <= UPDATE_BACKUP
            PROVE  requested'[Slot(r.sequence)] = r.asked
        <4>1. r.sequence < outgoing_sequence
              /\ outgoing_sequence - r.sequence < UPDATE_BACKUP
          BY <1>0, <1>1, <3>1, <3>2, Backup DEF Asking, NumbersOK
        <4>2. Slot(r.sequence) # Slot(outgoing_sequence)
              /\ Slot(r.sequence) \in Slots
          BY <1>0, <3>1, <4>1, SlotsDiffer, SlotInRing DEF NumbersOK
        <4>3. requested[Slot(r.sequence)] = r.asked
          BY <3>1, <4>1, <1>0, Backup DEF Asking, NumbersOK
        <4> QED
          BY <1>0, <1>1, <4>2, <4>3 DEF NumbersOK
      <3> QED
        BY <1>0, <1>1, <3>1, <3>2, Backup DEF Asking, NumbersOK, server
    <2>2. ASSUME NEW r \in requests', r = new PROVE Asking(r)'
      <3>1. r.sequence = outgoing_sequence /\ r.asked = asked
        BY <2>2
      <3>2. requested'[Slot(outgoing_sequence)] = asked
        BY <1>0, <1>1, SlotInRing DEF NumbersOK
      <3>3. asked # NoDelta =>
              /\ asked \in taken /\ entities[Slot(asked)] = asked
              /\ 1 <= asked /\ asked <= incoming_sequence
              /\ asked < outgoing_sequence
              /\ outgoing_sequence - asked < UPDATE_BACKUP
        BY <1>0, <1>2, Backup DEF Showing, Numbering, NumbersOK
      <3>4. taken' = taken /\ entities' = entities
            /\ incoming_sequence' = incoming_sequence
        BY <1>1 DEF server
      <3> QED
        BY <1>0, <1>1, <3>1, <3>2, <3>3, <3>4
        DEF Asking, Numbering, NumbersOK
    <2> QED
      BY <1>1, <2>1, <2>2
  <1>9. \A m \in updates' : Answering(m)'
    BY <1>0, <1>1 DEF Answering, server
  <1> QED
    BY <1>4, <1>5, <1>6, <1>7, <1>8, <1>9 DEF IInv, TypeOK, NumbersOK

(* The parts of IInv about a client that stays as it is.                   *)
LEMMA ClientUnchanged ==
    ASSUME \A r \in requests : Asking(r), Showing,
           UNCHANGED <<client, requests>>, taken \subseteq taken'
    PROVE  (\A r \in requests : Asking(r))' /\ Showing'
  <1>1. Showing'
    BY DEF Showing, client
  <1>2. ASSUME NEW r \in requests' PROVE Asking(r)'
    <2>1. Asking(r)
      BY <1>2
    <2> QED
      BY <2>1 DEF Asking, client
  <1> QED
    BY <1>1, <1>2

(* SV_ExecuteClientMessage: older snapshots may be forgotten, and none has *)
(* the number of the packet.                                               *)
LEMMA ExecuteKeepsInv ==
    ASSUME IInv, NEW r \in requests, SV_ExecuteClientMessage(r)
    PROVE  IInv'
  <1>0. /\ NumbersOK /\ requests \in SUBSET Request
        /\ updates \in SUBSET Update
        /\ Numbering /\ Showing /\ Serving
        /\ \A q \in requests : Asking(q)
        /\ \A m \in updates : Answering(m)
    BY TypeParts DEF IInv
  <1>1. /\ r.sequence > sv_incoming_sequence
        /\ sv_incoming_sequence' = r.sequence
        /\ sv_delta_sequence' = DeltaRequest(r)
        /\ send_message' = TRUE
        /\ UNCHANGED <<client, sv_entities, requests, updates, taken>>
    BY DEF SV_ExecuteClientMessage
  <1>2. r.sequence \in Nat /\ r.asked \in Nat \cup {NoDelta} /\ Asking(r)
    BY <1>0, RequestParts
  <1>3. NumbersOK'
    <2>1. DeltaRequest(r) \in Slots \cup {NoDelta}
      BY <1>2, SlotInRing DEF DeltaRequest
    <2> QED
      BY <1>0, <1>1, <1>2, <2>1 DEF NumbersOK, client
  <1>4. Numbering'
    BY <1>0, <1>1, <1>2 DEF Numbering, NumbersOK, client, Asking
  <1>5. (\A q \in requests : Asking(q))' /\ Showing'
    BY <1>0, <1>1, ClientUnchanged
  <1>6. Serving'
    <2>1. ASSUME NEW n \in taken
          PROVE  /\ 1 <= n /\ n < r.sequence
                 /\ r.sequence - n < UPDATE_BACKUP => sv_entities[Slot(n)] = n
      BY <1>0, <1>1, <1>2, Backup DEF Serving, NumbersOK
    <2>2. r.sequence \notin taken
      BY <2>1, <1>0, <1>2
    <2>3. \A n \in taken' :
              /\ 1 <= n /\ n <= sv_incoming_sequence'
              /\ sv_incoming_sequence' - n < UPDATE_BACKUP
                    => sv_entities'[Slot(n)] = n
      BY <1>0, <1>1, <1>2, <2>1 DEF NumbersOK
    <2>4. r \in requests' /\ sv_delta_sequence' = DeltaRequest(r)'
          /\ sv_incoming_sequence' \notin taken'
      BY <1>1, <2>2 DEF DeltaRequest
    <2> QED
      BY <1>1, <2>3, <2>4 DEF Serving
  <1>7. \A m \in updates' : Answering(m)'
    BY <1>0, <1>1 DEF Answering
  <1> QED
    BY <1>0, <1>1, <1>3, <1>4, <1>5, <1>6, <1>7 DEF IInv, TypeOK, NumbersOK

(* SV_SendClientMessages without a snapshot.                               *)
LEMMA NoSnapshotKeepsInv ==
    ASSUME IInv, NEW answers \in BOOLEAN, SV_SendClientMessages(answers)
    PROVE  IInv'
  <1> DEFINE new == [sequence |-> sv_incoming_sequence,
                     has_entities |-> FALSE, from |-> NoDelta, base |-> 0]
  <1>0. /\ NumbersOK /\ requests \in SUBSET Request
        /\ updates \in SUBSET Update
        /\ Numbering /\ Showing /\ Serving
        /\ \A q \in requests : Asking(q)
        /\ \A m \in updates : Answering(m)
    BY TypeParts DEF IInv
  <1>1. /\ send_message
        /\ send_message' = FALSE
        /\ updates' = IF answers THEN updates \cup {new} ELSE updates
        /\ UNCHANGED <<client, sv_incoming_sequence, sv_delta_sequence,
                       sv_entities, requests, taken>>
    BY DEF SV_SendClientMessages
  <1>2. new \in Update
    BY <1>0 DEF Update, NumbersOK
  <1>3. NumbersOK' /\ updates' \in SUBSET Update
    BY <1>0, <1>1, <1>2 DEF NumbersOK, client
  <1>4. Numbering'
    BY <1>0, <1>1 DEF Numbering, client
  <1>5. (\A q \in requests : Asking(q))' /\ Showing'
    BY <1>0, <1>1, ClientUnchanged
  <1>6. Serving'
    BY <1>0, <1>1 DEF Serving
  <1>7. ASSUME NEW m \in updates' PROVE Answering(m)'
    <2>1. CASE m \in updates
      BY <1>0, <1>1, <2>1 DEF Answering
    <2>2. CASE m = new
      <3>1. \E r \in requests : r.sequence = sv_incoming_sequence
        BY <1>0, <1>1 DEF Serving
      <3>2. m.sequence = sv_incoming_sequence /\ ~m.has_entities
            /\ m.from = NoDelta
        BY <2>2
      <3> QED
        BY <1>1, <3>1, <3>2 DEF Answering
    <2> QED
      BY <1>1, <2>1, <2>2
  <1> QED
    BY <1>0, <1>1, <1>3, <1>4, <1>5, <1>6, <1>7 DEF IInv, TypeOK, NumbersOK

(* SV_SendClientDatagram: the frame asked for is still there, for the new  *)
(* one took the place of one a whole ring older.                           *)
LEMMA SnapshotKeepsInv ==
    ASSUME IInv, NEW fits \in BOOLEAN, SV_SendClientDatagram(fits)
    PROVE  IInv'
  <1> DEFINE n == sv_incoming_sequence
             frames == [sv_entities EXCEPT ![Slot(n)] = n]
             from == IF fits THEN sv_delta_sequence ELSE NoDelta
             base == IF fits /\ sv_delta_sequence # NoDelta
                     THEN frames[sv_delta_sequence] ELSE 0
             new == [sequence |-> n, has_entities |-> fits,
                     from |-> from, base |-> base]
  <1>0. /\ NumbersOK /\ requests \in SUBSET Request
        /\ updates \in SUBSET Update
        /\ Numbering /\ Showing /\ Serving
        /\ \A q \in requests : Asking(q)
        /\ \A m \in updates : Answering(m)
    BY TypeParts DEF IInv
  <1>1. /\ send_message
        /\ send_message' = FALSE
        /\ sv_entities' = frames
        /\ taken' = taken \cup {n}
        /\ updates' = updates \cup {new}
        /\ UNCHANGED <<client, sv_incoming_sequence, sv_delta_sequence,
                       requests>>
    BY DEF SV_SendClientDatagram
  <1>2. n \in Nat /\ Slot(n) \in Slots /\ frames \in [Slots -> Nat]
        /\ frames[Slot(n)] = n
    BY <1>0, SlotInRing DEF NumbersOK
  <1>3. \A k \in taken : /\ k \in Nat /\ 1 <= k /\ k < n
                         /\ n - k < UPDATE_BACKUP => frames[Slot(k)] = k
    <2> SUFFICES ASSUME NEW k \in taken
                 PROVE  /\ k \in Nat /\ 1 <= k /\ k < n
                        /\ n - k < UPDATE_BACKUP => frames[Slot(k)] = k
      OBVIOUS
    <2>1. k \in Nat /\ 1 <= k /\ k < n
      BY <1>0, <1>1, <1>2 DEF Serving, NumbersOK
    <2>2. ASSUME n - k < UPDATE_BACKUP PROVE frames[Slot(k)] = k
      <3>1. sv_entities[Slot(k)] = k
        BY <1>0, <2>2 DEF Serving
      <3>2. Slot(k) # Slot(n) /\ Slot(k) \in Slots
        BY <1>2, <2>1, <2>2, SlotsDiffer, SlotInRing
      <3> QED
        BY <1>0, <3>1, <3>2 DEF NumbersOK
    <2> QED
      BY <2>1, <2>2
  <1>4. PICK r \in requests : r.sequence = n
                              /\ sv_delta_sequence = DeltaRequest(r)
    BY <1>0, <1>1 DEF Serving
  <1>5. r.asked \in Nat \cup {NoDelta} /\ Asking(r)
    BY <1>0, RequestParts
  <1>6. ASSUME fits, sv_delta_sequence # NoDelta
        PROVE  /\ r.asked # NoDelta /\ sv_delta_sequence = Slot(r.asked)
               /\ frames[sv_delta_sequence] = r.asked
    <2>1. r.asked # NoDelta /\ sv_delta_sequence = Slot(r.asked)
      BY <1>4, <1>6 DEF DeltaRequest
    <2>2. r.asked \in taken /\ n - r.asked < UPDATE_BACKUP
      BY <1>4, <1>5, <2>1 DEF Asking
    <2> QED
      BY <1>3, <2>1, <2>2
  <1>7. from \in Slots \cup {NoDelta} /\ base \in Nat
    BY <1>0, <1>2 DEF NumbersOK
  <1>8. new \in Update
    BY <1>2, <1>7 DEF Update
  <1>9. /\ new.sequence = n /\ new.has_entities = fits
        /\ new.from = from /\ new.base = base
    OBVIOUS
  <1>10. from # NoDelta => /\ r.asked # NoDelta /\ from = Slot(r.asked)
                           /\ base = r.asked
    BY <1>6
  <1> HIDE DEF new, from, base, frames
  <1>11. NumbersOK' /\ updates' \in SUBSET Update
    BY <1>0, <1>1, <1>2, <1>8 DEF NumbersOK, client
  <1>12. Numbering'
    BY <1>0, <1>1 DEF Numbering, client
  <1>13. (\A q \in requests : Asking(q))' /\ Showing'
    BY <1>0, <1>1, ClientUnchanged
  <1>14. Serving'
    <2>1. 1 <= n
      BY <1>4, <1>5 DEF Asking
    <2> QED
      BY <1>1, <1>2, <1>3, <2>1 DEF Serving
  <1>15. ASSUME NEW m \in updates' PROVE Answering(m)'
    <2>1. CASE m \in updates
      BY <1>0, <1>1, <2>1 DEF Answering
    <2>2. CASE m = new
      BY <1>1, <1>4, <1>9, <1>10, <2>2 DEF Answering
    <2> QED
      BY <1>1, <2>1, <2>2
  <1> QED
    BY <1>0, <1>1, <1>11, <1>12, <1>13, <1>14, <1>15
    DEF IInv, TypeOK, NumbersOK

-----------------------------------------------------------------------------
(* What the client makes of an update.                                     *)

(* An update that is not too late answers the request the client remembers *)
(* under its number, and the frame it is to be applied to, if it has not   *)
(* expired, is the one it was encoded from.                                *)
LEMMA UpdateFits ==
    ASSUME IInv, NEW m \in updates, m.from # NoDelta, ~TooLate(m)
    PROVE  /\ ~Mismatch(m)
           /\ ~Expired(OldPacket(m)) =>
                 /\ m.base = OldPacket(m)
                 /\ entities[Slot(OldPacket(m))] = m.base
  <1>0. /\ NumbersOK /\ requests \in SUBSET Request
        /\ updates \in SUBSET Update
        /\ \A q \in requests : Asking(q)
        /\ Answering(m)
    BY TypeParts DEF IInv
  <1>1. PICK r \in requests :
           /\ r.sequence = m.sequence /\ r.asked # NoDelta
           /\ m.from = Slot(r.asked) /\ m.base = r.asked
    BY <1>0 DEF Answering
  <1>2. r.sequence \in Nat /\ r.asked \in Nat /\ Asking(r)
    BY <1>0, <1>1, RequestParts
  <1>3. OldPacket(m) = r.asked
    BY <1>0, <1>1, <1>2, Backup
       DEF OldPacket, Asking, TooLate, Expired, NumbersOK
  <1>4. ~Expired(r.asked) => entities[Slot(r.asked)] = r.asked
    BY <1>0, <1>1, <1>2, Backup DEF Asking, Expired, NumbersOK
  <1> QED
    BY <1>1, <1>3, <1>4 DEF Mismatch

(* Every update was sent for a packet of the client.                       *)
LEMMA UpdateNumber ==
    ASSUME IInv, NEW m \in updates
    PROVE  /\ m.sequence \in Nat /\ 1 <= m.sequence
           /\ m.sequence < outgoing_sequence /\ m.sequence < MaxSeq
           /\ m.has_entities => m.sequence \in taken
  <1>0. /\ updates \in SUBSET Update /\ Answering(m)
        /\ \A q \in requests : Asking(q)
    BY TypeParts DEF IInv
  <1>1. PICK r \in requests : r.sequence = m.sequence
    BY <1>0 DEF Answering
  <1> QED
    BY <1>0, <1>1, UpdateParts DEF Asking, Answering

(* An update that is newer takes no slot of a snapshot the client may      *)
(* still ask for.                                                          *)
LEMMA ParseKeepsInv ==
    ASSUME IInv, NEW m \in updates, CL_Parse(m)
    PROVE  IInv'
  <1>0. /\ NumbersOK /\ requests \in SUBSET Request
        /\ updates \in SUBSET Update
        /\ Numbering /\ Showing /\ Serving
        /\ \A q \in requests : Asking(q)
        /\ \A k \in updates : Answering(k)
    BY TypeParts DEF IInv
  <1>1. /\ m.sequence > incoming_sequence /\ m.has_entities
        /\ m.from # NoDelta =>
              ~TooLate(m) /\ ~Mismatch(m) /\ ~Expired(OldPacket(m))
        /\ entities' = [entities EXCEPT ![Slot(m.sequence)] = Decoded(m)]
        /\ validsequence' = m.sequence
        /\ delta_sequence' = m.sequence
        /\ incoming_sequence' = m.sequence
        /\ UNCHANGED <<outgoing_sequence, requested, server, requests,
                      updates>>
    BY DEF CL_Parse, Newer
  <1>2. /\ m.sequence \in Nat /\ m.sequence < outgoing_sequence
        /\ m.sequence \in taken /\ Slot(m.sequence) \in Slots
    BY <1>1, UpdateNumber, SlotInRing
  <1>3. Decoded(m) = m.sequence
    BY <1>1, UpdateFits DEF Decoded
  <1>4. NumbersOK'
    BY <1>0, <1>1, <1>2, <1>3 DEF NumbersOK, server
  <1>5. Numbering'
    BY <1>0, <1>1, <1>2 DEF Numbering, server
  <1>6. Showing'
    <2>1. entities'[Slot(m.sequence)] = m.sequence
      BY <1>0, <1>1, <1>2, <1>3 DEF NumbersOK
    <2> QED
      BY <1>1, <1>2, <2>1 DEF Showing, server
  <1>7. ASSUME NEW r \in requests' PROVE Asking(r)'
    <2>1. r.sequence \in Nat /\ r.asked \in Nat \cup {NoDelta} /\ Asking(r)
      BY <1>0, <1>1, <1>7, RequestParts
    <2>2. ASSUME r.asked # NoDelta,
                 outgoing_sequence - r.asked <= UPDATE_BACKUP
          PROVE  entities'[Slot(r.asked)] = r.asked
      <3>1. /\ r.asked \in Nat /\ r.asked < m.sequence
            /\ entities[Slot(r.asked)] = r.asked
        BY <1>0, <1>1, <1>2, <2>1, <2>2 DEF Asking, NumbersOK
      <3>2. m.sequence - r.asked < UPDATE_BACKUP
        BY <1>0, <1>2, <2>2, <3>1, Backup DEF NumbersOK
      <3>3. Slot(r.asked) # Slot(m.sequence) /\ Slot(r.asked) \in Slots
        BY <1>2, <3>1, <3>2, SlotsDiffer, SlotInRing
      <3> QED
        BY <1>0, <1>1, <3>1, <3>3 DEF NumbersOK
    <2>3. r.asked # NoDelta => r.asked <= incoming_sequence'
      BY <1>0, <1>1, <1>2, <2>1 DEF Asking, NumbersOK
    <2> QED
      BY <1>1, <2>1, <2>2, <2>3 DEF Asking, server
  <1>8. Serving'
    BY <1>0, <1>1 DEF Serving, server, DeltaRequest
  <1>9. \A k \in updates' : Answering(k)'
    BY <1>0, <1>1 DEF Answering, server
  <1>10. send_message' = send_message
    BY <1>1 DEF server
  <1> QED
    BY <1>1, <1>4, <1>5, <1>6, <1>7, <1>8, <1>9, <1>10
       DEF IInv, TypeOK, NumbersOK

(* CL_Flush and CL_ReadWithoutEntities leave the frames alone.             *)
LEMMA ReadKeepsInv ==
    ASSUME IInv, NEW m \in updates, CL_Flush(m) \/ CL_ReadWithoutEntities(m)
    PROVE  IInv'
  <1>0. /\ NumbersOK /\ requests \in SUBSET Request
        /\ updates \in SUBSET Update
        /\ Numbering /\ Showing /\ Serving
        /\ \A q \in requests : Asking(q)
        /\ \A k \in updates : Answering(k)
    BY TypeParts DEF IInv
  <1>1. /\ m.sequence > incoming_sequence
        /\ \/ validsequence' \in {0, validsequence} /\ delta_sequence' = 0
           \/ UNCHANGED <<validsequence, delta_sequence>>
        /\ incoming_sequence' = m.sequence
        /\ UNCHANGED <<outgoing_sequence, requested, entities, server,
                       requests, updates>>
    BY DEF CL_Flush, CL_ReadWithoutEntities, Newer
  <1>2. m.sequence \in Nat /\ m.sequence < outgoing_sequence
    BY UpdateNumber
  <1>3. NumbersOK'
    BY <1>0, <1>1, <1>2 DEF NumbersOK, server
  <1>4. Numbering'
    BY <1>0, <1>1, <1>2 DEF Numbering, NumbersOK, server
  <1>5. Showing'
    BY <1>0, <1>1 DEF Showing, server
  <1>6. ASSUME NEW r \in requests' PROVE Asking(r)'
    <2>1. r.sequence \in Nat /\ r.asked \in Nat \cup {NoDelta} /\ Asking(r)
      BY <1>0, <1>1, <1>6, RequestParts
    <2>2. r.asked # NoDelta => r.asked <= incoming_sequence'
      BY <1>0, <1>1, <1>2, <2>1 DEF Asking, NumbersOK
    <2> QED
      BY <1>1, <2>1, <2>2 DEF Asking, server
  <1>7. Serving'
    BY <1>0, <1>1 DEF Serving, server, DeltaRequest
  <1>8. \A k \in updates' : Answering(k)'
    BY <1>0, <1>1 DEF Answering, server
  <1>9. send_message' = send_message
    BY <1>1 DEF server
  <1> QED
    BY <1>1, <1>3, <1>4, <1>5, <1>6, <1>7, <1>8, <1>9
       DEF IInv, TypeOK, NumbersOK

LEMMA NothingKeepsInv ==
    ASSUME IInv, UNCHANGED vars
    PROVE  IInv'
  BY DEF IInv, vars, client, server, TypeOK, Numbering, Showing, Serving,
         Asking, Answering, DeltaRequest

LEMMA Invariance == Spec => []IInv
  <1>1. IInv /\ [Next]_vars => IInv'
    BY SendKeepsInv, ExecuteKeepsInv, NoSnapshotKeepsInv, SnapshotKeepsInv,
       ParseKeepsInv, ReadKeepsInv, NothingKeepsInv DEF Next
  <1> QED
    BY <1>1, InitInv, PTL DEF Spec

-----------------------------------------------------------------------------
(* The client shows the snapshot the server took under the number it names *)
(* (cl.frames[cl.validsequence & UPDATE_MASK]), and "from mismatch" is     *)
(* never printed, whatever is lost, late or left out.                      *)
THEOREM ShowsRightFrame == Spec => []RightFrame
  <1>1. IInv => RightFrame
    <2> SUFFICES ASSUME IInv PROVE RightFrame
      OBVIOUS
    <2>1. TypeOK
      BY DEF IInv
    <2>2. Shown = validsequence
      BY DEF IInv, Showing, Shown
    <2>3. \A m \in updates :
             Newer(m) /\ m.from # NoDelta /\ ~TooLate(m) => ~Mismatch(m)
      BY UpdateFits
    <2> QED
      BY <2>1, <2>2, <2>3 DEF RightFrame
  <1> QED
    BY <1>1, Invariance, PTL

(* Each step of DeltaEntities is one of SnapshotFeed, or none of its       *)
(* variables changes.                                                      *)
LEMMA StepFeeds ==
    ASSUME IInv, [Next]_vars
    PROVE  [Feed!Next]_<<taken, incoming_sequence, Shown>>
  <1>0. /\ NumbersOK /\ Numbering /\ Showing /\ Serving
        /\ requests \in SUBSET Request /\ \A q \in requests : Asking(q)
    BY TypeParts DEF IInv
  <1>1. ASSUME NEW nodelta \in BOOLEAN, CL_SendCmd(nodelta)
        PROVE  Feed!Hide \/ UNCHANGED <<taken, incoming_sequence, Shown>>
    BY <1>1 DEF CL_SendCmd, Shown, server, Feed!Hide
  <1>2. ASSUME NEW r \in requests, SV_ExecuteClientMessage(r)
        PROVE  UNCHANGED <<taken, incoming_sequence, Shown>>
    BY <1>2 DEF SV_ExecuteClientMessage, Shown, client
  <1>3. ASSUME NEW answers \in BOOLEAN, SV_SendClientMessages(answers)
        PROVE  UNCHANGED <<taken, incoming_sequence, Shown>>
    BY <1>3 DEF SV_SendClientMessages, Shown, client
  <1>4. ASSUME NEW fits \in BOOLEAN, SV_SendClientDatagram(fits)
        PROVE  Feed!Take
    <2>1. /\ send_message /\ taken' = taken \cup {sv_incoming_sequence}
          /\ UNCHANGED client
      BY <1>4 DEF SV_SendClientDatagram
    <2>2. PICK r \in requests : r.sequence = sv_incoming_sequence
      BY <1>0, <2>1 DEF Serving
    <2>3. sv_incoming_sequence \in 1 .. MaxSeq
      <3>1. MaxSeq \in Nat
        BY MaxSeqAssumption DEF MaxSeqAssumption
      <3> QED
        BY <1>0, <2>2, <3>1 DEF Asking, NumbersOK
    <2>4. \A t \in taken : t < sv_incoming_sequence
      BY <1>0, <2>1 DEF Serving, NumbersOK
    <2>5. UNCHANGED <<incoming_sequence, Shown>>
      BY <2>1 DEF client, Shown
    <2> QED
      BY <2>1, <2>3, <2>4, <2>5 DEF Feed!Take
  <1>5. ASSUME NEW m \in updates,
               CL_Parse(m) \/ CL_Flush(m) \/ CL_ReadWithoutEntities(m)
        PROVE  Feed!Receive
    <2>1. incoming_sequence' = m.sequence /\ m.sequence > incoming_sequence
          /\ taken' = taken
      BY <1>5 DEF CL_Parse, CL_Flush, CL_ReadWithoutEntities, Newer, server
    <2>2. m.sequence \in 1 .. MaxSeq
      BY UpdateNumber, MaxSeqAssumption DEF MaxSeqAssumption
    <2>3. CASE CL_Parse(m)
      <3>1. m.sequence \in taken /\ IInv'
        BY <2>3, UpdateNumber, ParseKeepsInv DEF CL_Parse
      <3>2. validsequence' = m.sequence
        BY <2>3 DEF CL_Parse
      <3>3. Shown' = m.sequence
        BY <2>2, <3>1, <3>2 DEF IInv, Showing, Shown
      <3> QED
        BY <2>1, <2>2, <3>1, <3>3 DEF Feed!Receive
    <2>4. CASE CL_Flush(m) \/ CL_ReadWithoutEntities(m)
      <3>1. entities' = entities /\ validsequence' \in {0, validsequence}
        BY <2>4 DEF CL_Flush, CL_ReadWithoutEntities
      <3>2. Shown' \in {0, Shown}
        BY <3>1 DEF Shown
      <3> QED
        BY <2>1, <2>2, <3>2 DEF Feed!Receive
    <2> QED
      BY <1>5, <2>3, <2>4
  <1>6. ASSUME UNCHANGED vars
        PROVE  UNCHANGED <<taken, incoming_sequence, Shown>>
    BY <1>6 DEF vars, client, server, Shown
  <1> QED
    BY <1>1, <1>2, <1>3, <1>4, <1>5, <1>6 DEF Next, Feed!Next

(* DeltaEntities implements SnapshotFeed: the client is fed whole          *)
(* snapshots the server took, none older than what it has received.        *)
THEOREM DeltasFeedSnapshots == Spec => FeedsSnapshots
  <1>1. Init => Feed!Init
    BY DEF Init, Feed!Init, Shown
  <1>2. IInv /\ [Next]_vars => [Feed!Next]_<<taken, incoming_sequence, Shown>>
    BY StepFeeds
  <1> QED
    BY <1>1, <1>2, Invariance, PTL DEF Spec, FeedsSnapshots, Feed!Spec

=============================================================================
