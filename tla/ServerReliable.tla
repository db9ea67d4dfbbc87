--------------------------- MODULE ServerReliable ---------------------------
(***************************************************************************)
(* What the server puts in front of a client's netchan: the reliable       *)
(* writes of sv_nchan.c, which spill into a queue of back buffers when the *)
(* channel's message is full, and SV_SendClientMessages (sv_send.c), which *)
(* moves one back buffer per frame into the message, drops the client when *)
(* a buffer has overflowed, and transmits.                                 *)
(*                                                                         *)
(* The channel below is taken as Netchan shows it to be: it carries one    *)
(* reliable message at a time and delivers each exactly once.  A sizebuf_t *)
(* is a record of the blocks it holds and its fields; the current back     *)
(* buffer cl->backbuf is the last element of backbufs, whose length is     *)
(* cl->num_backbuf.  Sizes are in arbitrary units.                         *)
(***************************************************************************)
EXTENDS Naturals, SequencesExt

CONSTANTS
    MaxSize,            \* netchan.message.maxsize
    MAX_BACK_BUFFERS,
    Sizes,              \* sizes callers announce to ClientReliableCheckBlock
    MaxWrites           \* bound: blocks written and zombies revived

ASSUME MaxSizeAssumption == MaxSize \in Nat \ {0}
ASSUME MaxBackAssumption == MAX_BACK_BUFFERS \in Nat \ {0}
ASSUME SizesAssumption == Sizes \subseteq Nat \ {0}
ASSUME MaxWritesAssumption == MaxWrites \in Nat

VARIABLES
    state,          \* cl->state; preconnected counts as connected
    message,        \* cl->netchan.message
    backbufs,       \* cl->backbuf_data, backbuf_size and backbuf
    reliable_buf,   \* blocks in flight, << >> when acknowledged
    sys_error,      \* length with which SZ_GetSpace has called Sys_Error, or 0
    writes,         \* number of blocks written and zombies revived
    written,        \* history: numbers of the stream's blocks
    thrown,         \* history: those a signon command has thrown away
    forgotten,      \* history: and with them an overflow or svc_disconnect
    received        \* history: blocks acknowledged by the client

vars == <<state, message, backbufs, reliable_buf, sys_error, writes, written,
          thrown, forgotten, received>>

history == <<written, thrown, forgotten>>

(* The notice of an overflow, and the svc_disconnect of SV_DropClient.     *)
Notice == [n |-> 0, via |-> "notice"]

Disconnect == [n |-> 0, via |-> "drop"]

(* A block of the stream, one written straight to netchan.message (login   *)
(* and signon commands), or one of these.                                  *)
Block == [n : Nat, via : {"stream", "direct"}] \cup {Notice, Disconnect}

-----------------------------------------------------------------------------
(* sizebuf_t (q_shared.c).                                                 *)

SizeBuf == [data : Seq(Block), cursize : Nat,
            allowoverflow : BOOLEAN, overflowed : BOOLEAN]

EmptyBuf == [data |-> << >>, cursize |-> 0,
             allowoverflow |-> TRUE, overflowed |-> FALSE]

SZ_Clear(buf) ==
    [buf EXCEPT !.data = << >>, !.cursize = 0, !.overflowed = FALSE]

Fits(buf, length) == buf.cursize + length <= MaxSize

(* SZ_GetSpace ends the program.                                           *)
SZ_Fails(buf, length) ==
    ~Fits(buf, length) /\ (~buf.allowoverflow \/ length > MaxSize)

(* Data that does not fit replaces what was there and raises overflowed.   *)
SZ_Write(buf, data, length) ==
    IF Fits(buf, length)
    THEN [buf EXCEPT !.data = @ \o data, !.cursize = @ + length]
    ELSE [buf EXCEPT !.data = data, !.cursize = length, !.overflowed = TRUE]

-----------------------------------------------------------------------------
(* The staging area of the client: the message and the back buffers, as a  *)
(* record, so that the functions of sv_nchan.c can be composed.            *)

Staging == [message |-> message, backbufs |-> backbufs]

(* No room for size more bytes, with one to spare.                         *)
Full(buf, size) == buf.cursize + size + 1 > MaxSize

(* Mutant of GoesToBackbuf: asks for room in the message only, though the  *)
(* block goes behind those in the back buffers.                            *)
GoesToBackbuf_MessageOnly(st, size) == Full(st.message, size)

GoesToBackbuf(st, size) == st.backbufs # << >> \/ Full(st.message, size)

NeedsNewBackbuf(st, size) ==
    /\ GoesToBackbuf(st, size)
    /\ st.backbufs = << >> \/ Full(Last(st.backbufs), size)

(* Mutant of NoneLeft: off by one.                                         *)
NoneLeft_OffByOne(st) == Len(st.backbufs) > MAX_BACK_BUFFERS

NoneLeft(st) == Len(st.backbufs) = MAX_BACK_BUFFERS

(* The last back buffer cannot take the block and there is no other: it is *)
(* emptied and the client will be dropped.                                 *)
OutOfBackbufs(st) ==
    [message  |-> [st.message EXCEPT !.overflowed = TRUE],
     backbufs |-> [st.backbufs EXCEPT ![Len(st.backbufs)] =
                      [@ EXCEPT !.data = << >>, !.cursize = 0]]]

ClientReliableCheckBlock(st, size) ==
    IF ~NeedsNewBackbuf(st, size) THEN st
    ELSE IF NoneLeft(st) THEN OutOfBackbufs(st)
    ELSE [st EXCEPT !.backbufs = Append(@, EmptyBuf)]

(* The buffer ClientReliableWrite_* writes to.                             *)
Target(st) == IF st.backbufs = << >> THEN st.message ELSE Last(st.backbufs)

(* ClientReliableWrite_* with ClientReliable_FinishWrite: an overflowed    *)
(* back buffer marks the message.                                          *)
ClientReliableWrite(st, data, size) ==
    LET buf == SZ_Write(Target(st), data, size)
    IN  IF st.backbufs = << >>
        THEN [st EXCEPT !.message = buf]
        ELSE [message  |-> [st.message EXCEPT
                               !.overflowed = @ \/ buf.overflowed],
              backbufs |-> [st.backbufs EXCEPT ![Len(st.backbufs)] = buf]]

(* A caller announces size `announced` and writes `size`.                  *)
Write(st, block, announced, size) ==
    ClientReliableWrite(ClientReliableCheckBlock(st, announced), <<block>>,
                        size)

WriteFails(st, announced, size) ==
    SZ_Fails(Target(ClientReliableCheckBlock(st, announced)), size)

Restarted(st) == [message |-> SZ_Clear(st.message), backbufs |-> << >>]

(* Only the message is thrown away.                                        *)
Cleared(st) == [st EXCEPT !.message = SZ_Clear(@)]

-----------------------------------------------------------------------------
Init ==
    /\ state = "connected"
    /\ message = EmptyBuf
    /\ backbufs = << >>
    /\ reliable_buf = << >>
    /\ sys_error = 0
    /\ writes = 0
    /\ written = {} /\ thrown = {} /\ forgotten = FALSE
    /\ received = << >>

NextBlock(via) == [n |-> writes + 1, via |-> via]

(* The blocks of the stream among these, by their numbers.                 *)
InStream(blocks) == {i \in DOMAIN blocks : blocks[i].via = "stream"}

Numbers(blocks) == {blocks[i].n : i \in InStream(blocks)}

InOrder(blocks) ==
    \A i, j \in InStream(blocks) : i < j => blocks[i].n < blocks[j].n

(* The blocks in the back buffers, oldest first.                           *)
Saved == FlattenSeq([i \in DOMAIN backbufs |-> backbufs[i].data])

Active == state \in {"connected", "spawned"}

Running == state # "free" /\ sys_error = 0

Stage(st) == message' = st.message /\ backbufs' = st.backbufs

(* SZ_GetSpace ends the server over a block of this size.                  *)
Sys_Error(size) ==
    /\ sys_error' = size
    /\ UNCHANGED <<state, message, backbufs, reliable_buf, writes, history,
                   received>>

(* One more block.                                                         *)
Counted ==
    /\ writes < MaxWrites
    /\ writes' = writes + 1

(* The block goes into the stream, behind what st holds.                   *)
WritesTo(st, announced, size) ==
    \/ WriteFails(st, announced, size) /\ Sys_Error(size)
    \/ /\ ~WriteFails(st, announced, size)
       /\ Counted
       /\ written' = written \cup {writes + 1}
       /\ Stage(Write(st, NextBlock("stream"), announced, size))
       /\ UNCHANGED <<state, reliable_buf, sys_error, received>>

(* Prints, frags, user info, ..., and the reliable_datagram of a frame,    *)
(* which may be larger than the message of a client with a small mtu: a    *)
(* caller announces at most how much it will write.                        *)
WriteReliable ==
    /\ Running /\ Active
    /\ \E announced \in Sizes : \E size \in 1 .. announced :
          /\ WritesTo(Staging, announced, size)
          /\ UNCHANGED <<thrown, forgotten>>

(* A block written straight to netchan.message, after st was made.         *)
DirectTo(st, size) ==
    \/ SZ_Fails(st.message, size) /\ Sys_Error(size)
    \/ /\ ~SZ_Fails(st.message, size)
       /\ Counted
       /\ message' = SZ_Write(st.message, <<NextBlock("direct")>>, size)
       /\ backbufs' = st.backbufs
       /\ UNCHANGED <<state, reliable_buf, sys_error, written, received>>

(* Downloads, logins and Cmd_Begin_f write to netchan.message, whatever    *)
(* waits in the back buffers.                                              *)
WriteDirect ==
    /\ Running
    /\ \E size \in Sizes : DirectTo(Staging, size)
    /\ UNCHANGED <<thrown, forgotten>>

(* A signon command throws these blocks away.  SZ_Clear also forgets that  *)
(* the message has overflowed, or the svc_disconnect that waits in it.     *)
Throws(blocks) ==
    /\ thrown' = thrown \cup Numbers(blocks)
    /\ forgotten' = (\/ forgotten \/ message.overflowed
                     \/ Disconnect \in Range(message.data))

(* A signon command ("new" of a zombie, too) throws everything away when   *)
(* something is back buffered, or when it belongs to another level (with   *)
(* SV_ClearReliable), then writes straight to netchan.message.             *)
Signon(otherLevel) ==
    LET restarts == otherLevel \/ backbufs # << >>
    IN  /\ Running /\ state # "spawned"
        /\ \E size \in Sizes :
              DirectTo(IF restarts THEN Restarted(Staging) ELSE Staging, size)
        /\ IF restarts /\ sys_error' = 0
           THEN Throws(message.data \o Saved)
           ELSE UNCHANGED <<thrown, forgotten>>

(* Cmd_Spawn_f throws the message away, but not the back buffers, before   *)
(* it writes the first of its blocks.                                      *)
Cmd_Spawn ==
    /\ Running /\ state = "connected"
    /\ \E announced \in Sizes : \E size \in 1 .. announced :
          WritesTo(Cleared(Staging), announced, size)
    /\ IF sys_error' = 0 THEN Throws(message.data)
                         ELSE UNCHANGED <<thrown, forgotten>>

(* Cmd_Begin_f of the current level asks only that the client is not yet   *)
(* spawned: a zombie's goes through.                                       *)
Cmd_Begin ==
    /\ Running /\ state # "spawned"
    /\ state' = "spawned"
    /\ IF state = "zombie"
       THEN writes < MaxWrites /\ writes' = writes + 1
       ELSE UNCHANGED writes
    /\ UNCHANGED <<message, backbufs, reliable_buf, sys_error, history,
                   received>>

(* The server changes level.                                               *)
SV_SaveSpawnparms ==
    /\ Running /\ state = "spawned"
    /\ state' = "connected"
    /\ UNCHANGED <<message, backbufs, reliable_buf, sys_error, writes,
                   history, received>>

-----------------------------------------------------------------------------
(* SV_SendClientMessages for this client.                                  *)

(* SV_UpdateToReliableMessages appends the reliable_datagram of the frame,  *)
(* here empty (one that is not is a WriteReliable before the frame): even  *)
(* so it may take a new back buffer, and repeats an overflow.              *)
Updated ==
    {IF Active
     THEN ClientReliableWrite(ClientReliableCheckBlock(Staging, 0), << >>, 0)
     ELSE Staging}

(* Mutant of MovesBackbuf: the back buffers are forgotten.                 *)
MovesBackbuf_Never(st) == FALSE

(* "will it fit?"                                                          *)
MovesBackbuf(st) ==
    /\ st.backbufs # << >>
    /\ st.message.cursize + Head(st.backbufs).cursize < MaxSize

(* Mutant of MoveBackbuf: appends the newest back buffer, not the oldest.  *)
MoveBackbuf_Newest(st) ==
    [message  |-> SZ_Write(st.message, Last(st.backbufs).data,
                           Last(st.backbufs).cursize),
     backbufs |-> Front(st.backbufs)]

(* The oldest back buffer is appended to the message and the others move   *)
(* up.  cl->backbuf is rebuilt with memset, without its flags.             *)
MoveBackbuf(st) ==
    LET rest == Tail(st.backbufs)
    IN  [message  |-> SZ_Write(st.message, Head(st.backbufs).data,
                               Head(st.backbufs).cursize),
         backbufs |->
            [i \in DOMAIN rest |->
                IF i < Len(rest) THEN rest[i]
                ELSE [rest[i] EXCEPT !.allowoverflow = FALSE,
                                     !.overflowed = FALSE]]]

(* The staging area when SV_SendClientMessages comes to this client.       *)
Moved == {IF MovesBackbuf(st) THEN MoveBackbuf(st) ELSE st : st \in Updated}

(* Mutant of OverflowDrops: an overflowed message is sent like any other.  *)
OverflowDrops_Never(buf) == FALSE

OverflowDrops(buf) == buf.overflowed

(* Netchan_Transmit sends nothing when the message has overflowed, and     *)
(* takes it when nothing is in flight.                                     *)
Netchan_Transmit(st) ==
    LET buf == st.message
    IN  /\ backbufs' = st.backbufs
        /\ IF reliable_buf = << >> /\ buf.cursize > 0 /\ ~OverflowDrops(buf)
           THEN /\ reliable_buf' = buf.data
                /\ message' = [buf EXCEPT !.data = << >>, !.cursize = 0]
           ELSE /\ message' = buf
                /\ UNCHANGED reliable_buf

(* The client has not sent a packet, or is choked.                         *)
SV_SendClientMessages_Waits ==
    \E st \in Moved :
        /\ Running
        /\ ~OverflowDrops(st.message)
        /\ Stage(st)
        /\ UNCHANGED <<state, reliable_buf, sys_error, writes, history,
                       received>>

SV_SendClientMessages ==
    \E st \in Moved :
        /\ Running
        /\ ~OverflowDrops(st.message)
        /\ Netchan_Transmit(st)
        /\ UNCHANGED <<state, sys_error, writes, history, received>>

(* SV_SendClientDatagram of a client in the game first writes its changed  *)
(* statistics, when Netchan_CanReliable.                                   *)
SV_SendClientMessages_Stats ==
    \E st \in Moved, size \in Sizes :
        /\ Running /\ state = "spawned"
        /\ reliable_buf = << >>
        /\ ~OverflowDrops(st.message)
        /\ \/ WriteFails(st, size, size) /\ Sys_Error(size)
           \/ /\ ~WriteFails(st, size, size)
              /\ Counted
              /\ written' = written \cup {writes + 1}
              /\ Netchan_Transmit(Write(st, NextBlock("stream"), size, size))
              /\ UNCHANGED <<state, sys_error, thrown, forgotten, received>>

(* SV_BroadcastPrintf reaches this client, with a notice of some size, if   *)
(* it is still connected and wants messages of that level.                 *)
NoticeSizes == {0} \cup (IF Active THEN Sizes ELSE {})

Announced(st, size) == IF size = 0 THEN st ELSE Write(st, Notice, size, size)

AnnouncingFails(st, size) == size # 0 /\ WriteFails(st, size, size)

WithDisconnect(st) == [st EXCEPT !.message = SZ_Write(@, <<Disconnect>>, 1)]

(* The overflowed message is cleared, the overflow announced, the client   *)
(* dropped and its last message sent at once.                              *)
SV_SendClientMessages_Overflow ==
    \E st \in Moved, size \in NoticeSizes :
        LET cleared == Cleared(st)
        IN  /\ Running
            /\ OverflowDrops(st.message)
            /\ \/ AnnouncingFails(cleared, size) /\ Sys_Error(size)
               \/ /\ ~AnnouncingFails(cleared, size)
                  /\ Netchan_Transmit(WithDisconnect(Announced(cleared, size)))
                  /\ state' = "zombie"
                  /\ UNCHANGED <<sys_error, writes, history, received>>

(* SV_DropClient for any other reason.                                     *)
SV_DropClient ==
    /\ Running /\ Active
    /\ Stage(WithDisconnect(Staging))
    /\ state' = "zombie"
    /\ UNCHANGED <<reliable_buf, sys_error, writes, history, received>>

(* SV_CheckTimeouts drops and frees a silent client, and frees a zombie    *)
(* after zombietime.                                                       *)
SV_CheckTimeouts ==
    \E size \in NoticeSizes :
        /\ Running
        /\ \/ AnnouncingFails(Staging, size) /\ Sys_Error(size)
           \/ /\ ~AnnouncingFails(Staging, size)
              /\ Stage(IF Active
                       THEN WithDisconnect(Announced(Staging, size))
                       ELSE Staging)
              /\ state' = "free"
              /\ UNCHANGED <<reliable_buf, sys_error, writes, history,
                             received>>

(* Netchan_Process sees the acknowledgement of the reliable message.       *)
Acknowledge ==
    /\ Running
    /\ reliable_buf # << >>
    /\ received' = received \o reliable_buf
    /\ reliable_buf' = << >>
    /\ UNCHANGED <<state, message, backbufs, sys_error, writes, history>>

Next ==
    \/ WriteReliable
    \/ WriteDirect
    \/ \E otherLevel \in BOOLEAN : Signon(otherLevel)
    \/ Cmd_Spawn
    \/ Cmd_Begin
    \/ SV_SaveSpawnparms
    \/ SV_SendClientMessages_Waits
    \/ SV_SendClientMessages
    \/ SV_SendClientMessages_Stats
    \/ SV_SendClientMessages_Overflow
    \/ SV_DropClient
    \/ SV_CheckTimeouts
    \/ Acknowledge

Spec == Init /\ [][Next]_vars

(* The server runs its frames, the client keeps sending packets and is not *)
(* choked for ever, and Netchan gets a reliable message through in time.   *)
Fairness ==
    /\ WF_vars(SV_SendClientMessages)
    /\ WF_vars(SV_SendClientMessages_Overflow)
    /\ WF_vars(Acknowledge)

LiveSpec == Spec /\ Fairness

-----------------------------------------------------------------------------
(* Properties.                                                             *)

TypeOK ==
    /\ state \in {"connected", "spawned", "zombie", "free"}
    /\ message \in SizeBuf
    /\ backbufs \in Seq(SizeBuf) /\ Len(backbufs) <= MAX_BACK_BUFFERS
    /\ reliable_buf \in Seq(Block)
    /\ sys_error \in Nat
    /\ writes \in 0 .. MaxWrites
    /\ written \subseteq 1 .. writes
    /\ thrown \subseteq Nat /\ forgotten \in BOOLEAN
    /\ received \in Seq(Block)

Everything == received \o reliable_buf \o message.data \o Saved

Lost == message.overflowed \/ Disconnect \in Range(Everything)

Due == written \ thrown

(* As long as no buffer has overflowed, every block of the stream is       *)
(* received, in flight or waiting, once and in order, but for those that a *)
(* signon command has thrown away: spilling into back buffers and moving   *)
(* them up (sv_nchan.c, SV_SendClientMessages) neither loses nor reorders  *)
(* one.                                                                    *)
StreamIntact ==
    ~Lost /\ ~forgotten => InOrder(Everything) /\ Numbers(Everything) = Due

BeforeDrop(blocks) ==
    LET drops == {i \in DOMAIN blocks : blocks[i].via = "drop"}
    IN  SubSeq(blocks, 1, IF drops = {} THEN Len(blocks) ELSE Min(drops) - 1)

(* "this will drop the client" (sv_nchan.c): when an overflow has lost     *)
(* blocks, the client is told to disconnect before it gets anything        *)
(* written after them.  Not so when a signon command, Cmd_Spawn_f above    *)
(* all, has forgotten the overflow: then the client goes on past the gap.  *)
PrefixUntilDropped ==
    LET got == BeforeDrop(received \o reliable_buf)
    IN  ~forgotten =>
            /\ InOrder(got)
            /\ \A n \in Numbers(got), k \in Due \ Numbers(got) : n < k

(* The buffers are managed so that SZ_GetSpace never ends the server, even *)
(* in a back buffer that has lost allowoverflow by moving up, and none is  *)
(* used beyond the last.  The one exception is a block that an empty       *)
(* buffer could not hold: the reliable_datagram of a frame (sv_send.c),    *)
(* which is not cut to the mtu of the client.                              *)
NoSysError == TypeOK /\ (sys_error # 0 => sys_error > MaxSize)

(* The oldest back buffer is full to the last byte, and SV_SendClient-     *)
(* Messages, which leaves one byte free, never moves it up.                *)
Stalled == backbufs # << >> /\ Head(backbufs).cursize >= MaxSize

(* "we would probably overflow the buffer, save it for next" (sv_nchan.c): *)
(* what waits in a back buffer reaches the client in the end, unless the   *)
(* client goes away, a signon command throws it away or forgets that it    *)
(* was lost, the server ends, or a full back buffer stands before it.      *)
SavedIsSent ==
    \A n \in 1 .. MaxWrites :
        n \in Numbers(Saved) ~> \/ ~Active \/ ~Running
                               \/ n \in Numbers(received)
                               \/ n \in thrown \/ forgotten
                               \/ Stalled

(* "cl->netchan.message.overflowed = true; // this will drop the client"   *)
(* (sv_nchan.c): an overflow of a back buffer is not forgotten while the   *)
(* stream goes on.  It does not hold: Cmd_Spawn_f clears the flag and      *)
(* keeps the back buffers; forgotten remembers it.                         *)
OverflowDropsClient ==
    [][message.overflowed /\ ~message'.overflowed =>
          state' = "zombie" \/ backbufs' = << >>]_vars

(* "drop->state = cs_zombie; // become free in a few seconds" (sv_main.c): *)
(* a dropped client does not come back.                                    *)
DroppedForGood == [][state = "zombie" => ~Active']_vars

=============================================================================
