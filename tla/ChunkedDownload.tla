--------------------------- MODULE ChunkedDownload ---------------------------
(***************************************************************************)
(* Files that a client downloads block by block: the client asks for       *)
(* blocks in unreliable commands, several in a packet, and the server      *)
(* answers the first of them in the datagram of its next packet and the    *)
(* others at once, out of band.  Blocks come in any order, more than once  *)
(* or never; the client keeps a ring of MAXBLOCKS flags from the first     *)
(* block it misses.  The beginning of a file, its end and the request for  *)
(* the next one are reliable.                                              *)
(*                                                                         *)
(* A packet of either direction carries a reliable part, delivered once    *)
(* and in order, and an unreliable part, which may get lost (Netchan).     *)
(***************************************************************************)
EXTENDS Naturals, Sequences, FiniteSets

CONSTANTS
    Sizes,        \* the blocks of each file the client lacks
    Denied,       \* those the server does not give away
    MAXBLOCKS,    \* flags in the ring
    Chunks,       \* cl_chunksperframe
    ServerChunks, \* sv_downloadchunksperframe
    MaxPackets,   \* packets under way in each direction
    MaxOob,       \* blocks under way out of band
    MaxFaults,    \* unreliable messages lost or repeated
    MaxCommands   \* times the user asks for a file or stops one

Files == 1..Len(Sizes)

ASSUME ChunkedDownloadAssumption ==
    /\ Sizes \in Seq(Nat) /\ Sizes # <<>>
    /\ Denied \subseteq Files
    /\ {MAXBLOCKS, Chunks, ServerChunks, MaxPackets, MaxOob} \subseteq Nat \ {0}
    /\ {MaxFaults, MaxCommands} \subseteq Nat

VARIABLES
    upload,    \* the file the server has open for the client, or 0
    sOut,      \* the slot's netchan.message
    datagram,  \* blocks in the slot's datagram
    reply,     \* send_message: the server owes the client a packet
    version,   \* what *version in its serverinfo says it is
    name,      \* the file asked for last (cls.downloadname), or 0
    opened,    \* the name the open file was given (cls.download), or 0
    started,   \* the file the server named when it was opened (svname)
    method,    \* cls.downloadmethod
    number,    \* chunked_download_number
    size,      \* downloadsize, in blocks
    first,     \* firstblock
    received,  \* recievedblock
    cycle,     \* blockcycle, of which only the remainder counts
    disk,      \* block of the open file -> where it came from
    saved,     \* file -> what it held when it got its final name
    list,      \* files still to ask for
    cOut,      \* cls.netchan.message
    toServer, toClient, oob, \* the network
    faults, commands         \* what the bounds leave

server == <<upload, sOut, datagram, reply, version>>
ring   == <<size, first, received, cycle>>
client == <<name, opened, started, method, number, ring, disk, saved, list, cOut>>
net    == <<toServer, toClient, oob>>
limits == <<faults, commands>>
vars   == <<server, client, net, limits>>

None == [b \in {} |-> 0]

\* The bounds: faults of the network or commands of the user, not both
Undisturbed == commands = MaxCommands
Faultless   == faults = MaxFaults

\* and only one block out of band at a time once the user did something
OobRoom == IF Undisturbed THEN MaxOob ELSE 1

-----------------------------------------------------------------------------
(* Client: the ring of blocks *)

Slot(b) == b % MAXBLOCKS

\* Blocks of the window that are missing and not beyond the end of the file
Missing == {b \in first .. first + MAXBLOCKS - 1 : b < size /\ ~received[Slot(b)]}

\* Block at an offset from the first
Block(c) == Slot(c) + first

\* CL_RequestADownloadChunk: the value of blockcycle that finds a block next
NextCycle(c) ==
    CHOOSE d \in c + 1 .. c + MAXBLOCKS :
        /\ Block(d) \in Missing
        /\ \A e \in c + 1 .. d - 1 : Block(e) \notin Missing

\* blockcycle after j requests of a frame
CycleAfter[j \in 0..Chunks] ==
    IF j = 0 THEN cycle ELSE NextCycle(CycleAfter[j - 1])

-----------------------------------------------------------------------------
(* Client: requests and ends *)

Failed == method = "error"

\* CL_CheckOrDownloadFile asks for the next file that is missing, with
\* commands c before it
RequestNext(c) ==
    IF list = <<>>
      THEN method' = "none" /\ cOut' = c /\ UNCHANGED <<name, list>>
      ELSE /\ name' = Head(list)
           /\ list' = Tail(list)
           /\ method' = "qw"
           /\ cOut' = Append(c, [cmd |-> "download", file |-> Head(list)])

\* Mutant: a refused file ends the whole list.
FinishDownload_NoNext(c, complete) ==
    /\ saved' = IF opened # 0 /\ complete
                  THEN [saved EXCEPT ![name] = [blocks |-> disk, size |-> size]]
                  ELSE saved
    /\ opened' = 0
    /\ disk' = None
    /\ IF complete THEN RequestNext(c)
                   ELSE method' = "none" /\ cOut' = c /\ UNCHANGED <<name, list>>

\* CL_FinishDownload: the file gets its name only when it is complete
FinishDownload(c, complete) ==
    /\ saved' = IF opened # 0 /\ complete
                  THEN [saved EXCEPT ![name] = [blocks |-> disk, size |-> size]]
                  ELSE saved
    /\ opened' = 0
    /\ disk' = None
    /\ RequestNext(c)

\* What is reliable leaves with a packet (go) once the previous has arrived,
\* and its acknowledgement, too
MayGo(go, q) == go => \A i \in 1..Len(q) : q[i].rel = <<>>

Transmit(go, data) ==
    /\ Len(toServer) < MaxPackets
    /\ MayGo(go, toServer)
    /\ toServer' = Append(toServer, [rel |-> IF go THEN cOut ELSE <<>>, data |-> data])
    /\ cOut' = IF go THEN <<>> ELSE cOut
    /\ UNCHANGED <<name, opened, started, method, number, size, first, received,
                   disk, saved, list, server, toClient, oob, limits>>

\* CL_SendCmd with CL_SendChunkDownloadReq before it, while blocks are missing
SendRequests(go) ==
    /\ method = "chunks" /\ Missing # {}
    /\ cycle' = CycleAfter[Chunks] % MAXBLOCKS
    /\ Transmit(go, [j \in 1..Chunks |->
                        [block |-> Block(CycleAfter[j]), number |-> number]])

\* Otherwise; packets that say nothing are those of a client that waits
SendNothing(go) ==
    /\ method # "chunks" /\ ~Failed
    /\ method = "qw" \/ cOut # <<>>
    /\ Transmit(go, <<>>)
    /\ UNCHANGED cycle

\* Mutant: complete when the last block has come.
Complete_Last == method = "chunks" /\ size - 1 \in DOMAIN disk

\* No block is missing
Complete == method = "chunks" /\ Missing = {}

NextDl == [cmd |-> "nextdl -1", file |-> 0]
StopDl == [cmd |-> "stopdl", file |-> 0]

\* How the server learns of it: only an MVDSV is said to know nextdl -1.  This
\* repository's server does, but announces EZQUAKE, and is sent stopdownload
\* (as stopdl is called, too), which it answers.
Ending == IF version = "MVDSV" THEN NextDl ELSE StopDl

\* The server is told so and the next file asked for
EndDownload ==
    /\ Complete
    /\ FinishDownload(Append(cOut, Ending), TRUE)
    /\ UNCHANGED <<started, number, ring, server, net, limits>>

\* The user's download command: it does not look whether one is under way, and
\* no file follows the one it asks for (dl_single)
CL_Download ==
    /\ ~Failed /\ commands > 0 /\ Faultless
    /\ commands' = commands - 1
    /\ \E f \in Files :
        /\ name' = f
        /\ cOut' = Append(cOut, [cmd |-> "download", file |-> f])
    /\ method' = "qw"
    /\ list' = <<>>
    /\ UNCHANGED <<opened, started, number, ring, disk, saved, server, net,
                   faults>>

\* The user's "cmd stopdl"
StopDownload ==
    /\ ~Failed /\ commands > 0 /\ Faultless /\ method # "none"
    /\ commands' = commands - 1
    /\ cOut' = Append(cOut, StopDl)
    /\ UNCHANGED <<name, opened, started, method, number, ring, disk, saved,
                   list, server, net, faults>>

-----------------------------------------------------------------------------
(* Client: what it receives *)

\* The part of CL_ParseChunkedDownload that opens a file or takes a refusal
Start(m, c) ==
    IF m.size = "none"
      THEN FinishDownload(c, FALSE) /\ UNCHANGED <<started, number, ring>>
    ELSE IF method = "chunks"
      THEN /\ method' = "error"      \* "Received second download"
           /\ UNCHANGED <<name, opened, started, number, ring, disk, saved, list, cOut>>
      ELSE /\ opened' = name
           /\ started' = m.file
           /\ method' = "chunks"
           /\ number' = number + 1
           /\ size' = Sizes[m.file]
           /\ first' = 0
           /\ cycle' = MAXBLOCKS - 1
           /\ received' = [i \in 0 .. MAXBLOCKS - 1 |-> FALSE]
           /\ disk' = None
           /\ UNCHANGED <<name, saved, list, cOut>>

\* Flags and first block after the flag of block b is set: those of blocks
\* received in a row are cleared again
NewFirst(r) ==
    CHOOSE f \in first .. first + MAXBLOCKS :
        /\ \A b \in first .. f - 1 : r[Slot(b)]
        /\ f = first + MAXBLOCKS \/ ~r[Slot(f)]

\* Mutant: the flags keep their values when the window moves on.
Cleared_Not(r) == r

Cleared(r) ==
    [i \in DOMAIN r |-> r[i] /\ ~\E b \in first .. NewFirst(r) - 1 : Slot(b) = i]

\* Mutant: a block ahead of the window is taken.
Wanted_Ahead(b) == b >= first /\ ~received[Slot(b)]

Wanted(b) == b \in first .. first + MAXBLOCKS - 1 /\ ~received[Slot(b)]

\* The other part: a block m from where it says
Chunk(m, via) ==
    IF opened = 0
      THEN UNCHANGED <<method, first, received, disk>>
    ELSE IF method # "chunks"
      THEN method' = "error" /\ UNCHANGED <<first, received, disk>>
    ELSE IF ~Wanted(m.block)
      THEN UNCHANGED <<method, first, received, disk>>
    ELSE LET r == [received EXCEPT ![Slot(m.block)] = TRUE]
         IN  /\ first' = NewFirst(r)
             /\ received' = Cleared(r)
             /\ disk' = [b \in DOMAIN disk \cup {m.block} |->
                           IF b = m.block THEN [file |-> m.file, via |-> via]
                           ELSE disk[b]]
             /\ UNCHANGED method

\* CL_ParseServerMessage, one message of the packet at a time
ParseStart ==
    /\ ~Failed
    /\ toClient # <<>> /\ Head(toClient).rel # <<>>
    /\ toClient' = <<[Head(toClient) EXCEPT !.rel = Tail(@)]>> \o Tail(toClient)
    /\ Start(Head(Head(toClient).rel), cOut)
    /\ UNCHANGED <<server, toServer, oob, limits>>

ParseDatagram ==
    /\ ~Failed
    /\ toClient # <<>> /\ Head(toClient).rel = <<>>
    /\ toClient' = Tail(toClient)
    /\ IF Head(toClient).data = <<>>
         THEN UNCHANGED <<method, first, received, disk>>
         ELSE Chunk(Head(Head(toClient).data), "datagram")
    /\ UNCHANGED <<name, opened, started, number, size, cycle, saved, list, cOut, server,
                   toServer, oob, limits>>

\* Mutant: chunks of any download are taken.
OfThisDownload_Any(m) == TRUE

OfThisDownload(m) == m.number = number

\* CL_Parse_OOB_ChunkedDownload; the network may deliver the packet again
ParseOob ==
    /\ ~Failed
    /\ \E m \in oob :
        /\ \/ oob' = oob \ {m} /\ UNCHANGED faults
           \/ faults > 0 /\ Undisturbed
              /\ faults' = faults - 1 /\ UNCHANGED oob
        /\ IF OfThisDownload(m) THEN Chunk(m, "oob")
                                ELSE UNCHANGED <<method, first, received, disk>>
    /\ UNCHANGED <<name, opened, started, number, size, cycle, saved, list, cOut, server,
                   toServer, toClient, commands>>

-----------------------------------------------------------------------------
(* Server *)

StartOf(f) == [size |-> IF f \in Denied THEN "none" ELSE "known", file |-> f]

Stopped == [size |-> "none", file |-> 0]

\* A reliable command of a packet, in state s of the slot
\* (Cmd_Download_f, SV_CompleteDownoload, Cmd_StopDownload_f)
Command(s, c) ==
    CASE c.cmd = "download" ->
            [s EXCEPT !.upload = IF c.file \in Denied THEN s.upload ELSE c.file,
                      !.out = Append(s.out, StartOf(c.file))]
      [] c.cmd = "nextdl -1" -> [s EXCEPT !.upload = 0]
      [] c.cmd = "stopdl" ->
            IF s.upload = 0 THEN s
            ELSE [s EXCEPT !.upload = 0, !.out = Append(s.out, Stopped)]

\* SV_NextChunkedDownload: the first block of a packet goes into the datagram
\* if it has room, the next ones out of band, with the request's number
NextChunk(s, r) ==
    LET m == [block |-> r.block, file |-> s.upload, number |-> r.number]
        exists == s.upload # 0 => r.block < Sizes[s.upload]
    IN  IF s.upload = 0 \/ s.sent >= ServerChunks \/ (s.sent = 0 /\ s.data # <<>>)
          THEN s
        ELSE IF ~exists
          THEN [s EXCEPT !.sent = @ + 1]
        ELSE IF s.sent = 0
          THEN [s EXCEPT !.data = <<m>>, !.sent = 1]
          ELSE [s EXCEPT !.oob = @ \cup {m}, !.sent = @ + 1]

\* SV_ExecuteClientMessage, the reliable commands first
Executed(p) ==
    LET start == [upload |-> upload, out |-> sOut, data |-> datagram,
                  oob |-> {}, sent |-> 0]
        after[i \in 0 .. Len(p.rel) + Len(p.data)] ==
            IF i = 0 THEN start
            ELSE IF i <= Len(p.rel) THEN Command(after[i - 1], p.rel[i])
            ELSE NextChunk(after[i - 1], p.data[i - Len(p.rel)])
    IN  after[Len(p.rel) + Len(p.data)]

ServerReceive ==
    /\ toServer # <<>>
    /\ LET s == Executed(Head(toServer)) IN
       /\ upload' = s.upload
       /\ sOut' = s.out
       /\ datagram' = s.data
       /\ Cardinality(oob \cup s.oob) <= OobRoom
       /\ oob' = oob \cup s.oob
    /\ reply' = TRUE
    /\ toServer' = Tail(toServer)
    /\ UNCHANGED <<version, client, toClient, limits>>

\* SV_SendClientMessages
ServerSend(go) ==
    /\ reply
    /\ Len(toClient) < MaxPackets
    /\ MayGo(go, toClient)
    /\ toClient' = Append(toClient,
           [rel |-> IF go THEN sOut ELSE <<>>, data |-> datagram])
    /\ sOut' = IF go THEN <<>> ELSE sOut
    /\ datagram' = <<>>
    /\ reply' = FALSE
    /\ UNCHANGED <<upload, version, client, toServer, oob, limits>>

\* An unreliable message or the unreliable part of a packet is lost
Lose ==
    /\ faults > 0 /\ Undisturbed
    /\ faults' = faults - 1
    /\ \/ \E i \in 1..Len(toServer) :
            /\ toServer[i].data # <<>>
            /\ toServer' = [toServer EXCEPT ![i].data = <<>>]
            /\ UNCHANGED <<toClient, oob>>
       \/ \E i \in 1..Len(toClient) :
            /\ toClient[i].data # <<>>
            /\ toClient' = [toClient EXCEPT ![i].data = <<>>]
            /\ UNCHANGED <<toServer, oob>>
       \/ \E m \in oob : oob' = oob \ {m} /\ UNCHANGED <<toServer, toClient>>
    /\ UNCHANGED <<server, client, commands>>

-----------------------------------------------------------------------------

Versions == {"MVDSV", "EZQUAKE"}

\* The client found out which files it lacks and asked for the first
Init ==
    /\ version \in Versions
    /\ upload = 0 /\ sOut = <<>> /\ datagram = <<>> /\ reply = FALSE
    /\ name = 1 /\ opened = 0 /\ started = 0
    /\ method = "qw" /\ number = 0
    /\ size = 0 /\ first = 0 /\ cycle = 0
    /\ received = [i \in 0 .. MAXBLOCKS - 1 |-> FALSE]
    /\ disk = None
    /\ saved = [f \in Files |-> [blocks |-> None, size |-> 0]]
    /\ list = [i \in 1 .. Len(Sizes) - 1 |-> i + 1]
    /\ cOut = <<[cmd |-> "download", file |-> 1]>>
    /\ toServer = <<>> /\ toClient = <<>> /\ oob = {}
    /\ faults = MaxFaults /\ commands = MaxCommands

ClientFrame(go) == SendRequests(go) \/ SendNothing(go)

Parse == ParseStart \/ ParseDatagram \/ ParseOob

Next ==
    \/ \E go \in BOOLEAN : ClientFrame(go) \/ ServerSend(go)
    \/ EndDownload \/ Parse \/ ServerReceive
    \/ CL_Download \/ StopDownload \/ Lose

Spec == Init /\ [][Next]_vars

\* Both programs run their frames, packets arrive, and the reliable part of a
\* packet does not wait for ever
FairSpec ==
    /\ Spec
    /\ WF_vars(\E go \in BOOLEAN : ClientFrame(go))
    /\ SF_vars(ClientFrame(TRUE))
    /\ WF_vars(\E go \in BOOLEAN : ServerSend(go))
    /\ SF_vars(ServerSend(TRUE))
    /\ WF_vars(EndDownload) /\ WF_vars(ServerReceive) /\ WF_vars(Parse)

-----------------------------------------------------------------------------
(* Properties *)

\* What is said: reliable commands, the answers to them, requests and blocks
Cmd     == [cmd : {"download"}, file : Files] \cup {NextDl, StopDl}
Answer  == [size : {"none", "known"}, file : Files] \cup {Stopped}
Request == [block : Nat, number : Nat]
Data    == [block : Nat, file : Files, number : Nat]

\* The variables keep their types; the datagram holds one block at most.
TypeOK ==
    /\ upload \in 0..Len(Sizes) /\ name \in Files
    /\ opened \in 0..Len(Sizes) /\ started \in 0..Len(Sizes)
    /\ method \in {"none", "qw", "chunks", "error"}
    /\ number \in Nat /\ size \in Nat /\ first \in Nat
    /\ cycle \in 0 .. MAXBLOCKS - 1
    /\ received \in [0 .. MAXBLOCKS - 1 -> BOOLEAN]
    /\ list \in Seq(Files)
    /\ cOut \in Seq(Cmd) /\ sOut \in Seq(Answer)
    /\ datagram \in Seq(Data) /\ Len(datagram) <= 1
    /\ toServer \in Seq([rel : Seq(Cmd), data : Seq(Request)])
    /\ toClient \in Seq([rel : Seq(Answer), data : Seq(Data)])
    /\ oob \subseteq Data
    /\ reply \in BOOLEAN /\ version \in Versions
    /\ faults \in 0 .. MaxFaults /\ commands \in 0 .. MaxCommands

\* The flags of the ring tell the truth about the file: the blocks before the
\* first missing one and the flagged ones after it are on the disk, no other.
RingIsDisk ==
    /\ TypeOK
    /\ method = "chunks" =>
          /\ ~received[Slot(first)]
          /\ DOMAIN disk = (0 .. first - 1) \cup
               {b \in first .. first + MAXBLOCKS - 1 : received[Slot(b)]}

\* A file gets its final name only when each of its blocks has been written,
\* whatever was lost, repeated, late, asked for again or stopped.
SavedWhole ==
    \A f \in Files : 0 .. saved[f].size - 1 \subseteq DOMAIN saved[f].blocks

Blocks == {disk[b] : b \in DOMAIN disk}

\* The answer to a stopdownload is read as a refusal of the file asked for
\* since, and the client asks for the one after it.  There is none when no more
\* than one file follows the first that is given away; otherwise two are asked
\* for at a time from then on: one is written under the name of the other, or
\* "Received second download" ends the client.
OneAtATime ==
    version = "MVDSV" \/ \A f \in Files \ Denied : f + 1 >= Len(Sizes)

\* A block that came out of band is of the file that is being written, though
\* blocks of the file before it may still be on their way, and though a server
\* that is no MVDSV has answered the end of that file, too.
OobRight ==
    Undisturbed /\ OneAtATime
        => \A m \in Blocks : m.via = "oob" => m.file = started

\* So is every block ("here may be some packets which travel via network, so
\* we got packets from different file ... need somehow discard such packets").
\* Does not hold: the block in the datagram carries no number of a download.
RightData == \A m \in Blocks : m.file = started

\* The file is written under the name of the one the server sends.  Does not
\* hold: a stopdl answered after the last block is taken for a refusal.
RightName == opened # 0 => opened = started

\* The two errors about the state of a download never come up.  Does not hold
\* when the user asks for a file while another is on its way.
NoHostError == ~Failed

\* Every file the server gives away is complete in the end, and the server
\* has closed it, when the user does not interfere and one file at a time is
\* asked for.
AllSaved ==
    <>\/ ~(Undisturbed /\ OneAtATime)
      \/ /\ \A f \in Files \ Denied : saved[f].size = Sizes[f]
         /\ method = "none" /\ upload = 0
=============================================================================
