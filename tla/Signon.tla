------------------------------- MODULE Signon -------------------------------
(***************************************************************************)
(* How a connected client is brought into the game: it asks for the level  *)
(* data, the list of sounds, the list of models, the static part of the    *)
(* world and the players, one chunk at a time, and then begins.  Requests  *)
(* carry the server's spawncount; one of another level starts the client   *)
(* over.  Level changes, text broadcast in between, downloads of missing   *)
(* files and a restart of the video interleave with all of it.  A client   *)
(* told to reconnect asks for the level again while it is only connected,  *)
(* and otherwise leaves the game and connects anew.                        *)
(*                                                                         *)
(* Both directions are reliable streams (Netchan shows it): a side hands   *)
(* over all it wrote as one packet once the previous one has arrived.      *)
(* Sizes are counted in units of a sixth of a message.                     *)
(***************************************************************************)
EXTENDS Naturals, Sequences

CONSTANTS
    Sounds,       \* names in the level's list of sounds
    Models,       \* names in the level's list of models
    ByteValues,   \* values of the byte that says where a list goes on
    Statics,      \* static entities and baselines
    Buffers,      \* signon buffers
    BufferSize,   \* units of a signon buffer
    Players,      \* client slots
    Room,         \* units a message holds
    MaxLevel, MaxPrints, MaxDownloads, MaxRestarts

ASSUME SignonAssumption ==
    /\ {Sounds, Models, Statics, Buffers, BufferSize, Players} \subseteq Nat \ {0}
    /\ {ByteValues, Room, MaxLevel} \subseteq Nat \ {0}
    /\ {MaxPrints, MaxDownloads, MaxRestarts} \subseteq Nat
    /\ BufferSize <= Room

VARIABLES
    level,       \* svs.spawncount
    sstate,      \* the slot's state, or why the server dropped the client
    scount,      \* the level of the last "new" (client_t.spawncount)
    pext,        \* the server still asks for protocol extensions
    upload,      \* a file is open for the client (client_t.download)
    msg,         \* netchan.message of the slot
    back,        \* its backbuf
    toClient,    \* the packet on its way to the client
    sIn,         \* commands of the received packet still to execute
    cstate,      \* cls.state
    servercount, \* cl.servercount
    names,       \* what the lists brought since the last serverdata
    loaded,      \* level whose models were loaded from a complete list, or 0
    file,        \* a download file is open (cls.download)
    dltype,      \* cls.downloadtype
    stuffed,     \* cbuf_svc
    cOut,        \* the client's netchan.message
    cIn,         \* messages of the received packet still to parse
    toServer,    \* the packet on its way to the server
    prints, missing, restarts, \* what the bounds leave
    midway       \* a level changed while the client signed on

server == <<level, sstate, scount, pext, upload, msg, back, sIn>>
client == <<cstate, servercount, names, loaded, file, dltype, stuffed, cOut, cIn>>
inFlight == <<toClient, toServer>>
limits == <<prints, missing, restarts, midway>>
signonVars == <<server, client, inFlight, limits>>

-----------------------------------------------------------------------------
(* Messages *)

Stuff(c, l, n) == [op |-> "stuff", cmd |-> c, level |-> l, n |-> n]

\* Mutant: requests leave their checksum out.
Cmd_NoChecksum(c, l, n, s) ==
    [op |-> "cmd", cmd |-> c, level |-> l, n |-> n, sum |-> FALSE]

Cmd(c, l, n, s) == [op |-> "cmd", cmd |-> c, level |-> l, n |-> n, sum |-> s]

Text == [op |-> "text"]

ServerData == [op |-> "serverdata", level |-> level]

Download(last) == [op |-> "download", last |-> last]

\* names from+1 .. upto of a list, and the byte that says how to go on
List(kind, from, upto, next) ==
    [op |-> kind, level |-> level, from |-> from, upto |-> upto, next |-> next]

ItemSize(m) ==
    CASE m.op \in {"sounds", "models", "statics", "players"} -> m.upto - m.from
      [] m.op = "buffers" -> BufferSize
      [] m.op \in {"text", "download"} -> 1
      [] OTHER -> 0

Size(q) ==
    LET sum[n \in 0..Len(q)] ==
            IF n = 0 THEN 0 ELSE sum[n - 1] + ItemSize(q[n])
    IN  sum[Len(q)]

Half == Room \div 2

Lesser(a, b) == IF a < b THEN a ELSE b
Minus(a, b)  == IF a > b THEN a - b ELSE 0

\* ClientReliableCheckBlock and the write after it, the message being q and
\* the backbuf b
Blocks(q, b, m) ==
    IF b = <<>> /\ Size(q) + ItemSize(m) < Room
      THEN [msg |-> Append(q, m), back |-> b]
      ELSE [msg |-> q, back |-> Append(b, m)]

\* The first back buffer: what was packed into one message
FirstBuffer(b) ==
    LET fits == {k \in 0..Len(b) : Size(SubSeq(b, 1, k)) < Room}
    IN  SubSeq(b, 1, CHOOSE k \in fits : \A j \in fits : j <= k)

ReliableWrite(m) ==
    /\ msg'  = Blocks(msg, back, m).msg
    /\ back' = Blocks(msg, back, m).back

Reconnect == Stuff("reconnect", 0, 0)

ChangingReconnects == Stuff("changing reconnect", 0, 0)

-----------------------------------------------------------------------------
(* Server: the commands of a client that signs on *)

Command(c) == sIn # <<>> /\ Head(sIn).cmd = c /\ sIn' = Tail(sIn)

\* Cmd_New_f, with message q and backbuf b
New(q, b) ==
    /\ scount' = level
    /\ IF pext
         THEN /\ msg' = Append(q, Stuff("pext", 0, 0))
              /\ back' = b
              /\ UNCHANGED sstate
         ELSE /\ msg' = Append(IF b # <<>> THEN <<>> ELSE q, ServerData)
              /\ back' = <<>>
              /\ sstate' = "connected"
    /\ UNCHANGED <<level, pext, upload>>

Ignored == UNCHANGED <<level, sstate, scount, pext, upload, msg, back>>

Cmd_New_f ==
    /\ Command("new")
    /\ IF sstate = "spawned" THEN Ignored ELSE New(msg, back)
    /\ UNCHANGED <<client, inFlight, limits>>

Cmd_PEXT_f ==
    /\ Command("pext")
    /\ IF pext
         THEN /\ pext' = FALSE
              /\ msg' = Append(msg, Stuff("new", 0, 0))
              /\ UNCHANGED <<level, sstate, scount, upload, back>>
         ELSE Ignored
    /\ UNCHANGED <<client, inFlight, limits>>

\* The checks soundlist, modellist, prespawn and spawn open with; the answer
\* follows only for a client that is connected and of this level
Admit(c, answer) ==
    /\ Command(c)
    /\ IF sstate # "connected" THEN Ignored
       ELSE IF Head(sIn).level # level THEN New(<<>>, <<>>)
       ELSE answer /\ UNCHANGED <<level, scount, pext>>
    /\ UNCHANGED <<client, inFlight, limits>>

\* A message with something in the backbuf behind it is thrown away
Cleared == IF back # <<>> THEN <<>> ELSE msg

Cmd_Soundlist_f == Admit("soundlist",
    LET n    == Head(sIn).n
        upto == n + Lesser(Sounds - n, Minus(Half, Size(Cleared)))
        next == IF upto < Sounds THEN upto ELSE 0
    IN  /\ msg' = Append(Cleared, List("sounds", n, upto, next))
        /\ back' = <<>>
        /\ UNCHANGED <<sstate, upload>>)

\* Mutant: the chunk stops wherever the message is full.
ModelChunk_AnyEnd(n, size) == n + Lesser(Models - n, Minus(Half, size))

\* Last model of the chunk that starts after model n: the loop stops in a
\* full message, but never where the byte that says how to go on would be 0
ModelChunk(n, size) ==
    CHOOSE k \in n..Models :
        /\ \A i \in n..(k - 1) : i % ByteValues = 0 \/ size + (i - n) < Half
        /\ k = Models \/ ~(k % ByteValues = 0 \/ size + (k - n) < Half)

\* num_backbuf = 1 keeps the first back buffer where the other lists drop it
Cmd_Modellist_f == Admit("modellist",
    LET n    == Head(sIn).n
        upto == ModelChunk(n, Size(Cleared))
        next == IF upto < Models THEN upto % ByteValues ELSE 0
    IN  /\ msg' = Append(Cleared, List("models", n, upto, next))
        /\ back' = FirstBuffer(back)
        /\ UNCHANGED <<sstate, upload>>)

Cmd_PreSpawn_f == Admit("prespawn",
    LET n    == Head(sIn).n
        size == Size(Cleared)
        upto == IF n < Statics
                  THEN n + Lesser(Statics - n, Minus(Half, size)) ELSE n + 1
        kind == IF n < Statics THEN "statics" ELSE "buffers"
        more == IF upto = Statics + Buffers THEN Stuff("spawn", level, 0)
                                            ELSE Stuff("prespawn", level, upto)
    IN  IF n = 0 /\ ~Head(sIn).sum
          THEN sstate' = "dropped: map" /\ UNCHANGED <<msg, back, upload>>
        ELSE IF n >= Statics /\ size + BufferSize > Room
          THEN sstate' = "dropped: overflow" /\ UNCHANGED <<msg, back, upload>>
        ELSE /\ msg' = Cleared \o <<List(kind, n, upto, 0), more>>
             /\ back' = <<>>
             /\ UNCHANGED <<sstate, upload>>)

\* The message starts empty here whatever it held; updates of players go
\* through the backbuf when there is one, and then all of them fit
Cmd_Spawn_f == Admit("spawn",
    LET n    == Head(sIn).n
        upto == IF back # <<>> THEN Players ELSE n + Lesser(Players - n, Half)
        list == List("players", n, upto, 0)
        more == IF upto < Players THEN Stuff("spawn", level, upto)
                                  ELSE Stuff("skins", 0, 0)
    IN  /\ IF back # <<>>
             THEN msg' = <<>> /\ back' = back \o <<list, more>>
             ELSE msg' = <<list, more>> /\ UNCHANGED back
        /\ UNCHANGED <<sstate, upload>>)

\* Mutant: a client begins on whatever level the server is.
Cmd_Begin_AnyLevel ==
    /\ Command("begin")
    /\ IF sstate = "spawned" THEN Ignored
       ELSE /\ sstate' = "spawned"
            /\ UNCHANGED <<level, scount, pext, upload, msg, back>>
    /\ UNCHANGED <<client, inFlight, limits>>

Cmd_Begin_f ==
    /\ Command("begin")
    /\ IF sstate = "spawned" THEN Ignored
       ELSE IF Head(sIn).level # level THEN New(<<>>, <<>>)
       ELSE /\ sstate' = "spawned"
            /\ UNCHANGED <<level, scount, pext, upload, msg, back>>
    /\ UNCHANGED <<client, inFlight, limits>>

\* The last block of the file (a file has one or two): it is closed and a
\* client of an older level is told to reconnect (SV_CompleteDownoload)
LastBlock ==
    LET after == Blocks(msg, back, Download(TRUE))
        told  == Blocks(after.msg, after.back, ChangingReconnects)
    IN  /\ upload' = FALSE
        /\ msg'  = IF scount # level THEN told.msg ELSE after.msg
        /\ back' = IF scount # level THEN told.back ELSE after.back

\* the file is sent, or denied
Cmd_Download_f ==
    /\ Command("download")
    /\ \/ LastBlock
       \/ ReliableWrite(Download(FALSE)) /\ upload' = TRUE
       \/ ReliableWrite(Download(TRUE)) /\ UNCHANGED upload
    /\ UNCHANGED <<level, sstate, scount, pext, client, inFlight, limits>>

Cmd_NextDownload_f ==
    /\ Command("nextdl")
    /\ IF upload THEN LastBlock ELSE UNCHANGED <<upload, msg, back>>
    /\ UNCHANGED <<level, sstate, scount, pext, client, inFlight, limits>>

-----------------------------------------------------------------------------
(* Server: the rest of its frame *)

Alive == sstate \in {"preconnected", "connected", "spawned"}

Dropped == sstate \in {"dropped: map", "dropped: overflow"}

\* Mutant: the clients are not told to reconnect.
ChangeLevel_Silent ==
    /\ ~Dropped /\ sIn = <<>>
    /\ level < MaxLevel
    /\ midway' = (midway \/ sstate # "spawned")
    /\ level' = level + 1
    /\ sstate' = IF sstate = "spawned" THEN "connected" ELSE sstate
    /\ UNCHANGED <<scount, pext, upload, msg, back, sIn, client, inFlight,
                   prints, missing, restarts>>

\* SV_Map and SV_SpawnServer; whoever has a slot is told to reconnect
ChangeLevel ==
    /\ ~Dropped /\ sIn = <<>>
    /\ level < MaxLevel
    /\ midway' = (midway \/ sstate # "spawned")
    /\ level' = level + 1
    /\ sstate' = IF sstate = "spawned" THEN "connected" ELSE sstate
    /\ IF Alive THEN ReliableWrite(Reconnect) ELSE UNCHANGED <<msg, back>>
    /\ UNCHANGED <<scount, pext, upload, sIn, client, inFlight, prints, missing,
                   restarts>>

\* Any text, name or score broadcast to the clients
Broadcast ==
    /\ Alive /\ sIn = <<>>
    /\ prints > 0
    /\ prints' = prints - 1
    /\ ReliableWrite(Text)
    /\ UNCHANGED <<level, sstate, scount, pext, upload, sIn, client, inFlight,
                   missing, restarts, midway>>

\* SV_SendClientMessages: the first back buffer joins the message when it fits
ServerSend ==
    LET first == FirstBuffer(back)
        fits  == Size(msg) + Size(first) < Room
        out   == IF fits THEN msg \o first ELSE msg
    IN  /\ Alive /\ sIn = <<>>
        /\ toClient = <<>> /\ out # <<>>
        /\ toClient' = out
        /\ msg' = <<>>
        /\ back' = IF fits THEN SubSeq(back, Len(first) + 1, Len(back)) ELSE back
        /\ UNCHANGED <<level, sstate, scount, pext, upload, sIn, client,
                       toServer, limits>>

ServerReceive ==
    /\ Alive /\ sIn = <<>> /\ toServer # <<>>
    /\ sIn' = toServer
    /\ toServer' = <<>>
    /\ UNCHANGED <<level, sstate, scount, pext, upload, msg, back, client,
                   toClient, limits>>

-----------------------------------------------------------------------------
(* Client: what it loads *)

Lists == {"sounds", "models", "statics", "buffers", "players"}
NoNames == [k \in Lists |-> {}]

All(kind) ==
    CASE kind = "sounds"  -> 1..Sounds
      [] kind = "models"  -> 1..Models
      [] kind = "statics" -> 1..Statics
      [] kind = "buffers" -> Statics + 1 .. Statics + Buffers
      [] kind = "players" -> 1..Players

Holds(t, l, kind) == \A i \in All(kind) : <<l, i>> \in t[kind]

\* Sound_NextDownload, Model_NextDownload, VWepModel_NextDownload: either a
\* file is missing and is asked for, or all that is listed is loaded and
\* CL_Prespawn follows; without a name for the world model loading fails
NextListed(q, t) ==
    \/ /\ missing > 0
       /\ missing' = missing - 1
       /\ dltype' = "listed"
       /\ cOut' = Append(q, Cmd("download", 0, 0, FALSE))
       /\ UNCHANGED <<cstate, loaded>>
    \/ /\ dltype' = "listed"
       /\ UNCHANGED missing
       /\ IF \E l \in 1..MaxLevel : <<l, 1>> \in t["models"]
            THEN /\ cOut' = Append(q, Cmd("prespawn", servercount, 0, TRUE))
                 /\ loaded' = IF Holds(t, servercount, "models") THEN servercount ELSE 0
                 /\ UNCHANGED cstate
            ELSE cstate' = "failed" /\ UNCHANGED <<cOut, loaded>>

\* Skin_NextDownload
NextSkin(q) ==
    \/ /\ missing > 0 /\ cstate # "disconnected"
       /\ missing' = missing - 1
       /\ dltype' = "skin"
       /\ cOut' = Append(q, Cmd("download", 0, 0, FALSE))
    \/ /\ dltype' = "none"
       /\ cOut' = IF cstate = "onserver"
                    THEN Append(q, Cmd("begin", servercount, 0, FALSE)) ELSE q
       /\ UNCHANGED missing

-----------------------------------------------------------------------------
(* Client: parsing a packet *)

Running == cstate \notin {"failed", "died"}

ClientReceive ==
    /\ Running /\ cstate # "disconnected" /\ cIn = <<>> /\ stuffed = <<>> /\ toClient # <<>>
    /\ cIn' = toClient
    /\ toClient' = <<>>
    /\ UNCHANGED <<server, cstate, servercount, names, loaded, file, dltype,
                   stuffed, cOut, toServer, limits>>

Parses(op) == Running /\ cIn # <<>> /\ Head(cIn).op = op /\ cIn' = Tail(cIn)

ParseText ==
    /\ Parses("text")
    /\ UNCHANGED <<server, cstate, servercount, names, loaded, file, dltype,
                   stuffed, cOut, inFlight, limits>>

ParseStufftext ==
    /\ Parses("stuff")
    /\ stuffed' = Append(stuffed, Head(cIn))
    /\ UNCHANGED <<server, cstate, servercount, names, loaded, file, dltype,
                   cOut, inFlight, limits>>

\* Mutant: the list of models is asked for along with the list of sounds.
ParseServerData_BothLists ==
    /\ Parses("serverdata")
    /\ stuffed = <<>>
    /\ servercount' = Head(cIn).level
    /\ names' = NoNames
    /\ loaded' = 0
    /\ IF cstate = "disconnected"
         THEN cstate' = "died" /\ UNCHANGED cOut
         ELSE /\ cstate' = "onserver"
              /\ cOut' = <<Cmd("soundlist", servercount', 0, FALSE),
                          Cmd("modellist", servercount', 0, FALSE)>>
    /\ UNCHANGED <<server, file, dltype, stuffed, inFlight, limits>>

\* Commands stuffed before are executed first; what the client wrote and has
\* not sent yet is lost (CL_ClearState).  Without a connection there is no
\* message to write to, and SZ_GetSpace ends the program
ParseServerData ==
    /\ Parses("serverdata")
    /\ stuffed = <<>>
    /\ servercount' = Head(cIn).level
    /\ names' = NoNames
    /\ loaded' = 0
    /\ IF cstate = "disconnected"
         THEN cstate' = "died" /\ UNCHANGED cOut
         ELSE /\ cstate' = "onserver"
              /\ cOut' = <<Cmd("soundlist", servercount', 0, FALSE)>>
    /\ UNCHANGED <<server, file, dltype, stuffed, inFlight, limits>>

Store(m) ==
    names' = [names EXCEPT ![m.op] =
                @ \cup {<<m.level, i>> : i \in m.from + 1 .. m.upto}]

\* Mutant: the first chunk counts as the whole list.
ParseSoundlist_OneChunk ==
    /\ Parses("sounds")
    /\ Store(Head(cIn))
    /\ cOut' = Append(cOut, Cmd("modellist", servercount, 0, FALSE))
    /\ UNCHANGED <<server, cstate, servercount, loaded, file, dltype, stuffed,
                   inFlight, limits>>

\* Mutant: no list of models is asked for.
ParseSoundlist_NoModels ==
    /\ Parses("sounds")
    /\ LET m == Head(cIn) IN
       /\ Store(m)
       /\ IF m.next # 0
            THEN /\ cOut' = Append(cOut, Cmd("soundlist", servercount, m.next, FALSE))
                 /\ UNCHANGED <<cstate, loaded, dltype, missing>>
            ELSE NextListed(cOut, names')
    /\ UNCHANGED <<server, servercount, file, stuffed, inFlight, prints, restarts, midway>>

ParseSoundlist ==
    /\ Parses("sounds")
    /\ LET m == Head(cIn) IN
       /\ Store(m)
       /\ cOut' = Append(cOut,
            IF m.next # 0 THEN Cmd("soundlist", servercount, m.next, FALSE)
                          ELSE Cmd("modellist", servercount, 0, FALSE))
    /\ UNCHANGED <<server, cstate, servercount, loaded, file, dltype, stuffed,
                   inFlight, limits>>

\* The last name of the chunk tells what the byte leaves out
ParseModellist ==
    /\ Parses("models")
    /\ LET m == Head(cIn)
           high == m.upto - (m.upto % ByteValues)
       IN  /\ Store(m)
           /\ IF m.next # 0
                THEN /\ cOut' = Append(cOut, Cmd("modellist", servercount,
                                                 high + m.next, FALSE))
                     /\ UNCHANGED <<cstate, loaded, dltype, missing>>
                ELSE NextListed(cOut, names')
    /\ UNCHANGED <<server, servercount, file, stuffed, inFlight, prints, restarts, midway>>

ParseStatic ==
    /\ \/ Parses("statics") \/ Parses("buffers") \/ Parses("players")
    /\ Store(Head(cIn))
    /\ UNCHANGED <<server, cstate, servercount, loaded, file, dltype, stuffed,
                   cOut, inFlight, limits>>

\* CL_ParseDownload; after the last block, or a refusal, CL_FinishDownload
\* goes on with whatever cls.downloadtype says
ParseDownload ==
    /\ Parses("download")
    /\ file' = ~Head(cIn).last
    /\ IF ~Head(cIn).last
         THEN /\ cOut' = Append(cOut, Cmd("nextdl", 0, 0, FALSE))
              /\ UNCHANGED <<cstate, loaded, dltype, missing>>
       ELSE IF dltype = "listed" THEN NextListed(cOut, names)
       ELSE IF dltype = "skin"
         THEN NextSkin(cOut) /\ UNCHANGED <<cstate, loaded>>
       ELSE UNCHANGED <<cstate, loaded, dltype, missing, cOut>>
    /\ UNCHANGED <<server, servercount, names, stuffed, inFlight, prints, restarts, midway>>

-----------------------------------------------------------------------------
(* Client: stuffed commands, then the packet it sends *)

\* At the end of a packet, or before a serverdata
Executes(c) ==
    /\ Running
    /\ cIn # <<>> => Head(cIn).op = "serverdata"
    /\ stuffed # <<>> /\ Head(stuffed).cmd \in c
    /\ stuffed' = Tail(stuffed)
    /\ UNCHANGED <<servercount, names, loaded, cIn, prints, restarts, midway>>

Execute(c) == Executes(c) /\ UNCHANGED <<server, file, inFlight>>

\* "cmd ..." texts send themselves back
ForwardToServer ==
    /\ Execute({"pext", "new", "prespawn", "spawn"})
    /\ LET c == Head(stuffed)
       IN  cOut' = IF cstate = "disconnected" THEN cOut
                   ELSE Append(cOut, Cmd(c.cmd, c.level, c.n, FALSE))
    /\ UNCHANGED <<cstate, dltype, missing>>

AskNew == cOut' = Append(cOut, Cmd("new", 0, 0, FALSE))

\* Host_EndGame and CL_Disconnect: the slot gets three drops
EndGame ==
    /\ cstate' = "disconnected"
    /\ file' = FALSE /\ dltype' = "none" /\ cOut' = <<>>
    /\ sstate' = IF Alive THEN "left" ELSE sstate
    /\ upload' = FALSE
    /\ msg' = <<>> /\ back' = <<>> /\ sIn' = <<>>
    /\ toClient' = <<>> /\ toServer' = <<>>
    /\ UNCHANGED <<level, scount, pext>>

\* CL_Reconnect_f: not while a download file is open
Reconnect_f ==
    /\ Executes({"reconnect"})
    /\ IF file \/ cstate = "connected"
         THEN /\ IF file THEN UNCHANGED cOut ELSE AskNew
              /\ UNCHANGED <<server, inFlight, cstate, file, dltype>>
         ELSE EndGame
    /\ UNCHANGED missing

\* CL_Changing_f, which makes the client connected whatever it was, and
\* CL_Reconnect_f after it.  Without a connection that writes to no message
ChangingReconnect ==
    /\ Execute({"changing reconnect"})
    /\ IF file
         THEN /\ cstate' = IF cstate = "active" THEN "connected" ELSE cstate
              /\ UNCHANGED cOut
       ELSE IF cstate = "disconnected" THEN cstate' = "died" /\ UNCHANGED cOut
       ELSE cstate' = "connected" /\ AskNew
    /\ UNCHANGED <<dltype, missing>>

Skins ==
    /\ Execute({"skins"})
    /\ NextSkin(cOut)
    /\ UNCHANGED cstate

Between == Running /\ cIn = <<>> /\ stuffed = <<>>

\* VID_Startup, "allskins" and a full skin cache run Skin_Skins_f too
VidRestart ==
    /\ Between
    /\ restarts > 0
    /\ restarts' = restarts - 1
    /\ NextSkin(cOut)
    /\ UNCHANGED <<server, cstate, servercount, names, loaded, file, stuffed,
                   cIn, inFlight, prints, midway>>

\* CL_BeginServerConnect, SVC_DirectConnect and S2C_CONNECTION: a new slot.
\* What the client still has of the last level nobody reads before the next
\* serverdata wipes it: it is wiped here
DirectConnect ==
    /\ Between
    /\ cstate = "disconnected" /\ sstate = "left"
    /\ cstate' = "connected" /\ AskNew
    /\ sstate' = "preconnected" /\ scount' = 0 /\ pext' \in BOOLEAN
    /\ servercount' = 0 /\ names' = NoNames /\ loaded' = 0
    /\ UNCHANGED <<level, upload, msg, back, sIn, file, dltype, stuffed, cIn,
                   inFlight, limits>>

\* The first entities of a spawned client's datagrams (CL_MakeActive)
MakeActive ==
    /\ Between
    /\ cstate = "onserver" /\ sstate = "spawned"
    /\ cstate' = "active"
    /\ UNCHANGED <<server, servercount, names, loaded, file, dltype, stuffed,
                   cOut, cIn, inFlight, limits>>

ClientSend ==
    /\ Between
    /\ toServer = <<>> /\ cOut # <<>>
    /\ toServer' = cOut
    /\ cOut' = <<>>
    /\ UNCHANGED <<server, cstate, servercount, names, loaded, file, dltype,
                   stuffed, cIn, toClient, limits>>

-----------------------------------------------------------------------------

\* A client whose slot was just taken: it sent "new" (S2C_CONNECTION)
SignonInit ==
    /\ level = 1 /\ sstate = "preconnected" /\ scount = 0
    /\ pext \in BOOLEAN
    /\ upload = FALSE
    /\ msg = <<>> /\ back = <<>> /\ sIn = <<>>
    /\ toClient = <<>> /\ toServer = <<>>
    /\ cstate = "connected" /\ servercount = 0
    /\ names = NoNames /\ loaded = 0
    /\ file = FALSE /\ dltype = "none"
    /\ stuffed = <<>> /\ cIn = <<>>
    /\ cOut = <<Cmd("new", 0, 0, FALSE)>>
    /\ prints = MaxPrints /\ missing = MaxDownloads /\ restarts = MaxRestarts
    /\ midway = FALSE

ServerStep ==
    \/ Cmd_New_f \/ Cmd_PEXT_f \/ Cmd_Soundlist_f \/ Cmd_Modellist_f
    \/ Cmd_PreSpawn_f \/ Cmd_Spawn_f \/ Cmd_Begin_f
    \/ Cmd_Download_f \/ Cmd_NextDownload_f
    \/ ServerReceive \/ ServerSend

ClientStep ==
    \/ ClientReceive \/ ParseText \/ ParseStufftext \/ ParseServerData
    \/ ParseSoundlist \/ ParseModellist \/ ParseStatic \/ ParseDownload
    \/ ForwardToServer \/ Reconnect_f \/ ChangingReconnect \/ Skins
    \/ DirectConnect \/ MakeActive \/ ClientSend

SignonNext == ServerStep \/ ClientStep \/ ChangeLevel \/ Broadcast \/ VidRestart

SignonSpec == SignonInit /\ [][SignonNext]_signonVars

\* Both programs keep running their frames
SignonFairSpec == SignonSpec /\ WF_signonVars(ServerStep) /\ WF_signonVars(ClientStep)

-----------------------------------------------------------------------------
(* Properties *)

\* The variables keep their types; texts, packets and names are of the
\* levels there have been.
SignonTypeOK ==
    /\ level \in 1..MaxLevel
    /\ sstate \in {"preconnected", "connected", "spawned", "left", "dropped: map",
                   "dropped: overflow"}
    /\ scount \in 0..level
    /\ pext \in BOOLEAN /\ upload \in BOOLEAN /\ midway \in BOOLEAN /\ file \in BOOLEAN
    /\ cstate \in {"disconnected", "connected", "onserver", "active", "failed", "died"}
    /\ servercount \in 0..level
    /\ loaded \in 0..servercount
    /\ dltype \in {"none", "listed", "skin"}
    /\ \A k \in Lists : names[k] \subseteq (1..level) \X All(k)

Complete ==
    /\ servercount = level
    /\ loaded = level
    /\ \A k \in Lists \ {"sounds"} : Holds(names, level, k)

\* The skins are asked for when the server says so, and no other time.
NoRestart == restarts = MaxRestarts

\* Nor did the level change, and no more than two texts came in between.
Calm == NoRestart /\ ~midway /\ prints + 2 >= MaxPrints

\* A client the server has put into the game holds all of the level it is put
\* into: sounds and models loaded from complete lists, the static part of the
\* world and every player, however level changes and discarded answers
\* overlapped (Cmd_Begin_f checks no more than the level).  It does not hold
\* when the video restarts, or a download ends for a new level.
SpawnedComplete ==
    /\ SignonTypeOK
    /\ sstate = "spawned" /\ NoRestart /\ (midway => missing = MaxDownloads)
        => Complete

\* A client never fails to load a level because the list it loads from was
\* reset in between, by a level change or an answer that came too late, unless
\* a download ends just then.  Nor is it told, in one packet, to leave the
\* game and to write to the connection it left (the zeroed netchan.message
\* makes SZ_GetSpace end the program), while no level changes under a sign-on
\* and no video restarts.
NeverFails ==
    /\ cstate = "failed" => missing < MaxDownloads /\ (midway \/ ~NoRestart)
    /\ cstate = "died" => midway \/ ~NoRestart

\* A client that signs on is not dropped: what the server answers fits its
\* message (sv_user.c: "These functions are written to not overflow"), and the
\* first request of the static part carries the checksum of the map, though
\* the server itself may send the client back to it.  Neither holds with more
\* texts in between.
NeverDropped == Calm => sstate \notin {"dropped: overflow", "dropped: map"}

\* When the client asks for the models it is done with the sounds: the list
\* it got is the level's (cl_parse.c: "done with sounds, request models now").
DoneWithSounds ==
    Calm => \A i \in 1..Len(cOut) :
        cOut[i].cmd = "modellist" /\ cOut[i].level = servercount
            => Holds(names, servercount, "sounds")

\* Sign-on ends: whatever requests were refused or answers discarded on the
\* way, the client is finally in the game on the level the server runs.  (A
\* download the video restart began beside it may lose its last block to
\* Cmd_Spawn_f, which empties the message; reconnects are then ignored.)
SignonFinishes ==
    <>[]\/ Dropped \/ ~Running
        \/ ~NoRestart /\ missing < MaxDownloads
        \/ sstate = "spawned" /\ cstate = "active" /\ servercount = level

=============================================================================
