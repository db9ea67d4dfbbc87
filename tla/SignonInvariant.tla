-------------------------- MODULE SignonInvariant --------------------------
(***************************************************************************)
(* Why a sign-on ends with the whole level: the inductive invariant of     *)
(* Signon, and what each kind of step does, said in the terms of the       *)
(* invariant.  SignonProofs has the proof.                                 *)
(***************************************************************************)
EXTENDS Signon

-----------------------------------------------------------------------------
(* What is said to the client, and what it asks.                           *)

StuffNames ==
    {"pext", "new", "reconnect", "changing reconnect", "prespawn", "spawn", "skins"}

CommandNames ==
    {"new", "pext", "soundlist", "modellist", "prespawn", "spawn", "begin", "download",
     "nextdl"}

ServerMsg ==
    [op : {"text"}] \cup [op : {"download"}, last : BOOLEAN]
    \cup [op : {"serverdata"}, level : Nat]
    \cup [op : {"stuff"}, cmd : StuffNames, level : Nat, n : Nat]
    \cup [op : Lists, level : Nat, from : Nat, upto : Nat, next : Nat]

ClientCmd == [op : {"cmd"}, cmd : CommandNames, level : Nat, n : Nat, sum : BOOLEAN]

(* What stands in a sequence, and whether all that stands before something *)
(* else there may.                                                         *)
Items(q) == {q[i] : i \in DOMAIN q}

InPairs(q, R) == \A i, j \in DOMAIN q : i < j => <<q[i], q[j]>> \in R

Ahead(a, b, R) == \A x \in Items(a) : \A y \in Items(b) : <<x, y>> \in R

-----------------------------------------------------------------------------
(* Sizes and chunks.                                                       *)

(* Size is the sum its definition says.                                    *)
Adds(q, n, f) ==
    f = [k \in 0..n |-> IF k = 0 THEN 0 ELSE f[k - 1] + ItemSize(q[k])]

Measured(q) == \A x \in Items(q) : ItemSize(x) \in Nat

-----------------------------------------------------------------------------
(* The inductive invariant.  What was said to the client and it has not    *)
(* acted on stands in five sequences one behind the other, what it asked   *)
(* for in three: packets only move along them.                             *)

Answers ==
    Items(stuffed) \cup Items(cIn) \cup Items(toClient) \cup Items(msg) \cup Items(back)

Follow(a, b, c, d, e, R) ==
    /\ InPairs(a, R) /\ InPairs(b, R) /\ InPairs(c, R) /\ InPairs(d, R) /\ InPairs(e, R)
    /\ Ahead(a, b, R) /\ Ahead(a, c, R) /\ Ahead(a, d, R) /\ Ahead(a, e, R)
    /\ Ahead(b, c, R) /\ Ahead(b, d, R) /\ Ahead(b, e, R)
    /\ Ahead(c, d, R) /\ Ahead(c, e, R) /\ Ahead(d, e, R)

AnswersFollow(R) == Follow(stuffed, cIn, toClient, msg, back, R)

AnswerCount == Len(stuffed) + Len(cIn) + Len(toClient) + Len(msg) + Len(back)

Requests == Items(sIn) \cup Items(toServer) \cup Items(cOut)

RequestsFollow(R) ==
    /\ InPairs(sIn, R) /\ InPairs(toServer, R) /\ InPairs(cOut, R)
    /\ Ahead(sIn, toServer, R) /\ Ahead(sIn, cOut, R) /\ Ahead(toServer, cOut, R)

RequestCount == Len(sIn) + Len(toServer) + Len(cOut)

DataLists == {"statics", "buffers", "players"}
Restarts  == {"pext", "new", "reconnect", "changing reconnect"}
Guarded   == {"soundlist", "modellist", "prespawn", "spawn", "begin"}
Transfers == {"download", "nextdl"}

(* Where a "prespawn" or a "spawn" goes on.                                *)
PlaceOK(x) ==
    \/ x.cmd = "prespawn" /\ x.n \in 0 .. Statics + Buffers - 1
    \/ x.cmd = "spawn" /\ x.n \in 0 .. Players - 1

ListOK(x, lv) ==
    /\ x.level \in 1..lv
    /\ x.from <= x.upto
    /\ x.op = "sounds" => x.upto <= Sounds /\ x.next \in {0, x.upto} /\ x.next < Sounds
    /\ x.op = "models" =>
         /\ x.upto <= Models
         /\ IF x.next = 0 THEN x.upto = Models
                          ELSE x.upto < Models /\ x.next = x.upto % ByteValues
    /\ x.op = "statics" => x.upto <= Statics
    /\ x.op = "buffers" => x.from >= Statics /\ x.upto <= Statics + Buffers
    /\ x.op = "players" => x.upto <= Players

AnswerOK(x, lv) ==
    /\ x.op = "serverdata" => x.level \in 1..lv
    /\ x.op = "stuff" => \/ x.cmd = "skins" \/ x.cmd \in Restarts
                         \/ PlaceOK(x) /\ x.level <= lv
    /\ x.op \in Lists => ListOK(x, lv)

RequestOK(x, lv) ==
    /\ x.cmd \in Guarded => x.level <= lv
    /\ \/ x.cmd \in {"new", "pext", "begin"} \cup Transfers
       \/ x.cmd = "soundlist" /\ x.n \in 0 .. Sounds - 1
       \/ x.cmd = "modellist" /\ x.n \in 0 .. Models - 1
       \/ PlaceOK(x)

Packets ==
    /\ stuffed \in Seq(ServerMsg) /\ cIn \in Seq(ServerMsg)
    /\ toClient \in Seq(ServerMsg) /\ msg \in Seq(ServerMsg) /\ back \in Seq(ServerMsg)
    /\ sIn \in Seq(ClientCmd) /\ toServer \in Seq(ClientCmd) /\ cOut \in Seq(ClientCmd)

Messages ==
    /\ \A x \in Items(stuffed) : x.op = "stuff"
    /\ \A x \in Answers : AnswerOK(x, level)
    /\ \A x \in Requests : RequestOK(x, level)
    /\ \A x \in Items(back) : x.op # "serverdata"

Limits ==
    /\ names \in [Lists -> SUBSET (Nat \X Nat)]
    /\ prints \in 0..MaxPrints /\ missing \in 0..MaxDownloads
    /\ restarts \in 0..MaxRestarts

SignonTypes == SignonTypeOK /\ Packets /\ Messages /\ Limits

(* The video did not restart, and no level changed while the client signed *)
(* on: one message at a time is under way.  Otherwise there was no         *)
(* download, or nothing is claimed.                                        *)
Undisturbed == NoRestart /\ ~midway
Regular == Undisturbed \/ missing = MaxDownloads

(* Which answer may come after which: levels only grow, nothing of a level *)
(* is behind a serverdata of it but the beginning of the list of sounds,   *)
(* and no serverdata of it is behind anything else.                        *)
May(x, y, sc, lv) ==
    /\ x.op = "serverdata" =>
         /\ y.op = "serverdata" => x.level <= y.level
         /\ y.op \in Lists => y.op = "sounds" /\ y.from = 0 /\ x.level = sc
         /\ y.op = "stuff" => y.cmd \in {"reconnect", "changing reconnect"} /\ x.level < lv
    /\ /\ y.op = "serverdata"
       /\ x.op \in Lists \/ (x.op = "stuff" /\ x.cmd \notin Restarts)
       => y.level > sc

OrderPairs(sc, lv) == {p \in ServerMsg \X ServerMsg : May(p[1], p[2], sc, lv)}

FitsIn(x, sc, lv) ==
    /\ x.op = "serverdata" => sc <= x.level
    /\ x.op \in Lists => x.level = sc
    /\ x.op = "stuff" /\ x.cmd \in {"prespawn", "spawn"} => x.level = sc
    /\ x.op = "stuff" /\ x.cmd \in Restarts => sc < lv

(* A request that makes the server start the client over.                  *)
Renews(x, lv) ==
    \/ x.cmd \in {"new", "pext"}
    \/ x.cmd \in Guarded /\ x.level < lv

MayAsk(x, y, lv) == x.cmd \in Guarded /\ x.level = lv => ~Renews(y, lv)

AskPairs(lv) == {p \in ClientCmd \X ClientCmd : MayAsk(p[1], p[2], lv)}

(* A request of a client that got past the beginning of the level's lists. *)
Advanced(x, lv, nores) ==
    /\ x.cmd \in Guarded /\ x.level = lv
    /\ x.cmd = "soundlist" => x.n > 0
    /\ x.cmd = "begin" => nores

NoServerData == \A x \in Answers : x.op # "serverdata"
NoRenewal == \A x \in Requests : ~Renews(x, level)

InOrder ==
    /\ AnswersFollow(OrderPairs(servercount, level))
    /\ \A x \in Answers : FitsIn(x, servercount, level)
    /\ RequestsFollow(AskPairs(level))
    /\ \A x \in Requests : x.cmd \in Guarded => x.level <= servercount

Together ==
    /\ \A x \in Requests : Advanced(x, level, NoRestart) => NoRenewal /\ NoServerData
    /\ servercount = level =>
         \A x \in Answers : x.op \in Lists \/ x.op = "stuff" => NoRenewal

ServerSide ==
    /\ servercount = level => scount = level
    /\ \A x \in Answers : x.op = "serverdata" /\ x.level = level => scount = level
    /\ pext => servercount = 0 /\ NoServerData
    /\ sstate = "spawned" /\ NoRestart => servercount = level /\ NoServerData

NoTransfers ==
    missing = MaxDownloads =>
        /\ \A x \in Answers : x.op # "download"
        /\ \A x \in Requests : x.cmd \notin Transfers

Order == InOrder /\ Together /\ ServerSide /\ NoTransfers

(* What a client must hold before a message has a meaning to it.           *)
SoundsTo(n)  == {<<"sounds", j>> : j \in 1..n}
ModelsTo(n)  == {<<"models", j>> : j \in 1..n}
Loaded       == ModelsTo(Models) \cup {<<"loaded", 0>>}
WorldTo(n)   == {<<IF j <= Statics THEN "statics" ELSE "buffers", j>> : j \in 1..n}
World        == Loaded \cup WorldTo(Statics + Buffers)
PlayersTo(n) == {<<"players", j>> : j \in 1..n}
Everything   == World \cup PlayersTo(Players)

(* What it holds of the level it is on, and what a list brings it.         *)
HeldOf(nm, ld, sc) ==
    {e \in Lists \X Nat : <<sc, e[2]>> \in nm[e[1]]}
    \cup {e \in {<<"loaded", 0>>} : ld = sc}

Have == HeldOf(names, loaded, servercount)

Carries(x) == IF x.op \in Lists THEN {<<x.op, j>> : j \in x.from + 1 .. x.upto} ELSE {}

Carried(q) == UNION {Carries(x) : x \in Items(q)}

(* Room for two texts in a message, beside a signon buffer or before its   *)
(* half is full: SV_FlushSignon closes a buffer when fewer than 512 bytes  *)
(* of it are left, which is two sixths of a message.                       *)
RoomForTexts == Room >= 6 /\ BufferSize + 2 <= Room

Quiet == Calm /\ RoomForTexts

AfterSounds(calm) == IF calm THEN SoundsTo(Sounds) ELSE {}

AfterTransfer(dl) ==
    IF dl = "listed" THEN ModelsTo(Models) ELSE IF dl = "skin" THEN Everything ELSE {}

BeforePlace(x) ==
    IF x.cmd = "prespawn" THEN Loaded \cup WorldTo(x.n) ELSE World \cup PlayersTo(x.n)

Needs(x, dl, calm) ==
    CASE x.op = "sounds" -> SoundsTo(x.from)
      [] x.op = "models" -> AfterSounds(calm) \cup ModelsTo(x.from)
      [] x.op \in {"statics", "buffers"} -> Loaded \cup WorldTo(x.from)
      [] x.op = "players" -> World \cup PlayersTo(x.from)
      [] x.op = "stuff" /\ x.cmd \in {"prespawn", "spawn"} -> BeforePlace(x)
      [] x.op = "stuff" /\ x.cmd = "skins" -> Everything
      [] x.op = "download" -> AfterTransfer(dl)
      [] OTHER -> {}

Asks(x, dl, calm, nores) ==
    CASE x.cmd = "soundlist" -> SoundsTo(x.n)
      [] x.cmd = "modellist" -> AfterSounds(calm) \cup ModelsTo(x.n)
      [] x.cmd \in {"prespawn", "spawn"} -> BeforePlace(x)
      [] x.cmd = "begin" -> IF nores THEN Everything ELSE {}
      [] x.cmd \in Transfers -> AfterTransfer(dl)
      [] OTHER -> {}

(* Every answer comes to a client that holds what it needs, from before or *)
(* from the lists ahead of it.                                             *)
Covered(q, h, dl, calm) ==
    \A i \in DOMAIN q :
        Needs(q[i], dl, calm) \subseteq h \cup UNION {Carries(q[k]) : k \in 1..i - 1}

Ready == Have \cup Carried(cIn) \cup Carried(toClient)

AnswersCovered ==
    /\ Covered(stuffed, Have, dltype, Quiet)
    /\ Covered(cIn, Have, dltype, Quiet)
    /\ Covered(toClient, Have \cup Carried(cIn), dltype, Quiet)
    /\ Covered(msg, Ready, dltype, Quiet)
    /\ Covered(back, Ready, dltype, Quiet)

RequestsCovered ==
    \A x \in Requests :
        x.cmd \in Transfers \/ (x.cmd \in Guarded /\ x.level = level)
          => Asks(x, dltype, Quiet, NoRestart) \subseteq Have

Claims ==
    /\ AnswersCovered
    /\ RequestsCovered
    /\ sstate = "spawned" /\ NoRestart => Everything \subseteq Have
    /\ cstate # "failed"

(* One message at a time: what is not a text, or a list with its           *)
(* continuation behind it.                                                 *)
Token(x) == x.op \notin {"text"} \cup DataLists

TokenPairs == {p \in ServerMsg \X ServerMsg : Token(p[1]) => p[2] = Text}

Silent == Answers \subseteq {Text}

Single ==
    /\ RequestCount <= 1
    /\ AnswersFollow(TokenPairs)
    /\ Requests # {} => Silent
    /\ sstate = "spawned" => Silent /\ Requests = {}
    /\ \A x \in Answers :
         x # Text => \/ servercount = level
                     \/ x.op = "serverdata" /\ x.level = level
                     \/ x.op = "stuff" /\ x.cmd \in Restarts
    /\ \A x \in Requests : x.cmd \notin {"new", "pext"} => servercount = level

(* Few texts: what the server answers fits.                                *)
DataPairs ==
    {p \in ServerMsg \X ServerMsg : p[1].op \in DataLists => p[2].op \notin DataLists}

Beside(A) ==
    (IF \E x \in A : Token(x) THEN 1 ELSE 0)
    + (IF \E x \in A : x.op \in DataLists THEN 1 ELSE 0)

Sizes ==
    /\ AnswersFollow(DataPairs)
    /\ AnswerCount <= (MaxPrints - prints) + Beside(Answers)
    /\ \A x \in Answers : x.op = "stuff" /\ x.cmd = "prespawn" => x.n > 0
    /\ \A x \in Answers : x.op = "sounds" /\ x.next = 0 => x.upto = Sounds
    /\ \A x \in Requests : x.cmd = "prespawn" /\ x.n = 0 => x.sum
    /\ sstate \notin {"dropped: overflow", "dropped: map"}

(* The client left the game: nothing is under way but the rest of the      *)
(* packet that sent it away, and that goes no further than a serverdata.   *)
Away == cstate \in {"disconnected", "died"}

Left ==
    /\ ~Alive
    /\ toClient = <<>> /\ msg = <<>> /\ back = <<>>
    /\ sIn = <<>> /\ toServer = <<>> /\ cOut = <<>>
    /\ file = FALSE /\ upload = FALSE /\ dltype = "none"
    /\ cstate = "disconnected" /\ cIn # <<>> => Head(cIn).op = "serverdata"
    /\ Undisturbed => cstate = "disconnected" /\ stuffed = <<>> /\ cIn = <<>>

SignonInv ==
    /\ SignonTypes
    /\ Away => Left
    /\ sstate = "left" => Away
    /\ Regular /\ ~Away => Order /\ Claims
    /\ Undisturbed /\ ~Away => Single
    /\ Quiet /\ ~Away => Sizes
    /\ Quiet => ~Dropped

-----------------------------------------------------------------------------
(* What the steps do, in the words of the invariant: the two sequences.    *)

(* The first of the answers is gone: the oldest stuffed command, or the    *)
(* next message of the packet.                                             *)
Gone(x, a, b, a2, b2) ==
    \/ a = <<x>> \o a2 /\ b2 = b
    \/ b = <<x>> \o b2 /\ a2 = a

(* What the server writes: behind its message, which it may have emptied,  *)
(* with the back buffers or their beginning behind it, or behind them.     *)
Writes(n, d, e, d2, e2) ==
    \/ d2 \in {n, d \o n} /\ \E k \in 0..Len(e) : e2 = SubSeq(e, 1, k)
    \/ d2 \in {<<>>, d} /\ e2 = e \o n

(* Packets move along the two sequences.                                   *)
AnswersMove ==
    /\ Packets' /\ Answers' = Answers /\ AnswerCount' = AnswerCount
    /\ \A R : AnswersFollow(R) => AnswersFollow(R)'

RequestsMove ==
    /\ Packets' /\ Requests' = Requests /\ RequestCount' = RequestCount
    /\ \A R : RequestsFollow(R) => RequestsFollow(R)'

-----------------------------------------------------------------------------
(* The client, with the first of the answers.                              *)

(* What it asks for when it acted on x.                                    *)
Reply(x, q) ==
    /\ RequestOK(q, level)
    /\ \/ x.op = "stuff" /\ x.cmd \in Restarts /\ q.cmd \in {"new", "pext"}
       \/ /\ \/ x.op \in {"sounds", "models", "download"}
             \/ x.op = "stuff" /\ x.cmd \notin Restarts
          /\ \/ q.cmd \in Transfers /\ (missing' < MaxDownloads \/ x.op = "download")
             \/ /\ q.cmd \in Guarded
                /\ \/ q.level = servercount
                   \/ /\ x.op = "stuff" /\ x.cmd \in {"prespawn", "spawn"}
                      /\ q.level = x.level
    /\ q.cmd = "prespawn" /\ q.n = 0 =>
         q.sum \/ (x.op = "stuff" /\ x.cmd = "prespawn" /\ x.n = 0)

Reads(x, r) ==
    /\ x \in ServerMsg /\ r \in Seq(ClientCmd) /\ Len(r) <= 1
    /\ Gone(x, stuffed, cIn, stuffed', cIn')
    /\ stuffed' \in Seq(ServerMsg) /\ cIn' \in Seq(ServerMsg)
    /\ cOut' = cOut \o r
    /\ missing' \in 0..missing
    /\ \A q \in Items(r) : Reply(x, q)
    /\ UNCHANGED <<server, inFlight, servercount, prints, restarts, midway>>

(* An answer of the client's level that came when it holds what it needs.  *)
Meant(x) ==
    /\ FitsIn(x, servercount, level)
    /\ Needs(x, dltype, Quiet) \subseteq Have
    /\ cstate # "failed"
    /\ Quiet /\ x.op = "sounds" /\ x.next = 0 => x.upto = Sounds

Learns(x, r) ==
    /\ Have \cup Carries(x) \subseteq Have'
    /\ \A q \in Items(r) : Asks(q, dltype', Quiet, NoRestart) \subseteq Have'
    /\ dltype' = dltype \/ AfterTransfer(dltype') \subseteq Have'
    /\ cstate' # "failed"

ClientActs == \E x, r : Reads(x, r) /\ (Meant(x) => Learns(x, r))

ClientTypes ==
    /\ cstate' \in {"disconnected", "connected", "onserver", "active", "failed", "died"}
    /\ loaded' \in 0..servercount
    /\ dltype' \in {"none", "listed", "skin"}
    /\ file' \in BOOLEAN
    /\ names' \in [Lists -> SUBSET (Nat \X Nat)]
    /\ \A k \in Lists : names'[k] \subseteq (1..level) \X All(k)

(* It asks for a file that is missing, or is done with the models.         *)
ListedReplies(x) ==
    /\ missing' \in 0..missing /\ dltype' = "listed" /\ loaded' \in 0..servercount
    /\ cstate' \in {"disconnected", "connected", "onserver", "active", "failed", "died"}
    /\ \E r \in Seq(ClientCmd) :
         /\ Len(r) <= 1 /\ cOut' = cOut \o r
         /\ \A q \in Items(r) : Reply(x, q)
         /\ /\ ModelsTo(Models) \subseteq HeldOf(names', loaded, servercount)
            /\ cstate # "failed"
            => /\ HeldOf(names', loaded, servercount) \subseteq Have'
               /\ \A q \in Items(r) : Asks(q, dltype', Quiet, NoRestart) \subseteq Have'
               /\ cstate' # "failed"

(* It asks for a skin that is missing, or begins.                          *)
SkinReplies(x) ==
    /\ missing' \in 0..missing /\ dltype' \in {"none", "skin"}
    /\ AfterTransfer(dltype') \subseteq Everything
    /\ \E r \in Seq(ClientCmd) :
         /\ Len(r) <= 1 /\ cOut' = cOut \o r
         /\ \A q \in Items(r) :
              Reply(x, q) /\ Asks(q, dltype', Quiet, NoRestart) \subseteq Everything

(* It reconnects from where it is, or leaves the game.                     *)
ReconnectHere == Reconnect_f /\ (file \/ cstate = "connected")
ReconnectAnew == Reconnect_f /\ ~(file \/ cstate = "connected")

ClientReads ==
    \/ ParseText \/ ParseSoundlist \/ ParseModellist \/ ParseStatic \/ ParseDownload
    \/ ForwardToServer \/ ReconnectHere \/ ChangingReconnect \/ Skins

-----------------------------------------------------------------------------
(* The server, with the first of the requests.                             *)

Taken(y) ==
    /\ y \in ClientCmd /\ sIn = <<y>> \o sIn' /\ sIn' \in Seq(ClientCmd)
    /\ UNCHANGED <<client, inFlight, limits>>

(* What the server says when it writes no more than N.                     *)
Says(N) ==
    /\ msg' \in Seq(ServerMsg) /\ back' \in Seq(ServerMsg)
    /\ Items(msg') \cup Items(back') \subseteq Items(msg) \cup Items(back) \cup N
    /\ \A m \in N : AnswerOK(m, level)
    /\ \A m \in Items(back') : m.op # "serverdata"
    /\ sIn' \in Seq(ClientCmd) /\ Items(sIn') \subseteq Items(sIn)
    /\ level' = level /\ UNCHANGED <<client, inFlight, limits>>
    /\ sstate' \in {"preconnected", "connected", "spawned", "left", "dropped: map",
                    "dropped: overflow"}
    /\ scount' \in {scount, level} /\ pext' \in BOOLEAN /\ upload' \in BOOLEAN

(* Nothing is said.                                                        *)
Drops(y) ==
    /\ Taken(y) /\ upload' \in BOOLEAN
    /\ UNCHANGED <<level, scount, pext, msg, back>>
    /\ \/ sstate' = sstate
       \/ sstate' = "spawned" /\ y.cmd = "begin" /\ y.level = level
       \/ /\ y.cmd = "prespawn" /\ y.level = level
          /\ \/ sstate' = "dropped: map" /\ y.n = 0 /\ ~y.sum
             \/ sstate' = "dropped: overflow" /\ Size(Cleared) + BufferSize > Room

(* The client starts over.                                                 *)
StartsOver(y) ==
    /\ Taken(y) /\ Renews(y, level)
    /\ UNCHANGED <<level, upload>>
    /\ \E m \in ServerMsg :
         /\ Writes(<<m>>, msg, back, msg', back')
         /\ \/ /\ m = ServerData /\ back' = <<>> /\ ~pext /\ UNCHANGED pext
               /\ scount' = level /\ sstate' = "connected"
            \/ /\ m.op = "stuff" /\ m.cmd \in {"pext", "new"} /\ pext /\ pext' \in BOOLEAN
               /\ scount' \in {scount, level} /\ UNCHANGED sstate

(* It gets what it asks for.                                               *)
AnswerTo(y, n) ==
    /\ y.cmd \in Guarded \ {"begin"} /\ y.level = level
    /\ n \in Seq(ServerMsg)
    /\ \E m \in ServerMsg :
         /\ m.op \in Lists /\ m.level = level /\ ListOK(m, level)
         /\ m.op = "sounds" <=> y.cmd = "soundlist"
         /\ m.op = "sounds" => m.from = y.n
         /\ Size(Cleared) < Half /\ m.op = "sounds" /\ m.next = 0 => m.upto = Sounds
         /\ \/ n = <<m>>
            \/ \E s \in ServerMsg :
                 /\ n = <<m, s>> /\ m.op \in DataLists /\ s.op = "stuff"
                 /\ s.cmd = "skins" \/ (PlaceOK(s) /\ s.level = level)
                 /\ Size(Cleared) < Half /\ s.cmd = "prespawn" => s.n > 0
    /\ \A h, dl, calm, nores : Asks(y, dl, calm, nores) \subseteq h => Covered(n, h, dl, calm)

Serves(y) ==
    /\ Taken(y) /\ sstate = "connected"
    /\ UNCHANGED <<level, sstate, scount, pext, upload>>
    /\ \E n : AnswerTo(y, n) /\ Writes(n, msg, back, msg', back')

(* It gets a block of a file, and is told of a new level.                  *)
GetsBlock(y) ==
    /\ Taken(y) /\ y.cmd \in Transfers /\ upload' \in BOOLEAN
    /\ UNCHANGED <<level, sstate, scount, pext>>
    /\ \E m \in ServerMsg :
         /\ m.op = "download"
         /\ \/ Writes(<<m>>, msg, back, msg', back')
            \/ /\ scount # level
               /\ \E d, e : /\ Writes(<<m>>, msg, back, d, e)
                            /\ Writes(<<ChangingReconnects>>, d, e, msg', back')

(* The parts of what is written, in one predicate.                         *)
WritesInto(n, d, e, d2, e2) ==
    /\ d2 \in Seq(ServerMsg) /\ e2 \in Seq(ServerMsg)
    /\ Items(d2) \subseteq Items(d) \cup Items(n)
    /\ Items(e2) \subseteq Items(e) \cup Items(n)

ServerActs == \E y : Drops(y) \/ StartsOver(y) \/ Serves(y) \/ GetsBlock(y)

(* The beginning of the four commands: an answer, or none.                 *)
Admitted(c) ==
    LET y == Head(sIn) IN
    /\ Taken(y) /\ y.cmd = c /\ y \in ClientCmd /\ RequestOK(y, level)
    /\ y.level = level /\ sstate = "connected"
    /\ UNCHANGED <<level, scount, pext>>

NamesFrom(c, m, n) ==
    /\ m.level = level /\ ListOK(m, level) /\ m.from = n
    /\ \/ m.op = "sounds" /\ c = "soundlist"
       \/ m.op = "models" /\ c = "modellist"
    /\ Size(Cleared) < Half /\ m.op = "sounds" /\ m.next = 0 => m.upto = Sounds

Continues(m, s) ==
    /\ m.level = level /\ ListOK(m, level) /\ m.op \in DataLists
    /\ s.op = "stuff" /\ (s.cmd = "skins" \/ (PlaceOK(s) /\ s.level = level))
    /\ Size(Cleared) < Half /\ s.cmd = "prespawn" => s.n > 0

ServerReads ==
    \/ Cmd_New_f \/ Cmd_PEXT_f \/ Cmd_Soundlist_f \/ Cmd_Modellist_f \/ Cmd_PreSpawn_f
    \/ Cmd_Spawn_f \/ Cmd_Begin_f \/ Cmd_Download_f \/ Cmd_NextDownload_f

-----------------------------------------------------------------------------
(* The other steps.                                                        *)

(* A packet moves: what was said and what is asked stay the same.          *)
MoveStep == ClientReceive \/ ServerSend \/ ParseStufftext \/ ServerReceive \/ ClientSend

Moved ==
    /\ Answers' = Answers /\ AnswerCount' = AnswerCount
    /\ Requests' = Requests /\ RequestCount' = RequestCount
    /\ \A R : AnswersFollow(R) => AnswersFollow(R)'
    /\ \A R : RequestsFollow(R) => RequestsFollow(R)'
    /\ UNCHANGED <<level, sstate, scount, pext, upload>>
    /\ cstate' \in {cstate, "active"}
    /\ UNCHANGED <<servercount, names, loaded, file, dltype, limits>>

(* The client reads a serverdata, and what it had not sent yet is gone.    *)
Renewed(x, q) ==
    /\ x \in ServerMsg /\ x.op = "serverdata" /\ x \in Answers
    /\ stuffed = <<>> /\ stuffed' = <<>> /\ cIn = <<x>> \o cIn' /\ cIn' \in Seq(ServerMsg)
    /\ servercount' = x.level /\ names' = NoNames /\ loaded' = 0 /\ cstate' = "onserver"
    /\ q \in ClientCmd /\ q.cmd = "soundlist" /\ q.level = x.level /\ q.n = 0
    /\ cOut' = <<q>>
    /\ UNCHANGED <<server, file, dltype, inFlight, limits>>

(* The server tells every client something.                                *)
Tells(m) ==
    /\ m \in ServerMsg /\ m \in {Text, Reconnect}
    /\ Writes(<<m>>, msg, back, msg', back')
    /\ Items(msg) \subseteq Items(msg') /\ Items(back) \subseteq Items(back')
    /\ UNCHANGED <<scount, pext, upload, sIn, client, inFlight, missing, restarts>>

(* The skins are asked for, or it begins, though the server did not say so. *)
Restarted(r) ==
    /\ r \in Seq(ClientCmd) /\ Len(r) <= 1 /\ cOut' = cOut \o r
    /\ restarts > 0 /\ restarts' = restarts - 1 /\ missing' \in 0..missing
    /\ dltype' \in {"none", "skin"}
    /\ \A q \in Items(r) : RequestOK(q, level)
    /\ missing' = missing =>
         dltype' = "none" /\ \A q \in Items(r) : q.cmd = "begin" /\ q.level = servercount
    /\ UNCHANGED <<server, cstate, servercount, names, loaded, file, stuffed, cIn, inFlight,
                   prints, midway>>

(* The client has a slot and asks for the level: at first, or once more.   *)
Connecting ==
    /\ level \in 1..MaxLevel /\ sstate = "preconnected" /\ scount = 0
    /\ pext \in BOOLEAN /\ upload = FALSE
    /\ msg = <<>> /\ back = <<>> /\ sIn = <<>> /\ toClient = <<>> /\ toServer = <<>>
    /\ cstate = "connected" /\ servercount = 0 /\ names = NoNames /\ loaded = 0
    /\ file = FALSE /\ dltype = "none" /\ stuffed = <<>> /\ cIn = <<>>
    /\ cOut = <<Cmd("new", 0, 0, FALSE)>>
    /\ prints \in 0..MaxPrints /\ missing \in 0..MaxDownloads
    /\ restarts \in 0..MaxRestarts /\ midway \in BOOLEAN

(* It left the game, and goes through what the last packet stuffed.        *)
Drifts ==
    /\ cstate' \in {cstate, "died"} /\ cIn' \in {cIn, Tail(cIn)}
    /\ cIn' # cIn => cIn # <<>> /\ cstate' = "died"
    /\ stuffed' = stuffed \/ (stuffed # <<>> /\ stuffed' = Tail(stuffed))
    /\ stuffed = <<>> /\ cIn = <<>> => cstate' = cstate
    /\ level' \in {level, level + 1} /\ level' <= MaxLevel
    /\ servercount' \in 0..level /\ loaded' \in 0..servercount' /\ names' \in {names, NoNames}
    /\ UNCHANGED <<sstate, scount, pext, upload, msg, back, sIn, inFlight, file, dltype, cOut>>
    /\ UNCHANGED <<prints, missing>>
    /\ restarts' = restarts \/ (restarts > 0 /\ restarts' = restarts - 1)
    /\ midway' \in {midway, TRUE}

-----------------------------------------------------------------------------
(* What a step does to the order of what is under way.                     *)

(* What one step leaves alone.                                             *)
SameServer == UNCHANGED <<level, sstate, scount, pext>>
SameRegime == UNCHANGED <<prints, restarts, midway>>

(* What a reading step does, to answers and to requests.                   *)
TakesAnswer(x) ==
    /\ x \in ServerMsg /\ x \in Answers /\ Answers = {x} \cup Answers'
    /\ AnswerCount = AnswerCount' + 1 /\ AnswerCount' \in Nat
    /\ \A R : Follow(stuffed, cIn, toClient, msg, back, R) =>
         /\ Follow(stuffed', cIn', toClient', msg', back', R)
         /\ \A y \in Answers' : <<x, y>> \in R \/ (y.op = "stuff" /\ <<y, x>> \in R)

MakesRequest(r) ==
    /\ Items(r) \subseteq ClientCmd /\ Requests' = Requests \cup Items(r)
    /\ \A p, q \in Items(r) : p = q
    /\ Items(r) = {} => RequestCount' = RequestCount
    /\ Items(r) # {} => RequestCount' = RequestCount + 1
    /\ \A R : /\ RequestsFollow(R)
              /\ \A y \in Requests : \A q \in Items(r) : <<y, q>> \in R
              => RequestsFollow(R)'

Behind(a, b, c, R) ==
    /\ InPairs(a, R) /\ InPairs(b, R) /\ InPairs(c, R)
    /\ Ahead(a, b, R) /\ Ahead(a, c, R) /\ Ahead(b, c, R)

(* The request of a client that forgot the ones it had not sent.           *)
AsksOnly(q) ==
    /\ q \in Requests' /\ Requests' \subseteq Requests \cup {q}
    /\ Requests = {} => Requests' = {q} /\ RequestCount' = 1
    /\ \A R : RequestsFollow(R) /\ (\A y \in Requests : <<y, q>> \in R)
                => Behind(sIn', toServer', cOut', R)

TakesRequest(y) ==
    /\ y \in ClientCmd /\ y \in Requests /\ Requests = {y} \cup Requests'
    /\ RequestCount = RequestCount' + 1 /\ RequestCount' \in Nat
    /\ \A R : Behind(sIn, toServer, cOut, R) =>
         Behind(sIn', toServer', cOut', R) /\ \A z \in Requests' : <<y, z>> \in R

(* What a client holds, and what it waits for, while only the server acts. *)
ClientWaits ==
    /\ UNCHANGED <<cstate, servercount, names, loaded, dltype>>
    /\ UNCHANGED <<stuffed, cIn, toClient>>

SameLimits == UNCHANGED <<prints, missing, restarts, midway>>

WritesAnswers(n) ==
    /\ n \in Seq(ServerMsg)
    /\ Answers' \subseteq Answers \cup Items(n) /\ Items(n) \subseteq Answers'
    /\ AnswerCount' <= AnswerCount + Len(n) /\ AnswerCount \in Nat /\ AnswerCount' \in Nat
    /\ \A R : /\ Follow(stuffed, cIn, toClient, msg, back, R) /\ InPairs(n, R)
              /\ \A x \in Answers : \A m \in Items(n) : <<x, m>> \in R
              /\ back' = <<>> \/ \A m \in Items(n) : \A z \in Items(back) : <<m, z>> \in R
              => Follow(stuffed', cIn', toClient', msg', back', R)

(* The answer to a request, in one predicate.                              *)
Answered(y, n, m) ==
    /\ Taken(y) /\ sstate = "connected"
    /\ UNCHANGED <<level, sstate, scount, pext, upload>>
    /\ AnswerTo(y, n) /\ Writes(n, msg, back, msg', back') /\ WritesAnswers(n)
    /\ m \in ServerMsg /\ m.op \in Lists /\ m.level = level
    /\ m.op = "sounds" <=> y.cmd = "soundlist"
    /\ m.op = "sounds" => m.from = y.n
    /\ m.op = "sounds" /\ Size(Cleared) < Half /\ m.next = 0 => m.upto = Sounds
    /\ \/ n = <<m>> /\ Items(n) = {m} /\ Len(n) = 1
       \/ \E s \in ServerMsg :
            /\ n = <<m, s>> /\ Items(n) = {m, s} /\ Len(n) = 2
            /\ m.op \in DataLists /\ s.op = "stuff"
            /\ s.cmd = "skins" \/ (PlaceOK(s) /\ s.level = level)
            /\ Size(Cleared) < Half /\ s.cmd = "prespawn" => s.n > 0

(* A block of a file goes to a client that did nothing else.               *)
BlockOnly(y, n, m) ==
    /\ Taken(y) /\ y.cmd \in Transfers
    /\ UNCHANGED <<level, sstate, scount, pext>>
    /\ missing # MaxDownloads /\ Undisturbed /\ Single /\ Silent /\ Requests' = {}
    /\ y \in Requests /\ servercount = level /\ scount = level
    /\ m \in ServerMsg /\ m.op = "download" /\ n = <<m>> /\ n \in Seq(ServerMsg)
    /\ Items(n) = {m} /\ Len(n) = 1 /\ (\A R : InPairs(n, R))
    /\ Writes(n, msg, back, msg', back') /\ WritesAnswers(n)

Told(n, m) ==
    /\ m \in ServerMsg /\ m \in {Text, Reconnect} /\ n = <<m>> /\ n \in Seq(ServerMsg)
    /\ Items(n) = {m} /\ Len(n) = 1 /\ (\A R : InPairs(n, R))
    /\ Writes(n, msg, back, msg', back') /\ WritesAnswers(n)
    /\ ClientWaits /\ missing' = missing /\ restarts' = restarts
    /\ scount' = scount /\ pext' = pext
    /\ Requests' = Requests /\ RequestCount' = RequestCount
    /\ \A R : Behind(sIn, toServer, cOut, R) => Behind(sIn', toServer', cOut', R)
    /\ Items(msg) \subseteq Items(msg') /\ Items(back) \subseteq Items(back')

(* The stream of entities starts, or nothing happens.                      *)
Idle ==
    /\ cstate' \in {cstate, "active"}
    /\ UNCHANGED <<server, servercount, names, loaded, file, dltype, stuffed, cOut, cIn,
                   inFlight, limits>>

Expected(x) ==
    \/ servercount = level
    \/ x.op = "serverdata" /\ x.level = level
    \/ x.op = "stuff" /\ x.cmd \in Restarts

(* Whatever is under way fits where it stands, and every request is whole. *)
Fine(A, Q) ==
    /\ \A x \in A : x.op = "stuff" /\ x.cmd = "prespawn" => x.n > 0
    /\ \A x \in A : x.op = "sounds" /\ x.next = 0 => x.upto = Sounds
    /\ \A x \in Q : x.cmd = "prespawn" /\ x.n = 0 => x.sum

=============================================================================
