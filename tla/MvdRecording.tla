--------------------------- MODULE MvdRecording ---------------------------
(***************************************************************************)
(* Recording of a game to MVD files and QTV streams (sv_demo.c and the     *)
(* demo part of sv_send.c).  What happens in the game is added to the      *)
(* current frame of a ring; SV_SendDemoMessage closes the frame with the   *)
(* entities of the moment and, some frames behind, the oldest frames are   *)
(* written to every destination.  Files and streams come and go while the  *)
(* game is recorded: a new one first gets the state of the game, a stop    *)
(* closes the files and leaves the streams open.                           *)
(*                                                                         *)
(* Game events are numbered in the order they happen.  A destination's     *)
(* content is a sequence of items: a game state, or one frame with the     *)
(* events it holds.  A cache is the tail of wrote[d] past sent[d].         *)
(***************************************************************************)
EXTENDS Integers, FiniteSets, Sequences, Functions

CONSTANTS
  Files,      \* demo files that may be recorded, each once
  Streams,    \* QTV streams that may connect, each once
  Ring,       \* frames in the ring (UPDATE_BACKUP, 64)
  Lag,        \* frames the writer trails the game by (5)
  FullEvery,  \* frames from one full entity update to the next (256)
  Room,       \* events and updates a frame's buffer holds
  Cache,      \* items a destination's cache holds
  NearFull,   \* free items at which a cache is flushed
  MaxSize,    \* items a file may hold (sv_demoMaxSize)
  MarkCap,    \* the longest time a frame's mark can say (255 ms)
  StartTime,  \* sv.time when a level begins
  MaxTime,    \* bound: sv.time at which no more frames are recorded
  MaxEvents,  \* bound: events
  MaxFaults   \* bound: failed writes and sends

ASSUME SetAssumption == Files \cap Streams = {}
ASSUME LagAssumption == Lag \in Nat /\ Ring \in Nat /\ Lag + 1 < Ring
ASSUME CapAssumption == MarkCap \in Nat /\ MarkCap < StartTime
ASSUME SizeAssumption ==
  /\ {Room, Cache, NearFull, MaxSize, StartTime, MaxTime, MaxEvents, MaxFaults} \subseteq Nat
  /\ FullEvery \in Nat \ {0}
ASSUME FiniteAssumption == IsFiniteSet(Files) /\ IsFiniteSet(Streams)

Dests == Files \cup Streams
Full == -1        \* an entity update that needs no earlier one
NoUpdate == -2    \* a frame without an entity update

VARIABLES
  demo,     \* demo_t and sv.mvdrecording, the destinations with it, and
            \* whether a frame ever overflowed
  time,     \* sv.time
  events,   \* number of game events so far
  byes,     \* the events that are an "EndOfDemo" disconnect
  faults    \* failed writes and sends so far

vars == <<demo, time, events, byes, faults>>

Least(a, b) == IF a < b THEN a ELSE b

EmptyFrame == [time |-> 0, base |-> NoUpdate, buf |-> <<>>, over |-> FALSE]

\* memset of demo_t up to mem_set_point: the list of destinations is kept.
Cleared(dm) ==
  [dm EXCEPT !.parsecount = 0, !.lastwritten = 0, !.prevtime = 0,
             !.frames = [i \in 0 .. Ring - 1 |-> EmptyFrame]]

Slot(k) == k % Ring
\* A file is written through a cache if sv_demoUseCache said so
Buffered(dm, d) == d \in dm.cached \cup Streams
CacheUsed(dm, d) == Len(dm.wrote[d]) - dm.sent[d]

---------------------------------------------------------------------------
(* Writing to the destinations. *)

\* A variation of DemoWrite: what finds no room is left out and the destination goes on.
DemoWrite_Skip(dm, items, to, bad) ==
  LET at == to \cap dm.dest
      takes == [d \in Dests |->
                 IF d \notin at \/ dm.error[d] THEN 0
                 ELSE IF Buffered(dm, d) THEN Least(Len(items), Cache - CacheUsed(dm, d))
                 ELSE IF d \in bad THEN 0 ELSE Len(items)]
      wrote == [d \in Dests |-> dm.wrote[d] \o SubSeq(items, 1, takes[d])]
  IN [dm EXCEPT
       !.wrote = wrote,
       !.sent = [d \in Dests |-> IF Buffered(dm, d) THEN @[d] ELSE Len(wrote[d])],
       !.error = @]

\* DemoWrite to the destinations of to that are listed: one that has failed
\* gets nothing, one whose cache or disk has no room fails.
DemoWrite(dm, items, to, bad) ==
  LET at == to \cap dm.dest
      takes == [d \in Dests |->
                 IF d \notin at \/ dm.error[d] THEN 0
                 ELSE IF Buffered(dm, d) THEN Least(Len(items), Cache - CacheUsed(dm, d))
                 ELSE IF d \in bad THEN 0 ELSE Len(items)]
      wrote == [d \in Dests |-> dm.wrote[d] \o SubSeq(items, 1, takes[d])]
  IN [dm EXCEPT
       !.wrote = wrote,
       !.sent = [d \in Dests |-> IF Buffered(dm, d) THEN @[d] ELSE Len(wrote[d])],
       !.error = [d \in Dests |->
                   @[d] \/ (d \in at /\ takes[d] < Len(items))]]

\* A variation of DestFlush: the recording goes on without a destination.
DestFlush_On(dm, complete, bad, sends) ==
  LET left == {d \in dm.dest : ~dm.error[d]}
      gone == dm.dest \ left
      due == {d \in left \cap dm.cached :
               complete \/ CacheUsed(dm, d) + NearFull > Cache}
      live == left \cap Streams
      failed == (bad \cap (due \cup live))
                \cup {d \in left \cap Files : Len(dm.wrote[d]) > MaxSize}
  IN [dm EXCEPT
       !.dest = left,
       !.fate = [d \in Dests |-> IF d \in gone THEN "dropped" ELSE @[d]],
       !.sent = [d \in Dests |->
                  IF d \in due \ bad THEN Len(dm.wrote[d])
                  ELSE IF d \in live \ bad THEN @[d] + Least(sends[d], CacheUsed(dm, d))
                  ELSE @[d]],
       !.error = [d \in Dests |-> @[d] \/ d \in failed]]

\* DestFlush: what failed before is dropped, and the rest is passed on.
\* The recording ends with the last destination (SV_MVDStop, reason 3).
DestFlush(dm, complete, bad, sends) ==
  LET left == {d \in dm.dest : ~dm.error[d]}
      gone == dm.dest \ left
      due == {d \in left \cap dm.cached :
               complete \/ CacheUsed(dm, d) + NearFull > Cache}
      live == left \cap Streams
      failed == (bad \cap (due \cup live))
                \cup {d \in left \cap Files : Len(dm.wrote[d]) > MaxSize}
  IN [dm EXCEPT
       !.dest = left,
       !.mvdrecording = @ /\ (left = {} => dm.dest = {}),
       !.fate = [d \in Dests |-> IF d \in gone THEN "dropped" ELSE @[d]],
       !.sent = [d \in Dests |->
                  IF d \in due \ bad THEN Len(dm.wrote[d])
                  ELSE IF d \in live \ bad THEN @[d] + Least(sends[d], CacheUsed(dm, d))
                  ELSE @[d]],
       !.error = [d \in Dests |-> @[d] \/ d \in failed]]

\* A variation of DestCloseAllFlush: mvdrecording is left alone.
DestCloseAllFlush_On(dm, destroy, mvdonly, bad, sends) ==
  LET fl == DestFlush(dm, TRUE, bad, sends)
      shut == {d \in fl.dest : mvdonly => d \in Files}
      left == fl.dest \ shut
  IN [fl EXCEPT
       !.dest = left,
       !.fate = [d \in Dests |-> IF d \notin shut THEN @[d]
                                 ELSE IF destroy THEN "removed"
                                 ELSE IF fl.error[d] THEN "dropped" ELSE "closed"]]

\* DestCloseAllFlush, and the end of the recording when nothing is left.
DestCloseAllFlush(dm, destroy, mvdonly, bad, sends) ==
  LET fl == DestFlush(dm, TRUE, bad, sends)
      shut == {d \in fl.dest : mvdonly => d \in Files}
      left == fl.dest \ shut
  IN [fl EXCEPT
       !.dest = left,
       !.mvdrecording = @ /\ left # {},
       !.fate = [d \in Dests |-> IF d \notin shut THEN @[d]
                                 ELSE IF destroy THEN "removed"
                                 ELSE IF fl.error[d] THEN "dropped" ELSE "closed"]]

\* SV_MVDStop for reasons 2 (canceled) and 4 (error): the files are removed.
StopAndRemove(dm, mvdonly, bad, sends) ==
  DestCloseAllFlush(dm, TRUE, mvdonly, bad, sends)

---------------------------------------------------------------------------
(* The ring of frames. *)

\* MVD_FrameDeltaTime: the mark cannot be negative nor pass MarkCap.
FrameDelta(from, to) ==
  IF to < from THEN 0 ELSE Least(to - from, MarkCap)

\* A variation of PrevTime: demo.prevtime is not advanced within a call.
PrevTime_Once(dm, i) == dm.prevtime

\* The time the mark of frame lastwritten + i is taken from (demo.prevtime
\* as it is advanced by each frame written).
PrevTime(dm, i) ==
  IF i = 0 THEN dm.prevtime ELSE dm.frames[Slot(dm.lastwritten + i - 1)].time

\* A variation of WriteCount: the frame being filled is not written.
WriteCount_Short(dm, num) == Least(num, dm.parsecount - dm.lastwritten)

\* SV_MVDWritePacketsEx: up to num frames from lastwritten on are written and
\* reset, up to one that overflowed.  Failed says whether there was one.
WriteCount(dm, num) == Least(num, dm.parsecount - dm.lastwritten + 1)

Whole(dm, num) ==
  Cardinality({n \in 0 .. WriteCount(dm, num) - 1 :
                 \A i \in 0 .. n : ~dm.frames[Slot(dm.lastwritten + i)].over})

Failed(dm, num) == Whole(dm, num) < WriteCount(dm, num)

FrameItem(dm, i) ==
  LET k == dm.lastwritten + i
      f == dm.frames[Slot(k)]
  IN [kind |-> "frame", no |-> k, base |-> f.base, time |-> f.time,
      mark |-> FrameDelta(PrevTime(dm, i), f.time), evs |-> f.buf]

\* A variation of WritePackets: a written frame is not reset.
WritePackets_Keep(dm, num, bad) ==
  LET n == Whole(dm, num)
      seen == n + (IF Failed(dm, num) THEN 1 ELSE 0)
      done == {Slot(dm.lastwritten + i) : i \in 0 .. n - 1}
      out == DemoWrite(dm, [j \in 1 .. n |-> FrameItem(dm, j - 1)], Dests, bad)
  IN [out EXCEPT
       !.lastwritten = Least(@ + n, dm.parsecount),
       !.prevtime = PrevTime(dm, seen),
       !.frames = [s \in 0 .. Ring - 1 |->
                    IF s \in done
                    THEN [@[s] EXCEPT !.base = NoUpdate]
                    ELSE @[s]]]

\* The frame that overflowed has advanced demo.prevtime before it is seen.
WritePackets(dm, num, bad) ==
  LET n == Whole(dm, num)
      seen == n + (IF Failed(dm, num) THEN 1 ELSE 0)
      done == {Slot(dm.lastwritten + i) : i \in 0 .. n - 1}
      out == DemoWrite(dm, [j \in 1 .. n |-> FrameItem(dm, j - 1)], Dests, bad)
  IN [out EXCEPT
       !.lastwritten = Least(@ + n, dm.parsecount),
       !.prevtime = PrevTime(dm, seen),
       !.frames = [s \in 0 .. Ring - 1 |->
                    IF s \in done
                    THEN [@[s] EXCEPT !.buf = <<>>, !.base = NoUpdate]
                    ELSE @[s]]]

\* MVDWrite_Begin and the write that follows it: the buffer of the current
\* frame takes one more event, or overflows at the header or at the data.
Current(dm) == dm.frames[Slot(dm.parsecount)]
Used(f) == Len(f.buf) + (IF f.base = NoUpdate THEN 0 ELSE 1)
CanBegin(dm) == ~Current(dm).over
Fits(dm) == CanBegin(dm) /\ Used(Current(dm)) < Room

AddEvent(dm, e) ==
  [dm EXCEPT !.frames[Slot(dm.parsecount)].buf = Append(@, e)]
Overflow(dm) ==
  [dm EXCEPT !.frames[Slot(dm.parsecount)].over = TRUE,
             !.frames[Slot(dm.parsecount)].buf = <<>>,
             !.spilled = TRUE]

\* SV_MVDStop(0): the current frame ends with a disconnect, all frames are
\* written, files are closed.  A failure on the way only ends the writing.
Stop(dm, mvdonly, bye, bad, sends) ==
  LET said == IF Fits(dm) THEN AddEvent(dm, bye)
              ELSE IF CanBegin(dm) THEN Overflow(dm) ELSE dm
      all == WritePackets(said, said.parsecount - said.lastwritten + 1, bad)
  IN DestCloseAllFlush(all, FALSE, mvdonly, bad, sends)

\* SV_MVD_SendInitialGamestate to the destinations of to.
GameState(dm, to, bad) ==
  DemoWrite(dm, <<[kind |-> "state", at |-> events]>>, to, bad)

\* A variation of RecordDest: demo_t is cleared for each destination.
RecordDest_Anew(dm, d, bad) ==
  LET base == Cleared(dm)
  IN GameState([base EXCEPT !.dest = @ \cup {d},
                            !.mvdrecording = TRUE,
                            !.fate[d] = "open"], {d}, bad)

\* SV_MVD_Record of a new destination.
RecordDest(dm, d, bad) ==
  LET base == IF dm.mvdrecording THEN dm ELSE Cleared(dm)
  IN GameState([base EXCEPT !.dest = @ \cup {d},
                            !.mvdrecording = TRUE,
                            !.fate[d] = "open"], {d}, bad)

\* SV_MVD_Record at a map change.
RecordMap(dm, bad) ==
  IF dm.dest = {} THEN Cleared(dm)
  ELSE GameState([Cleared(dm) EXCEPT !.mvdrecording = TRUE], Dests, bad)

---------------------------------------------------------------------------
Init ==
  /\ demo = [mvdrecording |-> FALSE, dest |-> {},
             parsecount |-> 0, lastwritten |-> 0, prevtime |-> 0,
             frames |-> [i \in 0 .. Ring - 1 |-> EmptyFrame],
             wrote |-> [d \in Dests |-> <<>>],
             sent |-> [d \in Dests |-> 0],
             error |-> [d \in Dests |-> FALSE],
             fate |-> [d \in Dests |-> "new"],
             cached |-> {}, spilled |-> FALSE]
  /\ time = StartTime
  /\ events = 0
  /\ byes = {}
  /\ faults = 0

\* The bound: no new event nor fault after MaxEvents of both.
BoundLeaves == events + faults < MaxEvents

\* What the disk and the network do in one step: bad fails, a stream takes
\* sends[s] items (none, or all there are).
Outside(A(_, _)) ==
  \E bad \in {b \in SUBSET {d \in Dests : demo.fate[d] \in {"new", "open"}} :
                /\ faults + Cardinality(b) <= MaxFaults
                /\ b # {} => BoundLeaves} :
    \E sends \in [Streams -> {0, Cache}] :
      /\ A(bad, sends)
      /\ faults' = faults + Cardinality(bad)

\* Something happens in the game and is recorded; without room for it the
\* header may still fit, and the data overflows the frame.
Emit ==
  /\ demo.mvdrecording
  /\ BoundLeaves
  /\ CanBegin(demo)
  /\ demo' = IF Fits(demo) THEN AddEvent(demo, events + 1) ELSE Overflow(demo)
  /\ events' = events + 1
  /\ UNCHANGED <<time, byes, faults>>

\* Or MVDWrite_Begin fails.
EmitFails(bad, sends) ==
  /\ demo.mvdrecording
  /\ BoundLeaves
  /\ ~Fits(demo)
  /\ demo' = StopAndRemove(IF CanBegin(demo) THEN Overflow(demo) ELSE demo,
                           FALSE, bad, sends)
  /\ events' = events + 1
  /\ UNCHANGED <<time, byes>>

\* SV_MVD_Record_f and SV_MVDEasyRecord_f.
RecordFile(bad, sends) ==
  \E f \in Files :
    /\ demo.fate[f] = "new"
    /\ \E cached \in {demo.cached, demo.cached \cup {f}} :
         demo' = RecordDest([demo EXCEPT !.cached = cached], f, bad)
    /\ UNCHANGED <<time, events, byes>>

\* SV_MVDStop_f.
StopFiles(bad, sends) ==
  /\ demo.mvdrecording
  /\ BoundLeaves
  /\ demo' = Stop(demo, TRUE, events + 1, bad, sends)
  /\ events' = events + 1
  /\ byes' = byes \cup {events + 1}
  /\ UNCHANGED time

\* SV_MVD_Cancel_f.
CancelFiles(bad, sends) ==
  /\ demo.mvdrecording
  /\ demo' = StopAndRemove(demo, TRUE, bad, sends)
  /\ UNCHANGED <<time, events, byes>>

\* SV_MVDCloseStreams: the streams are marked and closed by the next flush.
CloseStreams ==
  /\ \E s \in Streams : s \in demo.dest /\ ~demo.error[s]
  /\ demo' = [demo EXCEPT !.error = [d \in Dests |->
                 @[d] \/ (d \in Streams /\ d \in demo.dest)]]
  /\ UNCHANGED <<time, events, byes, faults>>

\* SV_Map and SV_SpawnServer: files are closed, sv is wiped, and the streams
\* that stay get the state of the new level.
MapChange(bad, sends) ==
  /\ BoundLeaves
  /\ LET quiet == IF demo.mvdrecording
                  THEN Stop(demo, TRUE, events + 1, bad, sends) ELSE demo
     IN demo' = RecordMap([quiet EXCEPT !.mvdrecording = FALSE], bad)
  /\ events' = IF demo.mvdrecording THEN events + 1 ELSE events
  /\ byes' = IF demo.mvdrecording THEN byes \cup {events + 1} ELSE byes
  /\ time' = StartTime

\* A variation of UpdateBase: delta_sequence is taken after the sequence is advanced.
UpdateBase_Late(k) == IF k % FullEvery = 0 THEN Full ELSE k

\* The entities of frame k are written as changes from the frame before it,
\* but for the first and for each whose delta_sequence, a byte, is 0.
UpdateBase(k) == IF k = 0 \/ (k - 1) % FullEvery = 0 THEN Full ELSE k - 1

CloseFrame(dm, now) ==
  [dm EXCEPT !.frames[Slot(dm.parsecount)].time = now,
             !.frames[Slot(dm.parsecount)].base = UpdateBase(dm.parsecount)]

\* MVD_WriteStats and SV_WriteEntitiesToClient; a frame without room for the
\* header (late says it has that) ends the recording.
WriteUpdate(dm, now, late, bad, sends) ==
  IF Fits(dm) THEN CloseFrame(dm, now)
  ELSE IF CanBegin(dm) /\ late THEN Overflow(CloseFrame(dm, now))
  ELSE StopAndRemove(IF CanBegin(dm) THEN Overflow(dm) ELSE dm, FALSE, bad, sends)

\* A variation of Trail: nothing is written before the stop.
Trail_Never(dm, bad, sends) == dm

Trail(dm, bad, sends) ==
  IF ~dm.mvdrecording \/ dm.parsecount - dm.lastwritten <= Lag THEN dm
  ELSE LET out == WritePackets(dm, 1, bad)
       IN IF Failed(dm, 1) THEN StopAndRemove(out, FALSE, bad, sends) ELSE out

NextFrame(dm) == IF dm.mvdrecording THEN [dm EXCEPT !.parsecount = @ + 1] ELSE dm

\* The rest of SV_SendDemoMessage, with who is there.
SendFrame(dm, late, bad, sends) ==
  IF ~dm.mvdrecording THEN DestFlush(dm, FALSE, bad, sends)
  ELSE LET written == WriteUpdate(dm, time + 1, late, bad, sends)
           trailed == Trail(written, bad, sends)
       IN NextFrame(DestFlush(trailed, FALSE, bad, sends))

\* SV_SendDemoMessage with SV_MVD_RunPendingConnections, which may turn a
\* pending connection into a stream.
SendDemoMessage(bad, sends) ==
  /\ time < MaxTime
  /\ \E joined \in {demo} \cup {RecordDest(demo, s, bad) :
                                    s \in {x \in Streams : demo.fate[x] = "new"}} :
       /\ joined.mvdrecording \/ joined.dest # {}
       /\ demo' \in {SendFrame(joined, late, bad, sends) : late \in BOOLEAN}
  /\ time' = time + 1
  /\ UNCHANGED <<events, byes>>

Next ==
  \/ Emit
  \/ Outside(EmitFails)
  \/ Outside(RecordFile)
  \/ Outside(StopFiles)
  \/ Outside(CancelFiles)
  \/ CloseStreams
  \/ Outside(MapChange)
  \/ Outside(SendDemoMessage)

Spec == Init /\ [][Next]_vars

---------------------------------------------------------------------------
(* Properties. *)

Item == [kind : {"state"}, at : Nat]
        \cup [kind : {"frame"}, no : Nat, base : Nat \cup {Full, NoUpdate},
              time : Nat, mark : 0 .. MarkCap, evs : Seq(Nat)]

\* The state's types; the writer never passes the frame being filled, a cache
\* is never longer than its room.
TypeOK ==
  /\ demo.mvdrecording \in BOOLEAN /\ demo.spilled \in BOOLEAN
  /\ demo.cached \subseteq Files
  /\ demo.dest \subseteq Dests
  /\ demo.lastwritten \in Nat
  /\ demo.parsecount - demo.lastwritten \in 0 .. Lag + 1
  /\ \A d \in Dests :
       /\ \A i \in DOMAIN demo.wrote[d] : demo.wrote[d][i] \in Item
       /\ demo.sent[d] \in 0 .. Len(demo.wrote[d])
       /\ Buffered(demo, d) => CacheUsed(demo, d) <= Cache
       /\ demo.fate[d] \in {"new", "open", "closed", "removed", "dropped"}
       /\ (demo.fate[d] = "open") <=> (d \in demo.dest)
  /\ events \in 0 .. MaxEvents /\ byes \subseteq 1 .. events

\* The events of one item, and of all that a destination was given.
EventsOf(item) == IF item.kind = "frame" THEN Range(item.evs) ELSE {}
Given(w) == UNION {EventsOf(w[i]) : i \in DOMAIN w}

\* What waits in the ring, as it would be written.
Waiting(dm) == [i \in 1 .. dm.parsecount - dm.lastwritten + 1 |-> FrameItem(dm, i - 1)]

\* Events are given in the order they happened, each once.
Increasing(s) == \A i, j \in DOMAIN s : i < j => s[i] < s[j]
Before(S, T) == \A x \in S, y \in T : x < y
InOrder(w) ==
  \A i \in DOMAIN w :
    /\ w[i].kind = "frame" => Increasing(w[i].evs)
    /\ \A j \in DOMAIN w : i < j => Before(EventsOf(w[i]), EventsOf(w[j]))

\* S holds every event after from up to last, and no other but, without a gap,
\* some that came before.
Covers(S, from, last) ==
  /\ from <= last /\ S \subseteq 1 .. last
  /\ \A x \in S \cup {from + 1} : x .. last \subseteq S

\* What a destination was given and what waits in the ring are together all
\* the events since the state it began with: the trailing writer loses,
\* repeats and reorders nothing, whoever joins, stops or is dropped meanwhile,
\* while no frame overflows; and whatever overflows or fails, none is given an
\* event twice or after a later one
\* (SV_SendDemoMessage, SV_MVDWritePackets, SV_MVDStop).
Complete(w, dm, last) ==
  LET all == w \o Waiting(dm)
  IN InOrder(all) /\ Covers(Given(all), w[1].at, last)

NothingLost ==
  /\ TypeOK
  /\ \A d \in Dests : InOrder(demo.wrote[d])
  /\ \A d \in demo.dest :
       ~demo.error[d] /\ ~demo.spilled => Complete(demo.wrote[d], demo, events)

\* A file closed by a stop holds all events up to the stop and ends with the
\* disconnect, and all of it is on disk, unless a frame overflowed before
\* (SV_MVDStop, DestCloseAllFlush).
ClosedWhole ==
  \A f \in Files : demo.fate[f] = "closed" =>
    /\ demo.sent[f] = Len(demo.wrote[f])
    /\ demo.spilled \/ \E b \in byes : Covers(Given(demo.wrote[f]), demo.wrote[f][1].at, b)

\* The server records exactly while it has a destination: the last one to
\* close or fail ends the recording (DestFlush, DestCloseAllFlush).
RecordingHasDest == demo.mvdrecording <=> demo.dest # {}

\* i and j are neighbouring entity updates of one level in what was given.
IsUpdate(item) == item.kind = "frame" /\ item.base # NoUpdate
Quiet(item) == item.kind = "frame" /\ item.base = NoUpdate
Neighbours(w, i, j) ==
  /\ i < j /\ IsUpdate(w[i]) /\ IsUpdate(w[j])
  /\ \A k \in i + 1 .. j - 1 : Quiet(w[k])

\* Each entity update is relative to the one before it in the same file or
\* stream, or to none (SV_EmitPacketEntities for demo.recorder).
Chained(w) ==
  \A i, j \in DOMAIN w : Neighbours(w, i, j) => w[j].base \in {Full, w[i].no}

DeltaChain == \A d \in Dests : Chained(demo.wrote[d])

Marked(w) ==
  \A i, j \in DOMAIN w :
    Neighbours(w, i, j) => w[j].mark = FrameDelta(w[i].time, w[j].time)

\* The marks of a file say the time that passed from each of its frames to
\* the next (MVD_FrameDeltaTime), also with several files at once.
FileMarks == \A f \in Files : Marked(demo.wrote[f])

\* The same of the streams.  A stop writes the unfinished frame with the time
\* its slot of the ring had before, and demo.prevtime goes back to it: does not
\* hold for a stream that stays.
StreamMarks == \A s \in Streams : Marked(demo.wrote[s])

\* The first entity update after a game state needs no earlier one.  A
\* destination that joins a recording gets one relative to a frame it has not:
\* does not hold.
FirstIsFull ==
  \A d \in Dests : LET w == demo.wrote[d] IN
    \A i, j \in DOMAIN w :
      (/\ i < j /\ w[i].kind = "state" /\ IsUpdate(w[j])
       /\ \A k \in i + 1 .. j - 1 : Quiet(w[k]))
        => w[j].base = Full
=============================================================================
