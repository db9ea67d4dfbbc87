---------------------------- MODULE DemoProofs ----------------------------
(* Demos, written and played.  What MvdRecording promises, for any number  *)
(* of files and streams and any sizes of ring, frames and caches: who is   *)
(* written to, what of the game was written, and that the frames of a file *)
(* fit each other.  Then what DemoPlayback promises, for any files: that a *)
(* playback, jumped in or not, shows what is due.                          *)
EXTENDS MvdRecording, DemoPlayback, FiniteSetTheorems, SequenceTheorems,
        WellFoundedInduction, TLAPS

(* The types of a recording.                                               *)
Frames == [time : Nat, base : Nat \cup {Full, NoUpdate}, buf : Seq(Nat),
           over : BOOLEAN]
Fates == {"new", "open", "closed", "removed", "dropped"}
Demo == [mvdrecording : BOOLEAN, dest : SUBSET Dests,
         parsecount : Nat, lastwritten : Nat, prevtime : Nat,
         frames : [0 .. Ring - 1 -> Frames],
         wrote : [Dests -> Seq(Item)], sent : [Dests -> Nat],
         error : [Dests -> BOOLEAN], fate : [Dests -> Fates],
         cached : SUBSET Files, spilled : BOOLEAN]

(* The frames between the writer and the game, and the events in them.     *)
Ahead(dm) == dm.lastwritten .. dm.parsecount
Buf(dm, k) == Range(dm.frames[Slot(k)].buf)
Pending(dm) == UNION {Buf(dm, k) : k \in Ahead(dm)}

(* The events of a frame are in order and before those of the next frames. *)
Sorted(dm, e) ==
    \A k \in Ahead(dm) :
        /\ Increasing(dm.frames[Slot(k)].buf)
        /\ Buf(dm, k) \subseteq 1 .. e
        /\ \A j \in Ahead(dm) : k < j => Before(Buf(dm, k), Buf(dm, j))

(* Frames up to top have their update.                                     *)
Updated(dm, top) ==
    /\ \A k \in dm.lastwritten .. top - 1 :
          dm.frames[Slot(k)].base = UpdateBase(k)
    /\ top = dm.parsecount => dm.frames[Slot(top)].base = NoUpdate

(* What was written is out of the ring.                                    *)
Reset(dm) ==
    \A s \in 0 .. Ring - 1 :
        (\A k \in Ahead(dm) : s # Slot(k))
            => dm.frames[s].buf = <<>> /\ dm.frames[s].base = NoUpdate

(* S holds with an event all the later ones.                               *)
NoGap(S, e) == \A x \in S : x .. e \subseteq S
Unspilled(dm, e) ==
    ~dm.spilled => /\ \A s \in 0 .. Ring - 1 : ~dm.frames[s].over
                   /\ NoGap(Pending(dm), e)

RingInv(dm, e, top) ==
    Sorted(dm, e) /\ Updated(dm, top) /\ Reset(dm) /\ Unspilled(dm, e)

(* What a destination that takes part was given fits what waits.           *)
Follows(dm, w, e) ==
    /\ w # <<>> /\ w[1].kind = "state" /\ w[1].at <= e /\ Given(w) \subseteq 1 .. e
    /\ \A k \in Ahead(dm) : Before(Given(w), Buf(dm, k))
    /\ ~dm.spilled => Covers(Given(w) \cup Pending(dm), w[1].at, e)

LastUpdate(dm, w) ==
    \A i \in DOMAIN w :
        IsUpdate(w[i]) /\ (\A k \in i + 1 .. Len(w) : Quiet(w[k]))
            => w[i].no = dm.lastwritten - 1

LastMark(dm, w) ==
    w # <<>> /\ w[Len(w)].kind = "frame"
        => IsUpdate(w[Len(w)]) /\ w[Len(w)].time = dm.prevtime

(* What was given to a destination, in good times or bad.                  *)
Written(w, d) == InOrder(w) /\ Chained(w) /\ (d \in Files => Marked(w))

Kept(dm, d) ==
    /\ dm.sent[d] <= Len(dm.wrote[d])
    /\ Buffered(dm, d) => CacheUsed(dm, d) <= Cache
    /\ d \in Files /\ ~Buffered(dm, d) => dm.sent[d] = Len(dm.wrote[d])
    /\ dm.fate[d] = "open" <=> d \in dm.dest
    /\ dm.fate[d] = "new" => dm.wrote[d] = <<>>

Fine(dm, e, top) ==
    /\ dm \in Demo
    /\ dm.parsecount - dm.lastwritten \in 0 .. Lag + 1
    /\ \A d \in Dests : Kept(dm, d) /\ Written(dm.wrote[d], d)
    /\ dm.mvdrecording <=> dm.dest # {}
    /\ dm.mvdrecording => RingInv(dm, e, top)
    /\ \A d \in dm.dest : ~dm.error[d] =>
          Follows(dm, dm.wrote[d], e) /\ LastUpdate(dm, dm.wrote[d])

Timely(dm) ==
    \A f \in Files \cap dm.dest : ~dm.error[f] => LastMark(dm, dm.wrote[f])

(* A file that was closed.                                                 *)
Closed(dm, bs) ==
    \A f \in Files : dm.fate[f] = "closed" =>
        /\ dm.sent[f] = Len(dm.wrote[f])
        /\ dm.spilled \/ \E b \in bs : Covers(Given(dm.wrote[f]), dm.wrote[f][1].at, b)

IInv ==
    /\ Fine(demo, events, demo.parsecount) /\ Timely(demo)
    /\ Closed(demo, byes)
    /\ time \in Nat /\ faults \in Nat
    /\ events \in 0 .. MaxEvents /\ byes \subseteq 1 .. events
-----------------------------------------------------------------------------
(* The constants, and places in the ring.                                  *)

LEMMA Constants ==
    /\ Ring \in Nat /\ Lag \in Nat /\ Lag + 1 < Ring
    /\ Room \in Nat /\ Cache \in Nat /\ NearFull \in Nat /\ MaxSize \in Nat
    /\ MarkCap \in Nat /\ StartTime \in Nat /\ MaxTime \in Nat
    /\ MaxEvents \in Nat /\ MaxFaults \in Nat
    /\ FullEvery \in Nat /\ FullEvery > 0
  BY LagAssumption, CapAssumption, SizeAssumption
     DEF LagAssumption, CapAssumption, SizeAssumption

LEMMA SlotInRing == ASSUME NEW a \in Nat PROVE Slot(a) \in 0 .. Ring - 1
  BY Constants DEF Slot

(* Numbers less than a ring apart do not share a place.                    *)
LEMMA SlotsDiffer ==
    ASSUME NEW a \in Nat, NEW b \in Nat, a < b, b - a < Ring
    PROVE  Slot(a) # Slot(b)
  <1> DEFINE N == Ring
             p == a \div N
             q == b \div N
  <1>0. N \in Nat /\ N > 0
    BY Constants
  <1>1. a = N * p + (a % N) /\ p \in Int /\ a % N \in 0 .. N - 1
    BY <1>0
  <1>2. b = N * q + (b % N) /\ q \in Int /\ b % N \in 0 .. N - 1
    BY <1>0
  <1>3. SUFFICES ASSUME a % N = b % N PROVE FALSE
    BY DEF Slot
  <1>4. b - a = N * q - N * p
    BY <1>0, <1>1, <1>2, <1>3
  <1>5. p \in Int /\ q \in Int /\ b - a < N
    BY <1>1, <1>2
  <1> HIDE DEF p, q, N
  <1>6. N * q - N * p = N * (q - p)
    BY <1>0, <1>5
  <1>7. CASE q - p >= 1
    <2>1. PICK d \in Nat : q - p = d + 1
      BY <1>5, <1>7
    <2>2. N * (d + 1) = N * d + N /\ N * d \in Nat
      BY <1>0
    <2> QED
      BY <1>0, <1>4, <1>5, <1>6, <2>1, <2>2
  <1>8. CASE q - p <= 0
    <2>1. PICK d \in Nat : q - p = -d
      BY <1>5, <1>8
    <2>2. N * (-d) = -(N * d) /\ N * d \in Nat
      BY <1>0
    <2> QED
      BY <1>0, <1>4, <1>6, <2>1, <2>2
  <1> QED
    BY <1>5, <1>7, <1>8
(* Every number ahead has a place of its own.                              *)
LEMMA AheadSlots ==
    ASSUME NEW dm \in Demo, dm.parsecount - dm.lastwritten \in 0 .. Lag + 1
    PROVE  /\ \A k \in Ahead(dm) : k \in Nat /\ Slot(k) \in 0 .. Ring - 1
           /\ \A j, k \in Ahead(dm) : Slot(j) = Slot(k) => j = k
           /\ dm.lastwritten \in Nat /\ dm.parsecount \in Nat
           /\ dm.lastwritten \in Ahead(dm) /\ dm.parsecount \in Ahead(dm)
  <1>1. dm.lastwritten \in Nat /\ dm.parsecount \in Nat
    BY DEF Demo
  <1>2. \A k \in Ahead(dm) : k \in Nat /\ Slot(k) \in 0 .. Ring - 1
    BY <1>1, SlotInRing DEF Ahead
  <1>3. ASSUME NEW j \in Ahead(dm), NEW k \in Ahead(dm), j < k
        PROVE  Slot(j) # Slot(k)
    <2>1. j \in Nat /\ k \in Nat /\ k - j < Ring
      BY <1>1, Constants DEF Ahead
    <2> QED
      BY <1>3, <2>1, SlotsDiffer
  <1>4. ASSUME NEW j \in Ahead(dm), NEW k \in Ahead(dm), Slot(j) = Slot(k)
        PROVE  j = k
    <2>1. j \in Nat /\ k \in Nat
      BY <1>2
    <2>2. ~(j < k) /\ ~(k < j)
      BY <1>3, <1>4
    <2> QED
      BY <2>1, <2>2
  <1> QED
    BY <1>1, <1>2, <1>4, Constants DEF Ahead

-----------------------------------------------------------------------------
(* Sequences of items.                                                     *)

(* w2 is w with the first m of items after it.                             *)
Grown(w, w2, items, m) ==
    /\ Len(w2) = Len(w) + m
    /\ \A i \in 1 .. Len(w) : w2[i] = w[i]
    /\ \A j \in 1 .. m : w2[Len(w) + j] = items[j]
    /\ m = 0 => w2 = w

LEMMA GrownBy ==
    ASSUME NEW w \in Seq(Item), NEW items \in Seq(Item),
           NEW m \in 0 .. Len(items)
    PROVE  /\ w \o SubSeq(items, 1, m) \in Seq(Item)
           /\ Grown(w, w \o SubSeq(items, 1, m), items, m)
  <1> DEFINE s == SubSeq(items, 1, m)
  <1>1. s \in Seq(Item) /\ Len(s) = m /\ \A j \in 1 .. m : s[j] = items[j]
    OBVIOUS
  <1>2. Len(w) \in Nat /\ m \in Nat
    OBVIOUS
  <1> HIDE DEF s
  <1>3. /\ w \o s \in Seq(Item) /\ Len(w \o s) = Len(w) + m
        /\ \A i \in 1 .. Len(w) : (w \o s)[i] = w[i]
    BY <1>1, <1>2
  <1>4. ASSUME NEW j \in 1 .. m PROVE (w \o s)[Len(w) + j] = items[j]
    BY <1>1, <1>2
  <1>5. ASSUME m = 0 PROVE w \o s = w
    <2>1. s = <<>>
      BY <1>1, <1>5
    <2> QED
      BY <2>1
  <1> QED
    BY <1>3, <1>4, <1>5 DEF Grown, s
-----------------------------------------------------------------------------
(* Writing to the destinations.                                            *)

LEMMA DemoParts ==
    ASSUME NEW dm \in Demo
    PROVE  /\ dm.dest \subseteq Dests /\ dm.cached \subseteq Files
           /\ dm.mvdrecording \in BOOLEAN /\ dm.spilled \in BOOLEAN
           /\ dm.parsecount \in Nat /\ dm.lastwritten \in Nat
           /\ dm.prevtime \in Nat
           /\ dm.frames \in [0 .. Ring - 1 -> Frames]
           /\ dm.wrote \in [Dests -> Seq(Item)] /\ dm.sent \in [Dests -> Nat]
           /\ dm.error \in [Dests -> BOOLEAN] /\ dm.fate \in [Dests -> Fates]
  BY DEF Demo

(* The fields that writing leaves alone.                                   *)
SameRing(dm, out) ==
    /\ out.parsecount = dm.parsecount /\ out.lastwritten = dm.lastwritten
    /\ out.prevtime = dm.prevtime /\ out.frames = dm.frames
    /\ out.spilled = dm.spilled

(* out is dm with items given to the destinations of to.                   *)
GivenTo(dm, out, items, to, d) ==
    /\ Kept(out, d)
    /\ dm.error[d] => out.error[d]
    /\ \E m \in 0 .. Len(items) :
          /\ Grown(dm.wrote[d], out.wrote[d], items, m)
          /\ dm.error[d] => m = 0
          /\ d \notin to \cap dm.dest
                => m = 0 /\ out.error[d] = dm.error[d] /\ out.sent[d] = dm.sent[d]
          /\ ~out.error[d] /\ d \in to \cap dm.dest => m = Len(items)

Writes(dm, out, items, to) ==
    /\ out \in Demo /\ SameRing(dm, out)
    /\ out.mvdrecording = dm.mvdrecording /\ out.dest = dm.dest
    /\ out.fate = dm.fate /\ out.cached = dm.cached
    /\ \A d \in Dests : GivenTo(dm, out, items, to, d)

LEMMA DemoWriteGives ==
    ASSUME NEW dm \in Demo, \A d \in Dests : Kept(dm, d),
           NEW items \in Seq(Item), NEW to, NEW bad
    PROVE  Writes(dm, DemoWrite(dm, items, to, bad), items, to)
  <1> DEFINE
        at == to \cap dm.dest
        take(d) == IF d \notin at \/ dm.error[d] THEN 0
                   ELSE IF Buffered(dm, d)
                   THEN Least(Len(items), Cache - CacheUsed(dm, d))
                   ELSE IF d \in bad THEN 0 ELSE Len(items)
        takes == [d \in Dests |-> take(d)]
        wrote == [d \in Dests |-> dm.wrote[d] \o SubSeq(items, 1, takes[d])]
        sent == [d \in Dests |-> IF Buffered(dm, d) THEN dm.sent[d]
                                 ELSE Len(wrote[d])]
        error == [d \in Dests |->
                    dm.error[d] \/ (d \in at /\ takes[d] < Len(items))]
        out == DemoWrite(dm, items, to, bad)
  <1>1. out = [dm EXCEPT !.wrote = wrote, !.sent = sent, !.error = error]
    <2>1. /\ sent = [d \in Dests |-> IF Buffered(dm, d) THEN dm.sent[d]
                                     ELSE Len(wrote[d])]
          /\ error = [d \in Dests |->
                    dm.error[d] \/ (d \in at /\ takes[d] < Len(items))]
      OBVIOUS
    <2> QED
      BY <2>1 DEF DemoWrite
  <1>2. ASSUME NEW d \in Dests
        PROVE  /\ dm.wrote[d] \in Seq(Item) /\ dm.sent[d] \in Nat
               /\ dm.error[d] \in BOOLEAN /\ Len(dm.wrote[d]) \in Nat
               /\ dm.sent[d] <= Len(dm.wrote[d])
               /\ Buffered(dm, d) => CacheUsed(dm, d) <= Cache
               /\ CacheUsed(dm, d) = Len(dm.wrote[d]) - dm.sent[d]
    BY DemoParts DEF Kept, CacheUsed
  <1>3. ASSUME NEW d \in Dests
        PROVE  take(d) \in 0 .. Len(items)
    <2>1. Len(items) \in Nat /\ Cache \in Nat
      BY Constants
    <2> QED
      BY <1>2, <2>1 DEF Least
  <1> HIDE DEF take
  <1>4. ASSUME NEW d \in Dests
        PROVE  /\ takes[d] = take(d) /\ takes[d] \in 0 .. Len(items)
               /\ wrote[d] = dm.wrote[d] \o SubSeq(items, 1, take(d))
               /\ wrote[d] \in Seq(Item)
               /\ Grown(dm.wrote[d], wrote[d], items, take(d))
    BY <1>2, <1>3, GrownBy
  <1>5. \A d \in Dests :
          /\ sent[d] = (IF Buffered(dm, d) THEN dm.sent[d] ELSE Len(wrote[d]))
          /\ error[d] <=> dm.error[d] \/ (d \in at /\ take(d) < Len(items))
          /\ error[d] \in BOOLEAN
    BY <1>2, <1>4
  <1>6. /\ wrote \in [Dests -> Seq(Item)] /\ sent \in [Dests -> Nat]
        /\ error \in [Dests -> BOOLEAN]
    <2>1. \A d \in Dests : Len(wrote[d]) \in Nat
      BY <1>4
    <2> QED
      BY <1>2, <1>4, <2>1
  <1> HIDE DEF takes, wrote, sent, error, out
  <1>7. /\ out \in Demo /\ SameRing(dm, out)
        /\ out.wrote = wrote /\ out.sent = sent /\ out.error = error
        /\ out.mvdrecording = dm.mvdrecording /\ out.dest = dm.dest
        /\ out.fate = dm.fate /\ out.cached = dm.cached
    <2>1. ASSUME NEW w \in [Dests -> Seq(Item)], NEW s \in [Dests -> Nat],
                 NEW e \in [Dests -> BOOLEAN], NEW x,
                 w = wrote, s = sent, e = error, x = out
          PROVE  /\ x \in Demo /\ SameRing(dm, x)
                 /\ x.wrote = w /\ x.sent = s /\ x.error = e
                 /\ x.mvdrecording = dm.mvdrecording /\ x.dest = dm.dest
                 /\ x.fate = dm.fate /\ x.cached = dm.cached
      <3>1. x = [dm EXCEPT !.wrote = w, !.sent = s, !.error = e]
        BY <1>1, <2>1
      <3> QED
        BY ONLY dm \in Demo, w \in [Dests -> Seq(Item)],
           s \in [Dests -> Nat], e \in [Dests -> BOOLEAN], <3>1
           DEF SameRing, Demo
    <2> QED
      BY <1>6, <2>1
  <1>8. ASSUME NEW d \in Dests
        PROVE  GivenTo(dm, out, items, to, d)
    <2>1. /\ Len(items) \in Nat /\ take(d) \in Nat /\ Cache \in Nat
          /\ take(d) <= Len(items)
      BY <1>3, Constants
    <2>2. Len(wrote[d]) = Len(dm.wrote[d]) + take(d) /\ Len(wrote[d]) \in Nat
      BY <1>4 DEF Grown
    <2>3. d \notin at \/ dm.error[d] => take(d) = 0
      BY DEF take
    <2>4. Buffered(dm, d) /\ take(d) # 0
            => take(d) <= Cache - CacheUsed(dm, d)
      BY <1>2, <2>1 DEF take, Least
    <2>5. Kept(out, d)
      <3>1. Buffered(out, d) = Buffered(dm, d)
        BY <1>7 DEF Buffered
      <3>2. Kept(dm, d) /\ CacheUsed(out, d) = Len(wrote[d]) - sent[d]
        BY <1>7 DEF CacheUsed
      <3>3. sent[d] <= Len(wrote[d])
        BY <1>2, <1>5, <2>1, <2>2
      <3>4. Buffered(dm, d) => Len(wrote[d]) - sent[d] <= Cache
        BY <1>2, <1>5, <2>1, <2>2, <2>4
      <3>5. ~Buffered(dm, d) => sent[d] = Len(wrote[d])
        BY <1>5
      <3>6. dm.fate[d] = "new" => wrote[d] = <<>>
        <4>1. dm.fate[d] = "new" => d \notin at
          BY <3>2 DEF Kept
        <4> QED
          BY <1>4, <2>3, <3>2, <4>1 DEF Grown, Kept
      <3> QED
        BY <1>7, <3>1, <3>2, <3>3, <3>4, <3>5, <3>6 DEF Kept
    <2>6. dm.error[d] => out.error[d]
      BY <1>5, <1>7
    <2>7. d \notin at => take(d) = 0 /\ out.error[d] = dm.error[d]
      BY <1>2, <1>5, <1>7, <2>3
    <2>8. d \notin at => out.sent[d] = dm.sent[d]
      <3>1. Kept(dm, d)
        OBVIOUS
      <3>2. d \notin at => Len(wrote[d]) = Len(dm.wrote[d])
        BY <1>2, <2>2, <2>3
      <3>3. ~Buffered(dm, d) => dm.sent[d] = Len(dm.wrote[d])
        BY <3>1 DEF Kept, Buffered, Dests
      <3> QED
        BY <1>5, <1>7, <3>2, <3>3
    <2>9. ~out.error[d] /\ d \in at => take(d) = Len(items)
      <3>1. ~out.error[d] /\ d \in at => ~(take(d) < Len(items))
        BY <1>5, <1>7
      <3> QED
        BY <2>1, <3>1
    <2> QED
      BY <1>3, <1>4, <1>7, <2>3, <2>5, <2>6, <2>7, <2>8, <2>9 DEF GivenTo
  <1> QED
    BY <1>7, <1>8 DEF Writes, out
-----------------------------------------------------------------------------
(* Flushing and closing the destinations.                                  *)

(* What a flush and a close have in common: contents and ring stay, who    *)
(* fails or leaves does not come back.                                     *)
Flushes(dm, out) ==
    /\ out \in Demo /\ SameRing(dm, out)
    /\ out.wrote = dm.wrote /\ out.cached = dm.cached
    /\ out.dest \subseteq {d \in dm.dest : ~dm.error[d]}
    /\ (dm.mvdrecording <=> dm.dest # {})
          => (out.mvdrecording <=> out.dest # {})
    /\ \A d \in Dests :
          /\ Kept(out, d)
          /\ dm.error[d] => out.error[d]
          /\ d \notin dm.dest => out.fate[d] = dm.fate[d] /\ out.sent[d] = dm.sent[d]

PassesOn(dm, out, complete) ==
    /\ Flushes(dm, out)
    /\ out.dest = {d \in dm.dest : ~dm.error[d]}
    /\ \A d \in Dests : out.fate[d] = "closed" => dm.fate[d] = "closed"
    /\ complete => \A d \in out.dest :
          d \in Files /\ ~out.error[d] => out.sent[d] = Len(out.wrote[d])

Sends == [Streams -> {0, Cache}]

LEMMA DestFlushes ==
    ASSUME NEW dm \in Demo, \A d \in Dests : Kept(dm, d),
           NEW complete \in BOOLEAN, NEW bad, NEW sends \in Sends
    PROVE  PassesOn(dm, DestFlush(dm, complete, bad, sends), complete)
  <1> DEFINE
        left == {d \in dm.dest : ~dm.error[d]}
        gone == dm.dest \ left
        due == {d \in left \cap dm.cached :
                   complete \/ CacheUsed(dm, d) + NearFull > Cache}
        live == left \cap Streams
        failed == (bad \cap (due \cup live))
                  \cup {d \in left \cap Files : Len(dm.wrote[d]) > MaxSize}
        rec == dm.mvdrecording /\ (left = {} => dm.dest = {})
        fate == [d \in Dests |-> IF d \in gone THEN "dropped" ELSE dm.fate[d]]
        sent == [d \in Dests |->
                   IF d \in due \ bad THEN Len(dm.wrote[d])
                   ELSE IF d \in live \ bad
                   THEN dm.sent[d] + Least(sends[d], CacheUsed(dm, d))
                   ELSE dm.sent[d]]
        error == [d \in Dests |-> dm.error[d] \/ d \in failed]
        out == DestFlush(dm, complete, bad, sends)
  <1>1. out = [dm EXCEPT !.dest = left, !.mvdrecording = rec, !.fate = fate,
                         !.sent = sent, !.error = error]
    BY DEF DestFlush
  <1>2. ASSUME NEW d \in Dests
        PROVE  /\ dm.wrote[d] \in Seq(Item) /\ dm.sent[d] \in Nat
               /\ dm.error[d] \in BOOLEAN /\ Len(dm.wrote[d]) \in Nat
               /\ dm.sent[d] <= Len(dm.wrote[d]) /\ dm.fate[d] \in Fates
               /\ CacheUsed(dm, d) = Len(dm.wrote[d]) - dm.sent[d]
               /\ CacheUsed(dm, d) \in Nat
    <2>1. Len(dm.wrote[d]) \in Nat /\ dm.sent[d] \in Nat
      BY DemoParts
    <2>2. CacheUsed(dm, d) = Len(dm.wrote[d]) - dm.sent[d]
      BY DEF CacheUsed
    <2>3. Kept(dm, d)
      OBVIOUS
    <2> QED
      BY <2>1, <2>2, <2>3, DemoParts DEF Kept
  <1>3. ASSUME NEW d \in Dests
        PROVE  /\ sent[d] \in Nat /\ sent[d] <= Len(dm.wrote[d])
               /\ dm.sent[d] <= sent[d]
               /\ d \notin dm.dest => sent[d] = dm.sent[d]
               /\ dm.sent[d] = Len(dm.wrote[d]) => sent[d] = Len(dm.wrote[d])
               /\ d \in due \ bad => sent[d] = Len(dm.wrote[d])
    <2>1. d \in live \ bad => sends[d] \in Nat
      BY Constants DEF Sends
    <2>2. sent[d] = IF d \in due \ bad THEN Len(dm.wrote[d])
                    ELSE IF d \in live \ bad
                    THEN dm.sent[d] + Least(sends[d], CacheUsed(dm, d))
                    ELSE dm.sent[d]
      OBVIOUS
    <2>3. d \notin dm.dest => d \notin due \ bad /\ d \notin live \ bad
      OBVIOUS
    <2> HIDE DEF due, live, sent
    <2> QED
      BY <1>2, <2>1, <2>2, <2>3 DEF Least
  <1>4. \A d \in Dests :
          /\ fate[d] = (IF d \in gone THEN "dropped" ELSE dm.fate[d])
          /\ error[d] <=> dm.error[d] \/ d \in failed
    BY <1>2
  <1>5. /\ sent \in [Dests -> Nat] /\ error \in [Dests -> BOOLEAN]
        /\ fate \in [Dests -> Fates] /\ left \in SUBSET Dests /\ rec \in BOOLEAN
    <2>1. sent \in [Dests -> Nat]
      BY <1>3
    <2>2. fate \in [Dests -> Fates]
      BY <1>2 DEF Fates
    <2> QED
      BY <1>2, <2>1, <2>2, DemoParts
  <1>6. ASSUME NEW s \in [Dests -> Nat], NEW e \in [Dests -> BOOLEAN],
               NEW f \in [Dests -> Fates], NEW l \in SUBSET Dests,
               NEW r \in BOOLEAN, NEW x,
               s = sent, e = error, f = fate, l = left, r = rec, x = out
        PROVE  /\ x \in Demo /\ SameRing(dm, x)
               /\ x.wrote = dm.wrote /\ x.cached = dm.cached
               /\ x.dest = l /\ x.mvdrecording = r /\ x.fate = f
               /\ x.sent = s /\ x.error = e
    <2> HIDE DEF out, sent, error, fate, rec, left
    <2>1. x = [dm EXCEPT !.dest = l, !.mvdrecording = r, !.fate = f,
                         !.sent = s, !.error = e]
      BY <1>1, <1>6
    <2> QED
      BY ONLY dm \in Demo, <2>1, s \in [Dests -> Nat], e \in [Dests -> BOOLEAN],
         f \in [Dests -> Fates], l \in SUBSET Dests, r \in BOOLEAN
         DEF SameRing, Demo
  <1> HIDE DEF out, sent, error, fate, rec
  <1>7. /\ out \in Demo /\ SameRing(dm, out)
        /\ out.wrote = dm.wrote /\ out.cached = dm.cached
        /\ out.dest = left /\ out.mvdrecording = rec /\ out.fate = fate
        /\ out.sent = sent /\ out.error = error
    <2> HIDE DEF left
    <2> QED
      BY <1>5, <1>6
  <1>8. (dm.mvdrecording <=> dm.dest # {}) => (rec <=> left # {})
    BY DEF rec
  <1>9. ASSUME NEW d \in Dests
        PROVE  Kept(out, d) /\ (fate[d] = "closed" => dm.fate[d] = "closed")
    <2>1. Kept(dm, d)
      OBVIOUS
    <2>2. Buffered(out, d) = Buffered(dm, d)
      BY <1>7 DEF Buffered
    <2>3. CacheUsed(out, d) = Len(dm.wrote[d]) - sent[d]
      BY <1>7 DEF CacheUsed
    <2>4. fate[d] = "open" <=> d \in left
      BY <1>4, <2>1 DEF Kept
    <2>5. fate[d] = "new" => dm.fate[d] = "new"
      BY <1>4
    <2>6. fate[d] = "closed" => dm.fate[d] = "closed"
      BY <1>4
    <2>7. Buffered(dm, d) => Len(dm.wrote[d]) - sent[d] <= Cache
      BY <1>2, <1>3, <2>1, Constants DEF Kept
    <2> HIDE DEF left
    <2> QED
      BY <1>3, <1>7, <2>1, <2>2, <2>3, <2>4, <2>5, <2>6, <2>7 DEF Kept
  <1>10. ASSUME NEW d \in Dests
         PROVE  d \notin dm.dest => fate[d] = dm.fate[d]
    BY <1>4
  <1>11. ASSUME complete, NEW d \in left, d \in Files, ~error[d]
         PROVE  sent[d] = Len(dm.wrote[d])
    <2>1. d \in Dests /\ Kept(dm, d)
      BY DemoParts
    <2>2. d \notin Streams
      BY <1>11, SetAssumption DEF SetAssumption
    <2>3. CASE d \in dm.cached
      <3>1. d \in due /\ d \notin bad
        BY <1>4, <1>11, <2>1, <2>3
      <3> QED
        BY <1>3, <2>1, <3>1
    <2>4. CASE d \notin dm.cached
      <3>1. ~Buffered(dm, d)
        BY <2>2, <2>4 DEF Buffered
      <3> QED
        BY <1>3, <1>11, <2>1, <3>1 DEF Kept
    <2> QED
      BY <2>3, <2>4
  <1>12. Flushes(dm, out)
    BY <1>3, <1>4, <1>7, <1>8, <1>9, <1>10 DEF Flushes
  <1> QED
    BY <1>7, <1>9, <1>11, <1>12 DEF PassesOn, out
(* What a stop closes was flushed.                                         *)
Closes(dm, out, destroy, mvdonly) ==
    /\ Flushes(dm, out)
    /\ mvdonly => out.dest \cap Files = {}
    /\ ~mvdonly => out.dest = {}
    /\ \A d \in Dests : out.fate[d] = "closed" =>
          \/ dm.fate[d] = "closed"
          \/ /\ d \in dm.dest /\ ~dm.error[d] /\ ~destroy
             /\ d \in Files => out.sent[d] = Len(out.wrote[d])

LEMMA DestCloses ==
    ASSUME NEW dm \in Demo, \A d \in Dests : Kept(dm, d),
           NEW destroy \in BOOLEAN, NEW mvdonly \in BOOLEAN,
           NEW bad, NEW sends \in Sends
    PROVE  Closes(dm, DestCloseAllFlush(dm, destroy, mvdonly, bad, sends),
                  destroy, mvdonly)
  <1> DEFINE
        fl == DestFlush(dm, TRUE, bad, sends)
        shut == {d \in fl.dest : mvdonly => d \in Files}
        left == fl.dest \ shut
        rec == fl.mvdrecording /\ left # {}
        fate == [d \in Dests |-> IF d \notin shut THEN fl.fate[d]
                                 ELSE IF destroy THEN "removed"
                                 ELSE IF fl.error[d] THEN "dropped"
                                 ELSE "closed"]
        out == DestCloseAllFlush(dm, destroy, mvdonly, bad, sends)
  <1>1. out = [fl EXCEPT !.dest = left, !.mvdrecording = rec, !.fate = fate]
    BY DEF DestCloseAllFlush
  <1>2. /\ Flushes(dm, fl) /\ fl.dest = {d \in dm.dest : ~dm.error[d]}
        /\ \A d \in Dests : fl.fate[d] = "closed" => dm.fate[d] = "closed"
        /\ \A d \in fl.dest : d \in Files /\ ~fl.error[d]
                => fl.sent[d] = Len(fl.wrote[d])
    <2>1. PassesOn(dm, fl, TRUE)
      BY DestFlushes
    <2> QED
      BY <2>1 DEF PassesOn
  <1> HIDE DEF fl
  <1>3. fl \in Demo
    BY <1>2 DEF Flushes
  <1>4. \A d \in Dests :
          fate[d] = IF d \notin shut THEN fl.fate[d]
                    ELSE IF destroy THEN "removed"
                    ELSE IF fl.error[d] THEN "dropped" ELSE "closed"
    OBVIOUS
  <1>5. fate \in [Dests -> Fates] /\ left \in SUBSET Dests /\ rec \in BOOLEAN
    <2>1. \A d \in Dests : fl.fate[d] \in Fates
      BY <1>3, DemoParts
    <2>2. fate \in [Dests -> Fates]
      BY <2>1 DEF Fates
    <2> QED
      BY <1>3, <2>2, DemoParts
  <1>6. ASSUME NEW f \in [Dests -> Fates], NEW l \in SUBSET Dests,
               NEW r \in BOOLEAN, NEW x, f = fate, l = left, r = rec, x = out
        PROVE  /\ x \in Demo /\ SameRing(fl, x)
               /\ x.wrote = fl.wrote /\ x.cached = fl.cached
               /\ x.dest = l /\ x.mvdrecording = r /\ x.fate = f
               /\ x.sent = fl.sent /\ x.error = fl.error
    <2> HIDE DEF out, fate, rec, left
    <2>1. x = [fl EXCEPT !.dest = l, !.mvdrecording = r, !.fate = f]
      BY <1>1, <1>6
    <2> QED
      BY ONLY fl \in Demo, <1>3, <2>1, f \in [Dests -> Fates],
         l \in SUBSET Dests, r \in BOOLEAN DEF SameRing, Demo
  <1> HIDE DEF out, fate, rec
  <1>7. /\ out \in Demo /\ SameRing(fl, out)
        /\ out.wrote = fl.wrote /\ out.cached = fl.cached
        /\ out.dest = left /\ out.mvdrecording = rec /\ out.fate = fate
        /\ out.sent = fl.sent /\ out.error = fl.error
    <2> HIDE DEF left
    <2> QED
      BY <1>5, <1>6
  <1>8. (dm.mvdrecording <=> dm.dest # {}) => (rec <=> left # {})
    BY <1>2 DEF rec, Flushes
  <1>9. ASSUME NEW d \in Dests
        PROVE  Kept(out, d)
    <2>1. Kept(fl, d)
      BY <1>2 DEF Flushes
    <2>2. Buffered(out, d) = Buffered(fl, d)
      BY <1>7 DEF Buffered
    <2>3. CacheUsed(out, d) = CacheUsed(fl, d)
      BY <1>7 DEF CacheUsed
    <2>4. fate[d] = "open" <=> d \in left
      BY <1>4, <2>1 DEF Kept
    <2>5. fate[d] = "new" => fl.fate[d] = "new"
      BY <1>4
    <2> HIDE DEF left
    <2> QED
      BY <1>7, <2>1, <2>2, <2>3, <2>4, <2>5 DEF Kept
  <1>10. Flushes(dm, out)
    <2>1. SameRing(dm, out) /\ out.wrote = dm.wrote /\ out.cached = dm.cached
      BY <1>2, <1>7 DEF Flushes, SameRing
    <2>2. out.dest \subseteq {d \in dm.dest : ~dm.error[d]}
      BY <1>2, <1>7
    <2>3. ASSUME NEW d \in Dests
          PROVE  /\ dm.error[d] => out.error[d]
                 /\ d \notin dm.dest
                      => out.fate[d] = dm.fate[d] /\ out.sent[d] = dm.sent[d]
      <3>1. d \notin dm.dest => d \notin shut
        BY <1>2
      <3>2. d \notin dm.dest => fate[d] = fl.fate[d]
        BY <1>4, <3>1
      <3> QED
        BY <1>2, <1>7, <3>2 DEF Flushes
    <2> QED
      BY <1>7, <1>8, <1>9, <2>1, <2>2, <2>3 DEF Flushes
  <1>11. /\ mvdonly => out.dest \cap Files = {}
         /\ ~mvdonly => out.dest = {}
    BY <1>7
  <1>12. ASSUME NEW d \in Dests, out.fate[d] = "closed", dm.fate[d] # "closed"
         PROVE  /\ d \in dm.dest /\ ~dm.error[d] /\ ~destroy
                /\ d \in Files => out.sent[d] = Len(out.wrote[d])
    <2>1. fate[d] = "closed" /\ fl.fate[d] # "closed"
      BY <1>2, <1>7, <1>12
    <2>2. d \in shut /\ ~destroy /\ ~fl.error[d]
      BY <1>4, <2>1
    <2>3. d \in fl.dest
      BY <2>2
    <2> QED
      BY <1>2, <1>7, <2>2, <2>3
  <1> QED
    BY <1>10, <1>11, <1>12 DEF Closes, out
-----------------------------------------------------------------------------
(* Frames that are written.                                                *)

LEMMA FrameParts ==
    ASSUME NEW dm \in Demo, NEW s \in 0 .. Ring - 1
    PROVE  /\ dm.frames[s].time \in Nat /\ dm.frames[s].over \in BOOLEAN
           /\ dm.frames[s].base \in Nat \cup {Full, NoUpdate}
           /\ dm.frames[s].buf \in Seq(Nat)
  <1>1. dm.frames[s] \in Frames
    BY DemoParts
  <1> QED
    BY <1>1 DEF Frames

LEMMA UpdateIsNone == ASSUME NEW k \in Nat PROVE UpdateBase(k) # NoUpdate
  BY DEF UpdateBase, NoUpdate, Full

LEMMA DeltaInBounds ==
    ASSUME NEW a \in Nat, NEW b \in Nat
    PROVE  FrameDelta(a, b) \in 0 .. MarkCap
  BY Constants DEF FrameDelta, Least

(* The i-th frame ahead, as it is written.                                 *)
LEMMA FrameItemParts ==
    ASSUME NEW dm \in Demo, dm.parsecount - dm.lastwritten \in 0 .. Lag + 1,
           NEW i \in 0 .. dm.parsecount - dm.lastwritten
    PROVE  LET k == dm.lastwritten + i
               it == FrameItem(dm, i)
           IN  /\ k \in Ahead(dm) /\ it \in Item
               /\ it.kind = "frame" /\ it.no = k
               /\ it.base = dm.frames[Slot(k)].base
               /\ it.time = dm.frames[Slot(k)].time
               /\ it.evs = dm.frames[Slot(k)].buf
               /\ it.mark = FrameDelta(PrevTime(dm, i), it.time)
               /\ EventsOf(it) = Buf(dm, k)
  <1> DEFINE k == dm.lastwritten + i
             it == FrameItem(dm, i)
             f == dm.frames[Slot(k)]
  <1>1. k \in Ahead(dm) /\ k \in Nat /\ Slot(k) \in 0 .. Ring - 1
    <2>1. dm.lastwritten \in Nat /\ dm.parsecount \in Nat
      BY DemoParts
    <2>2. k \in Ahead(dm)
      BY <2>1 DEF Ahead
    <2> QED
      BY <2>2, AheadSlots
  <1>2. f.time \in Nat /\ f.base \in Nat \cup {Full, NoUpdate} /\ f.buf \in Seq(Nat)
    BY <1>1, FrameParts
  <1>3. PrevTime(dm, i) \in Nat
    <2>1. dm.prevtime \in Nat /\ dm.lastwritten \in Nat
      BY DemoParts
    <2>2. i # 0 => dm.lastwritten + i - 1 \in Nat
      BY <2>1
    <2>3. i # 0 => dm.frames[Slot(dm.lastwritten + i - 1)].time \in Nat
      BY <2>2, SlotInRing, FrameParts
    <2> QED
      BY <2>1, <2>3 DEF PrevTime
  <1>4. it = [kind |-> "frame", no |-> k, base |-> f.base, time |-> f.time,
              mark |-> FrameDelta(PrevTime(dm, i), f.time), evs |-> f.buf]
    BY DEF FrameItem
  <1>5. FrameDelta(PrevTime(dm, i), f.time) \in 0 .. MarkCap
    BY <1>2, <1>3, DeltaInBounds
  <1> HIDE DEF it, k, f
  <1>6. it \in Item
    BY <1>1, <1>2, <1>4, <1>5 DEF Item
  <1>7. /\ it.kind = "frame" /\ it.no = k /\ it.base = f.base
        /\ it.time = f.time /\ it.evs = f.buf
        /\ it.mark = FrameDelta(PrevTime(dm, i), f.time)
    BY <1>4
  <1>8. EventsOf(it) = Buf(dm, k)
    BY <1>7 DEF EventsOf, Buf, f
  <1> QED
    BY <1>1, <1>6, <1>7, <1>8 DEF it, k, f

(* w2 is w with the first m frames ahead after it.                         *)
Fed(dm, w, w2, m) ==
    /\ Len(w2) = Len(w) + m /\ (m = 0 => w2 = w)
    /\ \A i \in 1 .. Len(w) : w2[i] = w[i]
    /\ \A j \in 1 .. m : w2[Len(w) + j] = FrameItem(dm, j - 1)

(* The item at place i past w is that of frame k.                          *)
IsFrame(dm, it, k) ==
    /\ it.kind = "frame" /\ it.no = k /\ it.evs = dm.frames[Slot(k)].buf
    /\ it.base = dm.frames[Slot(k)].base /\ it.time = dm.frames[Slot(k)].time
    /\ EventsOf(it) = Buf(dm, k)

LEMMA FedItem ==
    ASSUME NEW dm \in Demo, dm.parsecount - dm.lastwritten \in 0 .. Lag + 1,
           NEW m \in 0 .. dm.parsecount - dm.lastwritten + 1,
           NEW w \in Seq(Item), NEW w2 \in Seq(Item), Fed(dm, w, w2, m),
           NEW i \in Nat, i > Len(w), i <= Len(w2)
    PROVE  LET k == dm.lastwritten + (i - Len(w) - 1)
           IN  /\ IsFrame(dm, w2[i], k) /\ k \in Ahead(dm)
               /\ i = Len(w) + 1 =>
                    w2[i].mark = FrameDelta(dm.prevtime, w2[i].time)
               /\ i # Len(w) + 1 =>
                    w2[i].mark = FrameDelta(dm.frames[Slot(k - 1)].time, w2[i].time)
  <1> DEFINE j == i - Len(w)
             k == dm.lastwritten + (i - Len(w) - 1)
  <1>1. /\ Len(w) \in Nat /\ dm.parsecount \in Nat /\ dm.lastwritten \in Nat
        /\ m \in Nat
    BY DemoParts
  <1>2. j \in 1 .. m /\ i = Len(w) + j /\ j - 1 \in 0 .. dm.parsecount - dm.lastwritten
    BY <1>1 DEF Fed
  <1>3. w2[i] = FrameItem(dm, j - 1)
    BY <1>2 DEF Fed
  <1>4. /\ IsFrame(dm, w2[i], k) /\ k \in Ahead(dm)
        /\ w2[i].mark = FrameDelta(PrevTime(dm, j - 1), w2[i].time)
    BY SMTT(30), <1>2, <1>3, FrameItemParts DEF IsFrame
  <1>5. /\ i = Len(w) + 1 => PrevTime(dm, j - 1) = dm.prevtime
        /\ i # Len(w) + 1
             => PrevTime(dm, j - 1) = dm.frames[Slot(k - 1)].time
    <2>1. j - 1 = 0 <=> i = Len(w) + 1
      BY <1>1
    <2>2. dm.lastwritten + (j - 1) - 1 = k - 1
      BY SMTT(30), <1>1
    <2> HIDE DEF j, k
    <2>3. j - 1 = 0 => PrevTime(dm, j - 1) = dm.prevtime
      BY ONLY DEF PrevTime
    <2>4. j - 1 # 0 => PrevTime(dm, j - 1)
                        = dm.frames[Slot(dm.lastwritten + (j - 1) - 1)].time
      BY ONLY DEF PrevTime
    <2> QED
      BY ONLY <2>1, <2>2, <2>3, <2>4
  <1> HIDE DEF j, k
  <1> QED
    BY <1>4, <1>5 DEF k
(* Of the frames that wait all but perhaps the last have their update.     *)
LEMMA AheadUpdated ==
    ASSUME NEW dm \in Demo, NEW top \in {dm.parsecount, dm.parsecount + 1},
           Updated(dm, top), NEW k \in Ahead(dm), NEW it, IsFrame(dm, it, k)
    PROVE  /\ k < dm.parsecount => IsUpdate(it) /\ ~Quiet(it)
           /\ IsUpdate(it) => it.base = UpdateBase(k)
           /\ ~IsUpdate(it) <=> Quiet(it)
           /\ IsUpdate(it) <=> k < top
  <1>1. dm.parsecount \in Nat /\ dm.lastwritten \in Nat /\ k \in Nat
    BY DemoParts DEF Ahead
  <1>2. it.kind = "frame" /\ it.base = dm.frames[Slot(k)].base
    BY DEF IsFrame
  <1>3. k < top => it.base = UpdateBase(k) /\ it.base # NoUpdate
    <2>1. k < top => k \in dm.lastwritten .. top - 1
      BY <1>1 DEF Ahead
    <2>2. k < top => dm.frames[Slot(k)].base = UpdateBase(k)
      BY <2>1 DEF Updated
    <2> QED
      BY <1>1, <1>2, <2>2, UpdateIsNone
  <1>4. ~(k < top) => k = top /\ top = dm.parsecount
    BY <1>1 DEF Ahead
  <1>5. ~(k < top) => it.base = NoUpdate
    BY <1>2, <1>4 DEF Updated
  <1>6. k < dm.parsecount => k < top
    BY <1>1
  <1> QED
    BY <1>2, <1>3, <1>5, <1>6 DEF IsUpdate, Quiet

LEMMA FedInOrder ==
    ASSUME NEW dm \in Demo, dm.parsecount - dm.lastwritten \in 0 .. Lag + 1,
           NEW m \in 0 .. dm.parsecount - dm.lastwritten + 1,
           NEW w \in Seq(Item), NEW w2 \in Seq(Item), Fed(dm, w, w2, m),
           NEW e, Sorted(dm, e), InOrder(w),
           \A k \in Ahead(dm) : Before(Given(w), Buf(dm, k))
    PROVE  InOrder(w2)
  <1>1. /\ Len(w) \in Nat /\ Len(w2) \in Nat /\ Len(w2) = Len(w) + m /\ m \in Nat
        /\ DOMAIN w = 1 .. Len(w) /\ DOMAIN w2 = 1 .. Len(w2)
        /\ dm.lastwritten \in Nat
    BY DemoParts DEF Fed
  <1> DEFINE no(i) == dm.lastwritten + (i - Len(w) - 1)
  <1>2. ASSUME NEW i \in DOMAIN w2, i > Len(w)
        PROVE  IsFrame(dm, w2[i], no(i)) /\ no(i) \in Ahead(dm)
    <2>1. i \in Nat /\ i <= Len(w2)
      BY <1>1
    <2> QED
      BY <1>2, <2>1, FedItem
  <1>3. ASSUME NEW i \in DOMAIN w2, ~(i > Len(w))
        PROVE  i \in DOMAIN w /\ w2[i] = w[i]
    BY <1>1, <1>3 DEF Fed
  <1>4. ASSUME NEW i \in DOMAIN w2, w2[i].kind = "frame"
        PROVE  Increasing(w2[i].evs)
    <2>1. CASE i > Len(w)
      <3>1. w2[i].evs = dm.frames[Slot(no(i))].buf /\ no(i) \in Ahead(dm)
        BY <1>2, <2>1 DEF IsFrame
      <3> HIDE DEF no
      <3> QED
        BY <3>1 DEF Sorted
    <2>2. CASE ~(i > Len(w))
      BY <1>3, <1>4, <2>2 DEF InOrder
    <2> QED
      BY <2>1, <2>2
  <1>5. ASSUME NEW i \in DOMAIN w2, NEW j \in DOMAIN w2, i < j
        PROVE  Before(EventsOf(w2[i]), EventsOf(w2[j]))
    <2>1. CASE i > Len(w)
      <3>1. j > Len(w) /\ no(i) < no(j)
        BY <1>1, <1>5, <2>1
      <3>2. /\ EventsOf(w2[i]) = Buf(dm, no(i)) /\ no(i) \in Ahead(dm)
            /\ EventsOf(w2[j]) = Buf(dm, no(j)) /\ no(j) \in Ahead(dm)
        BY <1>2, <2>1, <3>1 DEF IsFrame
      <3> HIDE DEF no
      <3> QED
        BY <3>1, <3>2 DEF Sorted
    <2>2. CASE ~(i > Len(w)) /\ j > Len(w)
      <3>1. EventsOf(w2[j]) = Buf(dm, no(j)) /\ no(j) \in Ahead(dm)
        BY <1>2, <2>2 DEF IsFrame
      <3>2. i \in DOMAIN w /\ w2[i] = w[i]
        BY <1>3, <2>2
      <3>3. EventsOf(w2[i]) \subseteq Given(w)
        BY <3>2 DEF Given
      <3> HIDE DEF no
      <3>4. Before(Given(w), Buf(dm, no(j)))
        BY <3>1
      <3> QED
        BY <3>1, <3>3, <3>4 DEF Before
    <2>3. CASE ~(i > Len(w)) /\ ~(j > Len(w))
      <3>1. i \in DOMAIN w /\ w2[i] = w[i] /\ j \in DOMAIN w /\ w2[j] = w[j]
        BY <1>3, <2>3
      <3> QED
        BY <1>5, <3>1 DEF InOrder
    <2> QED
      BY <2>1, <2>2, <2>3
  <1> QED
    BY <1>4, <1>5 DEF InOrder

(* Neighbours in w2: neighbours in w, the last update of w and the first   *)
(* frame that is added, or two frames that are added one after the other.  *)
LEMMA FedNeighbours ==
    ASSUME NEW dm \in Demo, dm.parsecount - dm.lastwritten \in 0 .. Lag + 1,
           NEW m \in 0 .. dm.parsecount - dm.lastwritten + 1,
           NEW w \in Seq(Item), NEW w2 \in Seq(Item), Fed(dm, w, w2, m),
           NEW top \in {dm.parsecount, dm.parsecount + 1}, Updated(dm, top),
           NEW i \in DOMAIN w2, NEW j \in DOMAIN w2, Neighbours(w2, i, j)
    PROVE  \/ i \in DOMAIN w /\ j \in DOMAIN w /\ Neighbours(w, i, j)
           \/ /\ i \in DOMAIN w /\ j = Len(w) + 1 /\ IsUpdate(w[i])
              /\ \A k \in i + 1 .. Len(w) : Quiet(w[k])
           \/ i > Len(w) /\ j = i + 1
  <1>1. /\ Len(w) \in Nat /\ Len(w2) \in Nat /\ Len(w2) = Len(w) + m /\ m \in Nat
        /\ DOMAIN w = 1 .. Len(w) /\ DOMAIN w2 = 1 .. Len(w2)
        /\ dm.lastwritten \in Nat /\ dm.parsecount \in Nat
        /\ i \in Nat /\ j \in Nat
    BY DemoParts DEF Fed
  <1>2. i < j /\ IsUpdate(w2[i]) /\ IsUpdate(w2[j])
        /\ \A k \in i + 1 .. j - 1 : Quiet(w2[k])
    BY DEF Neighbours
  <1>3. \A k \in 1 .. Len(w) : w2[k] = w[k]
    BY DEF Fed
  <1>4. ASSUME NEW k \in Nat, k > Len(w), k < Len(w2)
        PROVE  ~Quiet(w2[k])
    <2> DEFINE n == dm.lastwritten + (k - Len(w) - 1)
    <2>1. IsFrame(dm, w2[k], n) /\ n \in Ahead(dm)
      BY SMTT(30), <1>1, <1>4, FedItem
    <2>2. n < dm.parsecount
      BY <1>1, <1>4
    <2> HIDE DEF n
    <2> QED
      BY <2>1, <2>2, AheadUpdated
  <1>5. CASE j <= Len(w)
    <2>1. i \in DOMAIN w /\ j \in DOMAIN w
      BY <1>1, <1>2, <1>5
    <2>2. \A k \in i + 1 .. j - 1 : w2[k] = w[k]
      BY <1>1, <1>3, <1>5
    <2>3. w2[i] = w[i] /\ w2[j] = w[j]
      BY <1>1, <1>3, <2>1
    <2> QED
      BY <1>2, <2>1, <2>2, <2>3 DEF Neighbours
  <1>6. CASE j > Len(w) /\ i <= Len(w)
    <2>1. j = Len(w) + 1
      <3>1. SUFFICES ASSUME j # Len(w) + 1 PROVE FALSE
        OBVIOUS
      <3>2. Len(w) + 1 \in i + 1 .. j - 1 /\ Len(w) + 1 < Len(w2)
        BY <1>1, <1>6, <3>1
      <3> QED
        BY <1>1, <1>2, <1>4, <3>2
    <2>2. i \in DOMAIN w /\ w2[i] = w[i]
      BY <1>1, <1>3, <1>6
    <2>3. \A k \in i + 1 .. Len(w) : Quiet(w[k])
      BY <1>1, <1>2, <1>3, <2>1
    <2> QED
      BY <1>2, <2>1, <2>2, <2>3
  <1>7. CASE i > Len(w)
    <2>1. j = i + 1
      <3>1. SUFFICES ASSUME j # i + 1 PROVE FALSE
        OBVIOUS
      <3>2. i + 1 \in i + 1 .. j - 1 /\ i + 1 > Len(w) /\ i + 1 < Len(w2)
        BY <1>1, <1>2, <1>7, <3>1
      <3> QED
        BY <1>1, <1>2, <1>4, <3>2
    <2> QED
      BY <1>7, <2>1
  <1> QED
    BY <1>1, <1>5, <1>6, <1>7
LEMMA FedChained ==
    ASSUME NEW dm \in Demo, dm.parsecount - dm.lastwritten \in 0 .. Lag + 1,
           NEW m \in 0 .. dm.parsecount - dm.lastwritten + 1,
           NEW w \in Seq(Item), NEW w2 \in Seq(Item), Fed(dm, w, w2, m),
           NEW top \in {dm.parsecount, dm.parsecount + 1}, Updated(dm, top),
           Chained(w), LastUpdate(dm, w)
    PROVE  Chained(w2)
  <1> SUFFICES ASSUME NEW i \in DOMAIN w2, NEW j \in DOMAIN w2,
                      Neighbours(w2, i, j)
               PROVE  w2[j].base \in {Full, w2[i].no}
    BY DEF Chained
  <1>1. /\ Len(w) \in Nat /\ Len(w2) \in Nat /\ Len(w2) = Len(w) + m /\ m \in Nat
        /\ DOMAIN w = 1 .. Len(w) /\ DOMAIN w2 = 1 .. Len(w2)
        /\ dm.lastwritten \in Nat /\ i \in Nat /\ j \in Nat
        /\ i <= Len(w2) /\ j <= Len(w2)
    BY DemoParts DEF Fed
  <1>2. /\ \A k \in 1 .. Len(w) : w2[k] = w[k]
        /\ IsUpdate(w2[i]) /\ IsUpdate(w2[j]) /\ i < j
    BY DEF Fed, Neighbours
  <1> DEFINE n == dm.lastwritten + (j - Len(w) - 1)
  <1>3. ASSUME j > Len(w)
        PROVE  /\ w2[j].base \in {Full, n - 1} /\ n \in Nat
    <2>1. IsFrame(dm, w2[j], n) /\ n \in Ahead(dm)
      BY <1>1, <1>3, FedItem
    <2>2. n \in Nat
      BY <1>1, <1>3
    <2> HIDE DEF n
    <2>3. w2[j].base = UpdateBase(n)
      BY <1>2, <2>1, AheadUpdated
    <2> QED
      BY <2>2, <2>3 DEF UpdateBase
  <1>4. CASE i \in DOMAIN w /\ j \in DOMAIN w /\ Neighbours(w, i, j)
    BY <1>1, <1>2, <1>4 DEF Chained
  <1>5. CASE /\ i \in DOMAIN w /\ j = Len(w) + 1 /\ IsUpdate(w[i])
             /\ \A k \in i + 1 .. Len(w) : Quiet(w[k])
    <2>1. w[i].no = dm.lastwritten - 1 /\ w2[i] = w[i]
      BY <1>1, <1>2, <1>5 DEF LastUpdate
    <2>2. n = dm.lastwritten
      BY <1>1, <1>5
    <2>3. j > Len(w)
      BY <1>1, <1>5
    <2> HIDE DEF n
    <2> QED
      BY <1>3, <2>1, <2>2, <2>3
  <1>6. CASE i > Len(w) /\ j = i + 1
    <2>1. IsFrame(dm, w2[i], dm.lastwritten + (i - Len(w) - 1))
      BY <1>1, <1>6, FedItem
    <2>2. w2[i].no = dm.lastwritten + (i - Len(w) - 1)
      BY <2>1 DEF IsFrame
    <2>3. n - 1 = dm.lastwritten + (i - Len(w) - 1) /\ j > Len(w)
      BY <1>1, <1>6
    <2> HIDE DEF n
    <2> QED
      BY <1>3, <2>2, <2>3
  <1> QED
    BY <1>4, <1>5, <1>6, FedNeighbours

LEMMA FedMarked ==
    ASSUME NEW dm \in Demo, dm.parsecount - dm.lastwritten \in 0 .. Lag + 1,
           NEW m \in 0 .. dm.parsecount - dm.lastwritten + 1,
           NEW w \in Seq(Item), NEW w2 \in Seq(Item), Fed(dm, w, w2, m),
           NEW top \in {dm.parsecount, dm.parsecount + 1}, Updated(dm, top),
           Marked(w), LastMark(dm, w)
    PROVE  Marked(w2)
  <1> SUFFICES ASSUME NEW i \in DOMAIN w2, NEW j \in DOMAIN w2,
                      Neighbours(w2, i, j)
               PROVE  w2[j].mark = FrameDelta(w2[i].time, w2[j].time)
    BY DEF Marked
  <1>1. /\ Len(w) \in Nat /\ Len(w2) \in Nat /\ Len(w2) = Len(w) + m /\ m \in Nat
        /\ DOMAIN w = 1 .. Len(w) /\ DOMAIN w2 = 1 .. Len(w2)
        /\ dm.lastwritten \in Nat /\ i \in Nat /\ j \in Nat
        /\ i <= Len(w2) /\ j <= Len(w2)
    BY DemoParts DEF Fed
  <1>2. /\ \A k \in 1 .. Len(w) : w2[k] = w[k]
        /\ IsUpdate(w2[i]) /\ IsUpdate(w2[j]) /\ i < j
    BY DEF Fed, Neighbours
  <1>3. CASE i \in DOMAIN w /\ j \in DOMAIN w /\ Neighbours(w, i, j)
    BY <1>1, <1>2, <1>3 DEF Marked
  <1>4. CASE /\ i \in DOMAIN w /\ j = Len(w) + 1 /\ IsUpdate(w[i])
             /\ \A k \in i + 1 .. Len(w) : Quiet(w[k])
    <2>1. w2[j].mark = FrameDelta(dm.prevtime, w2[j].time)
      <3>1. j > Len(w) /\ j = Len(w) + 1
        BY <1>1, <1>4
      <3> QED
        BY <1>1, <3>1, FedItem
    <2>2. w # <<>> /\ w[Len(w)].kind = "frame"
      <3>1. Len(w) = i \/ Len(w) \in i + 1 .. Len(w)
        BY <1>1, <1>4
      <3>2. w[Len(w)].kind = "frame"
        BY <1>4, <3>1 DEF Quiet, IsUpdate
      <3> QED
        BY <1>1, <1>4, <3>2
    <2>3. IsUpdate(w[Len(w)]) /\ w[Len(w)].time = dm.prevtime
      BY <2>2 DEF LastMark
    <2>4. i = Len(w)
      <3>1. i # Len(w) => Len(w) \in i + 1 .. Len(w)
        BY <1>1, <1>4
      <3> QED
        BY <1>4, <2>3, <3>1 DEF Quiet, IsUpdate
    <2> QED
      BY <1>1, <1>2, <1>4, <2>1, <2>3, <2>4
  <1>5. CASE i > Len(w) /\ j = i + 1
    <2> DEFINE n == dm.lastwritten + (j - Len(w) - 1)
    <2>1. w2[j].mark = FrameDelta(dm.frames[Slot(n - 1)].time, w2[j].time)
      <3>1. j > Len(w) /\ j # Len(w) + 1
        BY <1>1, <1>5
      <3> QED
        BY <1>1, <3>1, FedItem
    <2>2. IsFrame(dm, w2[i], dm.lastwritten + (i - Len(w) - 1))
      BY <1>1, <1>5, FedItem
    <2>3. n - 1 = dm.lastwritten + (i - Len(w) - 1)
      BY <1>1, <1>5
    <2> HIDE DEF n
    <2>4. w2[i].time = dm.frames[Slot(n - 1)].time
      BY <2>2, <2>3 DEF IsFrame
    <2> QED
      BY <2>1, <2>4
  <1> QED
    BY <1>3, <1>4, <1>5, FedNeighbours

LEMMA FedWritten ==
    ASSUME NEW dm \in Demo, dm.parsecount - dm.lastwritten \in 0 .. Lag + 1,
           NEW m \in 0 .. dm.parsecount - dm.lastwritten + 1,
           NEW w \in Seq(Item), NEW w2 \in Seq(Item), Fed(dm, w, w2, m),
           NEW top \in {dm.parsecount, dm.parsecount + 1}, NEW e, NEW d,
           RingInv(dm, e, top), Written(w, d), Follows(dm, w, e),
           LastUpdate(dm, w), d \in Files => LastMark(dm, w)
    PROVE  Written(w2, d)
  <1>1. Sorted(dm, e) /\ Updated(dm, top)
    BY DEF RingInv
  <1>2. \A k \in Ahead(dm) : Before(Given(w), Buf(dm, k))
    BY DEF Follows
  <1>3. InOrder(w2)
    BY <1>1, <1>2, FedInOrder DEF Written
  <1>4. Chained(w2)
    BY <1>1, FedChained DEF Written
  <1>5. d \in Files => Marked(w2)
    BY <1>1, FedMarked DEF Written
  <1> QED
    BY <1>3, <1>4, <1>5 DEF Written
(* The ring without the first n frames ahead.                              *)
Done(dm, n) == {Slot(dm.lastwritten + i) : i \in 0 .. n - 1}
Advanced(dm, out, n) ==
    /\ out.parsecount = dm.parsecount /\ out.spilled = dm.spilled
    /\ out.lastwritten = Least(dm.lastwritten + n, dm.parsecount)
    /\ \A s \in 0 .. Ring - 1 :
          /\ s \in Done(dm, n)
               => out.frames[s].buf = <<>> /\ out.frames[s].base = NoUpdate
          /\ s \notin Done(dm, n)
               => /\ out.frames[s].buf = dm.frames[s].buf
                  /\ out.frames[s].base = dm.frames[s].base
          /\ out.frames[s].time = dm.frames[s].time
          /\ out.frames[s].over = dm.frames[s].over

LEMMA AdvancedFrames ==
    ASSUME NEW dm \in Demo, dm.parsecount - dm.lastwritten \in 0 .. Lag + 1,
           NEW n \in 0 .. dm.parsecount - dm.lastwritten + 1,
           NEW out, Advanced(dm, out, n)
    PROVE  /\ out.lastwritten \in Nat
           /\ out.parsecount - out.lastwritten \in 0 .. Lag + 1
           /\ \A k \in Ahead(out) :
                 /\ k \in Ahead(dm) /\ k \in Nat
                 /\ \/ /\ k >= dm.lastwritten + n
                       /\ out.frames[Slot(k)].buf = dm.frames[Slot(k)].buf
                       /\ out.frames[Slot(k)].base = dm.frames[Slot(k)].base
                    \/ /\ k = dm.parsecount /\ k = dm.lastwritten + n - 1
                       /\ out.frames[Slot(k)].buf = <<>>
                       /\ out.frames[Slot(k)].base = NoUpdate
           /\ \A k \in Ahead(dm) :
                 \/ k < dm.lastwritten + n /\ Slot(k) \in Done(dm, n)
                 \/ k \in Ahead(out) /\ k >= dm.lastwritten + n
  <1>1. /\ dm.lastwritten \in Nat /\ dm.parsecount \in Nat /\ n \in Nat
        /\ dm.lastwritten <= dm.parsecount /\ Lag \in Nat
        /\ n <= dm.parsecount - dm.lastwritten + 1
        /\ \A k \in Ahead(dm) : k \in Nat /\ Slot(k) \in 0 .. Ring - 1
        /\ \A j, k \in Ahead(dm) : Slot(j) = Slot(k) => j = k
    BY AheadSlots, DemoParts, Constants
  <1>2. /\ out.parsecount = dm.parsecount
        /\ out.lastwritten \in Nat
        /\ out.lastwritten \in dm.lastwritten .. dm.parsecount
        /\ out.lastwritten = dm.lastwritten + n \/
             (out.lastwritten = dm.parsecount
                /\ dm.parsecount = dm.lastwritten + n - 1)
    <2>1. out.lastwritten = Least(dm.lastwritten + n, dm.parsecount)
      BY DEF Advanced
    <2> QED
      BY SMTT(30), <1>1, <2>1 DEF Advanced, Least
  <1>3. ASSUME NEW k \in Ahead(dm)
        PROVE  Slot(k) \in Done(dm, n) <=> k < dm.lastwritten + n
    <2>1. ASSUME k < dm.lastwritten + n PROVE Slot(k) \in Done(dm, n)
      <3>1. k - dm.lastwritten \in 0 .. n - 1
            /\ k = dm.lastwritten + (k - dm.lastwritten)
        BY <1>1, <2>1 DEF Ahead
      <3> QED
        BY <3>1 DEF Done
    <2>2. ASSUME Slot(k) \in Done(dm, n) PROVE k < dm.lastwritten + n
      <3>1. PICK i \in 0 .. n - 1 : Slot(k) = Slot(dm.lastwritten + i)
        BY <2>2 DEF Done
      <3>2. dm.lastwritten + i \in Ahead(dm)
        BY <1>1 DEF Ahead
      <3>3. k = dm.lastwritten + i
        BY <1>1, <3>1, <3>2
      <3> QED
        BY <1>1, <3>3
    <2> QED
      BY <2>1, <2>2
  <1>4. ASSUME NEW k \in Ahead(out)
        PROVE  /\ k \in Ahead(dm) /\ k \in Nat
               /\ \/ /\ k >= dm.lastwritten + n
                     /\ out.frames[Slot(k)].buf = dm.frames[Slot(k)].buf
                     /\ out.frames[Slot(k)].base = dm.frames[Slot(k)].base
                  \/ /\ k = dm.parsecount /\ k = dm.lastwritten + n - 1
                     /\ out.frames[Slot(k)].buf = <<>>
                     /\ out.frames[Slot(k)].base = NoUpdate
    <2>1. k \in Ahead(dm)
      BY <1>1, <1>2 DEF Ahead
    <2>2. k \in Nat /\ Slot(k) \in 0 .. Ring - 1
      BY <1>1, <2>1
    <2>3. CASE k >= dm.lastwritten + n
      <3>1. Slot(k) \notin Done(dm, n)
        BY <1>1, <1>3, <2>1, <2>2, <2>3
      <3> QED
        BY <2>1, <2>2, <2>3, <3>1 DEF Advanced
    <2>4. CASE k < dm.lastwritten + n
      <3>1. Slot(k) \in Done(dm, n)
        BY <1>3, <2>1, <2>4
      <3>2. k = dm.parsecount /\ k = dm.lastwritten + n - 1
        BY <1>1, <1>2, <2>2, <2>4 DEF Ahead
      <3> QED
        BY <2>1, <2>2, <3>1, <3>2 DEF Advanced
    <2> QED
      BY <1>1, <2>2, <2>3, <2>4
  <1>5. ASSUME NEW k \in Ahead(dm), ~(k < dm.lastwritten + n)
        PROVE  k \in Ahead(out) /\ k >= dm.lastwritten + n
    BY <1>1, <1>2, <1>5 DEF Ahead
  <1>6. out.parsecount - out.lastwritten \in 0 .. Lag + 1
    BY <1>1, <1>2
  <1> QED
    BY <1>2, <1>3, <1>4, <1>5, <1>6

(* A frame ahead is one that was, or the current one, emptied.             *)
AheadStill(dm, out, n, k) ==
    /\ k \in Ahead(dm) /\ k \in Nat
    /\ \/ /\ k >= dm.lastwritten + n
          /\ out.frames[Slot(k)].buf = dm.frames[Slot(k)].buf
          /\ out.frames[Slot(k)].base = dm.frames[Slot(k)].base
       \/ /\ k = dm.parsecount /\ k = dm.lastwritten + n - 1
          /\ out.frames[Slot(k)].buf = <<>>
          /\ out.frames[Slot(k)].base = NoUpdate

LEMMA FramesAhead ==
    ASSUME NEW dm \in Demo, dm.parsecount - dm.lastwritten \in 0 .. Lag + 1,
           NEW n \in 0 .. dm.parsecount - dm.lastwritten + 1,
           NEW out, Advanced(dm, out, n)
    PROVE  \A k \in Ahead(out) : AheadStill(dm, out, n, k)
  BY AdvancedFrames DEF AheadStill

LEMMA RingAdvances ==
    ASSUME NEW dm \in Demo, dm.parsecount - dm.lastwritten \in 0 .. Lag + 1,
           NEW n \in 0 .. dm.parsecount - dm.lastwritten + 1,
           NEW out, Advanced(dm, out, n), NEW e \in Nat,
           NEW top \in {dm.parsecount, dm.parsecount + 1},
           dm.parsecount = dm.lastwritten + n - 1 => top = dm.parsecount,
           RingInv(dm, e, top)
    PROVE  RingInv(out, e, top)
  <1>1. /\ dm.lastwritten \in Nat /\ dm.parsecount \in Nat /\ n \in Nat
        /\ out.lastwritten \in Nat /\ out.parsecount = dm.parsecount
        /\ out.lastwritten \in Ahead(out) /\ dm.parsecount \in Ahead(out)
    BY SMTT(30), DemoParts, AdvancedFrames DEF Advanced, Ahead
  <1>2. \A k \in Ahead(out) :
           /\ k \in Ahead(dm) /\ k \in Nat
           /\ \/ /\ k >= dm.lastwritten + n
                 /\ out.frames[Slot(k)].buf = dm.frames[Slot(k)].buf
                 /\ out.frames[Slot(k)].base = dm.frames[Slot(k)].base
              \/ /\ k = dm.parsecount /\ k = dm.lastwritten + n - 1
                 /\ out.frames[Slot(k)].buf = <<>>
                 /\ out.frames[Slot(k)].base = NoUpdate
    <2>1. \A k \in Ahead(out) : AheadStill(dm, out, n, k)
      BY FramesAhead
    <2> QED
      BY <2>1 DEF AheadStill
  <1>3. \A k \in Ahead(dm) :
           \/ k < dm.lastwritten + n /\ Slot(k) \in Done(dm, n)
           \/ k \in Ahead(out) /\ k >= dm.lastwritten + n
    BY AdvancedFrames
  <1>4. Sorted(dm, e) /\ Updated(dm, top) /\ Reset(dm) /\ Unspilled(dm, e)
    BY DEF RingInv
  <1>5. ASSUME NEW k \in Ahead(out)
        PROVE  Buf(out, k) = Buf(dm, k) \/ Buf(out, k) = {}
    <2>1. \/ out.frames[Slot(k)].buf = dm.frames[Slot(k)].buf
          \/ out.frames[Slot(k)].buf = <<>>
      BY <1>2
    <2> QED
      BY <2>1 DEF Buf, Range
  <1>6. Sorted(out, e)
    <2> SUFFICES ASSUME NEW k \in Ahead(out)
                 PROVE  /\ Increasing(out.frames[Slot(k)].buf)
                        /\ Buf(out, k) \subseteq 1 .. e
                        /\ \A j \in Ahead(out) :
                              k < j => Before(Buf(out, k), Buf(out, j))
      BY DEF Sorted
    <2>1. Increasing(out.frames[Slot(k)].buf)
      <3>1. CASE out.frames[Slot(k)].buf = <<>>
        BY <3>1 DEF Increasing
      <3>2. CASE out.frames[Slot(k)].buf = dm.frames[Slot(k)].buf
        BY <1>2, <1>4, <3>2 DEF Sorted
      <3> QED
        BY <1>2, <3>1, <3>2
    <2>2. Buf(out, k) \subseteq 1 .. e
      BY <1>2, <1>4, <1>5 DEF Sorted
    <2>3. ASSUME NEW j \in Ahead(out), k < j
          PROVE  Before(Buf(out, k), Buf(out, j))
      <3>1. Before(Buf(dm, k), Buf(dm, j))
        BY <1>2, <1>4, <2>3 DEF Sorted
      <3> QED
        BY <1>5, <3>1 DEF Before
    <2> QED
      BY <2>1, <2>2, <2>3
  <1>7. Updated(out, top)
    <2>1. ASSUME NEW k \in out.lastwritten .. top - 1
          PROVE  out.frames[Slot(k)].base = UpdateBase(k)
      <3>1. k \in Ahead(out) /\ k \in Nat /\ k < top
        BY <1>1, <2>1 DEF Ahead
      <3>2. ~(k = dm.parsecount /\ k = dm.lastwritten + n - 1)
        BY <3>1
      <3>3. out.frames[Slot(k)].base = dm.frames[Slot(k)].base
        BY <1>2, <3>1, <3>2
      <3>4. k \in dm.lastwritten .. top - 1
        BY <1>1, <1>2, <2>1, <3>1 DEF Ahead
      <3> QED
        BY <1>4, <3>3, <3>4 DEF Updated
    <2>2. ASSUME top = out.parsecount
          PROVE  out.frames[Slot(top)].base = NoUpdate
      <3>1. top = dm.parsecount /\ top \in Ahead(out)
        BY <1>1, <2>2
      <3>2. dm.frames[Slot(top)].base = NoUpdate
        BY <1>4, <3>1 DEF Updated
      <3> QED
        BY <1>2, <3>1, <3>2
    <2> QED
      BY <2>1, <2>2 DEF Updated
  <1>8. Reset(out)
    <2> SUFFICES ASSUME NEW s \in 0 .. Ring - 1, \A k \in Ahead(out) : s # Slot(k)
                 PROVE  out.frames[s].buf = <<>> /\ out.frames[s].base = NoUpdate
      BY DEF Reset
    <2>1. CASE s \in Done(dm, n)
      BY <2>1 DEF Advanced
    <2>2. CASE s \notin Done(dm, n)
      <3>1. \A k \in Ahead(dm) : s # Slot(k)
        BY <1>3, <2>2
      <3>2. dm.frames[s].buf = <<>> /\ dm.frames[s].base = NoUpdate
        BY <1>4, <3>1 DEF Reset
      <3> QED
        BY <2>2, <3>2 DEF Advanced
    <2> QED
      BY <2>1, <2>2
  <1>9. ASSUME ~out.spilled
        PROVE  /\ \A s \in 0 .. Ring - 1 : ~out.frames[s].over
               /\ NoGap(Pending(out), e)
    <2>1. /\ \A s \in 0 .. Ring - 1 : ~dm.frames[s].over
          /\ NoGap(Pending(dm), e)
      BY <1>4, <1>9 DEF Unspilled, Advanced
    <2>2. \A s \in 0 .. Ring - 1 : ~out.frames[s].over
      BY <2>1 DEF Advanced
    <2>3. ASSUME NEW x \in Pending(out), NEW y \in x .. e
          PROVE  y \in Pending(out)
      <3>1. PICK k \in Ahead(out) : x \in Buf(out, k)
        BY DEF Pending
      <3>2. /\ Buf(out, k) = Buf(dm, k) /\ k \in Ahead(dm)
            /\ k >= dm.lastwritten + n
        <4>1. out.frames[Slot(k)].buf # <<>>
          BY <3>1 DEF Buf, Range
        <4> QED
          BY <1>2, <4>1 DEF Buf
      <3>3. x \in Pending(dm) /\ x \in 1 .. e
        BY <1>4, <3>1, <3>2 DEF Pending, Sorted
      <3>4. y \in Pending(dm)
        BY <2>1, <3>3 DEF NoGap
      <3>5. PICK j \in Ahead(dm) : y \in Buf(dm, j)
        BY <3>4 DEF Pending
      <3>6. ~(j < k)
        <4>1. SUFFICES ASSUME j < k PROVE FALSE
          OBVIOUS
        <4>2. Before(Buf(dm, j), Buf(dm, k))
          BY <1>4, <3>2, <4>1 DEF Sorted
        <4>3. y < x
          BY <3>1, <3>2, <3>5, <4>2 DEF Before
        <4> QED
          BY <3>3, <4>3
      <3>7. j \in Ahead(out) /\ j >= dm.lastwritten + n /\ j \in Nat
        <4>1. j \in Nat /\ k \in Nat
          BY <1>1, <1>2 DEF Ahead
        <4> QED
          BY <1>1, <1>3, <3>2, <3>6, <4>1
      <3>8. out.frames[Slot(j)].buf = dm.frames[Slot(j)].buf
        BY <1>1, <1>2, <3>7
      <3> QED
        BY <3>5, <3>7, <3>8 DEF Pending, Buf
    <2> QED
      BY <2>2, <2>3 DEF NoGap
  <1> QED
    BY <1>6, <1>7, <1>8, <1>9 DEF RingInv, Unspilled
(* What a destination has been given with the first n frames ahead.        *)
LEMMA FedGiven ==
    ASSUME NEW dm \in Demo, dm.parsecount - dm.lastwritten \in 0 .. Lag + 1,
           NEW n \in 0 .. dm.parsecount - dm.lastwritten + 1,
           NEW w \in Seq(Item), NEW w2 \in Seq(Item), Fed(dm, w, w2, n)
    PROVE  /\ Given(w) \subseteq Given(w2)
           /\ \A k \in Ahead(dm) :
                 k < dm.lastwritten + n => Buf(dm, k) \subseteq Given(w2)
           /\ \A x \in Given(w2) :
                 \/ x \in Given(w)
                 \/ \E k \in Ahead(dm) : k < dm.lastwritten + n /\ x \in Buf(dm, k)
  <1>1. /\ Len(w) \in Nat /\ Len(w2) \in Nat /\ Len(w2) = Len(w) + n /\ n \in Nat
        /\ DOMAIN w = 1 .. Len(w) /\ DOMAIN w2 = 1 .. Len(w2)
        /\ dm.lastwritten \in Nat /\ dm.parsecount \in Nat
    BY DemoParts DEF Fed
  <1>2. \A i \in DOMAIN w : i \in DOMAIN w2 /\ w2[i] = w[i]
    BY <1>1 DEF Fed
  <1>3. Given(w) \subseteq Given(w2)
    BY <1>2 DEF Given
  <1>4. ASSUME NEW k \in Ahead(dm), k < dm.lastwritten + n
        PROVE  Buf(dm, k) \subseteq Given(w2)
    <2> DEFINE i == Len(w) + (k - dm.lastwritten) + 1
    <2>1. /\ k \in Nat /\ i \in Nat /\ i > Len(w) /\ i <= Len(w2)
          /\ i \in DOMAIN w2 /\ dm.lastwritten + (i - Len(w) - 1) = k
      <3>1. k \in Nat /\ k >= dm.lastwritten
        BY <1>1 DEF Ahead
      <3>2. i \in Nat /\ i > Len(w) /\ i <= Len(w2)
        BY SMTT(30), <1>1, <1>4, <3>1
      <3>3. dm.lastwritten + (i - Len(w) - 1) = k
        BY <1>1, <3>1
      <3> QED
        BY <1>1, <3>1, <3>2, <3>3
    <2> HIDE DEF i
    <2>2. IsFrame(dm, w2[i], dm.lastwritten + (i - Len(w) - 1))
      BY <2>1, FedItem
    <2>3. EventsOf(w2[i]) = Buf(dm, k)
      BY <2>1, <2>2 DEF IsFrame
    <2> QED
      BY <2>1, <2>3 DEF Given
  <1>5. ASSUME NEW x \in Given(w2), x \notin Given(w)
        PROVE  \E k \in Ahead(dm) : k < dm.lastwritten + n /\ x \in Buf(dm, k)
    <2>1. PICK i \in DOMAIN w2 : x \in EventsOf(w2[i])
      BY DEF Given
    <2>2. i \notin DOMAIN w
      BY <1>2, <1>5, <2>1 DEF Given
    <2> DEFINE k == dm.lastwritten + (i - Len(w) - 1)
    <2>3. /\ i \in Nat /\ i > Len(w) /\ i <= Len(w2)
          /\ k < dm.lastwritten + n
      BY <1>1, <2>2
    <2>4. IsFrame(dm, w2[i], k) /\ k \in Ahead(dm)
      BY <2>3, FedItem
    <2> HIDE DEF k
    <2> QED
      BY <2>1, <2>3, <2>4 DEF IsFrame
  <1> QED
    BY <1>3, <1>4, <1>5

LEMMA FedFollows ==
    ASSUME NEW dm \in Demo, dm.parsecount - dm.lastwritten \in 0 .. Lag + 1,
           NEW n \in 0 .. dm.parsecount - dm.lastwritten + 1,
           NEW out, Advanced(dm, out, n), NEW e \in Nat, Sorted(dm, e),
           NEW w \in Seq(Item), NEW w2 \in Seq(Item), Fed(dm, w, w2, n),
           Follows(dm, w, e)
    PROVE  Follows(out, w2, e)
  <1>1. /\ Given(w) \subseteq Given(w2)
        /\ \A k \in Ahead(dm) :
              k < dm.lastwritten + n => Buf(dm, k) \subseteq Given(w2)
        /\ \A x \in Given(w2) :
              \/ x \in Given(w)
              \/ \E k \in Ahead(dm) : k < dm.lastwritten + n /\ x \in Buf(dm, k)
    BY FedGiven
  <1>2. /\ dm.lastwritten \in Nat /\ dm.parsecount \in Nat /\ n \in Nat
        /\ \A k \in Ahead(dm) : k \in Nat
    BY DemoParts DEF Ahead
  <1>3. ASSUME NEW k \in Ahead(out), NEW x \in Buf(out, k)
        PROVE  k \in Ahead(dm) /\ k >= dm.lastwritten + n /\ x \in Buf(dm, k)
    <2>1. out.frames[Slot(k)].buf # <<>>
      BY <1>3 DEF Buf, Range
    <2>2. /\ k \in Ahead(dm) /\ k >= dm.lastwritten + n
          /\ out.frames[Slot(k)].buf = dm.frames[Slot(k)].buf
      <3>1. /\ k \in Ahead(dm)
            /\ \/ /\ k >= dm.lastwritten + n
                  /\ out.frames[Slot(k)].buf = dm.frames[Slot(k)].buf
               \/ out.frames[Slot(k)].buf = <<>>
        BY AdvancedFrames
      <3> QED
        BY <2>1, <3>1
    <2> QED
      BY <1>3, <2>2 DEF Buf
  <1>4. ASSUME NEW k \in Ahead(dm), NEW x \in Buf(dm, k), ~(k < dm.lastwritten + n)
        PROVE  k \in Ahead(out) /\ x \in Buf(out, k)
    <2>1. k \in Ahead(out) /\ k >= dm.lastwritten + n
      BY <1>4, AdvancedFrames
    <2>2. out.frames[Slot(k)].buf = dm.frames[Slot(k)].buf
      <3>1. ~(k = dm.lastwritten + n - 1)
        BY <1>2, <2>1
      <3> QED
        BY <2>1, <3>1, AdvancedFrames
    <2> QED
      BY <1>4, <2>1, <2>2 DEF Buf
  <1>5. w2 # <<>> /\ w2[1] = w[1] /\ w[1].kind = "state" /\ w[1].at <= e
    <2>1. Len(w) \in Nat /\ Len(w) > 0 /\ Len(w2) = Len(w) + n
      BY DEF Follows, Fed
    <2>2. w2[1] = w[1] /\ Len(w2) # 0
      BY <1>2, <2>1 DEF Fed
    <2> QED
      BY <2>2 DEF Follows
  <1>6. ASSUME NEW k \in Ahead(out), NEW x \in Given(w2), NEW y \in Buf(out, k)
        PROVE  x < y
    <2>1. k \in Ahead(dm) /\ k >= dm.lastwritten + n /\ y \in Buf(dm, k)
      BY <1>3
    <2>2. CASE x \in Given(w)
      BY <2>1, <2>2 DEF Follows, Before
    <2>3. CASE \E j \in Ahead(dm) : j < dm.lastwritten + n /\ x \in Buf(dm, j)
      <3>1. PICK j \in Ahead(dm) : j < dm.lastwritten + n /\ x \in Buf(dm, j)
        BY <2>3
      <3>2. j < k
        BY <1>2, <2>1, <3>1
      <3>3. Before(Buf(dm, j), Buf(dm, k))
        BY <2>1, <3>2 DEF Sorted
      <3> QED
        BY <2>1, <3>1, <3>3 DEF Before
    <2> QED
      BY <1>1, <2>2, <2>3
  <1>7. Given(w2) \cup Pending(out) = Given(w) \cup Pending(dm)
    <2>1. ASSUME NEW x \in Given(w2) PROVE x \in Given(w) \cup Pending(dm)
      BY <1>1 DEF Pending
    <2>2. ASSUME NEW x \in Pending(out) PROVE x \in Pending(dm)
      BY <1>3 DEF Pending
    <2>3. ASSUME NEW x \in Pending(dm) PROVE x \in Given(w2) \cup Pending(out)
      <3>1. PICK k \in Ahead(dm) : x \in Buf(dm, k)
        BY DEF Pending
      <3>2. CASE k < dm.lastwritten + n
        BY <1>1, <3>1, <3>2
      <3>3. CASE ~(k < dm.lastwritten + n)
        BY <1>4, <3>1, <3>3 DEF Pending
      <3> QED
        BY <3>2, <3>3
    <2> QED
      BY <1>1, <2>1, <2>2, <2>3
  <1>8. out.spilled = dm.spilled
    BY DEF Advanced
  <1>9. Given(w2) \subseteq 1 .. e
    BY <1>1 DEF Follows, Sorted
  <1> QED
    BY <1>5, <1>6, <1>7, <1>8, <1>9 DEF Follows, Before

LEMMA FedLastUpdate ==
    ASSUME NEW dm \in Demo, dm.parsecount - dm.lastwritten \in 0 .. Lag + 1,
           NEW n \in 0 .. dm.parsecount - dm.lastwritten + 1,
           NEW out, Advanced(dm, out, n),
           NEW top \in {dm.parsecount, dm.parsecount + 1},
           dm.parsecount = dm.lastwritten + n - 1 => top = dm.parsecount,
           Updated(dm, top),
           NEW w \in Seq(Item), NEW w2 \in Seq(Item), Fed(dm, w, w2, n),
           LastUpdate(dm, w)
    PROVE  LastUpdate(out, w2)
  <1> SUFFICES ASSUME NEW i \in DOMAIN w2, IsUpdate(w2[i]),
                      \A k \in i + 1 .. Len(w2) : Quiet(w2[k])
               PROVE  w2[i].no = out.lastwritten - 1
    BY DEF LastUpdate
  <1>1. /\ Len(w) \in Nat /\ Len(w2) \in Nat /\ Len(w2) = Len(w) + n /\ n \in Nat
        /\ DOMAIN w = 1 .. Len(w) /\ DOMAIN w2 = 1 .. Len(w2)
        /\ dm.lastwritten \in Nat /\ dm.parsecount \in Nat
        /\ i \in Nat /\ i <= Len(w2) /\ i >= 1
        /\ n <= dm.parsecount - dm.lastwritten + 1
        /\ dm.lastwritten <= dm.parsecount
    BY DemoParts, Constants DEF Fed
  <1>2. \/ out.lastwritten = dm.lastwritten + n /\ dm.lastwritten + n <= dm.parsecount
        \/ out.lastwritten = dm.parsecount /\ dm.parsecount = dm.lastwritten + n - 1
    <2>1. out.lastwritten = Least(dm.lastwritten + n, dm.parsecount)
      BY DEF Advanced
    <2> QED
      BY ONLY SMTT(30), <1>1, <2>1 DEF Least
  <1>3. ASSUME NEW k \in Nat, k > Len(w), k <= Len(w2)
        PROVE  /\ w2[k].no = dm.lastwritten + (k - Len(w) - 1)
               /\ IsUpdate(w2[k]) <=> dm.lastwritten + (k - Len(w) - 1) < top
               /\ ~IsUpdate(w2[k]) <=> Quiet(w2[k])
    <2> DEFINE no == dm.lastwritten + (k - Len(w) - 1)
    <2>1. IsFrame(dm, w2[k], no) /\ no \in Ahead(dm)
      BY <1>1, <1>3, FedItem
    <2> HIDE DEF no
    <2>2. /\ IsUpdate(w2[k]) <=> no < top
          /\ ~IsUpdate(w2[k]) <=> Quiet(w2[k])
      BY <2>1, AheadUpdated
    <2> QED
      BY <2>1, <2>2 DEF IsFrame, no
  <1>4. \A k \in 1 .. Len(w) : w2[k] = w[k]
    BY DEF Fed
  <1>5. top \in Nat
    BY <1>1
  <1>6. CASE i > Len(w)
    <2>1. /\ w2[i].no = dm.lastwritten + (i - Len(w) - 1)
          /\ dm.lastwritten + (i - Len(w) - 1) < top
      BY <1>1, <1>3, <1>6
    <2>2. ASSUME NEW k \in Nat, k > i, k <= Len(w2)
          PROVE  ~(dm.lastwritten + (k - Len(w) - 1) < top)
      <3>1. k \in i + 1 .. Len(w2) /\ k > Len(w)
        BY <1>1, <1>6, <2>2
      <3>2. Quiet(w2[k])
        BY <3>1
      <3> QED
        BY <1>3, <2>2, <3>1, <3>2
    <2>3. i + 1 <= Len(w2) => ~(dm.lastwritten + (i - Len(w)) < top)
      <3>1. i + 1 \in Nat /\ i + 1 > i /\ i + 1 - Len(w) - 1 = i - Len(w)
        BY ONLY <1>1
      <3> QED
        BY <2>2, <3>1
    <2> QED
      <3>1. top = dm.parsecount \/ top = dm.parsecount + 1
        OBVIOUS
      <3>2. dm.parsecount = dm.lastwritten + n - 1 => top = dm.parsecount
        OBVIOUS
      <3>3. out.lastwritten = dm.lastwritten + (i - Len(w) - 1) + 1
        <4> DEFINE l == dm.lastwritten
                   p == dm.parsecount
                   a == i - Len(w)
        <4>1. /\ l \in Nat /\ p \in Nat /\ n \in Nat /\ l <= p /\ n <= p - l + 1
              /\ a \in Nat /\ a <= n /\ top \in Nat
              /\ a + 1 <= n => ~(l + a < top)
              /\ l + a - 1 < top
          BY SMTT(30), <1>1, <1>5, <1>6, <2>1, <2>3
        <4>2. /\ \/ out.lastwritten = l + n /\ l + n <= p
                 \/ out.lastwritten = p /\ p = l + n - 1
              /\ top = p \/ top = p + 1
              /\ p = l + n - 1 => top = p
          BY <1>2, <3>1, <3>2
        <4> HIDE DEF l, p, a
        <4>3. out.lastwritten = l + a
          BY ONLY <4>1, <4>2
        <4> QED
          BY <1>1, <4>1, <4>3 DEF l, a
      <3> QED
        BY ONLY <1>1, <2>1, <3>3
  <1>7. CASE i <= Len(w)
    <2>1. \A k \in i + 1 .. Len(w) : Quiet(w[k])
      BY <1>1, <1>4
    <2>2. i \in DOMAIN w /\ w2[i] = w[i]
      BY <1>1, <1>4, <1>7
    <2>3. w2[i].no = dm.lastwritten - 1
      BY <2>1, <2>2 DEF LastUpdate
    <2>4. n # 0 => ~(dm.lastwritten < top)
      <3>1. SUFFICES ASSUME n # 0 PROVE ~(dm.lastwritten < top)
        OBVIOUS
      <3>2. /\ Len(w) + 1 \in Nat /\ Len(w) + 1 > Len(w) /\ Len(w) + 1 <= Len(w2)
            /\ Len(w) + 1 \in i + 1 .. Len(w2)
            /\ dm.lastwritten + (Len(w) + 1 - Len(w) - 1) = dm.lastwritten
        BY <1>1, <1>7, <3>1
      <3>3. Quiet(w2[Len(w) + 1])
        BY <3>2
      <3> QED
        BY <1>3, <3>2, <3>3
    <2> QED
      <3>1. top = dm.parsecount \/ top = dm.parsecount + 1
        OBVIOUS
      <3>2. dm.parsecount = dm.lastwritten + n - 1 => top = dm.parsecount
        OBVIOUS
      <3>3. out.lastwritten = dm.lastwritten
        <4> DEFINE l == dm.lastwritten
                   p == dm.parsecount
        <4>1. /\ l \in Nat /\ p \in Nat /\ n \in Nat /\ l <= p /\ n <= p - l + 1
              /\ top \in Nat /\ n # 0 => ~(l < top)
          BY <1>1, <1>5, <2>4
        <4>2. /\ \/ out.lastwritten = l + n /\ l + n <= p
                 \/ out.lastwritten = p /\ p = l + n - 1
              /\ top = p \/ top = p + 1
              /\ p = l + n - 1 => top = p
          BY <1>2, <3>1, <3>2
        <4> HIDE DEF l, p
        <4>3. out.lastwritten = l
          BY ONLY <4>1, <4>2
        <4> QED
          BY <4>3 DEF l
      <3> QED
        BY ONLY <1>1, <2>3, <3>3
  <1> QED
    BY <1>1, <1>6, <1>7
-----------------------------------------------------------------------------
(* Changes of parts of a recording.                                        *)

(* The parts that say who is written to and what was written.              *)
SameDests(dm, out) ==
    /\ out.mvdrecording = dm.mvdrecording /\ out.dest = dm.dest
    /\ out.wrote = dm.wrote /\ out.sent = dm.sent /\ out.error = dm.error
    /\ out.fate = dm.fate /\ out.cached = dm.cached

Sound(dm) ==
    /\ dm \in Demo
    /\ dm.parsecount - dm.lastwritten \in 0 .. Lag + 1
    /\ \A d \in Dests : Kept(dm, d) /\ Written(dm.wrote[d], d)
    /\ dm.mvdrecording <=> dm.dest # {}

Ringing(dm, e, top) ==
    /\ dm.mvdrecording => RingInv(dm, e, top)
    /\ \A d \in dm.dest : ~dm.error[d] =>
          Follows(dm, dm.wrote[d], e) /\ LastUpdate(dm, dm.wrote[d])

LEMMA FineParts ==
    ASSUME NEW dm, NEW e, NEW top
    PROVE  Fine(dm, e, top) <=> Sound(dm) /\ Ringing(dm, e, top)
  BY DEF Fine, Sound, Ringing

LEMMA SameKept ==
    ASSUME NEW dm, NEW out, SameDests(dm, out), NEW d, Kept(dm, d)
    PROVE  Kept(out, d)
  BY DEF SameDests, Kept, Buffered, CacheUsed

(* Nothing but the ring is looked at.                                      *)
LEMMA SameViews ==
    ASSUME NEW dm, NEW out, SameRing(dm, out)
    PROVE  /\ Ahead(out) = Ahead(dm) /\ Pending(out) = Pending(dm)
           /\ \A k : Buf(out, k) = Buf(dm, k)
           /\ \A e, top : RingInv(dm, e, top) => RingInv(out, e, top)
           /\ \A w, e : Follows(dm, w, e) => Follows(out, w, e)
           /\ \A w : LastUpdate(dm, w) => LastUpdate(out, w)
           /\ \A w : LastMark(dm, w) => LastMark(out, w)
  <1>1. Ahead(out) = Ahead(dm) /\ \A k : Buf(out, k) = Buf(dm, k)
    BY DEF SameRing, Ahead, Buf
  <1>2. Pending(out) = Pending(dm)
    BY <1>1 DEF Pending
  <1>3. \A e, top : RingInv(dm, e, top) => RingInv(out, e, top)
    BY <1>1, <1>2
       DEF RingInv, Sorted, Updated, Reset, Unspilled, SameRing
  <1>4. \A w, e : Follows(dm, w, e) => Follows(out, w, e)
    BY <1>1, <1>2 DEF Follows, SameRing
  <1>5. \A w : LastUpdate(dm, w) => LastUpdate(out, w)
    BY DEF LastUpdate, SameRing
  <1>6. \A w : LastMark(dm, w) => LastMark(out, w)
    BY DEF LastMark, SameRing
  <1> QED
    BY <1>1, <1>2, <1>3, <1>4, <1>5, <1>6

LEMMA FlushSound ==
    ASSUME NEW dm, Sound(dm), NEW out, Flushes(dm, out)
    PROVE  Sound(out)
  BY DEF Sound, Flushes, SameRing

LEMMA FlushRinging ==
    ASSUME NEW dm, Sound(dm), NEW e, NEW top, Ringing(dm, e, top),
           NEW out, Flushes(dm, out)
    PROVE  Ringing(out, e, top)
  <1>1. /\ SameRing(dm, out) /\ out.wrote = dm.wrote
        /\ out.dest \subseteq dm.dest
        /\ out.mvdrecording => dm.mvdrecording
        /\ \A d \in out.dest : ~dm.error[d]
    BY DEF Flushes, Sound
  <1>2. out.mvdrecording => RingInv(out, e, top)
    BY <1>1, SameViews DEF Ringing
  <1>3. ASSUME NEW d \in out.dest
        PROVE  Follows(out, out.wrote[d], e) /\ LastUpdate(out, out.wrote[d])
    <2>1. Follows(dm, out.wrote[d], e) /\ LastUpdate(dm, out.wrote[d])
      BY <1>1 DEF Ringing
    <2> QED
      BY <1>1, <2>1, SameViews
  <1> QED
    BY <1>2, <1>3 DEF Ringing

LEMMA FlushTimely ==
    ASSUME NEW dm, Timely(dm), NEW out, Flushes(dm, out)
    PROVE  Timely(out)
  <1> SUFFICES ASSUME NEW f \in Files \cap out.dest
               PROVE  LastMark(out, out.wrote[f])
    BY DEF Timely
  <1>1. f \in Files \cap dm.dest /\ ~dm.error[f]
    BY DEF Flushes
  <1>2. LastMark(dm, out.wrote[f]) /\ SameRing(dm, out)
    BY <1>1 DEF Timely, Flushes
  <1> QED
    BY <1>2, SameViews

(* What is closed stays as it was.                                         *)
LEMMA FlushClosed ==
    ASSUME NEW dm, \A d \in Dests : Kept(dm, d), NEW bs, Closed(dm, bs),
           NEW out, Flushes(dm, out),
           \A d \in Dests : out.fate[d] = "closed" => dm.fate[d] = "closed"
    PROVE  Closed(out, bs)
  <1> SUFFICES ASSUME NEW f \in Files, out.fate[f] = "closed"
               PROVE  /\ out.sent[f] = Len(out.wrote[f])
                      /\ out.spilled \/ \E b \in bs :
                            Covers(Given(out.wrote[f]), out.wrote[f][1].at, b)
    BY DEF Closed
  <1>1. f \in Dests /\ dm.fate[f] = "closed"
    BY DEF Dests
  <1>2. f \notin dm.dest
    BY <1>1 DEF Kept
  <1>3. /\ out.sent[f] = dm.sent[f] /\ out.wrote = dm.wrote
        /\ out.spilled = dm.spilled
    BY <1>1, <1>2 DEF Flushes, SameRing
  <1> QED
    BY <1>1, <1>3 DEF Closed

(* A stop that leaves no destination, or only streams.                     *)
LEMMA ClosesTimely ==
    ASSUME NEW dm, NEW out, NEW destroy, NEW mvdonly \in BOOLEAN,
           Closes(dm, out, destroy, mvdonly)
    PROVE  Timely(out)
  BY DEF Closes, Timely

LEMMA ClosesAll ==
    ASSUME NEW dm, NEW out, Sound(dm), NEW destroy,
           Closes(dm, out, destroy, FALSE)
    PROVE  /\ Sound(out) /\ ~out.mvdrecording
           /\ \A e, top : Ringing(out, e, top)
  <1>1. Sound(out) /\ out.dest = {}
    BY FlushSound DEF Closes
  <1>2. ~out.mvdrecording
    BY <1>1 DEF Sound
  <1> QED
    BY <1>1, <1>2 DEF Ringing

LEMMA RemovesClosed ==
    ASSUME NEW dm, \A d \in Dests : Kept(dm, d), NEW bs, Closed(dm, bs),
           NEW out, NEW mvdonly, Closes(dm, out, TRUE, mvdonly)
    PROVE  Closed(out, bs)
  BY FlushClosed DEF Closes
-----------------------------------------------------------------------------
(* Changes of the frame that is being filled.                              *)

(* From dm to out only the current frame changes: its events may be lost   *)
(* (an overflow) and take on those past e, it may get its update.          *)
Touched(dm, out, e, e2, top, top2) ==
    LET p == dm.parsecount
        f == dm.frames[Slot(p)]
        g == out.frames[Slot(p)]
    IN  /\ out.parsecount = p /\ out.lastwritten = dm.lastwritten
        /\ out.prevtime = dm.prevtime
        /\ \A s \in 0 .. Ring - 1 : s # Slot(p) => out.frames[s] = dm.frames[s]
        /\ e <= e2 /\ top <= top2
        /\ top2 = p => g.base = NoUpdate
        /\ top2 = p + 1 => g.base = UpdateBase(p)
        /\ Increasing(g.buf) /\ Range(g.buf) \subseteq Range(f.buf) \cup e + 1 .. e2
        /\ ~out.spilled => /\ ~dm.spilled /\ (~f.over => ~g.over)
                           /\ Range(g.buf) = Range(f.buf) \cup e + 1 .. e2

(* The frames up to top have their update: all but the one that is being   *)
(* filled, or that one too between the update and the end of the frame.    *)
TopOf(dm, top) == top = dm.parsecount \/ top = dm.parsecount + 1

LEMMA TouchedParts ==
    ASSUME NEW dm \in Demo, dm.parsecount - dm.lastwritten \in 0 .. Lag + 1,
           NEW e \in Nat, NEW e2 \in Nat, NEW top, NEW top2,
           NEW out, Touched(dm, out, e, e2, top, top2)
    PROVE  /\ Ahead(out) = Ahead(dm) /\ dm.parsecount \in Ahead(dm)
           /\ \A k \in Ahead(dm) : k # dm.parsecount
                => /\ k < dm.parsecount /\ Slot(k) # Slot(dm.parsecount)
                   /\ out.frames[Slot(k)] = dm.frames[Slot(k)]
                   /\ Buf(out, k) = Buf(dm, k)
           /\ Buf(out, dm.parsecount) \subseteq Buf(dm, dm.parsecount) \cup e + 1 .. e2
           /\ ~out.spilled
                => Buf(out, dm.parsecount) = Buf(dm, dm.parsecount) \cup e + 1 .. e2
           /\ \A k \in Ahead(dm) : Buf(out, k) \subseteq Buf(dm, k) \cup e + 1 .. e2
           /\ ~out.spilled => Pending(out) = Pending(dm) \cup e + 1 .. e2
  <1>1. Ahead(out) = Ahead(dm) /\ dm.parsecount \in Ahead(dm)
    BY AheadSlots DEF Touched, Ahead
  <1>2. ASSUME NEW k \in Ahead(dm), k # dm.parsecount
        PROVE  /\ k < dm.parsecount /\ Slot(k) # Slot(dm.parsecount)
               /\ out.frames[Slot(k)] = dm.frames[Slot(k)]
               /\ Buf(out, k) = Buf(dm, k)
    <2>1. k \in Nat /\ Slot(k) \in 0 .. Ring - 1 /\ Slot(k) # Slot(dm.parsecount)
          /\ dm.parsecount \in Nat
      BY <1>1, <1>2, AheadSlots
    <2>2. k < dm.parsecount
      BY <1>2, <2>1 DEF Ahead
    <2>3. out.frames[Slot(k)] = dm.frames[Slot(k)]
      BY <2>1 DEF Touched
    <2> QED
      BY <2>1, <2>2, <2>3 DEF Buf
  <1>3. /\ Buf(out, dm.parsecount) \subseteq Buf(dm, dm.parsecount) \cup e + 1 .. e2
        /\ ~out.spilled
             => Buf(out, dm.parsecount) = Buf(dm, dm.parsecount) \cup e + 1 .. e2
    BY DEF Touched, Buf
  <1>4. ASSUME ~out.spilled
        PROVE  Pending(out) = Pending(dm) \cup e + 1 .. e2
    <2>1. ASSUME NEW x \in Pending(out) PROVE x \in Pending(dm) \cup e + 1 .. e2
      <3>1. PICK k \in Ahead(dm) : x \in Buf(out, k)
        BY <1>1 DEF Pending
      <3> QED
        BY <1>2, <1>3, <3>1 DEF Pending
    <2>2. ASSUME NEW x \in Pending(dm) PROVE x \in Pending(out)
      <3>1. PICK k \in Ahead(dm) : x \in Buf(dm, k)
        BY DEF Pending
      <3>2. x \in Buf(out, k)
        BY <1>2, <1>3, <1>4, <3>1
      <3> QED
        BY <1>1, <3>2 DEF Pending
    <2>3. e + 1 .. e2 \subseteq Pending(out)
      BY <1>1, <1>3, <1>4 DEF Pending
    <2> QED
      BY <2>1, <2>2, <2>3
  <1> QED
    BY <1>1, <1>2, <1>3, <1>4

LEMMA TouchedRing ==
    ASSUME NEW dm \in Demo, dm.parsecount - dm.lastwritten \in 0 .. Lag + 1,
           NEW e \in Nat, NEW e2 \in Nat,
           NEW top, TopOf(dm, top), NEW top2, TopOf(dm, top2),
           NEW out, Touched(dm, out, e, e2, top, top2), RingInv(dm, e, top)
    PROVE  RingInv(out, e2, top2)
  <1> DEFINE p == dm.parsecount
  <1>1. /\ p \in Nat /\ dm.lastwritten \in Nat /\ p \in Ahead(dm)
        /\ Ahead(out) = Ahead(dm)
        /\ out.parsecount = p /\ out.lastwritten = dm.lastwritten
        /\ e <= e2 /\ top <= top2
    <2>1. p \in Ahead(dm) /\ Ahead(out) = Ahead(dm)
      BY TouchedParts
    <2>2. /\ out.parsecount = p /\ out.lastwritten = dm.lastwritten
          /\ e <= e2 /\ top <= top2
      BY DEF Touched
    <2> QED
      BY <2>1, <2>2, DemoParts
  <1>2. /\ \A k \in Ahead(dm) : k # p
             => /\ k < p /\ Slot(k) # Slot(p)
                /\ out.frames[Slot(k)] = dm.frames[Slot(k)]
                /\ Buf(out, k) = Buf(dm, k)
        /\ Buf(out, p) \subseteq Buf(dm, p) \cup e + 1 .. e2
    BY TouchedParts
  <1>3. Sorted(dm, e) /\ Updated(dm, top) /\ Reset(dm) /\ Unspilled(dm, e)
    BY DEF RingInv
  <1> HIDE DEF p
  <1>4. Sorted(out, e2)
    <2> SUFFICES ASSUME NEW k \in Ahead(dm)
                 PROVE  /\ Increasing(out.frames[Slot(k)].buf)
                        /\ Buf(out, k) \subseteq 1 .. e2
                        /\ \A j \in Ahead(dm) :
                              k < j => Before(Buf(out, k), Buf(out, j))
      BY <1>1 DEF Sorted
    <2>1. Increasing(out.frames[Slot(k)].buf)
      <3>1. CASE k = p
        BY <3>1 DEF Touched, p
      <3>2. CASE k # p
        BY <1>2, <1>3, <3>2 DEF Sorted
      <3> QED
        BY <3>1, <3>2
    <2>2. Buf(dm, k) \subseteq 1 .. e
      BY <1>3 DEF Sorted
    <2>3. Buf(out, k) \subseteq 1 .. e2
      <3>1. Buf(out, k) \subseteq Buf(dm, k) \cup e + 1 .. e2
        BY <1>2
      <3> QED
        BY <1>1, <2>2, <3>1
    <2>4. ASSUME NEW j \in Ahead(dm), k < j
          PROVE  Before(Buf(out, k), Buf(out, j))
      <3>1. j \in Nat /\ k \in Nat /\ j <= p
        BY <1>1 DEF Ahead, p
      <3>2. k # p
        BY <1>1, <2>4, <3>1
      <3>3. Buf(out, k) = Buf(dm, k) /\ Buf(out, j) \subseteq Buf(dm, j) \cup e + 1 .. e2
        BY <1>2, <3>2
      <3>4. Before(Buf(dm, k), Buf(dm, j))
        BY <1>3, <2>4 DEF Sorted
      <3>5. ASSUME NEW x \in Buf(dm, k), NEW y \in Buf(out, j) PROVE x < y
        <4>1. CASE y \in Buf(dm, j)
          BY <3>4, <4>1 DEF Before
        <4>2. CASE y \in e + 1 .. e2
          BY <2>2, <4>2
        <4> QED
          BY <3>3, <4>1, <4>2
      <3> QED
        BY <3>3, <3>5 DEF Before
    <2> QED
      BY <2>1, <2>3, <2>4
  <1>5. Updated(out, top2)
    <2>1. ASSUME NEW k \in dm.lastwritten .. top2 - 1
          PROVE  out.frames[Slot(k)].base = UpdateBase(k)
      <3>1. k \in Ahead(dm) /\ k \in Nat /\ top2 \in {p, p + 1}
        BY <1>1 DEF Ahead, p, TopOf
      <3>2. CASE k = p
        <4>1. top2 = p + 1
          BY <1>1, <3>1, <3>2
        <4> QED
          BY <3>2, <4>1 DEF Touched, p
      <3>3. CASE k # p
        <4>1. k < p /\ out.frames[Slot(k)] = dm.frames[Slot(k)]
          BY <1>2, <3>1, <3>3
        <4>2. k \in dm.lastwritten .. top - 1
          BY <1>1, <3>1, <4>1 DEF p, TopOf
        <4> QED
          BY <1>3, <4>1, <4>2 DEF Updated
      <3> QED
        BY <3>2, <3>3
    <2>2. top2 = p => out.frames[Slot(top2)].base = NoUpdate
      BY DEF Touched, p
    <2> QED
      BY <1>1, <2>1, <2>2 DEF Updated
  <1>6. Reset(out)
    <2> SUFFICES ASSUME NEW s \in 0 .. Ring - 1, \A k \in Ahead(dm) : s # Slot(k)
                 PROVE  out.frames[s].buf = <<>> /\ out.frames[s].base = NoUpdate
      BY <1>1 DEF Reset
    <2>1. out.frames[s] = dm.frames[s]
      BY <1>1 DEF Touched, p
    <2> QED
      BY <1>3, <2>1 DEF Reset
  <1>7. ASSUME ~out.spilled
        PROVE  /\ \A s \in 0 .. Ring - 1 : ~out.frames[s].over
               /\ NoGap(Pending(out), e2)
    <2>1. /\ \A s \in 0 .. Ring - 1 : ~dm.frames[s].over
          /\ NoGap(Pending(dm), e)
      BY <1>3, <1>7 DEF Unspilled, Touched
    <2>2. \A s \in 0 .. Ring - 1 : ~out.frames[s].over
      <3>1. Slot(p) \in 0 .. Ring - 1
        BY <1>1, SlotInRing
      <3> QED
        BY <1>7, <2>1, <3>1 DEF Touched, p
    <2>3. Pending(out) = Pending(dm) \cup e + 1 .. e2
      BY <1>7, TouchedParts
    <2>4. Pending(dm) \subseteq 1 .. e
      BY <1>3 DEF Pending, Sorted
    <2>5. NoGap(Pending(out), e2)
      <3>1. ASSUME NEW x \in Pending(out), NEW y \in x .. e2
            PROVE  y \in Pending(out)
        <4>1. CASE x \in Pending(dm) /\ y <= e
          <5>1. y \in x .. e
            BY <2>4, <4>1
          <5> QED
            BY <2>1, <2>3, <4>1, <5>1 DEF NoGap
        <4>2. CASE ~(x \in Pending(dm) /\ y <= e)
          <5>1. y \in e + 1 .. e2
            BY <2>3, <2>4, <4>2
          <5> QED
            BY <2>3, <5>1
        <4> QED
          BY <4>1, <4>2
      <3> QED
        BY <3>1 DEF NoGap
    <2> QED
      BY <2>2, <2>5
  <1> QED
    BY <1>4, <1>5, <1>6, <1>7 DEF RingInv, Unspilled

LEMMA TouchedFollows ==
    ASSUME NEW dm \in Demo, dm.parsecount - dm.lastwritten \in 0 .. Lag + 1,
           NEW e \in Nat, NEW e2 \in Nat,
           NEW top, NEW top2, NEW out, Touched(dm, out, e, e2, top, top2),
           NEW w, Follows(dm, w, e), w[1].at \in Nat
    PROVE  Follows(out, w, e2)
  <1>1. e <= e2 /\ Given(w) \subseteq 1 .. e /\ Ahead(out) = Ahead(dm)
        /\ w # <<>> /\ w[1].kind = "state" /\ w[1].at <= e
    BY SMTT(30), TouchedParts DEF Follows, Touched
  <1>2. w[1].at <= e2 /\ Given(w) \subseteq 1 .. e2
    BY <1>1
  <1>3. ASSUME NEW k \in Ahead(dm) PROVE Before(Given(w), Buf(out, k))
    <2>1. Buf(out, k) \subseteq Buf(dm, k) \cup e + 1 .. e2
      BY TouchedParts
    <2>2. Before(Given(w), Buf(dm, k))
      BY DEF Follows
    <2>3. ASSUME NEW x \in Given(w), NEW y \in Buf(out, k) PROVE x < y
      <3>1. CASE y \in Buf(dm, k)
        BY <2>2, <3>1 DEF Before
      <3>2. CASE y \in e + 1 .. e2
        BY <1>1, <3>2
      <3> QED
        BY <2>1, <3>1, <3>2
    <2> QED
      BY <2>3 DEF Before
  <1>4. ASSUME ~out.spilled
        PROVE  Covers(Given(w) \cup Pending(out), w[1].at, e2)
    <2>1. Pending(out) = Pending(dm) \cup e + 1 .. e2
      BY <1>4, TouchedParts
    <2> DEFINE S == Given(w) \cup Pending(dm)
               a == w[1].at
    <2>2. Given(w) \cup Pending(out) = S \cup e + 1 .. e2
      BY <2>1
    <2>3. Covers(S, a, e)
      BY <1>4 DEF Follows, Touched
    <2> HIDE DEF S, a
    <2>4. Covers(S \cup e + 1 .. e2, a, e2)
      <3>1. /\ a \in Nat /\ a <= e /\ e <= e2 /\ S \subseteq 1 .. e
            /\ \A x \in S \cup {a + 1} : x .. e \subseteq S
        BY <1>1, <2>3 DEF Covers, a
      <3>2. ASSUME NEW x \in S \cup e + 1 .. e2 \cup {a + 1}, NEW y \in x .. e2
            PROVE  y \in S \cup e + 1 .. e2
        <4>1. CASE x \in S \cup {a + 1} /\ y <= e
          <5>1. y \in x .. e
            BY <3>1, <4>1
          <5> QED
            BY <3>1, <4>1, <5>1
        <4>2. CASE ~(x \in S \cup {a + 1} /\ y <= e)
          BY <3>1, <4>2
        <4> QED
          BY <4>1, <4>2
      <3>3. a <= e2 /\ S \cup e + 1 .. e2 \subseteq 1 .. e2
        BY <3>1
      <3> QED
        BY <3>2, <3>3 DEF Covers
    <2> QED
      BY <2>2, <2>4 DEF a
  <1> QED
    BY <1>1, <1>2, <1>3, <1>4 DEF Follows

LEMMA StateAt ==
    ASSUME NEW w \in Seq(Item), w # <<>>, w[1].kind = "state"
    PROVE  w[1].at \in Nat
  <1>1. w[1] \in Item
    BY DEF Item
  <1> QED
    BY <1>1 DEF Item

LEMMA TouchedSound ==
    ASSUME NEW dm, Sound(dm), NEW out \in Demo, SameDests(dm, out),
           out.parsecount = dm.parsecount, out.lastwritten = dm.lastwritten
    PROVE  Sound(out)
  <1>1. \A d \in Dests : Kept(out, d)
    BY SameKept DEF Sound
  <1> QED
    BY <1>1 DEF Sound, SameDests

LEMMA TouchedRinging ==
    ASSUME NEW dm, Sound(dm), NEW e \in Nat, NEW e2 \in Nat,
           NEW top, TopOf(dm, top), NEW top2, TopOf(dm, top2),
           Ringing(dm, e, top), NEW out, SameDests(dm, out),
           Touched(dm, out, e, e2, top, top2)
    PROVE  Ringing(out, e2, top2)
  <1>1. dm \in Demo /\ dm.parsecount - dm.lastwritten \in 0 .. Lag + 1
    BY DEF Sound
  <1>2. ASSUME out.mvdrecording PROVE RingInv(out, e2, top2)
    <2>1. RingInv(dm, e, top)
      BY <1>2 DEF Ringing, SameDests
    <2> QED
      BY <1>1, <2>1, TouchedRing
  <1>3. ASSUME NEW d \in out.dest, ~out.error[d]
        PROVE  Follows(out, out.wrote[d], e2) /\ LastUpdate(out, out.wrote[d])
    <2>1. Follows(dm, dm.wrote[d], e) /\ LastUpdate(dm, dm.wrote[d])
      BY <1>3 DEF Ringing, SameDests
    <2>2. dm.wrote[d] \in Seq(Item)
      BY <1>1, <1>3, DemoParts DEF SameDests
    <2>3. (dm.wrote[d])[1].at \in Nat
      BY <2>1, <2>2, StateAt DEF Follows
    <2>4. Follows(out, dm.wrote[d], e2)
      BY <1>1, <2>1, <2>3, TouchedFollows
    <2>5. LastUpdate(out, dm.wrote[d])
      BY <2>1 DEF LastUpdate, Touched
    <2> QED
      BY <2>4, <2>5 DEF SameDests
  <1> QED
    BY <1>2, <1>3 DEF Ringing

LEMMA TouchedTimely ==
    ASSUME NEW dm, NEW out, SameDests(dm, out), out.prevtime = dm.prevtime,
           Timely(dm)
    PROVE  Timely(out)
  BY DEF Timely, SameDests, LastMark

LEMMA IncreasingAppend ==
    ASSUME NEW s \in Seq(Nat), Increasing(s), NEW e \in Nat, Range(s) \subseteq 1 .. e
    PROVE  /\ Append(s, e + 1) \in Seq(Nat) /\ Increasing(Append(s, e + 1))
           /\ Range(Append(s, e + 1)) = Range(s) \cup e + 1 .. e + 1
  <1> DEFINE t == Append(s, e + 1)
  <1>1. /\ t \in Seq(Nat) /\ Len(t) = Len(s) + 1 /\ Len(s) \in Nat
        /\ DOMAIN t = 1 .. Len(s) + 1 /\ DOMAIN s = 1 .. Len(s)
        /\ \A i \in 1 .. Len(s) : t[i] = s[i]
        /\ t[Len(s) + 1] = e + 1
    OBVIOUS
  <1> HIDE DEF t
  <1>2. \A i \in 1 .. Len(s) : s[i] \in 1 .. e
    BY <1>1 DEF Range
  <1>3. Increasing(t)
    <2> SUFFICES ASSUME NEW i \in DOMAIN t, NEW j \in DOMAIN t, i < j
                 PROVE  t[i] < t[j]
      BY DEF Increasing
    <2>1. i \in 1 .. Len(s) /\ i \in DOMAIN s /\ t[i] = s[i] /\ s[i] \in 1 .. e
      BY <1>1, <1>2
    <2>2. CASE j = Len(s) + 1
      BY <1>1, <2>1, <2>2
    <2>3. CASE j # Len(s) + 1
      <3>1. j \in DOMAIN s /\ t[j] = s[j]
        BY <1>1, <2>3
      <3> QED
        BY <2>1, <3>1 DEF Increasing
    <2> QED
      BY <2>2, <2>3
  <1>4. Range(t) = Range(s) \cup {e + 1}
    <2>1. Range(t) \subseteq Range(s) \cup {e + 1}
      BY <1>1 DEF Range
    <2>2. Range(s) \subseteq Range(t)
      <3>1. \A i \in DOMAIN s : i \in DOMAIN t /\ t[i] = s[i]
        BY <1>1
      <3> QED
        BY <3>1 DEF Range
    <2>3. e + 1 \in Range(t)
      <3>1. Len(s) + 1 \in DOMAIN t
        BY <1>1
      <3> QED
        BY <1>1, <3>1 DEF Range
    <2> QED
      BY <2>1, <2>2, <2>3
  <1>5. e + 1 .. e + 1 = {e + 1}
    OBVIOUS
  <1> QED
    BY <1>1, <1>3, <1>4, <1>5 DEF t

(* A frame with another content in its slot.                               *)
LEMMA FrameSet ==
    ASSUME NEW fs \in [0 .. Ring - 1 -> Frames], NEW s \in 0 .. Ring - 1,
           NEW f \in Frames
    PROVE  /\ [fs EXCEPT ![s] = f] \in [0 .. Ring - 1 -> Frames]
           /\ [fs EXCEPT ![s] = f][s] = f
           /\ \A r \in 0 .. Ring - 1 : r # s => [fs EXCEPT ![s] = f][r] = fs[r]
  OBVIOUS

(* The frame that is being filled.                                         *)
LEMMA CurrentParts ==
    ASSUME NEW dm \in Demo
    PROVE  /\ Slot(dm.parsecount) \in 0 .. Ring - 1
           /\ Current(dm) \in Frames
           /\ Current(dm) = dm.frames[Slot(dm.parsecount)]
           /\ Current(dm).buf \in Seq(Nat) /\ Current(dm).over \in BOOLEAN
           /\ Current(dm).time \in Nat
           /\ Current(dm).base \in Nat \cup {Full, NoUpdate}
  <1>1. Slot(dm.parsecount) \in 0 .. Ring - 1
    BY DemoParts, SlotInRing
  <1> QED
    BY <1>1, DemoParts, FrameParts DEF Current

(* out is dm with another current frame.                                   *)
Refilled(dm, out, f, sp) ==
    /\ out \in Demo /\ SameDests(dm, out)
    /\ out.parsecount = dm.parsecount /\ out.lastwritten = dm.lastwritten
    /\ out.prevtime = dm.prevtime /\ out.spilled = sp
    /\ out.frames[Slot(dm.parsecount)] = f
    /\ \A s \in 0 .. Ring - 1 : s # Slot(dm.parsecount)
          => out.frames[s] = dm.frames[s]

Refill(dm, f, sp) ==
    [dm EXCEPT !.frames = [dm.frames EXCEPT ![Slot(dm.parsecount)] = f],
               !.spilled = sp]

LEMMA Refills ==
    ASSUME NEW dm \in Demo, NEW f \in Frames, NEW sp \in BOOLEAN
    PROVE  Refilled(dm, Refill(dm, f, sp), f, sp)
  <1> DEFINE fs == [dm.frames EXCEPT ![Slot(dm.parsecount)] = f]
             out == Refill(dm, f, sp)
  <1>1. Slot(dm.parsecount) \in 0 .. Ring - 1
    BY CurrentParts
  <1>2. /\ fs \in [0 .. Ring - 1 -> Frames] /\ fs[Slot(dm.parsecount)] = f
        /\ \A s \in 0 .. Ring - 1 : s # Slot(dm.parsecount)
              => fs[s] = dm.frames[s]
    BY <1>1, DemoParts, FrameSet
  <1>3. out = [dm EXCEPT !.frames = fs, !.spilled = sp]
    BY DEF Refill
  <1> HIDE DEF fs, out
  <1>4. /\ out \in Demo /\ SameDests(dm, out) /\ out.frames = fs
        /\ out.spilled = sp /\ out.parsecount = dm.parsecount
        /\ out.lastwritten = dm.lastwritten /\ out.prevtime = dm.prevtime
    BY ONLY dm \in Demo, sp \in BOOLEAN, <1>2, <1>3 DEF Demo, SameDests
  <1> QED
    BY <1>2, <1>4 DEF Refilled, out

LEMMA AddEventRefills ==
    ASSUME NEW dm \in Demo, NEW e \in Nat
    PROVE  Refilled(dm, AddEvent(dm, e),
                    [Current(dm) EXCEPT !.buf = Append(@, e)], dm.spilled)
  <1> DEFINE f == [Current(dm) EXCEPT !.buf = Append(@, e)]
             fs == [dm.frames EXCEPT ![Slot(dm.parsecount)] = f]
  <1>1. Current(dm) \in Frames /\ Current(dm).buf \in Seq(Nat)
    BY CurrentParts
  <1>2. f \in Frames
    <2>1. Append(Current(dm).buf, e) \in Seq(Nat)
      BY <1>1
    <2>2. ASSUME NEW b \in Seq(Nat), NEW c \in Frames
          PROVE  [c EXCEPT !.buf = b] \in Frames
      BY DEF Frames
    <2> QED
      BY <1>1, <2>1, <2>2
  <1>3. AddEvent(dm, e) = [dm EXCEPT !.frames = fs]
    BY DEF AddEvent, Current
  <1>4. [dm EXCEPT !.frames = fs] = Refill(dm, f, dm.spilled)
    <2>1. Refill(dm, f, dm.spilled) = [dm EXCEPT !.frames = fs, !.spilled = dm.spilled]
      BY DEF Refill
    <2> HIDE DEF fs
    <2> QED
      BY <2>1 DEF Demo
  <1> HIDE DEF f, fs
  <1>5. Refilled(dm, AddEvent(dm, e), f, dm.spilled)
    BY <1>2, <1>3, <1>4, DemoParts, Refills
  <1> QED
    BY <1>5 DEF f

LEMMA OverflowRefills ==
    ASSUME NEW dm \in Demo
    PROVE  Refilled(dm, Overflow(dm),
                    [Current(dm) EXCEPT !.over = TRUE, !.buf = <<>>], TRUE)
  <1> DEFINE f == [Current(dm) EXCEPT !.over = TRUE, !.buf = <<>>]
             fs == [dm.frames EXCEPT ![Slot(dm.parsecount)] = f]
  <1>1. Current(dm) \in Frames
    BY CurrentParts
  <1>2. f \in Frames
    <2>1. <<>> \in Seq(Nat)
      OBVIOUS
    <2>2. ASSUME NEW b \in Seq(Nat), NEW c \in Frames
          PROVE  [c EXCEPT !.over = TRUE, !.buf = b] \in Frames
      BY DEF Frames
    <2> QED
      BY <1>1, <2>1, <2>2
  <1>3. Overflow(dm) = Refill(dm, f, TRUE)
    BY <1>1, CurrentParts, DemoParts DEF Overflow, Current, Frames, Refill
  <1> HIDE DEF f
  <1>4. Refilled(dm, Overflow(dm), f, TRUE)
    BY <1>2, <1>3, Refills
  <1> QED
    BY <1>4 DEF f

LEMMA CloseFrameRefills ==
    ASSUME NEW dm \in Demo, NEW now \in Nat
    PROVE  Refilled(dm, CloseFrame(dm, now),
                    [Current(dm) EXCEPT !.time = now,
                                        !.base = UpdateBase(dm.parsecount)],
                    dm.spilled)
  <1> DEFINE f == [Current(dm) EXCEPT !.time = now,
                                      !.base = UpdateBase(dm.parsecount)]
             fs == [dm.frames EXCEPT ![Slot(dm.parsecount)] = f]
  <1>1. Current(dm) \in Frames
    BY CurrentParts
  <1>2. f \in Frames
    <2>1. dm.parsecount \in Nat
      BY DemoParts
    <2>2. UpdateBase(dm.parsecount) \in Nat \cup {Full, NoUpdate}
      BY <2>1 DEF UpdateBase
    <2> QED
      BY <1>1, <2>2 DEF Frames
  <1>3. CloseFrame(dm, now) = [dm EXCEPT !.frames = fs]
    BY <1>1, CurrentParts, DemoParts DEF CloseFrame, Current, Frames
  <1>4. [dm EXCEPT !.frames = fs] = Refill(dm, f, dm.spilled)
    <2>1. Refill(dm, f, dm.spilled) = [dm EXCEPT !.frames = fs, !.spilled = dm.spilled]
      BY DEF Refill
    <2> HIDE DEF fs
    <2> QED
      BY <2>1 DEF Demo
  <1> HIDE DEF f, fs
  <1>5. Refilled(dm, CloseFrame(dm, now), f, dm.spilled)
    BY <1>2, <1>3, <1>4, DemoParts, Refills
  <1> QED
    BY <1>5 DEF f

LEMMA RefilledSound ==
    ASSUME NEW dm, Sound(dm), NEW out, NEW f, NEW sp, Refilled(dm, out, f, sp)
    PROVE  Sound(out) /\ (Timely(dm) => Timely(out))
  BY TouchedSound, TouchedTimely DEF Refilled

(* The base of the current frame, and the order of its events.             *)
LEMMA CurrentRing ==
    ASSUME NEW dm, Sound(dm), NEW e, NEW top, TopOf(dm, top), RingInv(dm, e, top)
    PROVE  /\ top = dm.parsecount => Current(dm).base = NoUpdate
           /\ top = dm.parsecount + 1
                => Current(dm).base = UpdateBase(dm.parsecount)
           /\ Increasing(Current(dm).buf) /\ Range(Current(dm).buf) \subseteq 1 .. e
           /\ Current(dm).over => dm.spilled
  <1>1. dm \in Demo /\ dm.parsecount \in Ahead(dm) /\ dm.parsecount \in Nat
        /\ Slot(dm.parsecount) \in 0 .. Ring - 1
        /\ dm.parsecount \in dm.lastwritten .. dm.parsecount + 1 - 1
    BY AheadSlots DEF Sound, Ahead
  <1>2. Sorted(dm, e) /\ Updated(dm, top) /\ Unspilled(dm, e)
    BY DEF RingInv
  <1>3. Increasing(Current(dm).buf) /\ Range(Current(dm).buf) \subseteq 1 .. e
    BY <1>1, <1>2 DEF Sorted, Current, Buf
  <1>4. Current(dm).over => dm.spilled
    BY <1>1, <1>2 DEF Unspilled, Current
  <1> QED
    BY <1>1, <1>2, <1>3, <1>4 DEF Updated, Current

LEMMA AddEventTouches ==
    ASSUME NEW dm, Sound(dm), NEW e \in Nat, RingInv(dm, e, dm.parsecount)
    PROVE  Touched(dm, AddEvent(dm, e + 1), e, e + 1, dm.parsecount, dm.parsecount)
  <1> DEFINE p == dm.parsecount
             c == Current(dm)
             f == [c EXCEPT !.buf = Append(@, e + 1)]
             out == AddEvent(dm, e + 1)
  <1>1. /\ dm \in Demo /\ p \in Nat /\ c \in Frames /\ c.buf \in Seq(Nat)
        /\ c = dm.frames[Slot(p)] /\ TopOf(dm, p)
    BY CurrentParts, DemoParts DEF Sound, TopOf
  <1>2. /\ c.base = NoUpdate /\ Increasing(c.buf) /\ Range(c.buf) \subseteq 1 .. e
    BY <1>1, CurrentRing
  <1>3. Refilled(dm, out, f, dm.spilled)
    BY SMTT(30), <1>1, AddEventRefills
  <1>4. /\ f.buf = Append(c.buf, e + 1) /\ f.base = c.base /\ f.over = c.over
    BY <1>1 DEF Frames
  <1>5. /\ Increasing(f.buf) /\ Range(f.buf) = Range(c.buf) \cup e + 1 .. e + 1
    BY <1>1, <1>2, <1>4, IncreasingAppend
  <1>6. e <= e + 1 /\ p <= p /\ p # p + 1
    BY <1>1
  <1> HIDE DEF f, out, c
  <1> QED
    BY <1>1, <1>2, <1>3, <1>4, <1>5, <1>6 DEF Touched, Refilled, p, out

LEMMA OverflowTouches ==
    ASSUME NEW dm, Sound(dm), NEW e \in Nat, NEW e2 \in Nat, e <= e2,
           NEW top, TopOf(dm, top), RingInv(dm, e, top)
    PROVE  Touched(dm, Overflow(dm), e, e2, top, top)
  <1> DEFINE p == dm.parsecount
             c == Current(dm)
             f == [c EXCEPT !.over = TRUE, !.buf = <<>>]
             out == Overflow(dm)
  <1>1. /\ dm \in Demo /\ p \in Nat /\ c \in Frames /\ top <= top
        /\ c = dm.frames[Slot(p)]
    BY CurrentParts, DemoParts DEF Sound, TopOf
  <1>2. /\ top = p => c.base = NoUpdate
        /\ top = p + 1 => c.base = UpdateBase(p)
    BY CurrentRing
  <1>3. Refilled(dm, out, f, TRUE)
    BY <1>1, OverflowRefills
  <1>4. f.buf = <<>> /\ f.base = c.base
    BY <1>1 DEF Frames
  <1>5. Increasing(f.buf) /\ Range(f.buf) = {}
    BY <1>4 DEF Increasing, Range
  <1> HIDE DEF f, out, c
  <1> QED
    BY <1>1, <1>2, <1>3, <1>4, <1>5 DEF Touched, Refilled, p, out

LEMMA CloseFrameTouches ==
    ASSUME NEW dm, Sound(dm), NEW e \in Nat, RingInv(dm, e, dm.parsecount),
           NEW now \in Nat
    PROVE  Touched(dm, CloseFrame(dm, now), e, e, dm.parsecount, dm.parsecount + 1)
  <1> DEFINE p == dm.parsecount
             c == Current(dm)
             f == [c EXCEPT !.time = now, !.base = UpdateBase(p)]
             out == CloseFrame(dm, now)
  <1>1. /\ dm \in Demo /\ p \in Nat /\ c \in Frames
        /\ c = dm.frames[Slot(p)] /\ TopOf(dm, p)
    BY CurrentParts, DemoParts DEF Sound, TopOf
  <1>2. Increasing(c.buf)
    BY <1>1, CurrentRing
  <1>3. Refilled(dm, out, f, dm.spilled)
    BY <1>1, CloseFrameRefills
  <1>4. /\ f.buf = c.buf /\ f.base = UpdateBase(p) /\ f.over = c.over
    BY <1>1 DEF Frames
  <1>5. e <= e /\ p <= p + 1 /\ p + 1 # p /\ e + 1 .. e = {}
    BY <1>1
  <1> HIDE DEF f, out, c
  <1> QED
    BY <1>1, <1>2, <1>3, <1>4, <1>5 DEF Touched, Refilled, p, out

LEMMA HoldTouches ==
    ASSUME NEW dm, Sound(dm), NEW e \in Nat, RingInv(dm, e, dm.parsecount),
           dm.spilled
    PROVE  Touched(dm, dm, e, e + 1, dm.parsecount, dm.parsecount)
  <1> DEFINE p == dm.parsecount
             c == Current(dm)
  <1>1. /\ dm \in Demo /\ p \in Nat /\ c = dm.frames[Slot(p)] /\ TopOf(dm, p)
    BY CurrentParts, DemoParts DEF Sound, TopOf
  <1>2. c.base = NoUpdate /\ Increasing(c.buf)
    BY <1>1, CurrentRing
  <1>3. e <= e + 1 /\ p <= p /\ p # p + 1
    BY <1>1
  <1> HIDE DEF c
  <1> QED
    BY <1>1, <1>2, <1>3 DEF Touched, p

(* Event e + 1 reaches the current frame, or overflows it, or finds it     *)
(* overflowed.                                                             *)
Said(dm, e) == IF Fits(dm) THEN AddEvent(dm, e + 1)
               ELSE IF CanBegin(dm) THEN Overflow(dm) ELSE dm

LEMMA SaidGoesOn ==
    ASSUME NEW dm, Sound(dm), NEW e \in Nat, dm.mvdrecording,
           Ringing(dm, e, dm.parsecount)
    PROVE  LET out == Said(dm, e)
           IN  /\ Sound(out) /\ Ringing(out, e + 1, dm.parsecount)
               /\ Timely(dm) => Timely(out)
               /\ SameDests(dm, out) /\ (dm.spilled => out.spilled)
               /\ out.parsecount = dm.parsecount
               /\ out.lastwritten = dm.lastwritten
  <1> DEFINE p == dm.parsecount
             out == Said(dm, e)
  <1>1. /\ dm \in Demo /\ p \in Nat /\ TopOf(dm, p) /\ RingInv(dm, e, p)
        /\ e + 1 \in Nat /\ e <= e + 1 /\ p \in {p, p + 1}
    BY DemoParts DEF Sound, TopOf, Ringing
  <1>2. /\ Touched(dm, out, e, e + 1, p, p) /\ SameDests(dm, out) /\ Sound(out)
        /\ Timely(dm) => Timely(out)
        /\ dm.spilled => out.spilled
    <2>1. CASE Fits(dm)
      <3>1. out = AddEvent(dm, e + 1)
        BY <2>1 DEF Said
      <3>2. PICK f : Refilled(dm, AddEvent(dm, e + 1), f, dm.spilled)
        BY <1>1, AddEventRefills
      <3>3. Touched(dm, AddEvent(dm, e + 1), e, e + 1, p, p)
        BY <1>1, AddEventTouches
      <3>4. Sound(out) /\ (Timely(dm) => Timely(out))
        BY <3>1, <3>2, RefilledSound
      <3> QED
        BY <3>1, <3>2, <3>3, <3>4 DEF Refilled
    <2>2. CASE ~Fits(dm) /\ CanBegin(dm)
      <3>1. out = Overflow(dm)
        BY <2>2 DEF Said
      <3>2. PICK f : Refilled(dm, Overflow(dm), f, TRUE)
        BY <1>1, OverflowRefills
      <3>3. Touched(dm, Overflow(dm), e, e + 1, p, p)
        BY <1>1, OverflowTouches
      <3>4. Sound(out) /\ (Timely(dm) => Timely(out))
        BY <3>1, <3>2, RefilledSound
      <3> QED
        BY <3>1, <3>2, <3>3, <3>4 DEF Refilled
    <2>3. CASE ~Fits(dm) /\ ~CanBegin(dm)
      <3>1. out = dm
        BY <2>3 DEF Said
      <3>2. dm.spilled
        BY <1>1, <2>3, CurrentRing DEF CanBegin
      <3>3. Touched(dm, dm, e, e + 1, p, p)
        BY <1>1, <3>2, HoldTouches
      <3> QED
        BY <3>1, <3>3 DEF SameDests
    <2> QED
      BY <2>1, <2>2, <2>3
  <1> HIDE DEF out
  <1>3. Ringing(out, e + 1, p)
    BY <1>1, <1>2, TouchedRinging
  <1>4. out.parsecount = p /\ out.lastwritten = dm.lastwritten
    BY <1>2 DEF Touched
  <1> QED
    BY <1>2, <1>3, <1>4 DEF out
-----------------------------------------------------------------------------
(* Writing the oldest frames.                                              *)

LEMMA WholeBounds ==
    ASSUME NEW dm \in Demo, dm.parsecount - dm.lastwritten \in 0 .. Lag + 1,
           NEW num \in Nat
    PROVE  /\ WriteCount(dm, num) \in 0 .. dm.parsecount - dm.lastwritten + 1
           /\ num = dm.parsecount - dm.lastwritten + 1 => WriteCount(dm, num) = num
           /\ Whole(dm, num) \in 0 .. WriteCount(dm, num)
           /\ (\A s \in 0 .. Ring - 1 : ~dm.frames[s].over)
                => Whole(dm, num) = WriteCount(dm, num)
  <1> DEFINE c == WriteCount(dm, num)
             S == {n \in 0 .. c - 1 :
                     \A i \in 0 .. n : ~dm.frames[Slot(dm.lastwritten + i)].over}
  <1>1. dm.parsecount \in Nat /\ dm.lastwritten \in Nat /\ Lag \in Nat
    BY DemoParts, Constants
  <1>2. /\ c \in 0 .. dm.parsecount - dm.lastwritten + 1
        /\ num = dm.parsecount - dm.lastwritten + 1 => c = num
    BY <1>1 DEF WriteCount, Least
  <1>3. Whole(dm, num) = Cardinality(S)
    BY DEF Whole
  <1> HIDE DEF c
  <1>4. IsFiniteSet(0 .. c - 1) /\ Cardinality(0 .. c - 1) = c
    <2>1. c \in Nat /\ 0 \in Int /\ c - 1 \in Int
      BY <1>1, <1>2
    <2>2. /\ IsFiniteSet(0 .. c - 1)
          /\ Cardinality(0 .. c - 1) = IF 0 > c - 1 THEN 0 ELSE c - 1 - 0 + 1
      BY ONLY <2>1, FS_Interval
    <2> QED
      BY ONLY <2>1, <2>2
  <1>5. IsFiniteSet(S) /\ Cardinality(S) <= c /\ Cardinality(S) \in Nat
    BY <1>4, FS_Subset, FS_CardinalityType
  <1>6. ASSUME \A s \in 0 .. Ring - 1 : ~dm.frames[s].over
        PROVE  S = 0 .. c - 1
    <2>1. ASSUME NEW n \in 0 .. c - 1, NEW i \in 0 .. n
          PROVE  ~dm.frames[Slot(dm.lastwritten + i)].over
      <3>1. Slot(dm.lastwritten + i) \in 0 .. Ring - 1
        BY <1>1, SlotInRing
      <3> QED
        BY <1>6, <3>1
    <2> QED
      BY <2>1
  <1> HIDE DEF S
  <1> QED
    BY <1>2, <1>3, <1>4, <1>5, <1>6 DEF c

LEMMA PrevTimeIsTime ==
    ASSUME NEW dm \in Demo, NEW i \in Nat
    PROVE  PrevTime(dm, i) \in Nat
  <1>1. i # 0 => dm.lastwritten + i - 1 \in Nat
    BY DemoParts
  <1>2. i # 0 => dm.frames[Slot(dm.lastwritten + i - 1)].time \in Nat
    BY <1>1, SlotInRing, FrameParts
  <1> QED
    BY <1>2, DemoParts DEF PrevTime

(* out is dm with the first n frames ahead written.                        *)
FedTo(dm, out, n, d) ==
    /\ Kept(out, d) /\ out.wrote[d] \in Seq(Item)
    /\ dm.error[d] => out.error[d]
    /\ \E m \in 0 .. n :
          /\ Fed(dm, dm.wrote[d], out.wrote[d], m)
          /\ dm.error[d] => m = 0
          /\ d \notin dm.dest
                => m = 0 /\ out.error[d] = dm.error[d] /\ out.sent[d] = dm.sent[d]
          /\ ~out.error[d] /\ d \in dm.dest => m = n

Packed(dm, out, n) ==
    /\ out \in Demo /\ Advanced(dm, out, n)
    /\ out.mvdrecording = dm.mvdrecording /\ out.dest = dm.dest
    /\ out.fate = dm.fate /\ out.cached = dm.cached
    /\ \A d \in Dests : FedTo(dm, out, n, d)

LEMMA WritePacketsPacks ==
    ASSUME NEW dm \in Demo, \A d \in Dests : Kept(dm, d),
           dm.parsecount - dm.lastwritten \in 0 .. Lag + 1,
           NEW num \in Nat, NEW bad
    PROVE  /\ Packed(dm, WritePackets(dm, num, bad), Whole(dm, num))
           /\ ~Failed(dm, num) => WritePackets(dm, num, bad).prevtime
                                    = PrevTime(dm, Whole(dm, num))
  <1> DEFINE
        n == Whole(dm, num)
        seen == n + (IF Failed(dm, num) THEN 1 ELSE 0)
        items == [j \in 1 .. n |-> FrameItem(dm, j - 1)]
        mid == DemoWrite(dm, items, Dests, bad)
        last == Least(mid.lastwritten + n, dm.parsecount)
        prev == PrevTime(dm, seen)
        done == {Slot(dm.lastwritten + i) : i \in 0 .. n - 1}
        frames == [s \in 0 .. Ring - 1 |->
                     IF s \in done
                     THEN [mid.frames[s] EXCEPT !.buf = <<>>, !.base = NoUpdate]
                     ELSE mid.frames[s]]
        out == WritePackets(dm, num, bad)
  <1>1. out = [mid EXCEPT !.lastwritten = last, !.prevtime = prev, !.frames = frames]
    BY DEF WritePackets
  <1>2. /\ n \in Nat /\ n <= dm.parsecount - dm.lastwritten + 1 /\ seen \in Nat
        /\ dm.parsecount \in Nat /\ dm.lastwritten \in Nat
        /\ ~Failed(dm, num) => seen = n
    <2>1. /\ dm.parsecount \in Nat /\ dm.lastwritten \in Nat /\ n \in Nat
          /\ n <= dm.parsecount - dm.lastwritten + 1
      <3>1. /\ WriteCount(dm, num) \in 0 .. dm.parsecount - dm.lastwritten + 1
            /\ n \in 0 .. WriteCount(dm, num)
        BY WholeBounds
      <3>2. dm.parsecount \in Nat /\ dm.lastwritten \in Nat
        BY DemoParts
      <3> HIDE DEF n
      <3> QED
        BY ONLY <3>1, <3>2
    <2> HIDE DEF n
    <2> QED
      BY <2>1
  <1> HIDE DEF n, seen, items, mid, last, prev, done, frames, out
  <1>3. items \in Seq(Item) /\ Len(items) = n
        /\ \A j \in 1 .. n : items[j] = FrameItem(dm, j - 1)
    <2>1. ASSUME NEW j \in 1 .. n PROVE FrameItem(dm, j - 1) \in Item
      <3>1. j - 1 \in 0 .. dm.parsecount - dm.lastwritten
        BY <1>2
      <3> QED
        BY <3>1, FrameItemParts
    <2>2. \A j \in 1 .. n : items[j] = FrameItem(dm, j - 1)
      BY DEF items
    <2>3. items \in [1 .. n -> Item]
      BY <2>1 DEF items
    <2> QED
      BY <1>2, <2>2, <2>3
  <1>4. Writes(dm, mid, items, Dests)
    BY <1>3, DemoWriteGives DEF mid
  <1>5. /\ mid \in Demo /\ mid.parsecount = dm.parsecount
        /\ mid.lastwritten = dm.lastwritten /\ mid.frames = dm.frames
        /\ mid.spilled = dm.spilled
        /\ mid.mvdrecording = dm.mvdrecording /\ mid.dest = dm.dest
        /\ mid.fate = dm.fate /\ mid.cached = dm.cached
        /\ \A d \in Dests : GivenTo(dm, mid, items, Dests, d)
    BY <1>4 DEF Writes, SameRing
  <1>6. last \in Nat /\ last = Least(dm.lastwritten + n, dm.parsecount)
    BY <1>2, <1>5 DEF Least, last
  <1>7. prev \in Nat
    BY <1>2, PrevTimeIsTime DEF prev
  <1>8. frames \in [0 .. Ring - 1 -> Frames]
        /\ \A s \in 0 .. Ring - 1 :
              /\ s \in done => frames[s].buf = <<>> /\ frames[s].base = NoUpdate
              /\ s \notin done => /\ frames[s].buf = dm.frames[s].buf
                                  /\ frames[s].base = dm.frames[s].base
              /\ frames[s].time = dm.frames[s].time
              /\ frames[s].over = dm.frames[s].over
    <2>1. ASSUME NEW f \in Frames
          PROVE  LET g == [f EXCEPT !.buf = <<>>, !.base = NoUpdate]
                 IN  /\ g \in Frames /\ g.buf = <<>> /\ g.base = NoUpdate
                     /\ g.time = f.time /\ g.over = f.over
      <3>1. <<>> \in Seq(Nat)
        OBVIOUS
      <3>2. ASSUME NEW b \in Seq(Nat), b = <<>>, NEW g,
                   g = [f EXCEPT !.buf = b, !.base = NoUpdate]
            PROVE  /\ g \in Frames /\ g.buf = b /\ g.base = NoUpdate
                   /\ g.time = f.time /\ g.over = f.over
        BY ONLY f \in Frames, b \in Seq(Nat), <3>2 DEF Frames
      <3> QED
        BY <3>1, <3>2
    <2>2. ASSUME NEW s \in 0 .. Ring - 1
          PROVE  /\ frames[s] \in Frames
                 /\ s \in done => frames[s].buf = <<>> /\ frames[s].base = NoUpdate
                 /\ s \notin done => /\ frames[s].buf = dm.frames[s].buf
                                     /\ frames[s].base = dm.frames[s].base
                 /\ frames[s].time = dm.frames[s].time
                 /\ frames[s].over = dm.frames[s].over
      <3>1. mid.frames[s] = dm.frames[s] /\ dm.frames[s] \in Frames
        BY <1>5, DemoParts
      <3>2. s \in done => frames[s] = [dm.frames[s] EXCEPT !.buf = <<>>, !.base = NoUpdate]
        BY <3>1 DEF frames
      <3>3. s \notin done => frames[s] = dm.frames[s]
        BY <3>1 DEF frames
      <3> QED
        BY <2>1, <3>1, <3>2, <3>3
    <2>3. \A s \in 0 .. Ring - 1 : frames[s] \in Frames
      BY <2>2
    <2>4. frames \in [0 .. Ring - 1 -> Frames]
      BY <2>3 DEF frames
    <2> QED
      BY <2>2, <2>4
  <1>9. done = Done(dm, n)
    BY DEF Done, done
  <1>10. /\ out \in Demo /\ out.parsecount = dm.parsecount /\ out.spilled = dm.spilled
         /\ out.lastwritten = last /\ out.prevtime = prev /\ out.frames = frames
         /\ out.mvdrecording = dm.mvdrecording /\ out.dest = dm.dest
         /\ out.fate = dm.fate /\ out.cached = dm.cached
         /\ out.wrote = mid.wrote /\ out.sent = mid.sent /\ out.error = mid.error
    <2>1. /\ out \in Demo /\ out.parsecount = mid.parsecount
          /\ out.spilled = mid.spilled
          /\ out.lastwritten = last /\ out.prevtime = prev /\ out.frames = frames
          /\ out.mvdrecording = mid.mvdrecording /\ out.dest = mid.dest
          /\ out.fate = mid.fate /\ out.cached = mid.cached
          /\ out.wrote = mid.wrote /\ out.sent = mid.sent /\ out.error = mid.error
      <3>1. mid \in Demo /\ last \in Nat /\ frames \in [0 .. Ring - 1 -> Frames]
        BY <1>5, <1>6, <1>8
      <3> QED
        BY ONLY <1>1, <1>7, <3>1 DEF Demo
    <2> QED
      BY <1>5, <2>1
  <1>11. Advanced(dm, out, n)
    BY <1>6, <1>8, <1>9, <1>10 DEF Advanced
  <1>12. ASSUME NEW d \in Dests PROVE FedTo(dm, out, n, d)
    <2>1. GivenTo(dm, mid, items, Dests, d)
      BY <1>5
    <2>2. Kept(out, d)
      <3>1. Kept(mid, d)
        BY <2>1 DEF GivenTo
      <3>2. Buffered(out, d) = Buffered(mid, d) /\ CacheUsed(out, d) = CacheUsed(mid, d)
        BY <1>5, <1>10 DEF Buffered, CacheUsed
      <3> QED
        BY <1>5, <1>10, <3>1, <3>2 DEF Kept
    <2>3. dm.error[d] => out.error[d]
      BY <1>10, <2>1 DEF GivenTo
    <2>4. PICK m \in 0 .. n :
            /\ Grown(dm.wrote[d], out.wrote[d], items, m)
            /\ dm.error[d] => m = 0
            /\ d \notin dm.dest
                 => m = 0 /\ out.error[d] = dm.error[d] /\ out.sent[d] = dm.sent[d]
            /\ ~out.error[d] /\ d \in dm.dest => m = n
      BY <1>3, <1>10, <2>1 DEF GivenTo
    <2>5. Fed(dm, dm.wrote[d], out.wrote[d], m)
      <3>1. \A j \in 1 .. m : items[j] = FrameItem(dm, j - 1)
        BY <1>2, <1>3
      <3> QED
        BY <2>4, <3>1 DEF Grown, Fed
    <2>6. out.wrote[d] \in Seq(Item)
      BY <1>10, DemoParts
    <2> QED
      BY <2>2, <2>3, <2>4, <2>5, <2>6 DEF FedTo
  <1>13. Packed(dm, out, n)
    BY <1>10, <1>11, <1>12 DEF Packed
  <1>14. ~Failed(dm, num) => out.prevtime = PrevTime(dm, n)
    BY <1>2, <1>10 DEF prev
  <1> QED
    BY <1>13, <1>14 DEF out, n

LEMMA PackedSound ==
    ASSUME NEW dm, Sound(dm), NEW e \in Nat,
           NEW top \in {dm.parsecount, dm.parsecount + 1},
           Ringing(dm, e, top), Timely(dm), dm.mvdrecording,
           NEW n \in 0 .. dm.parsecount - dm.lastwritten + 1,
           NEW out, Packed(dm, out, n)
    PROVE  Sound(out)
  <1>1. /\ dm \in Demo /\ dm.parsecount - dm.lastwritten \in 0 .. Lag + 1
        /\ \A d \in Dests : Kept(dm, d) /\ Written(dm.wrote[d], d)
        /\ RingInv(dm, e, top)
    BY DEF Sound, Ringing
  <1>2. /\ out \in Demo /\ out.mvdrecording = dm.mvdrecording /\ out.dest = dm.dest
        /\ \A d \in Dests : FedTo(dm, out, n, d)
        /\ Advanced(dm, out, n)
    BY DEF Packed
  <1>3. out.parsecount - out.lastwritten \in 0 .. Lag + 1
    BY <1>1, <1>2, AdvancedFrames
  <1>4. ASSUME NEW d \in Dests PROVE Written(out.wrote[d], d)
    <2>1. PICK m \in 0 .. n :
            /\ Fed(dm, dm.wrote[d], out.wrote[d], m)
            /\ dm.error[d] => m = 0
            /\ d \notin dm.dest => m = 0
      BY <1>2 DEF FedTo
    <2>2. CASE m = 0
      <3>1. out.wrote[d] = dm.wrote[d]
        BY <2>1, <2>2 DEF Fed
      <3> QED
        BY <1>1, <3>1
    <2>3. CASE m # 0
      <3>1. d \in dm.dest /\ ~dm.error[d]
        BY <2>1, <2>3
      <3>2. Follows(dm, dm.wrote[d], e) /\ LastUpdate(dm, dm.wrote[d])
        BY <3>1 DEF Ringing
      <3>3. d \in Files => LastMark(dm, dm.wrote[d])
        BY <3>1 DEF Timely
      <3>4. /\ dm.wrote[d] \in Seq(Item) /\ out.wrote[d] \in Seq(Item)
            /\ m \in 0 .. dm.parsecount - dm.lastwritten + 1
        BY <1>1, <1>2, DemoParts DEF FedTo
      <3>5. Written(dm.wrote[d], d)
        BY <1>1
      <3> HIDE DEF Ringing
      <3> QED
        BY <1>1, <2>1, <3>2, <3>3, <3>4, <3>5, FedWritten
    <2> QED
      BY <2>2, <2>3
  <1>5. \A d \in Dests : Kept(out, d)
    BY <1>2 DEF FedTo
  <1>6. out.mvdrecording <=> out.dest # {}
    BY <1>2 DEF Sound
  <1> QED
    BY <1>2, <1>3, <1>4, <1>5, <1>6 DEF Sound

LEMMA PackedRinging ==
    ASSUME NEW dm, Sound(dm), NEW e \in Nat,
           NEW top \in {dm.parsecount, dm.parsecount + 1},
           Ringing(dm, e, top), dm.mvdrecording,
           NEW n \in 0 .. dm.parsecount - dm.lastwritten + 1,
           dm.parsecount = dm.lastwritten + n - 1 => top = dm.parsecount,
           NEW out, Packed(dm, out, n)
    PROVE  Ringing(out, e, top)
  <1>1. /\ dm \in Demo /\ dm.parsecount - dm.lastwritten \in 0 .. Lag + 1
        /\ RingInv(dm, e, top)
    BY DEF Sound, Ringing
  <1>2. /\ out.dest = dm.dest /\ Advanced(dm, out, n)
        /\ \A d \in Dests : FedTo(dm, out, n, d)
    BY DEF Packed
  <1>3. RingInv(out, e, top)
    BY <1>1, <1>2, RingAdvances
  <1>4. ASSUME NEW d \in out.dest, ~out.error[d]
        PROVE  Follows(out, out.wrote[d], e) /\ LastUpdate(out, out.wrote[d])
    <2>1. d \in dm.dest /\ d \in Dests
      BY <1>1, <1>2, DemoParts
    <2>2. Fed(dm, dm.wrote[d], out.wrote[d], n) /\ out.wrote[d] \in Seq(Item)
          /\ ~dm.error[d]
      BY <1>2, <1>4, <2>1 DEF FedTo
    <2>3. /\ Follows(dm, dm.wrote[d], e) /\ LastUpdate(dm, dm.wrote[d])
          /\ dm.wrote[d] \in Seq(Item)
      BY <1>1, <2>1, <2>2, DemoParts DEF Ringing
    <2>4. Sorted(dm, e) /\ Updated(dm, top)
      BY <1>1 DEF RingInv
    <2>5. Follows(out, out.wrote[d], e)
      BY <1>1, <1>2, <2>2, <2>3, <2>4, FedFollows
    <2>6. LastUpdate(out, out.wrote[d])
      BY <1>1, <1>2, <2>2, <2>3, <2>4, FedLastUpdate
    <2> QED
      BY <2>5, <2>6
  <1> QED
    BY <1>3, <1>4 DEF Ringing

(* One frame that has its update is written.                               *)
LEMMA PackedTimely ==
    ASSUME NEW dm, Sound(dm), NEW e, NEW top \in {dm.parsecount, dm.parsecount + 1},
           RingInv(dm, e, top), dm.lastwritten < top,
           NEW out, Packed(dm, out, 1), out.prevtime = PrevTime(dm, 1)
    PROVE  Timely(out)
  <1> SUFFICES ASSUME NEW f \in Files \cap out.dest, ~out.error[f]
               PROVE  LastMark(out, out.wrote[f])
    BY DEF Timely
  <1>1. /\ dm \in Demo /\ dm.parsecount - dm.lastwritten \in 0 .. Lag + 1
        /\ Updated(dm, top) /\ dm.lastwritten \in Nat /\ dm.parsecount \in Nat
    BY DemoParts DEF Sound, RingInv
  <1> DEFINE w == dm.wrote[f]
             w2 == out.wrote[f]
             l == dm.lastwritten
  <1>2. /\ Fed(dm, w, w2, 1) /\ w \in Seq(Item) /\ w2 \in Seq(Item)
    <2>1. f \in Dests /\ f \in dm.dest /\ FedTo(dm, out, 1, f)
      BY DEF Packed, Dests
    <2> QED
      BY <1>1, <2>1, DemoParts DEF FedTo
  <1>3. Len(w2) = Len(w) + 1 /\ Len(w) \in Nat
    BY <1>2 DEF Fed
  <1> HIDE DEF w, w2
  <1>4. IsFrame(dm, w2[Len(w2)], l) /\ l \in Ahead(dm)
    <2>1. /\ Len(w2) \in Nat /\ Len(w2) > Len(w) /\ Len(w2) <= Len(w2)
          /\ 1 \in 0 .. dm.parsecount - dm.lastwritten + 1
          /\ dm.lastwritten + (Len(w2) - Len(w) - 1) = l
      BY <1>1, <1>3
    <2>2. /\ IsFrame(dm, w2[Len(w2)], dm.lastwritten + (Len(w2) - Len(w) - 1))
          /\ dm.lastwritten + (Len(w2) - Len(w) - 1) \in Ahead(dm)
      BY <1>1, <1>2, <2>1, FedItem
    <2> QED
      BY <2>1, <2>2
  <1>5. IsUpdate(w2[Len(w2)])
    BY <1>1, <1>4, AheadUpdated
  <1>6. w2[Len(w2)].time = out.prevtime
    <2>1. w2[Len(w2)].time = dm.frames[Slot(l)].time
      BY <1>4 DEF IsFrame
    <2>2. PrevTime(dm, 1) = dm.frames[Slot(l + 1 - 1)].time
      BY DEF PrevTime
    <2>3. l + 1 - 1 = l
      BY <1>1
    <2> QED
      BY <2>1, <2>2, <2>3
  <1> QED
    BY <1>5, <1>6 DEF LastMark, w2

(* All frames are written: nothing is left in the ring.                    *)
LEMMA PackedAll ==
    ASSUME NEW dm, Sound(dm), NEW out,
           Packed(dm, out, dm.parsecount - dm.lastwritten + 1)
    PROVE  Pending(out) = {}
  <1>1. /\ dm \in Demo /\ dm.parsecount - dm.lastwritten \in 0 .. Lag + 1
        /\ dm.lastwritten \in Nat /\ dm.parsecount \in Nat
        /\ dm.parsecount - dm.lastwritten + 1
             \in 0 .. dm.parsecount - dm.lastwritten + 1
    BY DemoParts DEF Sound
  <1>2. ASSUME NEW k \in Ahead(out) PROVE out.frames[Slot(k)].buf = <<>>
    <2>1. Advanced(dm, out, dm.parsecount - dm.lastwritten + 1)
      BY DEF Packed
    <2>2. \/ /\ k >= dm.lastwritten + (dm.parsecount - dm.lastwritten + 1)
             /\ k \in Ahead(dm)
          \/ out.frames[Slot(k)].buf = <<>>
      BY <1>1, <2>1, AdvancedFrames
    <2> QED
      BY <1>1, <2>2 DEF Ahead
  <1>3. \A k \in Ahead(out) : Buf(out, k) = {}
    BY <1>2 DEF Buf, Range
  <1> QED
    BY <1>3 DEF Pending
-----------------------------------------------------------------------------
(* Starting a destination.                                                 *)

StateOf(at) == [kind |-> "state", at |-> at]

LEMMA StateIsItem ==
    ASSUME NEW at \in Nat
    PROVE  /\ StateOf(at) \in Item /\ <<StateOf(at)>> \in Seq(Item)
           /\ StateOf(at).kind = "state" /\ StateOf(at).at = at
           /\ EventsOf(StateOf(at)) = {}
           /\ Len(<<StateOf(at)>>) = 1 /\ <<StateOf(at)>>[1] = StateOf(at)
           /\ ~IsUpdate(StateOf(at)) /\ ~Quiet(StateOf(at))
  BY DEF StateOf, Item, EventsOf, IsUpdate, Quiet

(* w2 is w with a game state after it.                                     *)
Stated(w, w2, at) ==
    /\ Len(w2) = Len(w) + 1 /\ w2[Len(w) + 1] = StateOf(at)
    /\ \A i \in 1 .. Len(w) : w2[i] = w[i]

LEMMA StatedParts ==
    ASSUME NEW w \in Seq(Item), NEW w2 \in Seq(Item), NEW at \in Nat,
           Stated(w, w2, at)
    PROVE  /\ DOMAIN w = 1 .. Len(w) /\ DOMAIN w2 = 1 .. Len(w) + 1
           /\ Len(w) \in Nat
           /\ \A i \in DOMAIN w : i \in DOMAIN w2 /\ w2[i] = w[i]
           /\ \A i \in DOMAIN w2 : i \in DOMAIN w \/ i = Len(w) + 1
           /\ w2[Len(w) + 1] = StateOf(at) /\ w2 # <<>>
           /\ Given(w2) = Given(w)
  <1>1. /\ DOMAIN w = 1 .. Len(w) /\ DOMAIN w2 = 1 .. Len(w) + 1
        /\ Len(w) \in Nat /\ w2 # <<>> /\ w2[Len(w) + 1] = StateOf(at)
    BY DEF Stated
  <1>2. /\ \A i \in DOMAIN w : i \in DOMAIN w2 /\ w2[i] = w[i]
        /\ \A i \in DOMAIN w2 : i \in DOMAIN w \/ i = Len(w) + 1
    BY <1>1 DEF Stated
  <1>3. EventsOf(w2[Len(w) + 1]) = {}
    BY <1>1, StateIsItem
  <1>4. Given(w2) = Given(w)
    BY <1>2, <1>3 DEF Given
  <1> QED
    BY <1>1, <1>2, <1>4

LEMMA StatedWritten ==
    ASSUME NEW w \in Seq(Item), NEW w2 \in Seq(Item), NEW at \in Nat,
           Stated(w, w2, at), NEW d, Written(w, d)
    PROVE  Written(w2, d)
  <1>1. /\ DOMAIN w = 1 .. Len(w) /\ DOMAIN w2 = 1 .. Len(w) + 1
        /\ Len(w) \in Nat
        /\ \A i \in DOMAIN w : i \in DOMAIN w2 /\ w2[i] = w[i]
        /\ \A i \in DOMAIN w2 : i \in DOMAIN w \/ i = Len(w) + 1
        /\ w2[Len(w) + 1] = StateOf(at)
    BY StatedParts
  <1>2. /\ w2[Len(w) + 1].kind = "state" /\ EventsOf(w2[Len(w) + 1]) = {}
        /\ ~IsUpdate(w2[Len(w) + 1])
    BY <1>1, StateIsItem
  <1>3. InOrder(w2)
    <2>1. ASSUME NEW i \in DOMAIN w2, w2[i].kind = "frame"
          PROVE  Increasing(w2[i].evs)
      <3>1. i \in DOMAIN w
        BY <1>1, <1>2, <2>1
      <3> QED
        BY <1>1, <2>1, <3>1 DEF InOrder, Written
    <2>2. ASSUME NEW i \in DOMAIN w2, NEW j \in DOMAIN w2, i < j
          PROVE  Before(EventsOf(w2[i]), EventsOf(w2[j]))
      <3>1. CASE j = Len(w) + 1
        BY <1>2, <3>1 DEF Before
      <3>2. CASE j # Len(w) + 1
        <4>1. i \in DOMAIN w /\ j \in DOMAIN w
          BY <1>1, <2>2, <3>2
        <4> QED
          BY <1>1, <2>2, <4>1 DEF InOrder, Written
      <3> QED
        BY <3>1, <3>2
    <2> QED
      BY <2>1, <2>2 DEF InOrder
  <1>4. ASSUME NEW i \in DOMAIN w2, NEW j \in DOMAIN w2, Neighbours(w2, i, j)
        PROVE  /\ i \in DOMAIN w /\ j \in DOMAIN w /\ Neighbours(w, i, j)
               /\ w2[i] = w[i] /\ w2[j] = w[j]
    <2>1. i < j /\ IsUpdate(w2[i]) /\ IsUpdate(w2[j])
          /\ \A k \in i + 1 .. j - 1 : Quiet(w2[k])
      BY <1>4 DEF Neighbours
    <2>2. i \in DOMAIN w /\ j \in DOMAIN w
      BY <1>1, <1>2, <2>1
    <2>3. \A k \in i + 1 .. j - 1 : w2[k] = w[k]
      BY <1>1, <2>2
    <2> QED
      BY <1>1, <2>1, <2>2, <2>3 DEF Neighbours
  <1>5. Chained(w2)
    BY <1>4 DEF Chained, Written
  <1>6. d \in Files => Marked(w2)
    BY <1>4 DEF Marked, Written
  <1> QED
    BY <1>3, <1>5, <1>6 DEF Written

(* After a game state no update and no mark binds the next.                *)
LEMMA StatedLast ==
    ASSUME NEW w \in Seq(Item), NEW w2 \in Seq(Item), NEW at \in Nat,
           Stated(w, w2, at), NEW dm
    PROVE  LastUpdate(dm, w2) /\ LastMark(dm, w2)
  <1>1. /\ DOMAIN w2 = 1 .. Len(w) + 1 /\ Len(w) \in Nat
        /\ w2[Len(w) + 1] = StateOf(at) /\ Len(w2) = Len(w) + 1
    BY StatedParts DEF Stated
  <1>2. /\ w2[Len(w2)].kind = "state" /\ ~IsUpdate(w2[Len(w2)])
        /\ ~Quiet(w2[Len(w2)])
    BY <1>1, StateIsItem
  <1>3. ASSUME NEW i \in DOMAIN w2, IsUpdate(w2[i]),
               \A k \in i + 1 .. Len(w2) : Quiet(w2[k])
        PROVE  FALSE
    <2>1. i # Len(w2)
      BY <1>2, <1>3
    <2>2. Len(w2) \in i + 1 .. Len(w2)
      BY <1>1, <2>1
    <2> QED
      BY <1>2, <1>3, <2>2
  <1> QED
    BY <1>2, <1>3 DEF LastUpdate, LastMark

(* A destination that was nothing told yet, and one that follows.          *)
LEMMA StatedNew ==
    ASSUME NEW w \in Seq(Item), w = <<>>, NEW w2 \in Seq(Item), NEW e \in Nat,
           Stated(w, w2, e), NEW dm, NEW top, RingInv(dm, e, top)
    PROVE  Follows(dm, w2, e)
  <1>1. Sorted(dm, e) /\ Unspilled(dm, e)
    BY DEF RingInv
  <1>2. Len(w) = 0 /\ Given(w) = {}
    BY DEF Given
  <1>3. /\ w2 # <<>> /\ Given(w2) = {} /\ w2[1] = StateOf(e)
    <2>1. w2 # <<>> /\ Given(w2) = Given(w) /\ w2[Len(w) + 1] = StateOf(e)
      BY StatedParts
    <2>2. Len(w) + 1 = 1
      BY <1>2
    <2> QED
      BY <1>2, <2>1, <2>2
  <1>4. w2[1].kind = "state" /\ w2[1].at = e
    BY <1>3, StateIsItem
  <1>5. ASSUME ~dm.spilled PROVE Covers({} \cup Pending(dm), e, e)
    <2>1. NoGap(Pending(dm), e) /\ Pending(dm) \subseteq 1 .. e
      BY <1>1, <1>5 DEF Unspilled, Pending, Sorted
    <2>2. e <= e /\ e + 1 .. e = {}
      OBVIOUS
    <2> QED
      BY <2>1, <2>2 DEF Covers, NoGap
  <1>6. \A k \in Ahead(dm) : Before(Given(w2), Buf(dm, k))
    BY <1>3 DEF Before
  <1>7. e <= e
    OBVIOUS
  <1> QED
    BY <1>3, <1>4, <1>5, <1>6, <1>7 DEF Follows

LEMMA StatedFollows ==
    ASSUME NEW w \in Seq(Item), NEW w2 \in Seq(Item), NEW at \in Nat,
           Stated(w, w2, at), NEW dm, NEW e, Follows(dm, w, e)
    PROVE  Follows(dm, w2, e)
  <1>1. Given(w2) = Given(w) /\ w2 # <<>>
    BY StatedParts
  <1>2. w2[1] = w[1]
    <2>1. Len(w) \in Nat /\ w # <<>> /\ Len(w) # 0
      BY DEF Follows
    <2> QED
      BY <2>1 DEF Stated
  <1> QED
    BY <1>1, <1>2 DEF Follows

(* A ring with nothing in it.                                              *)
Empty(dm) ==
    /\ dm.parsecount = 0 /\ dm.lastwritten = 0
    /\ \A s \in 0 .. Ring - 1 :
          /\ dm.frames[s].buf = <<>> /\ dm.frames[s].base = NoUpdate
          /\ ~dm.frames[s].over

(* demo_t is cleared.                                                      *)
LEMMA ClearedParts ==
    ASSUME NEW dm \in Demo
    PROVE  LET out == Cleared(dm)
           IN  /\ out \in Demo /\ SameDests(dm, out) /\ out.spilled = dm.spilled
               /\ Empty(out)
  <1> DEFINE fs == [i \in 0 .. Ring - 1 |-> EmptyFrame]
             out == Cleared(dm)
  <1>1. EmptyFrame \in Frames
    <2>1. <<>> \in Seq(Nat)
      OBVIOUS
    <2> QED
      BY <2>1 DEF EmptyFrame, Frames
  <1>2. fs \in [0 .. Ring - 1 -> Frames]
    BY <1>1
  <1>3. out = [dm EXCEPT !.parsecount = 0, !.lastwritten = 0, !.prevtime = 0,
                         !.frames = fs]
    BY DEF Cleared
  <1>4. \A s \in 0 .. Ring - 1 :
           /\ fs[s].buf = <<>> /\ fs[s].base = NoUpdate /\ ~fs[s].over
    BY DEF EmptyFrame
  <1> HIDE DEF fs, out
  <1>5. /\ out \in Demo /\ SameDests(dm, out) /\ out.spilled = dm.spilled
        /\ out.parsecount = 0 /\ out.lastwritten = 0 /\ out.frames = fs
    BY ONLY dm \in Demo, <1>2, <1>3 DEF Demo, SameDests
  <1> QED
    BY <1>4, <1>5 DEF out, Empty

LEMMA EmptyRing ==
    ASSUME NEW dm, Empty(dm), NEW e \in Nat
    PROVE  /\ RingInv(dm, e, 0) /\ Pending(dm) = {}
           /\ \A k \in Ahead(dm) : Buf(dm, k) = {}
  <1>1. Ahead(dm) = {0} /\ Slot(0) \in 0 .. Ring - 1
    BY SlotInRing DEF Ahead, Empty
  <1>2. dm.frames[Slot(0)].buf = <<>> /\ dm.frames[Slot(0)].base = NoUpdate
    BY <1>1 DEF Empty
  <1>3. Buf(dm, 0) = {}
    BY <1>2 DEF Buf, Range
  <1>4. Pending(dm) = {} /\ \A k \in Ahead(dm) : Buf(dm, k) = {}
    BY <1>1, <1>3 DEF Pending
  <1>5. Sorted(dm, e)
    <2>1. Increasing(<<>>)
      BY DEF Increasing
    <2>2. \A k \in Ahead(dm) : k = 0
      BY <1>1
    <2> QED
      BY <1>2, <1>3, <2>1, <2>2 DEF Sorted, Before
  <1>6. Updated(dm, 0)
    <2>1. dm.lastwritten .. 0 - 1 = {}
      BY DEF Empty
    <2> QED
      BY <1>2, <2>1 DEF Updated
  <1>7. Reset(dm)
    BY DEF Reset, Empty
  <1>8. Unspilled(dm, e)
    BY <1>4 DEF Unspilled, NoGap, Empty
  <1> QED
    BY <1>4, <1>5, <1>6, <1>7, <1>8 DEF RingInv

(* out is dm after a game state was sent to the destinations of to.        *)
StatedTo(dm, out, at, to, d) ==
    /\ Kept(out, d) /\ out.wrote[d] \in Seq(Item)
    /\ dm.error[d] => out.error[d]
    /\ out.wrote[d] # dm.wrote[d] => Stated(dm.wrote[d], out.wrote[d], at)
    /\ d \notin to \cap dm.dest =>
          /\ out.wrote[d] = dm.wrote[d] /\ out.error[d] = dm.error[d]
          /\ out.sent[d] = dm.sent[d]
    /\ ~out.error[d] /\ d \in to \cap dm.dest
          => Stated(dm.wrote[d], out.wrote[d], at)

LEMMA GameStateGives ==
    ASSUME NEW dm \in Demo, \A d \in Dests : Kept(dm, d), events \in Nat,
           NEW to, NEW bad
    PROVE  LET out == GameState(dm, to, bad)
           IN  /\ out \in Demo /\ SameRing(dm, out)
               /\ out.mvdrecording = dm.mvdrecording /\ out.dest = dm.dest
               /\ out.fate = dm.fate /\ out.cached = dm.cached
               /\ \A d \in Dests : StatedTo(dm, out, events, to, d)
  <1> DEFINE items == <<StateOf(events)>>
             out == GameState(dm, to, bad)
  <1>1. items \in Seq(Item) /\ Len(items) = 1 /\ items[1] = StateOf(events)
    BY StateIsItem
  <1>2. out = DemoWrite(dm, items, to, bad)
    BY DEF GameState, StateOf
  <1> HIDE DEF items, out
  <1>3. Writes(dm, out, items, to)
    BY <1>1, <1>2, DemoWriteGives
  <1>4. out \in Demo
    BY <1>3 DEF Writes
  <1>5. ASSUME NEW d \in Dests PROVE StatedTo(dm, out, events, to, d)
    <2>1. GivenTo(dm, out, items, to, d)
      BY <1>3 DEF Writes
    <2>2. PICK m \in 0 .. 1 :
            /\ Grown(dm.wrote[d], out.wrote[d], items, m)
            /\ d \notin to \cap dm.dest
                 => m = 0 /\ out.error[d] = dm.error[d] /\ out.sent[d] = dm.sent[d]
            /\ ~out.error[d] /\ d \in to \cap dm.dest => m = 1
      BY <1>1, <2>1 DEF GivenTo
    <2>3. m = 0 => out.wrote[d] = dm.wrote[d]
      BY <2>2 DEF Grown
    <2>4. m = 1 => Stated(dm.wrote[d], out.wrote[d], events)
      BY <1>1, <2>2 DEF Grown, Stated
    <2>5. out.wrote[d] \in Seq(Item) /\ (m = 0 \/ m = 1)
      BY <1>4, DemoParts
    <2> QED
      BY <2>1, <2>2, <2>3, <2>4, <2>5 DEF StatedTo, GivenTo
  <1> QED
    BY <1>3, <1>5 DEF Writes, out

LEMMA GameStateSound ==
    ASSUME NEW dm, Sound(dm), events \in Nat, NEW to, NEW bad
    PROVE  Sound(GameState(dm, to, bad))
  <1> DEFINE out == GameState(dm, to, bad)
  <1>1. dm \in Demo /\ \A d \in Dests : Kept(dm, d)
    BY DEF Sound
  <1>2. /\ out \in Demo /\ SameRing(dm, out)
        /\ out.mvdrecording = dm.mvdrecording /\ out.dest = dm.dest
        /\ \A d \in Dests : StatedTo(dm, out, events, to, d)
    BY <1>1, GameStateGives
  <1> HIDE DEF out
  <1>3. ASSUME NEW d \in Dests PROVE Kept(out, d) /\ Written(out.wrote[d], d)
    <2>1. StatedTo(dm, out, events, to, d)
      BY <1>2
    <2>2. Written(dm.wrote[d], d) /\ dm.wrote[d] \in Seq(Item)
      BY <1>1, DemoParts DEF Sound
    <2>3. out.wrote[d] = dm.wrote[d] \/ Stated(dm.wrote[d], out.wrote[d], events)
      BY <2>1 DEF StatedTo
    <2>4. Stated(dm.wrote[d], out.wrote[d], events) => Written(out.wrote[d], d)
      BY <2>1, <2>2, StatedWritten DEF StatedTo
    <2> QED
      BY <2>1, <2>2, <2>3, <2>4 DEF StatedTo
  <1> QED
    BY <1>2, <1>3 DEF Sound, SameRing, out

(* A new destination of dm (a recording, or none and its ring cleared).    *)
Joined(dm, d) ==
    [dm EXCEPT !.dest = @ \cup {d}, !.mvdrecording = TRUE, !.fate[d] = "open"]

LEMMA JoinedParts ==
    ASSUME NEW dm, Sound(dm), NEW d \in Dests, dm.fate[d] = "new"
    PROVE  LET out == Joined(dm, d)
           IN  /\ Sound(out) /\ SameRing(dm, out)
               /\ out.dest = dm.dest \cup {d} /\ out.mvdrecording
               /\ out.wrote = dm.wrote /\ out.sent = dm.sent
               /\ out.error = dm.error /\ out.cached = dm.cached
               /\ \A x \in Dests : x # d => out.fate[x] = dm.fate[x]
               /\ out.fate[d] = "open"
  <1> DEFINE fate == [dm.fate EXCEPT ![d] = "open"]
             dest == dm.dest \cup {d}
             out == Joined(dm, d)
  <1>1. /\ dm \in Demo /\ dm.dest \subseteq Dests /\ dm.fate \in [Dests -> Fates]
        /\ \A x \in Dests : Kept(dm, x) /\ Written(dm.wrote[x], x)
    BY DemoParts DEF Sound
  <1>2. /\ fate \in [Dests -> Fates] /\ fate[d] = "open"
        /\ \A x \in Dests : x # d => fate[x] = dm.fate[x]
        /\ dest \in SUBSET Dests
    BY <1>1 DEF Fates
  <1>3. out = [dm EXCEPT !.dest = dest, !.mvdrecording = TRUE, !.fate = fate]
    BY <1>1 DEF Joined, Demo
  <1> HIDE DEF fate, out
  <1>4. /\ out \in Demo /\ SameRing(dm, out) /\ out.dest = dest /\ out.mvdrecording
        /\ out.wrote = dm.wrote /\ out.sent = dm.sent /\ out.fate = fate
        /\ out.error = dm.error /\ out.cached = dm.cached
    <2> HIDE DEF dest
    <2> QED
      BY ONLY <1>1, <1>2, <1>3 DEF Demo, SameRing
  <1>5. ASSUME NEW x \in Dests PROVE Kept(out, x)
    <2>1. Kept(dm, x)
      BY <1>1
    <2>2. Buffered(out, x) = Buffered(dm, x) /\ CacheUsed(out, x) = CacheUsed(dm, x)
      BY <1>4 DEF Buffered, CacheUsed
    <2>3. fate[x] = "open" <=> x \in dest
      BY <1>2, <2>1 DEF Kept
    <2>4. fate[x] = "new" => dm.fate[x] = "new"
      BY <1>2
    <2> HIDE DEF dest
    <2> QED
      BY <1>4, <2>1, <2>2, <2>3, <2>4 DEF Kept
  <1>6. Sound(out)
    BY <1>1, <1>4, <1>5 DEF Sound, SameRing
  <1> QED
    BY <1>2, <1>4, <1>6 DEF out

LEMMA ClearedSound ==
    ASSUME NEW dm, Sound(dm)
    PROVE  /\ Sound(Cleared(dm)) /\ Empty(Cleared(dm))
           /\ SameDests(dm, Cleared(dm)) /\ Cleared(dm).spilled = dm.spilled
  <1> DEFINE out == Cleared(dm)
  <1>1. /\ out \in Demo /\ SameDests(dm, out) /\ out.spilled = dm.spilled
        /\ Empty(out)
    BY ClearedParts DEF Sound
  <1> HIDE DEF out
  <1>2. \A d \in Dests : Kept(out, d)
    BY <1>1, SameKept DEF Sound
  <1>3. out.parsecount - out.lastwritten \in 0 .. Lag + 1
    BY <1>1, Constants DEF Empty
  <1>4. Sound(out)
    BY <1>1, <1>2, <1>3 DEF Sound, SameDests
  <1> QED
    BY <1>1, <1>4 DEF out

LEMMA RecordDestKeeps ==
    ASSUME NEW dm, Sound(dm), events \in Nat,
           Ringing(dm, events, dm.parsecount), Timely(dm), NEW bs, Closed(dm, bs),
           NEW d \in Dests, dm.fate[d] = "new", NEW bad
    PROVE  LET out == RecordDest(dm, d, bad)
           IN  /\ Sound(out) /\ Ringing(out, events, out.parsecount)
               /\ Timely(out) /\ Closed(out, bs)
  <1> DEFINE base == IF dm.mvdrecording THEN dm ELSE Cleared(dm)
             mid == Joined(base, d)
             out == RecordDest(dm, d, bad)
  <1>1. out = GameState(mid, {d}, bad)
    BY DEF RecordDest, Joined
  <1>2. /\ Sound(base) /\ SameDests(dm, base) /\ base.spilled = dm.spilled
        /\ RingInv(base, events, base.parsecount)
        /\ dm.mvdrecording => base = dm
    <2>1. CASE dm.mvdrecording
      BY <2>1 DEF Ringing, SameDests
    <2>2. CASE ~dm.mvdrecording
      <3>1. Sound(base) /\ SameDests(dm, base) /\ base.spilled = dm.spilled /\ Empty(base)
        BY <2>2, ClearedSound
      <3>2. base.parsecount = 0 /\ RingInv(base, events, 0)
        BY <3>1, EmptyRing DEF Empty
      <3> QED
        BY <2>2, <3>1, <3>2
    <2> QED
      BY <2>1, <2>2
  <1> HIDE DEF base
  <1>3. /\ Sound(mid) /\ SameRing(base, mid)
        /\ mid.dest = dm.dest \cup {d} /\ mid.mvdrecording
        /\ mid.wrote = dm.wrote /\ mid.sent = dm.sent
        /\ mid.error = dm.error
        /\ \A x \in Dests : x # d => mid.fate[x] = dm.fate[x]
        /\ mid.fate[d] = "open"
    BY <1>2, JoinedParts DEF SameDests
  <1> HIDE DEF mid
  <1>4. mid \in Demo /\ \A x \in Dests : Kept(mid, x)
    BY <1>3 DEF Sound
  <1>5. /\ out \in Demo /\ SameRing(mid, out)
        /\ out.mvdrecording = mid.mvdrecording /\ out.dest = mid.dest
        /\ out.fate = mid.fate
        /\ \A x \in Dests : StatedTo(mid, out, events, {d}, x)
    BY <1>1, <1>4, GameStateGives
  <1>6. Sound(out)
    BY <1>1, <1>3, GameStateSound
  <1> HIDE DEF out
  <1>7. RingInv(mid, events, base.parsecount) /\ RingInv(out, events, out.parsecount)
    <2>1. RingInv(mid, events, base.parsecount)
      BY <1>2, <1>3, SameViews
    <2>2. RingInv(out, events, base.parsecount)
      BY <1>5, <2>1, SameViews
    <2>3. out.parsecount = base.parsecount
      BY <1>3, <1>5 DEF SameRing
    <2> QED
      BY <2>1, <2>2, <2>3
  <1>8. ASSUME NEW x \in dm.dest, x # d
        PROVE  /\ SameRing(dm, out) /\ x \in Dests /\ dm.mvdrecording
               /\ out.wrote[x] = dm.wrote[x] /\ out.error[x] = dm.error[x]
    <2>1. x \in Dests /\ dm.mvdrecording
      BY DemoParts DEF Sound
    <2>2. SameRing(dm, out)
      BY <1>2, <1>3, <1>5, <2>1 DEF SameRing
    <2>3. StatedTo(mid, out, events, {d}, x)
      BY <1>5, <2>1
    <2> QED
      BY <1>3, <1>8, <2>1, <2>2, <2>3 DEF StatedTo
  <1>9. ASSUME ~out.error[d]
        PROVE  /\ Follows(out, out.wrote[d], events)
               /\ LastUpdate(out, out.wrote[d]) /\ LastMark(out, out.wrote[d])
    <2>1. StatedTo(mid, out, events, {d}, d)
      BY <1>5
    <2>2. /\ Stated(dm.wrote[d], out.wrote[d], events)
          /\ out.wrote[d] \in Seq(Item) /\ dm.wrote[d] \in Seq(Item)
      BY <1>3, <1>9, <2>1, DemoParts DEF StatedTo, Sound
    <2>3. dm.wrote[d] = <<>>
      BY DEF Sound, Kept
    <2>4. Follows(out, out.wrote[d], events)
      BY <1>7, <2>2, <2>3, StatedNew
    <2>5. LastUpdate(out, out.wrote[d]) /\ LastMark(out, out.wrote[d])
      BY <2>2, StatedLast
    <2> QED
      BY <2>4, <2>5
  <1>10. ASSUME NEW x \in out.dest, ~out.error[x]
         PROVE  Follows(out, out.wrote[x], events) /\ LastUpdate(out, out.wrote[x])
    <2>1. CASE x = d
      BY <1>9, <1>10, <2>1
    <2>2. CASE x # d
      <3>1. x \in dm.dest
        BY <1>3, <1>5, <2>2
      <3>2. Follows(dm, dm.wrote[x], events) /\ LastUpdate(dm, dm.wrote[x])
        BY <1>8, <1>10, <2>2, <3>1 DEF Ringing
      <3> QED
        BY <1>8, <2>2, <3>1, <3>2, SameViews
    <2> QED
      BY <2>1, <2>2
  <1>11. Timely(out)
    <2> SUFFICES ASSUME NEW f \in Files \cap out.dest, ~out.error[f]
                 PROVE  LastMark(out, out.wrote[f])
      BY DEF Timely
    <2>1. CASE f = d
      BY <1>9, <2>1
    <2>2. CASE f # d
      <3>1. f \in dm.dest
        BY <1>3, <1>5, <2>2
      <3>2. LastMark(dm, dm.wrote[f])
        BY <1>8, <2>2, <3>1 DEF Timely
      <3> QED
        BY <1>8, <2>2, <3>1, <3>2, SameViews
    <2> QED
      BY <2>1, <2>2
  <1>12. Closed(out, bs)
    <2> SUFFICES ASSUME NEW f \in Files, out.fate[f] = "closed"
                 PROVE  /\ out.sent[f] = Len(out.wrote[f])
                        /\ out.spilled \/ \E b \in bs :
                              Covers(Given(out.wrote[f]), out.wrote[f][1].at, b)
      BY DEF Closed
    <2>1. f \in Dests /\ f # d /\ dm.fate[f] = "closed"
      BY <1>3, <1>5 DEF Dests
    <2>2. f \notin {d} \cap mid.dest
      BY <2>1
    <2>3. out.wrote[f] = dm.wrote[f] /\ out.sent[f] = dm.sent[f]
      BY <1>3, <1>5, <2>1, <2>2 DEF StatedTo
    <2>4. out.spilled = dm.spilled
      BY <1>2, <1>3, <1>5 DEF SameRing
    <2> QED
      BY <2>1, <2>3, <2>4 DEF Closed
  <1>13. Ringing(out, events, out.parsecount)
    BY <1>7, <1>10 DEF Ringing
  <1> QED
    BY <1>6, <1>11, <1>12, <1>13 DEF out
-----------------------------------------------------------------------------
(* A stop: all frames are written and the files closed.                    *)

LEMMA StopKeeps ==
    ASSUME NEW dm, Sound(dm), NEW e \in Nat, dm.mvdrecording,
           Ringing(dm, e, dm.parsecount), Timely(dm), NEW bs, Closed(dm, bs),
           NEW bad, NEW sends \in Sends
    PROVE  LET out == Stop(dm, TRUE, e + 1, bad, sends)
           IN  /\ Sound(out) /\ Ringing(out, e + 1, out.parsecount)
               /\ Timely(out) /\ Closed(out, bs \cup {e + 1})
               /\ ~out.spilled => Pending(out) = {}
               /\ out.dest \cap Files = {}
  <1> DEFINE said == Said(dm, e)
             num == said.parsecount - said.lastwritten + 1
             n == Whole(said, num)
             all == WritePackets(said, num, bad)
             out == Stop(dm, TRUE, e + 1, bad, sends)
  <1>1. out = DestCloseAllFlush(all, FALSE, TRUE, bad, sends)
    BY DEF Stop, Said
  <1>2. /\ Sound(said) /\ Ringing(said, e + 1, said.parsecount) /\ Timely(said)
        /\ SameDests(dm, said) /\ (dm.spilled => said.spilled) /\ said.mvdrecording
    <2>1. Sound(said) /\ Ringing(said, e + 1, said.parsecount) /\ Timely(said)
      BY SaidGoesOn
    <2>2. SameDests(dm, said) /\ (dm.spilled => said.spilled)
      BY SaidGoesOn
    <2> QED
      BY <2>1, <2>2 DEF SameDests
  <1> HIDE DEF said
  <1>3. /\ said \in Demo /\ said.parsecount - said.lastwritten \in 0 .. Lag + 1
        /\ \A d \in Dests : Kept(said, d)
        /\ num \in Nat /\ e + 1 \in Nat /\ said.parsecount \in Nat
        /\ RingInv(said, e + 1, said.parsecount)
    BY <1>2, DemoParts DEF Sound, Ringing
  <1>4. n \in 0 .. said.parsecount - said.lastwritten + 1
    <2>1. /\ WriteCount(said, num) \in 0 .. said.parsecount - said.lastwritten + 1
          /\ n \in 0 .. WriteCount(said, num)
      BY <1>3, WholeBounds
    <2> HIDE DEF n
    <2> QED
      BY <1>3, <2>1
  <1>5. Packed(said, all, n)
    BY <1>3, WritePacketsPacks
  <1>6. ~said.spilled => n = num
    <2>1. ~said.spilled => \A s \in 0 .. Ring - 1 : ~said.frames[s].over
      BY <1>3 DEF RingInv, Unspilled
    <2> QED
      BY <1>3, <2>1, WholeBounds
  <1> HIDE DEF n, all, out
  <1>7. Sound(all) /\ Ringing(all, e + 1, said.parsecount)
    BY <1>2, <1>3, <1>4, <1>5, PackedSound, PackedRinging
  <1>8. /\ all.parsecount = said.parsecount /\ all.spilled = said.spilled
        /\ all.fate = said.fate /\ all.dest = said.dest
        /\ \A d \in Dests : FedTo(said, all, n, d)
    BY <1>5 DEF Packed, Advanced
  <1>9. ~all.spilled => Pending(all) = {}
    <2>1. ~all.spilled => Packed(said, all, said.parsecount - said.lastwritten + 1)
      BY <1>5, <1>6, <1>8
    <2> QED
      BY <1>2, <2>1, PackedAll
  <1>10. Closes(all, out, FALSE, TRUE)
    <2>1. all \in Demo /\ \A d \in Dests : Kept(all, d)
      BY <1>7 DEF Sound
    <2> QED
      BY <1>1, <2>1, DestCloses
  <1>11. Flushes(all, out) /\ SameRing(all, out)
         /\ out.wrote = all.wrote
    BY <1>10 DEF Closes, Flushes
  <1>12. Sound(out) /\ Ringing(out, e + 1, out.parsecount)
    <2>1. out.parsecount = said.parsecount
      BY <1>8, <1>11 DEF SameRing
    <2> QED
      BY <1>7, <1>11, <2>1, FlushSound, FlushRinging
  <1>13. Timely(out) /\ out.dest \cap Files = {}
    BY <1>10, ClosesTimely DEF Closes
  <1>14. ~out.spilled => Pending(out) = {}
    BY <1>9, <1>11, SameViews DEF SameRing
  <1>15. Closed(out, bs \cup {e + 1})
    <2> SUFFICES ASSUME NEW f \in Files, out.fate[f] = "closed"
                 PROVE  /\ out.sent[f] = Len(out.wrote[f])
                        /\ out.spilled \/ \E b \in bs \cup {e + 1} :
                              Covers(Given(out.wrote[f]), out.wrote[f][1].at, b)
      BY DEF Closed
    <2>1. f \in Dests /\ out.spilled = all.spilled
      BY <1>11 DEF Dests, SameRing
    <2>2. CASE all.fate[f] = "closed"
      <3>1. dm.fate[f] = "closed" /\ Kept(all, f)
        BY <1>2, <1>7, <1>8, <2>1, <2>2 DEF SameDests, Sound
      <3>2. f \notin all.dest
        BY <2>2, <3>1 DEF Kept
      <3>3. out.sent[f] = all.sent[f]
        BY <1>11, <2>1, <3>2 DEF Flushes
      <3>4. FedTo(said, all, n, f) /\ f \notin said.dest
        BY <1>8, <2>1, <3>2
      <3>5. all.sent[f] = said.sent[f] /\ all.wrote[f] = said.wrote[f]
        BY <3>4 DEF FedTo, Fed
      <3>6. out.sent[f] = dm.sent[f] /\ out.wrote[f] = dm.wrote[f]
        BY <1>2, <1>11, <3>3, <3>5 DEF SameDests
      <3>7. dm.spilled => out.spilled
        BY <1>2, <1>8, <2>1
      <3> QED
        BY <3>1, <3>6, <3>7 DEF Closed
    <2>3. CASE all.fate[f] # "closed"
      <3>1. /\ f \in all.dest /\ ~all.error[f] /\ out.sent[f] = Len(out.wrote[f])
        BY <1>10, <2>1, <2>3 DEF Closes
      <3>2. Follows(all, all.wrote[f], e + 1)
        BY <1>7, <3>1 DEF Ringing
      <3>3. ~out.spilled => Covers(Given(all.wrote[f]), all.wrote[f][1].at, e + 1)
        <4>1. Given(all.wrote[f]) \cup {} = Given(all.wrote[f])
          OBVIOUS
        <4> QED
          BY <1>9, <2>1, <3>2, <4>1 DEF Follows
      <3> QED
        BY <1>11, <3>1, <3>3
    <2> QED
      BY <2>2, <2>3
  <1> QED
    BY <1>12, <1>13, <1>14, <1>15 DEF out
-----------------------------------------------------------------------------
(* A map change.                                                           *)

(* dm with another flag.                                                   *)
Flagged(dm, flag) == [dm EXCEPT !.mvdrecording = flag]

LEMMA FlaggedParts ==
    ASSUME NEW dm \in Demo, NEW flag \in BOOLEAN
    PROVE  LET out == Flagged(dm, flag)
           IN  /\ out \in Demo /\ SameRing(dm, out) /\ out.mvdrecording = flag
               /\ out.dest = dm.dest /\ out.wrote = dm.wrote /\ out.sent = dm.sent
               /\ out.error = dm.error /\ out.fate = dm.fate
               /\ out.cached = dm.cached
               /\ \A d \in Dests : Kept(dm, d) => Kept(out, d)
  <1> DEFINE out == Flagged(dm, flag)
  <1>1. out = [dm EXCEPT !.mvdrecording = flag]
    BY DEF Flagged
  <1> HIDE DEF out
  <1>2. /\ out \in Demo /\ SameRing(dm, out) /\ out.mvdrecording = flag
        /\ out.dest = dm.dest /\ out.wrote = dm.wrote /\ out.sent = dm.sent
        /\ out.error = dm.error /\ out.fate = dm.fate /\ out.cached = dm.cached
    BY ONLY dm \in Demo, flag \in BOOLEAN, <1>1 DEF Demo, SameRing
  <1>3. \A d \in Dests : Kept(dm, d) => Kept(out, d)
    BY <1>2 DEF Kept, Buffered, CacheUsed
  <1> QED
    BY <1>2, <1>3 DEF out

LEMMA RecordMapKeeps ==
    ASSUME NEW q, Sound(q), NEW e \in Nat, NEW top, Ringing(q, e, top),
           ~q.spilled => q.dest = {} \/ Pending(q) = {},
           q.dest \cap Files = {}, events \in Nat, NEW bs, Closed(q, bs), NEW bad
    PROVE  LET out == RecordMap(Flagged(q, FALSE), bad)
           IN  /\ Sound(out) /\ Ringing(out, e, out.parsecount)
               /\ Timely(out) /\ Closed(out, bs)
  <1> DEFINE dm == Flagged(q, FALSE)
             base == Cleared(dm)
             mid == Flagged(base, TRUE)
             out == RecordMap(dm, bad)
  <1>1. /\ dm \in Demo /\ SameRing(q, dm) /\ dm.mvdrecording = FALSE
        /\ dm.dest = q.dest /\ dm.wrote = q.wrote /\ dm.sent = q.sent
        /\ dm.error = q.error /\ dm.fate = q.fate
        /\ \A d \in Dests : Kept(dm, d)
    BY FlaggedParts DEF Sound
  <1>2. /\ base \in Demo /\ SameDests(dm, base) /\ base.spilled = dm.spilled
        /\ Empty(base)
    BY <1>1, ClearedParts
  <1>3. \A d \in Dests : Kept(base, d)
    BY <1>1, <1>2, SameKept
  <1> HIDE DEF dm, base
  <1>4. base.parsecount - base.lastwritten \in 0 .. Lag + 1
    BY <1>2, Constants DEF Empty
  <1>5. \A d \in Dests : Written(q.wrote[d], d)
    BY DEF Sound
  <1>6. CASE dm.dest = {}
    <2>1. out = base
      BY <1>6 DEF RecordMap, base
    <2>2. Sound(base)
      BY <1>1, <1>2, <1>3, <1>4, <1>5, <1>6 DEF Sound, SameDests
    <2>3. Ringing(base, e, base.parsecount) /\ Timely(base)
      BY <1>1, <1>2, <1>6 DEF Ringing, Timely, SameDests
    <2>4. Closed(base, bs)
      BY <1>1, <1>2 DEF Closed, SameDests, SameRing
    <2> QED
      BY <2>1, <2>2, <2>3, <2>4 DEF dm
  <1>7. CASE dm.dest # {}
    <2>1. out = GameState(mid, Dests, bad)
      BY <1>7 DEF RecordMap, Flagged, base
    <2>2. /\ mid \in Demo /\ SameRing(base, mid) /\ mid.mvdrecording
          /\ mid.dest = q.dest /\ mid.wrote = q.wrote /\ mid.sent = q.sent
          /\ mid.error = q.error /\ mid.fate = q.fate
          /\ \A d \in Dests : Kept(mid, d)
      <3>1. /\ mid \in Demo /\ SameRing(base, mid) /\ mid.mvdrecording = TRUE
            /\ mid.dest = base.dest /\ mid.wrote = base.wrote
            /\ mid.sent = base.sent
            /\ mid.error = base.error /\ mid.fate = base.fate
            /\ \A d \in Dests : Kept(base, d) => Kept(mid, d)
        BY <1>2, FlaggedParts
      <3> QED
        BY <1>1, <1>2, <1>3, <3>1 DEF SameDests
    <2> HIDE DEF mid, out
    <2>3. Sound(mid) /\ Empty(mid) /\ (mid.spilled <=> q.spilled)
      <3>1. /\ mid.parsecount = base.parsecount /\ mid.lastwritten = base.lastwritten
            /\ mid.frames = base.frames
            /\ mid.spilled = base.spilled /\ dm.spilled = q.spilled
        BY <1>1, <2>2 DEF SameRing
      <3>2. Empty(mid)
        BY <1>2, <3>1 DEF Empty
      <3>3. Sound(mid)
        BY <1>1, <1>4, <1>5, <1>7, <2>2, <3>1 DEF Sound
      <3> QED
        BY <1>2, <3>1, <3>2, <3>3
    <2>4. /\ out \in Demo /\ SameRing(mid, out)
          /\ out.mvdrecording = mid.mvdrecording /\ out.dest = mid.dest
          /\ out.fate = mid.fate
          /\ \A d \in Dests : StatedTo(mid, out, events, Dests, d)
      BY <2>1, <2>2, GameStateGives
    <2>5. Sound(out)
      BY <2>1, <2>3, GameStateSound
    <2>6. RingInv(out, e, out.parsecount)
      <3>1. RingInv(mid, e, 0) /\ mid.parsecount = 0
        BY <2>3, EmptyRing DEF Empty
      <3>2. RingInv(out, e, 0) /\ out.parsecount = 0
        BY <2>4, <3>1, SameViews DEF SameRing
      <3> QED
        BY <3>2
    <2>7. ASSUME NEW d \in out.dest, ~out.error[d]
          PROVE  Follows(out, out.wrote[d], e) /\ LastUpdate(out, out.wrote[d])
      <3>1. d \in Dests /\ d \in q.dest /\ d \in Dests \cap mid.dest
        BY <1>1, <2>2, <2>4, DemoParts
      <3>2. StatedTo(mid, out, events, Dests, d)
        BY <2>4, <3>1
      <3>3. /\ Stated(q.wrote[d], out.wrote[d], events) /\ ~q.error[d]
            /\ out.wrote[d] \in Seq(Item)
        BY <2>2, <2>7, <3>1, <3>2 DEF StatedTo
      <3>4. q.wrote[d] \in Seq(Item)
        BY <3>1, DemoParts DEF Sound
      <3>5. Follows(q, q.wrote[d], e)
        BY <3>1, <3>3 DEF Ringing
      <3>6. Follows(mid, q.wrote[d], e)
        <4>1. /\ Pending(mid) = {} /\ \A k \in Ahead(mid) : Buf(mid, k) = {}
          BY <2>3, EmptyRing
        <4>2. ~q.spilled => Pending(q) = {}
          BY <3>1
        <4>3. \A k \in Ahead(mid) : Before(Given(q.wrote[d]), Buf(mid, k))
          BY <4>1 DEF Before
        <4>4. ~mid.spilled => Covers(Given(q.wrote[d]) \cup Pending(mid),
                                     (q.wrote[d])[1].at, e)
          BY <2>3, <3>5, <4>1, <4>2 DEF Follows
        <4> QED
          BY <3>5, <4>3, <4>4 DEF Follows
      <3>7. Follows(mid, out.wrote[d], e)
        BY <3>3, <3>4, <3>6, StatedFollows
      <3>8. Follows(out, out.wrote[d], e)
        BY <2>4, <3>7, SameViews
      <3>9. LastUpdate(out, out.wrote[d])
        BY <3>3, <3>4, StatedLast
      <3> QED
        BY <3>8, <3>9
    <2>8. Timely(out)
      BY <2>2, <2>4 DEF Timely
    <2>9. Closed(out, bs)
      <3> SUFFICES ASSUME NEW f \in Files, out.fate[f] = "closed"
                   PROVE  /\ out.sent[f] = Len(out.wrote[f])
                          /\ out.spilled \/ \E b \in bs :
                                Covers(Given(out.wrote[f]), out.wrote[f][1].at, b)
        BY DEF Closed
      <3>1. f \in Dests /\ q.fate[f] = "closed" /\ f \notin mid.dest
        BY <2>2, <2>4 DEF Dests
      <3>2. f \notin Dests \cap mid.dest /\ StatedTo(mid, out, events, Dests, f)
        BY <2>4, <3>1
      <3>3. out.wrote[f] = q.wrote[f] /\ out.sent[f] = q.sent[f]
        BY <2>2, <3>2 DEF StatedTo
      <3>4. out.spilled <=> q.spilled
        BY <2>3, <2>4 DEF SameRing
      <3> QED
        BY <3>1, <3>3, <3>4 DEF Closed
    <2>10. Ringing(out, e, out.parsecount)
      BY <2>6, <2>7 DEF Ringing
    <2> QED
      BY <2>5, <2>8, <2>9, <2>10 DEF out, dm
  <1> QED
    BY <1>6, <1>7
-----------------------------------------------------------------------------
(* The end of a frame.                                                     *)

LEMMA SameDestsClosed ==
    ASSUME NEW dm, NEW out, SameDests(dm, out), dm.spilled => out.spilled,
           NEW bs, Closed(dm, bs)
    PROVE  Closed(out, bs)
  BY DEF SameDests, Closed

LEMMA PackedClosed ==
    ASSUME NEW dm, Sound(dm), NEW n, NEW out, Packed(dm, out, n),
           NEW bs, Closed(dm, bs)
    PROVE  Closed(out, bs)
  <1> SUFFICES ASSUME NEW f \in Files, out.fate[f] = "closed"
               PROVE  /\ out.sent[f] = Len(out.wrote[f])
                      /\ out.spilled \/ \E b \in bs :
                            Covers(Given(out.wrote[f]), out.wrote[f][1].at, b)
    BY DEF Closed
  <1>1. /\ f \in Dests /\ dm.fate[f] = "closed" /\ Kept(dm, f) /\ FedTo(dm, out, n, f)
        /\ out.spilled = dm.spilled
    BY DEF Packed, Advanced, Sound, Dests
  <1>2. f \notin dm.dest
    BY <1>1 DEF Kept
  <1>3. out.sent[f] = dm.sent[f] /\ out.wrote[f] = dm.wrote[f]
    BY <1>1, <1>2 DEF FedTo, Fed
  <1> QED
    BY <1>1, <1>3 DEF Closed

(* All destinations are closed and removed.                                *)
LEMMA RemoveAll ==
    ASSUME NEW dm, Sound(dm), NEW bs, Closed(dm, bs), NEW bad, NEW sends \in Sends
    PROVE  LET out == StopAndRemove(dm, FALSE, bad, sends)
           IN  /\ Sound(out) /\ ~out.mvdrecording
               /\ \A e, top : Ringing(out, e, top)
               /\ Timely(out) /\ Closed(out, bs)
  <1> DEFINE out == StopAndRemove(dm, FALSE, bad, sends)
  <1>1. dm \in Demo /\ \A d \in Dests : Kept(dm, d)
    BY DEF Sound
  <1>2. Closes(dm, out, TRUE, FALSE)
    BY <1>1, DestCloses DEF StopAndRemove
  <1> HIDE DEF out
  <1>3. Sound(out) /\ ~out.mvdrecording /\ \A e, top : Ringing(out, e, top)
    BY <1>2, ClosesAll
  <1>4. Timely(out)
    BY <1>2, ClosesTimely
  <1>5. Closed(out, bs)
    BY <1>1, <1>2, RemovesClosed
  <1> QED
    BY <1>3, <1>4, <1>5 DEF out

LEMMA OverflowSound ==
    ASSUME NEW dm, Sound(dm), NEW bs, Closed(dm, bs)
    PROVE  /\ Sound(Overflow(dm)) /\ Closed(Overflow(dm), bs)
           /\ Timely(dm) => Timely(Overflow(dm))
           /\ SameDests(dm, Overflow(dm))
           /\ Overflow(dm).parsecount = dm.parsecount
  <1>1. PICK f : Refilled(dm, Overflow(dm), f, TRUE)
    BY OverflowRefills DEF Sound
  <1>2. SameDests(dm, Overflow(dm)) /\ Overflow(dm).spilled
        /\ Overflow(dm).parsecount = dm.parsecount
    BY <1>1 DEF Refilled
  <1>3. Sound(Overflow(dm))
    BY <1>1, RefilledSound
  <1>4. Timely(dm) => Timely(Overflow(dm))
    BY <1>1, RefilledSound
  <1>5. Closed(Overflow(dm), bs)
    BY <1>2, SameDestsClosed
  <1> QED
    BY <1>2, <1>3, <1>4, <1>5

LEMMA WriteUpdateKeeps ==
    ASSUME NEW dm, Sound(dm), NEW e \in Nat, dm.mvdrecording,
           Ringing(dm, e, dm.parsecount), Timely(dm), NEW bs, Closed(dm, bs),
           NEW now \in Nat, NEW late, NEW bad, NEW sends \in Sends
    PROVE  LET out == WriteUpdate(dm, now, late, bad, sends)
           IN  /\ Sound(out) /\ Ringing(out, e, out.parsecount + 1)
               /\ Timely(out) /\ Closed(out, bs)
  <1> DEFINE p == dm.parsecount
             mid == CloseFrame(dm, now)
             end == IF CanBegin(dm) THEN Overflow(dm) ELSE dm
             out == WriteUpdate(dm, now, late, bad, sends)
  <1>1. /\ dm \in Demo /\ p \in Nat /\ TopOf(dm, p) /\ RingInv(dm, e, p)
        /\ p \in {p, p + 1} /\ p + 1 \in {p, p + 1} /\ e <= e
    BY DemoParts DEF Sound, TopOf, Ringing
  <1>2. PICK f : Refilled(dm, mid, f, dm.spilled)
    BY <1>1, CloseFrameRefills
  <1>3. Touched(dm, mid, e, e, p, p + 1)
    BY <1>1, CloseFrameTouches
  <1> HIDE DEF mid
  <1>4. SameDests(dm, mid) /\ mid.parsecount = p /\ mid.spilled = dm.spilled
    BY <1>2 DEF Refilled
  <1>5. Sound(mid) /\ Timely(mid) /\ Closed(mid, bs)
    BY <1>2, <1>4, RefilledSound, SameDestsClosed
  <1>6. Ringing(mid, e, mid.parsecount + 1)
    <2>1. TopOf(dm, p + 1)
      BY DEF TopOf
    <2> QED
      BY <1>1, <1>3, <1>4, <2>1, TouchedRinging
  <1>7. CASE Fits(dm)
    <2>1. out = mid
      BY <1>7 DEF WriteUpdate, mid
    <2> HIDE DEF out
    <2> QED
      BY <1>5, <1>6, <2>1 DEF out
  <1>8. CASE ~Fits(dm) /\ CanBegin(dm) /\ late
    <2>1. out = Overflow(mid)
      BY <1>8 DEF WriteUpdate, mid
    <2> HIDE DEF out
    <2>2. /\ Sound(out) /\ Timely(out) /\ Closed(out, bs)
          /\ SameDests(mid, out) /\ out.parsecount = mid.parsecount
      BY <1>5, <2>1, OverflowSound
    <2>3. /\ TopOf(mid, mid.parsecount + 1) /\ RingInv(mid, e, mid.parsecount + 1)
          /\ mid.parsecount + 1 \in {mid.parsecount, mid.parsecount + 1}
      BY <1>4, <1>6 DEF TopOf, Ringing, SameDests
    <2>4. Touched(mid, out, e, e, mid.parsecount + 1, mid.parsecount + 1)
      BY <1>1, <1>5, <2>1, <2>3, OverflowTouches
    <2>5. Ringing(out, e, mid.parsecount + 1)
      BY <1>5, <1>6, <2>2, <2>3, <2>4, TouchedRinging
    <2> QED
      BY <2>2, <2>5 DEF out
  <1>9. CASE ~Fits(dm) /\ ~(CanBegin(dm) /\ late)
    <2>1. out = StopAndRemove(end, FALSE, bad, sends)
      BY <1>9 DEF WriteUpdate
    <2>2. Sound(end) /\ Closed(end, bs)
      BY OverflowSound
    <2> HIDE DEF out, end
    <2> QED
      BY <2>1, <2>2, RemoveAll DEF out
  <1> QED
    BY <1>7, <1>8, <1>9

(* The oldest frame is written when the writer is more than Lag behind.    *)
LEMMA TrailKeeps ==
    ASSUME NEW dm, Sound(dm), NEW e \in Nat, Ringing(dm, e, dm.parsecount + 1),
           Timely(dm), NEW bs, Closed(dm, bs), NEW bad, NEW sends \in Sends
    PROVE  LET out == Trail(dm, bad, sends)
           IN  /\ Sound(out) /\ Ringing(out, e, out.parsecount + 1)
               /\ Timely(out) /\ Closed(out, bs)
               /\ out.mvdrecording => out.parsecount - out.lastwritten <= Lag
  <1> DEFINE p == dm.parsecount
             l == dm.lastwritten
             n == Whole(dm, 1)
             mid == WritePackets(dm, 1, bad)
             out == Trail(dm, bad, sends)
  <1>1. /\ dm \in Demo /\ p \in Nat /\ l \in Nat /\ p - l \in 0 .. Lag + 1
        /\ Lag \in Nat /\ p + 1 \in {p, p + 1}
        /\ \A d \in Dests : Kept(dm, d)
    BY DemoParts, Constants DEF Sound
  <1>2. CASE ~dm.mvdrecording \/ p - l <= Lag
    <2>1. out = dm
      BY <1>2 DEF Trail
    <2> HIDE DEF out
    <2> QED
      BY <1>2, <2>1 DEF out
  <1>3. CASE dm.mvdrecording /\ ~(p - l <= Lag)
    <2>1. out = IF Failed(dm, 1) THEN StopAndRemove(mid, FALSE, bad, sends) ELSE mid
      BY <1>3 DEF Trail
    <2>2. WriteCount(dm, 1) = 1 /\ p - l = Lag + 1
      BY <1>1, <1>3 DEF WriteCount, Least
    <2>3. n \in 0 .. 1 /\ (Failed(dm, 1) <=> n = 0)
      <3>1. n \in 0 .. WriteCount(dm, 1)
        BY <1>1, WholeBounds
      <3> QED
        BY <2>2, <3>1 DEF Failed
    <2>4. /\ Packed(dm, mid, n)
          /\ ~Failed(dm, 1) => mid.prevtime = PrevTime(dm, n)
      BY <1>1, WritePacketsPacks
    <2> HIDE DEF n, mid, out
    <2>5. n \in 0 .. p - l + 1 /\ ~(p = l + n - 1) /\ l < p + 1
      BY ONLY <1>1, <2>2, <2>3
    <2>6. Sound(mid) /\ Closed(mid, bs)
      <3>1. Sound(mid)
        BY <1>1, <1>3, <2>4, <2>5, PackedSound
      <3> QED
        BY <2>4, <3>1, PackedClosed
    <2>7. CASE Failed(dm, 1)
      BY <2>1, <2>6, <2>7, RemoveAll DEF out
    <2>8. CASE ~Failed(dm, 1)
      <3>1. n = 1 /\ out = mid
        BY <2>1, <2>3, <2>8
      <3>2. Ringing(mid, e, p + 1)
        BY <1>1, <1>3, <2>4, <2>5, PackedRinging
      <3>3. RingInv(dm, e, p + 1) /\ Packed(dm, mid, 1)
            /\ mid.prevtime = PrevTime(dm, 1)
        BY <1>3, <2>4, <2>8, <3>1 DEF Ringing
      <3>4. Timely(mid)
        BY <1>1, <2>5, <3>3, PackedTimely
      <3>5. mid.parsecount = p /\ mid.lastwritten = Least(l + 1, p)
        BY <3>3 DEF Packed, Advanced
      <3>6. mid.parsecount - mid.lastwritten <= Lag
        BY <1>1, <2>2, <3>5 DEF Least
      <3> QED
        BY <2>6, <3>1, <3>2, <3>4, <3>5, <3>6 DEF out
    <2> QED
      BY <2>7, <2>8
  <1> QED
    BY <1>2, <1>3

(* The game goes on to the next frame of the ring.                         *)
LEMMA NextFrameKeeps ==
    ASSUME NEW dm, Sound(dm), NEW e \in Nat, Ringing(dm, e, dm.parsecount + 1),
           Timely(dm), NEW bs, Closed(dm, bs),
           dm.mvdrecording => dm.parsecount - dm.lastwritten <= Lag
    PROVE  LET out == NextFrame(dm)
           IN  /\ Sound(out) /\ Ringing(out, e, out.parsecount)
               /\ Timely(out) /\ Closed(out, bs)
  <1> DEFINE p == dm.parsecount
             l == dm.lastwritten
             q == p + 1
             out == NextFrame(dm)
  <1>1. /\ dm \in Demo /\ p \in Nat /\ l \in Nat /\ p - l \in 0 .. Lag + 1
        /\ Lag \in Nat /\ \A d \in Dests : Kept(dm, d)
    BY DemoParts, Constants DEF Sound
  <1>2. CASE ~dm.mvdrecording
    <2>1. out = dm /\ dm.dest = {}
      BY <1>2 DEF NextFrame, Sound
    <2>2. Ringing(dm, e, p)
      BY <1>2, <2>1 DEF Ringing
    <2> HIDE DEF out
    <2> QED
      BY <2>1, <2>2 DEF out
  <1>3. CASE dm.mvdrecording
    <2>1. out = [dm EXCEPT !.parsecount = q] /\ q \in Nat /\ q = p + 1
      BY <1>1, <1>3 DEF NextFrame, Demo
    <2> HIDE DEF out, q
    <2>2. /\ out \in Demo /\ SameDests(dm, out) /\ out.parsecount = q
          /\ out.lastwritten = l /\ out.prevtime = dm.prevtime
          /\ out.frames = dm.frames /\ out.spilled = dm.spilled
      BY ONLY <1>1, <2>1 DEF Demo, SameDests
    <2>3. Sound(out)
      <3>1. \A d \in Dests : Kept(out, d)
        BY <1>1, <2>2, SameKept
      <3>2. out.parsecount - out.lastwritten \in 0 .. Lag + 1
        BY <1>1, <1>3, <2>1, <2>2
      <3> QED
        BY <2>2, <3>1, <3>2 DEF Sound, SameDests
    <2>4. /\ Ahead(out) = Ahead(dm) \cup {q} /\ q \notin Ahead(dm)
          /\ \A k : Buf(out, k) = Buf(dm, k)
          /\ \A k \in Ahead(dm) : k \in Nat /\ k < q
      BY <1>1, <2>1, <2>2 DEF Ahead, Buf
    <2>5. /\ Slot(q) \in 0 .. Ring - 1
          /\ \A k \in Ahead(dm) : Slot(q) # Slot(k)
      <3>1. Slot(q) \in 0 .. Ring - 1
        BY <2>1, SlotInRing
      <3>2. ASSUME NEW k \in Ahead(dm) PROVE Slot(k) # Slot(q)
        <4>1. k \in Nat /\ q \in Nat /\ k < q /\ q - k < Ring
          <5>1. k >= l /\ k <= p /\ k \in Nat /\ p - l <= Lag
            BY <1>1, <1>3 DEF Ahead
          <5>2. Ring \in Nat /\ Lag + 1 < Ring
            BY Constants
          <5> QED
            BY ONLY <1>1, <2>1, <5>1, <5>2
        <4> QED
          BY <4>1, SlotsDiffer
      <3> QED
        BY <3>1, <3>2
    <2>6. RingInv(dm, e, q)
      BY <1>3, <2>1 DEF Ringing
    <2>7. /\ dm.frames[Slot(q)].buf = <<>>
          /\ dm.frames[Slot(q)].base = NoUpdate
          /\ Buf(dm, q) = {}
      BY <2>5, <2>6 DEF RingInv, Reset, Buf, Range
    <2>8. Pending(out) = Pending(dm)
      BY <2>4, <2>7 DEF Pending
    <2>9. RingInv(out, e, q)
      <3>1. Sorted(out, e)
        <4>1. Increasing(dm.frames[Slot(q)].buf)
          BY <2>7 DEF Increasing
        <4>2. \A k \in Ahead(dm) : Before(Buf(dm, k), Buf(dm, q))
          BY <2>7 DEF Before
        <4>3. ~(q < q) /\ \A j \in Ahead(dm) : ~(q < j)
          BY <2>1, <2>4
        <4>4. ASSUME NEW k \in Ahead(out)
              PROVE  /\ Increasing(dm.frames[Slot(k)].buf)
                     /\ Buf(dm, k) \subseteq 1 .. e
                     /\ \A j \in Ahead(out) :
                           k < j => Before(Buf(dm, k), Buf(dm, j))
          <5>1. CASE k \in Ahead(dm)
            BY <2>4, <2>6, <4>2, <5>1 DEF RingInv, Sorted
          <5>2. CASE k = q
            BY <2>4, <2>7, <4>1, <4>3, <5>2
          <5> QED
            BY <2>4, <5>1, <5>2
        <4> QED
          BY <2>2, <2>4, <4>4 DEF Sorted
      <3>2. Updated(out, q)
        BY <2>2, <2>6, <2>7 DEF RingInv, Updated
      <3>3. Reset(out)
        BY <2>2, <2>4, <2>6 DEF RingInv, Reset
      <3>4. Unspilled(out, e)
        BY <2>2, <2>6, <2>8 DEF RingInv, Unspilled
      <3> QED
        BY <3>1, <3>2, <3>3, <3>4 DEF RingInv
    <2>10. ASSUME NEW d \in out.dest, ~out.error[d]
           PROVE  Follows(out, out.wrote[d], e) /\ LastUpdate(out, out.wrote[d])
      <3> DEFINE w == dm.wrote[d]
      <3>1. Follows(dm, w, e) /\ LastUpdate(dm, w) /\ out.wrote[d] = w
        BY <2>2, <2>10 DEF Ringing, SameDests
      <3> HIDE DEF w
      <3>2. Before(Given(w), Buf(out, q))
        BY <2>4, <2>7 DEF Before
      <3>3. Follows(out, w, e)
        BY <2>2, <2>4, <2>8, <3>1, <3>2 DEF Follows
      <3>4. LastUpdate(out, w)
        BY <2>2, <3>1 DEF LastUpdate
      <3> QED
        BY <3>1, <3>3, <3>4
    <2>11. Timely(out)
      BY <2>2, TouchedTimely
    <2>12. Closed(out, bs)
      BY <2>2, SameDestsClosed
    <2> QED
      BY <2>2, <2>3, <2>9, <2>10, <2>11, <2>12 DEF Ringing, out
  <1> QED
    BY <1>2, <1>3

(* The end of a frame of the server, whether it records or not.            *)
LEMMA SendFrameKeeps ==
    ASSUME NEW dm, Sound(dm), NEW e \in Nat, Ringing(dm, e, dm.parsecount),
           Timely(dm), NEW bs, Closed(dm, bs), time \in Nat,
           NEW late, NEW bad, NEW sends \in Sends
    PROVE  LET out == SendFrame(dm, late, bad, sends)
           IN  /\ Sound(out) /\ Ringing(out, e, out.parsecount)
               /\ Timely(out) /\ Closed(out, bs)
  <1> DEFINE written == WriteUpdate(dm, time + 1, late, bad, sends)
             trailed == Trail(written, bad, sends)
             from == IF dm.mvdrecording THEN trailed ELSE dm
             top == IF dm.mvdrecording THEN from.parsecount + 1
                                       ELSE from.parsecount
             fl == DestFlush(from, FALSE, bad, sends)
             out == SendFrame(dm, late, bad, sends)
  <1>1. out = IF dm.mvdrecording THEN NextFrame(fl) ELSE fl
    BY DEF SendFrame
  <1>2. /\ Sound(from) /\ Ringing(from, e, top) /\ Timely(from) /\ Closed(from, bs)
        /\ dm.mvdrecording /\ from.mvdrecording
              => from.parsecount - from.lastwritten <= Lag
    <2>1. CASE ~dm.mvdrecording
      <3>1. from = dm /\ top = dm.parsecount
        BY <2>1
      <3> QED
        BY <2>1, <3>1
    <2>2. CASE dm.mvdrecording
      <3>1. time + 1 \in Nat
        OBVIOUS
      <3>2. /\ Sound(written) /\ Ringing(written, e, written.parsecount + 1)
            /\ Timely(written) /\ Closed(written, bs)
        BY <2>2, <3>1, WriteUpdateKeeps
      <3>3. from = trailed /\ top = from.parsecount + 1
        BY <2>2
      <3> HIDE DEF written
      <3>4. /\ Sound(trailed) /\ Ringing(trailed, e, trailed.parsecount + 1)
            /\ Timely(trailed) /\ Closed(trailed, bs)
            /\ trailed.mvdrecording
                  => trailed.parsecount - trailed.lastwritten <= Lag
        BY <3>2, TrailKeeps
      <3> HIDE DEF trailed, from, top
      <3> QED
        BY <3>3, <3>4
    <2> QED
      BY <2>1, <2>2
  <1>3. /\ dm.mvdrecording => top = from.parsecount + 1
        /\ ~dm.mvdrecording => top = from.parsecount
    OBVIOUS
  <1> HIDE DEF from, top
  <1>4. PassesOn(from, fl, FALSE)
    <2>1. from \in Demo /\ \A d \in Dests : Kept(from, d)
      BY <1>2 DEF Sound
    <2> QED
      BY <2>1, DestFlushes
  <1> HIDE DEF fl
  <1>5. /\ Flushes(from, fl) /\ fl.parsecount = from.parsecount
        /\ fl.lastwritten = from.lastwritten
        /\ \A d \in Dests : fl.fate[d] = "closed" => from.fate[d] = "closed"
    BY <1>4 DEF PassesOn, Flushes, SameRing
  <1>6. Sound(fl) /\ Timely(fl) /\ Ringing(fl, e, top)
    BY <1>2, <1>5, FlushSound, FlushTimely, FlushRinging
  <1>7. Closed(fl, bs)
    <2>1. \A d \in Dests : Kept(from, d)
      BY <1>2 DEF Sound
    <2> QED
      BY <1>2, <1>5, <2>1, FlushClosed
  <1>8. fl.mvdrecording => from.mvdrecording
    BY <1>2, <1>5, <1>6 DEF Sound, Flushes
  <1> HIDE DEF out
  <1>9. CASE ~dm.mvdrecording
    BY <1>1, <1>3, <1>5, <1>6, <1>7, <1>9 DEF out
  <1>10. CASE dm.mvdrecording
    <2>1. fl.mvdrecording => fl.parsecount - fl.lastwritten <= Lag
      BY <1>2, <1>5, <1>8, <1>10
    <2>2. Ringing(fl, e, fl.parsecount + 1) /\ out = NextFrame(fl)
      BY <1>1, <1>3, <1>5, <1>6, <1>10
    <2> QED
      BY <1>6, <1>7, <2>1, <2>2, NextFrameKeeps DEF out
  <1> QED
    BY <1>9, <1>10
-----------------------------------------------------------------------------
(* The steps.                                                              *)

(* All there is to keep of a recording.                                    *)
Good(dm, e, bs) ==
    /\ Sound(dm) /\ Ringing(dm, e, dm.parsecount) /\ Timely(dm)
    /\ Closed(dm, bs)

LEMMA InvParts ==
    IInv <=> /\ Good(demo, events, byes) /\ time \in Nat /\ faults \in Nat
             /\ events \in 0 .. MaxEvents /\ byes \subseteq 1 .. events
  BY FineParts DEF IInv, Good

LEMMA NextInv ==
    ASSUME Good(demo', events', byes'), time' \in Nat, faults' \in Nat,
           events' \in 0 .. MaxEvents, byes' \subseteq 1 .. events'
    PROVE  IInv'
  BY FineParts DEF IInv, Good

LEMMA MoreByes ==
    ASSUME NEW dm, NEW bs, NEW bs2, bs \subseteq bs2, Closed(dm, bs)
    PROVE  Closed(dm, bs2)
  BY DEF Closed

(* There is room for one more event.                                       *)
LEMMA NextEvent ==
    ASSUME IInv, BoundLeaves
    PROVE  /\ events + 1 \in 0 .. MaxEvents
           /\ byes \cup {events + 1} \subseteq 1 .. events + 1
  BY Constants DEF IInv, BoundLeaves

LEMMA InitInv == ASSUME Init PROVE IInv
  <1> DEFINE dm == demo
  <1>1. /\ dm \in Demo /\ dm.parsecount = 0 /\ dm.lastwritten = 0 /\ dm.dest = {}
        /\ dm.mvdrecording = FALSE /\ \A d \in Dests : dm.wrote[d] = <<>>
        /\ \A d \in Dests : dm.fate[d] = "new" /\ dm.sent[d] = 0
    <2>1. EmptyFrame \in Frames
      BY DEF EmptyFrame, Frames
    <2>2. /\ [d \in Dests |-> <<>>] \in [Dests -> Seq(Item)]
          /\ [d \in Dests |-> 0] \in [Dests -> Nat]
          /\ [d \in Dests |-> FALSE] \in [Dests -> BOOLEAN]
          /\ [d \in Dests |-> "new"] \in [Dests -> Fates]
          /\ [i \in 0 .. Ring - 1 |-> EmptyFrame] \in [0 .. Ring - 1 -> Frames]
      BY <2>1 DEF Fates
    <2> QED
      BY <2>2 DEF Init, Demo
  <1>2. Lag \in Nat /\ Cache \in Nat /\ MaxEvents \in Nat /\ StartTime \in Nat
    BY Constants
  <1>3. \A d \in Dests : Kept(dm, d)
    BY <1>1, <1>2 DEF Kept, CacheUsed
  <1>4. \A d \in Dests : Written(dm.wrote[d], d)
    BY <1>1 DEF Written, InOrder, Chained, Marked
  <1>5. Sound(dm)
    BY <1>1, <1>2, <1>3, <1>4 DEF Sound
  <1>6. Ringing(dm, events, dm.parsecount) /\ Timely(dm)
    BY <1>1 DEF Ringing, Timely
  <1>7. Closed(dm, byes)
    BY <1>1 DEF Closed, Dests
  <1> QED
    BY <1>2, <1>5, <1>6, <1>7, InvParts DEF Init, Good

LEMMA EmitInv == ASSUME IInv, Emit PROVE IInv'
  <1>1. /\ Sound(demo) /\ Ringing(demo, events, demo.parsecount) /\ Timely(demo)
        /\ Closed(demo, byes) /\ demo.mvdrecording /\ events \in Nat
        /\ time \in Nat /\ faults \in Nat /\ byes \subseteq 1 .. events
    BY InvParts DEF Good, Emit
  <1>2. demo' = Said(demo, events)
    BY DEF Emit, Said
  <1>3. LET out == Said(demo, events)
        IN  /\ Sound(out) /\ Ringing(out, events + 1, demo.parsecount)
            /\ Timely(out) /\ SameDests(demo, out) /\ (demo.spilled => out.spilled)
            /\ out.parsecount = demo.parsecount
    BY <1>1, SaidGoesOn
  <1>4. Closed(demo', byes)
    BY <1>1, <1>2, <1>3, SameDestsClosed
  <1>5. Good(demo', events + 1, byes)
    BY <1>2, <1>3, <1>4 DEF Good
  <1>6. events + 1 \in 0 .. MaxEvents /\ byes \subseteq 1 .. events + 1
    BY <1>1, NextEvent DEF Emit
  <1> QED
    BY <1>1, <1>5, <1>6, NextInv DEF Emit

(* bad and sends are what Outside chooses.                                 *)
LEMMA EmitFailsInv ==
    ASSUME IInv, NEW bad, NEW sends \in Sends, EmitFails(bad, sends), faults' \in Nat
    PROVE  IInv'
  <1> DEFINE from == IF CanBegin(demo) THEN Overflow(demo) ELSE demo
             out == StopAndRemove(from, FALSE, bad, sends)
  <1>1. /\ Sound(demo) /\ Closed(demo, byes) /\ events \in Nat
        /\ time \in Nat /\ byes \subseteq 1 .. events
    BY InvParts DEF Good
  <1>2. Sound(from) /\ Closed(from, byes)
    BY <1>1, OverflowSound
  <1> HIDE DEF from
  <1>3. Sound(out) /\ Timely(out) /\ Closed(out, byes)
        /\ \A e, top : Ringing(out, e, top)
    BY <1>2, RemoveAll
  <1>4. Good(out, events + 1, byes)
    BY <1>3 DEF Good
  <1>5. demo' = out
    BY DEF EmitFails, from
  <1> HIDE DEF out
  <1>6. events + 1 \in 0 .. MaxEvents /\ byes \subseteq 1 .. events + 1
    BY <1>1, NextEvent DEF EmitFails
  <1> QED
    BY <1>1, <1>4, <1>5, <1>6, NextInv DEF EmitFails

(* dm with other files written through a cache.                            *)
Caching(dm, files) == [dm EXCEPT !.cached = files]

LEMMA CachingKeeps ==
    ASSUME NEW dm, NEW e, NEW bs, Good(dm, e, bs), NEW f \in Files,
           dm.fate[f] = "new", NEW files \in {dm.cached, dm.cached \cup {f}}
    PROVE  Good(Caching(dm, files), e, bs) /\ Caching(dm, files).fate = dm.fate
  <1> DEFINE out == Caching(dm, files)
  <1>1. /\ dm \in Demo /\ files \in SUBSET Files /\ f \in Dests
        /\ \A d \in Dests : Kept(dm, d)
        /\ \A d \in Dests : d # f => (d \in files <=> d \in dm.cached)
        /\ dm.cached \subseteq files
    BY DemoParts DEF Good, Sound, Dests
  <1>2. out = [dm EXCEPT !.cached = files]
    BY DEF Caching
  <1> HIDE DEF out
  <1>3. /\ out \in Demo /\ SameRing(dm, out) /\ out.mvdrecording = dm.mvdrecording
        /\ out.dest = dm.dest /\ out.wrote = dm.wrote /\ out.sent = dm.sent
        /\ out.error = dm.error /\ out.fate = dm.fate /\ out.cached = files
    BY ONLY <1>1, <1>2 DEF Demo, SameRing
  <1>4. ASSUME NEW d \in Dests PROVE Kept(out, d)
    <2>1. Kept(dm, d) /\ CacheUsed(out, d) = CacheUsed(dm, d)
      BY <1>1, <1>3 DEF CacheUsed
    <2>2. CASE d # f
      <3>1. Buffered(out, d) <=> Buffered(dm, d)
        BY <1>1, <1>3, <2>2 DEF Buffered
      <3> QED
        BY <1>3, <2>1, <3>1 DEF Kept
    <2>3. CASE d = f
      <3>1. dm.wrote[d] = <<>> /\ dm.sent[d] \in Nat /\ Cache \in Nat
        BY <1>1, <2>1, <2>3, DemoParts, Constants DEF Kept
      <3>2. dm.sent[d] = 0 /\ CacheUsed(out, d) = 0
        BY <2>1, <3>1 DEF Kept, CacheUsed
      <3> QED
        BY <1>3, <2>1, <3>1, <3>2 DEF Kept
    <2> QED
      BY <2>2, <2>3
  <1>5. Sound(out)
    BY <1>3, <1>4 DEF Good, Sound, SameRing
  <1>6. /\ out.mvdrecording => RingInv(out, e, out.parsecount)
        /\ out.parsecount = dm.parsecount
    BY <1>3, SameViews DEF Good, Ringing, SameRing
  <1>7. ASSUME NEW d \in out.dest, ~out.error[d]
        PROVE  Follows(out, out.wrote[d], e) /\ LastUpdate(out, out.wrote[d])
    <2>1. Follows(dm, out.wrote[d], e) /\ LastUpdate(dm, out.wrote[d])
      BY <1>3, <1>7 DEF Good, Ringing
    <2> QED
      BY <1>3, <2>1, SameViews
  <1>8. Timely(out)
    <2> SUFFICES ASSUME NEW g \in Files \cap out.dest, ~out.error[g]
                 PROVE  LastMark(out, out.wrote[g])
      BY DEF Timely
    <2>1. LastMark(dm, out.wrote[g])
      BY <1>3 DEF Good, Timely
    <2> QED
      BY <1>3, <2>1, SameViews
  <1>9. Closed(out, bs)
    BY <1>3 DEF Good, Closed, SameRing
  <1> QED
    BY <1>3, <1>5, <1>6, <1>7, <1>8, <1>9 DEF Good, Ringing, out

LEMMA RecordDestGood ==
    ASSUME NEW dm, NEW bs, Good(dm, events, bs), events \in Nat,
           NEW d \in Dests, dm.fate[d] = "new", NEW bad
    PROVE  Good(RecordDest(dm, d, bad), events, bs)
  <1> DEFINE out == RecordDest(dm, d, bad)
  <1>1. Sound(out) /\ Ringing(out, events, out.parsecount) /\ Timely(out)
        /\ Closed(out, bs)
    BY RecordDestKeeps DEF Good
  <1> HIDE DEF out
  <1> QED
    BY <1>1 DEF Good, out

LEMMA RecordFileInv ==
    ASSUME IInv, NEW bad, NEW sends, RecordFile(bad, sends), faults' \in Nat
    PROVE  IInv'
  <1>1. Good(demo, events, byes) /\ events \in Nat /\ time \in Nat
        /\ events \in 0 .. MaxEvents /\ byes \subseteq 1 .. events
    BY InvParts
  <1>2. PICK f \in Files : demo.fate[f] = "new" /\
           \E cached \in {demo.cached, demo.cached \cup {f}} :
              demo' = RecordDest([demo EXCEPT !.cached = cached], f, bad)
    BY DEF RecordFile
  <1>3. PICK cached \in {demo.cached, demo.cached \cup {f}} :
           demo' = RecordDest([demo EXCEPT !.cached = cached], f, bad)
    BY <1>2
  <1> DEFINE dm == Caching(demo, cached)
  <1>4. demo' = RecordDest(dm, f, bad)
    BY <1>3 DEF Caching
  <1>5. Good(dm, events, byes) /\ dm.fate[f] = "new" /\ f \in Dests
    BY <1>1, <1>2, CachingKeeps DEF Dests
  <1> HIDE DEF dm
  <1>6. Good(demo', events, byes)
    BY <1>1, <1>4, <1>5, RecordDestGood
  <1> QED
    BY <1>1, <1>6, NextInv DEF RecordFile

LEMMA StopFilesInv ==
    ASSUME IInv, NEW bad, NEW sends \in Sends, StopFiles(bad, sends), faults' \in Nat
    PROVE  IInv'
  <1> DEFINE out == Stop(demo, TRUE, events + 1, bad, sends)
  <1>1. /\ Sound(demo) /\ Ringing(demo, events, demo.parsecount) /\ Timely(demo)
        /\ Closed(demo, byes) /\ demo.mvdrecording /\ events \in Nat
        /\ time \in Nat
    BY InvParts DEF Good, StopFiles
  <1>2. /\ Sound(out) /\ Ringing(out, events + 1, out.parsecount)
        /\ Timely(out) /\ Closed(out, byes \cup {events + 1})
    BY <1>1, StopKeeps
  <1> HIDE DEF out
  <1>3. Good(out, events + 1, byes \cup {events + 1})
    BY <1>2 DEF Good
  <1>4. demo' = out
    BY DEF StopFiles, out
  <1>5. events + 1 \in 0 .. MaxEvents /\ byes \cup {events + 1} \subseteq 1 .. events + 1
    BY NextEvent DEF StopFiles
  <1> QED
    BY <1>1, <1>3, <1>4, <1>5, NextInv DEF StopFiles

LEMMA CancelFilesInv ==
    ASSUME IInv, NEW bad, NEW sends \in Sends, CancelFiles(bad, sends), faults' \in Nat
    PROVE  IInv'
  <1> DEFINE out == StopAndRemove(demo, TRUE, bad, sends)
  <1>1. /\ Sound(demo) /\ Ringing(demo, events, demo.parsecount) /\ Timely(demo)
        /\ Closed(demo, byes) /\ time \in Nat
        /\ events \in 0 .. MaxEvents /\ byes \subseteq 1 .. events
    BY InvParts DEF Good
  <1>2. demo \in Demo /\ \A d \in Dests : Kept(demo, d)
    BY <1>1 DEF Sound
  <1>3. Closes(demo, out, TRUE, TRUE)
    BY <1>2, DestCloses DEF StopAndRemove
  <1>4. demo' = out
    BY DEF CancelFiles
  <1> HIDE DEF out
  <1>5. Flushes(demo, out) /\ out.parsecount = demo.parsecount
    BY <1>3 DEF Closes, Flushes, SameRing
  <1>6. Sound(out) /\ Ringing(out, events, out.parsecount)
    BY <1>1, <1>5, FlushSound, FlushRinging
  <1>7. Timely(out) /\ Closed(out, byes)
    BY <1>1, <1>2, <1>3, ClosesTimely, RemovesClosed
  <1>8. Good(out, events, byes)
    BY <1>6, <1>7 DEF Good
  <1> QED
    BY <1>1, <1>4, <1>8, NextInv DEF CancelFiles

(* dm with more destinations failed.                                       *)
Failing(dm, error) == [dm EXCEPT !.error = error]

LEMMA FailingKeeps ==
    ASSUME NEW dm, NEW e, NEW bs, Good(dm, e, bs),
           NEW error \in [Dests -> BOOLEAN],
           \A d \in Dests : dm.error[d] => error[d]
    PROVE  Good(Failing(dm, error), e, bs)
  <1> DEFINE out == Failing(dm, error)
  <1>1. dm \in Demo /\ \A d \in Dests : Kept(dm, d)
    BY DEF Good, Sound
  <1>2. out = [dm EXCEPT !.error = error]
    BY DEF Failing
  <1> HIDE DEF out
  <1>3. /\ out \in Demo /\ SameRing(dm, out) /\ out.mvdrecording = dm.mvdrecording
        /\ out.dest = dm.dest /\ out.wrote = dm.wrote /\ out.sent = dm.sent
        /\ out.error = error /\ out.fate = dm.fate /\ out.cached = dm.cached
    BY ONLY <1>1, error \in [Dests -> BOOLEAN], <1>2 DEF Demo, SameRing
  <1>4. \A d \in Dests : Kept(out, d)
    BY <1>1, <1>3 DEF Kept, Buffered, CacheUsed
  <1>5. Sound(out)
    BY <1>3, <1>4 DEF Good, Sound, SameRing
  <1>6. /\ out.mvdrecording => RingInv(out, e, out.parsecount)
        /\ out.parsecount = dm.parsecount
    BY <1>3, SameViews DEF Good, Ringing, SameRing
  <1>7. ASSUME NEW d \in out.dest, ~out.error[d]
        PROVE  /\ Follows(out, out.wrote[d], e) /\ LastUpdate(out, out.wrote[d])
               /\ d \in Files => LastMark(out, out.wrote[d])
    <2>1. d \in Dests /\ d \in dm.dest /\ ~dm.error[d]
      BY <1>1, <1>3, <1>7, DemoParts
    <2>2. /\ Follows(dm, out.wrote[d], e) /\ LastUpdate(dm, out.wrote[d])
          /\ d \in Files => LastMark(dm, out.wrote[d])
      BY <1>3, <2>1 DEF Good, Ringing, Timely
    <2> QED
      BY <1>3, <2>2, SameViews
  <1>8. Closed(out, bs)
    BY <1>3 DEF Good, Closed, SameRing
  <1> QED
    BY <1>5, <1>6, <1>7, <1>8 DEF Good, Ringing, Timely, out

LEMMA CloseStreamsInv == ASSUME IInv, CloseStreams PROVE IInv'
  <1> DEFINE error == [d \in Dests |-> demo.error[d] \/ (d \in Streams /\ d \in demo.dest)]
  <1>1. /\ Good(demo, events, byes) /\ demo \in Demo
        /\ time \in Nat /\ faults \in Nat
        /\ events \in 0 .. MaxEvents /\ byes \subseteq 1 .. events
    BY InvParts DEF Good, Sound
  <1>2. demo.error \in [Dests -> BOOLEAN]
    BY <1>1, DemoParts
  <1>3. /\ error \in [Dests -> BOOLEAN]
        /\ \A d \in Dests : demo.error[d] => error[d]
    BY <1>2
  <1>4. demo' = Failing(demo, error)
    BY <1>1 DEF CloseStreams, Failing, Demo
  <1> HIDE DEF error
  <1>5. Good(demo', events, byes)
    BY <1>1, <1>3, <1>4, FailingKeeps
  <1> QED
    BY <1>1, <1>5, NextInv DEF CloseStreams

LEMMA MapChangeInv ==
    ASSUME IInv, NEW bad, NEW sends \in Sends, MapChange(bad, sends), faults' \in Nat
    PROVE  IInv'
  <1> DEFINE quiet == IF demo.mvdrecording
                      THEN Stop(demo, TRUE, events + 1, bad, sends) ELSE demo
             e == IF demo.mvdrecording THEN events + 1 ELSE events
             bs == IF demo.mvdrecording THEN byes \cup {events + 1} ELSE byes
             top == quiet.parsecount
             out == RecordMap(Flagged(quiet, FALSE), bad)
  <1>1. /\ Sound(demo) /\ Ringing(demo, events, demo.parsecount) /\ Timely(demo)
        /\ Closed(demo, byes) /\ events \in Nat /\ time \in Nat
        /\ events \in 0 .. MaxEvents /\ byes \subseteq 1 .. events
    BY InvParts DEF Good
  <1>2. /\ Sound(quiet) /\ Ringing(quiet, e, top)
        /\ ~quiet.spilled => quiet.dest = {} \/ Pending(quiet) = {}
        /\ quiet.dest \cap Files = {} /\ Closed(quiet, bs)
    <2>1. CASE demo.mvdrecording
      <3> DEFINE stopped == Stop(demo, TRUE, events + 1, bad, sends)
      <3>1. quiet = stopped /\ e = events + 1 /\ bs = byes \cup {events + 1}
        BY <2>1
      <3>2. /\ Sound(stopped) /\ Ringing(stopped, events + 1, stopped.parsecount)
            /\ Closed(stopped, byes \cup {events + 1})
            /\ ~stopped.spilled => Pending(stopped) = {}
            /\ stopped.dest \cap Files = {}
        BY <1>1, <2>1, StopKeeps
      <3> HIDE DEF stopped, quiet, e, bs
      <3> QED
        BY <3>1, <3>2
    <2>2. CASE ~demo.mvdrecording
      <3>1. demo.dest = {} /\ quiet = demo /\ e = events /\ bs = byes
        BY <1>1, <2>2 DEF Sound
      <3> HIDE DEF quiet, e, bs
      <3> QED
        BY <1>1, <3>1
    <2> QED
      BY <2>1, <2>2
  <1>3. demo' = out /\ events' = e /\ byes' = bs /\ time' = StartTime
    BY DEF MapChange, Flagged
  <1>4. e \in 0 .. MaxEvents /\ e \in Nat /\ bs \subseteq 1 .. e
    BY <1>1, NextEvent DEF MapChange
  <1> HIDE DEF quiet, e, bs, top
  <1>5. Sound(out) /\ Ringing(out, e, out.parsecount) /\ Timely(out) /\ Closed(out, bs)
    BY <1>1, <1>2, <1>4, RecordMapKeeps
  <1> HIDE DEF out
  <1>6. Good(out, e, bs)
    BY <1>5 DEF Good
  <1> QED
    BY <1>3, <1>4, <1>6, Constants, NextInv

LEMMA SendDemoMessageInv ==
    ASSUME IInv, NEW bad, NEW sends \in Sends, SendDemoMessage(bad, sends),
           faults' \in Nat
    PROVE  IInv'
  <1>1. /\ Good(demo, events, byes) /\ events \in Nat /\ time \in Nat
        /\ events \in 0 .. MaxEvents /\ byes \subseteq 1 .. events
    BY InvParts
  <1>2. PICK joined \in {demo} \cup {RecordDest(demo, s, bad) :
                                        s \in {x \in Streams : demo.fate[x] = "new"}} :
           demo' \in {SendFrame(joined, late, bad, sends) : late \in BOOLEAN}
    BY DEF SendDemoMessage
  <1>3. PICK late : demo' = SendFrame(joined, late, bad, sends)
    BY <1>2
  <1>4. Good(joined, events, byes)
    <2>1. CASE joined = demo
      BY <1>1, <2>1
    <2>2. CASE joined # demo
      <3>1. PICK s \in Streams : demo.fate[s] = "new" /\ joined = RecordDest(demo, s, bad)
        BY <2>2
      <3>2. s \in Dests
        BY DEF Dests
      <3> QED
        BY <1>1, <3>1, <3>2, RecordDestGood
    <2> QED
      BY <2>1, <2>2
  <1> DEFINE out == SendFrame(joined, late, bad, sends)
  <1>5. Sound(out) /\ Ringing(out, events, out.parsecount) /\ Timely(out)
        /\ Closed(out, byes)
    BY <1>1, <1>4, SendFrameKeeps DEF Good
  <1> HIDE DEF out
  <1>6. Good(out, events, byes)
    BY <1>5 DEF Good
  <1>7. demo' = out
    BY <1>3 DEF out
  <1> QED
    BY <1>1, <1>6, <1>7, NextInv DEF SendDemoMessage

LEMMA DestsFinite == ASSUME NEW b \in SUBSET Dests PROVE Cardinality(b) \in Nat
  <1>1. IsFiniteSet(Dests)
    BY FiniteAssumption, FS_Union DEF FiniteAssumption, Dests
  <1> QED
    BY <1>1, FS_Subset, FS_CardinalityType

LEMMA NextKeepsInv == IInv /\ [Next]_vars => IInv'
  <1> SUFFICES ASSUME IInv, [Next]_vars PROVE IInv'
    OBVIOUS
  <1>1. faults \in Nat
    BY InvParts
  <1>2. CASE Emit
    BY <1>2, EmitInv
  <1>3. CASE Outside(EmitFails)
    <2>1. PICK bad \in SUBSET Dests, sends \in Sends :
             EmitFails(bad, sends) /\ faults' = faults + Cardinality(bad)
      BY <1>3 DEF Outside, Sends
    <2> QED
      BY <1>1, <2>1, DestsFinite, EmitFailsInv
  <1>4. CASE Outside(RecordFile)
    <2>1. PICK bad \in SUBSET Dests, sends \in Sends :
             RecordFile(bad, sends) /\ faults' = faults + Cardinality(bad)
      BY <1>4 DEF Outside, Sends
    <2> QED
      BY <1>1, <2>1, DestsFinite, RecordFileInv
  <1>5. CASE Outside(StopFiles)
    <2>1. PICK bad \in SUBSET Dests, sends \in Sends :
             StopFiles(bad, sends) /\ faults' = faults + Cardinality(bad)
      BY <1>5 DEF Outside, Sends
    <2> QED
      BY <1>1, <2>1, DestsFinite, StopFilesInv
  <1>6. CASE Outside(CancelFiles)
    <2>1. PICK bad \in SUBSET Dests, sends \in Sends :
             CancelFiles(bad, sends) /\ faults' = faults + Cardinality(bad)
      BY <1>6 DEF Outside, Sends
    <2> QED
      BY <1>1, <2>1, DestsFinite, CancelFilesInv
  <1>7. CASE CloseStreams
    BY <1>7, CloseStreamsInv
  <1>8. CASE Outside(MapChange)
    <2>1. PICK bad \in SUBSET Dests, sends \in Sends :
             MapChange(bad, sends) /\ faults' = faults + Cardinality(bad)
      BY <1>8 DEF Outside, Sends
    <2> QED
      BY <1>1, <2>1, DestsFinite, MapChangeInv
  <1>9. CASE Outside(SendDemoMessage)
    <2>1. PICK bad \in SUBSET Dests, sends \in Sends :
             SendDemoMessage(bad, sends) /\ faults' = faults + Cardinality(bad)
      BY <1>9 DEF Outside, Sends
    <2> QED
      BY <1>1, <2>1, DestsFinite, SendDemoMessageInv
  <1>10. CASE UNCHANGED vars
    BY <1>10 DEF vars, IInv
  <1> QED
    BY <1>2, <1>3, <1>4, <1>5, <1>6, <1>7, <1>8, <1>9, <1>10 DEF Next

(* The state of the recording stays in shape, whatever joins, stops, fails *)
(* or overflows.                                                           *)
THEOREM RecordingInv == Spec => []IInv
  <1>1. Init => IInv
    BY InitInv
  <1> QED
    BY <1>1, NextKeepsInv, PTL DEF Spec
-----------------------------------------------------------------------------
(* What a user of the recordings is promised.                              *)

LEMMA InvTypes == IInv => TypeOK
  <1> SUFFICES ASSUME IInv PROVE TypeOK
    OBVIOUS
  <1>1. /\ demo \in Demo /\ demo.parsecount - demo.lastwritten \in 0 .. Lag + 1
        /\ \A d \in Dests : Kept(demo, d)
        /\ events \in 0 .. MaxEvents /\ byes \subseteq 1 .. events
    BY DEF IInv, Fine
  <1>2. ASSUME NEW d \in Dests
        PROVE  /\ \A i \in DOMAIN demo.wrote[d] : demo.wrote[d][i] \in Item
               /\ demo.sent[d] \in 0 .. Len(demo.wrote[d])
               /\ Buffered(demo, d) => CacheUsed(demo, d) <= Cache
               /\ demo.fate[d] \in {"new", "open", "closed", "removed", "dropped"}
               /\ (demo.fate[d] = "open") <=> (d \in demo.dest)
    <2>1. /\ demo.wrote[d] \in Seq(Item) /\ demo.sent[d] \in Nat
          /\ demo.fate[d] \in Fates /\ Kept(demo, d)
      BY <1>1, DemoParts
    <2> DEFINE w == demo.wrote[d]
    <2>2. (\A i \in DOMAIN w : w[i] \in Item) /\ Len(w) \in Nat
      BY <2>1
    <2> QED
      BY <2>1, <2>2 DEF Kept, Fates
  <1> QED
    BY <1>1, <1>2, DemoParts DEF TypeOK

LEMMA InvComplete ==
    ASSUME IInv, NEW d \in demo.dest, ~demo.error[d], ~demo.spilled
    PROVE  Complete(demo.wrote[d], demo, events)
  <1> DEFINE p == demo.parsecount
             l == demo.lastwritten
             m == p - l + 1
             w == demo.wrote[d]
             rest == Waiting(demo)
             all == w \o rest
  <1>1. /\ demo \in Demo /\ p - l \in 0 .. Lag + 1 /\ p \in Nat /\ l \in Nat
        /\ Lag \in Nat /\ events \in Nat
        /\ demo.mvdrecording <=> demo.dest # {}
    BY DemoParts, Constants DEF IInv, Fine
  <1>2. d \in Dests /\ w \in Seq(Item) /\ InOrder(w)
    BY <1>1, DemoParts DEF IInv, Fine, Written
  <1>3. Follows(demo, w, events) /\ Sorted(demo, events)
    BY <1>1 DEF IInv, Fine, RingInv
  <1>4. m \in Nat /\ m \in 0 .. p - l + 1
    BY <1>1
  <1>5. rest \in Seq(Item) /\ Len(rest) = m
        /\ \A j \in 1 .. m : rest[j] = FrameItem(demo, j - 1)
    <2>1. rest = [i \in 1 .. m |-> FrameItem(demo, i - 1)]
      BY DEF Waiting
    <2>2. ASSUME NEW i \in 1 .. m PROVE FrameItem(demo, i - 1) \in Item
      <3>1. i - 1 \in 0 .. p - l
        BY <1>1
      <3> QED
        BY <1>1, <3>1, FrameItemParts
    <2> HIDE DEF rest, m
    <2> QED
      BY ONLY <1>4, <2>1, <2>2
  <1> HIDE DEF rest, w
  <1>6. all \in Seq(Item) /\ Fed(demo, w, all, m)
    <2>1. all \in Seq(Item) /\ Len(all) = Len(w) + m /\ Len(w) \in Nat
      BY SMTT(30), <1>2, <1>5
    <2>2. \A i \in 1 .. Len(w) : all[i] = w[i]
      BY <1>2, <1>5
    <2>3. \A j \in 1 .. m : all[Len(w) + j] = FrameItem(demo, j - 1)
      BY <1>2, <1>4, <1>5
    <2>4. m # 0
      BY <1>1
    <2> QED
      BY <2>1, <2>2, <2>3, <2>4 DEF Fed
  <1> HIDE DEF all, m
  <1>7. InOrder(all)
    BY <1>1, <1>2, <1>3, <1>4, <1>6, FedInOrder DEF Follows
  <1>8. Given(all) = Given(w) \cup Pending(demo)
    <2>1. /\ Given(w) \subseteq Given(all)
          /\ \A k \in Ahead(demo) : k < l + m => Buf(demo, k) \subseteq Given(all)
          /\ \A x \in Given(all) :
                \/ x \in Given(w)
                \/ \E k \in Ahead(demo) : k < l + m /\ x \in Buf(demo, k)
      BY <1>1, <1>2, <1>4, <1>6, FedGiven
    <2>2. \A k \in Ahead(demo) : k < l + m
      BY <1>1 DEF Ahead, m
    <2> QED
      BY <2>1, <2>2 DEF Pending
  <1>9. Covers(Given(all), w[1].at, events)
    BY <1>3, <1>8 DEF Follows
  <1> QED
    BY <1>7, <1>9 DEF Complete, all, w, rest

(* The state has its types; the writer stays within Lag of the frame that  *)
(* is filled and no cache outgrows its room (SV_MVDWritePackets,           *)
(* DemoWrite).                                                             *)
THEOREM TypeCorrect == Spec => []TypeOK
  BY RecordingInv, InvTypes, PTL

(* No event is lost, repeated or reordered on its way from the game        *)
(* through the ring to a file or stream (SV_SendDemoMessage,               *)
(* SV_MVDWritePackets).                                                    *)
THEOREM NothingIsLost == Spec => []NothingLost
  <1>1. IInv => NothingLost
    <2> SUFFICES ASSUME IInv PROVE NothingLost
      OBVIOUS
    <2>1. \A d \in Dests : InOrder(demo.wrote[d])
      BY DEF IInv, Fine, Written
    <2>2. \A d \in demo.dest :
             ~demo.error[d] /\ ~demo.spilled => Complete(demo.wrote[d], demo, events)
      BY InvComplete
    <2> QED
      BY <2>1, <2>2, InvTypes DEF NothingLost
  <1> QED
    BY <1>1, RecordingInv, PTL

(* A file that a stop closed is whole and on disk (SV_MVDStop,             *)
(* DestCloseAllFlush).                                                     *)
THEOREM ClosedIsWhole == Spec => []ClosedWhole
  <1>1. IInv => ClosedWhole
    BY DEF IInv, Closed, ClosedWhole
  <1> QED
    BY <1>1, RecordingInv, PTL

(* The server records exactly while a destination is left (DestFlush,      *)
(* DestCloseAllFlush).                                                     *)
THEOREM RecordsForSomeone == Spec => []RecordingHasDest
  <1>1. IInv => RecordingHasDest
    BY DEF IInv, Fine, RecordingHasDest
  <1> QED
    BY <1>1, RecordingInv, PTL

(* In each file and stream the entity updates of a level build on one      *)
(* another (SV_EmitPacketEntities for demo.recorder).                      *)
THEOREM UpdatesChain == Spec => []DeltaChain
  <1>1. IInv => DeltaChain
    BY DEF IInv, Fine, Written, DeltaChain
  <1> QED
    BY <1>1, RecordingInv, PTL

(* The time marks of a file are those from frame to frame                  *)
(* (MVD_FrameDeltaTime, demo.prevtime).                                    *)
THEOREM MarksSayTime == Spec => []FileMarks
  <1>1. IInv => FileMarks
    BY DEF IInv, Fine, Written, FileMarks, Dests
  <1> QED
    BY <1>1, RecordingInv, PTL

---------------------------------------------------------------------------
(***************************************************************************)
(* Playback.                                                               *)
(***************************************************************************)

(* A set of numbers that is not empty has a least one: what induction over *)
(* the positions of a file rests on.                                       *)
LEMMA LeastNumber ==
  ASSUME NEW S \in SUBSET Nat, NEW n \in S
  PROVE  \E m \in S : \A k \in S : m <= k
<1> DEFINE Below(k) == 1 .. k
           T == {Below(k) : k \in S}
<1>1. T \subseteq FiniteSubsetsOf(Nat)
  <2> SUFFICES ASSUME NEW k \in S PROVE Below(k) \in FiniteSubsetsOf(Nat)
    OBVIOUS
  <2>1. IsFiniteSet(1 .. k)
    BY FS_Interval
  <2> QED BY <2>1 DEF FiniteSubsetsOf
<1>2. Below(n) \in T
  OBVIOUS
<1>3. \E x \in T : \A y \in T : ~ (<<y, x>> \in StrictSubsetOrdering(Nat))
  <2> HIDE DEF T
  <2> QED BY <1>1, <1>2, FS_StrictSubsetOrderingWellFounded, WFMin
<1>4. PICK m \in S : \A k \in S : ~ (<<Below(k), Below(m)>> \in StrictSubsetOrdering(Nat))
  BY <1>3
<1>5. ASSUME NEW k \in S, k < m PROVE FALSE
  <2>1. Below(k) \subseteq Below(m) /\ m \in Below(m) /\ m \notin Below(k)
    BY <1>5
  <2>2. Below(k) \in SUBSET Nat /\ Below(m) \in SUBSET Nat
    OBVIOUS
  <2> HIDE DEF Below
  <2>3. <<Below(k), Below(m)>> \in StrictSubsetOrdering(Nat)
    BY <2>1, <2>2 DEF StrictSubsetOrdering
  <2> QED BY <2>3, <1>4
<1> QED BY <1>5

(* The greater of two numbers.                                             *)
LEMMA MaxOfTwo ==
  ASSUME NEW a \in Int, NEW b \in Int
  PROVE  Max({a, b}) = IF a >= b THEN a ELSE b
<1>1. CASE a >= b
  <2>1. \A x \in {a, b} : (\A y \in {a, b} : x >= y) <=> x = a
    BY <1>1
  <2>2. (CHOOSE x \in {a, b} : \A y \in {a, b} : x >= y) = a
    BY <2>1
  <2> QED BY <1>1, <2>2 DEF Max
<1>2. CASE a < b
  <2>1. \A x \in {a, b} : (\A y \in {a, b} : x >= y) <=> x = b
    BY <1>2
  <2>2. (CHOOSE x \in {a, b} : \A y \in {a, b} : x >= y) = b
    BY <2>1
  <2> QED BY <1>2, <2>2 DEF Max
<1> QED BY <1>1, <1>2

(* A message of a file.                                                    *)
Messages == [since : Nat, kind : STRING]

(* The time a message is counted from is not before the last one.          *)
LEMMA CountedFromLater ==
  ASSUME NEW f, NEW m \in BOOLEAN, NEW k \in Nat, NEW t \in Int
  PROVE  /\ CountedFrom(f, m, k, t) \in Int
         /\ CountedFrom(f, m, k, t) >= t
<1>1. ServerTime \in Int
  BY DemoAssumption
<1> QED BY <1>1, MaxOfTwo DEF CountedFrom

(* The times of a file's messages exist as their recursion says.           *)
LEMMA TimesOfDefined ==
  ASSUME NEW f \in Seq(Messages), NEW m \in BOOLEAN, NEW s \in Nat
  PROVE  TimesOf(f, m, s) =
           [k \in 0 .. Len(f) |->
              IF k = 0 THEN s
              ELSE CountedFrom(f, m, k - 1, TimesOf(f, m, s)[k - 1]) + f[k].since]
<1> DEFINE Following(g, k) == CountedFrom(f, m, k - 1, g) + f[k].since
           F(n) == \E g : g = [k \in 0 .. n |-> IF k = 0 THEN s ELSE Following(g[k - 1], k)]
           Bad == {n \in Nat : ~F(n)}
<1>1. Bad = {}
  <2> SUFFICES ASSUME NEW x \in Bad PROVE FALSE
    OBVIOUS
  <2> HIDE DEF F, Following
  <2>1. PICK n \in Bad : \A k \in Bad : n <= k
    BY LeastNumber
  <2>2. n # 0
    <3> DEFINE g == [k \in 0 .. 0 |-> s]
    <3>1. g = [k \in 0 .. 0 |-> IF k = 0 THEN s ELSE Following(g[k - 1], k)]
      OBVIOUS
    <3> HIDE DEF g
    <3>2. F(0)
      BY <3>1 DEF F
    <3> QED BY <3>2
  <2>3. F(n - 1)
    BY <2>1, <2>2
  <2>4. PICK h : h = [k \in 0 .. n - 1 |-> IF k = 0 THEN s ELSE Following(h[k - 1], k)]
    BY <2>3 DEF F
  <2> DEFINE g == [k \in 0 .. n |-> IF k = n THEN Following(h[n - 1], n) ELSE h[k]]
  <2>5. g = [k \in 0 .. n |-> IF k = 0 THEN s ELSE Following(g[k - 1], k)]
    BY <2>2, <2>4
  <2> HIDE DEF g
  <2>6. F(n)
    BY <2>5 DEF F
  <2> QED BY <2>6
<1>2. F(Len(f))
  <2>1. Len(f) \in Nat
    OBVIOUS
  <2> HIDE DEF F
  <2> QED BY <2>1, <1>1
<1>3. QED
  BY <1>2 DEF TimesOf

(* The time of a message, from that of the one before it.                  *)
LEMMA TimesOfStep ==
  ASSUME NEW f \in Seq(Messages), NEW m \in BOOLEAN, NEW s \in Nat
  PROVE  /\ TimesOf(f, m, s)[0] = s
         /\ \A i \in 1 .. Len(f) :
              TimesOf(f, m, s)[i] =
                CountedFrom(f, m, i - 1, TimesOf(f, m, s)[i - 1]) + f[i].since
<1>1. Len(f) \in Nat
  OBVIOUS
<1> DEFINE T == TimesOf(f, m, s)
<1>2. T = [k \in 0 .. Len(f) |->
              IF k = 0 THEN s ELSE CountedFrom(f, m, k - 1, T[k - 1]) + f[k].since]
  BY TimesOfDefined
<1> HIDE DEF T
<1>3. T[0] = s /\ \A i \in 1 .. Len(f) : T[i] = CountedFrom(f, m, i - 1, T[i - 1]) + f[i].since
  BY <1>1, <1>2
<1> QED BY <1>3 DEF T

(* The messages of a file are in the order of their times.                 *)
LEMMA TimesGrow ==
  ASSUME NEW f \in Seq(Messages), NEW m \in BOOLEAN, NEW s \in Nat
  PROVE  /\ \A i \in 0 .. Len(f) : TimesOf(f, m, s)[i] \in Int
         /\ \A i, j \in 0 .. Len(f) : i <= j => TimesOf(f, m, s)[i] <= TimesOf(f, m, s)[j]
<1> DEFINE T == TimesOf(f, m, s)
           Rising(n) == /\ T[n] \in Int
                      /\ \A i \in 0 .. n : T[i] <= T[n]
           Bad == {n \in 0 .. Len(f) : ~Rising(n)}
<1>0. Len(f) \in Nat /\ \A i \in 1 .. Len(f) : f[i].since \in Nat
  <2>1. \A i \in 1 .. Len(f) : f[i] \in Messages
    BY ElementOfSeq
  <2>2. \A x \in Messages : x.since \in Nat
    BY DEF Messages
  <2> HIDE DEF T
  <2> QED BY <2>1, <2>2, LenProperties
<1>1. T[0] = s /\ \A i \in 1 .. Len(f) : T[i] = CountedFrom(f, m, i - 1, T[i - 1]) + f[i].since
  BY TimesOfStep
<1> HIDE DEF T
<1>2. Bad = {}
  <2> SUFFICES ASSUME NEW x \in Bad PROVE FALSE
    OBVIOUS
  <2> HIDE DEF Rising
  <2>1. PICK n \in Bad : \A k \in Bad : n <= k
    <3>1. Bad \in SUBSET Nat
      BY <1>0
    <3> HIDE DEF Bad
    <3> QED BY <3>1, LeastNumber
  <2>2. n # 0
    BY <1>1 DEF Rising
  <2>3. Rising(n - 1)
    BY <2>1, <2>2, <1>0
  <2>4. /\ CountedFrom(f, m, n - 1, T[n - 1]) \in Int
        /\ CountedFrom(f, m, n - 1, T[n - 1]) >= T[n - 1]
    BY <2>2, <2>3, <1>0, CountedFromLater DEF Rising
  <2>5. T[n] = CountedFrom(f, m, n - 1, T[n - 1]) + f[n].since /\ f[n].since \in Nat
    BY <2>2, <1>0, <1>1
  <2>6. n \in 1 .. Len(f)
    BY <2>2, <1>0
  <2>7. T[n - 1] \in Int /\ T[n] \in Int /\ T[n - 1] <= T[n]
    BY <2>3, <2>4, <2>5 DEF Rising
  <2>8. \A i \in 0 .. n : i = n \/ i \in 0 .. n - 1
    BY <2>6, <1>0
  <2>9. \A i \in 0 .. n - 1 : T[i] \in Int /\ T[i] <= T[n - 1]
    <3>1. \A i \in 0 .. n - 1 : i \notin Bad /\ i \in 0 .. Len(f)
      BY <2>1, <2>6, <1>0
    <3>2. \A i \in 0 .. n - 1 : Rising(i)
      BY <3>1
    <3> QED BY <3>2, <2>3 DEF Rising
  <2>10. \A i \in 0 .. n : T[i] <= T[n]
    BY <2>7, <2>8, <2>9
  <2>11. Rising(n)
    BY <2>7, <2>10 DEF Rising
  <2> QED BY <2>11
<1>3. \A n \in 0 .. Len(f) : Rising(n)
  BY <1>2
<1>4. \A i \in 0 .. Len(f) : T[i] \in Int
  BY <1>3, <1>0
<1>5. \A i, j \in 0 .. Len(f) : i <= j => T[i] <= T[j]
  BY <1>3, <1>0
<1> QED BY <1>4, <1>5 DEF T

(* What the client may know of a playback.                                 *)
Playback ==
    [pos : Nat, state : {"demostart", "onserver", "active", "none"},
     demotime : Int, demostarttime : Int, nextdemotime : Int,
     demopackettime : Int, paused : BOOLEAN,
     demoseeking : {"none", "normal", "mark", "found"},
     demorewinding : BOOLEAN, demo_rewindtime : Int, skipframe : BOOLEAN,
     at : {"drawn", "commands", "reading"}]

(* What the time of message i is counted from.                             *)
Base(u, i) == CountedFrom(played, mvd, i - 1, TimeFrom(u, i - 1))

(* All that was read is due at x.                                          *)
ReadBy(u, d, x) == \A i \in 1 .. d.pos - 1 : TimeFrom(u, i) <= x

(* What was read is due, came before the level was shown, or is what the   *)
(* clock of an MVD runs towards.                                           *)
Shown(u, d) == \A i \in 1 .. d.pos - 1 :
    \/ TimeFrom(u, i) <= d.demotime \/ TimeFrom(u, i) <= d.demostarttime
    \/ mvd /\ TimeFrom(u, i) = d.nextdemotime

(* demopackettime and nextdemotime are not past what the next message is   *)
(* counted from, and one of them is that: the other is behind by an        *)
(* svc_serverdata or a message that was read late.                         *)
Counted(u, d) ==
    /\ d.demopackettime <= Base(u, d.pos) /\ d.nextdemotime <= Base(u, d.pos)
    /\ Base(u, d.pos) \in {d.demopackettime, d.nextdemotime}

(* A seek that found its mark has looked at the message after it and       *)
(* jumped back without reading it.                                         *)
Peeking(u, d) ==
    /\ d.pos \in 2 .. Len(played) /\ played[d.pos - 1].kind = "mark"
    /\ d.nextdemotime = TimeFrom(u, d.pos) /\ d.demopackettime = Base(u, d.pos)
    /\ Seeking(d) /\ d.demoseeking # "found" /\ d.at # "reading"

(* The times an MVD's next message is counted from are those of the file,  *)
(* until the playback is stopped.                                          *)
Over(d) == d.state = "none" /\ d.at = "drawn"

FileTime(u, d) == mvd => Counted(u, d) \/ Peeking(u, d) \/ Over(d)

(* A rewind is part of a seek.                                             *)
RewindSeeks(d) == d.demorewinding => Seeking(d)

(* While the clock is set by a jump: what was read is due, or the next     *)
(* read sees that the time lies behind, or a rewind is on its way to the   *)
(* time.                                                                   *)
SeekTime(u, d) ==
    Active(d) =>
      IF ~Seeking(d) THEN Shown(u, d)
      ELSE IF d.demorewinding
      THEN \A i \in 1 .. d.pos - 1 :
              TimeFrom(u, i) <= d.demostarttime \/ TimeFrom(u, i) <= d.demostarttime + d.demo_rewindtime
      ELSE \/ Shown(u, d)
           \/ /\ d.at = "commands" \/ demo_paused
              /\ d.demotime < d.nextdemotime
           \/ /\ d.at # "reading"
              /\ \A i \in 1 .. d.pos - 1 :
                    TimeFrom(u, i) <= d.demostarttime \/ TimeFrom(u, i) <= d.nextdemotime

(* A mark that was found is the message read last; the clock was set past  *)
(* it and nothing past it was read.                                        *)
FoundMark(u, d) ==
    Found(d) =>
       /\ JumpRewind > 0 => d.pos > 1 /\ played[d.pos - 1].kind = "mark"
       /\ ~d.demorewinding =>
             /\ Active(d) /\ d.demotime > d.nextdemotime
             /\ ReadBy(u, d, d.nextdemotime)

(* After a frame the next message is not due.                              *)
Waits(u, d) ==
    d.at = "drawn" /\ ~demo_paused
    /\ Active(d) /\ ~Seeking(d) /\ ~d.paused /\ ~AtEnd(d)
    => d.demotime < TimeFrom(u, d.pos)

(* The time of the message read last is that of the file.                  *)
KeptTime(u, d) == mvd /\ d.at = "reading" => d.demopackettime = TimeFrom(u, d.pos - 1)

(* What holds of a playback that nothing is known to bend.                 *)
OnTrack(u, d) ==
    /\ FileTime(u, d) /\ KeptTime(u, d) /\ RewindSeeks(d) /\ SeekTime(u, d)
    /\ FoundMark(u, d) /\ Waits(u, d)

(* The inductive invariant of the playback.                                *)
PlaybackInv ==
    /\ played \in Demos /\ mvd \in BOOLEAN /\ clean \in BOOLEAN
    /\ asked \in Int /\ jumps \in Nat
    /\ kept \in Nat /\ demo_paused \in BOOLEAN
    /\ demo_paused => cls.at # "reading"
    /\ cls \in Playback /\ cls.pos \in 1 .. Len(played) + 1
    /\ clean => OnTrack(kept, cls)

(* The length of the file, and the times in it.                            *)
LEMMA FileSize ==
  ASSUME played \in Demos
  PROVE  /\ Len(played) \in Nat
         /\ \A i \in 1 .. Len(played) : played[i].since \in Nat
<1>1. played \in Seq(Messages)
  BY DemoAssumption DEF Messages
<1>2. \A i \in 1 .. Len(played) : played[i] \in Messages
  BY <1>1, ElementOfSeq
<1>3. \A x \in Messages : x.since \in Nat
  BY DEF Messages
<1> QED BY <1>1, <1>2, <1>3

(* The times of the file that is played: numbers, in order, each counted   *)
(* from its base.                                                          *)
LEMMA FileTimes ==
  ASSUME NEW u \in Nat, played \in Demos, mvd \in BOOLEAN
  PROVE  /\ Len(played) \in Nat
         /\ \A i \in 0 .. Len(played) : TimeFrom(u, i) \in Int
         /\ \A i, j \in 0 .. Len(played) : i <= j => TimeFrom(u, i) <= TimeFrom(u, j)
         /\ TimeFrom(u, 0) = IF mvd THEN u ELSE 0
         /\ \A i \in 1 .. Len(played) :
               TimeFrom(u, i) = Base(u, i) + played[i].since /\ played[i].since \in Nat
         /\ \A i \in 1 .. Len(played) + 1 : Base(u, i) \in Int /\ Base(u, i) >= TimeFrom(u, i - 1)
         /\ Base(u, 1) = IF mvd THEN u ELSE 0
         /\ \A i \in 1 .. Len(played) :
               Base(u, i + 1) = IF mvd /\ played[i].kind = "serverdata" /\ TimeFrom(u, i) < ServerTime
                               THEN ServerTime ELSE TimeFrom(u, i)
<1>1. played \in Seq(Messages)
  BY DemoAssumption DEF Messages
<1>2. Len(played) \in Nat
  BY <1>1
<1>3. \A i \in 1 .. Len(played) : played[i] \in Messages
  BY <1>1, ElementOfSeq
<1>4. \A x \in Messages : x.since \in Nat
  BY DEF Messages
<1>5. \A i \in 1 .. Len(played) : played[i].since \in Nat
  BY <1>3, <1>4
<1>6. /\ \A i \in 0 .. Len(played) : TimeFrom(u, i) \in Int
      /\ \A i, j \in 0 .. Len(played) : i <= j => TimeFrom(u, i) <= TimeFrom(u, j)
  BY <1>1, TimesGrow DEF TimeFrom
<1>7. TimeFrom(u, 0) = IF mvd THEN u ELSE 0
  BY <1>1, TimesOfStep DEF TimeFrom
<1>8. \A i \in 1 .. Len(played) : TimeFrom(u, i) = Base(u, i) + played[i].since
  BY <1>1, TimesOfStep DEF TimeFrom, Base
<1>9. \A i \in 1 .. Len(played) + 1 : Base(u, i) \in Int /\ Base(u, i) >= TimeFrom(u, i - 1)
  <2> SUFFICES ASSUME NEW i \in 1 .. Len(played) + 1
               PROVE  Base(u, i) \in Int /\ Base(u, i) >= TimeFrom(u, i - 1)
    OBVIOUS
  <2>1. i - 1 \in Nat /\ i - 1 \in 0 .. Len(played)
    BY <1>2
  <2>2. TimeFrom(u, i - 1) \in Int
    BY <2>1, <1>6
  <2> QED BY <2>1, <2>2, CountedFromLater DEF Base
<1>10. Base(u, 1) = IF mvd THEN u ELSE 0
  BY <1>7 DEF Base, CountedFrom
<1>11. ASSUME NEW i \in 1 .. Len(played)
       PROVE  Base(u, i + 1) = IF mvd /\ played[i].kind = "serverdata" /\ TimeFrom(u, i) < ServerTime
                              THEN ServerTime ELSE TimeFrom(u, i)
  <2>1. TimeFrom(u, i) \in Int /\ ServerTime \in Int
    BY <1>2, <1>6, DemoAssumption
  <2>2. i + 1 - 1 = i /\ i > 0
    BY <1>2
  <2> QED BY <2>1, <2>2, MaxOfTwo DEF Base, CountedFrom
<1> QED BY <1>2, <1>5, <1>6, <1>7, <1>8, <1>9, <1>10, <1>11

-----------------------------------------------------------------------------
(* The step Read: CL_Demo_Check_For_Rewind and the adjustment.               *)

(* The part of the invariant a read starts from.                           *)
PlayState ==
    /\ played \in Demos /\ mvd \in BOOLEAN /\ ~demo_paused
    /\ cls \in Playback /\ cls.pos \in 1 .. Len(played) + 1

(* CL_DemoPlaybackInit sets every field.                                   *)
LEMMA FreshPlayback ==
  ASSUME NEW t \in Int
  PROVE  Fresh(t) \in Playback
BY DEF Fresh, Playback

(* Starting over keeps the seek and forgets the rest.                      *)
LEMMA RestartedFields ==
  ASSUME NEW d \in Playback
  PROVE  /\ Restarted(d) \in Playback
         /\ Restarted(d).pos = 1 /\ Restarted(d).state = "demostart"
         /\ Restarted(d).nextdemotime = 0 /\ Restarted(d).demopackettime = 0
         /\ Restarted(d).demoseeking = d.demoseeking
         /\ Restarted(d).demorewinding = TRUE
         /\ Restarted(d).at = d.at
<1>1. Restarted(d) \in Playback
  <2>1. Fresh(0) \in Playback
    BY FreshPlayback
  <2> QED BY <2>1 DEF Playback, Restarted
<1>2. /\ Restarted(d).pos = 1 /\ Restarted(d).state = "demostart"
      /\ Restarted(d).nextdemotime = 0 /\ Restarted(d).demopackettime = 0
      /\ Restarted(d).demoseeking = d.demoseeking
      /\ Restarted(d).demorewinding = TRUE
      /\ Restarted(d).at = d.at
  BY DEF Restarted, Fresh
<1> QED BY <1>1, <1>2

(* The playback after CL_Demo_Check_For_Rewind.                            *)
Rewound(d) == CL_Demo_Check_For_Rewind(d)

(* It starts the file over, sets the clock to where the rewind goes, or    *)
(* does nothing.                                                           *)
LEMMA RewoundFields ==
  ASSUME NEW d \in Playback
  PROVE  \/ NeedsRewind(d) /\ Rewound(d) = Restarted(d)
         \/ /\ ~NeedsRewind(d) /\ d.demorewinding /\ Active(d)
            /\ Rewound(d) \in Playback
            /\ Rewound(d) = [d EXCEPT !.demotime = d.demostarttime + d.demo_rewindtime,
                                      !.demoseeking = "normal"]
         \/ /\ ~NeedsRewind(d) /\ ~(d.demorewinding /\ Active(d))
            /\ Rewound(d) = d
<1>1. CASE NeedsRewind(d)
  <2>1. ~Active(Restarted(d))
    BY RestartedFields DEF Active
  <2> QED BY <1>1, <2>1 DEF Rewound, CL_Demo_Check_For_Rewind
<1>2. CASE ~NeedsRewind(d) /\ d.demorewinding /\ Active(d)
  <2>1. Rewound(d) = [d EXCEPT !.demotime = d.demostarttime + d.demo_rewindtime,
                               !.demoseeking = "normal"]
    BY <1>2 DEF Rewound, CL_Demo_Check_For_Rewind
  <2>2. d.demostarttime + d.demo_rewindtime \in Int
    BY DEF Playback
  <2>3. Rewound(d) \in Playback
    BY <2>1, <2>2 DEF Playback
  <2> QED BY <1>2, <2>1, <2>3
<1>3. CASE ~NeedsRewind(d) /\ ~(d.demorewinding /\ Active(d))
  BY <1>3 DEF Rewound, CL_Demo_Check_For_Rewind
<1> QED BY <1>1, <1>2, <1>3

(* The adjustment moves two times of an MVD and nothing else.              *)
LEMMA AdjustedFields ==
  ASSUME NEW d \in Playback, mvd \in BOOLEAN
  PROVE  /\ Adjusted(d) \in Playback
         /\ Adjusted(d) = [d EXCEPT !.demopackettime = Adjusted(d).demopackettime,
                                    !.demotime = Adjusted(d).demotime]
         /\ mvd => /\ Adjusted(d).demopackettime =
                         IF d.demopackettime >= d.nextdemotime
                           THEN d.demopackettime ELSE d.nextdemotime
                   /\ Adjusted(d).demotime =
                         IF d.demotime >= d.nextdemotime - Second
                           THEN d.demotime ELSE d.nextdemotime - Second
         /\ ~mvd => Adjusted(d) = d
<1>1. Second \in Int
  BY DemoAssumption
<1>2. /\ d.demopackettime \in Int /\ d.nextdemotime \in Int /\ d.demotime \in Int
      /\ d.nextdemotime - Second \in Int
  BY <1>1 DEF Playback
<1>3. CASE ~mvd
  BY <1>3 DEF Adjusted, Playback
<1>4. CASE mvd
  <2> DEFINE p == Max({d.demopackettime, d.nextdemotime})
             x == Max({d.demotime, d.nextdemotime - Second})
  <2>1. p = IF d.demopackettime >= d.nextdemotime THEN d.demopackettime ELSE d.nextdemotime
    BY <1>2, MaxOfTwo
  <2>2. x = IF d.demotime >= d.nextdemotime - Second THEN d.demotime ELSE d.nextdemotime - Second
    BY <1>2, MaxOfTwo
  <2>3. Adjusted(d) = [d EXCEPT !.demopackettime = p, !.demotime = x]
    BY <1>4 DEF Adjusted
  <2>4. p \in Int /\ x \in Int
    BY <2>1, <2>2, <1>2
  <2> HIDE DEF p, x
  <2>5. /\ Adjusted(d) \in Playback
        /\ Adjusted(d).demopackettime = p /\ Adjusted(d).demotime = x
    BY <2>3, <2>4 DEF Playback
  <2> QED BY <1>4, <2>1, <2>2, <2>3, <2>5
<1> QED BY <1>3, <1>4

(* What was read comes before the time the rewind goes to.                 *)
Early(u, d) == \A i \in 1 .. d.pos - 1 :
    TimeFrom(u, i) <= d.demostarttime \/ TimeFrom(u, i) <= d.demostarttime + d.demo_rewindtime

(* What holds once rewinding has been looked at.                           *)
Unbent(u, d) ==
    /\ mvd => Counted(u, d)
    /\ RewindSeeks(d)
    /\ Active(d) /\ ~d.demorewinding => Shown(u, d)
    /\ Active(d) /\ d.demorewinding =>
          /\ Early(u, d) /\ ~Found(d)
          /\ d.demotime = d.demostarttime + d.demo_rewindtime
    /\ FoundMark(u, d)

(* Looking for a rewind: a restart counts from the start of the file, and  *)
(* a jump that needs none has all that was read behind it.                 *)
LEMMA RewoundUnbent ==
  ASSUME NEW u \in Nat, PlayState, OnTrack(u, cls), cls.at # "drawn", ~Drifts(Rewound(cls))
  PROVE  /\ Rewound(cls) \in Playback
         /\ Rewound(cls).pos \in 1 .. Len(played) + 1
         /\ Rewound(cls).at = cls.at
         /\ Unbent(IF NeedsRewind(cls) THEN 0 ELSE u, Rewound(cls))
<1> DEFINE r == Rewound(cls)
<1>0. cls \in Playback /\ played \in Demos /\ mvd \in BOOLEAN
  BY DEF PlayState
<1>1. CASE NeedsRewind(cls) /\ r = Restarted(cls)
  <2>1. /\ r \in Playback /\ r.pos = 1 /\ r.state = "demostart"
        /\ r.nextdemotime = 0 /\ r.demopackettime = 0
        /\ r.demoseeking = cls.demoseeking /\ r.demorewinding = TRUE
        /\ r.at = cls.at
    BY <1>0, <1>1, RestartedFields
  <2> HIDE DEF r
  <2>2. Seeking(cls) /\ ~cls.demorewinding /\ cls.demotime < cls.nextdemotime
    BY <1>1 DEF NeedsRewind
  <2>3. cls.demotime \in Int /\ cls.nextdemotime \in Int
    BY <1>0 DEF Playback
  <2>4. ~Found(cls)
    BY <2>2, <2>3 DEF OnTrack, FoundMark
  <2>5. ~Found(r) /\ Seeking(r) /\ ~Active(r)
    BY <2>1, <2>2, <2>4 DEF Found, Seeking, Active
  <2>6. Base(0, 1) = 0 /\ Len(played) \in Nat
    BY <1>0, FileTimes
  <2>7. Counted(0, r)
    BY <2>1, <2>6 DEF Counted
  <2>8. r.pos \in 1 .. Len(played) + 1
    BY <2>1, <2>6
  <2>9. Unbent(0, r)
    BY <2>5, <2>7 DEF Unbent, RewindSeeks, FoundMark
  <2> QED BY <1>1, <2>1, <2>8, <2>9 DEF r
<1>2. ASSUME ~NeedsRewind(cls), r.pos = cls.pos, r.demopackettime = cls.demopackettime,
             r.nextdemotime = cls.nextdemotime
      PROVE  mvd => Counted(u, r)
  <2> HIDE DEF r
  <2> SUFFICES ASSUME mvd PROVE Counted(u, r)
    OBVIOUS
  <2>1. CASE Counted(u, cls)
    BY <2>1, <1>2 DEF Counted
  <2>2. CASE Peeking(u, cls)
    <3>0. ~Drifts(r)
      BY DEF r
    <3>1. /\ cls.pos \in 2 .. Len(played) /\ played[cls.pos - 1].kind = "mark"
          /\ cls.nextdemotime = TimeFrom(u, cls.pos) /\ cls.demopackettime = Base(u, cls.pos)
      BY <2>2 DEF Peeking
    <3>2. r.demopackettime >= r.nextdemotime
      <4>1. r.demopackettime \in Int /\ r.nextdemotime \in Int
        BY <1>0, <1>2 DEF Playback
      <4> QED BY <3>0, <3>1, <1>2, <4>1 DEF Drifts
    <3>3. Base(u, cls.pos) \in Int /\ TimeFrom(u, cls.pos) \in Int
      <4>1. cls.pos \in 0 .. Len(played) /\ cls.pos \in 1 .. Len(played) + 1
        BY <1>0, <3>1, FileSize
      <4> QED BY <1>0, <4>1, FileTimes
    <3> QED BY <3>1, <3>2, <3>3, <1>2 DEF Counted
  <2>3. Counted(u, cls) \/ Peeking(u, cls)
    BY DEF OnTrack, FileTime, Over
  <2> QED BY <2>1, <2>2, <2>3
<1>3. CASE /\ ~NeedsRewind(cls) /\ cls.demorewinding /\ Active(cls)
           /\ r \in Playback
           /\ r = [cls EXCEPT !.demotime = cls.demostarttime + cls.demo_rewindtime,
                              !.demoseeking = "normal"]
  <2> HIDE DEF r
  <2>1. /\ r.pos = cls.pos /\ r.at = cls.at /\ r.state = cls.state
        /\ r.demopackettime = cls.demopackettime /\ r.nextdemotime = cls.nextdemotime
        /\ r.demoseeking = "normal" /\ r.demorewinding = cls.demorewinding
        /\ r.demostarttime = cls.demostarttime
        /\ r.demo_rewindtime = cls.demo_rewindtime
        /\ r.demotime = cls.demostarttime + cls.demo_rewindtime
    BY <1>0, <1>3 DEF Playback
  <2>2. mvd => Counted(u, r)
    BY <1>2, <1>3, <2>1 DEF r
  <2>3. Seeking(cls) /\ Early(u, cls)
    BY <1>3 DEF OnTrack, RewindSeeks, SeekTime, Early
  <2>4. Early(u, r)
    BY <2>1, <2>3 DEF Early
  <2>5. Seeking(r) /\ ~Found(r) /\ r.demorewinding
    BY <2>1, <1>3 DEF Seeking, Found
  <2>6. Unbent(u, r)
    BY <2>1, <2>2, <2>4, <2>5 DEF Unbent, RewindSeeks, FoundMark
  <2> QED BY <1>3, <2>1, <2>6 DEF r, PlayState
<1>4. CASE /\ ~NeedsRewind(cls) /\ ~(cls.demorewinding /\ Active(cls))
           /\ r = cls
  <2>1. mvd => Counted(u, cls)
    BY <1>2, <1>4
  <2>2. ASSUME Active(cls), ~cls.demorewinding PROVE Shown(u, cls)
    <3>1. CASE ~Seeking(cls)
      BY <2>2, <3>1 DEF OnTrack, SeekTime
    <3>2. CASE Seeking(cls)
      <4>1. cls.demotime \in Int /\ cls.nextdemotime \in Int /\ cls.demostarttime \in Int
        BY <1>0 DEF Playback
      <4>2. cls.demotime >= cls.nextdemotime
        BY <1>4, <2>2, <3>2, <4>1 DEF NeedsRewind
      <4>3. \/ Shown(u, cls)
            \/ \A i \in 1 .. cls.pos - 1 :
                  TimeFrom(u, i) <= cls.demostarttime \/ TimeFrom(u, i) <= cls.nextdemotime
        BY <2>2, <3>2, <4>1, <4>2 DEF OnTrack, SeekTime
      <4>4. \A i \in 1 .. cls.pos - 1 : TimeFrom(u, i) \in Int
        <5>1. cls.pos - 1 <= Len(played) /\ Len(played) \in Nat /\ cls.pos \in Nat
          BY FileSize, <1>0 DEF PlayState
        <5> QED BY FileTimes, <1>0, <5>1
      <4> QED BY <4>1, <4>2, <4>3, <4>4 DEF Shown
    <3> QED BY <3>1, <3>2
  <2>3. Unbent(u, cls)
    BY <1>4, <2>1, <2>2 DEF Unbent, OnTrack
  <2> QED BY <1>0, <1>4, <2>3 DEF PlayState
<1> QED BY <1>0, <1>1, <1>3, <1>4, RewoundFields

(* What holds before the next message is looked at: the time it is counted *)
(* from is that of the file.                                               *)
Ready(u, a) ==
    /\ mvd => a.demopackettime = Base(u, a.pos) /\ a.nextdemotime <= Base(u, a.pos)
    /\ RewindSeeks(a)
    /\ Active(a) /\ ~a.demorewinding => Shown(u, a)
    /\ Active(a) /\ a.demorewinding =>
          /\ Early(u, a) /\ ~Found(a)
          /\ \/ a.demotime = a.demostarttime + a.demo_rewindtime
             \/ /\ mvd /\ a.demotime = a.nextdemotime - Second
                /\ a.demotime >= a.demostarttime + a.demo_rewindtime
    /\ FoundMark(u, a)
    /\ a.at # "drawn"

(* The adjustment makes the time an MVD counts from that of the file.      *)
LEMMA AdjustedReady ==
  ASSUME NEW u \in Nat, played \in Demos, mvd \in BOOLEAN,
         NEW r \in Playback, r.pos \in 1 .. Len(played) + 1, r.at # "drawn", Unbent(u, r)
  PROVE  /\ Adjusted(r) \in Playback
         /\ Adjusted(r).pos \in 1 .. Len(played) + 1
         /\ Adjusted(r).at = r.at
         /\ Ready(u, Adjusted(r))
<1> DEFINE a == Adjusted(r)
<1>0. Second \in Nat
  BY DemoAssumption
<1>1. /\ a \in Playback
      /\ a = [r EXCEPT !.demopackettime = a.demopackettime, !.demotime = a.demotime]
      /\ mvd => /\ a.demopackettime =
                      IF r.demopackettime >= r.nextdemotime
                        THEN r.demopackettime ELSE r.nextdemotime
                /\ a.demotime =
                      IF r.demotime >= r.nextdemotime - Second
                        THEN r.demotime ELSE r.nextdemotime - Second
      /\ ~mvd => a = r
  BY AdjustedFields
<1> HIDE DEF a
<1>2. /\ a.pos = r.pos /\ a.at = r.at /\ a.state = r.state
      /\ a.nextdemotime = r.nextdemotime /\ a.demoseeking = r.demoseeking
      /\ a.demorewinding = r.demorewinding /\ a.demostarttime = r.demostarttime
      /\ a.demo_rewindtime = r.demo_rewindtime /\ a.paused = r.paused
  BY <1>1 DEF Playback
<1>3. /\ r.demotime \in Int /\ a.demotime \in Int /\ r.nextdemotime \in Int
      /\ r.demopackettime \in Int /\ r.demostarttime \in Int /\ r.demo_rewindtime \in Int
  BY <1>1 DEF Playback
<1>4. a.demotime >= r.demotime
  BY <1>0, <1>1, <1>3
<1>5. \A i \in 1 .. r.pos - 1 : TimeFrom(u, i) \in Int
  <2>1. r.pos - 1 <= Len(played) /\ Len(played) \in Nat /\ r.pos \in Nat
    BY FileSize
  <2> QED BY FileTimes, <2>1
<1>6. mvd => a.demopackettime = Base(u, a.pos) /\ a.nextdemotime <= Base(u, a.pos)
  <2> SUFFICES ASSUME mvd
               PROVE  a.demopackettime = Base(u, a.pos) /\ a.nextdemotime <= Base(u, a.pos)
    OBVIOUS
  <2>1. Counted(u, r)
    BY DEF Unbent
  <2>2. Base(u, r.pos) \in Int
    BY FileTimes
  <2> QED BY <1>1, <1>2, <1>3, <2>1, <2>2 DEF Counted
<1>7. RewindSeeks(a)
  BY <1>2 DEF Unbent, RewindSeeks, Seeking
<1>8. ASSUME Active(a), ~a.demorewinding PROVE Shown(u, a)
  <2>1. Shown(u, r)
    BY <1>2, <1>8 DEF Unbent, Active
  <2> QED BY <1>2, <1>3, <1>4, <1>5, <2>1 DEF Shown
<1>9. ASSUME Active(a), a.demorewinding
      PROVE  /\ Early(u, a) /\ ~Found(a)
             /\ \/ a.demotime = a.demostarttime + a.demo_rewindtime
                \/ /\ mvd /\ a.demotime = a.nextdemotime - Second
                   /\ a.demotime >= a.demostarttime + a.demo_rewindtime
  <2>1. /\ Early(u, r) /\ ~Found(r)
        /\ r.demotime = r.demostarttime + r.demo_rewindtime
    BY <1>2, <1>9 DEF Unbent, Active
  <2>2. Early(u, a) /\ ~Found(a)
    BY <1>2, <2>1 DEF Early, Found
  <2>3. CASE ~mvd
    BY <1>1, <2>1, <2>2, <2>3
  <2>4. CASE mvd
    BY <1>1, <1>2, <1>3, <1>4, <2>1, <2>2, <2>4
  <2> QED BY <2>3, <2>4
<1>10. FoundMark(u, a)
  <2>1. FoundMark(u, r)
    BY DEF Unbent
  <2> SUFFICES ASSUME Found(a)
               PROVE  /\ JumpRewind > 0 => a.pos > 1 /\ played[a.pos - 1].kind = "mark"
                      /\ ~a.demorewinding =>
                           /\ Active(a) /\ a.demotime > a.nextdemotime
                           /\ ReadBy(u, a, a.nextdemotime)
    BY DEF FoundMark
  <2>2. Found(r)
    BY <1>2 DEF Found
  <2> QED BY <1>2, <1>3, <1>4, <2>1, <2>2 DEF FoundMark, Active, ReadBy
<1>11. Ready(u, a)
  BY <1>2, <1>6, <1>7, <1>8, <1>9, <1>10 DEF Ready
<1> QED BY <1>1, <1>2, <1>11 DEF a

(* The time CL_PeekDemoTime finds is the message's time in the file.       *)
LEMMA PeekTime ==
  ASSUME NEW u \in Nat, played \in Demos, mvd \in BOOLEAN,
         NEW a \in Playback, a.pos \in 1 .. Len(played), Ready(u, a)
  PROVE  /\ CL_PeekDemoTime(a) = TimeFrom(u, a.pos)
         /\ TimeFrom(u, a.pos) \in Int /\ Base(u, a.pos) \in Int /\ Base(u, a.pos) <= TimeFrom(u, a.pos)
         /\ \A i \in 1 .. a.pos - 1 : TimeFrom(u, i) \in Int /\ TimeFrom(u, i) <= TimeFrom(u, a.pos)
<1>1. /\ TimeFrom(u, a.pos) = Base(u, a.pos) + played[a.pos].since
      /\ played[a.pos].since \in Nat /\ Base(u, a.pos) \in Int
  <2>1. a.pos \in 1 .. Len(played) + 1
    BY FileSize
  <2> QED BY <2>1, FileTimes
<1>2. CL_PeekDemoTime(a) = TimeFrom(u, a.pos)
  <2>1. CASE mvd
    BY <1>1, <2>1 DEF CL_PeekDemoTime, Ready
  <2>2. CASE ~mvd
    <3>1. (IF mvd THEN u ELSE 0) = (IF mvd THEN 0 ELSE 0)
      BY <2>2
    <3>2. TimeFrom(u, a.pos) = TimeFrom(0, a.pos)
      BY <3>1 DEF TimeFrom
    <3> QED BY <2>2, <3>2 DEF CL_PeekDemoTime
  <2> QED BY <2>1, <2>2
<1>3. Len(played) \in Nat /\ a.pos \in Nat
  BY FileSize
<1>4. \A i \in 1 .. a.pos - 1 : i \in 0 .. Len(played) /\ a.pos \in 0 .. Len(played) /\ i <= a.pos
  BY <1>3
<1>5. \A i \in 1 .. a.pos - 1 : TimeFrom(u, i) \in Int /\ TimeFrom(u, i) <= TimeFrom(u, a.pos)
  BY <1>4, FileTimes
<1> QED BY <1>1, <1>2, <1>5

(* Peeking moves nextdemotime only.                                        *)
LEMMA PeekedFields ==
  ASSUME NEW a \in Playback, NEW t \in Int, mvd \in BOOLEAN
  PROVE  /\ Peeked(a, t) \in Playback
         /\ Peeked(a, t) = [a EXCEPT !.nextdemotime = Peeked(a, t).nextdemotime]
         /\ Peeked(a, t).nextdemotime =
              IF IF mvd THEN a.demotime > a.nextdemotime /\ a.nextdemotime # t
                        ELSE t < a.demotime
              THEN t ELSE a.nextdemotime
BY DEF Peeked, Playback

(* At the end of the file the frame ends.                                  *)
LEMMA EndGood ==
  ASSUME NEW u \in Nat, played \in Demos, mvd \in BOOLEAN,
         NEW a \in Playback, a.pos \in 1 .. Len(played) + 1, AtEnd(a), Ready(u, a)
  PROVE  /\ [a EXCEPT !.at = "drawn"] \in Playback
         /\ [a EXCEPT !.at = "drawn"].pos \in 1 .. Len(played) + 1
         /\ OnTrack(u, [a EXCEPT !.at = "drawn"])
<1> DEFINE n == [a EXCEPT !.at = "drawn"]
<1>1. /\ n \in Playback /\ n.at = "drawn" /\ n.pos = a.pos /\ n.state = a.state
      /\ n.demotime = a.demotime /\ n.demostarttime = a.demostarttime
      /\ n.nextdemotime = a.nextdemotime /\ n.demopackettime = a.demopackettime
      /\ n.demoseeking = a.demoseeking /\ n.demorewinding = a.demorewinding
      /\ n.demo_rewindtime = a.demo_rewindtime
  BY DEF Playback
<1> HIDE DEF n
<1>2. FileTime(u, n)
  <2>1. Base(u, a.pos) \in Int
    BY FileTimes
  <2> QED BY <1>1, <2>1 DEF Ready, FileTime, Counted
<1>3. RewindSeeks(n)
  BY <1>1 DEF Ready, RewindSeeks, Seeking
<1>4. SeekTime(u, n)
  <2>1. Active(n) /\ ~n.demorewinding => Shown(u, n)
    BY <1>1 DEF Ready, Active, Shown
  <2>2. Active(n) /\ n.demorewinding => Early(u, n) /\ Seeking(n)
    BY <1>1, <1>3 DEF Ready, Active, Early, RewindSeeks
  <2> QED BY <2>1, <2>2, <1>3 DEF SeekTime, Early, RewindSeeks
<1>5. FoundMark(u, n)
  BY <1>1 DEF Ready, FoundMark, Found, Active, ReadBy
<1>6. Waits(u, n) /\ KeptTime(u, n)
  BY <1>1 DEF Waits, AtEnd, KeptTime
<1> QED BY <1>1, <1>2, <1>3, <1>4, <1>5, <1>6 DEF OnTrack, n

(* CL_Demo_Jump sets the clock and the seek.                               *)
LEMMA JumpFields ==
  ASSUME NEW d \in Playback, NEW t \in Int, NEW s \in {"normal", "mark"}
  PROVE  LET j == CL_Demo_Jump(d, t, s)
         IN  /\ j \in Playback
             /\ j.pos = d.pos /\ j.state = d.state
             /\ j.demotime = t /\ j.demoseeking = s
             /\ j.demostarttime = d.demostarttime
             /\ j.nextdemotime = d.nextdemotime
             /\ j.demopackettime = d.demopackettime
             /\ j.paused = d.paused /\ j.demorewinding = d.demorewinding
             /\ j.at = d.at
<1> DEFINE w == IF t < d.demotime THEN t - d.demostarttime ELSE d.demo_rewindtime
           j == CL_Demo_Jump(d, t, s)
<1>1. d.demostarttime \in Int /\ d.demo_rewindtime \in Int
  BY DEF Playback
<1>2. w \in Int
  BY <1>1
<1>3. j = [d EXCEPT !.demo_rewindtime = w, !.demotime = t, !.demoseeking = s]
  BY DEF CL_Demo_Jump
<1> HIDE DEF w, j
<1>4. /\ j \in Playback
      /\ j.pos = d.pos /\ j.state = d.state
      /\ j.demotime = t /\ j.demoseeking = s
      /\ j.demostarttime = d.demostarttime
      /\ j.nextdemotime = d.nextdemotime
      /\ j.demopackettime = d.demopackettime
      /\ j.paused = d.paused /\ j.demorewinding = d.demorewinding
      /\ j.at = d.at
  BY <1>2, <1>3 DEF Playback
<1> QED BY <1>4 DEF j

(* The jump back from a mark, -demo_jump_rewind before the next message.   *)
FoundJump(b, t) ==
    [CL_Demo_Jump([b EXCEPT !.demotime = t], t - JumpRewind, "normal")
        EXCEPT !.at = "drawn"]

(* It sets the clock and the seek.                                         *)
LEMMA FoundFields ==
  ASSUME NEW b \in Playback, NEW t \in Int
  PROVE  LET n == FoundJump(b, t)
         IN  /\ n \in Playback
             /\ n.pos = b.pos /\ n.state = b.state
             /\ n.nextdemotime = b.nextdemotime
             /\ n.demopackettime = b.demopackettime
             /\ n.demostarttime = b.demostarttime
             /\ n.demorewinding = b.demorewinding
             /\ n.demoseeking = "normal" /\ n.at = "drawn"
<1> DEFINE c == [b EXCEPT !.demotime = t]
           j == CL_Demo_Jump(c, t - JumpRewind, "normal")
           n == [j EXCEPT !.at = "drawn"]
<1>1. /\ c \in Playback /\ c.pos = b.pos /\ c.state = b.state
      /\ c.nextdemotime = b.nextdemotime /\ c.demopackettime = b.demopackettime
      /\ c.demostarttime = b.demostarttime /\ c.demorewinding = b.demorewinding
  BY DEF Playback
<1>2. t - JumpRewind \in Int /\ "normal" \in {"normal", "mark"}
  BY DemoAssumption
<1> HIDE DEF c
<1>3. /\ j \in Playback /\ j.pos = c.pos /\ j.state = c.state
      /\ j.nextdemotime = c.nextdemotime /\ j.demopackettime = c.demopackettime
      /\ j.demostarttime = c.demostarttime /\ j.demorewinding = c.demorewinding
      /\ j.demoseeking = "normal"
  BY <1>1, <1>2, JumpFields
<1> HIDE DEF j
<1>4. /\ n \in Playback /\ n.pos = j.pos /\ n.state = j.state
      /\ n.nextdemotime = j.nextdemotime /\ n.demopackettime = j.demopackettime
      /\ n.demostarttime = j.demostarttime /\ n.demorewinding = j.demorewinding
      /\ n.demoseeking = "normal" /\ n.at = "drawn"
  BY <1>3 DEF Playback
<1>5. FoundJump(b, t) = n
  BY DEF FoundJump, j, c
<1> HIDE DEF n
<1> QED BY <1>1, <1>3, <1>4, <1>5

(* After it nothing that was read is past nextdemotime: the next read      *)
(* rewinds or has all of it behind it.                                     *)
LEMMA FoundGood ==
  ASSUME NEW u \in Nat, played \in Demos, mvd \in BOOLEAN,
         NEW a \in Playback, a.pos \in 1 .. Len(played), Ready(u, a),
         NEW t, t = TimeFrom(u, a.pos), Found(a), JumpRewind > 0,
         NEW n \in Playback,
         n.pos = a.pos, n.state = a.state, n.demorewinding = a.demorewinding,
         n.demostarttime = a.demostarttime, n.demopackettime = a.demopackettime,
         n.demoseeking = "normal", n.at = "drawn",
         n.nextdemotime = a.nextdemotime \/ n.nextdemotime = t
  PROVE  n.pos \in 1 .. Len(played) + 1 /\ OnTrack(u, n)
<1>1. /\ t \in Int /\ Base(u, a.pos) \in Int /\ Base(u, a.pos) <= t
      /\ \A i \in 1 .. a.pos - 1 : TimeFrom(u, i) \in Int /\ TimeFrom(u, i) <= t
  BY PeekTime
<1>9. Found(a) /\ FoundMark(u, a)
  BY DEF Ready
<1>10. a.pos > 1 /\ played[a.pos - 1].kind = "mark"
  BY <1>9 DEF FoundMark
<1>11. Seeking(n) /\ ~Found(n)
  BY DEF Seeking, Found
<1>12. FileTime(u, n)
  <2> SUFFICES ASSUME mvd PROVE Counted(u, n) \/ Peeking(u, n)
    BY DEF FileTime
  <2>1. a.demopackettime = Base(u, a.pos) /\ a.nextdemotime <= Base(u, a.pos)
    BY DEF Ready
  <2>2. CASE n.nextdemotime = t
    <3>1. a.pos \in 2 .. Len(played)
      <4>1. Len(played) \in Nat
        BY FileTimes
      <4> QED BY <1>10, <4>1
    <3> QED BY <1>10, <1>11, <2>1, <2>2, <3>1 DEF Peeking
  <2>3. CASE n.nextdemotime = a.nextdemotime
    BY <1>1, <2>1, <2>3 DEF Counted
  <2> QED BY <2>2, <2>3
<1>13. RewindSeeks(n)
  BY <1>11 DEF RewindSeeks
<1>14. SeekTime(u, n)
  <2> SUFFICES ASSUME Active(n)
               PROVE  /\ ~n.demorewinding
                      /\ \A i \in 1 .. n.pos - 1 :
                           TimeFrom(u, i) <= n.demostarttime \/ TimeFrom(u, i) <= n.nextdemotime
    BY <1>11 DEF SeekTime
  <2>1. Active(a) /\ ~a.demorewinding
    BY <1>9 DEF Active, Ready
  <2>2. ReadBy(u, a, a.nextdemotime)
    BY <1>9, <2>1 DEF FoundMark
  <2> QED BY <1>1, <2>1, <2>2 DEF ReadBy
<1>15. FoundMark(u, n) /\ Waits(u, n) /\ KeptTime(u, n)
  BY <1>11 DEF FoundMark, Waits, KeptTime
<1>16. n.pos \in 1 .. Len(played) + 1
  <2>1. Len(played) \in Nat
    BY FileTimes
  <2> QED BY <2>1
<1> QED BY <1>12, <1>13, <1>14, <1>15, <1>16 DEF OnTrack

(* The playback after a found mark has set the clock and the goal was      *)
(* looked at.                                                              *)
Aimed(b, t) == AtGoal(IF Found(b) THEN [b EXCEPT !.demotime = t] ELSE b, t)

(* The seek ends at a message of time t.                                   *)
Reaches(b, t) ==
    Seeking(b) /\ Active(b) /\ (IF Found(b) THEN t ELSE b.demotime) <= t

(* Its fields.                                                             *)
LEMMA AimedFields ==
  ASSUME NEW b \in Playback, NEW t \in Int
  PROVE  LET g == Aimed(b, t)
         IN  /\ g \in Playback
             /\ g.pos = b.pos /\ g.state = b.state /\ g.paused = b.paused
             /\ g.nextdemotime = b.nextdemotime
             /\ g.demopackettime = b.demopackettime
             /\ g.demostarttime = b.demostarttime
             /\ g.demo_rewindtime = b.demo_rewindtime /\ g.at = b.at
             /\ g.demotime = IF Found(b) THEN t ELSE b.demotime
             /\ g.demoseeking = IF Reaches(b, t) THEN "none" ELSE b.demoseeking
             /\ g.demorewinding = IF Reaches(b, t) THEN FALSE ELSE b.demorewinding
<1> DEFINE c == IF Found(b) THEN [b EXCEPT !.demotime = t] ELSE b
           g == AtGoal(c, t)
<1>1. /\ c \in Playback /\ c.pos = b.pos /\ c.state = b.state /\ c.paused = b.paused
      /\ c.nextdemotime = b.nextdemotime /\ c.demopackettime = b.demopackettime
      /\ c.demostarttime = b.demostarttime
      /\ c.demo_rewindtime = b.demo_rewindtime /\ c.at = b.at
      /\ c.demotime = (IF Found(b) THEN t ELSE b.demotime)
      /\ c.demoseeking = b.demoseeking /\ c.demorewinding = b.demorewinding
  BY DEF Playback
<1>2. Aimed(b, t) = g
  BY DEF Aimed
<1> HIDE DEF c
<1>3. CASE Seeking(c) /\ c.demotime <= t /\ Active(c)
  <2>1. g = [c EXCEPT !.demoseeking = "none", !.demorewinding = FALSE]
    BY <1>3 DEF AtGoal
  <2>2. Reaches(b, t)
    BY <1>1, <1>3 DEF Reaches, Seeking, Active
  <2> HIDE DEF g
  <2>3. /\ g \in Playback
        /\ g.pos = c.pos /\ g.state = c.state /\ g.paused = c.paused
        /\ g.nextdemotime = c.nextdemotime
        /\ g.demopackettime = c.demopackettime
        /\ g.demostarttime = c.demostarttime
        /\ g.demo_rewindtime = c.demo_rewindtime /\ g.at = c.at
        /\ g.demotime = c.demotime
        /\ g.demoseeking = "none" /\ g.demorewinding = FALSE
    BY <1>1, <2>1 DEF Playback
  <2> QED BY <1>1, <1>2, <2>2, <2>3
<1>4. CASE ~(Seeking(c) /\ c.demotime <= t /\ Active(c))
  <2>1. g = c
    BY <1>4 DEF AtGoal
  <2>2. ~Reaches(b, t)
    BY <1>1, <1>4 DEF Reaches, Seeking, Active
  <2> QED BY <1>1, <1>2, <2>1, <2>2
<1> QED BY <1>3, <1>4

(* What holds before the playback decides whether to wait.                 *)
OnTarget(u, g, t) ==
    /\ mvd => /\ g.demopackettime = Base(u, g.pos) /\ g.nextdemotime <= t
              /\ g.nextdemotime # t => g.nextdemotime <= Base(u, g.pos)
    /\ RewindSeeks(g)
    /\ Active(g) /\ ~g.demorewinding => Shown(u, g)
    /\ Active(g) /\ g.demorewinding =>
          Early(u, g) /\ t < g.demostarttime + g.demo_rewindtime
    /\ Active(g) /\ Seeking(g) => g.demotime > t
    /\ Active(g) /\ g.nextdemotime # t =>
          IF mvd THEN g.demotime <= g.nextdemotime ELSE g.demotime <= t
    /\ Found(g) => JumpRewind = 0 /\ g.demorewinding /\ ~Active(g)
    /\ Seeking(g) /\ ~g.demorewinding => ~Warps(g)
    /\ g.at # "drawn"

(* A seek that goes on is past the message; one that ended has shown what  *)
(* is due.                                                                 *)
LEMMA AimedOnTarget ==
  ASSUME NEW u \in Nat, played \in Demos, mvd \in BOOLEAN,
         NEW a \in Playback, a.pos \in 1 .. Len(played), Ready(u, a),
         NEW t, t = TimeFrom(u, a.pos), ~(Found(a) /\ JumpRewind > 0),
         Seeking(a) /\ ~a.demorewinding => ~Warps(a),
         NEW g \in Playback,
         g.pos = a.pos, g.state = a.state, g.paused = a.paused,
         g.demostarttime = a.demostarttime, g.demopackettime = a.demopackettime,
         g.demo_rewindtime = a.demo_rewindtime, g.at = a.at,
         g.nextdemotime =
           IF IF mvd THEN a.demotime > a.nextdemotime /\ a.nextdemotime # t
                     ELSE t < a.demotime
           THEN t ELSE a.nextdemotime,
         g.demotime = (IF Found(a) THEN t ELSE a.demotime),
         g.demoseeking = (IF Reaches(a, t) THEN "none" ELSE a.demoseeking),
         g.demorewinding = (IF Reaches(a, t) THEN FALSE ELSE a.demorewinding)
  PROVE  OnTarget(u, g, t)
<1>1. /\ t \in Int /\ Base(u, a.pos) \in Int /\ Base(u, a.pos) <= t
      /\ \A i \in 1 .. a.pos - 1 : TimeFrom(u, i) \in Int /\ TimeFrom(u, i) <= t
  BY PeekTime
<1>2. /\ a.demotime \in Int /\ a.nextdemotime \in Int /\ a.demostarttime \in Int
      /\ a.demo_rewindtime \in Int /\ g.demotime \in Int /\ g.nextdemotime \in Int
      /\ JumpRewind \in Nat /\ Second \in Nat /\ Second > 0
  <2>1. \A d \in Playback : /\ d.demotime \in Int /\ d.nextdemotime \in Int
                            /\ d.demostarttime \in Int /\ d.demo_rewindtime \in Int
    BY DEF Playback
  <2>2. /\ a.demotime \in Int /\ a.nextdemotime \in Int /\ a.demostarttime \in Int
        /\ a.demo_rewindtime \in Int /\ g.demotime \in Int /\ g.nextdemotime \in Int
    BY <2>1
  <2> QED BY <2>2, DemoAssumption
<1>3. FoundMark(u, a) /\ RewindSeeks(a) /\ a.at # "drawn"
  BY DEF Ready
<1>4. mvd => a.demopackettime = Base(u, a.pos) /\ a.nextdemotime <= Base(u, a.pos)
  BY DEF Ready
<1>5. mvd => /\ g.demopackettime = Base(u, g.pos) /\ g.nextdemotime <= t
             /\ g.nextdemotime # t => g.nextdemotime <= Base(u, g.pos)
  BY <1>1, <1>2, <1>4
<1>6. RewindSeeks(g)
  BY <1>3 DEF RewindSeeks, Seeking
<1>7. Found(a) => JumpRewind = 0
  BY <1>2
<1>8. Active(a) <=> Active(g)
  BY DEF Active
<1>9. Seeking(g) => Seeking(a) /\ ~Reaches(a, t) /\ g.demoseeking = a.demoseeking
                    /\ g.demorewinding = a.demorewinding
  BY DEF Seeking
<1>10. Active(g) /\ Seeking(g) => g.demotime > t
  BY <1>2, <1>1, <1>8, <1>9 DEF Reaches
<1>11. Found(a) /\ Active(a) => ~a.demorewinding /\ a.demotime > a.nextdemotime
  <2>1. Found(a) /\ Active(a) => ~a.demorewinding
    BY DEF Ready
  <2> QED BY <2>1, <1>3 DEF FoundMark
<1>12. Active(g) /\ g.nextdemotime # t =>
          IF mvd THEN g.demotime <= g.nextdemotime ELSE g.demotime <= t
  BY <1>1, <1>2, <1>4, <1>8, <1>11
<1>13. Found(g) => JumpRewind = 0 /\ g.demorewinding /\ ~Active(g)
  <2> SUFFICES ASSUME Found(g) PROVE JumpRewind = 0 /\ g.demorewinding /\ ~Active(g)
    OBVIOUS
  <2>1. Seeking(g)
    BY DEF Found, Seeking
  <2>2. Found(a)
    BY <1>9, <2>1 DEF Found
  <2>3. ~Active(g)
    BY <1>1, <1>10, <2>1, <2>2
  <2>4. a.demorewinding
    BY <1>3, <1>8, <2>2, <2>3 DEF FoundMark
  <2> QED BY <1>7, <1>9, <2>1, <2>2, <2>3, <2>4
<1>14. Seeking(g) /\ ~g.demorewinding => ~Warps(g)
  BY <1>9 DEF Warps, Active
<1>15. ASSUME Active(g), ~a.demorewinding PROVE Shown(u, g)
  <2>1. Shown(u, a)
    BY <1>8, <1>15 DEF Ready
  <2>2. CASE Found(a)
    BY <1>1, <2>2 DEF Shown
  <2>3. CASE ~Found(a)
    BY <1>1, <1>2, <2>1, <2>3 DEF Shown
  <2> QED BY <2>2, <2>3
<1>16. ASSUME Active(g), a.demorewinding
       PROVE  /\ Early(u, a) /\ g.demotime = a.demotime
              /\ a.demotime >= a.demostarttime + a.demo_rewindtime
              /\ a.demotime > t => t < a.demostarttime + a.demo_rewindtime
  <2>1. /\ Early(u, a) /\ ~Found(a)
        /\ \/ a.demotime = a.demostarttime + a.demo_rewindtime
           \/ /\ mvd /\ a.demotime = a.nextdemotime - Second
              /\ a.demotime >= a.demostarttime + a.demo_rewindtime
    BY <1>8, <1>16 DEF Ready
  <2> QED BY <1>1, <1>2, <1>4, <2>1
<1>17. ASSUME Active(g), ~g.demorewinding PROVE Shown(u, g)
  <2>1. CASE ~a.demorewinding
    BY <1>15, <1>17, <2>1
  <2>2. CASE a.demorewinding
    <3>1. /\ Early(u, a) /\ g.demotime >= a.demostarttime + a.demo_rewindtime
      BY <1>16, <1>17, <2>2
    <3> QED BY <1>1, <1>2, <3>1 DEF Shown, Early
  <2> QED BY <2>1, <2>2
<1>18. ASSUME Active(g), g.demorewinding
       PROVE  Early(u, g) /\ t < g.demostarttime + g.demo_rewindtime
  <2>1. Seeking(g) /\ a.demorewinding
    BY <1>6, <1>9, <1>18 DEF RewindSeeks
  <2>2. Early(u, a) /\ t < a.demostarttime + a.demo_rewindtime
    BY <1>10, <1>16, <1>18, <2>1
  <2> QED BY <2>2 DEF Early
<1> QED BY <1>3, <1>5, <1>6, <1>10, <1>12, <1>13, <1>14, <1>17, <1>18 DEF OnTarget


(* CL_DemoShouldWeReadNextMessage moves the clock only.                    *)
LEMMA TimedFields ==
  ASSUME NEW g \in Playback, NEW t \in Int
  PROVE  LET h == Timed(g, t)
         IN  /\ h \in Playback
             /\ h.pos = g.pos /\ h.state = g.state /\ h.paused = g.paused
             /\ h.nextdemotime = g.nextdemotime
             /\ h.demopackettime = g.demopackettime
             /\ h.demostarttime = g.demostarttime
             /\ h.demo_rewindtime = g.demo_rewindtime /\ h.at = g.at
             /\ h.demoseeking = g.demoseeking
             /\ h.demorewinding = g.demorewinding
             /\ h.demotime = IF Warps(g) THEN t
                             ELSE IF ~mvd /\ g.demotime + Second < t
                             THEN t - Second ELSE g.demotime
<1> DEFINE x == IF Warps(g) THEN t
                ELSE IF ~mvd /\ g.demotime + Second < t
                THEN t - Second ELSE g.demotime
           h == Timed(g, t)
<1>1. g.demotime \in Int /\ t - Second \in Int
  BY DemoAssumption DEF Playback
<1>2. x \in Int
  BY <1>1
<1>3. h = [g EXCEPT !.demotime = x]
  <2>1. g = [g EXCEPT !.demotime = g.demotime]
    BY DEF Playback
  <2> QED BY <2>1 DEF Timed
<1> HIDE DEF x, h
<1>4. /\ h \in Playback
      /\ h.pos = g.pos /\ h.state = g.state /\ h.paused = g.paused
      /\ h.nextdemotime = g.nextdemotime
      /\ h.demopackettime = g.demopackettime
      /\ h.demostarttime = g.demostarttime
      /\ h.demo_rewindtime = g.demo_rewindtime /\ h.at = g.at
      /\ h.demoseeking = g.demoseeking
      /\ h.demorewinding = g.demorewinding
      /\ h.demotime = x
  BY <1>2, <1>3 DEF Playback
<1> QED BY <1>4 DEF h, x

(* Too early: the frame ends with the next message ahead of the clock.     *)
LEMMA EarlyGood ==
  ASSUME NEW u \in Nat, played \in Demos, mvd \in BOOLEAN,
         NEW g \in Playback, g.pos \in 1 .. Len(played),
         NEW t, t = TimeFrom(u, g.pos), OnTarget(u, g, t), TooEarly(g, t),
         NEW n \in Playback, n.at = "drawn",
         n.pos = g.pos, n.state = g.state, n.nextdemotime = g.nextdemotime,
         n.demopackettime = g.demopackettime, n.demostarttime = g.demostarttime,
         n.demoseeking = g.demoseeking, n.demorewinding = g.demorewinding,
         n.demotime = IF ~mvd /\ g.demotime + Second < t
                        THEN t - Second ELSE g.demotime
  PROVE  n.pos \in 1 .. Len(played) + 1 /\ OnTrack(u, n)
<1>1. /\ g.demotime \in Int /\ g.nextdemotime \in Int /\ Second \in Int /\ Second > 0
      /\ n.demotime \in Int
  <2>1. \A d \in Playback : d.demotime \in Int /\ d.nextdemotime \in Int
    BY DEF Playback
  <2> QED BY <2>1, DemoAssumption
<1>2. t \in Int /\ Base(u, g.pos) \in Int /\ Len(played) \in Nat
  <2>1. Len(played) \in Nat
    BY FileTimes
  <2>2. g.pos \in 0 .. Len(played) /\ g.pos \in 1 .. Len(played) + 1
    BY <2>1
  <2> QED BY <2>1, <2>2, FileTimes
<1>3. Active(g) /\ (IF mvd THEN g.nextdemotime < t ELSE g.demotime < t)
  BY DEF TooEarly, Warps
<1>4. g.demotime < t /\ (mvd => g.nextdemotime # t)
  BY <1>1, <1>2, <1>3 DEF OnTarget
<1>5. ~Seeking(g)
  BY <1>1, <1>2, <1>3, <1>4 DEF OnTarget
<1>6. ~Seeking(n) /\ ~Found(n) /\ ~n.demorewinding /\ ~g.demorewinding
  BY <1>5 DEF Seeking, Found, OnTarget, RewindSeeks
<1>7. g.demotime <= n.demotime /\ n.demotime < t
  BY <1>1, <1>2, <1>4
<1>8. FileTime(u, n)
  BY <1>2, <1>4 DEF FileTime, Counted, OnTarget
<1>9. Shown(u, n)
  <2>1. Shown(u, g)
    BY <1>3, <1>6 DEF OnTarget
  <2>2. \A i \in 1 .. g.pos - 1 : TimeFrom(u, i) \in Int
    <3>1. \A i \in 1 .. g.pos - 1 : i \in 0 .. Len(played)
      BY <1>2
    <3> QED BY <3>1, FileTimes
  <2> QED BY <1>1, <1>7, <2>1, <2>2 DEF Shown
<1>10. /\ SeekTime(u, n) /\ RewindSeeks(n) /\ FoundMark(u, n) /\ Waits(u, n)
       /\ KeptTime(u, n)
  BY <1>6, <1>7, <1>9 DEF SeekTime, RewindSeeks, FoundMark, Waits, KeptTime
<1>11. n.pos \in 1 .. Len(played) + 1
  BY <1>2
<1> QED BY <1>8, <1>10, <1>11 DEF OnTrack

(* What holds of the message that is read, before it is parsed.            *)
Taken(u, h, t) ==
    /\ h.demopackettime = t /\ h.at = "reading"
    /\ mvd => h.nextdemotime <= t
    /\ RewindSeeks(h)
    /\ Active(h) /\ ~h.demorewinding =>
          \A i \in 1 .. h.pos : \/ TimeFrom(u, i) <= h.demotime \/ TimeFrom(u, i) <= h.demostarttime
                                \/ mvd /\ TimeFrom(u, i) = h.nextdemotime
    /\ Active(h) /\ h.demorewinding =>
          \A i \in 1 .. h.pos : \/ TimeFrom(u, i) <= h.demostarttime
                                \/ TimeFrom(u, i) <= h.demostarttime + h.demo_rewindtime
    /\ ~Active(h) => h.demotime = t
    /\ Found(h) => JumpRewind = 0 /\ h.demorewinding
    /\ Seeking(h) /\ ~h.demorewinding =>
          Active(h) /\ h.demotime > t /\ h.nextdemotime = t

(* A message that is not too early is due, or the playback warps to it.    *)
LEMMA OnTargetTaken ==
  ASSUME NEW u \in Nat, played \in Demos, mvd \in BOOLEAN,
         NEW g \in Playback, g.pos \in 1 .. Len(played),
         NEW t, t = TimeFrom(u, g.pos), OnTarget(u, g, t), ~TooEarly(g, t),
         NEW h \in Playback,
         h.pos = g.pos, h.state = g.state, h.nextdemotime = g.nextdemotime,
         h.demopackettime = t, h.demostarttime = g.demostarttime,
         h.demo_rewindtime = g.demo_rewindtime,
         h.demoseeking = g.demoseeking, h.demorewinding = g.demorewinding,
         h.demotime = (IF Warps(g) THEN t
                       ELSE IF ~mvd /\ g.demotime + Second < t
                       THEN t - Second ELSE g.demotime),
         h.at = "reading"
  PROVE  Taken(u, h, t)
<1>1. /\ g.demotime \in Int /\ g.nextdemotime \in Int /\ Second \in Int /\ Second > 0
      /\ g.demostarttime \in Int /\ g.demo_rewindtime \in Int
  <2>1. \A d \in Playback : /\ d.demotime \in Int /\ d.nextdemotime \in Int
                            /\ d.demostarttime \in Int /\ d.demo_rewindtime \in Int
    BY DEF Playback
  <2> QED BY <2>1, DemoAssumption
<1>2. /\ t \in Int /\ Len(played) \in Nat
      /\ \A i \in 1 .. g.pos : TimeFrom(u, i) \in Int /\ TimeFrom(u, i) <= t
  <2>1. Len(played) \in Nat
    BY FileTimes
  <2>2. g.pos \in 0 .. Len(played) /\ \A i \in 1 .. g.pos : i \in 0 .. Len(played) /\ i <= g.pos
    BY <2>1
  <2> QED BY <2>1, <2>2, FileTimes
<1>3. ~Warps(g) => IF mvd THEN g.nextdemotime >= t ELSE g.demotime >= t
  BY <1>1, <1>2 DEF TooEarly
<1>4. ~Warps(g) => IF mvd THEN h.nextdemotime = t /\ h.demotime = g.demotime
                          ELSE h.demotime >= t /\ h.demotime = g.demotime
  <2>1. mvd => g.nextdemotime <= t
    BY DEF OnTarget
  <2> QED BY <1>1, <1>2, <1>3, <2>1
<1>5. Warps(g) => h.demotime = t
  OBVIOUS
<1>6. Active(h) <=> Active(g)
  BY DEF Active
<1>7. ASSUME Active(h), ~h.demorewinding, NEW i \in 1 .. h.pos
      PROVE  \/ TimeFrom(u, i) <= h.demotime \/ TimeFrom(u, i) <= h.demostarttime
             \/ mvd /\ TimeFrom(u, i) = h.nextdemotime
  <2>1. CASE Warps(g)
    BY <1>2, <1>5, <2>1
  <2>2. CASE ~Warps(g)
    <3>1. CASE ~mvd
      BY <1>1, <1>2, <1>4, <2>2, <3>1
    <3>2. CASE mvd /\ i = g.pos
      BY <1>4, <2>2, <3>2
    <3>3. CASE mvd /\ i # g.pos
      <4>1. Shown(u, g)
        BY <1>6, <1>7 DEF OnTarget
      <4>2. i \in 1 .. g.pos - 1
        BY <1>2, <3>3
      <4> QED BY <1>4, <2>2, <3>3, <4>1, <4>2 DEF Shown
    <3> QED BY <3>1, <3>2, <3>3
  <2> QED BY <2>1, <2>2
<1>8. ASSUME Active(h), h.demorewinding, NEW i \in 1 .. h.pos
      PROVE  \/ TimeFrom(u, i) <= h.demostarttime
             \/ TimeFrom(u, i) <= h.demostarttime + h.demo_rewindtime
  <2>1. t < g.demostarttime + g.demo_rewindtime
    BY <1>6, <1>8 DEF OnTarget
  <2> QED BY <1>1, <1>2, <2>1
<1>9. ~Active(h) => h.demotime = t
  BY <1>5, <1>6 DEF Warps
<1>10. RewindSeeks(h) /\ (Found(h) => JumpRewind = 0 /\ h.demorewinding)
  BY DEF OnTarget, RewindSeeks, Seeking, Found
<1>11. ASSUME Seeking(h), ~h.demorewinding
       PROVE  Active(h) /\ h.demotime > t /\ h.nextdemotime = t
  <2>1. ~Warps(g) /\ Seeking(g)
    BY <1>11 DEF OnTarget, Seeking
  <2>2. Active(g)
    BY <2>1 DEF Warps
  <2>3. g.demotime > t
    BY <2>1, <2>2 DEF OnTarget
  <2>4. g.nextdemotime # t => IF mvd THEN g.demotime <= g.nextdemotime ELSE g.demotime <= t
    BY <2>2 DEF OnTarget
  <2> QED BY <1>1, <1>2, <1>4, <1>6, <2>1, <2>2, <2>3, <2>4
<1>12. mvd => h.nextdemotime <= t
  BY DEF OnTarget
<1> QED BY <1>7, <1>8, <1>9, <1>10, <1>11, <1>12 DEF Taken


(* A playback that ended.                                                  *)
Stopped(h, n) ==
    /\ n.pos = 1 /\ n.state = "none" /\ n.nextdemotime = 0
    /\ n.demoseeking = "none"
    /\ n.demorewinding = FALSE /\ n.at = "drawn"

(* A playback that has read one message more.                              *)
TookIn(h, n) ==
    LET kind == played[h.pos].kind
    IN  /\ n.pos = h.pos + 1 /\ n.at = h.at
        /\ n.demotime = h.demotime /\ n.demopackettime = h.demopackettime
        /\ n.demo_rewindtime = h.demo_rewindtime
        /\ n.demorewinding = h.demorewinding
        /\ n.nextdemotime = IF mvd /\ kind = "serverdata" THEN ServerTime
                                                          ELSE h.nextdemotime
        /\ \/ n.demoseeking = h.demoseeking
           \/ kind = "mark" /\ h.demoseeking = "mark" /\ n.demoseeking = "found"
        /\ \/ /\ kind # "serverdata"
              /\ n.state = h.state /\ n.demostarttime = h.demostarttime
           \/ kind = "serverdata" /\ n.state = "onserver"
           \/ /\ kind = "entities" /\ h.state = "onserver" /\ n.state = "active"
              /\ n.demostarttime = h.demotime

(* Every message ends the playback or moves on by one.                     *)
LEMMA ParsedFields ==
  ASSUME NEW h \in Playback, mvd \in BOOLEAN
  PROVE  /\ Parsed(h) \in Playback
         /\ Stopped(h, Parsed(h)) \/ TookIn(h, Parsed(h))
<1> DEFINE e == [h EXCEPT !.pos = @ + 1]
           n == Parsed(h)
           kind == played[h.pos].kind
<1>1. /\ e \in Playback
      /\ e.pos = h.pos + 1 /\ e.at = h.at /\ e.state = h.state
      /\ e.demotime = h.demotime /\ e.demopackettime = h.demopackettime
      /\ e.demo_rewindtime = h.demo_rewindtime
      /\ e.demorewinding = h.demorewinding /\ e.nextdemotime = h.nextdemotime
      /\ e.demoseeking = h.demoseeking /\ e.demostarttime = h.demostarttime
  BY DEF Playback
<1>2. n = CASE kind = "serverdata" -> CL_ParseServerData(e)
            [] kind = "entities" -> Entities(e)
            [] kind = "mark" -> CL_ParseStufftext(e)
            [] kind = "disconnect" -> Disconnected(e)
            [] OTHER -> [e EXCEPT !.paused = kind = "pause"]
  BY DEF Parsed
<1> HIDE DEF e, n
<1>3. CASE kind = "serverdata"
  <2> DEFINE N == IF mvd THEN ServerTime ELSE e.nextdemotime
  <2>1. n = [e EXCEPT !.state = "onserver", !.paused = FALSE, !.nextdemotime = N]
    BY <1>1, <1>2, <1>3 DEF CL_ParseServerData, Playback
  <2>2. N \in Int
    BY <1>1, DemoAssumption DEF Playback
  <2>3. N = IF mvd /\ kind = "serverdata" THEN ServerTime ELSE h.nextdemotime
    BY <1>1, <1>3
  <2> HIDE DEF N
  <2>4. /\ n \in Playback
        /\ n.pos = e.pos /\ n.at = e.at /\ n.state = "onserver"
        /\ n.demotime = e.demotime /\ n.demopackettime = e.demopackettime
        /\ n.demo_rewindtime = e.demo_rewindtime
        /\ n.demorewinding = e.demorewinding /\ n.nextdemotime = N
        /\ n.demoseeking = e.demoseeking
    BY <1>1, <2>1, <2>2 DEF Playback
  <2>5. TookIn(h, n)
    BY <1>1, <1>3, <2>3, <2>4 DEF TookIn
  <2> QED BY <2>4, <2>5 DEF n
<1>4. CASE kind = "entities"
  <2>1. CASE e.state = "onserver"
    <3>1. n = [e EXCEPT !.state = "active", !.skipframe = TRUE,
                        !.demostarttime = e.demotime]
      BY <1>2, <1>4, <2>1 DEF Entities, CL_MakeActive
    <3>2. e.demotime \in Int
      BY <1>1 DEF Playback
    <3>3. /\ n \in Playback
          /\ n.pos = e.pos /\ n.at = e.at /\ n.state = "active"
          /\ n.demotime = e.demotime /\ n.demopackettime = e.demopackettime
          /\ n.demo_rewindtime = e.demo_rewindtime
          /\ n.demorewinding = e.demorewinding
          /\ n.nextdemotime = e.nextdemotime
          /\ n.demoseeking = e.demoseeking /\ n.demostarttime = e.demotime
      BY <1>1, <3>1, <3>2 DEF Playback
    <3>4. TookIn(h, n)
      BY <1>1, <1>4, <2>1, <3>3 DEF TookIn
    <3> QED BY <3>3, <3>4 DEF n
  <2>2. CASE e.state # "onserver"
    <3>1. n = e
      BY <1>2, <1>4, <2>2 DEF Entities
    <3>2. TookIn(h, n)
      BY <1>1, <1>4, <3>1 DEF TookIn
    <3> QED BY <1>1, <3>1, <3>2 DEF n
  <2> QED BY <2>1, <2>2
<1>5. CASE kind = "mark"
  <2> DEFINE s == IF e.demoseeking = "mark" THEN "found" ELSE e.demoseeking
  <2>1. n = [e EXCEPT !.demoseeking = s]
    BY <1>1, <1>2, <1>5 DEF CL_ParseStufftext, Playback
  <2>2. /\ s \in {"none", "normal", "mark", "found"}
        /\ \/ s = h.demoseeking
           \/ h.demoseeking = "mark" /\ s = "found"
    BY <1>1 DEF Playback
  <2> HIDE DEF s
  <2>3. /\ n \in Playback
        /\ n.pos = e.pos /\ n.at = e.at /\ n.state = e.state
        /\ n.demotime = e.demotime /\ n.demopackettime = e.demopackettime
        /\ n.demo_rewindtime = e.demo_rewindtime
        /\ n.demorewinding = e.demorewinding
        /\ n.nextdemotime = e.nextdemotime
        /\ n.demoseeking = s /\ n.demostarttime = e.demostarttime
    BY <1>1, <2>1, <2>2 DEF Playback
  <2>4. TookIn(h, n)
    BY <1>1, <1>5, <2>2, <2>3 DEF TookIn
  <2> QED BY <2>3, <2>4 DEF n
<1>6. CASE kind = "disconnect"
  <2>1. CASE e.state = "demostart"
    <3>1. n = e
      BY <1>2, <1>6, <2>1 DEF Disconnected
    <3>2. TookIn(h, n)
      BY <1>1, <1>6, <3>1 DEF TookIn
    <3> QED BY <1>1, <3>1, <3>2 DEF n
  <2>2. CASE e.state # "demostart"
    <3>1. n = [Fresh(e.demopackettime) EXCEPT !.state = "none"]
      BY <1>2, <1>6, <2>2 DEF Disconnected, CL_StopPlayback
    <3>2. n \in Playback
      <4>1. Fresh(e.demopackettime) \in Playback
        BY <1>1, FreshPlayback DEF Playback
      <4> QED BY <3>1, <4>1 DEF Playback
    <3>3. Stopped(h, n)
      BY <3>1 DEF Stopped, Fresh
    <3> QED BY <3>2, <3>3 DEF n
  <2> QED BY <2>1, <2>2
<1>7. CASE kind \notin {"serverdata", "entities", "mark", "disconnect"}
  <2> DEFINE p == (kind = "pause")
  <2>1. n = [e EXCEPT !.paused = p]
    BY <1>2, <1>7
  <2>2. p \in BOOLEAN
    OBVIOUS
  <2> HIDE DEF p
  <2>3. /\ n \in Playback
        /\ n.pos = e.pos /\ n.at = e.at /\ n.state = e.state
        /\ n.demotime = e.demotime /\ n.demopackettime = e.demopackettime
        /\ n.demo_rewindtime = e.demo_rewindtime
        /\ n.demorewinding = e.demorewinding
        /\ n.nextdemotime = e.nextdemotime
        /\ n.demoseeking = e.demoseeking /\ n.demostarttime = e.demostarttime
    BY <1>1, <2>1, <2>2 DEF Playback
  <2>4. TookIn(h, n)
    BY <1>1, <1>7, <2>3 DEF TookIn
  <2> QED BY <2>3, <2>4 DEF n
<1> QED BY <1>3, <1>4, <1>5, <1>6, <1>7

(* Reading a message that is due keeps the playback on track.              *)
LEMMA TakenGood ==
  ASSUME NEW u \in Nat, played \in Demos, mvd \in BOOLEAN,
         NEW h \in Playback, h.pos \in 1 .. Len(played),
         NEW t, t = TimeFrom(u, h.pos), Taken(u, h, t),
         NEW n \in Playback, Stopped(h, n) \/ TookIn(h, n)
  PROVE  OnTrack(u, n)
<1>1. CASE Stopped(h, n)
  <2>2. FileTime(u, n)
    BY <1>1 DEF Stopped, FileTime, Over
  <2>3. ~Active(n) /\ ~Seeking(n) /\ ~Found(n) /\ ~n.demorewinding
    BY <1>1 DEF Stopped, Active, Seeking, Found
  <2>4. KeptTime(u, n)
    BY <1>1 DEF Stopped, KeptTime
  <2> QED BY <2>2, <2>3, <2>4 DEF OnTrack, RewindSeeks, SeekTime, FoundMark, Waits
<1>2. CASE TookIn(h, n)
  <2> DEFINE kind == played[h.pos].kind
  <2>1. /\ n.pos = h.pos + 1 /\ n.at = "reading"
        /\ n.demotime = h.demotime /\ n.demopackettime = t
        /\ n.demo_rewindtime = h.demo_rewindtime
        /\ n.demorewinding = h.demorewinding
        /\ n.nextdemotime = IF mvd /\ kind = "serverdata" THEN ServerTime
                                                          ELSE h.nextdemotime
    BY <1>2 DEF TookIn, Taken
  <2>2. \/ n.demoseeking = h.demoseeking
        \/ kind = "mark" /\ h.demoseeking = "mark" /\ n.demoseeking = "found"
    BY <1>2 DEF TookIn
  <2>3. \/ /\ kind # "serverdata"
           /\ n.state = h.state /\ n.demostarttime = h.demostarttime
        \/ kind = "serverdata" /\ n.state = "onserver"
        \/ /\ kind = "entities" /\ h.state = "onserver" /\ n.state = "active"
           /\ n.demostarttime = h.demotime
    BY <1>2 DEF TookIn
  <2>4. Len(played) \in Nat /\ h.pos \in Nat /\ ServerTime \in Int /\ h.nextdemotime \in Int
    <3>1. Len(played) \in Nat
      BY FileTimes
    <3>2. \A d \in Playback : d.nextdemotime \in Int
      BY DEF Playback
    <3> QED BY <3>1, <3>2, DemoAssumption
  <2>5. /\ t \in Int
        /\ \A i \in 1 .. h.pos : TimeFrom(u, i) \in Int /\ TimeFrom(u, i) <= t
    <3>1. h.pos \in 0 .. Len(played) /\ \A i \in 1 .. h.pos : i \in 0 .. Len(played) /\ i <= h.pos
      BY <2>4
    <3> QED BY <3>1, FileTimes
  <2>6. Base(u, n.pos) = IF mvd /\ kind = "serverdata" /\ t < ServerTime THEN ServerTime ELSE t
    BY <2>1, FileTimes
  <2>7. Seeking(n) <=> Seeking(h)
    BY <2>2 DEF Seeking
  <2>8. RewindSeeks(n)
    BY <2>1, <2>7 DEF RewindSeeks, Taken
  <2>9. FileTime(u, n)
    <3> SUFFICES ASSUME mvd PROVE Counted(u, n)
      BY DEF FileTime
    <3>1. h.nextdemotime <= t
      BY DEF Taken
    <3>2. CASE kind = "serverdata"
      BY <2>1, <2>4, <2>5, <2>6, <3>2 DEF Counted
    <3>3. CASE kind # "serverdata"
      BY <2>1, <2>4, <2>5, <2>6, <3>1, <3>3 DEF Counted
    <3> QED BY <3>2, <3>3
  <2>10. kind # "serverdata" => n.nextdemotime = h.nextdemotime
    BY <2>1
  <2>11. Active(n) => kind # "serverdata"
    BY <2>3 DEF Active
  <2>12. n.pos - 1 = h.pos
    BY <2>1, <2>4
  <2>13. ASSUME Active(n), ~Active(h)
         PROVE  n.demostarttime = t /\ (Seeking(h) => h.demorewinding)
    BY <2>3, <2>13 DEF Active, Taken
  <2>14. SeekTime(u, n)
    <3> SUFFICES ASSUME Active(n)
                 PROVE  /\ ~n.demorewinding => Shown(u, n)
                        /\ n.demorewinding => Early(u, n)
      BY <2>8 DEF SeekTime, Early, RewindSeeks
    <3>1. CASE ~Active(h)
      BY <2>5, <2>12, <2>13, <3>1 DEF Shown, Early
    <3>2. CASE Active(h)
      <4>1. n.demostarttime = h.demostarttime
        BY <2>3, <3>2 DEF Active
      <4>2. ASSUME ~n.demorewinding PROVE Shown(u, n)
        <5>1. \A i \in 1 .. h.pos :
                 \/ TimeFrom(u, i) <= h.demotime \/ TimeFrom(u, i) <= h.demostarttime
                 \/ mvd /\ TimeFrom(u, i) = h.nextdemotime
          BY <2>1, <3>2, <4>2 DEF Taken
        <5>2. n.nextdemotime = h.nextdemotime
          BY <2>10, <2>11
        <5> QED BY <2>1, <2>12, <4>1, <5>1, <5>2 DEF Shown
      <4>3. ASSUME n.demorewinding PROVE Early(u, n)
        <5>1. \A i \in 1 .. h.pos :
                 \/ TimeFrom(u, i) <= h.demostarttime
                 \/ TimeFrom(u, i) <= h.demostarttime + h.demo_rewindtime
          BY <2>1, <3>2, <4>3 DEF Taken
        <5> QED BY <2>1, <2>12, <4>1, <5>1 DEF Early
      <4> QED BY <4>2, <4>3
    <3> QED BY <3>1, <3>2
  <2>15. FoundMark(u, n)
    <3> SUFFICES ASSUME Found(n) PROVE
            /\ JumpRewind > 0 => n.pos > 1 /\ played[n.pos - 1].kind = "mark"
            /\ ~n.demorewinding => /\ Active(n) /\ n.demotime > n.nextdemotime
                                   /\ ReadBy(u, n, n.nextdemotime)
      BY DEF FoundMark
    <3>1. CASE Found(h)
      <4>1. JumpRewind = 0 /\ h.demorewinding
        BY <3>1 DEF Taken
      <4> QED BY <2>1, <4>1
    <3>2. CASE kind = "mark" /\ h.demoseeking = "mark"
      <4>1. n.pos > 1 /\ played[n.pos - 1].kind = "mark"
        BY <2>1, <2>4, <2>12, <3>2
      <4>2. ASSUME ~n.demorewinding
            PROVE  /\ Active(n) /\ n.demotime > n.nextdemotime
                   /\ ReadBy(u, n, n.nextdemotime)
        <5>1. Active(h) /\ h.demotime > t /\ h.nextdemotime = t
          BY <2>1, <3>2, <4>2 DEF Taken, Seeking
        <5>2. Active(n) /\ n.nextdemotime = t
          BY <2>3, <2>10, <3>2, <5>1 DEF Active
        <5>3. ReadBy(u, n, t)
          BY <2>5, <2>12 DEF ReadBy
        <5> QED BY <2>1, <5>1, <5>2, <5>3
      <4> QED BY <4>1, <4>2
    <3> QED BY <2>2, <3>1, <3>2 DEF Found
  <2>16. Waits(u, n) /\ KeptTime(u, n)
    BY <2>1, <2>12 DEF Waits, KeptTime
  <2> QED BY <2>8, <2>9, <2>14, <2>15, <2>16 DEF OnTrack
<1> QED BY <1>1, <1>2


(* The read, from the adjusted playback on.                                *)
Result(a) ==
    LET t == CL_PeekDemoTime(a)
        b == Peeked(a, t)
        g == Aimed(b, t)
    IN  IF AtEnd(a) THEN [a EXCEPT !.at = "drawn"]
        ELSE IF Found(b) /\ JumpRewind > 0 THEN FoundJump(b, t)
        ELSE IF TooEarly(g, t) THEN [Timed(g, t) EXCEPT !.at = "drawn"]
        ELSE Parsed([Timed(g, t) EXCEPT !.at = "reading", !.demopackettime = t])

(* Peeking moves nextdemotime, and what the seek decides on stays.         *)
LEMMA PeekedOnly ==
  ASSUME NEW a \in Playback, NEW t \in Int, mvd \in BOOLEAN
  PROVE  LET b == Peeked(a, t)
         IN  /\ b \in Playback
             /\ b.pos = a.pos /\ b.state = a.state /\ b.paused = a.paused
             /\ b.demopackettime = a.demopackettime /\ b.demotime = a.demotime
             /\ b.demostarttime = a.demostarttime
             /\ b.demo_rewindtime = a.demo_rewindtime /\ b.at = a.at
             /\ b.demoseeking = a.demoseeking
             /\ b.demorewinding = a.demorewinding
             /\ b.nextdemotime =
                  IF IF mvd THEN a.demotime > a.nextdemotime /\ a.nextdemotime # t
                            ELSE t < a.demotime
                  THEN t ELSE a.nextdemotime
             /\ (Found(b) <=> Found(a)) /\ (Reaches(b, t) <=> Reaches(a, t))
<1> DEFINE b == Peeked(a, t)
           x == IF IF mvd THEN a.demotime > a.nextdemotime /\ a.nextdemotime # t
                          ELSE t < a.demotime
                THEN t ELSE a.nextdemotime
<1>1. b = [a EXCEPT !.nextdemotime = x]
  BY DEF Peeked
<1>2. x \in Int
  BY DEF Playback
<1> HIDE DEF b, x
<1>3. /\ b \in Playback
      /\ b.pos = a.pos /\ b.state = a.state /\ b.paused = a.paused
      /\ b.demopackettime = a.demopackettime /\ b.demotime = a.demotime
      /\ b.demostarttime = a.demostarttime
      /\ b.demo_rewindtime = a.demo_rewindtime /\ b.at = a.at
      /\ b.demoseeking = a.demoseeking
      /\ b.demorewinding = a.demorewinding
      /\ b.nextdemotime = x
  BY <1>1, <1>2 DEF Playback
<1>4. (Found(b) <=> Found(a)) /\ (Reaches(b, t) <=> Reaches(a, t))
  BY <1>3 DEF Found, Reaches, Seeking, Active
<1> QED BY <1>3, <1>4 DEF b, x

(* A read keeps the playback on track, whichever way it ends.              *)
LEMMA ResultGood ==
  ASSUME NEW u \in Nat, played \in Demos, mvd \in BOOLEAN,
         NEW a \in Playback, a.pos \in 1 .. Len(played) + 1
  PROVE  /\ Result(a) \in Playback
         /\ Result(a).pos \in 1 .. Len(played) + 1
         /\ ~AtEnd(a) => CL_PeekDemoTime(a) \in Int
         /\ Ready(u, a) /\ (Seeking(a) /\ ~a.demorewinding => ~Warps(a))
            => OnTrack(u, Result(a))
<1>1. CASE AtEnd(a)
  <2> DEFINE n == [a EXCEPT !.at = "drawn"]
  <2>1. n \in Playback /\ n.pos = a.pos
    BY DEF Playback
  <2>2. Result(a) = n
    BY <1>1 DEF Result
  <2>3. Ready(u, a) => OnTrack(u, n)
    BY <1>1, EndGood
  <2> HIDE DEF n
  <2> QED BY <1>1, <2>1, <2>2, <2>3
<1>2. CASE ~AtEnd(a)
  <2> DEFINE t == CL_PeekDemoTime(a)
             b == Peeked(a, t)
             g == Aimed(b, t)
  <2>1. Len(played) \in Nat /\ a.pos \in 1 .. Len(played)
    <3>1. Len(played) \in Nat
      BY FileSize
    <3> QED BY <1>2, <3>1 DEF AtEnd
  <2>2. t \in Int
    <3>1. TimeFrom(0, a.pos) \in Int /\ played[a.pos].since \in Nat
      <4>1. a.pos \in 0 .. Len(played)
        BY <2>1
      <4> QED BY <2>1, <4>1, FileTimes, FileSize
    <3>2. a.demopackettime \in Int
      BY DEF Playback
    <3> QED BY <3>1, <3>2 DEF CL_PeekDemoTime
  <2>3. Ready(u, a) => t = TimeFrom(u, a.pos)
    BY <2>1, PeekTime
  <2>4. Result(a) =
          IF Found(b) /\ JumpRewind > 0 THEN FoundJump(b, t)
          ELSE IF TooEarly(g, t) THEN [Timed(g, t) EXCEPT !.at = "drawn"]
          ELSE Parsed([Timed(g, t) EXCEPT !.at = "reading", !.demopackettime = t])
    BY <1>2 DEF Result
  <2>5. CL_PeekDemoTime(a) \in Int
    BY <2>2
  <2> HIDE DEF t
  <2>6. /\ b \in Playback
        /\ b.pos = a.pos /\ b.state = a.state /\ b.paused = a.paused
        /\ b.demopackettime = a.demopackettime /\ b.demotime = a.demotime
        /\ b.demostarttime = a.demostarttime
        /\ b.demo_rewindtime = a.demo_rewindtime /\ b.at = a.at
        /\ b.demoseeking = a.demoseeking
        /\ b.demorewinding = a.demorewinding
        /\ b.nextdemotime =
             (IF IF mvd THEN a.demotime > a.nextdemotime /\ a.nextdemotime # t
                        ELSE t < a.demotime
              THEN t ELSE a.nextdemotime)
        /\ (Found(b) <=> Found(a)) /\ (Reaches(b, t) <=> Reaches(a, t))
    BY <2>2, PeekedOnly
  <2> HIDE DEF b
  <2>7. /\ g \in Playback
        /\ g.pos = b.pos /\ g.state = b.state /\ g.paused = b.paused
        /\ g.nextdemotime = b.nextdemotime
        /\ g.demopackettime = b.demopackettime
        /\ g.demostarttime = b.demostarttime
        /\ g.demo_rewindtime = b.demo_rewindtime /\ g.at = b.at
        /\ g.demotime = (IF Found(b) THEN t ELSE b.demotime)
        /\ g.demoseeking = (IF Reaches(b, t) THEN "none" ELSE b.demoseeking)
        /\ g.demorewinding = (IF Reaches(b, t) THEN FALSE ELSE b.demorewinding)
    BY <2>2, <2>6, AimedFields
  <2> HIDE DEF g
  <2>8. CASE Found(b) /\ JumpRewind > 0
    <3> DEFINE n == FoundJump(b, t)
    <3>1. /\ n \in Playback
          /\ n.pos = b.pos /\ n.state = b.state
          /\ n.nextdemotime = b.nextdemotime
          /\ n.demopackettime = b.demopackettime
          /\ n.demostarttime = b.demostarttime
          /\ n.demorewinding = b.demorewinding
          /\ n.demoseeking = "normal" /\ n.at = "drawn"
      BY <2>2, <2>6, FoundFields
    <3>2. Result(a) = n
      BY <2>4, <2>8
    <3> HIDE DEF n
    <3>3. n.pos = a.pos /\ n.pos \in 1 .. Len(played) + 1
      BY <2>6, <3>1
    <3>4. ASSUME Ready(u, a) PROVE OnTrack(u, n)
      <4>1. /\ n.state = a.state /\ n.demorewinding = a.demorewinding
            /\ n.demostarttime = a.demostarttime /\ n.demopackettime = a.demopackettime
            /\ n.nextdemotime = a.nextdemotime \/ n.nextdemotime = t
        BY <2>6, <3>1
      <4> QED BY <2>1, <2>3, <2>6, <2>8, <3>1, <3>3, <3>4, <4>1, FoundGood
    <3> QED BY <2>5, <3>1, <3>2, <3>3, <3>4
  <2> DEFINE e == Timed(g, t)
  <2>9. /\ e \in Playback
        /\ e.pos = g.pos /\ e.state = g.state /\ e.paused = g.paused
        /\ e.nextdemotime = g.nextdemotime
        /\ e.demopackettime = g.demopackettime
        /\ e.demostarttime = g.demostarttime
        /\ e.demo_rewindtime = g.demo_rewindtime /\ e.at = g.at
        /\ e.demoseeking = g.demoseeking
        /\ e.demorewinding = g.demorewinding
        /\ e.demotime = (IF Warps(g) THEN t
                         ELSE IF ~mvd /\ g.demotime + Second < t
                         THEN t - Second ELSE g.demotime)
    BY <2>2, <2>7, TimedFields
  <2> HIDE DEF e
  <2>10. ASSUME ~(Found(b) /\ JumpRewind > 0), Ready(u, a),
                Seeking(a) /\ ~a.demorewinding => ~Warps(a)
         PROVE  OnTarget(u, g, t)
    <3>1. /\ g.pos = a.pos /\ g.state = a.state /\ g.paused = a.paused
          /\ g.demostarttime = a.demostarttime /\ g.demopackettime = a.demopackettime
          /\ g.demo_rewindtime = a.demo_rewindtime /\ g.at = a.at
          /\ g.nextdemotime =
               (IF IF mvd THEN a.demotime > a.nextdemotime /\ a.nextdemotime # t
                          ELSE t < a.demotime
                THEN t ELSE a.nextdemotime)
          /\ g.demotime = (IF Found(a) THEN t ELSE a.demotime)
          /\ g.demoseeking = (IF Reaches(a, t) THEN "none" ELSE a.demoseeking)
          /\ g.demorewinding = (IF Reaches(a, t) THEN FALSE ELSE a.demorewinding)
          /\ ~(Found(a) /\ JumpRewind > 0)
      BY <2>6, <2>7, <2>10
    <3> QED BY <2>1, <2>3, <2>7, <2>10, <3>1, AimedOnTarget
  <2>11. CASE ~(Found(b) /\ JumpRewind > 0) /\ TooEarly(g, t)
    <3> DEFINE n == [e EXCEPT !.at = "drawn"]
    <3>1. /\ n \in Playback
          /\ n.pos = e.pos /\ n.state = e.state /\ n.paused = e.paused
          /\ n.nextdemotime = e.nextdemotime
          /\ n.demopackettime = e.demopackettime
          /\ n.demostarttime = e.demostarttime
          /\ n.demoseeking = e.demoseeking
          /\ n.demorewinding = e.demorewinding
          /\ n.demotime = e.demotime /\ n.at = "drawn"
      BY <2>9 DEF Playback
    <3>2. Result(a) = n
      BY <2>4, <2>11 DEF e
    <3> HIDE DEF n
    <3>3. n.pos = a.pos /\ n.pos \in 1 .. Len(played) + 1 /\ g.pos = a.pos
      BY <2>6, <2>7, <2>9, <3>1
    <3>4. ~Warps(g)
      BY <2>11 DEF TooEarly
    <3>5. ASSUME Ready(u, a), Seeking(a) /\ ~a.demorewinding => ~Warps(a) PROVE OnTrack(u, n)
      <4>1. OnTarget(u, g, t)
        BY <2>10, <2>11, <3>5
      <4>2. /\ n.pos = g.pos /\ n.state = g.state /\ n.nextdemotime = g.nextdemotime
            /\ n.demopackettime = g.demopackettime /\ n.demostarttime = g.demostarttime
            /\ n.demoseeking = g.demoseeking /\ n.demorewinding = g.demorewinding
            /\ n.demotime = (IF ~mvd /\ g.demotime + Second < t
                               THEN t - Second ELSE g.demotime)
        BY <2>9, <3>1, <3>4
      <4>3. t = TimeFrom(u, g.pos) /\ g.pos \in 1 .. Len(played)
        BY <2>1, <2>3, <3>3, <3>5
      <4> QED BY <2>7, <2>11, <3>1, <4>1, <4>2, <4>3, EarlyGood
    <3> QED BY <2>5, <3>1, <3>2, <3>3, <3>5
  <2>12. CASE ~(Found(b) /\ JumpRewind > 0) /\ ~TooEarly(g, t)
    <3> DEFINE h == [e EXCEPT !.at = "reading", !.demopackettime = t]
               n == Parsed(h)
    <3>1. /\ h \in Playback
          /\ h.pos = e.pos /\ h.state = e.state
          /\ h.nextdemotime = e.nextdemotime
          /\ h.demopackettime = t /\ h.at = "reading"
          /\ h.demostarttime = e.demostarttime
          /\ h.demo_rewindtime = e.demo_rewindtime
          /\ h.demoseeking = e.demoseeking
          /\ h.demorewinding = e.demorewinding
          /\ h.demotime = e.demotime
      BY <2>2, <2>9 DEF Playback
    <3>2. Result(a) = n
      BY <2>4, <2>12 DEF e
    <3> HIDE DEF h
    <3>3. n \in Playback /\ (Stopped(h, n) \/ TookIn(h, n))
      BY <3>1, ParsedFields
    <3> HIDE DEF n
    <3>4. h.pos = a.pos /\ g.pos = a.pos
      BY <2>6, <2>7, <2>9, <3>1
    <3>5. n.pos \in 1 .. Len(played) + 1
      BY <2>1, <3>3, <3>4 DEF Stopped, TookIn
    <3>6. ASSUME Ready(u, a), Seeking(a) /\ ~a.demorewinding => ~Warps(a) PROVE OnTrack(u, n)
      <4>1. OnTarget(u, g, t)
        BY <2>10, <2>12, <3>6
      <4>2. t = TimeFrom(u, g.pos) /\ t = TimeFrom(u, h.pos)
            /\ g.pos \in 1 .. Len(played) /\ h.pos \in 1 .. Len(played)
        BY <2>1, <2>3, <3>4, <3>6
      <4>3. /\ h.pos = g.pos /\ h.state = g.state /\ h.nextdemotime = g.nextdemotime
            /\ h.demostarttime = g.demostarttime
            /\ h.demo_rewindtime = g.demo_rewindtime
            /\ h.demoseeking = g.demoseeking /\ h.demorewinding = g.demorewinding
            /\ h.demotime = (IF Warps(g) THEN t
                             ELSE IF ~mvd /\ g.demotime + Second < t
                             THEN t - Second ELSE g.demotime)
        BY <2>9, <3>1
      <4>4. Taken(u, h, t)
        BY <2>7, <2>12, <3>1, <4>1, <4>2, <4>3, OnTargetTaken
      <4> QED BY <3>1, <3>3, <4>2, <4>4, TakenGood
    <3> QED BY <2>5, <3>2, <3>3, <3>5, <3>6
  <2> QED BY <2>8, <2>11, <2>12
<1> QED BY <1>1, <1>2


-----------------------------------------------------------------------------
(* The steps.                                                                *)

(* The next state is on track when the value it takes is.                  *)
LEMMA OnTrackStays ==
  ASSUME NEW n, NEW u, OnTrack(u, n), cls' = n, kept' = u,
         UNCHANGED <<played, mvd, demo_paused>>
  PROVE  OnTrack(kept, cls)'
BY DEF OnTrack, Over, FileTime, Counted, Peeking, Base, TimeFrom, KeptTime, RewindSeeks, Seeking,
       SeekTime, Active, Shown, FoundMark, Found, ReadBy, Waits, AtEnd

(* A playback starts on track.                                             *)
LEMMA PlayBegins ==
  ASSUME PlayInit
  PROVE  PlaybackInv
<1>1. /\ played \in Demos /\ mvd \in BOOLEAN /\ clean \in BOOLEAN
      /\ asked \in Int /\ jumps \in Nat /\ cls = Fresh(kept)
      /\ kept \in Nat /\ demo_paused = FALSE
  BY DemoAssumption DEF PlayInit
<1>2. (mvd => Base(kept, 1) = kept) /\ Len(played) \in Nat
  BY <1>1, FileTimes, FileSize
<1>3. /\ cls.pos = 1 /\ cls.state = "demostart" /\ cls.nextdemotime = 0
      /\ cls.demopackettime = kept /\ cls.demoseeking = "none"
      /\ cls.demorewinding = FALSE /\ cls.at = "drawn"
  BY <1>1 DEF Fresh
<1>4. cls \in Playback
  BY <1>1, FreshPlayback
<1>5. OnTrack(kept, cls)
  <2>1. FileTime(kept, cls)
    BY <1>1, <1>2, <1>3 DEF FileTime, Counted
  <2>2. KeptTime(kept, cls) /\ RewindSeeks(cls) /\ Waits(kept, cls)
    BY <1>3 DEF KeptTime, RewindSeeks, Waits, Active
  <2>3. SeekTime(kept, cls) /\ FoundMark(kept, cls)
    BY <1>3 DEF SeekTime, Active, FoundMark, Found
  <2> QED BY <2>1, <2>2, <2>3 DEF OnTrack
<1>6. cls.pos \in 1 .. Len(played) + 1
  BY <1>2, <1>3
<1>7. demo_paused \in BOOLEAN /\ (demo_paused => cls.at # "reading")
  BY <1>1
<1> QED BY <1>1, <1>4, <1>5, <1>6, <1>7 DEF PlaybackInv

(* The clock may run on.                                                   *)
LEMMA FrameStep ==
  ASSUME PlaybackInv, Frame
  PROVE  PlaybackInv'
<1>1. PICK dt \in 0 .. 1 :
         /\ demo_paused => dt = 0
         /\ cls' = [cls EXCEPT !.demotime = IF cls.skipframe THEN @ ELSE @ + dt,
                               !.skipframe = FALSE, !.at = "commands"]
  BY DEF Frame
<1>2. /\ cls.at = "drawn" /\ Playing(cls)
      /\ UNCHANGED <<played, mvd, demo_paused, kept, asked, clean, jumps>>
  BY DEF Frame
<1>3. /\ played \in Demos /\ mvd \in BOOLEAN
      /\ kept \in Nat /\ demo_paused \in BOOLEAN
      /\ cls \in Playback /\ cls.pos \in 1 .. Len(played) + 1
      /\ clean => OnTrack(kept, cls)
  BY DEF PlaybackInv
<1> DEFINE x == IF cls.skipframe THEN cls.demotime ELSE cls.demotime + dt
           n == [cls EXCEPT !.demotime = x, !.skipframe = FALSE, !.at = "commands"]
<1>4. cls' = n
  BY <1>1
<1>5. /\ cls.demotime \in Int /\ cls.demostarttime \in Int
      /\ x \in Int /\ cls.demotime <= x /\ cls.nextdemotime \in Int
      /\ demo_paused => x = cls.demotime
  BY <1>1, <1>3 DEF Playback
<1> HIDE DEF x
<1>6. /\ n \in Playback
      /\ n.pos = cls.pos /\ n.state = cls.state /\ n.demotime = x
      /\ n.demostarttime = cls.demostarttime /\ n.nextdemotime = cls.nextdemotime
      /\ n.demopackettime = cls.demopackettime /\ n.demoseeking = cls.demoseeking
      /\ n.demorewinding = cls.demorewinding
      /\ n.demo_rewindtime = cls.demo_rewindtime /\ n.at = "commands"
  BY <1>3, <1>5 DEF Playback
<1> HIDE DEF n
<1>7. ASSUME OnTrack(kept, cls) PROVE OnTrack(kept, n)
  <2>1. FileTime(kept, n)
    BY <1>2, <1>6, <1>7
       DEF OnTrack, FileTime, Counted, Peeking, Seeking, Over, Playing
  <2>2. RewindSeeks(n) /\ Waits(kept, n) /\ KeptTime(kept, n)
    BY <1>6, <1>7 DEF OnTrack, RewindSeeks, Seeking, Waits, KeptTime
  <2>3. FoundMark(kept, n)
    <3>1. FoundMark(kept, cls)
      BY <1>7 DEF OnTrack
    <3> QED BY <1>5, <1>6, <3>1 DEF FoundMark, Found, Active, ReadBy
  <2>4. SeekTime(kept, n)
    <3>1. \A i \in 1 .. cls.pos - 1 : TimeFrom(kept, i) \in Int
      <4>1. Len(played) \in Nat
        BY <1>3, FileTimes
      <4>2. \A i \in 1 .. cls.pos - 1 : i \in 0 .. Len(played)
        BY <1>3, <4>1
      <4> QED BY <1>3, <4>2, FileTimes
    <3>2. Shown(kept, cls) => Shown(kept, n)
      BY <1>5, <1>6, <3>1 DEF Shown
    <3>3. SeekTime(kept, cls)
      BY <1>7 DEF OnTrack
    <3> QED BY <1>2, <1>5, <1>6, <3>2, <3>3 DEF SeekTime, Active, Seeking
  <2> QED BY <2>1, <2>2, <2>3, <2>4 DEF OnTrack
<1>8. clean => OnTrack(kept, cls)'
  BY <1>2, <1>3, <1>4, <1>7, OnTrackStays
<1> QED BY <1>2, <1>3, <1>4, <1>6, <1>8 DEF PlaybackInv

(* The user's pause, and the frames that read nothing during it.           *)
LEMMA PauseStep ==
  ASSUME PlaybackInv, CL_Pause_f
  PROVE  PlaybackInv'
<1>1. /\ cls.at = "commands" /\ demo_paused' = ~demo_paused
      /\ UNCHANGED <<played, mvd, cls, kept, asked, clean, jumps>>
  BY DEF CL_Pause_f
<1>2. OnTrack(kept, cls) => OnTrack(kept, cls)'
  BY <1>1 DEF OnTrack, FileTime, Counted, Peeking, Over, Base, TimeFrom, KeptTime,
              RewindSeeks, Seeking, SeekTime, Active, Shown, FoundMark, Found,
              ReadBy, Waits
<1> QED BY <1>1, <1>2 DEF PlaybackInv

LEMMA ReadPausedStep ==
  ASSUME PlaybackInv, ReadPaused
  PROVE  PlaybackInv'
<1>1. /\ demo_paused /\ cls.at = "commands" /\ cls' = [cls EXCEPT !.at = "drawn"]
      /\ UNCHANGED <<played, mvd, demo_paused, kept, asked, clean, jumps>>
  BY DEF ReadPaused
<1>2. /\ cls \in Playback /\ kept \in Nat /\ cls.pos \in 1 .. Len(played) + 1
      /\ clean => OnTrack(kept, cls)
  BY DEF PlaybackInv
<1> DEFINE n == [cls EXCEPT !.at = "drawn"]
<1>3. /\ n \in Playback
      /\ n.pos = cls.pos /\ n.state = cls.state /\ n.demotime = cls.demotime
      /\ n.demostarttime = cls.demostarttime /\ n.nextdemotime = cls.nextdemotime
      /\ n.demopackettime = cls.demopackettime /\ n.demoseeking = cls.demoseeking
      /\ n.demorewinding = cls.demorewinding
      /\ n.demo_rewindtime = cls.demo_rewindtime /\ n.at = "drawn"
  BY <1>2 DEF Playback
<1>4. cls' = n
  BY <1>1
<1> HIDE DEF n
<1>5. ASSUME OnTrack(kept, cls) PROVE OnTrack(kept, n)
  <2>1. FileTime(kept, n)
    BY <1>1, <1>3, <1>5 DEF OnTrack, FileTime, Counted, Peeking, Seeking, Over
  <2>2. RewindSeeks(n) /\ Waits(kept, n) /\ KeptTime(kept, n)
    BY <1>1, <1>3, <1>5 DEF OnTrack, RewindSeeks, Seeking, Waits, KeptTime
  <2>3. FoundMark(kept, n)
    BY <1>3, <1>5 DEF OnTrack, FoundMark, Found, Active, ReadBy
  <2>4. SeekTime(kept, n)
    BY <1>1, <1>3, <1>5 DEF OnTrack, SeekTime, Active, Seeking, Shown
  <2> QED BY <2>1, <2>2, <2>3, <2>4 DEF OnTrack
<1>6. clean => OnTrack(kept, cls)'
  BY <1>1, <1>2, <1>4, <1>5, OnTrackStays
<1> QED BY <1>1, <1>2, <1>3, <1>4, <1>6 DEF PlaybackInv

(* A jump between frames, in a file of one level, that rewinds if and only *)
(* if the time lies behind.                                                *)
LEMMA JumpStep ==
  ASSUME PlaybackInv, NEW t \in Int, NEW s \in {"normal", "mark"}, JumpTo(t, s)
  PROVE  PlaybackInv'
<1> DEFINE n == CL_Demo_Jump(cls, t, s)
<1>1. /\ cls.at = "commands" /\ Active(cls) /\ cls' = n
      /\ asked' = t - cls.demostarttime
      /\ jumps' = jumps + 1 /\ UNCHANGED <<played, mvd, demo_paused, kept>>
  BY DEF JumpTo
<1>2. clean' = (/\ clean /\ ~Seeking(cls) /\ FirstLevel
                /\ Rewinds(t) = LiesBehind(t))
  BY DEF JumpTo
<1>3. /\ played \in Demos /\ mvd \in BOOLEAN /\ jumps \in Nat
      /\ kept \in Nat /\ demo_paused \in BOOLEAN
      /\ cls \in Playback /\ cls.pos \in 1 .. Len(played) + 1
      /\ clean => OnTrack(kept, cls)
  BY DEF PlaybackInv
<1>4. /\ n \in Playback
      /\ n.pos = cls.pos /\ n.state = cls.state
      /\ n.demotime = t /\ n.demoseeking = s
      /\ n.demostarttime = cls.demostarttime
      /\ n.nextdemotime = cls.nextdemotime
      /\ n.demopackettime = cls.demopackettime
      /\ n.paused = cls.paused /\ n.demorewinding = cls.demorewinding
      /\ n.at = cls.at
  BY <1>3, JumpFields
<1> HIDE DEF n
<1>5. ASSUME clean' PROVE OnTrack(kept, n)
  <2>1. OnTrack(kept, cls) /\ ~Seeking(cls) /\ Rewinds(t) = LiesBehind(t)
    BY <1>2, <1>3, <1>5
  <2>2. ~cls.demorewinding
    BY <2>1 DEF OnTrack, RewindSeeks
  <2>3. FileTime(kept, n)
    BY <1>1, <1>4, <2>1 DEF OnTrack, FileTime, Counted, Peeking, Over
  <2>4. Seeking(n) /\ ~Found(n)
    BY <1>4 DEF Seeking, Found
  <2>5. RewindSeeks(n) /\ Waits(kept, n) /\ KeptTime(kept, n) /\ FoundMark(kept, n)
    BY <1>1, <1>4, <2>4 DEF RewindSeeks, Waits, KeptTime, FoundMark
  <2>6. CASE t < cls.nextdemotime
    <3>1. SeekTime(kept, n)
      BY <1>1, <1>4, <2>2, <2>4, <2>6 DEF SeekTime
    <3> QED BY <2>3, <2>5, <3>1 DEF OnTrack
  <2>7. CASE ~(t < cls.nextdemotime)
    <3>1. ~LiesBehind(t)
      BY <2>1, <2>7 DEF Rewinds
    <3>2. \A i \in ReadSoFar : ~(Time(i) > Max({t, cls.demostarttime}))
      BY <3>1 DEF LiesBehind
    <3>3. Len(played) \in Nat /\ DOMAIN played = 1 .. Len(played)
      <4>1. played \in Seq([since : Nat, kind : STRING])
        BY <1>3, DemoAssumption
      <4> QED BY <4>1
    <3>4. \A i \in 1 .. cls.pos - 1 : i \in ReadSoFar /\ i \in 0 .. Len(played)
      BY <1>3, <3>3 DEF ReadSoFar
    <3>5. cls.demostarttime \in Int
      BY <1>3 DEF Playback
    <3>6. \A i \in 1 .. cls.pos - 1 : Time(i) \in Int
      BY <1>3, <3>4, FileTimes DEF Time
    <3>7. Shown(kept, n)
      BY <1>4, <3>2, <3>4, <3>5, <3>6, MaxOfTwo DEF Shown, Time
    <3>8. SeekTime(kept, n)
      BY <1>4, <2>2, <2>4, <3>7 DEF SeekTime
    <3> QED BY <2>3, <2>5, <3>8 DEF OnTrack
  <2> QED BY <2>6, <2>7
<1>6. clean' => OnTrack(kept, cls)'
  BY <1>1, <1>5, OnTrackStays
<1>7. clean' \in BOOLEAN
  BY <1>2
<1>8. asked' \in Int
  BY <1>1, <1>3 DEF Playback
<1> QED BY <1>1, <1>3, <1>4, <1>6, <1>7, <1>8 DEF PlaybackInv

(* A read.                                                                 *)
LEMMA ReadStep ==
  ASSUME PlaybackInv, Read
  PROVE  PlaybackInv'
<1> DEFINE r == Rewound(cls)
           a == Adjusted(r)
           t == CL_PeekDemoTime(a)
           b == Peeked(a, t)
           u == IF NeedsRewind(cls) THEN 0 ELSE kept
<1>1. /\ played \in Demos /\ mvd \in BOOLEAN /\ asked \in Int /\ jumps \in Nat
      /\ kept \in Nat /\ demo_paused \in BOOLEAN
      /\ cls \in Playback /\ cls.pos \in 1 .. Len(played) + 1
      /\ clean => OnTrack(kept, cls)
  BY DEF PlaybackInv
<1>2. /\ cls.at # "drawn" /\ ~demo_paused
      /\ kept' = u /\ u \in Nat
      /\ UNCHANGED <<played, mvd, demo_paused, jumps>>
  BY <1>1 DEF Read
<1>3. cls' = Result(a)
  BY DEF Read, Result, Aimed, FoundJump, Rewound
<1>4. asked' = IF ~AtEnd(a) /\ Found(b) 
                 THEN t - JumpRewind - a.demostarttime ELSE asked
  BY DEF Read, Rewound
<1>5. clean' = (/\ clean /\ ~Drifts(r)
                /\ Seeking(a) /\ ~a.demorewinding => ~Warps(a))
  BY DEF Read, Rewound
<1> HIDE DEF b, t, a, r, u
<1>6. r \in Playback /\ r.pos \in 1 .. Len(played) + 1
  <2>1. Len(played) \in Nat
    BY <1>1, FileTimes
  <2>2. /\ Restarted(cls) \in Playback /\ Restarted(cls).pos = 1
    BY <1>1, RestartedFields
  <2>3. \/ r = Restarted(cls)
        \/ /\ r \in Playback
           /\ r = [cls EXCEPT !.demotime = cls.demostarttime + cls.demo_rewindtime,
                              !.demoseeking = "normal"]
        \/ r = cls
    BY <1>1, RewoundFields DEF r
  <2>4. CASE r = Restarted(cls)
    BY <2>1, <2>2, <2>4
  <2>5. CASE /\ r \in Playback
             /\ r = [cls EXCEPT !.demotime = cls.demostarttime + cls.demo_rewindtime,
                                !.demoseeking = "normal"]
    <3>1. r.pos = cls.pos
      BY <1>1, <2>5 DEF Playback
    <3> QED BY <1>1, <2>5, <3>1
  <2> QED BY <1>1, <2>3, <2>4, <2>5
<1>7. a \in Playback /\ a.pos = r.pos
  <2>1. /\ a \in Playback
        /\ a = [r EXCEPT !.demopackettime = a.demopackettime, !.demotime = a.demotime]
    BY <1>1, <1>6, AdjustedFields DEF a
  <2> QED BY <2>1 DEF Playback
<1>8. /\ Result(a) \in Playback /\ Result(a).pos \in 1 .. Len(played) + 1
      /\ ~AtEnd(a) => t \in Int
      /\ Ready(u, a) /\ (Seeking(a) /\ ~a.demorewinding => ~Warps(a))
            => OnTrack(u, Result(a))
  BY <1>1, <1>2, <1>6, <1>7, ResultGood DEF t
<1>9. asked' \in Int
  <2>1. a.demostarttime \in Int /\ JumpRewind \in Int
    BY <1>7, DemoAssumption DEF Playback
  <2> QED BY <1>1, <1>4, <1>8, <2>1
<1>10. ASSUME clean' PROVE OnTrack(u, Result(a))
  <2>1. OnTrack(kept, cls) /\ ~Drifts(r) /\ (Seeking(a) /\ ~a.demorewinding => ~Warps(a))
    BY <1>1, <1>5, <1>10
  <2>2. Unbent(u, r) /\ r.at = cls.at
    BY <1>1, <1>2, <2>1, RewoundUnbent DEF r, u, PlayState
  <2>3. Ready(u, a)
    BY <1>1, <1>2, <1>6, <2>2, AdjustedReady DEF a
  <2> QED BY <1>8, <2>1, <2>3
<1>11. clean' => OnTrack(kept, cls)'
  BY <1>2, <1>3, <1>10, OnTrackStays
<1>12. clean' \in BOOLEAN
  BY <1>5
<1> QED BY <1>1, <1>2, <1>3, <1>8, <1>9, <1>11, <1>12 DEF PlaybackInv

(* Whatever the files, the bounds and the jumps: the fields of the         *)
(* playback keep their types, and while nothing known bends a jump (clean) *)
(* the playback is on track.                                               *)
THEOREM PlaybackInductive == PlaySpec => []PlaybackInv
<1>1. PlayInit => PlaybackInv
  BY PlayBegins
<1>2. PlaybackInv /\ [PlayNext]_playVars => PlaybackInv'
  <2> SUFFICES ASSUME PlaybackInv, [PlayNext]_playVars PROVE PlaybackInv'
    OBVIOUS
  <2>1. CASE Frame
    BY <2>1, FrameStep
  <2>6. CASE CL_Pause_f
    BY <2>6, PauseStep
  <2>7. CASE ReadPaused
    BY <2>7, ReadPausedStep
  <2>2. CASE CL_Demo_Jump_f
    <3>1. PICK t \in -1 .. MaxClock : JumpTo(t, "normal")
      BY <2>2 DEF CL_Demo_Jump_f
    <3>2. t \in Int
      BY DemoAssumption
    <3> QED BY <3>1, <3>2, JumpStep
  <2>3. CASE CL_Demo_Jump_Mark
    <3>1. MaxClock \in Int
      BY DemoAssumption
    <3> QED BY <2>3, <3>1, JumpStep DEF CL_Demo_Jump_Mark
  <2>4. CASE Read
    BY <2>4, ReadStep
  <2>5. CASE UNCHANGED playVars
    <3>1. /\ played' = played /\ mvd' = mvd /\ cls' = cls /\ asked' = asked
          /\ clean' = clean /\ jumps' = jumps
          /\ kept' = kept /\ demo_paused' = demo_paused
      BY <2>5 DEF playVars
    <3>2. OnTrack(kept, cls) => OnTrack(kept, cls)'
      BY <3>1, OnTrackStays
    <3> QED BY <3>1, <3>2 DEF PlaybackInv
  <2> QED BY <2>1, <2>2, <2>3, <2>4, <2>5, <2>6, <2>7 DEF PlayNext
<1> QED BY <1>1, <1>2, PTL DEF PlaySpec

(* The type invariant of the playback.                                     *)
LEMMA PlaybackTyped ==
  ASSUME PlaybackInv
  PROVE  PlayTypeOK
BY DEF PlaybackInv, Playback, PlayTypeOK

(* The times of an MVD's messages are the file's.                          *)
LEMMA TimesKept ==
  ASSUME PlaybackInv
  PROVE  KeepsTime
BY DEF PlaybackInv, OnTrack, KeptTime, KeepsTime, AlwaysKeepsTime, Time

(* After a frame of a playback that runs, every message up to the clock    *)
(* has been read and of those ahead only the ones an MVD interpolates      *)
(* towards, at the times of the file: for every QWD and MVD file in        *)
(* memory, any number of jumps and any -demo_jump_rewind                   *)
(* (CL_GetDemoMessage, CL_DemoShouldWeReadNextMessage).                    *)
THEOREM PlaysWhatIsDue == PlaySpec => []PlaysOnTime
<1>1. PlaybackInv => PlaysOnTime
  <2> SUFFICES ASSUME PlaybackInv PROVE PlaysOnTime
    OBVIOUS
  <2>1. /\ played \in Demos /\ mvd \in BOOLEAN
        /\ kept \in Nat /\ cls \in Playback /\ cls.pos \in 1 .. Len(played) + 1
        /\ clean => OnTrack(kept, cls)
    BY DEF PlaybackInv
  <2>2. Len(played) \in Nat /\ DOMAIN played = 1 .. Len(played)
    <3>1. played \in Seq([since : Nat, kind : STRING])
      BY <2>1, DemoAssumption
    <3> QED BY <3>1
  <2>3. cls.demotime \in Int /\ cls.demostarttime \in Int
    BY <2>1 DEF Playback
  <2>4. /\ \A i \in 0 .. Len(played) : Time(i) \in Int
        /\ \A i, j \in 0 .. Len(played) : i <= j => Time(i) <= Time(j)
    BY <2>1, FileTimes DEF Time
  <2>5. ASSUME cls.at = "drawn", Active(cls), ~Seeking(cls), ~cls.paused,
               ~demo_paused, clean
        PROVE  /\ \A i \in Unread : cls.demotime < Time(i)
               /\ \A i \in ReadSoFar :
                     Time(i) > Max({cls.demotime, cls.demostarttime})
                     => mvd /\ Time(i) = cls.nextdemotime
    <3>1. Waits(kept, cls) /\ Shown(kept, cls)
      BY <2>1, <2>5 DEF OnTrack, SeekTime
    <3>2. ASSUME NEW i \in Unread PROVE cls.demotime < Time(i)
      <4>1. /\ cls.pos \in 0 .. Len(played) /\ i \in 0 .. Len(played)
            /\ cls.pos <= i /\ ~AtEnd(cls)
        BY <2>1, <2>2, <3>2 DEF Unread, AtEnd
      <4>2. cls.demotime < Time(cls.pos)
        BY <2>5, <3>1, <4>1 DEF Waits, Time
      <4> QED BY <2>3, <2>4, <4>1, <4>2
    <3>3. ASSUME NEW i \in ReadSoFar,
                 Time(i) > Max({cls.demotime, cls.demostarttime})
          PROVE  mvd /\ Time(i) = cls.nextdemotime
      <4>1. i \in 1 .. cls.pos - 1 /\ i \in 0 .. Len(played)
        BY <2>1, <2>2 DEF ReadSoFar
      <4>2. Time(i) > cls.demotime /\ Time(i) > cls.demostarttime
        BY <2>3, <2>4, <3>3, <4>1, MaxOfTwo
      <4>3. Time(i) \in Int
        BY <2>4, <4>1
      <4> QED BY <2>3, <3>1, <4>1, <4>2, <4>3 DEF Shown, Time
    <3> QED BY <3>2, <3>3
  <2> QED BY <2>5, PlaybackTyped, TimesKept DEF PlaysOnTime
<1> QED BY <1>1, PlaybackInductive, PTL

(* The time of an MVD's message is the file's, counted from the time the   *)
(* file was begun with - what the demo before it left, which nothing       *)
(* resets, and zero after a rewind - in every playback that nothing is     *)
(* known to bend, over jumps, marks and rewinds (CL_GetDemoMessage).       *)
THEOREM TimesAreCounted == PlaySpec => []KeepsTime
<1>1. PlaybackInv => KeepsTime
  BY TimesKept
<1> QED BY <1>1, PlaybackInductive, PTL

=============================================================================
