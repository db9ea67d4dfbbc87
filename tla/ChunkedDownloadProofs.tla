----------------------- MODULE ChunkedDownloadProofs -----------------------
(* What ChunkedDownload promises, for files of any size, rings of any      *)
(* length and any network: the ring of flags tells what is on the disk,    *)
(* only whole files get their name, and a late block of another file is    *)
(* not taken out of band.                                                  *)
EXTENDS ChunkedDownload, SequenceTheorems, FiniteSetTheorems, TLAPS

LEMMA Constants ==
    /\ MAXBLOCKS \in Nat /\ MAXBLOCKS >= 1
    /\ Chunks \in Nat /\ Chunks >= 1
    /\ MaxFaults \in Nat /\ MaxCommands \in Nat
    /\ Sizes \in Seq(Nat) /\ Len(Sizes) \in Nat /\ Len(Sizes) >= 1
    /\ Files = 1 .. Len(Sizes)
  <1>1. {MAXBLOCKS, Chunks} \subseteq Nat \ {0}
    BY ChunkedDownloadAssumption DEF ChunkedDownloadAssumption
  <1>2. {MaxFaults, MaxCommands} \subseteq Nat
    BY ChunkedDownloadAssumption DEF ChunkedDownloadAssumption
  <1>3. Sizes \in Seq(Nat) /\ Sizes # << >>
    BY ChunkedDownloadAssumption DEF ChunkedDownloadAssumption
  <1>4. Len(Sizes) \in Nat /\ Len(Sizes) # 0
    BY <1>3, EmptySeq
  <1> QED
    BY <1>1, <1>2, <1>3, <1>4 DEF Files

(* A set of numbers that is not empty has a smallest one.                  *)
LEMMA SmallestNumber ==
    ASSUME NEW T \in SUBSET Nat, T # {}
    PROVE  \E x \in T : \A y \in T : x <= y
  <1> DEFINE R == StrictSubsetOrdering(Nat)
             F == FiniteSubsetsOf(Nat)
             U == {0 .. x : x \in T}
  <1>1. IsWellFoundedOn(R, F)
    BY FS_StrictSubsetOrderingWellFounded
  <1>2. U \subseteq F /\ U # {}
    <2>1. \A x \in T : 0 .. x \in SUBSET Nat /\ IsFiniteSet(0 .. x)
      BY FS_Interval
    <2> QED
      BY <2>1 DEF FiniteSubsetsOf
  <1>3. \E u \in U : \A w \in U : ~ (<<w, u>> \in R)
    <2> HIDE DEF R, F, U
    <2> QED
      BY <1>1, <1>2, WFMin
  <1>4. PICK x \in T : \A w \in U : ~ (<<w, 0 .. x>> \in R)
    BY <1>3
  <1>5. ASSUME NEW y \in T, y < x PROVE FALSE
    <2>1. 0 .. y \subseteq 0 .. x /\ 0 .. y # 0 .. x
      BY <1>5
    <2>2. 0 .. y \in SUBSET Nat /\ 0 .. x \in SUBSET Nat
      OBVIOUS
    <2>3. <<0 .. y, 0 .. x>> \in R
      BY <2>1, <2>2 DEF StrictSubsetOrdering
    <2> QED
      BY <2>3, <1>4
  <1> QED
    BY <1>5

(* Induction, up to a number.                                              *)
LEMMA UpTo ==
    ASSUME NEW n \in Nat, NEW T, 0 \in T,
           \A i \in 0 .. n - 1 : i \in T => i + 1 \in T
    PROVE  \A i \in 0 .. n : i \in T
  <1> DEFINE U == {i \in 0 .. n : i \notin T}
  <1> SUFFICES ASSUME U # {} PROVE FALSE
    OBVIOUS
  <1>1. PICK x \in U : \A y \in U : x <= y
    <2>1. U \in SUBSET Nat
      OBVIOUS
    <2> HIDE DEF U
    <2> QED
      BY <2>1, SmallestNumber
  <1>2. x \in 1 .. n
    OBVIOUS
  <1>3. x - 1 \in 0 .. n - 1 /\ x - 1 \in T
    BY <1>1, <1>2
  <1> QED
    BY <1>1, <1>2, <1>3

-----------------------------------------------------------------------------
(* Places of the ring.                                                     *)

LEMMA SlotInRing ==
    ASSUME NEW a \in Nat PROVE Slot(a) \in 0 .. MAXBLOCKS - 1
  BY Constants DEF Slot

(* Blocks of one window do not share a place.                              *)
LEMMA SlotsDiffer ==
    ASSUME NEW a \in Nat, NEW b \in Nat, a < b, b - a < MAXBLOCKS
    PROVE  Slot(a) # Slot(b)
  <1> DEFINE N == MAXBLOCKS
             p == a \div N
             q == b \div N
  <1> USE Constants
  <1>1. a = N * p + (a % N) /\ p \in Int /\ a % N \in 0 .. N - 1
    OBVIOUS
  <1>2. b = N * q + (b % N) /\ q \in Int /\ b % N \in 0 .. N - 1
    OBVIOUS
  <1>3. SUFFICES ASSUME a % N = b % N PROVE FALSE
    BY DEF Slot
  <1>4. b - a = N * q - N * p
    BY <1>1, <1>2, <1>3
  <1>5. p \in Int /\ q \in Int /\ N \in Nat
    BY <1>1, <1>2
  <1> HIDE DEF p, q
  <1>6. N * q - N * p = N * (q - p)
    BY <1>5
  <1>7. CASE q - p >= 1
    <2>1. PICK d \in Nat : q - p = d + 1
      BY <1>5, <1>7
    <2>2. N * (d + 1) = N * d + N /\ N * d \in Nat
      BY <1>5
    <2> QED
      BY <1>4, <1>6, <2>1, <2>2
  <1>8. CASE q - p <= 0
    <2>1. PICK d \in Nat : q - p = -d
      BY <1>5, <1>8
    <2>2. N * (-d) = -(N * d) /\ N * d \in Nat
      BY <1>5
    <2> QED
      BY <1>4, <1>6, <2>1, <2>2
  <1> QED
    BY <1>5, <1>7, <1>8

LEMMA SlotUnique ==
    ASSUME NEW f \in Nat, NEW a \in f .. f + MAXBLOCKS - 1,
           NEW b \in f .. f + MAXBLOCKS - 1, Slot(a) = Slot(b)
    PROVE  a = b
  <1>1. /\ a \in Nat /\ b \in Nat
        /\ a - b < MAXBLOCKS /\ b - a < MAXBLOCKS
    BY Constants
  <1>2. ~(a < b) /\ ~(b < a)
    BY <1>1, SlotsDiffer
  <1> QED
    BY <1>1, <1>2

(* The quotient and the remainder are what they are.                       *)
LEMMA Remainder ==
    ASSUME NEW k \in Nat, NEW o \in 0 .. MAXBLOCKS - 1
    PROVE  Slot(MAXBLOCKS * k + o) = o
  <1> DEFINE N == MAXBLOCKS
             a == N * k + o
             p == a \div N
  <1> USE Constants
  <1>0. N * k \in Nat
    OBVIOUS
  <1>1. a \in Nat /\ a = N * p + (a % N) /\ p \in Int /\ a % N \in 0 .. N - 1
    BY SMTT(30), <1>0
  <1>2. Slot(a) = (a % N)
    BY DEF Slot
  <1> DEFINE r == a % N
  <1>3. r \in 0 .. N - 1 /\ N * k + o = N * p + r
    BY <1>1
  <1> HIDE DEF p, r
  <1>4. N * k - N * p = N * (k - p)
    BY <1>1
  <1>5. CASE k - p >= 1
    <2>1. PICK d \in Nat : k - p = d + 1
      BY <1>1, <1>5
    <2>2. N * (d + 1) = N * d + N /\ N * d \in Nat /\ N * p \in Int
      BY <1>1
    <2> QED
      BY <1>0, <1>3, <1>4, <2>1, <2>2
  <1>6. CASE p - k >= 1
    <2>1. PICK d \in Nat : p - k = d + 1
      BY <1>1, <1>6
    <2>2. N * (d + 1) = N * d + N /\ N * d \in Nat /\ N * p \in Int
      BY <1>1
    <2>3. N * p - N * k = N * (p - k)
      BY <1>1
    <2> QED
      BY <1>0, <1>3, <2>1, <2>2, <2>3
  <1>7. CASE k = p
    BY <1>0, <1>2, <1>3, <1>7 DEF r
  <1> QED
    BY <1>1, <1>5, <1>6, <1>7

(* A ring further on is the same place.                                    *)
LEMMA SlotOneRound ==
    ASSUME NEW a \in Nat PROVE Slot(a + MAXBLOCKS) = Slot(a)
  <1> DEFINE N == MAXBLOCKS
             k == a \div N
             o == a % N
  <1>1. a = N * k + o /\ k \in Nat /\ o \in 0 .. N - 1
    BY Constants
  <1>2. Slot(a) = o
    BY DEF Slot
  <1> HIDE DEF k, o
  <1>3. N * (k + 1) = N * k + N /\ N * k \in Nat /\ k + 1 \in Nat
    BY <1>1, Constants
  <1>4. a + N = N * (k + 1) + o
    BY <1>1, <1>3, Constants
  <1>5. Slot(N * (k + 1) + o) = o
    BY <1>1, <1>3, Remainder
  <1> QED
    BY <1>2, <1>4, <1>5

(* Each place comes up in each round.                                      *)
LEMMA SlotReached ==
    ASSUME NEW c \in Nat, NEW o \in 0 .. MAXBLOCKS - 1
    PROVE  \E d \in c + 1 .. c + MAXBLOCKS : Slot(d) = o
  <1> DEFINE N == MAXBLOCKS
             k == c \div N
             r == c % N
  <1>1. c = N * k + r /\ k \in Nat /\ r \in 0 .. N - 1
    BY Constants
  <1> HIDE DEF k, r
  <1>2. /\ N * (k + 1) = N * k + N /\ N * k \in Nat /\ k + 1 \in Nat
    BY <1>1, Constants
  <1>3. Slot(N * k + o) = o /\ Slot(N * (k + 1) + o) = o
    BY <1>1, <1>2, Remainder
  <1>4. CASE r < o
    <2>1. N * k + o \in c + 1 .. c + N
      BY <1>1, <1>2, <1>4, Constants
    <2> QED
      BY <1>3, <2>1
  <1>5. CASE ~(r < o)
    <2>1. N * (k + 1) + o \in c + 1 .. c + N
      BY <1>1, <1>2, <1>5, Constants
    <2> QED
      BY <1>3, <2>1
  <1> QED
    BY <1>4, <1>5
-----------------------------------------------------------------------------
(* The window of blocks and its move.                                      *)

Window == first .. first + MAXBLOCKS - 1

Ring == [0 .. MAXBLOCKS - 1 -> BOOLEAN]

(* What the flags say is what is on the disk.                              *)
Tells(f, flags, blocks) ==
    /\ ~flags[Slot(f)]
    /\ blocks = (0 .. f - 1) \cup {b \in f .. f + MAXBLOCKS - 1 : flags[Slot(b)]}

LEMMA NewFirstIs ==
    ASSUME first \in Nat, NEW r
    PROVE  /\ NewFirst(r) \in first .. first + MAXBLOCKS
           /\ \A b \in first .. NewFirst(r) - 1 : r[Slot(b)]
           /\ NewFirst(r) = first + MAXBLOCKS \/ ~r[Slot(NewFirst(r))]
  <1> DEFINE Fits(f) == /\ \A b \in first .. f - 1 : r[Slot(b)]
                        /\ f = first + MAXBLOCKS \/ ~r[Slot(f)]
             T == {f \in first .. first + MAXBLOCKS :
                      f = first + MAXBLOCKS \/ ~r[Slot(f)]}
  <1>1. T \in SUBSET Nat /\ first + MAXBLOCKS \in T
    BY Constants
  <1>2. PICK x \in T : \A y \in T : x <= y
    <2> HIDE DEF T
    <2> QED
      BY <1>1, SmallestNumber
  <1>3. \A b \in first .. x - 1 : r[Slot(b)]
    <2> SUFFICES ASSUME NEW b \in first .. x - 1, ~r[Slot(b)] PROVE FALSE
      OBVIOUS
    <2>1. b \in first .. first + MAXBLOCKS /\ ~(x <= b)
      BY <1>1, <1>2, Constants
    <2>2. b \in T
      BY <2>1
    <2> HIDE DEF T
    <2> QED
      BY <1>2, <2>1, <2>2
  <1>4. x \in first .. first + MAXBLOCKS /\ Fits(x)
    BY <1>2, <1>3
  <1>5. NewFirst(r) = CHOOSE f \in first .. first + MAXBLOCKS : Fits(f)
    BY DEF NewFirst
  <1> HIDE DEF Fits, T
  <1>6. NewFirst(r) \in first .. first + MAXBLOCKS /\ Fits(NewFirst(r))
    BY <1>4, <1>5
  <1> QED
    BY <1>6 DEF Fits

LEMMA ClearedType ==
    ASSUME NEW r \in Ring PROVE Cleared(r) \in Ring
  BY DEF Cleared, Ring

LEMMA ClearedIs ==
    ASSUME NEW r \in Ring, NEW i \in 0 .. MAXBLOCKS - 1
    PROVE  Cleared(r)[i] <=>
               r[i] /\ ~\E b \in first .. NewFirst(r) - 1 : Slot(b) = i
  BY DEF Cleared, Ring

(* A block of the window arrives.                                          *)
LEMMA WindowMoves ==
    ASSUME first \in Nat, received \in Ring,
           Tells(first, received, DOMAIN disk),
           NEW m \in Window,
           NEW r, r = [received EXCEPT ![Slot(m)] = TRUE]
    PROVE  /\ NewFirst(r) \in Nat /\ Cleared(r) \in Ring
           /\ Tells(NewFirst(r), Cleared(r), DOMAIN disk \cup {m})
  <1> DEFINE f == NewFirst(r)
             new == Cleared(r)
             N == MAXBLOCKS
  <1>0. ASSUME NEW b \in Window
        PROVE  /\ b \in Nat /\ b \in first .. first + N - 1 /\ b >= first
               /\ Slot(b) \in 0 .. N - 1
    <2>1. b \in Nat /\ b \in first .. first + N - 1 /\ b >= first
      BY Constants DEF Window
    <2> QED
      BY <2>1, SlotInRing
  <1>1. m \in Nat /\ Slot(m) \in 0 .. N - 1
    BY <1>0
  <1>2. r \in Ring
    BY <1>1 DEF Ring
  <1>3. /\ f \in first .. first + N
        /\ \A b \in first .. f - 1 : r[Slot(b)]
        /\ f = first + N \/ ~r[Slot(f)]
    BY NewFirstIs
  <1>4. f \in Nat /\ first <= f /\ f <= first + N
    BY <1>3, Constants
  <1>5. \A i \in 0 .. N - 1 :
           new[i] <=> r[i] /\ ~\E b \in first .. f - 1 : Slot(b) = i
    BY <1>2, ClearedIs
  <1>6. new \in Ring
    BY <1>2, ClearedType
  <1>7. \A b \in Window : r[Slot(b)] <=> b \in DOMAIN disk \/ b = m
    <2> TAKE b \in Window
    <2>1. b \in Nat /\ b \in first .. first + N - 1
          /\ Slot(b) \in 0 .. N - 1 /\ b >= first
      BY <1>0
    <2>2. CASE b = m
      BY <1>1, <2>2 DEF Ring
    <2>3. CASE b # m
      <3>1. Slot(b) # Slot(m)
        BY <2>1, <2>3, SlotUnique DEF Window
      <3>2. r[Slot(b)] = received[Slot(b)]
        BY <3>1
      <3>3. b \notin 0 .. first - 1
        BY <2>1
      <3>4. b \in DOMAIN disk <=> received[Slot(b)]
        BY <2>1, <3>3 DEF Tells
      <3> QED
        BY <2>3, <3>2, <3>4
    <2> QED
      BY <2>2, <2>3
  <1>8. ~new[Slot(f)]
    <2>0. Slot(f) \in 0 .. N - 1
      BY <1>4, SlotInRing
    <2>1. CASE f = first + N
      <3>1. Slot(f) = Slot(first) /\ first \in first .. f - 1
        BY <2>1, SlotOneRound, Constants
      <3> QED
        BY <1>5, <2>0, <3>1
    <2>2. CASE ~r[Slot(f)]
      BY <1>5, <2>0, <2>2
    <2> QED
      BY <1>3, <2>1, <2>2
  <1>9. ASSUME NEW b \in Nat, b < f
        PROVE  b \in DOMAIN disk \/ b = m
    <2>1. CASE b < first
      <3>1. b \in 0 .. first - 1
        BY <2>1
      <3> QED
        BY <3>1 DEF Tells
    <2>2. CASE ~(b < first)
      <3>1. b \in first .. f - 1 /\ b \in Window
        BY <1>4, <1>9, <2>2, Constants DEF Window
      <3> QED
        BY <1>3, <1>7, <3>1
    <2> QED
      BY <2>1, <2>2
  <1>10. ASSUME NEW b \in f .. f + N - 1
         PROVE  new[Slot(b)] <=> b \in DOMAIN disk \/ b = m
    <2>1. b \in Nat /\ Slot(b) \in 0 .. N - 1 /\ f <= b /\ b <= f + N - 1
      BY <1>4, SlotInRing, Constants
    <2>2. CASE b < first + N
      <3>1. b \in Window
        BY <1>4, <2>1, <2>2, Constants DEF Window
      <3>2. ~\E c \in first .. f - 1 : Slot(c) = Slot(b)
        <4> SUFFICES ASSUME NEW c \in first .. f - 1, Slot(c) = Slot(b)
                     PROVE  FALSE
          OBVIOUS
        <4>1. c \in Window /\ c < b
          BY <1>4, <2>1, <2>2, Constants DEF Window
        <4>2. c \in Nat
          OBVIOUS
        <4>3. c = b
          BY <3>1, <4>1, SlotUnique DEF Window
        <4> QED
          BY <2>1, <4>1, <4>2, <4>3
      <3>3. new[Slot(b)] <=> r[Slot(b)]
        BY <1>5, <2>1, <3>2
      <3> QED
        BY <1>7, <3>1, <3>3
    <2>3. CASE ~(b < first + N)
      <3> DEFINE c == b - N
      <3>1. /\ c \in Nat /\ b = c + N /\ first <= c /\ c < f
            /\ c \in first .. f - 1
        BY <1>4, <2>1, <2>3, Constants
      <3>2. Slot(c) = Slot(b)
        BY <3>1, SlotOneRound
      <3>3. ~new[Slot(b)]
        BY <1>5, <2>1, <3>1, <3>2
      <3>4. b \notin 0 .. first - 1 /\ b \notin first .. first + N - 1
        BY <2>1, <2>3, Constants
      <3>5. b \notin DOMAIN disk
        BY <3>4 DEF Tells
      <3>6. b # m
        BY <3>4 DEF Window
      <3> QED
        BY <3>3, <3>5, <3>6
    <2> QED
      BY <2>2, <2>3
  <1>11. ASSUME NEW b \in DOMAIN disk \cup {m}
         PROVE  b \in 0 .. f - 1 \/ b \in f .. f + N - 1
    <2>1. b \in 0 .. first - 1 \/ b \in first .. first + N - 1
      BY DEF Tells, Window
    <2> QED
      BY <1>4, <2>1, Constants
  <1> HIDE DEF new, f
  <1> DEFINE flagged == {b \in f .. f + N - 1 : new[Slot(b)]}
             all == DOMAIN disk \cup {m}
  <1>12. \A b \in 0 .. f - 1 : b \in all
    <2> TAKE b \in 0 .. f - 1
    <2>1. b \in Nat /\ b < f
      BY <1>4
    <2> QED
      BY <1>9, <2>1
  <1>13. \A b : b \in flagged <=> b \in f .. f + N - 1 /\ b \in all
    BY <1>10
  <1>14. \A b \in all : b \in 0 .. f - 1 \/ b \in f .. f + N - 1
    BY <1>11
  <1> HIDE DEF flagged, all
  <1>15. all = (0 .. f - 1) \cup flagged
    BY <1>12, <1>13, <1>14
  <1> QED
    BY <1>4, <1>6, <1>8, <1>15 DEF Tells, f, new, all, flagged
-----------------------------------------------------------------------------
(* The blocks asked for.                                                   *)

LEMMA NextCycleType ==
    ASSUME first \in Nat, Missing # {}, NEW c \in Nat
    PROVE  NextCycle(c) \in Nat
  <1> DEFINE N == MAXBLOCKS
             T == {d \in c + 1 .. c + N : Block(d) \in Missing}
             Next1(d) == /\ Block(d) \in Missing
                         /\ \A e \in c + 1 .. d - 1 : Block(e) \notin Missing
  <1>1. T \in SUBSET Nat /\ T # {}
    <2>1. PICK b \in first .. first + N - 1 : b \in Missing
      BY DEF Missing
    <2>2. b - first \in 0 .. N - 1 /\ b \in Nat
      BY <2>1, Constants
    <2>3. PICK d \in c + 1 .. c + N : Slot(d) = b - first
      BY <2>2, SlotReached
    <2>4. Block(d) = b
      BY <2>2, <2>3 DEF Block
    <2> QED
      BY <2>1, <2>3, <2>4, Constants
  <1>2. PICK x \in T : \A y \in T : x <= y
    <2> HIDE DEF T
    <2> QED
      BY <1>1, SmallestNumber
  <1>3. x \in c + 1 .. c + N /\ Block(x) \in Missing
    OBVIOUS
  <1>4. \A e \in c + 1 .. x - 1 : Block(e) \notin Missing
    <2> SUFFICES ASSUME NEW e \in c + 1 .. x - 1, Block(e) \in Missing
                 PROVE  FALSE
      OBVIOUS
    <2>1. e \in c + 1 .. c + N /\ ~(x <= e)
      BY <1>3, Constants
    <2>2. e \in T
      BY <2>1
    <2> HIDE DEF T
    <2> QED
      BY <1>2, <2>1, <2>2
  <1>5. Next1(x)
    BY <1>3, <1>4
  <1>6. NextCycle(c) = CHOOSE d \in c + 1 .. c + N : Next1(d)
    BY DEF NextCycle
  <1> HIDE DEF Next1, T
  <1>7. NextCycle(c) \in c + 1 .. c + N
    BY <1>3, <1>5, <1>6
  <1> QED
    BY <1>7, Constants

LEMMA CycleType ==
    ASSUME first \in Nat, cycle \in Nat, Missing # {}
    PROVE  \A j \in 0 .. Chunks : CycleAfter[j] \in Nat
  <1> DEFINE Turns(n, f) == /\ f \in [0 .. n -> Nat] /\ f[0] = cycle
                            /\ \A i \in 1 .. n : f[i] = NextCycle(f[i - 1])
             T == {n \in 0 .. Chunks : \E f : Turns(n, f)}
             Step(g, j) == IF j = 0 THEN cycle ELSE NextCycle(g[j - 1])
             Steps(g) == [j \in 0 .. Chunks |-> Step(g, j)]
             u == CHOOSE g : g = Steps(g)
  <1>1. 0 \in T
    <2> DEFINE f == [i \in 0 .. 0 |-> cycle]
    <2>1. f \in [0 .. 0 -> Nat] /\ f[0] = cycle
      OBVIOUS
    <2> HIDE DEF f
    <2>2. Turns(0, f)
      BY <2>1
    <2> QED
      BY <2>2, Constants
  <1>2. ASSUME NEW n \in 0 .. Chunks - 1, n \in T PROVE n + 1 \in T
    <2>1. PICK f : Turns(n, f)
      BY <1>2
    <2> DEFINE new == NextCycle(f[n])
               g == [i \in 0 .. n + 1 |-> IF i = n + 1 THEN new ELSE f[i]]
    <2>2. n + 1 \in 0 .. Chunks /\ n \in Nat
      BY Constants
    <2>3. f[n] \in Nat
      BY <2>1, <2>2
    <2>4. new \in Nat
      BY <2>3, NextCycleType
    <2>5. \A i \in 1 .. n : f[i] = NextCycle(f[i - 1])
      BY <2>1
    <2>6. f \in [0 .. n -> Nat] /\ f[0] = cycle
      BY <2>1
    <2> HIDE DEF new, Turns
    <2>7. g \in [0 .. n + 1 -> Nat] /\ g[0] = cycle
      BY <2>2, <2>4, <2>6
    <2>8. ASSUME NEW i \in 1 .. n + 1 PROVE g[i] = NextCycle(g[i - 1])
      <3>1. CASE i = n + 1
        <4>1. i \in 0 .. n + 1 /\ i - 1 = n /\ n \in 0 .. n + 1 /\ n # n + 1
          BY <2>2, <3>1
        <4>2. g[i] = new /\ g[i - 1] = f[n]
          BY <3>1, <4>1
        <4> QED
          BY <4>2 DEF new
      <3>2. CASE i # n + 1
        <4>1. /\ i \in 1 .. n /\ i \in 0 .. n + 1 /\ i - 1 \in 0 .. n + 1
              /\ i - 1 # n + 1
          BY <2>2, <3>2
        <4>2. g[i] = f[i] /\ g[i - 1] = f[i - 1]
          BY <3>2, <4>1
        <4> QED
          BY <2>5, <4>1, <4>2
      <3> QED
        BY <3>1, <3>2
    <2> HIDE DEF g
    <2>9. Turns(n + 1, g)
      BY <2>7, <2>8 DEF Turns
    <2> QED
      BY <2>2, <2>9
  <1>3. PICK f : Turns(Chunks, f)
    <2> HIDE DEF T
    <2>1. \A i \in 0 .. Chunks : i \in T
      BY <1>1, <1>2, UpTo, Constants
    <2>2. Chunks \in T
      BY <2>1, Constants
    <2> QED
      BY <2>2 DEF T
  <1>4. f = Steps(f)
    <2>1. f = [j \in 0 .. Chunks |-> f[j]]
      BY <1>3
    <2>2. ASSUME NEW j \in 0 .. Chunks PROVE f[j] = Step(f, j)
      <3>1. CASE j = 0
        BY <1>3, <3>1
      <3>2. CASE j # 0
        <4>1. j \in 1 .. Chunks
          BY <3>2
        <4> QED
          BY <1>3, <3>2, <4>1
      <3> QED
        BY <3>1, <3>2
    <2> HIDE DEF Step, Turns
    <2> QED
      BY <2>1, <2>2
  <1>5. u = Steps(u)
    <2> HIDE DEF Steps
    <2> QED
      BY <1>4
  <1>6. CycleAfter = u
    BY DEF CycleAfter
  <1> HIDE DEF u, T
  <1>7. \A j \in 0 .. Chunks : u[j] = Step(u, j)
    <2> HIDE DEF Step
    <2> QED
      BY <1>5
  <1>8. u[0] \in Nat
    BY <1>7, Constants
  <1>9. ASSUME NEW j \in 0 .. Chunks - 1, u[j] \in Nat PROVE u[j + 1] \in Nat
    <2>1. /\ j + 1 \in 0 .. Chunks /\ j + 1 # 0 /\ (j + 1) - 1 = j
      BY Constants
    <2>2. u[j + 1] = NextCycle(u[j])
      BY <1>7, <2>1
    <2> QED
      BY <1>9, <2>2, NextCycleType
  <1> DEFINE V == {j \in 0 .. Chunks : u[j] \in Nat}
  <1>10. 0 \in V
    BY <1>8, Constants
  <1>11. \A j \in 0 .. Chunks - 1 : j \in V => j + 1 \in V
    BY <1>9, Constants
  <1>12. \A j \in 0 .. Chunks : j \in V
    <2> HIDE DEF V
    <2> QED
      BY <1>10, <1>11, UpTo, Constants
  <1> QED
    BY <1>6, <1>12
-----------------------------------------------------------------------------
(* A packet of the client is executed, one message after the other.        *)

Begun == [upload |-> upload, out |-> sOut, data |-> datagram,
          oob |-> {}, sent |-> 0]

Does(p, s, i) == IF i <= Len(p.rel) THEN Command(s, p.rel[i])
                 ELSE NextChunk(s, p.data[i - Len(p.rel)])

(* f[i] is the state of the slot after i messages.                         *)
Executes(p, n, f) ==
    /\ f = [i \in 0 .. n |-> f[i]] /\ f[0] = Begun
    /\ \A i \in 1 .. n : f[i] = Does(p, f[i - 1], i)

LEMMA ExecutesExists ==
    ASSUME NEW p, NEW m \in Nat PROVE \E f : Executes(p, m, f)
  <1> DEFINE T == {n \in 0 .. m : \E f : Executes(p, n, f)}
  <1>1. 0 \in T
    <2> DEFINE f == [i \in 0 .. 0 |-> Begun]
    <2>1. f = [i \in 0 .. 0 |-> f[i]] /\ f[0] = Begun
      OBVIOUS
    <2> HIDE DEF f
    <2>2. Executes(p, 0, f)
      BY <2>1 DEF Executes
    <2> QED
      BY <2>2
  <1>2. ASSUME NEW n \in 0 .. m - 1, n \in T PROVE n + 1 \in T
    <2>1. PICK f : Executes(p, n, f)
      BY <1>2
    <2> DEFINE new == Does(p, f[n], n + 1)
               g == [i \in 0 .. n + 1 |-> IF i = n + 1 THEN new ELSE f[i]]
    <2>2. n + 1 \in 0 .. m /\ n \in Nat
      OBVIOUS
    <2>3. f[0] = Begun /\ \A i \in 1 .. n : f[i] = Does(p, f[i - 1], i)
      BY <2>1 DEF Executes
    <2> HIDE DEF new
    <2>4. g[0] = Begun
      BY <2>2, <2>3
    <2>5. ASSUME NEW i \in 1 .. n + 1 PROVE g[i] = Does(p, g[i - 1], i)
      <3>1. CASE i = n + 1
        <4>1. i \in 0 .. n + 1 /\ i - 1 = n /\ n \in 0 .. n + 1 /\ n # n + 1
          BY <2>2, <3>1
        <4>2. g[i] = new /\ g[i - 1] = f[n]
          BY <3>1, <4>1
        <4> QED
          BY <3>1, <4>2 DEF new
      <3>2. CASE i # n + 1
        <4>1. /\ i \in 1 .. n /\ i \in 0 .. n + 1 /\ i - 1 \in 0 .. n + 1
              /\ i - 1 # n + 1
          BY <2>2, <3>2
        <4>2. g[i] = f[i] /\ g[i - 1] = f[i - 1]
          BY <3>2, <4>1
        <4> QED
          BY <2>3, <4>1, <4>2
      <3> QED
        BY <3>1, <3>2
    <2>6. g = [i \in 0 .. n + 1 |-> g[i]]
      OBVIOUS
    <2> HIDE DEF g
    <2>7. Executes(p, n + 1, g)
      BY <2>4, <2>5, <2>6 DEF Executes
    <2> QED
      BY <2>2, <2>7
  <1> HIDE DEF T
  <1>3. \A i \in 0 .. m : i \in T
    BY <1>1, <1>2, UpTo
  <1>4. m \in T
    BY <1>3
  <1> QED
    BY <1>4 DEF T

LEMMA ExecutedSteps ==
    ASSUME NEW p, NEW m \in Nat, Len(p.rel) + Len(p.data) = m
    PROVE  \E f : Executes(p, m, f) /\ Executed(p) = f[m]
  <1> DEFINE Step(g, i) ==
                 IF i = 0 THEN Begun
                 ELSE IF i <= Len(p.rel) THEN Command(g[i - 1], p.rel[i])
                 ELSE NextChunk(g[i - 1], p.data[i - Len(p.rel)])
             Steps(g) == [i \in 0 .. Len(p.rel) + Len(p.data) |-> Step(g, i)]
             u == CHOOSE g : g = Steps(g)
  <1>1. PICK f : Executes(p, m, f)
    BY ExecutesExists
  <1>2. Executed(p) = u[m]
    BY DEF Executed, Begun
  <1>3. \A g, i : i # 0 => Step(g, i) = Does(p, g[i - 1], i)
    BY DEF Does
  <1>4. \A g : Step(g, 0) = Begun
    OBVIOUS
  <1> HIDE DEF Step
  <1>5. f = Steps(f)
    <2>1. f = [i \in 0 .. m |-> f[i]]
      BY <1>1 DEF Executes
    <2>2. ASSUME NEW i \in 0 .. m PROVE f[i] = Step(f, i)
      <3>1. CASE i = 0
        BY <1>1, <1>4, <3>1 DEF Executes
      <3>2. CASE i # 0
        <4>1. i \in 1 .. m
          BY <3>2
        <4> QED
          BY <1>1, <1>3, <3>2, <4>1 DEF Executes
      <3> QED
        BY <3>1, <3>2
    <2>3. [i \in 0 .. m |-> f[i]] = [i \in 0 .. m |-> Step(f, i)]
      BY <2>2
    <2>4. [i \in 0 .. m |-> Step(f, i)] = Steps(f)
      OBVIOUS
    <2> QED
      BY <2>1, <2>3, <2>4
  <1>6. u = Steps(u)
    <2> HIDE DEF Steps
    <2> QED
      BY <1>5
  <1> HIDE DEF u
  <1>7. \A i \in 0 .. m : u[i] = Step(u, i)
    BY <1>6
  <1>8. u = [i \in 0 .. m |-> u[i]]
    <2>1. Steps(u) = [i \in 0 .. m |-> Step(u, i)]
      OBVIOUS
    <2>2. [i \in 0 .. m |-> Step(u, i)] = [i \in 0 .. m |-> u[i]]
      BY <1>7
    <2> HIDE DEF Steps
    <2> QED
      BY <1>6, <2>1, <2>2
  <1>9. Executes(p, m, u)
    <2>1. u[0] = Begun
      BY <1>4, <1>7
    <2>2. ASSUME NEW i \in 1 .. m PROVE u[i] = Does(p, u[i - 1], i)
      BY <1>3, <1>7
    <2> QED
      BY <1>8, <2>1, <2>2 DEF Executes
  <1> QED
    BY <1>2, <1>9
LEMMA ExecutedAll ==
    ASSUME NEW p, NEW m \in Nat, Len(p.rel) + Len(p.data) = m,
           NEW T, Begun \in T,
           \A s \in T : \A i \in 1 .. m : Does(p, s, i) \in T
    PROVE  Executed(p) \in T
  <1>1. PICK f : Executes(p, m, f) /\ Executed(p) = f[m]
    BY ExecutedSteps
  <1> DEFINE U == {i \in 0 .. m : f[i] \in T}
  <1>2. 0 \in U
    BY <1>1 DEF Executes
  <1>3. ASSUME NEW i \in 0 .. m - 1, i \in U PROVE i + 1 \in U
    <2>1. i + 1 \in 1 .. m /\ (i + 1) - 1 = i /\ i + 1 \in 0 .. m
      OBVIOUS
    <2>2. f[i + 1] = Does(p, f[(i + 1) - 1], i + 1)
      BY <1>1, <2>1 DEF Executes
    <2>3. f[i + 1] = Does(p, f[i], i + 1)
      BY <2>1, <2>2
    <2> QED
      BY <1>3, <2>1, <2>3
  <1> HIDE DEF U
  <1>4. \A i \in 0 .. m : i \in U
    BY <1>2, <1>3, UpTo
  <1>5. m \in U
    BY <1>4
  <1> QED
    BY <1>1, <1>5 DEF U

-----------------------------------------------------------------------------
(* Types of what is said.                                                  *)

ToServer == [rel : Seq(Cmd), data : Seq(Request)]
ToClient == [rel : Seq(Answer), data : Seq(Data)]

SlotState == [upload : 0 .. Len(Sizes), out : Seq(Answer), data : Seq(Data),
              oob : SUBSET Data, sent : Nat]

SlotOK == {s \in SlotState : Len(s.data) <= 1}

LEMMA SlotParts ==
    ASSUME NEW s \in SlotOK
    PROVE  /\ s \in SlotState /\ Len(s.data) <= 1
           /\ s.upload \in 0 .. Len(Sizes) /\ s.out \in Seq(Answer)
           /\ s.data \in Seq(Data) /\ s.oob \subseteq Data /\ s.sent \in Nat
  BY DEF SlotOK, SlotState

LEMMA CmdParts ==
    ASSUME NEW c \in Cmd
    PROVE  \/ c.cmd = "download" /\ c.file \in Files
           \/ c.cmd = "nextdl -1"
           \/ c.cmd = "stopdl"
  <1>1. \/ c \in [cmd : {"download"}, file : Files]
        \/ c = NextDl \/ c = StopDl
    BY DEF Cmd
  <1>2. CASE c \in [cmd : {"download"}, file : Files]
    BY <1>2
  <1>3. CASE c = NextDl
    BY <1>3 DEF NextDl
  <1>4. CASE c = StopDl
    BY <1>4 DEF StopDl
  <1> QED
    BY <1>1, <1>2, <1>3, <1>4

LEMMA AnswerParts ==
    ASSUME NEW a \in Answer
    PROVE  a.size # "none" => a.file \in Files
  BY DEF Answer, Stopped

LEMMA StartOfType ==
    ASSUME NEW f \in Files
    PROVE  StartOf(f) \in Answer
  BY DEF StartOf, Answer

LEMMA CommandType ==
    ASSUME NEW s \in SlotOK, NEW c \in Cmd
    PROVE  Command(s, c) \in SlotOK
  <1>1. /\ s \in SlotState /\ Len(s.data) <= 1
        /\ s.upload \in 0 .. Len(Sizes) /\ s.out \in Seq(Answer)
    BY SlotParts
  <1>2. CASE c.cmd = "download" /\ c.file \in Files
    <2> DEFINE u == IF c.file \in Denied THEN s.upload ELSE c.file
               o == Append(s.out, StartOf(c.file))
    <2>1. u \in 0 .. Len(Sizes)
      BY <1>1, <1>2, Constants
    <2>2. o \in Seq(Answer)
      BY <1>1, <1>2, StartOfType
    <2>3. Command(s, c) = [s EXCEPT !.upload = u, !.out = o]
      BY <1>2 DEF Command
    <2> HIDE DEF u, o
    <2> QED
      BY <1>1, <2>1, <2>2, <2>3 DEF SlotOK, SlotState
  <1>3. CASE c.cmd = "nextdl -1"
    <2>1. Command(s, c) = [s EXCEPT !.upload = 0]
      BY <1>3 DEF Command
    <2>2. 0 \in 0 .. Len(Sizes)
      BY Constants
    <2> QED
      BY <1>1, <2>1, <2>2 DEF SlotOK, SlotState
  <1>4. CASE c.cmd = "stopdl"
    <2> DEFINE o == Append(s.out, Stopped)
    <2>1. Command(s, c) = IF s.upload = 0 THEN s
                          ELSE [s EXCEPT !.upload = 0, !.out = o]
      BY <1>4 DEF Command
    <2>2. 0 \in 0 .. Len(Sizes)
      BY Constants
    <2>3. o \in Seq(Answer)
      BY <1>1 DEF Answer
    <2> HIDE DEF o
    <2> QED
      BY <1>1, <2>1, <2>2, <2>3 DEF SlotOK, SlotState
  <1> QED
    BY <1>2, <1>3, <1>4, CmdParts

(* What an answered request adds.                                          *)
DataOf(s, r) == [block |-> r.block, file |-> s.upload, number |-> r.number]

LEMMA NextChunkIs ==
    ASSUME NEW s, NEW r
    PROVE  \/ NextChunk(s, r) = s
           \/ NextChunk(s, r) = [s EXCEPT !.sent = s.sent + 1]
           \/ /\ s.upload # 0
              /\ NextChunk(s, r) = [s EXCEPT !.data = <<DataOf(s, r)>>,
                                             !.sent = 1]
           \/ /\ s.upload # 0
              /\ NextChunk(s, r) = [s EXCEPT !.oob = s.oob \cup {DataOf(s, r)},
                                             !.sent = s.sent + 1]
  BY DEF NextChunk, DataOf

LEMMA NextChunkType ==
    ASSUME NEW s \in SlotOK, NEW r \in Request
    PROVE  NextChunk(s, r) \in SlotOK
  <1> DEFINE m == DataOf(s, r)
  <1>1. /\ s \in SlotState /\ Len(s.data) <= 1
        /\ s.upload \in 0 .. Len(Sizes) /\ s.data \in Seq(Data)
        /\ s.oob \in SUBSET Data /\ s.sent \in Nat
    BY SlotParts
  <1>2. s.upload # 0 => m \in Data
    BY <1>1, Constants DEF DataOf, Data, Request
  <1>3. s.sent + 1 \in Nat /\ 1 \in Nat
    BY <1>1
  <1> HIDE DEF m
  <1>4. CASE NextChunk(s, r) = [s EXCEPT !.sent = s.sent + 1]
    BY <1>1, <1>3, <1>4 DEF SlotOK, SlotState
  <1>5. CASE /\ s.upload # 0
             /\ NextChunk(s, r) = [s EXCEPT !.data = <<m>>, !.sent = 1]
    <2> DEFINE d == <<m>>
    <2>1. d \in Seq(Data) /\ Len(d) <= 1
      BY <1>2, <1>5
    <2>2. NextChunk(s, r) = [s EXCEPT !.data = d, !.sent = 1]
      BY <1>5
    <2> HIDE DEF d
    <2> QED
      BY <1>1, <1>3, <2>1, <2>2 DEF SlotOK, SlotState
  <1>6. CASE /\ s.upload # 0
             /\ NextChunk(s, r) = [s EXCEPT !.oob = s.oob \cup {m},
                                            !.sent = s.sent + 1]
    <2> DEFINE o == s.oob \cup {m}
    <2>1. o \in SUBSET Data
      BY <1>1, <1>2, <1>6
    <2>2. NextChunk(s, r) = [s EXCEPT !.oob = o, !.sent = s.sent + 1]
      BY <1>6
    <2> HIDE DEF o
    <2> QED
      BY <1>1, <1>3, <2>1, <2>2 DEF SlotOK, SlotState
  <1> QED
    BY <1>4, <1>5, <1>6, NextChunkIs DEF m

LEMMA ToServerParts ==
    ASSUME NEW p \in ToServer
    PROVE  /\ p.rel \in Seq(Cmd) /\ p.data \in Seq(Request)
           /\ Len(p.rel) \in Nat /\ Len(p.data) \in Nat
           /\ \A i \in 1 .. Len(p.rel) : p.rel[i] \in Cmd
           /\ \A i \in 1 .. Len(p.data) : p.data[i] \in Request
  <1>1. p.rel \in Seq(Cmd) /\ p.data \in Seq(Request)
    BY DEF ToServer
  <1> QED
    BY <1>1

LEMMA ExecutedType ==
    ASSUME NEW p \in ToServer, Begun \in SlotOK
    PROVE  Executed(p) \in SlotOK
  <1> DEFINE k == Len(p.rel)
             n == Len(p.data)
  <1>1. /\ k \in Nat /\ n \in Nat
        /\ \A i \in 1 .. k : p.rel[i] \in Cmd
        /\ \A i \in 1 .. n : p.data[i] \in Request
    BY ToServerParts
  <1>2. \A s, i : Does(p, s, i) = IF i <= k THEN Command(s, p.rel[i])
                                 ELSE NextChunk(s, p.data[i - k])
    BY DEF Does
  <1>3. k + n = Len(p.rel) + Len(p.data)
    OBVIOUS
  <1> HIDE DEF k, n
  <1>4. ASSUME NEW s \in SlotOK, NEW i \in 1 .. k + n
        PROVE  Does(p, s, i) \in SlotOK
    <2>1. CASE i <= k
      <3>1. p.rel[i] \in Cmd
        BY <1>1, <2>1
      <3> QED
        BY <1>2, <2>1, <3>1, CommandType
    <2>2. CASE ~(i <= k)
      <3>1. i - k \in 1 .. n
        BY <1>1, <2>2
      <3>2. p.data[i - k] \in Request
        BY <1>1, <3>1
      <3> QED
        BY <1>2, <2>2, <3>2, NextChunkType
    <2> QED
      BY <2>1, <2>2
  <1> DEFINE m == k + n
  <1>5. m \in Nat /\ Len(p.rel) + Len(p.data) = m
    <2>1. m \in Nat
      BY <1>1
    <2>2. Len(p.rel) + Len(p.data) = m
      BY <1>3
    <2> QED
      BY <2>1, <2>2
  <1>6. \A s \in SlotOK : \A i \in 1 .. m : Does(p, s, i) \in SlotOK
    BY <1>4
  <1> HIDE DEF m
  <1> QED
    BY <1>5, <1>6, ExecutedAll
-----------------------------------------------------------------------------
(* Type correctness.                                                       *)

ServerOK == /\ upload \in 0 .. Len(Sizes) /\ sOut \in Seq(Answer)
            /\ datagram \in Seq(Data) /\ Len(datagram) <= 1
AskOK    == /\ name \in Files /\ list \in Seq(Files) /\ cOut \in Seq(Cmd)
            /\ method \in {"none", "qw", "chunks", "error"}
FileOK   == /\ opened \in 0 .. Len(Sizes) /\ started \in 0 .. Len(Sizes)
            /\ number \in Nat /\ size \in Nat /\ first \in Nat
CycleOK  == cycle \in 0 .. MAXBLOCKS - 1
NetOK    == /\ toServer \in Seq(ToServer) /\ toClient \in Seq(ToClient)
            /\ oob \subseteq Data
LimitsOK == faults \in 0 .. MaxFaults /\ commands \in 0 .. MaxCommands
FlagsOK  == reply \in BOOLEAN /\ received \in Ring /\ version \in Versions

LEMMA TypeParts ==
    TypeOK <=> /\ ServerOK /\ AskOK /\ FileOK /\ CycleOK /\ NetOK /\ LimitsOK
               /\ FlagsOK
  BY DEF TypeOK, ServerOK, AskOK, FileOK, CycleOK, NetOK, LimitsOK, FlagsOK,
         Ring, ToServer, ToClient

LEMMA TypeNext ==
    ASSUME ServerOK', AskOK', FileOK', CycleOK', NetOK', LimitsOK', FlagsOK'
    PROVE  TypeOK'
  BY DEF TypeOK, ServerOK, AskOK, FileOK, CycleOK, NetOK, LimitsOK, FlagsOK,
         Ring, ToServer, ToClient

LEMMA FlagsKept ==
    ASSUME TypeOK, reply' = reply, received' = received, version' = version
    PROVE  FlagsOK'
  <1>1. FlagsOK
    BY TypeParts
  <1> QED
    BY <1>1 DEF FlagsOK

LEMMA InitType == Init => TypeOK
  <1> SUFFICES ASSUME Init PROVE TypeOK
    OBVIOUS
  <1> USE Constants
  <1>1. ServerOK
    BY DEF Init, ServerOK
  <1>2. AskOK
    <2> DEFINE c == [cmd |-> "download", file |-> 1]
               l == [i \in 1 .. Len(Sizes) - 1 |-> i + 1]
    <2>1. 1 \in Files
      OBVIOUS
    <2>2. c \in Cmd
      BY <2>1 DEF Cmd
    <2>3. <<c>> \in Seq(Cmd)
      BY <2>2
    <2>4. l \in [1 .. Len(Sizes) - 1 -> Files] /\ Len(Sizes) - 1 \in Nat
      OBVIOUS
    <2>5. l \in Seq(Files)
      <3> HIDE DEF l
      <3> QED
        BY <2>4
    <2>6. name = 1 /\ list = l /\ cOut = <<c>> /\ method = "qw"
      BY DEF Init
    <2> HIDE DEF c, l
    <2> QED
      BY <2>1, <2>3, <2>5, <2>6 DEF AskOK
  <1>3. FileOK
    BY DEF Init, FileOK
  <1>4. CycleOK
    BY DEF Init, CycleOK
  <1>5. NetOK
    BY DEF Init, NetOK
  <1>6. LimitsOK
    BY DEF Init, LimitsOK
  <1>7. FlagsOK
    BY DEF Init, Ring, FlagsOK
  <1> QED
    BY <1>1, <1>2, <1>3, <1>4, <1>5, <1>6, <1>7, TypeParts

LEMMA RequestNextType ==
    ASSUME AskOK, NEW c \in Seq(Cmd), RequestNext(c)
    PROVE  AskOK'
  <1>1. CASE list = << >>
    BY <1>1 DEF RequestNext, AskOK
  <1>2. CASE list # << >>
    <2> DEFINE d == [cmd |-> "download", file |-> Head(list)]
    <2>1. Head(list) \in Files /\ Tail(list) \in Seq(Files)
      BY <1>2 DEF AskOK
    <2>2. d \in Cmd
      BY <2>1 DEF Cmd
    <2>3. /\ name' = Head(list) /\ list' = Tail(list) /\ method' = "qw"
          /\ cOut' = Append(c, d)
      BY <1>2 DEF RequestNext
    <2> HIDE DEF d
    <2>4. Append(c, d) \in Seq(Cmd)
      BY <2>2
    <2> QED
      BY <2>1, <2>3, <2>4 DEF AskOK
  <1> QED
    BY <1>1, <1>2

LEMMA TransmitType ==
    ASSUME TypeOK, NEW go \in BOOLEAN, NEW d \in Seq(Request),
           Transmit(go, d), CycleOK'
    PROVE  TypeOK'
  <1> DEFINE r == IF go THEN cOut ELSE << >>
             p == [rel |-> r, data |-> d]
  <1>1. cOut \in Seq(Cmd) /\ << >> \in Seq(Cmd)
    BY TypeParts DEF AskOK
  <1>2. r \in Seq(Cmd)
    BY <1>1
  <1>3. toServer' = Append(toServer, p) /\ cOut' \in {cOut, << >>}
    BY DEF Transmit
  <1> HIDE DEF r
  <1>4. p \in ToServer
    BY <1>2 DEF ToServer
  <1> HIDE DEF p
  <1>5. NetOK'
    BY <1>3, <1>4, TypeParts DEF NetOK, Transmit
  <1>6. AskOK'
    BY <1>1, <1>3, TypeParts DEF AskOK, Transmit
  <1>7. ServerOK' /\ FileOK' /\ LimitsOK'
    BY TypeParts DEF ServerOK, FileOK, LimitsOK, Transmit, server, limits
  <1>8. FlagsOK'
    BY FlagsKept DEF Transmit, server
  <1> QED
    BY <1>5, <1>6, <1>7, <1>8, TypeNext

(* The requests of a frame.                                                *)
LEMMA RequestsSaid ==
    ASSUME TypeOK, NEW go \in BOOLEAN, SendRequests(go),
           NEW d, d = [j \in 1 .. Chunks |->
                         [block |-> Block(CycleAfter[j]), number |-> number]]
    PROVE  /\ d \in Seq(Request) /\ Transmit(go, d) /\ CycleOK'
           /\ \A k \in 1 .. Len(d) : d[k].number = number
  <1>1. first \in Nat /\ cycle \in Nat /\ number \in Nat /\ Missing # {}
    BY TypeParts, Constants DEF FileOK, CycleOK, SendRequests
  <1>2. \A j \in 0 .. Chunks : CycleAfter[j] \in Nat
    BY <1>1, CycleType
  <1>3. CycleOK'
    <2>1. CycleAfter[Chunks] \in Nat
      BY <1>2, Constants
    <2>2. cycle' = Slot(CycleAfter[Chunks])
      BY DEF SendRequests, Slot
    <2> QED
      BY <2>1, <2>2, SlotInRing DEF CycleOK
  <1> DEFINE r(j) == [block |-> Block(CycleAfter[j]), number |-> number]
  <1>4. ASSUME NEW j \in 1 .. Chunks
        PROVE  r(j) \in Request /\ r(j).number = number
    <2>1. CycleAfter[j] \in Nat
      BY <1>2
    <2>2. Slot(CycleAfter[j]) \in Nat
      <3>1. Slot(CycleAfter[j]) \in 0 .. MAXBLOCKS - 1
        BY <2>1, SlotInRing
      <3> QED
        BY <3>1, Constants
    <2>3. Block(CycleAfter[j]) \in Nat
      BY <1>1, <2>2 DEF Block
    <2> QED
      BY <1>1, <2>3 DEF Request
  <1>5. Transmit(go, d)
    BY DEF SendRequests
  <1>6. d = [j \in 1 .. Chunks |-> r(j)]
    OBVIOUS
  <1> HIDE DEF r
  <1>7. d \in [1 .. Chunks -> Request] /\ Chunks \in Nat
    BY <1>4, <1>6, Constants
  <1>8. d \in Seq(Request) /\ Len(d) = Chunks
    BY <1>7
  <1> QED
    BY <1>3, <1>4, <1>5, <1>6, <1>8

LEMMA SendType ==
    ASSUME TypeOK, NEW go \in BOOLEAN, ClientFrame(go) PROVE TypeOK'
  <1>1. CASE SendRequests(go)
    BY <1>1, RequestsSaid, TransmitType
  <1>2. CASE SendNothing(go)
    <2> DEFINE d == << >>
    <2>1. Transmit(go, d) /\ d \in Seq(Request)
      BY <1>2 DEF SendNothing
    <2>2. CycleOK'
      BY <1>2, TypeParts DEF CycleOK, SendNothing
    <2> HIDE DEF d
    <2> QED
      BY <2>1, <2>2, TransmitType
  <1> QED
    BY <1>1, <1>2 DEF ClientFrame

LEMMA EndDownloadType == ASSUME TypeOK, EndDownload PROVE TypeOK'
  <1> DEFINE n == Ending
             c == Append(cOut, n)
  <1>1. n \in Cmd
    BY DEF Cmd, Ending
  <1>2. c \in Seq(Cmd)
    <2> HIDE DEF n
    <2> QED
      BY <1>1, TypeParts DEF AskOK
  <1>3. RequestNext(c) /\ opened' = 0
    BY DEF EndDownload, FinishDownload
  <1> HIDE DEF c
  <1>4. AskOK'
    BY <1>2, <1>3, RequestNextType, TypeParts
  <1>5. FileOK' /\ CycleOK'
    <2>1. 0 \in 0 .. Len(Sizes)
      BY Constants
    <2>2. UNCHANGED <<started, number, size, first, cycle>>
      BY DEF EndDownload, ring
    <2> QED
      BY <1>3, <2>1, <2>2, TypeParts DEF FileOK, CycleOK
  <1>6. ServerOK' /\ NetOK' /\ LimitsOK'
    BY TypeParts DEF ServerOK, NetOK, LimitsOK, EndDownload, server, net, limits
  <1>7. FlagsOK'
    BY FlagsKept DEF EndDownload, server, ring
  <1> QED
    BY <1>4, <1>5, <1>6, <1>7, TypeNext

LEMMA UserType == ASSUME TypeOK, CL_Download \/ StopDownload PROVE TypeOK'
  <1>1. \A f \in Files : [cmd |-> "download", file |-> f] \in Cmd
    BY DEF Cmd
  <1>2. StopDl \in Cmd
    BY DEF Cmd
  <1>3. AskOK'
    <2>1. CASE CL_Download
      <3>1. PICK f \in Files :
                 /\ name' = f
                 /\ cOut' = Append(cOut, [cmd |-> "download", file |-> f])
        BY <2>1 DEF CL_Download
      <3>2. cOut' \in Seq(Cmd)
        BY <1>1, <3>1, TypeParts DEF AskOK
      <3>3. list' = << >> /\ method' = "qw"
        BY <2>1 DEF CL_Download
      <3> QED
        BY <3>1, <3>2, <3>3 DEF AskOK
    <2>2. CASE StopDownload
      <3>1. cOut' \in Seq(Cmd)
        BY <1>2, <2>2, TypeParts DEF AskOK, StopDownload
      <3> QED
        BY <2>2, <3>1, TypeParts DEF AskOK, StopDownload
    <2> QED
      BY <2>1, <2>2
  <1>4. /\ UNCHANGED <<opened, started, number, ring, server, net, faults>>
        /\ commands > 0 /\ commands' = commands - 1
    BY DEF CL_Download, StopDownload
  <1>5. FileOK' /\ CycleOK' /\ ServerOK' /\ NetOK'
    BY <1>4, TypeParts DEF FileOK, CycleOK, ServerOK, NetOK, server, net, ring
  <1>6. LimitsOK'
    BY <1>4, TypeParts, Constants DEF LimitsOK
  <1>7. FlagsOK'
    BY <1>4, FlagsKept DEF server, ring
  <1> QED
    BY <1>3, <1>5, <1>6, <1>7, TypeNext
(* A block that arrives changes these.                                     *)
LEMMA ChunkType ==
    ASSUME TypeOK, NEW m, NEW via, Chunk(m, via)
    PROVE  /\ first' \in Nat /\ received' \in Ring
           /\ method' \in {method, "error"}
  <1>0. first \in Nat /\ received \in Ring
    BY TypeParts DEF FileOK, FlagsOK
  <1>1. CASE UNCHANGED <<first, received>> /\ method' \in {method, "error"}
    BY <1>0, <1>1
  <1>2. CASE ~(UNCHANGED <<first, received>> /\ method' \in {method, "error"})
    <2> DEFINE r == [received EXCEPT ![Slot(m.block)] = TRUE]
    <2>1. first' = NewFirst(r) /\ received' = Cleared(r) /\ method' = method
      BY <1>2 DEF Chunk
    <2>2. r \in Ring
      BY <1>0 DEF Ring
    <2> HIDE DEF r
    <2>3. NewFirst(r) \in first .. first + MAXBLOCKS
      BY <1>0, NewFirstIs
    <2>4. NewFirst(r) \in Nat
      BY <1>0, <2>3, Constants
    <2> QED
      BY <2>1, <2>2, <2>4, ClearedType
  <1> QED
    BY <1>1, <1>2

LEMMA StartType ==
    ASSUME TypeOK, NEW m \in Answer, NEW c \in Seq(Cmd), c = cOut, Start(m, c)
    PROVE  AskOK' /\ FileOK' /\ CycleOK' /\ received' \in Ring
  <1>0. /\ AskOK /\ FileOK /\ CycleOK /\ received \in Ring
    BY TypeParts DEF FlagsOK
  <1>1. CASE m.size = "none"
    <2>1. RequestNext(c) /\ opened' = 0 /\ UNCHANGED <<started, number, ring>>
      BY <1>1 DEF Start, FinishDownload
    <2>2. UNCHANGED <<started, number, size, first, received, cycle>>
      BY <2>1 DEF ring
    <2>3. AskOK'
      BY <1>0, <2>1, RequestNextType
    <2>4. 0 \in 0 .. Len(Sizes)
      BY Constants
    <2>5. FileOK' /\ CycleOK'
      BY <1>0, <2>1, <2>2, <2>4 DEF FileOK, CycleOK
    <2> QED
      BY <1>0, <2>2, <2>3, <2>5
  <1>2. CASE m.size # "none" /\ method = "chunks"
    <2>1. /\ method' = "error"
          /\ UNCHANGED <<name, opened, started, number, ring, list, cOut>>
      BY <1>2 DEF Start
    <2> QED
      BY <1>0, <2>1 DEF AskOK, FileOK, CycleOK, ring
  <1>3. CASE m.size # "none" /\ method # "chunks"
    <2>1. m.file \in Files
      BY <1>3, AnswerParts
    <2>2. /\ opened' = name /\ started' = m.file /\ method' = "chunks"
          /\ number' = number + 1 /\ size' = Sizes[m.file] /\ first' = 0
          /\ cycle' = MAXBLOCKS - 1
          /\ received' = [i \in 0 .. MAXBLOCKS - 1 |-> FALSE]
          /\ UNCHANGED <<name, list, cOut>>
      BY <1>3 DEF Start
    <2>3. AskOK'
      BY <1>0, <2>2 DEF AskOK
    <2>4. FileOK'
      <3>1. Sizes[m.file] \in Nat
        BY <2>1, Constants
      <3>2. name \in 0 .. Len(Sizes) /\ m.file \in 0 .. Len(Sizes)
        BY <1>0, <2>1, Constants DEF AskOK
      <3>3. number + 1 \in Nat
        BY <1>0 DEF FileOK
      <3> QED
        BY <2>2, <3>1, <3>2, <3>3 DEF FileOK
    <2>5. CycleOK'
      BY <2>2, Constants DEF CycleOK
    <2>6. received' \in Ring
      BY <2>2 DEF Ring
    <2> QED
      BY <2>3, <2>4, <2>5, <2>6
  <1> QED
    BY <1>1, <1>2, <1>3

(* The first reliable message of a packet is taken from it.                *)
Said(p) == [p EXCEPT !.rel = Tail(p.rel)]

LEMMA SaidType ==
    ASSUME NEW p \in ToClient, p.rel # << >>
    PROVE  Head(p.rel) \in Answer /\ Said(p) \in ToClient
  BY SMTT(30) DEF ToClient, Said

LEMMA ParseType == ASSUME TypeOK, Parse PROVE TypeOK'
  <1>0. /\ ServerOK /\ AskOK /\ FileOK /\ CycleOK /\ NetOK /\ LimitsOK
        /\ reply \in BOOLEAN /\ version \in Versions
    BY TypeParts DEF FlagsOK
  <1>1. CASE ParseStart
    <2> DEFINE p == Head(toClient)
               m == Head(p.rel)
    <2>1. toClient # << >> /\ p.rel # << >> /\ Start(m, cOut)
      BY <1>1 DEF ParseStart
    <2>2. toClient \in Seq(ToClient)
      BY <1>0 DEF NetOK
    <2>3. p \in ToClient /\ Tail(toClient) \in Seq(ToClient)
      BY <2>1, <2>2
    <2>4. toClient' = <<Said(p)>> \o Tail(toClient)
      BY <1>1 DEF ParseStart, Said
    <2> HIDE DEF p
    <2>5. m \in Answer /\ Said(p) \in ToClient
      BY <2>1, <2>3, SaidType
    <2>6. toClient' \in Seq(ToClient)
      <3> DEFINE x == Said(p)
      <3>1. x \in ToClient /\ toClient' = <<x>> \o Tail(toClient)
        BY <2>4, <2>5
      <3> HIDE DEF x
      <3> QED
        BY <2>3, <3>1
    <2> HIDE DEF m
    <2>7. cOut \in Seq(Cmd)
      BY <1>0 DEF AskOK
    <2>8. AskOK' /\ FileOK' /\ CycleOK' /\ received' \in Ring
      BY <2>1, <2>5, <2>7, StartType
    <2>9. NetOK'
      BY <1>0, <1>1, <2>6 DEF NetOK, ParseStart
    <2>10. ServerOK' /\ LimitsOK'
      BY <1>0, <1>1 DEF ServerOK, LimitsOK, ParseStart, server, limits
    <2>11. FlagsOK'
      <3>1. reply' = reply /\ version' = version
        BY <1>1 DEF ParseStart, server
      <3> QED
        BY <1>0, <2>8, <3>1 DEF FlagsOK, Versions
    <2> QED
      BY <2>8, <2>9, <2>10, <2>11, TypeNext
  <1>2. CASE ParseDatagram \/ ParseOob
    <2>1. /\ first' \in Nat /\ received' \in Ring
          /\ method' \in {method, "error"}
      <3>1. CASE UNCHANGED <<method, first, received, disk>>
        BY <1>0, <3>1, TypeParts DEF FileOK, FlagsOK
      <3>2. CASE ~UNCHANGED <<method, first, received, disk>>
        <4>1. \E m, via : Chunk(m, via)
          BY <1>2, <3>2 DEF ParseDatagram, ParseOob
        <4> QED
          BY <4>1, ChunkType
      <3> QED
        BY <3>1, <3>2
    <2>2. /\ UNCHANGED <<name, opened, started, number, size, cycle, list, cOut,
                         server, toServer, commands>>
          /\ oob' \subseteq oob
          /\ toClient' = toClient \/ (toClient # << >> /\ toClient' = Tail(toClient))
          /\ faults' = faults \/ (faults > 0 /\ faults' = faults - 1)
      <3>1. CASE ParseDatagram
        BY <3>1 DEF ParseDatagram, limits
      <3>2. CASE ParseOob
        BY <3>2 DEF ParseOob
      <3> QED
        BY <1>2, <3>1, <3>2
    <2>3. AskOK' /\ FileOK' /\ CycleOK'
      BY <1>0, <2>1, <2>2 DEF AskOK, FileOK, CycleOK
    <2>4. NetOK'
      <3>1. toClient' \in Seq(ToClient)
        BY <1>0, <2>2 DEF NetOK
      <3> QED
        BY <1>0, <2>2, <3>1 DEF NetOK
    <2>5. LimitsOK'
      BY <1>0, <2>2, Constants DEF LimitsOK
    <2>6. ServerOK'
      BY <1>0, <2>2 DEF ServerOK, server
    <2>7. FlagsOK'
      <3>1. reply' = reply /\ version' = version
        BY <2>2 DEF server
      <3> QED
        BY <1>0, <2>1, <3>1 DEF FlagsOK, Versions
    <2> QED
      BY <2>3, <2>4, <2>5, <2>6, <2>7, TypeNext
  <1> QED
    BY <1>1, <1>2 DEF Parse

LEMMA ReceiveType == ASSUME TypeOK, ServerReceive PROVE TypeOK'
  <1>0. /\ ServerOK /\ AskOK /\ FileOK /\ CycleOK /\ NetOK /\ LimitsOK
        /\ received \in Ring /\ version \in Versions
    BY TypeParts DEF FlagsOK
  <1> DEFINE p == Head(toServer)
             s == Executed(p)
  <1>1. p \in ToServer /\ Tail(toServer) \in Seq(ToServer)
    BY <1>0 DEF NetOK, ServerReceive
  <1>2. Begun \in SlotOK
    BY <1>0 DEF Begun, SlotOK, SlotState, ServerOK
  <1> HIDE DEF p
  <1>3. s \in SlotOK
    BY <1>1, <1>2, ExecutedType
  <1>4. /\ upload' = s.upload /\ sOut' = s.out /\ datagram' = s.data
        /\ oob' = oob \cup s.oob /\ reply' = TRUE /\ toServer' = Tail(toServer)
        /\ UNCHANGED <<version, client, toClient, limits>>
    BY DEF ServerReceive, p
  <1> HIDE DEF s
  <1>5. ServerOK'
    BY <1>3, <1>4, SlotParts DEF ServerOK
  <1>6. NetOK'
    BY <1>0, <1>1, <1>3, <1>4, SlotParts DEF NetOK
  <1>7. AskOK' /\ FileOK' /\ CycleOK' /\ LimitsOK'
    BY <1>0, <1>4 DEF AskOK, FileOK, CycleOK, LimitsOK, client, limits, ring
  <1>8. FlagsOK'
    <2>1. received' = received
      BY <1>4 DEF client, ring
    <2> QED
      BY <1>0, <1>4, <2>1 DEF FlagsOK, Versions
  <1> QED
    BY <1>5, <1>6, <1>7, <1>8, TypeNext

LEMMA ServerSendType ==
    ASSUME TypeOK, NEW go \in BOOLEAN, ServerSend(go) PROVE TypeOK'
  <1>0. /\ ServerOK /\ AskOK /\ FileOK /\ CycleOK /\ NetOK /\ LimitsOK
        /\ received \in Ring /\ version \in Versions
    BY TypeParts DEF FlagsOK
  <1> DEFINE r == IF go THEN sOut ELSE << >>
             p == [rel |-> r, data |-> datagram]
  <1>1. sOut \in Seq(Answer) /\ << >> \in Seq(Answer) /\ datagram \in Seq(Data)
    BY <1>0 DEF ServerOK
  <1>2. r \in Seq(Answer)
    BY <1>1
  <1>3. /\ toClient' = Append(toClient, p) /\ sOut' \in {sOut, << >>}
        /\ datagram' = << >> /\ reply' = FALSE
        /\ UNCHANGED <<upload, version, client, toServer, oob, limits>>
    BY DEF ServerSend
  <1> HIDE DEF r
  <1>4. p \in ToClient
    BY <1>1, <1>2 DEF ToClient
  <1> HIDE DEF p
  <1>5. NetOK'
    BY <1>0, <1>3, <1>4 DEF NetOK
  <1>6. ServerOK'
    <2>1. << >> \in Seq(Data) /\ Len(<< >>) <= 1
      OBVIOUS
    <2>2. datagram' \in Seq(Data) /\ Len(datagram') <= 1
      BY <1>3, <2>1
    <2> QED
      BY <1>0, <1>1, <1>3, <2>2 DEF ServerOK
  <1>7. AskOK' /\ FileOK' /\ CycleOK' /\ LimitsOK'
    BY <1>0, <1>3 DEF AskOK, FileOK, CycleOK, LimitsOK, client, limits, ring
  <1>8. FlagsOK'
    <2>1. received' = received
      BY <1>3 DEF client, ring
    <2> QED
      BY <1>0, <1>3, <2>1 DEF FlagsOK, Versions
  <1> QED
    BY <1>5, <1>6, <1>7, <1>8, TypeNext

(* The unreliable part of a packet is lost.                                *)
LEMMA LostFromServer ==
    ASSUME NEW q \in Seq(ToServer), NEW i \in 1 .. Len(q),
           NEW t, t = [q EXCEPT ![i].data = << >>]
    PROVE  /\ t \in Seq(ToServer) /\ Len(t) = Len(q)
           /\ \A j \in 1 .. Len(q) :
                 t[j].rel = q[j].rel /\ t[j].data \in {q[j].data, << >>}
  <1> DEFINE e == << >>
             x == [q[i] EXCEPT !.data = e]
  <1>1. q[i] \in ToServer /\ e \in Seq(Request)
    OBVIOUS
  <1>2. t = [q EXCEPT ![i] = x]
    OBVIOUS
  <1> HIDE DEF e
  <1>3. x \in ToServer /\ x.rel = q[i].rel /\ x.data = e
    BY <1>1 DEF ToServer
  <1> HIDE DEF x
  <1>4. t \in Seq(ToServer) /\ Len(t) = Len(q)
    BY <1>2, <1>3
  <1>5. \A j \in 1 .. Len(q) : t[j] = IF j = i THEN x ELSE q[j]
    BY <1>2
  <1> QED
    BY <1>3, <1>4, <1>5 DEF e

LEMMA LostFromClient ==
    ASSUME NEW q \in Seq(ToClient), NEW i \in 1 .. Len(q),
           NEW t, t = [q EXCEPT ![i].data = << >>]
    PROVE  /\ t \in Seq(ToClient) /\ Len(t) = Len(q)
           /\ \A j \in 1 .. Len(q) : t[j].rel = q[j].rel
  <1> DEFINE e == << >>
             x == [q[i] EXCEPT !.data = e]
  <1>1. q[i] \in ToClient /\ e \in Seq(Data)
    OBVIOUS
  <1>2. t = [q EXCEPT ![i] = x]
    OBVIOUS
  <1> HIDE DEF e
  <1>3. x \in ToClient /\ x.rel = q[i].rel
    BY <1>1 DEF ToClient
  <1> HIDE DEF x
  <1>4. t \in Seq(ToClient) /\ Len(t) = Len(q)
    BY <1>2, <1>3
  <1>5. \A j \in 1 .. Len(q) : t[j] = IF j = i THEN x ELSE q[j]
    BY <1>2
  <1> QED
    BY <1>3, <1>4, <1>5

LEMMA LoseType == ASSUME TypeOK, Lose PROVE TypeOK'
  <1>0. /\ ServerOK /\ AskOK /\ FileOK /\ CycleOK /\ NetOK /\ LimitsOK
    BY TypeParts
  <1>1. /\ faults > 0 /\ faults' = faults - 1
        /\ UNCHANGED <<server, client, commands>>
    BY DEF Lose
  <1>2. NetOK'
    <2>1. CASE \E i \in 1 .. Len(toServer) :
                 /\ toServer' = [toServer EXCEPT ![i].data = << >>]
                 /\ UNCHANGED <<toClient, oob>>
      <3>1. toServer' \in Seq(ToServer)
        BY <1>0, <2>1, LostFromServer DEF NetOK
      <3> QED
        BY <1>0, <2>1, <3>1 DEF NetOK
    <2>2. CASE \E i \in 1 .. Len(toClient) :
                 /\ toClient' = [toClient EXCEPT ![i].data = << >>]
                 /\ UNCHANGED <<toServer, oob>>
      <3>1. toClient' \in Seq(ToClient)
        BY <1>0, <2>2, LostFromClient DEF NetOK
      <3> QED
        BY <1>0, <2>2, <3>1 DEF NetOK
    <2>3. CASE oob' \subseteq oob /\ UNCHANGED <<toServer, toClient>>
      BY <1>0, <2>3 DEF NetOK
    <2> QED
      BY <2>1, <2>2, <2>3 DEF Lose
  <1>3. LimitsOK'
    BY <1>0, <1>1, Constants DEF LimitsOK
  <1>4. ServerOK' /\ AskOK' /\ FileOK' /\ CycleOK'
    BY <1>0, <1>1 DEF ServerOK, AskOK, FileOK, CycleOK, server, client, ring
  <1>5. FlagsOK'
    BY <1>1, FlagsKept DEF server, client, ring
  <1> QED
    BY <1>2, <1>3, <1>4, <1>5, TypeNext

LEMMA NextType == ASSUME TypeOK, [Next]_vars PROVE TypeOK'
  <1>1. CASE UNCHANGED vars
    <2>1. FlagsOK'
      BY <1>1, FlagsKept DEF vars, server, client, ring
    <2> QED
      BY <1>1, <2>1, TypeParts, TypeNext
         DEF vars, server, client, net, limits, ring, ServerOK, AskOK, FileOK,
             CycleOK, NetOK, LimitsOK
  <1> QED
    BY <1>1, SendType, ServerSendType, EndDownloadType, ParseType, ReceiveType,
       UserType, LoseType DEF Next
LEMMA TypeCorrect == Spec => []TypeOK
  BY InitType, NextType, PTL DEF Spec

-----------------------------------------------------------------------------
(* The ring and the files.                                                 *)

Telling == method = "chunks" => Tells(first, received, DOMAIN disk)

SavedFiles == saved = [f \in Files |-> saved[f]]

(* Together they are inductive: the flags need the blocks of the disk, and *)
(* a file gets its name when the flags say so.                             *)
WholeInv == TypeOK /\ Telling /\ SavedFiles /\ SavedWhole

LEMMA InitWhole == Init => WholeInv
  <1> SUFFICES ASSUME Init PROVE WholeInv
    OBVIOUS
  <1>1. Telling
    BY DEF Init, Telling
  <1>2. SavedFiles
    BY DEF Init, SavedFiles
  <1>3. SavedWhole
    BY DEF Init, SavedWhole
  <1> QED
    BY <1>1, <1>2, <1>3, InitType DEF WholeInv

(* A step of the network, of the server or of a client that sends.         *)
LEMMA WholeKept ==
    ASSUME WholeInv, TypeOK', UNCHANGED <<method, first, received, disk, saved>>
    PROVE  WholeInv'
  BY DEF WholeInv, Telling, SavedFiles, SavedWhole, Tells, Slot

LEMMA ChunkWhole ==
    ASSUME WholeInv, TypeOK', NEW m, NEW via, Chunk(m, via),
           UNCHANGED saved
    PROVE  WholeInv'
  <1>1. CASE UNCHANGED <<method, first, received, disk>>
    BY <1>1, WholeKept
  <1>2. CASE method' = "error"
    BY <1>2 DEF WholeInv, Telling, SavedFiles, SavedWhole
  <1>3. CASE ~UNCHANGED <<method, first, received, disk>> /\ method' # "error"
    <2> DEFINE b == m.block
               r == [received EXCEPT ![Slot(b)] = TRUE]
    <2>1. /\ method = "chunks" /\ Wanted(b) /\ UNCHANGED method
          /\ first' = NewFirst(r) /\ received' = Cleared(r)
          /\ DOMAIN disk' = DOMAIN disk \cup {b}
      BY <1>3 DEF Chunk
    <2>2. first \in Nat /\ received \in Ring
      BY TypeParts DEF WholeInv, FileOK, FlagsOK
    <2>3. Tells(first, received, DOMAIN disk) /\ b \in Window
      BY <2>1 DEF WholeInv, Telling, Wanted, Window
    <2> HIDE DEF b
    <2>4. Tells(NewFirst(r), Cleared(r), DOMAIN disk \cup {b})
      BY <2>2, <2>3, WindowMoves
    <2> HIDE DEF r
    <2>5. Telling'
      BY <2>1, <2>4 DEF Telling, Tells, Slot
    <2> QED
      BY <2>5 DEF WholeInv, SavedFiles, SavedWhole
  <1> QED
    BY <1>1, <1>2, <1>3

LEMMA StartWhole ==
    ASSUME WholeInv, TypeOK', NEW m, NEW c, Start(m, c)
    PROVE  WholeInv'
  <1>1. CASE m.size = "none"
    <2>1. /\ RequestNext(c)
          /\ saved' = saved
      BY <1>1 DEF Start, FinishDownload
    <2>2. method' # "chunks"
      BY <2>1 DEF RequestNext
    <2> QED
      BY <2>1, <2>2 DEF WholeInv, Telling, SavedFiles, SavedWhole
  <1>2. CASE m.size # "none" /\ method = "chunks"
    <2>1. method' = "error" /\ saved' = saved
      BY <1>2 DEF Start
    <2> QED
      BY <2>1 DEF WholeInv, Telling, SavedFiles, SavedWhole
  <1>3. CASE m.size # "none" /\ method # "chunks"
    <2>1. /\ method' = "chunks" /\ first' = 0 /\ saved' = saved
          /\ received' = [i \in 0 .. MAXBLOCKS - 1 |-> FALSE]
          /\ DOMAIN disk' = {}
      BY <1>3 DEF Start, None
    <2>2. \A b \in 0 .. MAXBLOCKS - 1 : ~received'[Slot(b)]
      <3> SUFFICES ASSUME NEW b \in 0 .. MAXBLOCKS - 1
                   PROVE  ~received'[Slot(b)]
        OBVIOUS
      <3>1. b \in Nat
        BY Constants
      <3>2. Slot(b) \in 0 .. MAXBLOCKS - 1
        BY <3>1, SlotInRing
      <3> QED
        BY <2>1, <3>2
    <2>3. ~received'[Slot(0)]
      BY <2>2, Constants
    <2>4. {b \in 0 .. 0 + MAXBLOCKS - 1 : received'[Slot(b)]} = {}
      BY <2>2, Constants
    <2>5. 0 .. 0 - 1 = {}
      OBVIOUS
    <2>6. Tells(0, received', DOMAIN disk')
      BY <2>1, <2>3, <2>4, <2>5 DEF Tells
    <2>7. Telling'
      BY <2>1, <2>6 DEF Telling, Tells, Slot
    <2> QED
      BY <2>1, <2>7 DEF WholeInv, SavedFiles, SavedWhole
  <1> QED
    BY <1>1, <1>2, <1>3

(* No block missing from the window means none missing at all: the first   *)
(* of the window is never flagged.                                         *)
LEMMA CompleteIsWhole ==
    ASSUME WholeInv, Complete PROVE 0 .. size - 1 \subseteq DOMAIN disk
  <1>1. Tells(first, received, DOMAIN disk) /\ first \in Nat /\ size \in Nat
    BY TypeParts DEF WholeInv, Telling, Complete, FileOK
  <1>2. size <= first
    <2> SUFFICES ASSUME first < size PROVE FALSE
      BY <1>1
    <2>1. first \in first .. first + MAXBLOCKS - 1
      BY <1>1, Constants
    <2>2. first \in Missing
      BY <1>1, <2>1 DEF Tells, Missing
    <2> QED
      BY <2>2 DEF Complete
  <1>3. 0 .. size - 1 \subseteq 0 .. first - 1
    BY <1>1, <1>2
  <1> QED
    BY <1>1, <1>3 DEF Tells

LEMMA EndWhole ==
    ASSUME WholeInv, TypeOK', EndDownload PROVE WholeInv'
  <1> DEFINE c == Append(cOut, Ending)
             x == [blocks |-> disk, size |-> size]
  <1>1. /\ Complete /\ RequestNext(c)
        /\ saved' \in {saved, [saved EXCEPT ![name] = x]}
    BY DEF EndDownload, FinishDownload
  <1>2. method' # "chunks"
    BY <1>1 DEF RequestNext
  <1>3. 0 .. x.size - 1 \subseteq DOMAIN x.blocks
    BY <1>1, CompleteIsWhole
  <1>4. name \in Files /\ SavedFiles /\ SavedWhole
    BY TypeParts DEF WholeInv, AskOK
  <1> HIDE DEF c, x
  <1>5. SavedFiles' /\ SavedWhole'
    <2>1. CASE saved' = saved
      BY <1>4, <2>1 DEF SavedFiles, SavedWhole
    <2>2. CASE saved' = [saved EXCEPT ![name] = x]
      <3>1. \A f \in Files : saved'[f] = IF f = name THEN x ELSE saved[f]
        BY <1>4, <2>2 DEF SavedFiles
      <3>2. SavedFiles'
        BY <1>4, <2>2 DEF SavedFiles
      <3> QED
        BY <1>3, <1>4, <3>1, <3>2 DEF SavedWhole
    <2> QED
      BY <1>1, <2>1, <2>2
  <1> QED
    BY <1>2, <1>5 DEF WholeInv, Telling

LEMMA NextWhole ==
    ASSUME WholeInv, [Next]_vars PROVE WholeInv'
  <1>0. TypeOK'
    BY NextType DEF WholeInv
  <1>1. CASE ParseStart
    BY <1>0, <1>1, StartWhole DEF ParseStart
  <1>2. CASE ParseDatagram \/ ParseOob
    <2>1. UNCHANGED saved
      BY <1>2 DEF ParseDatagram, ParseOob
    <2>2. CASE UNCHANGED <<method, first, received, disk>>
      BY <1>0, <2>1, <2>2, WholeKept
    <2>3. CASE ~UNCHANGED <<method, first, received, disk>>
      <3>1. \E m, via : Chunk(m, via)
        BY <1>2, <2>3 DEF ParseDatagram, ParseOob
      <3> QED
        BY <1>0, <2>1, <3>1, ChunkWhole
    <2> QED
      BY <2>2, <2>3
  <1>3. CASE EndDownload
    BY <1>0, <1>3, EndWhole
  <1>4. CASE CL_Download
    <2>1. method' = "qw" /\ saved' = saved
      BY <1>4 DEF CL_Download
    <2> QED
      BY <1>0, <2>1 DEF WholeInv, Telling, SavedFiles, SavedWhole
  <1>5. CASE UNCHANGED <<method, first, received, disk, saved>>
    BY <1>0, <1>5, WholeKept
  <1>6. ASSUME NEW go \in BOOLEAN, ClientFrame(go) \/ ServerSend(go)
        PROVE  UNCHANGED <<method, first, received, disk, saved>>
    BY <1>6 DEF ClientFrame, SendRequests, SendNothing, Transmit, ServerSend,
                client, ring
  <1>7. ASSUME ServerReceive \/ StopDownload \/ Lose \/ UNCHANGED vars
        PROVE  UNCHANGED <<method, first, received, disk, saved>>
    BY <1>7 DEF ServerReceive, StopDownload, Lose, vars, client, ring
  <1> QED
    BY <1>1, <1>2, <1>3, <1>4, <1>5, <1>6, <1>7 DEF Next, Parse

LEMMA WholeAlways == Spec => []WholeInv
  BY InitWhole, NextWhole, PTL DEF Spec

(* The flags of the ring tell the truth about the file, for any size of    *)
(* the file and of the ring and whatever the network does with the blocks. *)
THEOREM FlagsTellDisk == Spec => []RingIsDisk
  <1>1. WholeInv => RingIsDisk
    BY DEF WholeInv, Telling, Tells, RingIsDisk
  <1> QED
    BY <1>1, WholeAlways, PTL

(* A file gets its name only with each of its blocks on the disk, whatever *)
(* is lost, repeated or late, and whatever the user asks for meanwhile.    *)
THEOREM OnlyWholeSaved == Spec => []SavedWhole
  <1>1. WholeInv => SavedWhole
    BY DEF WholeInv
  <1> QED
    BY <1>1, WholeAlways, PTL
-----------------------------------------------------------------------------
(* Packets on their way, of which one may carry something reliable.        *)

Quiet(q) == \A i \in 1 .. Len(q) : q[i].rel = << >>

Blank(q) == \A i \in 1 .. Len(q) : q[i].data = << >>

Carries(q, i, S) ==
    /\ i \in 1 .. Len(q) /\ q[i].rel \in S
    /\ \A j \in 1 .. Len(q) : j # i => q[j].rel = << >>

(* One of S waits in the message c or is in a packet of q.                 *)
Way(S, c, q) ==
    \/ c \in S /\ Quiet(q)
    \/ c = << >> /\ \E i \in 1 .. Len(q) : Carries(q, i, S)

(* Nothing is asked for with a reliable command or after it.               *)
Trailing(q) ==
    \A i, j \in 1 .. Len(q) : i <= j /\ q[i].rel # << >> => q[j].data = << >>

Numbered(q, n) ==
    \A i \in 1 .. Len(q) : \A k \in 1 .. Len(q[i].data) :
        q[i].data[k].number = n

LEMMA AppendParts ==
    ASSUME NEW P, NEW q \in Seq(P), NEW x \in P, NEW t, t = Append(q, x)
    PROVE  /\ Len(q) \in Nat /\ Len(t) = Len(q) + 1
           /\ \A i \in 1 .. Len(q) : t[i] = q[i]
           /\ t[Len(q) + 1] = x
  OBVIOUS

LEMMA TailParts ==
    ASSUME NEW P, NEW q \in Seq(P), q # << >>, NEW t, t = Tail(q)
    PROVE  /\ Len(q) \in Nat /\ Len(t) = Len(q) - 1 /\ Len(q) >= 1
           /\ \A i \in 1 .. Len(t) : t[i] = q[i + 1] /\ i + 1 \in 1 .. Len(q)
           /\ Head(q) = q[1] /\ 1 \in 1 .. Len(q)
  <1>1. Len(q) \in Nat /\ Len(q) # 0
    BY EmptySeq
  <1>2. Len(t) = Len(q) - 1
    OBVIOUS
  <1>3. \A i \in 1 .. Len(q) - 1 : t[i] = q[i + 1]
    OBVIOUS
  <1>4. Head(q) = q[1]
    OBVIOUS
  <1> QED
    BY <1>1, <1>2, <1>3, <1>4

LEMMA QuietAppend ==
    ASSUME NEW P, NEW q \in Seq(P), NEW x \in P, NEW t, t = Append(q, x),
           Quiet(q), x.rel = << >>
    PROVE  Quiet(t)
  <1> DEFINE n == Len(q)
  <1>1. /\ n \in Nat /\ Len(t) = n + 1
        /\ \A i \in 1 .. n : t[i] = q[i]
        /\ t[n + 1] = x
    BY AppendParts
  <1>2. \A i \in 1 .. n : q[i].rel = << >>
    BY DEF Quiet
  <1> HIDE DEF n
  <1> SUFFICES ASSUME NEW i \in 1 .. n + 1 PROVE t[i].rel = << >>
    BY <1>1 DEF Quiet
  <1>3. CASE i \in 1 .. n
    BY <1>1, <1>2, <1>3
  <1>4. CASE i = n + 1
    BY <1>1, <1>4
  <1> QED
    BY <1>1, <1>3, <1>4

LEMMA WayAppend ==
    ASSUME NEW P, NEW q \in Seq(P), NEW x \in P, NEW t, t = Append(q, x),
           NEW S, NEW c, NEW d, Way(S, c, q),
           \/ x.rel = c /\ d = << >> /\ Quiet(q)
           \/ x.rel = << >> /\ d = c
    PROVE  Way(S, d, t)
  <1> DEFINE n == Len(q)
  <1>1. /\ n \in Nat /\ Len(t) = n + 1
        /\ \A i \in 1 .. n : t[i] = q[i]
        /\ t[n + 1] = x
    BY AppendParts
  <1>2. CASE c \in S /\ Quiet(q) /\ x.rel = c /\ d = << >>
    <2>1. \A i \in 1 .. n : q[i].rel = << >>
      BY <1>2 DEF Quiet
    <2> HIDE DEF n
    <2>2. n + 1 \in 1 .. n + 1 /\ \A j \in 1 .. n + 1 : j # n + 1 => j \in 1 .. n
      BY <1>1
    <2>3. Carries(t, n + 1, S)
      BY <1>1, <1>2, <2>1, <2>2 DEF Carries
    <2> QED
      BY <1>1, <1>2, <2>2, <2>3 DEF Way
  <1>3. CASE c \in S /\ Quiet(q) /\ x.rel = << >> /\ d = c
    <2>1. Quiet(t)
      BY <1>3, QuietAppend
    <2> QED
      BY <1>3, <2>1 DEF Way
  <1>4. CASE c = << >> /\ \E i \in 1 .. n : Carries(q, i, S)
    <2>1. PICK i \in 1 .. n : Carries(q, i, S)
      BY <1>4
    <2>2. x.rel = << >> /\ d = << >>
      BY <1>4
    <2>3. /\ i \in 1 .. n /\ q[i].rel \in S
          /\ \A j \in 1 .. n : j # i => q[j].rel = << >>
      BY <2>1 DEF Carries
    <2> HIDE DEF n
    <2>4. ASSUME NEW j \in 1 .. n + 1, j # i PROVE t[j].rel = << >>
      <3>1. CASE j = n + 1
        BY <1>1, <2>2, <3>1
      <3>2. CASE j \in 1 .. n
        BY <1>1, <2>3, <2>4, <3>2
      <3> QED
        BY <1>1, <3>1, <3>2
    <2>5. i \in 1 .. n + 1 /\ t[i].rel \in S
      BY <1>1, <2>3
    <2>6. Carries(t, i, S)
      BY <1>1, <2>4, <2>5 DEF Carries
    <2> QED
      BY <1>1, <2>2, <2>5, <2>6 DEF Way
  <1> QED
    BY <1>2, <1>3, <1>4 DEF Way

LEMMA TrailingAppend ==
    ASSUME NEW P, NEW q \in Seq(P), NEW x \in P, NEW t, t = Append(q, x),
           Trailing(q), x.data = << >> \/ (Quiet(q) /\ x.rel = << >>)
    PROVE  Trailing(t)
  <1> DEFINE n == Len(q)
  <1>1. /\ n \in Nat /\ Len(t) = n + 1
        /\ \A i \in 1 .. n : t[i] = q[i]
        /\ t[n + 1] = x
    BY AppendParts
  <1>2. \A i, j \in 1 .. n : i <= j /\ q[i].rel # << >> => q[j].data = << >>
    BY DEF Trailing
  <1>3. Quiet(q) => \A i \in 1 .. n : q[i].rel = << >>
    BY DEF Quiet
  <1> HIDE DEF n
  <1> SUFFICES ASSUME NEW i \in 1 .. n + 1, NEW j \in 1 .. n + 1, i <= j,
                      t[i].rel # << >>
               PROVE  t[j].data = << >>
    BY <1>1 DEF Trailing
  <1>4. CASE j \in 1 .. n
    <2>1. i \in 1 .. n
      BY <1>1, <1>4
    <2> QED
      BY <1>1, <1>2, <1>4, <2>1
  <1>5. CASE j = n + 1
    <2>1. CASE x.data = << >>
      BY <1>1, <1>5, <2>1
    <2>2. CASE Quiet(q) /\ x.rel = << >>
      <3>1. CASE i = n + 1
        BY <1>1, <2>2, <3>1
      <3>2. CASE i \in 1 .. n
        BY <1>1, <1>3, <2>2, <3>2
      <3> QED
        BY <1>1, <3>1, <3>2
    <2> QED
      BY <2>1, <2>2
  <1> QED
    BY <1>1, <1>4, <1>5

LEMMA BlankAppend ==
    ASSUME NEW P, NEW q \in Seq(P), NEW x \in P, NEW t, t = Append(q, x),
           x.data = << >>
    PROVE  Blank(q) <=> Blank(t)
  <1> DEFINE n == Len(q)
  <1>1. /\ n \in Nat /\ Len(t) = n + 1
        /\ \A i \in 1 .. n : t[i] = q[i]
        /\ t[n + 1] = x
    BY AppendParts
  <1>2. Blank(q) <=> \A i \in 1 .. n : q[i].data = << >>
    BY DEF Blank
  <1> HIDE DEF n
  <1>3. Blank(t) <=> \A i \in 1 .. n + 1 : t[i].data = << >>
    BY <1>1 DEF Blank
  <1>4. \A i \in 1 .. n + 1 : i \in 1 .. n \/ i = n + 1
    BY <1>1
  <1>5. \A i \in 1 .. n : i \in 1 .. n + 1
    BY <1>1
  <1> QED
    BY <1>1, <1>2, <1>3, <1>4, <1>5

LEMMA NumberedAppend ==
    ASSUME NEW P, NEW q \in Seq(P), NEW x \in P, NEW t, t = Append(q, x),
           NEW n, Numbered(q, n),
           \A k \in 1 .. Len(x.data) : x.data[k].number = n
    PROVE  Numbered(t, n)
  <1> DEFINE l == Len(q)
  <1>1. /\ l \in Nat /\ Len(t) = l + 1
        /\ \A i \in 1 .. l : t[i] = q[i]
        /\ t[l + 1] = x
    BY AppendParts
  <1>2. \A i \in 1 .. l : \A k \in 1 .. Len(q[i].data) :
            q[i].data[k].number = n
    BY DEF Numbered
  <1> HIDE DEF l
  <1> SUFFICES ASSUME NEW i \in 1 .. l + 1, NEW k \in 1 .. Len(t[i].data)
               PROVE  t[i].data[k].number = n
    BY <1>1 DEF Numbered
  <1>3. CASE i = l + 1
    BY <1>1, <1>3
  <1>4. CASE i \in 1 .. l
    BY <1>1, <1>2, <1>4
  <1> QED
    BY <1>1, <1>3, <1>4

LEMMA QuietTail ==
    ASSUME NEW P, NEW q \in Seq(P), q # << >>, NEW t, t = Tail(q), Quiet(q)
    PROVE  Quiet(t) /\ Head(q).rel = << >>
  BY TailParts DEF Quiet

LEMMA BlankTail ==
    ASSUME NEW P, NEW q \in Seq(P), q # << >>, NEW t, t = Tail(q), Blank(q)
    PROVE  Blank(t) /\ Head(q).data = << >>
  BY TailParts DEF Blank

LEMMA NumberedTail ==
    ASSUME NEW P, NEW q \in Seq(P), q # << >>, NEW t, t = Tail(q),
           NEW n, Numbered(q, n)
    PROVE  /\ Numbered(t, n)
           /\ \A k \in 1 .. Len(Head(q).data) : Head(q).data[k].number = n
  BY TailParts DEF Numbered

LEMMA TrailingTail ==
    ASSUME NEW P, NEW q \in Seq(P), q # << >>, NEW t, t = Tail(q), Trailing(q)
    PROVE  /\ Trailing(t)
           /\ Head(q).rel # << >> => Head(q).data = << >> /\ Blank(t)
  <1>1. /\ Len(q) \in Nat /\ Len(t) = Len(q) - 1 /\ Len(q) >= 1
        /\ \A i \in 1 .. Len(t) : t[i] = q[i + 1] /\ i + 1 \in 1 .. Len(q)
        /\ Head(q) = q[1] /\ 1 \in 1 .. Len(q)
    BY TailParts
  <1>2. Trailing(t)
    BY <1>1 DEF Trailing
  <1>3. ASSUME Head(q).rel # << >>
        PROVE  Head(q).data = << >> /\ Blank(t)
    BY <1>1, <1>3 DEF Trailing, Blank
  <1> QED
    BY <1>2, <1>3

LEMMA WayTail ==
    ASSUME NEW P, NEW q \in Seq(P), q # << >>, NEW t, t = Tail(q),
           NEW S, << >> \notin S, NEW c, Way(S, c, q)
    PROVE  /\ Head(q).rel = << >> => Way(S, c, t)
           /\ Head(q).rel # << >> =>
                  c = << >> /\ Head(q).rel \in S /\ Quiet(t)
  <1> DEFINE n == Len(q)
  <1>1. /\ n \in Nat /\ Len(t) = n - 1 /\ n >= 1
        /\ \A i \in 1 .. Len(t) : t[i] = q[i + 1] /\ i + 1 \in 1 .. n
        /\ Head(q) = q[1] /\ 1 \in 1 .. n
    BY TailParts
  <1>2. CASE c \in S /\ Quiet(q)
    BY <1>2, QuietTail DEF Way
  <1>3. CASE c = << >> /\ \E i \in 1 .. n : Carries(q, i, S)
    <2>1. PICK i \in 1 .. n : Carries(q, i, S)
      BY <1>3
    <2>2. /\ i \in 1 .. n /\ q[i].rel \in S /\ q[i].rel # << >>
          /\ \A j \in 1 .. n : j # i => q[j].rel = << >>
      BY <2>1 DEF Carries
    <2> HIDE DEF n
    <2>3. CASE i = 1
      <3>1. Quiet(t)
        BY <1>1, <2>2, <2>3 DEF Quiet
      <3> QED
        BY <1>1, <1>3, <2>2, <2>3, <3>1
    <2>4. CASE i # 1
      <3>1. i - 1 \in 1 .. Len(t) /\ (i - 1) + 1 = i
        BY <1>1, <2>4
      <3>2. t[i - 1].rel \in S
        BY <1>1, <2>2, <3>1
      <3>3. \A j \in 1 .. Len(t) : j # i - 1 => t[j].rel = << >>
        BY <1>1, <2>2, <3>1
      <3>4. Carries(t, i - 1, S)
        BY <3>1, <3>2, <3>3 DEF Carries
      <3>5. Way(S, c, t)
        BY <1>3, <3>1, <3>4 DEF Way
      <3>6. q[1].rel = << >>
        BY <1>1, <2>2, <2>4
      <3> QED
        BY <1>1, <3>5, <3>6
    <2> QED
      BY <2>3, <2>4
  <1> QED
    BY <1>2, <1>3 DEF Way

(* The same reliable parts.                                                *)
LEMMA SameRel ==
    ASSUME NEW q, NEW t, Len(t) = Len(q),
           \A i \in 1 .. Len(q) : t[i].rel = q[i].rel
    PROVE  /\ Quiet(t) <=> Quiet(q)
           /\ \A S, c : Way(S, c, t) <=> Way(S, c, q)
  BY DEF Quiet, Way, Carries
-----------------------------------------------------------------------------
(* Who waits for what, while the user does nothing.                        *)

Ask(f) == [cmd |-> "download", file |-> f]

(* The client asks for one file at a time, and ends the one before it      *)
(* first; to say so with a stopdownload, which is answered, it has nothing *)
(* more to ask for after that.                                             *)
Asks == {<<Ask(name)>>, <<NextDl, Ask(name)>>}
        \cup (IF list = << >> THEN {<<StopDl, Ask(name)>>} ELSE {})

Ends == {<<NextDl>>, <<StopDl>>}

Replies(a) == {<<a>>} \cup (IF list = << >> THEN {<<Stopped, a>>} ELSE {})

Silent == sOut = << >> /\ Quiet(toClient)
Idle   == cOut = << >> /\ Quiet(toServer)

(* The files to ask for are those after the one asked for last.            *)
Listed ==
    /\ name + Len(list) = Len(Sizes)
    /\ \A i \in 1 .. Len(list) : list[i] = name + i

Loading  == /\ Silent /\ Idle /\ upload = started /\ started # 0
            /\ version = "MVDSV" \/ Len(list) <= 1
Asked    == Silent /\ Way(Asks, cOut, toServer)
Answered == /\ Idle /\ Blank(toServer)
            /\ \E a \in Answer :
                  /\ a.size # "none" => /\ upload = a.file /\ a.file = name
                                        /\ name \notin Denied
                  /\ Way(Replies(a), sOut, toClient)
Ended    == Silent /\ (Idle \/ Way(Ends, cOut, toServer))

Phases ==
    /\ Listed
    /\ method = "chunks" => Loading
    /\ method = "qw" => Asked \/ Answered
    /\ method = "none" => list = << >> /\ (Ended \/ Answered)
    /\ method # "error"
    /\ opened # 0 => method = "chunks"

(* All requests under way are of the download that has the number, and the *)
(* server still has its file open, if any.                                 *)
Requests ==
    /\ Trailing(toServer) /\ Numbered(toServer, number)
    /\ ~Blank(toServer) => upload \in {0, started}

(* So the blocks under way with that number are of that file.              *)
Oobs == \A m \in oob : m.number <= number
                       /\ (m.number = number => m.file = started)

Rights == \A b \in DOMAIN disk : disk[b].via = "oob" => disk[b].file = started

Order == Phases /\ Requests /\ Oobs /\ Rights

IInv == WholeInv /\ (Undisturbed /\ OneAtATime => Order)

LEMMA NotEmpty == << >> \notin Asks /\ << >> \notin Ends
                  /\ \A a : << >> \notin Replies(a)
  <1>1. \A x : <<x>> # << >>
    OBVIOUS
  <1>2. \A x, y : <<x, y>> # << >>
    OBVIOUS
  <1> QED
    BY <1>1, <1>2 DEF Asks, Ends, Replies

LEMMA InitOrder == Init => IInv
  <1> SUFFICES ASSUME Init PROVE IInv
    OBVIOUS
  <1>1. Quiet(toServer) /\ Quiet(toClient) /\ Blank(toServer)
        /\ Trailing(toServer) /\ Numbered(toServer, number)
    BY DEF Init, Quiet, Blank, Trailing, Numbered
  <1>2. cOut \in Asks
    BY DEF Init, Ask, Asks
  <1>3. Listed
    <2> DEFINE n == Len(Sizes) - 1
               l == [i \in 1 .. n |-> i + 1]
    <2>1. n \in Nat /\ n + 1 = Len(Sizes)
      BY Constants
    <2>2. list = l /\ name = 1
      BY DEF Init
    <2> HIDE DEF n
    <2>3. Len(l) = n /\ \A i \in 1 .. n : l[i] = 1 + i
      BY <2>1
    <2> HIDE DEF l
    <2> QED
      BY <2>1, <2>2, <2>3 DEF Listed
  <1>4. Phases
    BY <1>1, <1>2, <1>3 DEF Init, Phases, Asked, Silent, Way
  <1>5. Requests /\ Oobs /\ Rights
    BY <1>1 DEF Init, Requests, Oobs, Rights, None
  <1> QED
    BY <1>4, <1>5, InitWhole DEF IInv, Order

-----------------------------------------------------------------------------
(* What the server does with a packet.                                     *)

LEMMA RequestsServed ==
    ASSUME NEW p \in ToServer, Begun \in SlotOK, p.rel = << >>,
           NEW n, \A k \in 1 .. Len(p.data) : p.data[k].number = n,
           NEW s, s = Executed(p)
    PROVE  /\ s.upload = upload /\ s.out = sOut
           /\ \A m \in s.oob : /\ upload # 0 /\ p.data # << >>
                               /\ m.file = upload /\ m.number = n
  <1> DEFINE Right(x) == /\ upload # 0 /\ p.data # << >>
                         /\ x.file = upload /\ x.number = n
             T == {x \in SlotOK : /\ x.upload = upload /\ x.out = sOut
                                  /\ \A m \in x.oob : Right(m)}
             l == Len(p.data)
  <1>1. l \in Nat /\ Len(p.rel) + l = l /\ Len(p.rel) = 0
        /\ \A i \in 1 .. l : p.data[i] \in Request
    BY ToServerParts
  <1>2. Begun \in T
    BY DEF Begun
  <1>3. ASSUME NEW x \in T, NEW i \in 1 .. l PROVE Does(p, x, i) \in T
    <2> DEFINE r == p.data[i]
    <2>1. i - 0 = i /\ ~(i <= 0) /\ r \in Request /\ r.number = n
          /\ p.data # << >>
      <3>1. l > 0
        BY <1>1
      <3>2. Len(<< >>) = 0
        OBVIOUS
      <3>3. p.data # << >>
        BY <3>1, <3>2
      <3> QED
        BY <1>1, <3>3
    <2>2. Does(p, x, i) = NextChunk(x, r)
      BY <1>1, <2>1 DEF Does
    <2> HIDE DEF r
    <2>3. /\ x \in SlotOK /\ x.upload = upload /\ x.out = sOut
          /\ \A m \in x.oob : Right(m)
      OBVIOUS
    <2>4. x \in SlotState
      BY <2>3, SlotParts
    <2>5. NextChunk(x, r) \in SlotOK
      BY <2>1, <2>3, NextChunkType
    <2>6. upload # 0 => Right(DataOf(x, r))
      BY <2>1, <2>3 DEF DataOf
    <2> DEFINE y == NextChunk(x, r)
    <2> HIDE DEF Right
    <2>7. /\ y.upload = x.upload /\ y.out = x.out
          /\ \/ y.oob = x.oob
             \/ x.upload # 0 /\ y.oob = x.oob \cup {DataOf(x, r)}
      <3> DEFINE m == DataOf(x, r)
                 d == <<m>>
                 o == x.oob \cup {m}
      <3>1. \/ y = x
            \/ y = [x EXCEPT !.sent = x.sent + 1]
            \/ y = [x EXCEPT !.data = d, !.sent = 1]
            \/ x.upload # 0 /\ y = [x EXCEPT !.oob = o, !.sent = x.sent + 1]
        BY NextChunkIs
      <3> HIDE DEF y, m, d, o
      <3>2. \/ y.upload = x.upload /\ y.out = x.out /\ y.oob = x.oob
            \/ /\ y.upload = x.upload /\ y.out = x.out
               /\ x.upload # 0 /\ y.oob = o
        BY ONLY <3>1, <2>4 DEF SlotState
      <3> QED
        BY <3>2 DEF o, m
    <2> HIDE DEF y
    <2>8. \A m \in y.oob : Right(m)
      BY <2>3, <2>6, <2>7
    <2>9. y \in T
      BY <2>3, <2>5, <2>7, <2>8 DEF y
    <2> QED
      BY <2>2, <2>9 DEF y
  <1>4. \A x \in T : \A i \in 1 .. l : Does(p, x, i) \in T
    BY <1>3
  <1>5. Len(p.rel) + Len(p.data) = l
    BY <1>1
  <1> HIDE DEF T, l
  <1>6. Executed(p) \in T
    BY <1>1, <1>2, <1>4, <1>5, ExecutedAll
  <1> QED
    BY <1>6 DEF T

LEMMA OneCommand ==
    ASSUME NEW p, NEW c, p.rel = <<c>>, p.data = << >>
    PROVE  Executed(p) = Command(Begun, c)
  <1>1. Len(p.rel) = 1 /\ Len(p.data) = 0 /\ p.rel[1] = c
    OBVIOUS
  <1>2. Len(p.rel) + Len(p.data) = 1
    BY <1>1
  <1>3. PICK f : Executes(p, 1, f) /\ Executed(p) = f[1]
    BY <1>2, ExecutedSteps
  <1>4. f[0] = Begun /\ f[1] = Does(p, f[0], 1)
    BY <1>3 DEF Executes
  <1>5. Does(p, Begun, 1) = Command(Begun, c)
    BY <1>1 DEF Does
  <1> QED
    BY <1>3, <1>4, <1>5

LEMMA TwoCommands ==
    ASSUME NEW p, NEW c, NEW d, p.rel = <<c, d>>, p.data = << >>
    PROVE  Executed(p) = Command(Command(Begun, c), d)
  <1>1. Len(p.rel) = 2 /\ Len(p.data) = 0 /\ p.rel[1] = c /\ p.rel[2] = d
    OBVIOUS
  <1>2. Len(p.rel) + Len(p.data) = 2
    BY <1>1
  <1>3. PICK f : Executes(p, 2, f) /\ Executed(p) = f[2]
    BY <1>2, ExecutedSteps
  <1>4. f[0] = Begun /\ f[1] = Does(p, f[0], 1) /\ f[2] = Does(p, f[1], 2)
    <2>1. f[0] = Begun /\ \A i \in 1 .. 2 : f[i] = Does(p, f[i - 1], i)
      BY <1>3 DEF Executes
    <2>2. f[1] = Does(p, f[1 - 1], 1) /\ f[2] = Does(p, f[2 - 1], 2)
      BY <2>1
    <2>3. 1 - 1 = 0 /\ 2 - 1 = 1
      OBVIOUS
    <2> QED
      BY <2>1, <2>2, <2>3
  <1>5. \A s : Does(p, s, 1) = Command(s, c) /\ Does(p, s, 2) = Command(s, d)
    BY <1>1 DEF Does
  <1> QED
    BY <1>3, <1>4, <1>5

LEMMA AppendSecond ==
    ASSUME NEW P, NEW a \in P, NEW n \in P
    PROVE  Append(<<n>>, a) = <<n, a>>
  <1> DEFINE s == <<n>>
             t == Append(s, a)
             u == <<n, a>>
  <1>1. s \in Seq(P) /\ Len(s) = 1 /\ s[1] = n
    OBVIOUS
  <1>2. u \in Seq(P) /\ Len(u) = 2 /\ u[1] = n /\ u[2] = a
    OBVIOUS
  <1> HIDE DEF s, u
  <1>3. t \in Seq(P) /\ Len(t) = 2 /\ t[1] = n /\ t[2] = a
    <2>1. t \in Seq(P)
      BY <1>1
    <2>2. /\ Len(t) = Len(s) + 1 /\ t[Len(s) + 1] = a
          /\ \A i \in 1 .. Len(s) : t[i] = s[i]
      BY <1>1, AppendParts
    <2>3. Len(t) = 2 /\ t[2] = a /\ t[1] = n
      BY <1>1, <2>2
    <2> QED
      BY <2>1, <2>3
  <1> HIDE DEF t
  <1>4. t = u
    BY <1>2, <1>3
  <1> QED
    BY <1>4 DEF s, t, u

(* A request for a file is answered, and a file that is given away is the  *)
(* one that is open then.                                                  *)
LEMMA AskServed ==
    ASSUME NEW p, Begun \in SlotOK, p.rel \in Asks, p.data = << >>,
           sOut = << >>, name \in Files, NEW s, s = Executed(p)
    PROVE  /\ s.oob = {}
           /\ \E a \in Answer :
                 /\ s.out \in Replies(a)
                 /\ a.size # "none" => /\ s.upload = a.file /\ a.file = name
                                       /\ name \notin Denied
  <1> DEFINE f == name
             o == Append(<< >>, Stopped)
             b == [Begun EXCEPT !.upload = 0]
             d == [Begun EXCEPT !.upload = 0, !.out = o]
             a == StartOf(f)
  <1>0. f \in Files
    OBVIOUS
  <1>1. \/ p.rel = <<Ask(f)>> \/ p.rel = <<NextDl, Ask(f)>>
        \/ p.rel = <<StopDl, Ask(f)>> /\ list = << >>
    BY DEF Asks
  <1>2. Command(Begun, NextDl) = b /\ Command(Begun, StopDl) \in {Begun, d}
    BY DEF Command, NextDl, StopDl, Begun
  <1>3. \E x \in {Begun, b, d} :
           /\ s = Command(x, Ask(f))
           /\ x = d => list = << >>
    <2>1. CASE p.rel = <<Ask(f)>> /\ Begun # d
      BY <2>1, OneCommand
    <2>2. CASE p.rel = <<NextDl, Ask(f)>> /\ b # d
      BY <1>2, <2>2, TwoCommands
    <2>3. CASE p.rel = <<StopDl, Ask(f)>> /\ list = << >>
      BY <1>2, <2>3, TwoCommands
    <2>4. Begun # d /\ b # d
      <3>1. << >> # <<Stopped>> /\ Append(<< >>, Stopped) = <<Stopped>>
        OBVIOUS
      <3>2. Begun.out = << >> /\ b.out = << >> /\ d.out = <<Stopped>>
        BY <3>1 DEF Begun
      <3> QED
        BY <3>1, <3>2
    <2> QED
      BY <1>1, <2>1, <2>2, <2>3, <2>4
  <1>4. a \in Answer /\ Stopped \in Answer
    BY StartOfType, <1>0 DEF Answer
  <1>5. f \notin Denied => a.file = f
    BY DEF StartOf
  <1>6. f \in Denied => a.size = "none"
    BY DEF StartOf
  <1>7. /\ Begun.oob = {} /\ Begun.out = << >>
        /\ b.oob = {} /\ b.out = << >>
        /\ d.oob = {} /\ d.out = o
    BY DEF Begun
  <1>8. /\ Append(<< >>, a) = <<a>> /\ o = <<Stopped>>
        /\ Append(<<Stopped>>, a) = <<Stopped, a>>
    BY <1>4, AppendSecond
  <1>9. PICK x \in {Begun, b, d} :
               /\ s = Command(x, Ask(f))
               /\ x = d => list = << >>
    BY <1>3
  <1>10. /\ s.oob = {} /\ s.out = Append(x.out, a)
         /\ f \notin Denied => s.upload = f
    <2>0. \A z : Command(z, Ask(f)) =
                   [z EXCEPT !.upload = IF f \in Denied THEN z.upload ELSE f,
                             !.out = Append(z.out, a)]
      BY DEF Command, Ask
    <2>1. s = [x EXCEPT !.upload = IF f \in Denied THEN x.upload ELSE f,
                        !.out = Append(x.out, a)]
      <3> HIDE DEF a, b, d, f, o
      <3> QED
        BY <1>9, <2>0
    <2>2. x \in SlotState
      <3>1. Begun \in SlotState
        BY SlotParts
      <3>2. 0 \in 0 .. Len(Sizes) /\ o \in Seq(Answer)
        BY <1>4, Constants
      <3>3. b \in SlotState
        BY <3>1, <3>2 DEF SlotState
      <3>4. d \in SlotState
        <4> HIDE DEF o
        <4> QED
          BY <3>1, <3>2 DEF SlotState
      <3> QED
        BY <3>1, <3>3, <3>4
    <2>3. x.oob = {}
      BY <1>7
    <2> HIDE DEF a, b, d, o
    <2> QED
      BY <2>1, <2>2, <2>3 DEF SlotState
  <1>11. list = << >> => <<Stopped, a>> \in Replies(a)
    BY DEF Replies
  <1> HIDE DEF a, b, d, f, o
  <1>12. s.out \in Replies(a)
    <2>1. CASE x.out = << >>
      BY <1>8, <1>10, <2>1 DEF Replies
    <2>2. CASE x = d
      <3>1. x.out = <<Stopped>>
        BY <1>7, <1>8, <2>2
      <3>2. s.out = <<Stopped, a>>
        BY Zenon, <1>8, <1>10, <3>1
      <3>3. list = << >>
        BY <1>9, <2>2
      <3> QED
        BY Zenon, <1>11, <3>2, <3>3
    <2> QED
      BY <1>7, <1>9, <2>1, <2>2
  <1> QED
    BY <1>4, <1>5, <1>6, <1>10, <1>12 DEF f

LEMMA EndServed ==
    ASSUME NEW p, Begun \in SlotOK, p.rel \in Ends, p.data = << >>,
           sOut = << >>, NEW s, s = Executed(p)
    PROVE  s.oob = {} /\ s.out \in {<< >>, <<Stopped>>}
  <1>1. p.rel = <<NextDl>> \/ p.rel = <<StopDl>>
    BY DEF Ends
  <1> DEFINE o == Append(sOut, Stopped)
  <1>2. \/ s = Begun
        \/ s = [Begun EXCEPT !.upload = 0]
        \/ s = [Begun EXCEPT !.upload = 0, !.out = o]
    <2>1. s = Command(Begun, NextDl) \/ s = Command(Begun, StopDl)
      BY <1>1, OneCommand
    <2> QED
      BY <2>1 DEF Command, NextDl, StopDl, Begun
  <1>3. o = <<Stopped>>
    OBVIOUS
  <1> HIDE DEF o
  <1>4. s.oob = {} /\ (s.out = sOut \/ s.out = o)
    <2>1. CASE s = Begun
      BY <2>1 DEF Begun
    <2>2. CASE s = [Begun EXCEPT !.upload = 0]
      BY <2>2 DEF Begun
    <2>3. CASE s = [Begun EXCEPT !.upload = 0, !.out = o]
      BY <2>3 DEF Begun
    <2> QED
      BY <1>2, <2>1, <2>2, <2>3
  <1>5. s.out = sOut \/ s.out = <<Stopped>>
    BY Zenon, <1>3, <1>4
  <1> QED
    BY <1>4, <1>5
-----------------------------------------------------------------------------
(* The phases in the next state.                                           *)

LEMMA SilentNext ==
    ASSUME sOut' = << >>, Quiet(toClient') PROVE Silent'
  BY DEF Silent, Quiet

LEMMA IdleNext ==
    ASSUME cOut' = << >>, Quiet(toServer') PROVE Idle'
  BY DEF Idle, Quiet

LEMMA SameList ==
    ASSUME UNCHANGED <<name, list>>
    PROVE  /\ Asks' = Asks /\ \A a : Replies(a)' = Replies(a)
           /\ Listed => Listed'
  BY DEF Asks, Replies, Listed

LEMMA AskedNext ==
    ASSUME Silent', Way(Asks', cOut', toServer') PROVE Asked'
  BY DEF Asked, Way, Quiet, Carries

LEMMA AnsweredNext ==
    ASSUME Idle', Blank(toServer'), NEW a \in Answer,
           a.size # "none" => /\ upload' = a.file /\ a.file = name'
                              /\ name' \notin Denied,
           Way(Replies(a)', sOut', toClient')
    PROVE  Answered'
  BY DEF Answered, Blank, Way, Quiet, Carries

LEMMA EndedNext ==
    ASSUME Silent', Idle' \/ Way(Ends, cOut', toServer') PROVE Ended'
  BY DEF Ended, Way, Quiet, Carries

LEMMA RequestsNext ==
    ASSUME Trailing(toServer'), Numbered(toServer', number'),
           Blank(toServer') \/ upload' \in {0, started'}
    PROVE  Requests'
  BY DEF Requests, Trailing, Numbered, Blank

LEMMA BlankNumbered ==
    ASSUME NEW q, NEW n, Blank(q) PROVE Numbered(q, n)
  <1>1. 1 .. Len(<< >>) = {}
    OBVIOUS
  <1> QED
    BY <1>1 DEF Blank, Numbered

(* A step that only moves what is said on.                                 *)
LEMMA StayPhases ==
    ASSUME Phases,
           UNCHANGED <<method, opened, started, upload, name, list, version>>,
           Silent => Silent', Idle => Idle',
           method # "chunks" /\ Blank(toServer) => Blank(toServer'),
           \A S \in {Asks, Ends} :
              Way(S, cOut, toServer) => Way(S, cOut', toServer'),
           \A a \in Answer :
              Way(Replies(a), sOut, toClient) => Way(Replies(a), sOut', toClient')
    PROVE  Phases'
  <1>1. Listed' /\ Asks' = Asks /\ \A a : Replies(a)' = Replies(a)
    BY SameList DEF Phases
  <1>2. method = "chunks" /\ Loading => Loading'
    BY DEF Loading
  <1>3. method # "chunks" /\ Asked => Asked'
    BY <1>1, AskedNext DEF Asked
  <1>4. method # "chunks" /\ Answered => Answered'
    <2> SUFFICES ASSUME method # "chunks", Answered PROVE Answered'
      OBVIOUS
    <2>1. PICK a \in Answer :
                  /\ a.size # "none" => /\ upload = a.file /\ a.file = name
                                        /\ name \notin Denied
                  /\ Way(Replies(a), sOut, toClient)
      BY DEF Answered
    <2>2. Way(Replies(a)', sOut', toClient')
      BY <1>1, <2>1
    <2>3. Idle' /\ Blank(toServer')
      BY DEF Answered
    <2> QED
      BY <2>1, <2>2, <2>3, AnsweredNext
  <1>5. method # "chunks" /\ Ended => Ended'
    BY EndedNext DEF Ended
  <1> QED
    BY <1>1, <1>2, <1>3, <1>4, <1>5 DEF Phases

LEMMA NetParts ==
    ASSUME TypeOK
    PROVE  /\ toServer \in Seq(ToServer) /\ toClient \in Seq(ToClient)
           /\ oob \subseteq Data /\ number \in Nat
           /\ list \in Seq(Files) /\ name \in Files
  BY TypeParts DEF NetOK, FileOK, AskOK

-----------------------------------------------------------------------------
(* Packets are sent.                                                       *)

LEMMA SaidToServer ==
    ASSUME TypeOK, NEW go \in BOOLEAN, NEW data \in Seq(Request),
           Transmit(go, data)
    PROVE  \E x \in ToServer :
              /\ toServer' = Append(toServer, x) /\ x.data = data
              /\ \/ x.rel = cOut /\ cOut' = << >> /\ Quiet(toServer)
                 \/ x.rel = << >> /\ cOut' = cOut
  <1> DEFINE e == IF go THEN cOut ELSE << >>
             x == [rel |-> e, data |-> data]
  <1>1. toServer' = Append(toServer, x) /\ x.data = data /\ x.rel = e
    BY DEF Transmit
  <1>2. e \in Seq(Cmd)
    BY TypeParts DEF AskOK
  <1>3. x \in ToServer
    BY <1>2 DEF ToServer
  <1>4. \/ e = cOut /\ cOut' = << >> /\ Quiet(toServer)
        \/ e = << >> /\ cOut' = cOut
    BY DEF Transmit, MayGo, Quiet
  <1> HIDE DEF x, e
  <1> QED
    BY <1>1, <1>3, <1>4

LEMMA RequestsOrder ==
    ASSUME TypeOK, Order, NEW go \in BOOLEAN, SendRequests(go)
    PROVE  Order'
  <1> DEFINE data == [j \in 1 .. Chunks |->
                        [block |-> Block(CycleAfter[j]), number |-> number]]
  <1>1. /\ method = "chunks"
        /\ UNCHANGED <<opened, started, method, number, disk, upload, sOut,
                       toClient, oob, name, list, version>>
    BY DEF SendRequests, Transmit, server
  <1>2. /\ Loading /\ cOut = << >> /\ Quiet(toServer) /\ Silent
        /\ upload = started /\ Listed
    BY <1>1 DEF Order, Phases, Loading, Idle
  <1>3. /\ data \in Seq(Request) /\ Transmit(go, data)
        /\ \A k \in 1 .. Len(data) : data[k].number = number
    BY RequestsSaid
  <1> HIDE DEF data
  <1>4. PICK x \in ToServer : /\ toServer' = Append(toServer, x) /\ x.data = data
                              /\ x.rel = << >> /\ cOut' = << >>
    BY <1>2, <1>3, SaidToServer
  <1>5. /\ toServer \in Seq(ToServer)
        /\ Trailing(toServer) /\ Numbered(toServer, number)
    BY NetParts DEF Order, Requests
  <1>6. Quiet(toServer')
    BY <1>2, <1>4, <1>5, QuietAppend
  <1>7. Trailing(toServer')
    BY <1>2, <1>4, <1>5, TrailingAppend
  <1>8. Numbered(toServer', number')
    BY ZenonT(30), <1>1, <1>3, <1>4, <1>5, NumberedAppend
  <1>9. Requests'
    BY <1>1, <1>2, <1>7, <1>8, RequestsNext
  <1>10. Loading'
    <2>1. Silent' /\ Idle'
      BY <1>1, <1>2, <1>4, <1>6, SilentNext, IdleNext DEF Silent
    <2> QED
      BY <1>1, <1>2, <2>1 DEF Loading
  <1>11. Phases' /\ Oobs' /\ Rights'
    BY <1>1, <1>2, <1>10, SameList DEF Order, Phases, Oobs, Rights
  <1> QED
    BY <1>9, <1>11 DEF Order

LEMMA NothingOrder ==
    ASSUME TypeOK, Order, NEW go \in BOOLEAN, SendNothing(go)
    PROVE  Order'
  <1>1. /\ method # "chunks" /\ Transmit(go, << >>)
        /\ UNCHANGED <<opened, started, method, number, disk, upload, sOut,
                       toClient, oob, name, list, version>>
    BY DEF SendNothing, Transmit, server
  <1>2. << >> \in Seq(Request)
    OBVIOUS
  <1>3. PICK x \in ToServer :
              /\ toServer' = Append(toServer, x) /\ x.data = << >>
              /\ \/ x.rel = cOut /\ cOut' = << >> /\ Quiet(toServer)
                 \/ x.rel = << >> /\ cOut' = cOut
    BY <1>1, <1>2, SaidToServer
  <1>4. /\ toServer \in Seq(ToServer)
        /\ Trailing(toServer) /\ Numbered(toServer, number)
    BY NetParts DEF Order, Requests
  <1>5. Trailing(toServer') /\ (Blank(toServer) <=> Blank(toServer'))
    BY <1>3, <1>4, TrailingAppend, BlankAppend
  <1>6. Numbered(toServer', number')
    <2>1. \A k \in 1 .. Len(x.data) : x.data[k].number = number
      BY <1>3
    <2> QED
      BY ZenonT(30), <1>1, <1>3, <1>4, <2>1, NumberedAppend
  <1>7. Requests'
    BY <1>1, <1>5, <1>6, RequestsNext DEF Order, Requests
  <1>8. \A S : Way(S, cOut, toServer) => Way(S, cOut', toServer')
    BY <1>3, <1>4, WayAppend
  <1>9. Idle => Idle'
    <2> SUFFICES ASSUME Idle PROVE Idle'
      OBVIOUS
    <2>1. x.rel = << >> /\ cOut' = << >> /\ Quiet(toServer)
      BY <1>3 DEF Idle
    <2>2. Quiet(toServer')
      BY <1>3, <1>4, <2>1, QuietAppend
    <2> QED
      BY <2>1, <2>2, IdleNext
  <1>10. Silent => Silent'
    BY <1>1, SilentNext DEF Silent
  <1>11. \A a \in Answer :
            Way(Replies(a), sOut, toClient) => Way(Replies(a), sOut', toClient')
    BY <1>1
  <1>12. Phases'
    BY <1>1, <1>5, <1>8, <1>9, <1>10, <1>11, StayPhases DEF Order
  <1>13. Oobs' /\ Rights'
    BY <1>1 DEF Order, Oobs, Rights
  <1> QED
    BY <1>7, <1>12, <1>13 DEF Order

LEMMA ServerSendOrder ==
    ASSUME TypeOK, Order, NEW go \in BOOLEAN, ServerSend(go)
    PROVE  Order'
  <1> DEFINE e == IF go THEN sOut ELSE << >>
             x == [rel |-> e, data |-> datagram]
  <1>1. /\ toClient' = Append(toClient, x) /\ x.rel = e
        /\ UNCHANGED <<opened, started, method, number, disk, upload, cOut,
                       toServer, oob, name, list, version>>
    BY DEF ServerSend, client
  <1>2. x \in ToClient
    BY TypeParts DEF ServerOK, ToClient
  <1>3. \/ e = sOut /\ sOut' = << >> /\ Quiet(toClient)
        \/ e = << >> /\ sOut' = sOut
    BY DEF ServerSend, MayGo, Quiet
  <1>4. toClient \in Seq(ToClient)
    BY NetParts
  <1> HIDE DEF x, e
  <1>5. \A S : Way(S, sOut, toClient) => Way(S, sOut', toClient')
    BY <1>1, <1>2, <1>3, <1>4, WayAppend
  <1>6. Silent => Silent'
    <2> SUFFICES ASSUME Silent PROVE Silent'
      OBVIOUS
    <2>1. x.rel = << >> /\ sOut' = << >> /\ Quiet(toClient)
      BY <1>1, <1>3 DEF Silent
    <2>2. Quiet(toClient')
      BY <1>1, <1>2, <1>4, <2>1, QuietAppend
    <2> QED
      BY <2>1, <2>2, SilentNext
  <1>7. Idle => Idle'
    BY <1>1, IdleNext DEF Idle
  <1>8. Phases'
    BY <1>1, <1>5, <1>6, <1>7, StayPhases DEF Order
  <1>9. Requests'
    BY <1>1, RequestsNext DEF Order, Requests
  <1>10. Oobs' /\ Rights'
    BY <1>1 DEF Order, Oobs, Rights
  <1> QED
    BY <1>8, <1>9, <1>10 DEF Order
-----------------------------------------------------------------------------
(* A packet arrives at the server.                                         *)

LEMMA ReceiveOrder ==
    ASSUME TypeOK, Order, ServerReceive PROVE Order'
  <1> DEFINE p == Head(toServer)
             t == Tail(toServer)
             s == Executed(p)
  <1>1. /\ upload' = s.upload /\ sOut' = s.out /\ oob' = oob \cup s.oob
        /\ toServer' = t /\ toServer # << >>
        /\ UNCHANGED <<opened, started, method, number, disk, cOut, toClient,
                       name, list, version>>
    BY DEF ServerReceive, client
  <1>2. /\ toServer \in Seq(ToServer) /\ p \in ToServer /\ t \in Seq(ToServer)
        /\ Trailing(toServer) /\ Numbered(toServer, number) /\ name \in Files
    BY <1>1, NetParts DEF Order, Requests
  <1>3. Begun \in SlotOK
    BY TypeParts DEF Begun, SlotOK, SlotState, ServerOK
  <1>4. Rights'
    BY <1>1 DEF Order, Rights
  <1> DEFINE q == toServer
  <1>5. /\ q \in Seq(ToServer) /\ q # << >> /\ t = Tail(q) /\ p = Head(q)
        /\ Trailing(q) /\ Numbered(q, number)
    BY <1>1, <1>2
  <1> HIDE DEF p, t, s
  <1>6. /\ Trailing(t) /\ Numbered(t, number)
        /\ p.rel # << >> => p.data = << >> /\ Blank(t)
        /\ \A k \in 1 .. Len(p.data) : p.data[k].number = number
        /\ Quiet(q) => Quiet(t) /\ p.rel = << >>
        /\ Blank(q) => Blank(t) /\ p.data = << >>
    BY <1>5, TrailingTail, NumberedTail, QuietTail, BlankTail
  <1>7. \A S \in {Asks, Ends} : Way(S, cOut, q) =>
            /\ p.rel = << >> => Way(S, cOut, t)
            /\ p.rel # << >> => cOut = << >> /\ p.rel \in S /\ Quiet(t)
    BY <1>5, NotEmpty, WayTail
  <1>8. CASE p.rel = << >>
    <2>1. /\ s.upload = upload /\ s.out = sOut
          /\ \A m \in s.oob : /\ upload # 0 /\ p.data # << >>
                              /\ m.file = upload /\ m.number = number
      BY <1>2, <1>3, <1>6, <1>8, RequestsServed DEF s
    <2>2. Phases'
      <3>1. Silent => Silent'
        BY <1>1, <2>1, SilentNext DEF Silent
      <3>2. Idle => Idle'
        BY <1>1, <1>6, IdleNext DEF Idle
      <3>3. \A S \in {Asks, Ends} :
               Way(S, cOut, toServer) => Way(S, cOut', toServer')
        BY <1>1, <1>7, <1>8
      <3> QED
        BY <1>1, <1>6, <2>1, <3>1, <3>2, <3>3, StayPhases DEF Order
    <2>3. Blank(q) \/ upload \in {0, started}
      BY DEF Order, Requests
    <2>4. Requests'
      BY <1>1, <1>6, <2>1, <2>3, RequestsNext
    <2>5. Oobs'
      <3>1. \A m \in s.oob : m.file = started /\ m.number = number
        BY <1>6, <2>1, <2>3
      <3>2. number \in Nat
        BY NetParts
      <3> QED
        BY <1>1, <3>1, <3>2 DEF Order, Oobs
    <2> QED
      BY <1>4, <2>2, <2>4, <2>5 DEF Order
  <1>9. CASE p.rel # << >>
    <2>1. ~Quiet(q) /\ p.data = << >> /\ Blank(t)
      BY <1>6, <1>9
    <2>2. Requests'
      BY <1>1, <1>6, <2>1, RequestsNext
    <2>3. CASE method = "qw" /\ Asked
      <3>1. /\ cOut = << >> /\ p.rel \in Asks /\ Quiet(t)
            /\ sOut = << >> /\ Quiet(toClient)
        BY <1>7, <1>9, <2>3 DEF Asked, Silent
      <3>2. /\ s.oob = {}
            /\ \E a \in Answer :
                  /\ s.out \in Replies(a)
                  /\ a.size # "none" => /\ s.upload = a.file /\ a.file = name
                                        /\ name \notin Denied
        BY <1>2, <1>3, <2>1, <3>1, AskServed DEF s
      <3>3. PICK a \in Answer :
                    /\ sOut' \in Replies(a)
                    /\ a.size # "none" => /\ upload' = a.file /\ a.file = name'
                                          /\ name' \notin Denied
        BY <1>1, <3>2
      <3>4. Idle'
        BY <1>1, <3>1, IdleNext
      <3>5. Way(Replies(a)', sOut', toClient')
        BY <1>1, <3>1, <3>3, SameList DEF Way
      <3>6. Answered'
        BY <1>1, <2>1, <3>3, <3>4, <3>5, AnsweredNext
      <3>7. Phases'
        BY <1>1, <2>3, <3>6, SameList DEF Order, Phases
      <3>8. Oobs'
        BY <1>1, <3>2 DEF Order, Oobs
      <3> QED
        BY <1>4, <2>2, <3>7, <3>8 DEF Order
    <2>4. CASE method = "none" /\ Ended
      <3>1. ~Idle /\ Silent /\ Way(Ends, cOut, q)
        BY <2>1, <2>4 DEF Idle, Ended
      <3>2. cOut = << >> /\ p.rel \in Ends /\ Quiet(t)
        BY <1>7, <1>9, <3>1
      <3>3. s.oob = {} /\ s.out \in {<< >>, <<Stopped>>}
        BY <1>3, <2>1, <3>1, <3>2, EndServed DEF s, Silent
      <3>4. Idle'
        BY <1>1, <3>2, IdleNext
      <3>5. s.out = << >> => Ended'
        <4>1. s.out = << >> => Silent'
          BY <1>1, <3>1, SilentNext DEF Silent
        <4> QED
          BY <3>4, <4>1, EndedNext
      <3>6. s.out = <<Stopped>> => Answered'
        <4>1. Stopped \in Answer /\ Stopped.size = "none"
          BY DEF Answer, Stopped
        <4>2. <<Stopped>> \in Replies(Stopped)
          BY DEF Replies
        <4>3. s.out = <<Stopped>> => Way(Replies(Stopped)', sOut', toClient')
          BY <1>1, <3>1, <4>2, SameList DEF Way, Silent
        <4> QED
          BY <1>1, <2>1, <3>4, <4>1, <4>3, AnsweredNext
      <3>7. Phases'
        BY <1>1, <2>4, <3>3, <3>5, <3>6, SameList DEF Order, Phases
      <3>8. Oobs'
        BY <1>1, <3>3 DEF Order, Oobs
      <3> QED
        BY <1>4, <2>2, <3>7, <3>8 DEF Order
    <2> QED
      <3>1. ~Loading /\ ~Answered
        BY <2>1 DEF Loading, Answered, Idle
      <3>2. method \in {"qw", "none", "chunks", "error"}
        BY TypeParts DEF AskOK
      <3> QED
        BY <2>3, <2>4, <3>1, <3>2 DEF Order, Phases
  <1> QED
    BY <1>8, <1>9

-----------------------------------------------------------------------------
(* A file ends and the next one is asked for.                              *)

(* How the next request is said, behind the end of a file or a refusal.    *)
LEMMA RequestNextOrder ==
    ASSUME TypeOK, Listed, NEW c, RequestNext(c),
           c = << >> \/ c = <<NextDl>> \/ (c = <<StopDl>> /\ Len(list) <= 1),
           Quiet(toServer'), Silent'
    PROVE  /\ Listed'
           /\ method' = "qw" => Asked'
           /\ method' = "none" => list' = << >> /\ Ended'
           /\ method' \in {"qw", "none"}
  <1>1. CASE list = << >>
    <2>1. method' = "none" /\ cOut' = c /\ UNCHANGED <<name, list>>
      BY <1>1 DEF RequestNext
    <2>2. Idle' \/ Way(Ends, cOut', toServer')
      <3>1. CASE c = << >>
        BY <2>1, <3>1, IdleNext
      <3>2. CASE c = <<NextDl>> \/ c = <<StopDl>>
        <4>1. cOut' \in Ends
          BY <2>1, <3>2 DEF Ends
        <4> QED
          BY <4>1 DEF Way
      <3> QED
        BY <3>1, <3>2
    <2> QED
      BY <1>1, <2>1, <2>2, EndedNext, SameList
  <1>2. CASE list # << >>
    <2> DEFINE f == Head(list)
    <2>1. f \in Files /\ list \in Seq(Files) /\ name \in Files
      BY <1>2, NetParts
    <2>2. /\ method' = "qw" /\ cOut' = Append(c, Ask(f))
          /\ name' = f /\ list' = Tail(list)
      BY <1>2 DEF RequestNext, Ask
    <2> HIDE DEF f
    <2> DEFINE l == list
               t == Tail(list)
    <2>3. /\ Len(l) \in Nat /\ Len(t) = Len(l) - 1 /\ Len(l) >= 1
          /\ \A i \in 1 .. Len(t) : t[i] = l[i + 1] /\ i + 1 \in 1 .. Len(l)
          /\ Head(l) = l[1] /\ 1 \in 1 .. Len(l)
      BY <1>2, <2>1, TailParts
    <2>4. f = name + 1 /\ name \in Nat /\ name + Len(l) = Len(Sizes)
          /\ \A i \in 1 .. Len(l) : l[i] = name + i
      BY <2>1, <2>3, Constants DEF Listed, f, Files
    <2>5. Len(l) = 1 => t = << >>
      <3>1. t \in Seq(Files)
        BY <1>2, <2>1
      <3> QED
        BY <2>3, <3>1
    <2> HIDE DEF l, t
    <2>6. Listed'
      <3>1. name' + Len(t) = Len(Sizes)
        <4>1. name' = name + 1 /\ Len(t) = Len(l) - 1
          BY <2>2, <2>3, <2>4
        <4>2. name \in Nat /\ Len(l) \in Nat /\ name + Len(l) = Len(Sizes)
          BY <2>3, <2>4
        <4> QED
          BY <4>1, <4>2
      <3>2. \A i \in 1 .. Len(t) : t[i] = name' + i
        BY <2>2, <2>3, <2>4
      <3> QED
        BY <2>2, <3>1, <3>2 DEF Listed, t
    <2> DEFINE a == Ask(f)
    <2>7. \/ cOut' = <<a>> \/ cOut' = <<NextDl, a>>
          \/ cOut' = <<StopDl, a>> /\ Len(l) <= 1
      <3>1. a \in Cmd /\ NextDl \in Cmd /\ StopDl \in Cmd
        BY <2>1 DEF Ask, Cmd
      <3> HIDE DEF a
      <3>2. Append(<< >>, a) = <<a>>
        OBVIOUS
      <3>3. Append(<<NextDl>>, a) = <<NextDl, a>>
            /\ Append(<<StopDl>>, a) = <<StopDl, a>>
        BY <3>1, AppendSecond
      <3>4. \/ c = << >> \/ c = <<NextDl>>
            \/ c = <<StopDl>> /\ Len(l) <= 1
        BY DEF l
      <3>5. cOut' = Append(c, a)
        BY <2>2 DEF a
      <3>6. CASE c = << >>
        BY Zenon, <3>2, <3>5, <3>6
      <3>7. CASE c = <<NextDl>>
        BY Zenon, <3>3, <3>5, <3>7
      <3>8. CASE c = <<StopDl>> /\ Len(l) <= 1
        BY Zenon, <3>3, <3>5, <3>8
      <3> QED
        BY Zenon, <3>4, <3>6, <3>7, <3>8
    <2>8. cOut' \in Asks'
      <3>1. a = Ask(name')
        BY <2>2 DEF a
      <3>2. Asks' = {<<Ask(name')>>, <<NextDl, Ask(name')>>}
                    \cup (IF list' = << >> THEN {<<StopDl, Ask(name')>>} ELSE {})
        BY DEF Asks, Ask
      <3> HIDE DEF a
      <3>3. Len(l) <= 1 => list' = << >>
        BY <2>2, <2>3, <2>5 DEF t
      <3>4. CASE cOut' = <<a>> \/ cOut' = <<NextDl, a>>
        BY <3>1, <3>2, <3>4
      <3>5. CASE cOut' = <<StopDl, a>> /\ Len(l) <= 1
        BY <3>1, <3>2, <3>3, <3>5
      <3> QED
        BY <2>7, <3>4, <3>5 DEF a
    <2>9. Way(Asks', cOut', toServer')
      BY <2>8 DEF Way
    <2> QED
      BY <2>2, <2>6, <2>9, AskedNext
  <1> QED
    BY <1>1, <1>2

LEMMA EndOrder ==
    ASSUME TypeOK, Order, EndDownload PROVE Order'
  <1> DEFINE c == Append(cOut, Ending)
  <1>1. /\ Complete /\ opened' = 0 /\ disk' = None /\ RequestNext(c)
        /\ UNCHANGED <<started, number, upload, sOut, toServer, toClient, oob>>
    BY DEF EndDownload, FinishDownload, server, net
  <1>2. /\ Loading /\ cOut = << >> /\ Quiet(toServer) /\ Silent /\ Listed
        /\ version = "MVDSV" \/ Len(list) <= 1
    BY <1>1 DEF Complete, Order, Phases, Loading, Idle
  <1>3. c = <<NextDl>> \/ (c = <<StopDl>> /\ Len(list) <= 1)
    <2>1. c = <<Ending>>
      BY <1>2
    <2>2. Ending = NextDl \/ (Ending = StopDl /\ Len(list) <= 1)
      BY <1>2 DEF Ending
    <2> HIDE DEF c
    <2>3. CASE Ending = NextDl
      BY Zenon, <2>1, <2>3
    <2>4. CASE Ending = StopDl /\ Len(list) <= 1
      BY Zenon, <2>1, <2>4
    <2> QED
      BY Zenon, <2>2, <2>3, <2>4
  <1>4. Silent'
    BY <1>1, <1>2, SilentNext DEF Silent
  <1> HIDE DEF c
  <1>5. /\ Listed'
        /\ method' = "qw" => Asked'
        /\ method' = "none" => list' = << >> /\ Ended'
        /\ method' \in {"qw", "none"}
    BY <1>1, <1>2, <1>3, <1>4, RequestNextOrder
  <1>6. Phases'
    BY <1>1, <1>5 DEF Phases
  <1>7. Requests'
    BY <1>1, RequestsNext DEF Order, Requests
  <1>8. Oobs' /\ Rights'
    BY <1>1 DEF Order, Oobs, Rights, None
  <1> QED
    BY <1>6, <1>7, <1>8 DEF Order

(* An answer is read: the only one under way, or the one to a stopdownload *)
(* before it.                                                              *)
LEMMA StartOrder ==
    ASSUME TypeOK, OneAtATime, Order, ParseStart PROVE Order'
  <1> DEFINE p == Head(toClient)
             t == Tail(toClient)
             q == toClient
             x == Said(p)
             u == <<x>> \o t
  <1>1. /\ toClient # << >> /\ p.rel # << >> /\ toClient' = u
        /\ Start(Head(p.rel), cOut)
        /\ UNCHANGED <<upload, sOut, toServer, oob, version>>
    BY DEF ParseStart, Said, server
  <1>2. q \in Seq(ToClient) /\ p \in ToClient /\ t \in Seq(ToClient)
        /\ number \in Nat /\ oob \subseteq Data
        /\ name \in Files /\ list \in Seq(Files)
    BY <1>1, NetParts
  <1>3. ~Quiet(q)
    BY <1>1, <1>2, QuietTail
  <1>4. /\ method \in {"qw", "none"} /\ Answered /\ opened = 0 /\ Listed
        /\ method = "none" => list = << >>
    <2>1. ~Silent
      BY <1>3 DEF Silent
    <2>2. method \in {"qw", "none", "chunks", "error"}
      BY TypeParts DEF AskOK
    <2> QED
      BY <2>1, <2>2 DEF Order, Phases, Loading, Asked, Ended
  <1>5. Idle /\ Blank(toServer) /\ cOut = << >> /\ Quiet(toServer)
    BY <1>4 DEF Answered, Idle
  <1>6. PICK a \in Answer :
                /\ a.size # "none" => /\ upload = a.file /\ a.file = name
                                      /\ name \notin Denied
                /\ Way(Replies(a), sOut, q)
    BY <1>4 DEF Answered
  <1>7. p.rel \in Replies(a) /\ sOut = << >> /\ Quiet(t)
    <2>1. << >> \notin Replies(a)
      BY NotEmpty
    <2> HIDE DEF p, t, q
    <2> QED
      BY <1>1, <1>2, <1>6, <2>1, WayTail DEF p, t, q
  <1>8. x \in ToClient /\ x.rel = Tail(p.rel)
    <2>1. x \in ToClient
      BY <1>1, <1>2, SaidType
    <2>2. x.rel = Tail(p.rel)
      BY <1>2 DEF Said, ToClient
    <2> QED
      BY <2>1, <2>2
  <1> HIDE DEF x
  <1>9. /\ 1 \in 1 .. Len(u) /\ u[1] = x
        /\ \A j \in 1 .. Len(u) : j # 1 => u[j].rel = << >>
    <2> HIDE DEF p, t
    <2>1. /\ Len(t) \in Nat /\ Len(<<x>> \o t) = Len(t) + 1
          /\ \A i \in 1 .. Len(t) + 1 :
                (<<x>> \o t)[i] = IF i = 1 THEN x ELSE t[i - 1]
      BY <1>2, <1>8
    <2>2. \A i \in 1 .. Len(t) + 1 : i = 1 \/ i - 1 \in 1 .. Len(t)
      BY <2>1
    <2>3. \A i \in 1 .. Len(t) : t[i].rel = << >>
      BY <1>7 DEF Quiet
    <2>4. 1 \in 1 .. Len(t) + 1
      BY <2>1
    <2> QED
      BY <2>1, <2>2, <2>3, <2>4
  <1> HIDE DEF p, t, u
  <1>10. CASE p.rel = <<Stopped, a>> /\ list = << >>
    <2>1. Head(p.rel) = Stopped /\ x.rel = <<a>> /\ Stopped.size = "none"
      <3>1. Head(<<Stopped, a>>) = Stopped /\ Tail(<<Stopped, a>>) = <<a>>
        OBVIOUS
      <3> QED
        BY <1>8, <1>10, <3>1 DEF Stopped
    <2>2. /\ opened' = 0 /\ disk' = None /\ RequestNext(cOut)
          /\ UNCHANGED <<started, number>>
      BY <1>1, <2>1 DEF Start, FinishDownload
    <2>3. method' = "none" /\ cOut' = << >> /\ UNCHANGED <<name, list>>
      BY <1>5, <1>10, <2>2 DEF RequestNext
    <2>4. Idle'
      BY <1>1, <1>5, <2>3, IdleNext
    <2>5. <<a>> \in Replies(a)
      BY DEF Replies
    <2>6. Carries(u, 1, Replies(a))
      BY <1>9, <2>1, <2>5 DEF Carries
    <2>7. Way(Replies(a), << >>, u)
      BY <1>9, <2>6 DEF Way
    <2>8. Way(Replies(a)', sOut', toClient')
      BY <1>1, <1>7, <2>3, <2>7, SameList
    <2>9. Answered'
      BY <1>1, <1>5, <1>6, <2>3, <2>4, <2>8, AnsweredNext
    <2>10. Phases'
      BY <1>4, <1>10, <2>2, <2>3, <2>9, SameList DEF Phases
    <2>11. Requests'
      BY <1>1, <2>2, RequestsNext DEF Order, Requests
    <2>12. Oobs' /\ Rights'
      BY <1>1, <2>2 DEF Order, Oobs, Rights, None
    <2> QED
      BY <2>10, <2>11, <2>12 DEF Order
  <1>11. ASSUME p.rel = <<a>>
         PROVE  Silent' /\ Start(a, << >>)
    <2>1. Head(<<a>>) = a /\ Tail(<<a>>) = << >>
      OBVIOUS
    <2>2. Quiet(u)
      BY <1>8, <1>9, <1>11, <2>1 DEF Quiet
    <2> QED
      BY <1>1, <1>5, <1>7, <1>11, <2>1, <2>2, SilentNext
  <1>12. CASE p.rel = <<a>> /\ a.size = "none"
    <2>1. /\ opened' = 0 /\ disk' = None /\ RequestNext(<< >>)
          /\ UNCHANGED <<started, number>> /\ Silent'
      BY <1>11, <1>12 DEF Start, FinishDownload
    <2>2. Quiet(toServer')
      BY <1>1, <1>5
    <2>3. /\ Listed'
          /\ method' = "qw" => Asked'
          /\ method' = "none" => list' = << >> /\ Ended'
          /\ method' \in {"qw", "none"}
      BY <1>4, <2>1, <2>2, RequestNextOrder
    <2>4. Phases'
      BY <2>1, <2>3 DEF Phases
    <2>5. Requests'
      BY <1>1, <2>1, RequestsNext DEF Order, Requests
    <2>6. Oobs' /\ Rights'
      BY <1>1, <2>1 DEF Order, Oobs, Rights, None
    <2> QED
      BY <2>4, <2>5, <2>6 DEF Order
  <1>13. CASE p.rel = <<a>> /\ a.size # "none"
    <2>1. /\ method' = "chunks" /\ started' = a.file /\ number' = number + 1
          /\ disk' = None /\ cOut' = cOut /\ UNCHANGED <<name, list>>
      BY <1>4, <1>11, <1>13 DEF Start
    <2>2. a.file \in Files /\ a.file # 0 /\ upload' = a.file
      <3>1. a.file \in Files /\ upload = a.file
        BY <1>6, <1>13, AnswerParts
      <3> QED
        BY <1>1, <3>1, Constants DEF Files
    <2>3. Loading'
      <3>1. Idle'
        BY <1>1, <1>5, <2>1, IdleNext
      <3>2. version = "MVDSV" \/ Len(list) <= 1
        <4>1. version = "MVDSV" \/ name + 1 >= Len(Sizes)
          BY <1>2, <1>6, <1>13 DEF OneAtATime
        <4>2. name \in Nat /\ Len(list) \in Nat /\ name + Len(list) = Len(Sizes)
          BY <1>2, <1>4, Constants DEF Listed, Files
        <4> QED
          BY <4>1, <4>2
      <3> QED
        BY <1>1, <1>11, <1>13, <2>1, <2>2, <3>1, <3>2 DEF Loading
    <2>4. Phases'
      BY <1>4, <2>1, <2>3, SameList DEF Phases
    <2>5. Requests'
      <3>1. Blank(toServer') /\ Trailing(toServer')
        BY <1>1, <1>5 DEF Order, Requests
      <3>2. Numbered(toServer', number')
        BY <3>1, BlankNumbered
      <3> QED
        BY <3>1, <3>2, RequestsNext
    <2>6. Oobs'
      <3>1. \A m \in oob : m.number \in Nat /\ m.number <= number
        BY <1>2 DEF Order, Oobs, Data
      <3>2. \A m \in oob : m.number <= number + 1 /\ m.number # number + 1
        BY <1>2, <3>1
      <3> QED
        BY <1>1, <2>1, <3>2 DEF Oobs
    <2>7. Rights'
      BY <2>1 DEF Rights, None
    <2> QED
      BY <2>4, <2>5, <2>6, <2>7 DEF Order
  <1> QED
    BY <1>7, <1>10, <1>12, <1>13 DEF Replies
-----------------------------------------------------------------------------
(* Blocks arrive, or get lost.                                             *)

LEMMA ChunkOrder ==
    ASSUME Order, NEW m, NEW via, UNCHANGED <<opened, started>>,
           \/ Chunk(m, via) /\ (via = "oob" => m.file = started)
           \/ UNCHANGED <<method, disk>>
    PROVE  method' = method /\ Rights'
  <1>1. CASE UNCHANGED <<method, disk>>
    BY <1>1 DEF Order, Rights
  <1>2. CASE ~UNCHANGED <<method, disk>>
    <2> DEFINE x == [file |-> m.file, via |-> via]
               e == m.block
    <2>1. /\ opened # 0 /\ method = "chunks" /\ method' = method
          /\ disk' = [b \in DOMAIN disk \cup {e} |-> IF b = e THEN x ELSE disk[b]]
      BY <1>2 DEF Chunk, Order, Phases
    <2>2. x.via = "oob" => x.file = started
      BY <1>2
    <2> HIDE DEF x, e
    <2>3. \A b \in DOMAIN disk' : b \in DOMAIN disk \cup {e}
                                  /\ disk'[b] = IF b = e THEN x ELSE disk[b]
      BY <2>1
    <2>4. Rights'
      BY <2>2, <2>3 DEF Order, Rights
    <2> QED
      BY <2>1, <2>4
  <1> QED
    BY <1>1, <1>2

LEMMA DatagramOrder ==
    ASSUME TypeOK, Order, ParseDatagram PROVE Order'
  <1> DEFINE q == toClient
             t == Tail(toClient)
  <1>1. /\ q # << >> /\ Head(q).rel = << >> /\ toClient' = t
        /\ UNCHANGED <<opened, started, number, cOut, upload, sOut, toServer, oob,
                       name, list, version>>
    BY DEF ParseDatagram, server
  <1>2. q \in Seq(ToClient) /\ t = Tail(q)
    BY NetParts
  <1>3. \/ UNCHANGED <<method, disk>>
        \/ \E m : Chunk(m, "datagram")
    BY DEF ParseDatagram
  <1>4. method' = method /\ Rights'
    BY <1>1, <1>3, ChunkOrder
  <1> HIDE DEF q, t
  <1>5. Quiet(q) => Quiet(t)
    BY <1>1, <1>2, QuietTail
  <1>6. \A S, c : << >> \notin S /\ Way(S, c, q) => Way(S, c, t)
    BY <1>1, <1>2, WayTail
  <1>7. Silent => Silent'
    BY <1>1, <1>5, SilentNext DEF Silent, q
  <1>8. Idle => Idle'
    BY <1>1, IdleNext DEF Idle
  <1>9. \A a : Way(Replies(a), sOut, toClient)
                   => Way(Replies(a), sOut', toClient')
    BY <1>1, <1>6, NotEmpty DEF q
  <1>10. Phases'
    BY <1>1, <1>4, <1>7, <1>8, <1>9, StayPhases DEF Order
  <1>11. Requests'
    BY <1>1, RequestsNext DEF Order, Requests
  <1>12. Oobs'
    BY <1>1 DEF Order, Oobs
  <1> QED
    BY <1>4, <1>10, <1>11, <1>12 DEF Order

LEMMA OobOrder ==
    ASSUME TypeOK, Order, ParseOob PROVE Order'
  <1>1. /\ oob' \subseteq oob
        /\ UNCHANGED <<opened, started, number, cOut, upload, sOut, toServer,
                       toClient, name, list, version>>
    BY DEF ParseOob, server
  <1>2. \/ UNCHANGED <<method, disk>>
        \/ \E m \in oob : m.number = number /\ Chunk(m, "oob")
    BY DEF ParseOob, OfThisDownload
  <1>3. method' = method /\ Rights'
    <2>1. \A m \in oob : m.number = number => m.file = started
      BY DEF Order, Oobs
    <2> QED
      BY <1>1, <1>2, <2>1, ChunkOrder
  <1>4. Silent => Silent'
    BY <1>1, SilentNext DEF Silent
  <1>5. Idle => Idle'
    BY <1>1, IdleNext DEF Idle
  <1>6. Phases'
    BY <1>1, <1>3, <1>4, <1>5, StayPhases DEF Order
  <1>7. Requests'
    BY <1>1, RequestsNext DEF Order, Requests
  <1>8. Oobs'
    BY <1>1 DEF Order, Oobs
  <1> QED
    BY <1>3, <1>6, <1>7, <1>8 DEF Order

LEMMA LoseOrder ==
    ASSUME TypeOK, Order, Lose PROVE Order'
  <1>1. UNCHANGED <<opened, started, method, number, disk, cOut, upload, sOut,
                    name, list, version>>
    BY DEF Lose, server, client
  <1>2. toServer \in Seq(ToServer) /\ toClient \in Seq(ToClient)
    BY NetParts
  <1>3. oob' \subseteq oob
    BY DEF Lose
  <1>4. /\ Len(toServer') = Len(toServer)
        /\ \A j \in 1 .. Len(toServer) :
              /\ toServer'[j].rel = toServer[j].rel
              /\ toServer'[j].data \in {toServer[j].data, << >>}
    <2>1. CASE toServer' = toServer
      BY <2>1
    <2>2. CASE toServer' # toServer
      <3>1. PICK i \in 1 .. Len(toServer) :
                    toServer' = [toServer EXCEPT ![i].data = << >>]
        BY <2>2 DEF Lose
      <3> QED
        BY <1>2, <3>1, LostFromServer
    <2> QED
      BY <2>1, <2>2
  <1>5. /\ Len(toClient') = Len(toClient)
        /\ \A j \in 1 .. Len(toClient) : toClient'[j].rel = toClient[j].rel
    <2>1. CASE toClient' = toClient
      BY <2>1
    <2>2. CASE toClient' # toClient
      <3>1. PICK i \in 1 .. Len(toClient) :
                    toClient' = [toClient EXCEPT ![i].data = << >>]
        BY <2>2 DEF Lose
      <3> QED
        BY <1>2, <3>1, LostFromClient
    <2> QED
      BY <2>1, <2>2
  <1>6. /\ Quiet(toServer) => Quiet(toServer')
        /\ \A S, c : Way(S, c, toServer) => Way(S, c, toServer')
    BY <1>4, SameRel
  <1>7. /\ Quiet(toClient) => Quiet(toClient')
        /\ \A S, c : Way(S, c, toClient) => Way(S, c, toClient')
    BY <1>5, SameRel
  <1>8. Blank(toServer) => Blank(toServer')
    BY <1>4 DEF Blank
  <1>9. Phases'
    <2>1. Silent => Silent'
      BY <1>1, <1>7, SilentNext DEF Silent
    <2>2. Idle => Idle'
      BY <1>1, <1>6, IdleNext DEF Idle
    <2> QED
      BY <1>1, <1>6, <1>7, <1>8, <2>1, <2>2, StayPhases DEF Order
  <1>10. Requests'
    <2>1. Trailing(toServer')
      BY <1>4 DEF Order, Requests, Trailing
    <2>2. Numbered(toServer', number')
      <3> SUFFICES ASSUME NEW i \in 1 .. Len(toServer'),
                          NEW k \in 1 .. Len(toServer'[i].data)
                   PROVE  toServer'[i].data[k].number = number
        BY <1>1 DEF Numbered
      <3>1. i \in 1 .. Len(toServer)
        BY <1>4
      <3>2. toServer'[i].data = toServer[i].data
        <4>1. 1 .. Len(<< >>) = {}
          OBVIOUS
        <4> QED
          BY <1>4, <3>1, <4>1
      <3> QED
        BY <3>1, <3>2 DEF Order, Requests, Numbered
    <2> QED
      BY <1>1, <1>8, <2>1, <2>2, RequestsNext DEF Order, Requests
  <1>11. Oobs' /\ Rights'
    BY <1>1, <1>3 DEF Order, Oobs, Rights
  <1> QED
    BY <1>9, <1>10, <1>11 DEF Order

-----------------------------------------------------------------------------

LEMMA NextOrder ==
    ASSUME IInv, [Next]_vars PROVE IInv'
  <1>1. TypeOK /\ WholeInv' /\ commands \in 0 .. MaxCommands
    BY NextWhole, TypeParts DEF IInv, WholeInv, LimitsOK
  <1>2. CASE CL_Download \/ StopDownload
    <2>1. commands' = commands - 1
      BY <1>2 DEF CL_Download, StopDownload
    <2>2. ~Undisturbed'
      BY <1>1, <2>1, Constants DEF Undisturbed
    <2> QED
      BY <1>1, <2>2 DEF IInv
  <1>3. CASE ~(CL_Download \/ StopDownload)
    <2>1. commands' = commands /\ version' = version
      BY <1>3 DEF Next, ClientFrame, SendRequests, SendNothing, Transmit,
         ServerSend, EndDownload, Parse, ParseStart, ParseDatagram, ParseOob,
         ServerReceive, Lose, vars, limits, server
    <2>2. CASE ~(Undisturbed /\ OneAtATime)
      <3>1. ~(Undisturbed /\ OneAtATime)'
        BY <2>1, <2>2 DEF Undisturbed, OneAtATime
      <3> QED
        BY <1>1, <3>1 DEF IInv
    <2>3. CASE Undisturbed /\ OneAtATime
      <3>1. Order
        BY <2>3 DEF IInv
      <3>2. CASE UNCHANGED vars
        <4>1. /\ UNCHANGED <<opened, started, method, number, disk, cOut,
                             upload, sOut, toServer, toClient, oob, name,
                             list, version>>
          BY <3>2 DEF vars, server, client, net
        <4>2. Silent => Silent'
          BY <4>1, SilentNext DEF Silent
        <4>3. Idle => Idle'
          BY <4>1, IdleNext DEF Idle
        <4>4. Phases'
          BY <3>1, <4>1, <4>2, <4>3, StayPhases DEF Order
        <4>5. Requests'
          BY <3>1, <4>1, RequestsNext DEF Order, Requests
        <4>6. Oobs' /\ Rights'
          BY <3>1, <4>1 DEF Order, Oobs, Rights
        <4> QED
          BY <4>4, <4>5, <4>6, <1>1 DEF IInv, Order
      <3>3. CASE \E go \in BOOLEAN : ClientFrame(go) \/ ServerSend(go)
        BY <1>1, <3>1, <3>3, RequestsOrder, NothingOrder, ServerSendOrder
           DEF IInv, ClientFrame
      <3>4. CASE EndDownload \/ ServerReceive \/ Lose
        BY <1>1, <3>1, <3>4, EndOrder, ReceiveOrder, LoseOrder DEF IInv
      <3>5. CASE Parse
        BY <1>1, <2>3, <3>1, <3>5, StartOrder, DatagramOrder, OobOrder DEF IInv, Parse
      <3> QED
        BY <1>3, <3>2, <3>3, <3>4, <3>5 DEF Next
    <2> QED
      BY <2>2, <2>3
  <1> QED
    BY <1>2, <1>3

(* A block that came out of band is of the file that is being written: the *)
(* number of the download tells it from those of the file before, for any  *)
(* number of files, requests and blocks under way of an MVDSV; and of a    *)
(* server that answers the end of a file, if one file at most follows the  *)
(* first it gives away, since the next one may have been asked for then,   *)
(* but no other is.                                                        *)
THEOREM OobOfThisFile == Spec => []OobRight
  <1>1. IInv => OobRight
    BY DEF IInv, Order, Rights, OobRight, Blocks
  <1>2. Spec => []IInv
    BY InitOrder, NextOrder, PTL DEF Spec
  <1> QED
    BY <1>1, <1>2, PTL

=============================================================================
