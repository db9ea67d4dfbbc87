------------------------ MODULE ServerReliableProofs ------------------------
(* What ServerReliable promises, for buffers of any size and number: the   *)
(* stream of a client is kept whole and in order until it overflows, is    *)
(* cut off by the disconnect then, and the server is never ended by it.    *)
EXTENDS ServerReliable, SequenceTheorems, FiniteSetTheorems, TLAPS

(* A set of numbers that is not empty has a smallest one.                  *)
LEMMA SmallestNumber ==
    ASSUME NEW T \in SUBSET Nat, T # {}
    PROVE  \E x \in T : \A y \in T : x <= y
  <1> DEFINE R == StrictSubsetOrdering(Nat)
             F == FiniteSubsetsOf(Nat)
             U == {0 .. x : x \in T}
  <1>1. IsWellFoundedOn(R, F)
    BY FS_StrictSubsetOrderingWellFounded
  <1>2. U \subseteq F /\ U # {}
    <2>1. \A x \in T : 0 .. x \in SUBSET Nat /\ IsFiniteSet(0 .. x)
      BY FS_Interval
    <2> QED
      BY <2>1 DEF FiniteSubsetsOf
  <1>3. \E u \in U : \A w \in U : ~ (<<w, u>> \in R)
    <2> HIDE DEF R, F, U
    <2> QED
      BY <1>1, <1>2, WFMin
  <1>4. PICK x \in T : \A w \in U : ~ (<<w, 0 .. x>> \in R)
    BY <1>3
  <1>5. ASSUME NEW y \in T, y < x PROVE FALSE
    <2>1. 0 .. y \subseteq 0 .. x /\ 0 .. y # 0 .. x
      BY <1>5
    <2>2. 0 .. y \in SUBSET Nat /\ 0 .. x \in SUBSET Nat
      OBVIOUS
    <2>3. <<0 .. y, 0 .. x>> \in R
      BY <2>1, <2>2 DEF StrictSubsetOrdering
    <2> QED
      BY <2>3, <1>4
  <1> QED
    BY <1>5

(* Induction, up to a number.                                              *)
LEMMA UpTo ==
    ASSUME NEW n \in Nat, NEW T, 0 \in T,
           \A i \in 0 .. n - 1 : i \in T => i + 1 \in T
    PROVE  \A i \in 0 .. n : i \in T
  <1> DEFINE U == {i \in 0 .. n : i \notin T}
  <1> SUFFICES ASSUME U # {} PROVE FALSE
    OBVIOUS
  <1>1. PICK x \in U : \A y \in U : x <= y
    <2>1. U \in SUBSET Nat
      OBVIOUS
    <2> HIDE DEF U
    <2> QED
      BY <2>1, SmallestNumber
  <1>2. x \in 1 .. n
    OBVIOUS
  <1>3. x - 1 \in 0 .. n - 1 /\ x - 1 \in T
    BY <1>1, <1>2
  <1> QED
    BY <1>1, <1>2, <1>3

-----------------------------------------------------------------------------
(* The blocks of the stream in a sequence of blocks.                       *)

LEMMA BlocksAssociative ==
    \A a, b, c \in Seq(Block) : a \o (b \o c) = (a \o b) \o c
  <1> SUFFICES ASSUME NEW a \in Seq(Block), NEW b \in Seq(Block),
                      NEW c \in Seq(Block)
               PROVE  a \o (b \o c) = (a \o b) \o c
    OBVIOUS
  <1> QED
    BY SMTT(30), ConcatAssociative

LEMMA BlockNumber ==
    ASSUME NEW b \in Block, b.via = "stream" PROVE b.n \in Nat
  BY DEF Block, Notice, Disconnect

LEMMA NumbersType ==
    ASSUME NEW s \in Seq(Block) PROVE Numbers(s) \subseteq Nat
  <1>1. ASSUME NEW i \in InStream(s) PROVE s[i].n \in Nat
    <2>1. s[i] \in Block /\ s[i].via = "stream"
      BY DEF InStream
    <2> QED
      BY <2>1, BlockNumber
  <1> QED
    BY <1>1 DEF Numbers

LEMMA NumbersNone ==
    Numbers(<< >>) = {} /\ InOrder(<< >>)
  <1>1. InStream(<< >>) = {}
    BY DEF InStream
  <1> QED
    BY <1>1 DEF Numbers, InOrder

LEMMA NumbersOfOne ==
    ASSUME NEW b \in Block
    PROVE  /\ <<b>> \in Seq(Block) /\ InOrder(<<b>>)
           /\ b.via = "stream" => Numbers(<<b>>) = {b.n}
           /\ b.via # "stream" => Numbers(<<b>>) = {}
  <1> DEFINE s == <<b>>
  <1>1. s \in Seq(Block) /\ DOMAIN s = {1} /\ s[1] = b
    OBVIOUS
  <1> HIDE DEF s
  <1>2. /\ b.via = "stream" => InStream(s) = {1}
        /\ b.via # "stream" => InStream(s) = {}
        /\ InStream(s) \subseteq {1}
    BY <1>1 DEF InStream
  <1>3. InOrder(s)
    BY <1>2 DEF InOrder
  <1> QED
    BY <1>1, <1>2, <1>3 DEF Numbers, s

(* Where the blocks of two sequences are when they are joined.             *)
LEMMA InStreamConcat ==
    ASSUME NEW s \in Seq(Block), NEW t \in Seq(Block), NEW i
    PROVE  /\ Len(s) \in Nat /\ InStream(s) \subseteq 1 .. Len(s)
           /\ InStream(t) \subseteq 1 .. Len(t)
           /\ i \in InStream(s) => /\ i \in InStream(s \o t)
                                   /\ (s \o t)[i] = s[i]
           /\ i \in InStream(t) => /\ Len(s) + i \in InStream(s \o t)
                                   /\ (s \o t)[Len(s) + i] = t[i]
           /\ i \in InStream(s \o t) =>
                 \/ i \in InStream(s)
                 \/ i > Len(s) /\ i - Len(s) \in InStream(t)
                    /\ i \in Nat
  <1> DEFINE m == Len(s)
             n == Len(t)
             both == s \o t
  <1>1. /\ m \in Nat /\ n \in Nat /\ DOMAIN both = 1 .. m + n
        /\ DOMAIN s = 1 .. m /\ DOMAIN t = 1 .. n
        /\ \A k \in 1 .. m : both[k] = s[k]
        /\ \A k \in m + 1 .. m + n : both[k] = t[k - m]
    OBVIOUS
  <1> HIDE DEF m, n, both
  <1>2. ASSUME i \in InStream(s)
        PROVE  i \in InStream(both) /\ both[i] = s[i]
    <2>1. i \in 1 .. m /\ s[i].via = "stream"
      BY <1>1, <1>2 DEF InStream
    <2>2. i \in 1 .. m + n
      BY <1>1, <2>1
    <2> QED
      BY <1>1, <2>1, <2>2 DEF InStream
  <1>3. ASSUME i \in InStream(t)
        PROVE  m + i \in InStream(both) /\ both[m + i] = t[i]
    <2>1. i \in 1 .. n /\ t[i].via = "stream"
      BY <1>1, <1>3 DEF InStream
    <2>2. m + i \in 1 .. m + n /\ m + i \in m + 1 .. m + n /\ (m + i) - m = i
      BY <1>1, <2>1
    <2> QED
      BY <1>1, <2>1, <2>2 DEF InStream
  <1>4. ASSUME i \in InStream(both)
        PROVE  i \in InStream(s) \/ (i > m /\ i - m \in InStream(t) /\ i \in Nat)
    <2>1. i \in 1 .. m + n /\ both[i].via = "stream"
      BY <1>1, <1>4 DEF InStream
    <2>2. CASE i <= m
      <3>1. i \in 1 .. m
        BY <1>1, <2>1, <2>2
      <3> QED
        BY <1>1, <2>1, <3>1 DEF InStream
    <2>3. CASE ~(i <= m)
      <3>1. i \in m + 1 .. m + n /\ i - m \in 1 .. n /\ i > m /\ i \in Nat
        BY <1>1, <2>1, <2>3
      <3> QED
        BY <1>1, <2>1, <3>1 DEF InStream
    <2> QED
      BY <2>2, <2>3
  <1>5. InStream(s) \subseteq 1 .. m /\ InStream(t) \subseteq 1 .. n
    BY <1>1 DEF InStream
  <1> QED
    BY <1>1, <1>2, <1>3, <1>4, <1>5 DEF m, n, both

LEMMA NumbersConcat ==
    ASSUME NEW s \in Seq(Block), NEW t \in Seq(Block)
    PROVE  Numbers(s \o t) = Numbers(s) \cup Numbers(t)
  <1> DEFINE both == s \o t
             m == Len(s)
  <1>1. \A i : /\ i \in InStream(s) => /\ i \in InStream(both)
                                       /\ both[i] = s[i]
               /\ i \in InStream(t) => /\ m + i \in InStream(both)
                                       /\ both[m + i] = t[i]
               /\ i \in InStream(both) =>
                     \/ i \in InStream(s)
                     \/ i - m \in InStream(t) /\ m + (i - m) = i
    <2> SUFFICES ASSUME NEW i
                 PROVE  /\ i \in InStream(s) => /\ i \in InStream(both)
                                                /\ both[i] = s[i]
                        /\ i \in InStream(t) => /\ m + i \in InStream(both)
                                                /\ both[m + i] = t[i]
                        /\ i \in InStream(both) =>
                              \/ i \in InStream(s)
                              \/ i - m \in InStream(t) /\ m + (i - m) = i
      OBVIOUS
    <2> QED
      BY InStreamConcat
  <1> HIDE DEF both, m
  <1>2. ASSUME NEW x \in Numbers(both) PROVE x \in Numbers(s) \cup Numbers(t)
    <2>1. PICK i \in InStream(both) : x = both[i].n
      BY DEF Numbers
    <2>2. CASE i \in InStream(s)
      BY <1>1, <2>1, <2>2 DEF Numbers
    <2>3. CASE i - m \in InStream(t) /\ m + (i - m) = i
      <3>1. both[i] = t[i - m]
        BY <1>1, <2>3
      <3> QED
        BY <2>1, <2>3, <3>1 DEF Numbers
    <2> QED
      BY <1>1, <2>2, <2>3
  <1>3. ASSUME NEW x \in Numbers(s) PROVE x \in Numbers(both)
    BY <1>1 DEF Numbers
  <1>4. ASSUME NEW x \in Numbers(t) PROVE x \in Numbers(both)
    <2>1. PICK i \in InStream(t) : x = t[i].n
      BY DEF Numbers
    <2>2. m + i \in InStream(both) /\ x = both[m + i].n
      BY <1>1, <2>1
    <2> QED
      BY <2>2 DEF Numbers
  <1> QED
    BY <1>2, <1>3, <1>4 DEF both

LEMMA InOrderConcat ==
    ASSUME NEW s \in Seq(Block), NEW t \in Seq(Block)
    PROVE  InOrder(s \o t) <=> /\ InOrder(s) /\ InOrder(t)
                               /\ \A x \in Numbers(s), y \in Numbers(t) : x < y
  <1> DEFINE both == s \o t
             m == Len(s)
  <1>1. /\ m \in Nat
        /\ InStream(s) \subseteq 1 .. m /\ InStream(t) \subseteq Nat \ {0}
        /\ \A i \in InStream(s) : i \in InStream(both) /\ both[i] = s[i]
        /\ \A i \in InStream(t) : /\ m + i \in InStream(both)
                                  /\ both[m + i] = t[i]
        /\ \A i \in InStream(both) :
              \/ i \in InStream(s)
              \/ i > m /\ i - m \in InStream(t) /\ i \in Nat
    <2>1. /\ m \in Nat /\ InStream(s) \subseteq 1 .. m
          /\ InStream(t) \subseteq 1 .. Len(t)
      BY InStreamConcat
    <2>2. ASSUME NEW i \in InStream(both)
          PROVE  i \in InStream(s) \/ (i > m /\ i - m \in InStream(t)
                                       /\ i \in Nat)
      BY InStreamConcat
    <2>3. ASSUME NEW i \in InStream(s)
          PROVE  i \in InStream(both) /\ both[i] = s[i]
      BY InStreamConcat
    <2>4. ASSUME NEW i \in InStream(t)
          PROVE  m + i \in InStream(both) /\ both[m + i] = t[i]
      BY InStreamConcat
    <2> HIDE DEF both, m
    <2> QED
      BY <2>1, <2>2, <2>3, <2>4
  <1> HIDE DEF both, m
  <1>2. ASSUME InOrder(both)
        PROVE  /\ InOrder(s) /\ InOrder(t)
               /\ \A x \in Numbers(s), y \in Numbers(t) : x < y
    <2>1. InOrder(s)
      BY <1>1, <1>2 DEF InOrder
    <2>2. InOrder(t)
      <3> SUFFICES ASSUME NEW i \in InStream(t), NEW j \in InStream(t), i < j
                   PROVE  t[i].n < t[j].n
        BY DEF InOrder
      <3>1. m + i < m + j
        BY <1>1
      <3> QED
        BY <1>1, <1>2, <3>1 DEF InOrder
    <2>3. ASSUME NEW i \in InStream(s), NEW j \in InStream(t)
          PROVE  s[i].n < t[j].n
      <3>1. i < m + j
        BY <1>1
      <3> QED
        BY <1>1, <1>2, <3>1 DEF InOrder
    <2> QED
      BY <2>1, <2>2, <2>3 DEF Numbers
  <1>3. ASSUME InOrder(s), InOrder(t),
               \A x \in Numbers(s), y \in Numbers(t) : x < y
        PROVE  InOrder(both)
    <2> SUFFICES ASSUME NEW i \in InStream(both), NEW j \in InStream(both),
                        i < j
                 PROVE  both[i].n < both[j].n
      BY DEF InOrder
    <2>1. CASE i \in InStream(s) /\ j \in InStream(s)
      BY <1>1, <1>3, <2>1 DEF InOrder
    <2>2. CASE /\ i \in InStream(s)
               /\ j > m /\ j - m \in InStream(t) /\ j \in Nat
      <3>1. m + (j - m) = j
        BY <1>1, <2>2
      <3>2. both[i] = s[i] /\ both[j] = t[j - m]
        BY <1>1, <2>2, <3>1
      <3>3. s[i].n \in Numbers(s) /\ t[j - m].n \in Numbers(t)
        BY <2>2 DEF Numbers
      <3> QED
        BY <1>3, <3>2, <3>3
    <2>3. CASE /\ i > m /\ i - m \in InStream(t) /\ i \in Nat
               /\ j > m /\ j - m \in InStream(t) /\ j \in Nat
      <3>1. m + (j - m) = j /\ m + (i - m) = i /\ i - m < j - m
        BY <1>1, <2>3
      <3>2. both[i] = t[i - m] /\ both[j] = t[j - m]
        BY <1>1, <2>3, <3>1
      <3> QED
        BY <1>3, <2>3, <3>1, <3>2 DEF InOrder
    <2>4. ~(i > m /\ j \in InStream(s) /\ i \in Nat)
      BY <1>1
    <2> QED
      BY <1>1, <2>1, <2>2, <2>3, <2>4
  <1> QED
    BY <1>2, <1>3 DEF both

-----------------------------------------------------------------------------
(* What FlattenSeq makes of the back buffers.                              *)

(* f[i] is the first i of n sequences, joined.                             *)
Joins(n, ss, f) ==
    /\ f \in [0 .. n -> Seq(Block)]
    /\ f[0] = << >>
    /\ \A i \in 1 .. n : f[i] = f[i - 1] \o ss[i]

LEMMA JoinsExists ==
    ASSUME NEW m \in Nat, NEW ss, \A i \in 1 .. m : ss[i] \in Seq(Block)
    PROVE  \E f : Joins(m, ss, f)
  <1> DEFINE T == {n \in 0 .. m : \E f : Joins(n, ss, f)}
  <1>1. 0 \in T
    <2> DEFINE f == [i \in 0 .. 0 |-> << >>]
    <2>1. f \in [0 .. 0 -> Seq(Block)] /\ f[0] = << >>
      OBVIOUS
    <2> HIDE DEF f
    <2>2. Joins(0, ss, f)
      BY <2>1 DEF Joins
    <2> QED
      BY <2>2
  <1>2. ASSUME NEW n \in 0 .. m - 1, n \in T PROVE n + 1 \in T
    <2>1. PICK f : Joins(n, ss, f)
      BY <1>2
    <2> DEFINE new == f[n] \o ss[n + 1]
               g == [i \in 0 .. n + 1 |-> IF i = n + 1 THEN new ELSE f[i]]
    <2>2. n + 1 \in 0 .. m /\ ss[n + 1] \in Seq(Block) /\ n \in Nat
      OBVIOUS
    <2>3. f[n] \in Seq(Block)
      BY <2>1, <2>2 DEF Joins
    <2>4. new \in Seq(Block)
      BY <2>2, <2>3
    <2> HIDE DEF new
    <2>5. g \in [0 .. n + 1 -> Seq(Block)]
      BY <2>1, <2>2, <2>4 DEF Joins
    <2>6. g[0] = << >>
      BY <2>1, <2>2 DEF Joins
    <2>7. ASSUME NEW i \in 1 .. n + 1 PROVE g[i] = g[i - 1] \o ss[i]
      <3>1. CASE i = n + 1
        <4>1. i \in 0 .. n + 1 /\ i - 1 = n /\ n \in 0 .. n + 1 /\ n # n + 1
          BY <2>2, <3>1
        <4>2. g[i] = new /\ g[i - 1] = f[n]
          BY <3>1, <4>1
        <4> QED
          BY <3>1, <4>2 DEF new
      <3>2. CASE i # n + 1
        <4>1. /\ i \in 1 .. n /\ i \in 0 .. n + 1 /\ i - 1 \in 0 .. n + 1
              /\ i - 1 # n + 1
          BY <2>2, <3>2
        <4>2. g[i] = f[i] /\ g[i - 1] = f[i - 1]
          BY <3>2, <4>1
        <4> QED
          BY <2>1, <4>1, <4>2 DEF Joins
      <3> QED
        BY <3>1, <3>2
    <2> HIDE DEF g
    <2>8. Joins(n + 1, ss, g)
      BY <2>5, <2>6, <2>7 DEF Joins
    <2> QED
      BY <2>2, <2>8
  <1>3. m \in T
    <2> HIDE DEF T
    <2>1. \A i \in 0 .. m : i \in T
      BY <1>1, <1>2, UpTo
    <2> QED
      BY <2>1
  <1> QED
    BY <1>3

LEMMA FlattenJoins ==
    ASSUME NEW n \in Nat \ {0}, NEW ss, Len(ss) = n,
           \A i \in 1 .. n : ss[i] \in Seq(Block), NEW f, Joins(n, ss, f)
    PROVE  FlattenSeq(ss) = f[n]
  <1> DEFINE Step(g, i) == IF i = 1 THEN ss[i] ELSE g[i - 1] \o ss[i]
             Steps(g) == [i \in 1 .. n |-> Step(g, i)]
             u == CHOOSE g : g = Steps(g)
             T == {i \in 0 .. n : i # 0 => u[i] = f[i]}
  <1>1. FlattenSeq(ss) = u[n]
    BY DEF FlattenSeq
  <1>2. \A g : Step(g, 1) = ss[1]
    OBVIOUS
  <1>3. ASSUME NEW g, NEW i \in 2 .. n PROVE Step(g, i) = g[i - 1] \o ss[i]
    <2>1. i # 1
      OBVIOUS
    <2> QED
      BY <2>1
  <1>4. f[1] = ss[1]
    <2>0. 1 \in 1 .. n /\ 1 - 1 = 0
      OBVIOUS
    <2>1. f[1] = f[1 - 1] \o ss[1] /\ f[0] = << >>
      BY <2>0 DEF Joins
    <2>2. ss[1] \in Seq(Block)
      BY <2>0
    <2>3. << >> \o ss[1] = ss[1]
      BY <2>2
    <2> QED
      BY <2>0, <2>1, <2>3
  <1> HIDE DEF Step
  <1> DEFINE r == [i \in 1 .. n |-> f[i]]
  <1>5. r = Steps(r)
    <2>1. ASSUME NEW i \in 1 .. n PROVE f[i] = Step(r, i)
      <3>1. CASE i = 1
        BY <1>2, <1>4, <3>1
      <3>2. CASE i # 1
        <4>1. i \in 2 .. n /\ i - 1 \in 1 .. n
          BY <3>2
        <4>2. r[i - 1] = f[i - 1]
          BY <4>1
        <4> QED
          BY ZenonT(30), <1>3, <4>1, <4>2 DEF Joins
      <3> QED
        BY <3>1, <3>2
    <2> QED
      BY <2>1
  <1> HIDE DEF r
  <1>6. u = Steps(u)
    <2> HIDE DEF Steps
    <2> QED
      BY <1>5
  <1> HIDE DEF u
  <1>7. \A i \in 1 .. n : u[i] = Step(u, i)
    BY <1>6
  <1> HIDE DEF Steps
  <1>8. ASSUME NEW i \in 0 .. n - 1, i \in T PROVE i + 1 \in T
    <2>1. i + 1 \in 1 .. n /\ (i + 1) - 1 = i /\ i + 1 \in 0 .. n
      OBVIOUS
    <2>2. CASE i = 0
      BY <1>2, <1>4, <1>7, <2>1, <2>2
    <2>3. CASE i # 0
      <3>1. i + 1 \in 2 .. n
        BY <2>3
      <3>2. u[i + 1] = u[(i + 1) - 1] \o ss[i + 1]
        BY <1>3, <1>7, <2>1, <3>1
      <3>3. f[i + 1] = f[(i + 1) - 1] \o ss[i + 1]
        BY <2>1 DEF Joins
      <3> QED
        BY <1>8, <2>1, <2>3, <3>2, <3>3
    <2> QED
      BY <2>2, <2>3
  <1>9. n \in T
    <2>1. 0 \in T
      OBVIOUS
    <2> HIDE DEF T
    <2>2. \A i \in 0 .. n : i \in T
      BY <1>8, <2>1, UpTo
    <2> QED
      BY <2>2
  <1> QED
    BY <1>1, <1>9

LEMMA FlattenEmpty == FlattenSeq(<< >>) = << >>
  BY DEF FlattenSeq

LEMMA FlattenStep ==
    ASSUME NEW ss \in Seq(Seq(Block))
    PROVE  \E f : /\ Joins(Len(ss), ss, f) /\ FlattenSeq(ss) = f[Len(ss)]
                  /\ FlattenSeq(ss) \in Seq(Block)
  <1>1. Len(ss) \in Nat /\ \A i \in 1 .. Len(ss) : ss[i] \in Seq(Block)
    OBVIOUS
  <1>2. PICK f : Joins(Len(ss), ss, f)
    BY <1>1, JoinsExists
  <1>3. FlattenSeq(ss) = f[Len(ss)]
    <2>1. CASE Len(ss) = 0
      <3>1. ss = << >>
        BY <2>1
      <3>2. f[Len(ss)] = << >>
        BY <1>2, <2>1 DEF Joins
      <3> QED
        BY <3>1, <3>2, FlattenEmpty
    <2>2. CASE Len(ss) # 0
      BY <1>1, <1>2, <2>2, FlattenJoins
    <2> QED
      BY <2>1, <2>2
  <1>4. f[Len(ss)] \in Seq(Block)
    BY <1>1, <1>2 DEF Joins
  <1> QED
    BY <1>2, <1>3, <1>4

LEMMA FlattenAppend ==
    ASSUME NEW ss \in Seq(Seq(Block)), NEW s \in Seq(Block)
    PROVE  FlattenSeq(Append(ss, s)) = FlattenSeq(ss) \o s
  <1> DEFINE n == Len(ss)
             more == Append(ss, s)
  <1>1. PICK f : Joins(n, ss, f) /\ FlattenSeq(ss) = f[n]
    BY FlattenStep
  <1>2. /\ n \in Nat /\ Len(more) = n + 1 /\ more[n + 1] = s
        /\ \A i \in 1 .. n : more[i] = ss[i]
        /\ \A i \in 1 .. n + 1 : more[i] \in Seq(Block)
    OBVIOUS
  <1> HIDE DEF n, more
  <1> DEFINE new == f[n] \o s
             g == [i \in 0 .. n + 1 |-> IF i = n + 1 THEN new ELSE f[i]]
  <1>3. new \in Seq(Block)
    BY <1>1, <1>2 DEF Joins
  <1> HIDE DEF new
  <1>4. g \in [0 .. n + 1 -> Seq(Block)]
    BY <1>1, <1>2, <1>3 DEF Joins
  <1>5. g[0] = << >> /\ g[n + 1] = new
    BY <1>1, <1>2 DEF Joins
  <1>6. ASSUME NEW i \in 1 .. n + 1 PROVE g[i] = g[i - 1] \o more[i]
    <2>1. CASE i = n + 1
      <3>1. i \in 0 .. n + 1 /\ i - 1 = n /\ n \in 0 .. n + 1 /\ n # n + 1
        BY <1>2, <2>1
      <3>2. g[i] = new /\ g[i - 1] = f[n]
        BY <2>1, <3>1
      <3> QED
        BY <1>2, <2>1, <3>2 DEF new
    <2>2. CASE i # n + 1
      <3>1. /\ i \in 1 .. n /\ i \in 0 .. n + 1 /\ i - 1 \in 0 .. n + 1
            /\ i - 1 # n + 1
        BY <1>2, <2>2
      <3>2. g[i] = f[i] /\ g[i - 1] = f[i - 1]
        BY <2>2, <3>1
      <3> QED
        BY <1>1, <1>2, <3>1, <3>2 DEF Joins
    <2> QED
      BY <2>1, <2>2
  <1> HIDE DEF g
  <1>7. Joins(n + 1, more, g)
    BY <1>4, <1>5, <1>6 DEF Joins
  <1>8. FlattenSeq(more) = g[n + 1]
    <2>1. n + 1 \in Nat \ {0}
      BY <1>2
    <2> QED
      BY <1>2, <1>7, <2>1, FlattenJoins
  <1> QED
    BY <1>1, <1>5, <1>8 DEF more, new

LEMMA FlattenHead ==
    ASSUME NEW ss \in Seq(Seq(Block)), ss # << >>
    PROVE  FlattenSeq(ss) = Head(ss) \o FlattenSeq(Tail(ss))
  <1> DEFINE rest == Tail(ss)
             n == Len(rest)
             h == Head(ss)
  <1>1. /\ n \in Nat /\ Len(ss) = n + 1 /\ ss[1] = h /\ h \in Seq(Block)
        /\ \A i \in 1 .. n : rest[i] = ss[i + 1]
        /\ \A i \in 1 .. n + 1 : ss[i] \in Seq(Block)
        /\ rest \in Seq(Seq(Block))
    OBVIOUS
  <1>2. PICK f : Joins(n, rest, f) /\ FlattenSeq(rest) = f[n]
    BY <1>1, FlattenStep
  <1> HIDE DEF n, rest, h
  <1> DEFINE At(i) == IF i = 0 THEN << >> ELSE h \o f[i - 1]
             g == [i \in 0 .. n + 1 |-> At(i)]
  <1>3. ASSUME NEW j \in 0 .. n PROVE f[j] \in Seq(Block)
    BY <1>2 DEF Joins
  <1>4. At(0) = << >> /\ \A i \in 1 .. n + 1 : At(i) = h \o f[i - 1]
    BY <1>1
  <1> HIDE DEF At
  <1>5. ASSUME NEW i \in 1 .. n + 1
        PROVE  At(i) \in Seq(Block) /\ At(i) = At(i - 1) \o ss[i]
    <2>1. CASE i = 1
      <3>1. i - 1 = 0 /\ f[0] = << >> /\ At(1) = h \o f[1 - 1]
        BY <1>2, <1>4, <2>1 DEF Joins
      <3>2. h \o << >> = h /\ << >> \o h = h
        BY <1>1
      <3> QED
        BY <1>1, <1>4, <2>1, <3>1, <3>2
    <2>2. CASE i # 1
      <3>1. /\ i - 1 \in 1 .. n /\ i - 1 \in 0 .. n /\ (i - 1) - 1 \in 0 .. n
            /\ i - 1 \in 1 .. n + 1 /\ (i - 1) + 1 = i
        BY <1>1, <2>2
      <3>2. f[i - 1] = f[(i - 1) - 1] \o rest[i - 1] /\ rest[i - 1] = ss[i]
        BY <1>1, <1>2, <3>1 DEF Joins
      <3>3. At(i) = h \o f[i - 1] /\ At(i - 1) = h \o f[(i - 1) - 1]
        BY <1>4, <3>1
      <3>4. f[(i - 1) - 1] \in Seq(Block) /\ ss[i] \in Seq(Block)
            /\ f[i - 1] \in Seq(Block)
        BY <1>1, <1>3, <3>1
      <3>5. h \o (f[(i - 1) - 1] \o ss[i]) = (h \o f[(i - 1) - 1]) \o ss[i]
        BY <1>1, <3>4, BlocksAssociative
      <3>6. h \o f[i - 1] \in Seq(Block)
        BY <1>1, <3>4
      <3> QED
        BY <3>2, <3>3, <3>5, <3>6
    <2> QED
      BY <2>1, <2>2
  <1>6. Joins(n + 1, ss, g)
    <2>1. ASSUME NEW i \in 0 .. n + 1 PROVE At(i) \in Seq(Block)
      <3>1. CASE i = 0
        <4>1. << >> \in Seq(Block)
          OBVIOUS
        <4> QED
          BY <1>4, <3>1, <4>1
      <3>2. CASE i # 0
        <4>1. i \in 1 .. n + 1
          BY <1>1, <3>2
        <4> QED
          BY <1>5, <4>1
      <3> QED
        BY <3>1, <3>2
    <2>2. g \in [0 .. n + 1 -> Seq(Block)]
      BY <2>1
    <2>3. g[0] = << >>
      BY <1>1, <1>4
    <2>4. ASSUME NEW i \in 1 .. n + 1 PROVE g[i] = g[i - 1] \o ss[i]
      <3>1. i \in 0 .. n + 1 /\ i - 1 \in 0 .. n + 1
        BY <1>1
      <3> QED
        BY <1>5, <3>1
    <2> HIDE DEF g
    <2> QED
      BY <2>2, <2>3, <2>4 DEF Joins
  <1>7. g[n + 1] = h \o f[n]
    <2>1. n + 1 \in 1 .. n + 1 /\ n + 1 \in 0 .. n + 1 /\ (n + 1) - 1 = n
      BY <1>1
    <2> QED
      BY <1>4, <2>1
  <1> HIDE DEF g
  <1>8. FlattenSeq(ss) = g[n + 1]
    <2>1. n + 1 \in Nat \ {0}
      BY <1>1
    <2> QED
      BY <1>1, <1>6, <2>1, FlattenJoins
  <1> QED
    BY <1>2, <1>7, <1>8 DEF h, rest

-----------------------------------------------------------------------------
(* What comes before a disconnect.                                         *)

Dropless(s) == \A i \in DOMAIN s : s[i].via # "drop"

LEMMA DroplessConcat ==
    ASSUME NEW s \in Seq(Block), NEW t \in Seq(Block)
    PROVE  Dropless(s \o t) <=> Dropless(s) /\ Dropless(t)
  <1> DEFINE m == Len(s)
             n == Len(t)
             both == s \o t
  <1>1. /\ m \in Nat /\ n \in Nat /\ DOMAIN both = 1 .. m + n
        /\ DOMAIN s = 1 .. m /\ DOMAIN t = 1 .. n
        /\ \A i \in 1 .. m : both[i] = s[i]
        /\ \A i \in m + 1 .. m + n : both[i] = t[i - m]
    OBVIOUS
  <1> HIDE DEF m, n, both
  <1>2. ASSUME Dropless(s), Dropless(t) PROVE Dropless(both)
    <2> SUFFICES ASSUME NEW i \in 1 .. m + n PROVE both[i].via # "drop"
      BY <1>1 DEF Dropless
    <2>1. CASE i <= m
      <3>1. i \in 1 .. m
        BY <1>1, <2>1
      <3> QED
        BY <1>1, <1>2, <3>1 DEF Dropless
    <2>2. CASE ~(i <= m)
      <3>1. i \in m + 1 .. m + n /\ i - m \in 1 .. n
        BY <1>1, <2>2
      <3> QED
        BY <1>1, <1>2, <3>1 DEF Dropless
    <2> QED
      BY <2>1, <2>2
  <1>3. ASSUME Dropless(both) PROVE Dropless(s) /\ Dropless(t)
    <2>1. ASSUME NEW i \in 1 .. m PROVE s[i].via # "drop"
      <3>1. i \in 1 .. m + n
        BY <1>1
      <3> QED
        BY <1>1, <1>3, <3>1 DEF Dropless
    <2>2. ASSUME NEW i \in 1 .. n PROVE t[i].via # "drop"
      <3>1. /\ m + i \in 1 .. m + n /\ m + i \in m + 1 .. m + n
            /\ (m + i) - m = i
        BY <1>1
      <3> QED
        BY <1>1, <1>3, <3>1 DEF Dropless
    <2> QED
      BY <1>1, <2>1, <2>2 DEF Dropless
  <1> QED
    BY <1>2, <1>3 DEF both

Drops(s) == {i \in DOMAIN s : s[i].via = "drop"}

LEMMA BeforeNoDrop ==
    ASSUME NEW s \in Seq(Block), Dropless(s)
    PROVE  BeforeDrop(s) = s
  <1>1. Drops(s) = {}
    BY DEF Drops, Dropless
  <1>2. BeforeDrop(s) = SubSeq(s, 1, Len(s))
    BY <1>1 DEF BeforeDrop, Drops
  <1> QED
    BY <1>2, SubSeqFull

(* The first disconnect cuts off what is before it.                        *)
LEMMA BeforeFirstDrop ==
    ASSUME NEW s \in Seq(Block), ~Dropless(s)
    PROVE  /\ Min(Drops(s)) \in 1 .. Len(s)
           /\ Min(Drops(s)) \in Drops(s)
           /\ \A i \in Drops(s) : Min(Drops(s)) <= i
           /\ BeforeDrop(s) = SubSeq(s, 1, Min(Drops(s)) - 1)
  <1>1. Drops(s) # {} /\ Drops(s) \subseteq 1 .. Len(s)
    BY DEF Drops, Dropless
  <1>2. Drops(s) \in SUBSET Nat
    BY <1>1
  <1>3. \E x \in Drops(s) : \A y \in Drops(s) : x <= y
    BY <1>1, <1>2, SmallestNumber
  <1>4. Min(Drops(s)) \in Drops(s) /\ \A i \in Drops(s) : Min(Drops(s)) <= i
    BY <1>3 DEF Min
  <1>5. BeforeDrop(s) = SubSeq(s, 1, Min(Drops(s)) - 1)
    BY <1>1 DEF BeforeDrop, Drops
  <1> QED
    BY <1>1, <1>4, <1>5

LEMMA BeforeDropType ==
    ASSUME NEW s \in Seq(Block)
    PROVE  /\ BeforeDrop(s) \in Seq(Block)
           /\ \E t \in Seq(Block) : s = BeforeDrop(s) \o t
  <1>1. CASE Dropless(s)
    <2>1. << >> \in Seq(Block) /\ s \o << >> = s
      OBVIOUS
    <2> QED
      BY <1>1, <2>1, BeforeNoDrop
  <1>2. CASE ~Dropless(s)
    <2> DEFINE m == Min(Drops(s)) - 1
               t == SubSeq(s, m + 1, Len(s))
    <2>1. Min(Drops(s)) \in 1 .. Len(s) /\ BeforeDrop(s) = SubSeq(s, 1, m)
      BY <1>2, BeforeFirstDrop
    <2>2. m \in 0 .. Len(s) /\ Len(s) \in Nat /\ m \in Nat /\ m <= Len(s)
      BY <2>1
    <2> HIDE DEF m
    <2>3. SubSeq(s, 1, m) \in Seq(Block) /\ t \in Seq(Block)
      BY <2>2
    <2>4. SubSeq(s, 1, Len(s)) = s
      BY SubSeqFull
    <2>5. SubSeq(s, 1, m) \o t = SubSeq(s, 1, Len(s))
      <3>1. /\ 1 \in 1 .. Len(s) + 1 /\ m \in 1 - 1 .. Len(s)
            /\ Len(s) \in m .. Len(s)
        BY <2>2
      <3> QED
        BY <3>1, ConcatAdjacentSubSeq
    <2> QED
      BY <2>1, <2>3, <2>4, <2>5
  <1> QED
    BY <1>1, <1>2

LEMMA BeforeSameDrop ==
    ASSUME NEW s \in Seq(Block), NEW t \in Seq(Block), ~Dropless(s)
    PROVE  BeforeDrop(s \o t) = BeforeDrop(s)
  <1> DEFINE both == s \o t
             m == Min(Drops(s))
             k == Min(Drops(both))
  <1>1. ~Dropless(both) /\ both \in Seq(Block)
    BY DroplessConcat
  <1>2. /\ m \in 1 .. Len(s) /\ m \in Drops(s)
        /\ \A i \in Drops(s) : m <= i
        /\ BeforeDrop(s) = SubSeq(s, 1, m - 1)
    BY BeforeFirstDrop
  <1>3. /\ k \in 1 .. Len(both) /\ k \in Drops(both)
        /\ \A i \in Drops(both) : k <= i
        /\ BeforeDrop(both) = SubSeq(both, 1, k - 1)
    BY <1>1, BeforeFirstDrop
  <1> HIDE DEF m, k
  <1>4. /\ Len(s) \in Nat /\ Len(t) \in Nat /\ Len(both) = Len(s) + Len(t)
        /\ DOMAIN both = 1 .. Len(both) /\ DOMAIN s = 1 .. Len(s)
        /\ \A i \in 1 .. Len(s) : both[i] = s[i]
    OBVIOUS
  <1>5. k = m
    <2>1. m \in Drops(both)
      <3>1. m \in 1 .. Len(both)
        BY <1>2, <1>4
      <3> QED
        BY <1>2, <1>4, <3>1 DEF Drops
    <2>2. k <= m
      BY <1>3, <2>1
    <2>3. k \in Drops(s)
      <3>1. k \in 1 .. Len(s)
        BY <1>2, <1>3, <1>4, <2>2
      <3> QED
        BY <1>3, <1>4, <3>1 DEF Drops
    <2>4. m <= k
      BY <1>2, <2>3
    <2> QED
      BY <1>2, <1>3, <1>4, <2>2, <2>4
  <1>6. SubSeq(both, 1, m - 1) = SubSeq(s, 1, m - 1)
    <2>1. m - 1 <= Len(s) /\ m - 1 \in Nat
      BY <1>2, <1>4
    <2>2. s \o t = both
      OBVIOUS
    <2> QED
      BY <2>1, SubSeqOfConcat1 DEF both
  <1> QED
    BY <1>2, <1>3, <1>5, <1>6

LEMMA BeforeNewDrop ==
    ASSUME NEW s \in Seq(Block), Dropless(s)
    PROVE  BeforeDrop(s \o <<Disconnect>>) = s
  <1> DEFINE both == s \o <<Disconnect>>
             n == Len(s)
             k == Min(Drops(both))
  <1>1. Disconnect \in Block /\ Disconnect.via = "drop"
    BY DEF Block, Disconnect
  <1>2. both \in Seq(Block) /\ n \in Nat /\ Len(both) = n + 1
        /\ DOMAIN both = 1 .. n + 1 /\ both[n + 1] = Disconnect
        /\ DOMAIN s = 1 .. n /\ \A i \in 1 .. n : both[i] = s[i]
    BY <1>1
  <1> HIDE DEF n, both
  <1>3. Drops(both) = {n + 1}
    <2>1. ASSUME NEW i \in 1 .. n + 1
          PROVE  both[i].via = "drop" <=> i = n + 1
      <3>1. CASE i = n + 1
        BY <1>1, <1>2, <3>1
      <3>2. CASE i # n + 1
        <4>1. i \in 1 .. n
          BY <1>2, <3>2
        <4> QED
          BY <1>2, <3>2, <4>1 DEF Dropless
      <3> QED
        BY <3>1, <3>2
    <2>2. n + 1 \in 1 .. n + 1
      BY <1>2
    <2> QED
      BY <1>2, <2>1, <2>2 DEF Drops
  <1>4. ~Dropless(both)
    BY <1>3 DEF Drops, Dropless
  <1>5. k \in Drops(both) /\ BeforeDrop(both) = SubSeq(both, 1, k - 1)
    BY <1>2, <1>4, BeforeFirstDrop
  <1>6. BeforeDrop(both) = SubSeq(both, 1, n)
    <2>1. k = n + 1
      BY <1>3, <1>5
    <2>2. k - 1 = n
      BY <1>2, <2>1
    <2> QED
      BY <1>5, <2>2
  <1>7. SubSeq(both, 1, n) = s
    <2>1. <<Disconnect>> \in Seq(Block)
      BY <1>1
    <2>2. SubSeq(s \o <<Disconnect>>, 1, n) = SubSeq(s, 1, n)
      BY <1>2, <2>1, SubSeqOfConcat1 DEF n
    <2> QED
      BY <2>2, SubSeqFull DEF n, both
  <1> QED
    BY <1>6, <1>7 DEF both

-----------------------------------------------------------------------------
(* What the history tells of a client's stream.                            *)
Ledger ==
    {w \in [written : SUBSET Nat, thrown : SUBSET Nat, forgotten : BOOLEAN] :
        w.thrown \subseteq w.written}

Owed(w) == w.written \ w.thrown

(* These blocks are written, and later than all others.                    *)
Wrote(w, d) == [w EXCEPT !.written = @ \cup Numbers(d)]

Later(d, w) == InOrder(d) /\ \A n \in Numbers(d), k \in w.written : k < n

(* The whole of the stream, and all of it up to some block.                *)
Complete(s, w) == InOrder(s) /\ Numbers(s) = Owed(w)

Closed(s, w) ==
    /\ InOrder(s) /\ Numbers(s) \subseteq w.written
    /\ \A n \in Numbers(s), k \in Owed(w) \ Numbers(s) : n < k

(* What may be said of the blocks a client has got or may get (a), those   *)
(* of the message (m) and of the back buffers (j), when over tells whether *)
(* the message has overflowed: see StreamIntact and PrefixUntilDropped.    *)
Sound(a, m, j, over, w) ==
    /\ Numbers(m) \subseteq w.written /\ Numbers(j) \subseteq w.written
    /\ ~w.forgotten =>
          /\ Closed(BeforeDrop(a), w)
          /\ ~over => IF Dropless(a \o m) THEN Complete((a \o m) \o j, w)
                      ELSE Closed(BeforeDrop(a \o m), w)

LEMMA LedgerParts ==
    ASSUME NEW w \in Ledger
    PROVE  /\ w.written \subseteq Nat /\ w.thrown \subseteq w.written
           /\ w.forgotten \in BOOLEAN
  BY DEF Ledger

LEMMA WroteLedger ==
    ASSUME NEW w \in Ledger, NEW d \in Seq(Block)
    PROVE  /\ Wrote(w, d) \in Ledger
           /\ Wrote(w, d).written = w.written \cup Numbers(d)
           /\ Wrote(w, d).thrown = w.thrown
           /\ Wrote(w, d).forgotten = w.forgotten
  <1> DEFINE new == w.written \cup Numbers(d)
  <1>1. new \subseteq Nat /\ w.thrown \subseteq new
    BY NumbersType, LedgerParts
  <1>2. Wrote(w, d) = [w EXCEPT !.written = new]
    BY DEF Wrote
  <1> HIDE DEF new
  <1>3. /\ Wrote(w, d).written = new /\ Wrote(w, d).thrown = w.thrown
        /\ Wrote(w, d).forgotten = w.forgotten /\ Wrote(w, d) \in Ledger
    BY <1>1, <1>2 DEF Ledger
  <1> QED
    BY <1>3 DEF new

LEMMA WroteNothing ==
    ASSUME NEW w \in Ledger, NEW d, Numbers(d) = {}
    PROVE  Wrote(w, d) = w
  <1>1. w.written \cup Numbers(d) = w.written
    OBVIOUS
  <1>2. Wrote(w, d) = [w EXCEPT !.written = w.written]
    BY <1>1 DEF Wrote
  <1> QED
    BY <1>2 DEF Ledger

LEMMA ClosedGrows ==
    ASSUME NEW s, NEW d \in Seq(Block), NEW w \in Ledger, Later(d, w),
           Closed(s, w)
    PROVE  Closed(s, Wrote(w, d))
  <1>1. Owed(Wrote(w, d)) \subseteq Owed(w) \cup Numbers(d)
    BY WroteLedger DEF Owed
  <1> QED
    BY <1>1, WroteLedger DEF Closed, Later

LEMMA ClosedShrinks ==
    ASSUME NEW s, NEW w, NEW v, Closed(s, w), v.written = w.written,
           w.thrown \subseteq v.thrown
    PROVE  Closed(s, v)
  BY DEF Closed, Owed

LEMMA CompleteGrows ==
    ASSUME NEW s \in Seq(Block), NEW d \in Seq(Block), NEW w \in Ledger,
           Later(d, w), Complete(s, w)
    PROVE  Complete(s \o d, Wrote(w, d))
  <1>1. Numbers(s) \subseteq w.written
    BY DEF Complete, Owed
  <1>2. InOrder(s \o d)
    BY <1>1, InOrderConcat DEF Complete, Later
  <1>3. Numbers(d) \cap w.thrown = {}
    <2> SUFFICES ASSUME NEW n \in Numbers(d), n \in w.thrown PROVE FALSE
      OBVIOUS
    <2>1. n \in w.written /\ n \in Nat
      BY LedgerParts
    <2>2. n < n
      BY <2>1 DEF Later
    <2> QED
      BY <2>1, <2>2
  <1>4. Numbers(s \o d) = Numbers(s) \cup Numbers(d)
    BY NumbersConcat
  <1>5. Owed(Wrote(w, d)) = Owed(w) \cup Numbers(d)
    BY <1>3, WroteLedger DEF Owed
  <1> QED
    BY <1>2, <1>4, <1>5 DEF Complete

LEMMA CompleteClosed ==
    ASSUME NEW s \in Seq(Block), NEW t \in Seq(Block), NEW w,
           Complete(s \o t, w)
    PROVE  Closed(s, w)
  <1>1. /\ InOrder(s) /\ \A x \in Numbers(s), y \in Numbers(t) : x < y
        /\ Numbers(s) \cup Numbers(t) = Owed(w)
    BY InOrderConcat, NumbersConcat DEF Complete
  <1> QED
    BY <1>1 DEF Closed, Owed

(* Something is written behind everything else.                            *)
LEMMA SoundSaved ==
    ASSUME NEW a \in Seq(Block), NEW m \in Seq(Block), NEW j \in Seq(Block),
           NEW over, NEW w \in Ledger, NEW d \in Seq(Block), Later(d, w),
           Sound(a, m, j, over, w)
    PROVE  Sound(a, m, j \o d, over, Wrote(w, d))
  <1> DEFINE am == a \o m
             v == Wrote(w, d)
  <1>1. am \in Seq(Block) /\ am \o j \in Seq(Block)
    OBVIOUS
  <1>2. am \o (j \o d) = (am \o j) \o d
    BY SMTT(30), <1>1, BlocksAssociative
  <1>3. /\ v.written = w.written \cup Numbers(d)
        /\ v.forgotten = w.forgotten /\ Numbers(j \o d) = Numbers(j) \cup Numbers(d)
    BY WroteLedger, NumbersConcat
  <1>4. ASSUME ~w.forgotten, ~over, Dropless(am)
        PROVE  Complete(am \o (j \o d), v)
    <2>1. Complete(am \o j, w)
      BY <1>4 DEF Sound
    <2> DEFINE amj == am \o j
    <2>2. amj \in Seq(Block) /\ Complete(amj, w)
      BY <1>1, <2>1
    <2> HIDE DEF amj
    <2>3. Complete(amj \o d, v)
      BY <2>2, CompleteGrows
    <2> QED
      BY <1>2, <2>3 DEF amj
  <1>5. ASSUME ~w.forgotten, ~over, ~Dropless(am)
        PROVE  Closed(BeforeDrop(am), v)
    BY <1>5, ClosedGrows DEF Sound
  <1>6. ASSUME ~w.forgotten PROVE Closed(BeforeDrop(a), v)
    BY <1>6, ClosedGrows DEF Sound
  <1>7. Numbers(m) \subseteq w.written /\ Numbers(j) \subseteq w.written
    BY DEF Sound
  <1> HIDE DEF v
  <1>8. Sound(a, m, j \o d, over, v)
    BY <1>3, <1>4, <1>5, <1>6, <1>7 DEF Sound
  <1> QED
    BY <1>8 DEF v

LEMMA SoundWritten ==
    ASSUME NEW a \in Seq(Block), NEW m \in Seq(Block), NEW over,
           NEW w \in Ledger, NEW d \in Seq(Block), Dropless(d), Later(d, w),
           Sound(a, m, << >>, over, w)
    PROVE  Sound(a, m \o d, << >>, over, Wrote(w, d))
  <1> DEFINE am == a \o m
             v == Wrote(w, d)
             e == << >>
  <1>1. am \in Seq(Block) /\ a \o (m \o d) = am \o d /\ am \o d \in Seq(Block)
        /\ am \o e = am /\ (am \o d) \o e = am \o d
    BY SMTT(30), BlocksAssociative
  <1>2. /\ v.written = w.written \cup Numbers(d)
        /\ v.forgotten = w.forgotten /\ Numbers(m \o d) = Numbers(m) \cup Numbers(d)
        /\ Numbers(e) = {}
    BY WroteLedger, NumbersConcat, NumbersNone
  <1>3. /\ Numbers(m) \subseteq w.written
        /\ ~w.forgotten =>
              /\ Closed(BeforeDrop(a), w)
              /\ ~over => IF Dropless(am) THEN Complete(am \o e, w)
                          ELSE Closed(BeforeDrop(am), w)
    BY DEF Sound
  <1> HIDE DEF am, e
  <1>4. Dropless(am \o d) <=> Dropless(am)
    BY <1>1, DroplessConcat
  <1>5. ASSUME ~w.forgotten, ~over, Dropless(am \o d)
        PROVE  Complete((am \o d) \o e, v)
    <2>1. Complete(am, w)
      BY <1>1, <1>3, <1>4, <1>5
    <2>2. Complete(am \o d, v)
      BY <1>1, <2>1, CompleteGrows
    <2> QED
      BY <1>1, <2>2
  <1>6. ASSUME ~w.forgotten, ~over, ~Dropless(am \o d)
        PROVE  Closed(BeforeDrop(am \o d), v)
    <2>1. Closed(BeforeDrop(am), w) /\ ~Dropless(am)
      BY <1>3, <1>4, <1>6
    <2>2. BeforeDrop(am \o d) = BeforeDrop(am)
      BY <1>1, <2>1, BeforeSameDrop
    <2> QED
      BY <2>1, <2>2, ClosedGrows
  <1>7. ASSUME ~w.forgotten PROVE Closed(BeforeDrop(a), v)
    BY <1>3, <1>7, ClosedGrows
  <1> HIDE DEF v
  <1>8. Sound(a, m \o d, e, over, v)
    BY <1>1, <1>2, <1>3, <1>5, <1>6, <1>7 DEF Sound
  <1> QED
    BY <1>8 DEF e, v

(* A back buffer is moved, or something else than the stream written to    *)
(* the message.                                                            *)
LEMMA SoundMoved ==
    ASSUME NEW a \in Seq(Block), NEW m \in Seq(Block), NEW j \in Seq(Block),
           NEW k \in Seq(Block), NEW over, NEW w \in Ledger,
           NEW d \in Seq(Block), Dropless(d),
           Numbers(k) = Numbers(d) \cup Numbers(j),
           InOrder(k) => InOrder(d \o j), Sound(a, m, k, over, w)
    PROVE  Sound(a, m \o d, j, over, w)
  <1> DEFINE am == a \o m
             amd == am \o d
  <1>1. /\ am \in Seq(Block) /\ a \o (m \o d) = amd /\ amd \in Seq(Block)
        /\ amd \o j \in Seq(Block)
    BY SMTT(30), BlocksAssociative
  <1>2. Dropless(amd) <=> Dropless(am)
    BY <1>1, DroplessConcat
  <1>3. /\ Numbers(m) \subseteq w.written /\ Numbers(k) \subseteq w.written
        /\ ~w.forgotten =>
              /\ Closed(BeforeDrop(a), w)
              /\ ~over => IF Dropless(am) THEN Complete(am \o k, w)
                          ELSE Closed(BeforeDrop(am), w)
    BY DEF Sound
  <1>4. Numbers(m \o d) = Numbers(m) \cup Numbers(d)
    BY NumbersConcat
  <1> HIDE DEF am
  <1>5. ASSUME ~w.forgotten, ~over, Dropless(amd)
        PROVE  Complete(amd \o j, w)
    <2>1. Complete(am \o k, w)
      BY <1>2, <1>3, <1>5
    <2>2. /\ InOrder(am) /\ InOrder(k)
          /\ \A x \in Numbers(am), y \in Numbers(k) : x < y
          /\ Numbers(am) \cup Numbers(k) = Owed(w)
      BY <1>1, <2>1, InOrderConcat, NumbersConcat DEF Complete
    <2>3. /\ InOrder(d) /\ InOrder(j)
          /\ \A x \in Numbers(d), y \in Numbers(j) : x < y
      BY <2>2, InOrderConcat
    <2>4. InOrder(amd) /\ Numbers(amd) = Numbers(am) \cup Numbers(d)
      BY <1>1, <2>2, <2>3, InOrderConcat, NumbersConcat
    <2> HIDE DEF amd
    <2>5. /\ InOrder(amd \o j)
          /\ Numbers(amd \o j) = Numbers(amd) \cup Numbers(j)
      BY <1>1, <2>2, <2>3, <2>4, InOrderConcat, NumbersConcat
    <2> QED
      BY <2>2, <2>4, <2>5 DEF Complete
  <1>6. ASSUME ~w.forgotten, ~over, ~Dropless(amd)
        PROVE  Closed(BeforeDrop(amd), w)
    <2>1. BeforeDrop(amd) = BeforeDrop(am)
      BY <1>1, <1>2, <1>6, BeforeSameDrop
    <2> QED
      BY <1>2, <1>3, <1>6, <2>1
  <1> HIDE DEF amd
  <1> QED
    BY <1>1, <1>3, <1>4, <1>5, <1>6 DEF Sound

LEMMA DisconnectBlock ==
    /\ Disconnect \in Block /\ <<Disconnect>> \in Seq(Block)
    /\ ~Dropless(<<Disconnect>>) /\ Numbers(<<Disconnect>>) = {}
  <1>1. Disconnect \in Block /\ Disconnect.via = "drop"
    BY DEF Block, Disconnect
  <1>2. <<Disconnect>>[1] = Disconnect /\ 1 \in DOMAIN <<Disconnect>>
    OBVIOUS
  <1> QED
    BY <1>1, <1>2, NumbersOfOne DEF Dropless

(* The client is dropped: nothing after the disconnect matters.            *)
LEMMA SoundDropped ==
    ASSUME NEW a \in Seq(Block), NEW m \in Seq(Block), NEW j \in Seq(Block),
           NEW over, NEW w \in Ledger, Sound(a, m, j, over, w)
    PROVE  Sound(a, m \o <<Disconnect>>, j, over, w)
  <1> DEFINE d == <<Disconnect>>
             am == a \o m
  <1>1. d \in Seq(Block) /\ ~Dropless(d) /\ Numbers(d) = {}
    BY DisconnectBlock
  <1> HIDE DEF d
  <1>2. am \in Seq(Block) /\ a \o (m \o d) = am \o d
    BY SMTT(30), <1>1, BlocksAssociative
  <1>3. Numbers(m \o d) = Numbers(m)
    <2>1. Numbers(m \o d) = Numbers(m) \cup Numbers(d)
      BY <1>1, NumbersConcat
    <2> QED
      BY <1>1, <2>1
  <1>4. /\ Numbers(m) \subseteq w.written /\ Numbers(j) \subseteq w.written
        /\ ~w.forgotten =>
              /\ Closed(BeforeDrop(a), w)
              /\ ~over => IF Dropless(am) THEN Complete(am \o j, w)
                          ELSE Closed(BeforeDrop(am), w)
    BY DEF Sound
  <1> HIDE DEF am
  <1>5. ~Dropless(am \o d)
    BY <1>1, <1>2, DroplessConcat
  <1>6. ASSUME ~w.forgotten, ~over PROVE Closed(BeforeDrop(am \o d), w)
    <2>1. CASE Dropless(am)
      <3>1. BeforeDrop(am \o d) = am
        BY <1>2, <2>1, BeforeNewDrop DEF d
      <3>2. Closed(am, w)
        BY <1>2, <1>4, <1>6, <2>1, CompleteClosed
      <3> QED
        BY <3>1, <3>2
    <2>2. CASE ~Dropless(am)
      <3>1. BeforeDrop(am \o d) = BeforeDrop(am)
        BY <1>1, <1>2, <2>2, BeforeSameDrop
      <3> QED
        BY <1>4, <1>6, <2>2, <3>1
    <2> QED
      BY <2>1, <2>2
  <1> QED
    BY <1>2, <1>3, <1>4, <1>5, <1>6 DEF Sound, d

(* So when the message has been cleared before.                            *)
LEMMA SoundCut ==
    ASSUME NEW a \in Seq(Block), NEW m \in Seq(Block), Dropless(m),
           Numbers(m) = {}, NEW k, NEW over, NEW w \in Ledger,
           Numbers(k) \subseteq w.written,
           ~w.forgotten => Closed(BeforeDrop(a), w)
    PROVE  Sound(a, m \o <<Disconnect>>, k, over, w)
  <1> DEFINE d == <<Disconnect>>
  <1>1. d \in Seq(Block) /\ ~Dropless(d) /\ Numbers(d) = {}
    BY DisconnectBlock
  <1> HIDE DEF d
  <1>2. a \o m \in Seq(Block) /\ a \o (m \o d) = (a \o m) \o d
        /\ m \o d \in Seq(Block)
    BY <1>1, BlocksAssociative
  <1>3. ~Dropless(a \o (m \o d)) /\ Numbers(m \o d) = {}
    BY <1>1, <1>2, DroplessConcat, NumbersConcat
  <1>4. ASSUME ~w.forgotten PROVE Closed(BeforeDrop(a \o (m \o d)), w)
    <2>1. CASE Dropless(a)
      <3>1. Dropless(a \o m)
        BY <2>1, DroplessConcat
      <3>2. BeforeDrop((a \o m) \o d) = a \o m
        BY <1>2, <3>1, BeforeNewDrop DEF d
      <3>3. Closed(a, w)
        BY <1>4, <2>1, BeforeNoDrop
      <3>4. Numbers(a \o m) = Numbers(a) /\ (InOrder(a) => InOrder(a \o m))
        <4>1. InOrder(m)
          BY DEF InOrder, Numbers
        <4>2. Numbers(a \o m) = Numbers(a) \cup Numbers(m)
          BY NumbersConcat
        <4>3. InOrder(a) => InOrder(a \o m)
          BY <4>1, InOrderConcat
        <4> QED
          BY <4>2, <4>3
      <3>5. Closed(a \o m, w)
        BY <3>3, <3>4 DEF Closed
      <3> QED
        BY <1>2, <3>2, <3>5
    <2>2. CASE ~Dropless(a)
      BY <1>2, <1>4, <2>2, BeforeSameDrop
    <2> QED
      BY <2>1, <2>2
  <1> HIDE DEF Closed
  <1>5. Sound(a, m \o d, k, over, w)
    BY <1>3, <1>4 DEF Sound
  <1> QED
    BY <1>5 DEF d

(* The message goes on its way.                                            *)
LEMMA SoundSent ==
    ASSUME NEW a \in Seq(Block), NEW m \in Seq(Block), NEW j \in Seq(Block),
           NEW w \in Ledger, NEW over, ~over, Sound(a, m, j, over, w)
    PROVE  Sound(a \o m, << >>, j, over, w)
  <1>1. a \o m \in Seq(Block) /\ (a \o m) \o << >> = a \o m
    OBVIOUS
  <1>2. ASSUME ~w.forgotten PROVE Closed(BeforeDrop(a \o m), w)
    <2>1. CASE Dropless(a \o m)
      <3>1. BeforeDrop(a \o m) = a \o m
        BY <1>1, <2>1, BeforeNoDrop
      <3>2. Complete((a \o m) \o j, w)
        BY <1>2, <2>1 DEF Sound
      <3>3. Closed(a \o m, w)
        BY <1>1, <3>2, CompleteClosed
      <3> QED
        BY <3>1, <3>3
    <2>2. CASE ~Dropless(a \o m)
      BY <1>2, <2>2 DEF Sound
    <2> QED
      BY <2>1, <2>2
  <1> QED
    BY <1>1, <1>2, NumbersNone DEF Sound

(* A signon command throws the message away (k = j), or the back buffers   *)
(* as well (k = << >>).                                                    *)
LEMMA SoundThrown ==
    ASSUME NEW a \in Seq(Block), NEW m \in Seq(Block), NEW j \in Seq(Block),
           NEW k \in Seq(Block), NEW over, NEW w \in Ledger, NEW v \in Ledger,
           Sound(a, m, j, over, w), v.written = w.written,
           ~v.forgotten => ~w.forgotten /\ ~over /\ Dropless(m),
           \/ k = j /\ v.thrown = w.thrown \cup Numbers(m)
           \/ k = << >> /\ v.thrown = w.thrown \cup (Numbers(m) \cup Numbers(j)),
           NEW now
    PROVE  Sound(a, << >>, k, now, v)
  <1> DEFINE am == a \o m
             e == << >>
  <1>1. am \in Seq(Block) /\ a \o e = a /\ a \o k \in Seq(Block)
        /\ am \o j \in Seq(Block)
    OBVIOUS
  <1>2. Numbers(e) = {} /\ InOrder(e)
    BY NumbersNone
  <1>3. /\ Numbers(m) \subseteq w.written /\ Numbers(j) \subseteq w.written
        /\ ~w.forgotten =>
              /\ Closed(BeforeDrop(a), w)
              /\ ~over => IF Dropless(am) THEN Complete(am \o j, w)
                          ELSE Closed(BeforeDrop(am), w)
    BY DEF Sound
  <1>4. Numbers(k) \subseteq v.written
    BY <1>2, <1>3
  <1> HIDE DEF am
  <1>5. ASSUME ~v.forgotten PROVE Closed(BeforeDrop(a), v)
    BY <1>3, <1>5, ClosedShrinks
  <1>6. ASSUME ~v.forgotten, Dropless(a) PROVE Complete(a \o k, v)
    <2>1. Dropless(am)
      BY <1>6, DroplessConcat DEF am
    <2>2. Complete(am \o j, w)
      BY <1>3, <1>6, <2>1
    <2>3. /\ InOrder(am) /\ InOrder(j)
          /\ \A x \in Numbers(am), y \in Numbers(j) : x < y
          /\ Numbers(am) \cup Numbers(j) = Owed(w)
      BY <1>1, <2>2, InOrderConcat, NumbersConcat DEF Complete
    <2>4. /\ InOrder(a) /\ \A x \in Numbers(a), y \in Numbers(m) : x < y
          /\ Numbers(am) = Numbers(a) \cup Numbers(m)
      BY <2>3, InOrderConcat, NumbersConcat DEF am
    <2>5. InOrder(a \o k) /\ Numbers(a \o k) = Numbers(a) \cup Numbers(k)
      <3>1. InOrder(k) /\ \A x \in Numbers(a), y \in Numbers(k) : x < y
        BY <1>2, <2>3, <2>4
      <3> QED
        BY <2>4, <3>1, InOrderConcat, NumbersConcat
    <2>6. Numbers(a) \subseteq Nat /\ Numbers(m) \subseteq Nat
          /\ Numbers(j) \subseteq Nat
      BY NumbersType
    <2>7. /\ Numbers(a) \cap Numbers(m) = {} /\ Numbers(a) \cap Numbers(j) = {}
          /\ Numbers(m) \cap Numbers(j) = {}
      <3>1. \A x \in Nat : ~(x < x)
        OBVIOUS
      <3> QED
        BY <2>3, <2>4, <2>6, <3>1
    <2>8. Numbers(a) \cup Numbers(k) = Owed(v)
      BY <1>2, <2>3, <2>4, <2>7 DEF Owed
    <2> QED
      BY <2>5, <2>8 DEF Complete
  <1> HIDE DEF e
  <1> QED
    BY <1>1, <1>2, <1>4, <1>5, <1>6 DEF Sound, e

(* An overflow loses what it likes, but nothing that was sent.             *)
LEMMA SoundOver ==
    ASSUME NEW a, NEW m, NEW j, NEW over, NEW w, NEW n, NEW k, NEW now,
           Sound(a, m, j, over, w), now,
           Numbers(n) \subseteq w.written, Numbers(k) \subseteq w.written
    PROVE  Sound(a, n, k, now, w)
  BY DEF Sound

-----------------------------------------------------------------------------
(* The staging area.                                                       *)

(* The blocks in these back buffers.                                       *)
Waiting(bufs) == FlattenSeq([i \in DOMAIN bufs |-> bufs[i].data])

LEMMA WaitingType ==
    ASSUME NEW bufs \in Seq(SizeBuf)
    PROVE  /\ [i \in DOMAIN bufs |-> bufs[i].data] \in Seq(Seq(Block))
           /\ Waiting(bufs) \in Seq(Block)
  <1> DEFINE datas == [i \in DOMAIN bufs |-> bufs[i].data]
  <1>1. DOMAIN bufs = 1 .. Len(bufs) /\ Len(bufs) \in Nat
    OBVIOUS
  <1>2. \A i \in 1 .. Len(bufs) : bufs[i].data \in Seq(Block)
    <2>1. \A b \in SizeBuf : b.data \in Seq(Block)
      BY DEF SizeBuf
    <2>2. \A i \in 1 .. Len(bufs) : bufs[i] \in SizeBuf
      OBVIOUS
    <2> QED
      BY <2>1, <2>2
  <1>3. datas \in [1 .. Len(bufs) -> Seq(Block)]
    BY <1>1, <1>2
  <1>4. datas \in Seq(Seq(Block))
    BY <1>1, <1>3
  <1> HIDE DEF datas
  <1>5. FlattenSeq(datas) \in Seq(Block)
    BY <1>4, FlattenStep
  <1> QED
    BY <1>4, <1>5 DEF Waiting, datas

LEMMA WaitingNone == Waiting(<< >>) = << >>
  <1> DEFINE e == << >>
             datas == [i \in DOMAIN e |-> e[i].data]
  <1>1. datas = << >>
    <2>1. e \in Seq(SizeBuf) /\ DOMAIN e = {}
      OBVIOUS
    <2>2. datas \in Seq(Seq(Block)) /\ DOMAIN datas = {}
      BY <2>1, WaitingType
    <2> HIDE DEF datas
    <2> QED
      BY <2>2
  <1> QED
    BY <1>1, FlattenEmpty DEF Waiting

LEMMA WaitingAppend ==
    ASSUME NEW bufs \in Seq(SizeBuf), NEW buf \in SizeBuf
    PROVE  Waiting(Append(bufs, buf)) = Waiting(bufs) \o buf.data
  <1> DEFINE datas == [i \in DOMAIN bufs |-> bufs[i].data]
             more == Append(bufs, buf)
             all == [i \in DOMAIN more |-> more[i].data]
             d == buf.data
             n == Len(bufs)
  <1>1. datas \in Seq(Seq(Block)) /\ d \in Seq(Block)
    BY WaitingType DEF SizeBuf
  <1>2. more \in Seq(SizeBuf) /\ Len(more) = n + 1 /\ n \in Nat
    OBVIOUS
  <1>3. all \in Seq(Seq(Block))
    BY <1>2, WaitingType
  <1>4. Len(all) = n + 1 /\ Len(datas) = n
    <2>1. DOMAIN all = 1 .. n + 1 /\ DOMAIN datas = 1 .. n
      BY <1>2
    <2> HIDE DEF all, datas, n
    <2> QED
      BY <1>1, <1>2, <1>3, <2>1
  <1>5. ASSUME NEW i \in 1 .. n + 1
        PROVE  all[i] = Append(datas, d)[i]
    <2>1. CASE i = n + 1
      <3>1. all[i] = d
        BY <1>2, <2>1
      <3> HIDE DEF all, datas, d, n
      <3> QED
        BY <1>1, <1>4, <2>1, <3>1
    <2>2. CASE i # n + 1
      <3>1. i \in 1 .. n
        BY <1>2, <2>2
      <3>2. all[i] = datas[i]
        BY <1>2, <3>1
      <3> HIDE DEF all, datas, d, n
      <3> QED
        BY <1>1, <1>4, <3>1, <3>2
    <2> QED
      BY <2>1, <2>2
  <1>6. all = Append(datas, d)
    <2> HIDE DEF all, datas, d, n
    <2>1. Append(datas, d) \in Seq(Seq(Block)) /\ Len(Append(datas, d)) = n + 1
      BY <1>1, <1>4
    <2> QED
      BY <1>3, <1>4, <1>5, <2>1
  <1>7. FlattenSeq(Append(datas, d)) = FlattenSeq(datas) \o d
    <2> HIDE DEF datas, d
    <2> QED
      BY <1>1, FlattenAppend
  <1> QED
    BY <1>6, <1>7 DEF Waiting

(* The last back buffer is exchanged.                                      *)
LEMMA WaitingLast ==
    ASSUME NEW bufs \in Seq(SizeBuf), bufs # << >>, NEW buf \in SizeBuf
    PROVE  /\ [bufs EXCEPT ![Len(bufs)] = buf] \in Seq(SizeBuf)
           /\ Len([bufs EXCEPT ![Len(bufs)] = buf]) = Len(bufs)
           /\ Last(bufs) \in SizeBuf
           /\ Front(bufs) \in Seq(SizeBuf)
           /\ Waiting(bufs) = Waiting(Front(bufs)) \o Last(bufs).data
           /\ Waiting([bufs EXCEPT ![Len(bufs)] = buf])
                 = Waiting(Front(bufs)) \o buf.data
  <1> DEFINE n == Len(bufs)
             f == Front(bufs)
             l == Last(bufs)
             new == [bufs EXCEPT ![n] = buf]
  <1>1. n \in Nat \ {0} /\ l \in SizeBuf
    BY DEF Last
  <1>2. new \in Seq(SizeBuf) /\ Len(new) = n
    BY <1>1
  <1>3. f \in Seq(SizeBuf) /\ Len(f) = n - 1
        /\ \A i \in 1 .. n - 1 : f[i] = bufs[i]
    <2>1. /\ n - 1 \in Nat /\ \A i \in 1 .. n - 1 : i \in 1 .. n
          /\ f = SubSeq(bufs, 1, n - 1)
      BY <1>1 DEF Front
    <2>2. /\ SubSeq(bufs, 1, n - 1) \in Seq(SizeBuf)
          /\ Len(SubSeq(bufs, 1, n - 1)) = n - 1
          /\ \A i \in 1 .. n - 1 : SubSeq(bufs, 1, n - 1)[i] = bufs[i]
      <3>1. \A i \in 1 .. n - 1 : bufs[i] \in SizeBuf
        BY <1>1, <2>1
      <3> HIDE DEF n, f, l, new
      <3> QED
        BY <2>1, <3>1
    <2> QED
      BY <2>1, <2>2
  <1>4. bufs = Append(f, l)
    <2>1. bufs[n] = l
      BY DEF Last
    <2> HIDE DEF n, f, l
    <2>2. Append(f, l) \in Seq(SizeBuf) /\ Len(Append(f, l)) = n
      BY <1>1, <1>3
    <2>3. \A i \in 1 .. n : Append(f, l)[i] = bufs[i]
      BY <1>1, <1>3, <2>1
    <2> QED
      BY <2>2, <2>3 DEF n
  <1>5. new = Append(f, buf)
    <2>1. new[n] = buf /\ \A i \in 1 .. n - 1 : new[i] = bufs[i]
      BY <1>1
    <2> HIDE DEF n, f, l, new
    <2>2. Append(f, buf) \in Seq(SizeBuf) /\ Len(Append(f, buf)) = n
      BY <1>1, <1>3
    <2>3. \A i \in 1 .. n : Append(f, buf)[i] = new[i]
      BY <1>1, <1>3, <2>1
    <2> QED
      BY <1>2, <2>2, <2>3 DEF n
  <1>6. /\ Waiting(Append(f, l)) = Waiting(f) \o l.data
        /\ Waiting(Append(f, buf)) = Waiting(f) \o buf.data
    <2> HIDE DEF f, l
    <2> QED
      BY <1>1, <1>3, WaitingAppend
  <1> QED
    BY <1>1, <1>2, <1>3, <1>4, <1>5, <1>6

(* The first one leaves; the flags of the others do not matter.            *)
LEMMA WaitingHead ==
    ASSUME NEW bufs \in Seq(SizeBuf), bufs # << >>, NEW rest \in Seq(SizeBuf),
           Len(rest) = Len(Tail(bufs)),
           \A i \in 1 .. Len(rest) : rest[i].data = Tail(bufs)[i].data
    PROVE  /\ Head(bufs) \in SizeBuf
           /\ Waiting(bufs) = Head(bufs).data \o Waiting(rest)
  <1> DEFINE datas == [i \in DOMAIN bufs |-> bufs[i].data]
             left == [i \in DOMAIN rest |-> rest[i].data]
             n == Len(bufs)
  <1>1. /\ n \in Nat \ {0} /\ Len(rest) = n - 1 /\ Head(bufs) = bufs[1]
        /\ DOMAIN rest = 1 .. n - 1 /\ DOMAIN bufs = 1 .. n
        /\ \A i \in 1 .. n - 1 : rest[i].data = bufs[i + 1].data
    OBVIOUS
  <1>2. Head(bufs) \in SizeBuf
    BY <1>1
  <1>3. datas \in Seq(Seq(Block)) /\ left \in Seq(Seq(Block))
    BY WaitingType
  <1>4. DOMAIN datas = 1 .. n /\ DOMAIN left = 1 .. n - 1
        /\ datas[1] = Head(bufs).data
        /\ \A i \in 1 .. n - 1 : left[i] = datas[i + 1]
    <2>1. \A i \in 1 .. n - 1 : i + 1 \in 1 .. n
      BY <1>1
    <2>2. 1 \in 1 .. n
      BY <1>1
    <2> HIDE DEF n
    <2> QED
      BY <1>1, <2>1, <2>2
  <1> HIDE DEF datas, left, n
  <1>5. datas # << >> /\ Len(datas) = n /\ Len(left) = n - 1
    BY <1>1, <1>3, <1>4
  <1>6. Head(datas) = Head(bufs).data
    BY <1>3, <1>4, <1>5
  <1>7. Tail(datas) = left
    <2>1. /\ Tail(datas) \in Seq(Seq(Block)) /\ Len(Tail(datas)) = n - 1
          /\ \A i \in 1 .. n - 1 : Tail(datas)[i] = datas[i + 1]
      BY <1>1, <1>3, <1>5
    <2> QED
      BY <1>1, <1>3, <1>4, <1>5, <2>1
  <1>8. FlattenSeq(datas) = Head(datas) \o FlattenSeq(Tail(datas))
    BY <1>3, <1>5, FlattenHead
  <1> QED
    BY <1>2, <1>6, <1>7, <1>8 DEF Waiting, datas, left

(* The staging areas there are.  A client can always be told of an         *)
(* overflow in its message, and only the message holds a disconnect.       *)
Area == [message : SizeBuf, backbufs : Seq(SizeBuf)]

Tidy(buf) == buf.cursize <= MaxSize /\ Dropless(buf.data)

Good(st) ==
    /\ st \in Area
    /\ st.message.allowoverflow /\ st.message.cursize <= MaxSize
    /\ Len(st.backbufs) <= MAX_BACK_BUFFERS
    /\ \A i \in 1 .. Len(st.backbufs) : Tidy(st.backbufs[i])

(* The blocks are kept of which Sound speaks.                              *)
Keeps(a, st, w) ==
    Sound(a, st.message.data, Waiting(st.backbufs), st.message.overflowed, w)

LEMMA EmptyBufs ==
    /\ EmptyBuf \in SizeBuf /\ EmptyBuf.data = << >> /\ EmptyBuf.cursize = 0
    /\ EmptyBuf.allowoverflow = TRUE /\ EmptyBuf.overflowed = FALSE
    /\ << >> \in Seq(Block) /\ Dropless(<< >>) /\ Tidy(EmptyBuf)
  <1>1. << >> \in Seq(Block) /\ Dropless(<< >>)
    BY DEF Dropless
  <1>2. /\ EmptyBuf \in SizeBuf /\ EmptyBuf.data = << >>
        /\ EmptyBuf.cursize = 0
        /\ EmptyBuf.allowoverflow = TRUE /\ EmptyBuf.overflowed = FALSE
    BY <1>1 DEF EmptyBuf, SizeBuf
  <1> QED
    BY <1>1, <1>2, MaxSizeAssumption DEF Tidy

LEMMA BufTypes ==
    ASSUME NEW buf \in SizeBuf
    PROVE  /\ buf.data \in Seq(Block) /\ buf.cursize \in Nat
           /\ buf.allowoverflow \in BOOLEAN /\ buf.overflowed \in BOOLEAN
  BY DEF SizeBuf

LEMMA WriteFits ==
    ASSUME NEW buf \in SizeBuf, NEW d \in Seq(Block), NEW size \in Nat,
           Fits(buf, size), NEW r, r = SZ_Write(buf, d, size)
    PROVE  /\ r \in SizeBuf /\ r.data = buf.data \o d
           /\ r.cursize = buf.cursize + size /\ r.cursize <= MaxSize
           /\ r.allowoverflow = buf.allowoverflow
           /\ r.overflowed = buf.overflowed
           /\ SZ_Fails(buf, size) = FALSE
  <1>1. r = [buf EXCEPT !.data = @ \o d, !.cursize = @ + size]
    BY DEF SZ_Write
  <1>2. /\ buf.data \o d \in Seq(Block) /\ buf.cursize + size \in Nat
    BY BufTypes
  <1>3. /\ r \in SizeBuf /\ r.data = buf.data \o d
        /\ r.cursize = buf.cursize + size
        /\ r.allowoverflow = buf.allowoverflow
        /\ r.overflowed = buf.overflowed
    BY <1>1, <1>2 DEF SizeBuf
  <1>4. r.cursize <= MaxSize
    BY <1>3 DEF Fits
  <1>5. SZ_Fails(buf, size) = FALSE
    BY DEF SZ_Fails
  <1> QED
    BY <1>3, <1>4, <1>5

LEMMA WriteSpills ==
    ASSUME NEW buf \in SizeBuf, NEW d \in Seq(Block), NEW size \in Nat,
           ~Fits(buf, size), NEW r, r = SZ_Write(buf, d, size)
    PROVE  /\ r \in SizeBuf /\ r.cursize = size
           /\ r.allowoverflow = buf.allowoverflow /\ r.overflowed = TRUE
  <1>1. r = [buf EXCEPT !.data = d, !.cursize = size, !.overflowed = TRUE]
    BY DEF SZ_Write
  <1> QED
    BY <1>1 DEF SizeBuf

(* The parts of a good area.                                               *)
LEMMA GoodParts ==
    ASSUME NEW st, Good(st)
    PROVE  /\ st.message \in SizeBuf /\ st.backbufs \in Seq(SizeBuf)
           /\ st = [message |-> st.message, backbufs |-> st.backbufs]
           /\ Waiting(st.backbufs) \in Seq(Block)
           /\ st.message.data \in Seq(Block)
           /\ st.message.overflowed \in BOOLEAN
  <1>1. /\ st.message \in SizeBuf /\ st.backbufs \in Seq(SizeBuf)
        /\ st = [message |-> st.message, backbufs |-> st.backbufs]
    BY DEF Good, Area
  <1>2. st.message.data \in Seq(Block) /\ st.message.overflowed \in BOOLEAN
    BY <1>1, BufTypes
  <1>3. Waiting(st.backbufs) \in Seq(Block)
    BY <1>1, WaitingType
  <1> QED
    BY <1>1, <1>2, <1>3

LEMMA GoodMessage ==
    ASSUME NEW st, Good(st), NEW msg \in SizeBuf, msg.allowoverflow,
           msg.cursize <= MaxSize,
           NEW r, r = [message |-> msg, backbufs |-> st.backbufs]
    PROVE  Good(r)
  <1>1. r \in Area /\ r.message = msg /\ r.backbufs = st.backbufs
    BY GoodParts DEF Area
  <1> QED
    BY <1>1 DEF Good

(* The last back buffer is exchanged.                                      *)
WithLast(st, buf, over) ==
    [message  |-> [st.message EXCEPT !.overflowed = over],
     backbufs |-> [st.backbufs EXCEPT ![Len(st.backbufs)] = buf]]

LEMMA GoodLast ==
    ASSUME NEW st, Good(st), st.backbufs # << >>,
           NEW buf \in SizeBuf, Tidy(buf), NEW over \in BOOLEAN,
           NEW r, r = WithLast(st, buf, over)
    PROVE  /\ Good(r) /\ r.message.data = st.message.data
           /\ r.message.overflowed = over
           /\ r.backbufs # << >> /\ Last(r.backbufs) = buf
  <1> DEFINE bufs == st.backbufs
             n == Len(bufs)
             new == [bufs EXCEPT ![n] = buf]
             msg == [st.message EXCEPT !.overflowed = over]
  <1>1. /\ msg \in SizeBuf /\ msg.data = st.message.data
        /\ msg.overflowed = over /\ msg.cursize = st.message.cursize
        /\ msg.allowoverflow = st.message.allowoverflow
    <2>1. st.message \in SizeBuf
      BY GoodParts
    <2> QED
      BY <2>1 DEF SizeBuf
  <1>2. bufs \in Seq(SizeBuf) /\ bufs # << >>
    BY GoodParts
  <1>3. new \in Seq(SizeBuf) /\ Len(new) = n
    BY <1>2, WaitingLast
  <1>4. \A i \in 1 .. n : new[i] = buf \/ new[i] = bufs[i]
    BY <1>2
  <1>5. new[n] = buf /\ n \in Nat \ {0}
    BY <1>2
  <1>6. \A i \in 1 .. n : Tidy(bufs[i])
    BY DEF Good
  <1>7. n <= MAX_BACK_BUFFERS
    BY DEF Good
  <1>8. st.message.allowoverflow /\ st.message.cursize <= MaxSize
    BY DEF Good
  <1>9. r = [message |-> msg, backbufs |-> new]
    BY DEF WithLast
  <1> HIDE DEF msg, new, n, bufs
  <1>10. r \in Area /\ r.message = msg /\ r.backbufs = new
    BY ONLY <1>1, <1>3, <1>9 DEF Area
  <1>11. Good(r)
    <2>1. \A i \in 1 .. n : Tidy(new[i])
      BY <1>4, <1>6
    <2> QED
      BY <1>1, <1>3, <1>7, <1>8, <1>10, <2>1 DEF Good
  <1>12. new # << >> /\ Last(new) = buf
    BY <1>3, <1>5 DEF Last
  <1> QED
    BY <1>1, <1>10, <1>11, <1>12

(* ClientReliableCheckBlock makes room, or drops the client.               *)
LEMMA CheckBlockKeeps ==
    ASSUME NEW st, Good(st), NEW announced \in Nat,
           NEW size \in 0 .. announced, size <= MaxSize,
           NEW r, r = ClientReliableCheckBlock(st, announced),
           NEW a, NEW w, Keeps(a, st, w)
    PROVE  Good(r) /\ Fits(Target(r), size) /\ Keeps(a, r, w)
  <1> DEFINE bufs == st.backbufs
             n == Len(bufs)
  <1>1. /\ bufs \in Seq(SizeBuf) /\ st.message \in SizeBuf
        /\ st = [message |-> st.message, backbufs |-> bufs]
        /\ Waiting(bufs) \in Seq(Block)
    BY GoodParts
  <1>2. n \in Nat /\ (bufs = << >> <=> n = 0) /\ n <= MAX_BACK_BUFFERS
    BY <1>1 DEF Good
  <1>3. size \in Nat /\ size <= MaxSize /\ size <= announced
    BY MaxSizeAssumption
  <1>4. CASE ~NeedsNewBackbuf(st, announced)
    <2>1. r = st
      BY <1>4 DEF ClientReliableCheckBlock
    <2>2. CASE bufs = << >>
      <3>1. ~Full(st.message, announced) /\ Target(st) = st.message
        BY <1>4, <2>2 DEF NeedsNewBackbuf, GoesToBackbuf, Target
      <3>2. st.message.cursize \in Nat
        BY <1>1, BufTypes
      <3>3. Fits(st.message, size)
        BY <1>3, <3>1, <3>2, MaxSizeAssumption DEF Full, Fits
      <3> QED
        BY <2>1, <3>1, <3>3
    <2>3. CASE bufs # << >>
      <3>1. ~Full(Last(bufs), announced) /\ Target(st) = Last(bufs)
        BY <1>4, <2>3 DEF NeedsNewBackbuf, GoesToBackbuf, Target
      <3>2. Last(bufs) \in SizeBuf
        BY <1>1, <2>3, EmptyBufs, WaitingLast
      <3>3. Last(bufs).cursize \in Nat
        BY <3>2, BufTypes
      <3>4. Fits(Last(bufs), size)
        BY <1>3, <3>1, <3>3, MaxSizeAssumption DEF Full, Fits
      <3> QED
        BY <2>1, <3>1, <3>4
    <2> QED
      BY <2>2, <2>3
  <1>5. CASE NeedsNewBackbuf(st, announced) /\ NoneLeft(st)
    <2>1. n = MAX_BACK_BUFFERS /\ bufs # << >>
      BY <1>2, <1>5, MaxBackAssumption DEF NoneLeft
    <2> DEFINE l == Last(bufs)
               buf == [l EXCEPT !.data = << >>, !.cursize = 0]
    <2>2. l \in SizeBuf
      BY <1>1, <2>1, EmptyBufs, WaitingLast
    <2>3. buf \in SizeBuf /\ buf.data = << >> /\ buf.cursize = 0
      <3>1. << >> \in Seq(Block)
        BY EmptyBufs
      <3> QED
        BY <2>2, <3>1 DEF SizeBuf
    <2>4. r = OutOfBackbufs(st)
      BY <1>5 DEF ClientReliableCheckBlock
    <2> DEFINE yes == TRUE
    <2>5. r = WithLast(st, buf, yes) /\ yes \in BOOLEAN
      BY <2>4 DEF OutOfBackbufs, Last, WithLast
    <2> HIDE DEF buf
    <2>6. Tidy(buf)
      BY <2>3, EmptyBufs, MaxSizeAssumption DEF Tidy
    <2>7. /\ Good(r) /\ r.message.overflowed = TRUE
          /\ r.backbufs # << >> /\ Last(r.backbufs) = buf
      <3> HIDE DEF yes
      <3>1. /\ Good(r) /\ r.message.overflowed = yes
            /\ r.backbufs # << >> /\ Last(r.backbufs) = buf
        BY <2>1, <2>3, <2>5, <2>6, GoodLast
      <3> QED
        BY <3>1 DEF yes
    <2>8. Fits(Target(r), size)
      BY <1>3, <2>3, <2>7 DEF Fits, Target
    <2>9. Numbers(Waiting(r.backbufs)) \subseteq Numbers(Waiting(bufs))
      <3> DEFINE f == Waiting(Front(bufs))
                 ld == l.data
                 e == << >>
      <3>1. r.backbufs = [bufs EXCEPT ![n] = buf]
        BY <2>5 DEF WithLast
      <3>2. Front(bufs) \in Seq(SizeBuf) /\ Waiting(bufs) = f \o ld
        BY <1>1, <2>1, EmptyBufs, WaitingLast
      <3>3. Waiting(r.backbufs) = f \o e
        BY <1>1, <2>1, <2>3, <3>1, WaitingLast
      <3>4. f \in Seq(Block) /\ ld \in Seq(Block)
        BY <2>2, <3>2, WaitingType, BufTypes
      <3> HIDE DEF f, ld
      <3>5. f \o e = f
        BY <3>4
      <3>6. Numbers(f \o ld) = Numbers(f) \cup Numbers(ld)
        BY <3>4, NumbersConcat
      <3> QED
        BY <3>2, <3>3, <3>5, <3>6
    <2>10. Keeps(a, r, w)
      <3>1. Sound(a, st.message.data, Waiting(bufs), st.message.overflowed, w)
        BY DEF Keeps
      <3>2. r.message.data = st.message.data
        <4> HIDE DEF yes
        <4> QED
          BY <2>1, <2>3, <2>5, <2>6, GoodLast
      <3>3. Numbers(Waiting(r.backbufs)) \subseteq w.written
            /\ Numbers(r.message.data) \subseteq w.written
        BY <2>9, <3>1, <3>2 DEF Sound
      <3> QED
        BY <2>7, <3>1, <3>3, SoundOver DEF Keeps
    <2> QED
      BY <2>7, <2>8, <2>10
  <1>6. CASE NeedsNewBackbuf(st, announced) /\ ~NoneLeft(st)
    <2> DEFINE new == Append(bufs, EmptyBuf)
    <2>1. r = [st EXCEPT !.backbufs = new]
      BY <1>6 DEF ClientReliableCheckBlock
    <2>2. r = [message |-> st.message, backbufs |-> new]
      BY <1>1, <2>1
    <2>3. /\ new \in Seq(SizeBuf) /\ Len(new) = n + 1 /\ new[n + 1] = EmptyBuf
          /\ \A i \in 1 .. n : new[i] = bufs[i]
      BY <1>1, EmptyBufs
    <2>4. Waiting(new) = Waiting(bufs)
      <3>1. Waiting(new) = Waiting(bufs) \o EmptyBuf.data
        BY <1>1, EmptyBufs, WaitingAppend
      <3>2. Waiting(bufs) \o << >> = Waiting(bufs)
        BY <1>1
      <3> QED
        BY <3>1, <3>2, EmptyBufs
    <2>5. n + 1 <= MAX_BACK_BUFFERS
      BY <1>2, <1>6, MaxBackAssumption DEF NoneLeft
    <2>6. \A i \in 1 .. n : Tidy(bufs[i])
      BY DEF Good
    <2> HIDE DEF new, n, bufs
    <2>7. /\ r \in Area /\ r.message = st.message /\ r.backbufs = new
          /\ new # << >> /\ Last(new) = EmptyBuf
      BY <1>1, <1>2, <2>2, <2>3 DEF Area, Last
    <2>8. \A i \in 1 .. n + 1 : Tidy(new[i])
      <3>1. \A i \in 1 .. n + 1 : i = n + 1 \/ i \in 1 .. n
        BY <1>2
      <3> QED
        BY <2>3, <2>6, <3>1, EmptyBufs
    <2>9. Good(r)
      BY <2>3, <2>5, <2>7, <2>8 DEF Good
    <2>10. Fits(Target(r), size)
      BY <1>3, <2>7, EmptyBufs DEF Fits, Target
    <2>11. Keeps(a, r, w)
      BY <2>4, <2>7 DEF Keeps, bufs
    <2> QED
      BY <2>9, <2>10, <2>11
  <1> QED
    BY <1>4, <1>5, <1>6

(* Of any area something can be said.                                      *)
LEMMA KeepsSomething ==
    ASSUME NEW st, Good(st) PROVE \E w \in Ledger : Keeps(<< >>, st, w)
  <1> DEFINE w == [written |-> Nat, thrown |-> {}, forgotten |-> TRUE]
  <1>1. w \in Ledger /\ w.written = Nat /\ w.forgotten = TRUE
    BY DEF Ledger
  <1>2. /\ Numbers(st.message.data) \subseteq Nat
        /\ Numbers(Waiting(st.backbufs)) \subseteq Nat
    BY GoodParts, NumbersType
  <1> HIDE DEF w
  <1>3. Keeps(<< >>, st, w)
    BY <1>1, <1>2 DEF Keeps, Sound
  <1> QED
    BY <1>1, <1>3

(* ClientReliableWrite puts its data behind everything else.               *)
LEMMA ReliableWriteKeeps ==
    ASSUME NEW st, Good(st), NEW size \in Nat, Fits(Target(st), size),
           NEW d \in Seq(Block), Dropless(d),
           NEW r, r = ClientReliableWrite(st, d, size),
           NEW a \in Seq(Block), NEW w \in Ledger, Later(d, w),
           Keeps(a, st, w)
    PROVE  /\ Good(r) /\ Keeps(a, r, Wrote(w, d))
           /\ SZ_Fails(Target(st), size) = FALSE
  <1> DEFINE bufs == st.backbufs
             n == Len(bufs)
             m == st.message.data
             over == st.message.overflowed
             buf == SZ_Write(Target(st), d, size)
  <1>1. /\ bufs \in Seq(SizeBuf) /\ st.message \in SizeBuf
        /\ st = [message |-> st.message, backbufs |-> bufs]
        /\ Waiting(bufs) \in Seq(Block)
        /\ m \in Seq(Block) /\ over \in BOOLEAN
    BY GoodParts
  <1>2. CASE bufs = << >>
    <2>1. Target(st) = st.message /\ r = [st EXCEPT !.message = buf]
      BY <1>2 DEF Target, ClientReliableWrite
    <2>2. /\ buf \in SizeBuf /\ buf.data = m \o d
          /\ buf.cursize <= MaxSize
          /\ buf.allowoverflow = st.message.allowoverflow
          /\ buf.overflowed = over /\ SZ_Fails(st.message, size) = FALSE
      <3> DEFINE msg == st.message
      <3>1. /\ buf = SZ_Write(msg, d, size) /\ Fits(msg, size)
            /\ msg \in SizeBuf
        BY <1>1, <2>1
      <3> HIDE DEF buf, msg
      <3>2. /\ buf \in SizeBuf /\ buf.data = msg.data \o d
            /\ buf.cursize <= MaxSize
            /\ SZ_Fails(msg, size) = FALSE
        BY ONLY ZenonT(30), <3>1, d \in Seq(Block), size \in Nat, WriteFits
      <3>3. /\ buf.allowoverflow = msg.allowoverflow
            /\ buf.overflowed = msg.overflowed
        BY ONLY <3>1 DEF SZ_Write, SizeBuf
      <3> QED
        BY <3>2, <3>3 DEF msg
    <2> HIDE DEF buf
    <2>3. r = [message |-> buf, backbufs |-> bufs]
      BY <1>1, <2>1
    <2>4. r.message = buf /\ r.backbufs = bufs
      BY <2>3
    <2>5. Good(r)
      BY <2>2, <2>3, GoodMessage DEF Good
    <2>6. Sound(a, m, << >>, over, w)
      BY <1>2, WaitingNone DEF Keeps
    <2>7. Sound(a, m \o d, << >>, over, Wrote(w, d))
      <3> HIDE DEF m, over
      <3> QED
        BY <1>1, <2>6, SoundWritten
    <2>8. Keeps(a, r, Wrote(w, d))
      BY <1>2, <2>2, <2>4, <2>7, WaitingNone DEF Keeps
    <2> QED
      BY <2>1, <2>2, <2>5, <2>8
  <1>3. CASE bufs # << >>
    <2> DEFINE l == Last(bufs)
               now == over \/ buf.overflowed
    <2>1. /\ Target(st) = l
          /\ r = [message  |-> [st.message EXCEPT !.overflowed = now],
                  backbufs |-> [bufs EXCEPT ![n] = buf]]
      BY <1>1, <1>3 DEF Target, ClientReliableWrite
    <2>2. l \in SizeBuf
      BY <1>1, <1>3, EmptyBufs, WaitingLast
    <2>3. /\ buf \in SizeBuf /\ buf.data = l.data \o d
          /\ buf.cursize <= MaxSize /\ SZ_Fails(l, size) = FALSE
      BY <2>1, <2>2, WriteFits
    <2> HIDE DEF buf
    <2>4. l.data \in Seq(Block)
      BY <2>2, BufTypes
    <2>5. Tidy(buf)
      <3>1. Dropless(l.data)
        <4>1. n \in 1 .. n
          BY <1>1, <1>3
        <4> QED
          BY <4>1 DEF Good, Tidy, Last
      <3>2. Dropless(l.data \o d)
        <4> DEFINE ld == l.data
        <4>1. ld \in Seq(Block) /\ Dropless(ld)
          BY <2>4, <3>1
        <4> HIDE DEF ld
        <4>2. Dropless(ld \o d)
          BY <4>1, DroplessConcat
        <4> QED
          BY <4>2 DEF ld
      <3> QED
        BY <2>3, <3>2 DEF Tidy
    <2>6. now \in BOOLEAN
      OBVIOUS
    <2>7. Good(r) /\ r.message.data = m /\ r.message.overflowed = now
      <3>1. r = WithLast(st, buf, now)
        BY <2>1 DEF WithLast
      <3> HIDE DEF now
      <3>2. st.backbufs # << >> /\ buf \in SizeBuf
        BY <1>3, <2>3
      <3>3. /\ Good(r) /\ r.message.data = st.message.data
            /\ r.message.overflowed = now
        BY ONLY Good(st), <2>5, <2>6, <3>1, <3>2, GoodLast
      <3> QED
        BY <3>3
    <2>8. r.backbufs = [bufs EXCEPT ![n] = buf]
      BY <2>1
    <2>9. Waiting(r.backbufs) = Waiting(bufs) \o d
      <3> DEFINE f == Waiting(Front(bufs))
                 ld == l.data
      <3>1. /\ Waiting(bufs) = f \o ld /\ Waiting(r.backbufs) = f \o buf.data
            /\ Front(bufs) \in Seq(SizeBuf)
        BY <1>1, <1>3, <2>3, <2>8, WaitingLast
      <3>2. f \in Seq(Block) /\ ld \in Seq(Block)
        BY <2>4, <3>1, WaitingType
      <3>3. buf.data = ld \o d
        BY <2>3
      <3> HIDE DEF f, ld
      <3>4. f \o (ld \o d) = (f \o ld) \o d
        BY SMTT(30), <3>2, BlocksAssociative
      <3> QED
        BY <3>1, <3>3, <3>4
    <2>10. Sound(a, m, Waiting(bufs) \o d, over, Wrote(w, d))
      <3> DEFINE j == Waiting(bufs)
      <3>1. j \in Seq(Block) /\ Sound(a, m, j, over, w)
        BY <1>1 DEF Keeps
      <3> HIDE DEF m, over, j
      <3>2. Sound(a, m, j \o d, over, Wrote(w, d))
        BY <1>1, <3>1, SoundSaved
      <3> QED
        BY <3>2 DEF j
    <2>11. Sound(a, m, Waiting(bufs) \o d, now, Wrote(w, d))
      <3>1. CASE now
        BY ONLY <2>10, <3>1 DEF Sound
      <3>2. CASE ~now
        <4>1. now = over
          BY <1>1, <2>6, <3>2
        <4> QED
          BY <2>10, <4>1
      <3> QED
        BY <3>1, <3>2
    <2>12. Keeps(a, r, Wrote(w, d))
      BY <2>7, <2>9, <2>11 DEF Keeps
    <2> QED
      BY <2>1, <2>3, <2>7, <2>12
  <1> QED
    BY <1>2, <1>3

(* A block that an empty buffer could not hold ends the server.            *)
LEMMA TooLarge ==
    ASSUME NEW buf \in SizeBuf, NEW size \in Nat, size > MaxSize
    PROVE  SZ_Fails(buf, size)
  <1>1. buf.cursize \in Nat
    BY BufTypes
  <1>2. ~Fits(buf, size)
    BY <1>1, MaxSizeAssumption DEF Fits
  <1> QED
    BY <1>2 DEF SZ_Fails

LEMMA TargetType ==
    ASSUME NEW st, st \in Area
    PROVE  Target(st) \in SizeBuf /\ Target(st).cursize \in Nat
  <1>1. st.message \in SizeBuf /\ st.backbufs \in Seq(SizeBuf)
    BY DEF Area
  <1>2. Target(st) \in SizeBuf
    <2>1. CASE st.backbufs = << >>
      BY <1>1, <2>1 DEF Target
    <2>2. CASE st.backbufs # << >>
      BY <1>1, <2>2, EmptyBufs, WaitingLast DEF Target
    <2> QED
      BY <2>1, <2>2
  <1> QED
    BY <1>2, BufTypes

LEMMA CheckBlockType ==
    ASSUME NEW st, Good(st), NEW announced
    PROVE  ClientReliableCheckBlock(st, announced) \in Area
  <1> DEFINE r == ClientReliableCheckBlock(st, announced)
             bufs == st.backbufs
             l == Last(bufs)
  <1>1. /\ bufs \in Seq(SizeBuf) /\ st.message \in SizeBuf
        /\ st = [message |-> st.message, backbufs |-> bufs] /\ st \in Area
    BY GoodParts DEF Good
  <1>2. CASE r = st
    BY <1>1, <1>2
  <1>3. CASE bufs # << >> /\ r = OutOfBackbufs(st)
    <2> DEFINE buf == [l EXCEPT !.data = << >>, !.cursize = 0]
               msg == [st.message EXCEPT !.overflowed = TRUE]
               new == [bufs EXCEPT ![Len(bufs)] = buf]
    <2>1. l \in SizeBuf
      BY <1>1, <1>3, EmptyBufs, WaitingLast
    <2>2. buf \in SizeBuf
      <3>1. << >> \in Seq(Block)
        BY EmptyBufs
      <3> HIDE DEF l
      <3> QED
        BY <2>1, <3>1 DEF SizeBuf
    <2>3. msg \in SizeBuf
      BY <1>1 DEF SizeBuf
    <2>4. r = [message |-> msg, backbufs |-> new]
      BY <1>3 DEF OutOfBackbufs, Last
    <2> HIDE DEF buf
    <2>5. new \in Seq(SizeBuf)
      BY <1>1, <1>3, <2>2, WaitingLast
    <2> HIDE DEF msg, new, r
    <2> QED
      BY <2>3, <2>4, <2>5 DEF Area, r
  <1>4. CASE r = [st EXCEPT !.backbufs = Append(@, EmptyBuf)]
    <2> DEFINE new == Append(bufs, EmptyBuf)
    <2>1. new \in Seq(SizeBuf)
      BY <1>1, EmptyBufs
    <2>2. r = [st EXCEPT !.backbufs = new]
      BY <1>4
    <2> HIDE DEF new, bufs, r
    <2>3. r \in Area
      BY <1>1, <2>1, <2>2 DEF Area
    <2> QED
      BY <2>3 DEF r
  <1>5. NoneLeft(st) => bufs # << >>
    BY <1>1, MaxBackAssumption DEF NoneLeft
  <1> QED
    BY <1>2, <1>3, <1>4, <1>5 DEF ClientReliableCheckBlock

(* So does a reliable write as callers make it: announced, then written.   *)
LEMMA WriteKeeps ==
    ASSUME NEW st, Good(st), NEW block \in Block, block.via # "drop",
           NEW announced \in Nat, NEW size \in 0 .. announced
    PROVE  /\ WriteFails(st, announced, size) <=> size > MaxSize
           /\ \A a \in Seq(Block), w \in Ledger :
                 (size <= MaxSize /\ Keeps(a, st, w) /\ Later(<<block>>, w))
                 => /\ Good(Write(st, block, announced, size))
                    /\ Keeps(a, Write(st, block, announced, size),
                             Wrote(w, <<block>>))
  <1> DEFINE c == ClientReliableCheckBlock(st, announced)
             d == <<block>>
             r == Write(st, block, announced, size)
  <1>1. size \in Nat /\ size <= announced
    OBVIOUS
  <1>2. d \in Seq(Block) /\ Dropless(d)
    <2>1. d \in Seq(Block) /\ DOMAIN d = {1} /\ d[1] = block
      OBVIOUS
    <2> QED
      BY <2>1 DEF Dropless
  <1>3. r = ClientReliableWrite(c, d, size)
    BY DEF Write
  <1>4. WriteFails(st, announced, size) = SZ_Fails(Target(c), size)
    BY DEF WriteFails
  <1>5. c \in Area /\ Target(c) \in SizeBuf
    BY CheckBlockType, TargetType
  <1>6. size > MaxSize => WriteFails(st, announced, size)
    BY <1>1, <1>4, <1>5, TooLarge
  <1>7. ASSUME NEW a \in Seq(Block), NEW w \in Ledger, size <= MaxSize,
               Keeps(a, st, w)
        PROVE  Good(c) /\ Fits(Target(c), size) /\ Keeps(a, c, w)
    BY <1>7, CheckBlockKeeps
  <1>8. size <= MaxSize => ~WriteFails(st, announced, size)
    <2> SUFFICES ASSUME size <= MaxSize PROVE ~SZ_Fails(Target(c), size)
      BY <1>4
    <2>1. \E w \in Ledger : Keeps(<< >>, st, w)
      BY KeepsSomething
    <2>2. << >> \in Seq(Block)
      BY EmptyBufs
    <2>3. Fits(Target(c), size)
      BY <1>7, <2>1, <2>2
    <2> QED
      BY <2>3 DEF SZ_Fails
  <1> HIDE DEF c, d, r
  <1>9. ASSUME NEW a \in Seq(Block), NEW w \in Ledger, size <= MaxSize,
               Keeps(a, st, w), Later(d, w)
        PROVE  Good(r) /\ Keeps(a, r, Wrote(w, d))
    <2>1. Good(c) /\ Fits(Target(c), size) /\ Keeps(a, c, w)
      BY <1>7, <1>9
    <2> QED
      BY <1>1, <1>2, <1>3, <1>9, <2>1, ReliableWriteKeeps
  <1>10. size <= MaxSize \/ size > MaxSize
    BY <1>1, MaxSizeAssumption
  <1>11. ~(size <= MaxSize /\ size > MaxSize)
    BY <1>1, MaxSizeAssumption
  <1> QED
    BY <1>6, <1>8, <1>9, <1>10, <1>11 DEF d, r

(* Neither of the stream nor its end.                                      *)
Aside(d) ==
    /\ d \in Seq(Block) /\ Dropless(d)
    /\ Numbers(d) = {} /\ InOrder(d)

LEMMA AsideWrote ==
    ASSUME NEW d, Aside(d), NEW w \in Ledger
    PROVE  Later(d, w) /\ Wrote(w, d) = w
  BY WroteNothing DEF Aside, Later

(* The notice of an overflow is not part of the stream.                    *)
LEMMA NoticeBlock ==
    /\ Notice \in Block /\ Notice.via # "drop" /\ Aside(<<Notice>>)
    /\ Aside(<< >>)
  <1>1. Notice \in Block /\ Notice.via = "notice"
    BY DEF Notice, Block
  <1> DEFINE d == <<Notice>>
  <1>2. d \in Seq(Block) /\ DOMAIN d = {1} /\ d[1] = Notice
    BY <1>1
  <1>3. Numbers(d) = {} /\ InOrder(d)
    BY <1>1, NumbersOfOne
  <1> HIDE DEF d
  <1>4. Dropless(d)
    BY <1>1, <1>2 DEF Dropless
  <1>5. Aside(d)
    BY <1>2, <1>3, <1>4 DEF Aside
  <1>6. Aside(<< >>)
    BY EmptyBufs, NumbersNone DEF Aside
  <1> QED
    BY <1>1, <1>5, <1>6 DEF d

WithMessage(st, msg) == [message |-> msg, backbufs |-> st.backbufs]

(* What is written straight to the message either fits or makes it         *)
(* overflow; in both cases the server lives on.                            *)
LEMMA DirectKeeps ==
    ASSUME NEW st, Good(st), NEW d, Aside(d), NEW size \in Nat,
           size <= MaxSize,
           NEW msg, msg = SZ_Write(st.message, d, size),
           NEW r, r = WithMessage(st, msg),
           NEW a \in Seq(Block), NEW w \in Ledger, Keeps(a, st, w)
    PROVE  Good(r) /\ Keeps(a, r, w) /\ ~SZ_Fails(st.message, size)
  <1> DEFINE old == st.message
             j == Waiting(st.backbufs)
             m == old.data
  <1>1. /\ old \in SizeBuf /\ old.allowoverflow /\ old.cursize <= MaxSize
        /\ j \in Seq(Block) /\ m \in Seq(Block) /\ old.overflowed \in BOOLEAN
    BY GoodParts DEF Good
  <1>2. /\ d \in Seq(Block) /\ Dropless(d) /\ Numbers(d) = {}
        /\ InOrder(d)
    BY DEF Aside
  <1>3. size \in Nat /\ size <= MaxSize
    BY MaxSizeAssumption
  <1>4. Sound(a, m, j, old.overflowed, w)
    BY DEF Keeps
  <1>5. r.message = msg /\ r.backbufs = st.backbufs
        /\ r = [message |-> msg, backbufs |-> st.backbufs]
    BY DEF WithMessage
  <1>6. msg = SZ_Write(old, d, size)
    OBVIOUS
  <1>7. CASE Fits(old, size)
    <2>1. /\ msg \in SizeBuf /\ msg.data = m \o d /\ msg.cursize <= MaxSize
          /\ ~SZ_Fails(old, size)
      <3>1. old \in SizeBuf
        BY <1>1
      <3> HIDE DEF old
      <3>2. /\ msg \in SizeBuf /\ msg.data = old.data \o d
            /\ msg.cursize <= MaxSize /\ ~SZ_Fails(old, size)
        BY ONLY ZenonT(30), <1>2, <1>3, <1>6, <1>7, <3>1, WriteFits
      <3> QED
        BY <3>2
    <2>2. msg.allowoverflow = old.allowoverflow
          /\ msg.overflowed = old.overflowed
      <3> HIDE DEF old
      <3> QED
        BY <1>2, <1>1, <1>6, <1>7 DEF SZ_Write, SizeBuf
    <2>3. Good(r)
      BY <1>1, <1>5, <2>1, <2>2, GoodMessage
    <2>4. Sound(a, m \o d, j, old.overflowed, w)
      <3> HIDE DEF m, j, old
      <3>1. /\ Numbers(j) = Numbers(d) \cup Numbers(j)
            /\ InOrder(j) => InOrder(d \o j)
        BY <1>1, <1>2, InOrderConcat
      <3> QED
        BY <1>2, <1>1, <1>4, <3>1, SoundMoved
    <2>5. Keeps(a, r, w)
      BY <1>5, <2>1, <2>2, <2>4 DEF Keeps
    <2> QED
      BY <2>1, <2>3, <2>5
  <1>8. CASE ~Fits(old, size)
    <2>1. /\ msg \in SizeBuf /\ msg.cursize = size /\ msg.data = d
          /\ msg.allowoverflow = old.allowoverflow /\ msg.overflowed = TRUE
      <3> HIDE DEF old
      <3> QED
        BY <1>2, <1>1, <1>3, <1>6, <1>8 DEF SZ_Write, SizeBuf
    <2>2. Good(r)
      BY <1>1, <1>3, <1>5, <2>1, GoodMessage
    <2>3. Keeps(a, r, w)
      BY <1>2, <1>4, <1>5, <2>1 DEF Keeps, Sound
    <2>4. ~SZ_Fails(old, size)
      <3>1. ~(size > MaxSize)
        BY <1>3, MaxSizeAssumption
      <3> HIDE DEF old
      <3> QED
        BY <1>1, <3>1 DEF SZ_Fails
    <2> QED
      BY <2>2, <2>3, <2>4
  <1> QED
    BY <1>7, <1>8

(* The disconnect goes behind what the message holds, or replaces it.      *)
LEMMA DisconnectGood ==
    ASSUME NEW st, Good(st), NEW r, r = WithDisconnect(st)
    PROVE  /\ Good(r)
           /\ r.backbufs = st.backbufs
           /\ \/ /\ r.message.overflowed = st.message.overflowed
                 /\ r.message.data = st.message.data \o <<Disconnect>>
              \/ /\ r.message.overflowed = TRUE
                 /\ r.message.data = <<Disconnect>>
  <1> DEFINE old == st.message
             d == <<Disconnect>>
             msg == SZ_Write(old, d, 1)
  <1>1. /\ old \in SizeBuf /\ old.allowoverflow /\ old.cursize <= MaxSize
        /\ st = [message |-> old, backbufs |-> st.backbufs]
    BY GoodParts DEF Good
  <1>2. d \in Seq(Block)
    BY DisconnectBlock
  <1>3. r = [st EXCEPT !.message = msg]
    BY DEF WithDisconnect
  <1>4. r = [message |-> msg, backbufs |-> st.backbufs]
    <2> HIDE DEF msg
    <2> QED
      BY <1>1, <1>3
  <1>5. 1 \in Nat /\ 1 <= MaxSize
    BY MaxSizeAssumption
  <1> HIDE DEF old, d
  <1>6. /\ msg \in SizeBuf /\ msg.cursize <= MaxSize
        /\ msg.allowoverflow = old.allowoverflow
        /\ \/ msg.overflowed = old.overflowed /\ msg.data = old.data \o d
           \/ msg.overflowed = TRUE /\ msg.data = d
    <2>1. CASE Fits(old, 1)
      <3>1. msg \in SizeBuf /\ msg.data = old.data \o d
            /\ msg.cursize <= MaxSize
        BY <1>1, <1>2, <1>5, <2>1, WriteFits
      <3>2. msg.allowoverflow = old.allowoverflow
            /\ msg.overflowed = old.overflowed
        BY <1>1, <2>1 DEF SZ_Write, SizeBuf
      <3> QED
        BY <3>1, <3>2
    <2>2. CASE ~Fits(old, 1)
      BY <1>1, <1>2, <1>5, <2>2 DEF SZ_Write, SizeBuf
    <2> QED
      BY <2>1, <2>2
  <1> HIDE DEF msg
  <1>7. Good(r)
    BY <1>1, <1>4, <1>6, GoodMessage
  <1>8. r.message = msg /\ r.backbufs = st.backbufs
    BY <1>4
  <1> QED
    BY <1>6, <1>7, <1>8 DEF old, d

LEMMA DisconnectKeeps ==
    ASSUME NEW st, Good(st), NEW r, r = WithDisconnect(st),
           NEW a \in Seq(Block), NEW w \in Ledger, Keeps(a, st, w)
    PROVE  Good(r) /\ Keeps(a, r, w)
  <1> DEFINE m == st.message.data
             j == Waiting(st.backbufs)
             over == st.message.overflowed
  <1>1. m \in Seq(Block) /\ j \in Seq(Block) /\ over \in BOOLEAN
    BY GoodParts
  <1>2. Sound(a, m, j, over, w)
    BY DEF Keeps
  <1>3. CASE r.message.overflowed = TRUE /\ r.message.data = <<Disconnect>>
    <2>1. Keeps(a, r, w)
      BY <1>2, <1>3, DisconnectGood, DisconnectBlock DEF Keeps, Sound
    <2> QED
      BY <2>1, DisconnectGood
  <1>4. CASE /\ r.message.overflowed = over
             /\ r.message.data = m \o <<Disconnect>>
    <2>1. Sound(a, m \o <<Disconnect>>, j, over, w)
      <3> HIDE DEF m, j, over
      <3> QED
        BY <1>1, <1>2, SoundDropped
    <2>2. Keeps(a, r, w)
      BY <1>4, <2>1, DisconnectGood DEF Keeps
    <2> QED
      BY <2>2, DisconnectGood
  <1> QED
    BY <1>3, <1>4, DisconnectGood

(* The oldest back buffer moves up: see SV_SendClientMessages.             *)
LEMMA MoveKeeps ==
    ASSUME NEW st, Good(st), MovesBackbuf(st), NEW r, r = MoveBackbuf(st),
           NEW a \in Seq(Block), NEW w \in Ledger, Keeps(a, st, w)
    PROVE  Good(r) /\ Keeps(a, r, w)
  <1> DEFINE bufs == st.backbufs
             old == st.message
             m == old.data
             over == old.overflowed
             h == Head(bufs)
             rest == Tail(bufs)
             n == Len(rest)
             d == h.data
             size == h.cursize
             msg == SZ_Write(old, d, size)
             new == [i \in DOMAIN rest |->
                        IF i < n THEN rest[i]
                        ELSE [rest[i] EXCEPT !.allowoverflow = FALSE,
                                             !.overflowed = FALSE]]
  <1>1. /\ old \in SizeBuf /\ bufs \in Seq(SizeBuf) /\ m \in Seq(Block)
        /\ over \in BOOLEAN /\ bufs # << >>
        /\ old.allowoverflow /\ old.cursize <= MaxSize
        /\ Len(bufs) <= MAX_BACK_BUFFERS
        /\ old.cursize + size < MaxSize
    BY GoodParts DEF Good, MovesBackbuf
  <1>2. r = [message |-> msg, backbufs |-> new]
    BY DEF MoveBackbuf
  <1>3. /\ h \in SizeBuf /\ rest \in Seq(SizeBuf) /\ n \in Nat
        /\ Len(bufs) = n + 1 /\ h = bufs[1] /\ DOMAIN rest = 1 .. n
        /\ \A i \in 1 .. n : rest[i] = bufs[i + 1]
    BY <1>1
  <1>4. Tidy(h) /\ \A i \in 1 .. n : Tidy(rest[i])
    <2>1. \A i \in 1 .. n + 1 : Tidy(bufs[i])
      BY <1>3 DEF Good
    <2>2. 1 \in 1 .. n + 1 /\ \A i \in 1 .. n : i + 1 \in 1 .. n + 1
      BY <1>3
    <2> QED
      BY <1>3, <2>1, <2>2
  <1>5. d \in Seq(Block) /\ size \in Nat /\ Dropless(d)
    <2>1. d \in Seq(Block) /\ size \in Nat
      BY <1>3, BufTypes
    <2> QED
      BY <1>4, <2>1 DEF Tidy
  <1>6. /\ new \in Seq(SizeBuf) /\ Len(new) = n
        /\ \A i \in 1 .. n : /\ new[i].data = rest[i].data
                             /\ new[i].cursize = rest[i].cursize
    <2>1. ASSUME NEW i \in 1 .. n
          PROVE  /\ new[i] \in SizeBuf /\ new[i].data = rest[i].data
                 /\ new[i].cursize = rest[i].cursize
      <3>1. rest[i] \in SizeBuf
        BY <1>3
      <3>2. \/ new[i] = rest[i]
            \/ new[i] = [rest[i] EXCEPT !.allowoverflow = FALSE,
                                        !.overflowed = FALSE]
        BY <1>3
      <3> HIDE DEF new, rest
      <3> QED
        BY <3>1, <3>2 DEF SizeBuf
    <2>2. DOMAIN new = 1 .. n /\ new = [i \in 1 .. n |-> new[i]]
      BY <1>3
    <2> HIDE DEF new, rest, n
    <2>3. new \in [1 .. n -> SizeBuf]
      BY <2>1, <2>2
    <2>4. n \in Nat
      BY <1>3
    <2>5. new \in Seq(SizeBuf) /\ Len(new) = n
      BY ONLY <2>3, <2>4
    <2> QED
      BY <2>1, <2>5
  <1> HIDE DEF new
  <1>7. \A i \in 1 .. n : Tidy(new[i])
    BY <1>4, <1>6 DEF Tidy
  <1>8. Waiting(bufs) = d \o Waiting(new) /\ Waiting(new) \in Seq(Block)
    BY <1>1, <1>6, WaitingHead, WaitingType
  <1>9. msg \in SizeBuf /\ msg.data = m \o d /\ msg.cursize <= MaxSize
    <2>1. old.cursize \in Nat
      BY <1>1, BufTypes
    <2>2. Fits(old, size)
      <3> HIDE DEF size, old
      <3> QED
        BY <1>1, <1>5, <2>1, MaxSizeAssumption DEF Fits
    <2> HIDE DEF old, d, size
    <2>3. old \in SizeBuf
      BY <1>1
    <2>4. /\ msg \in SizeBuf /\ msg.data = old.data \o d
          /\ msg.cursize <= MaxSize
      BY ONLY ZenonT(30), <1>5, <2>2, <2>3, WriteFits
    <2> QED
      BY <2>4
  <1>10. msg.allowoverflow = old.allowoverflow /\ msg.overflowed = over
    <2>1. Fits(old, size)
      <3>1. old.cursize \in Nat
        BY <1>1, BufTypes
      <3> HIDE DEF size, old
      <3> QED
        BY <1>1, <1>5, <3>1, MaxSizeAssumption DEF Fits
    <2> HIDE DEF old, d, size
    <2> QED
      BY <1>1, <2>1 DEF SZ_Write, SizeBuf
  <1> HIDE DEF msg
  <1>11. Good(r)
    <2>1. r \in Area /\ r.message = msg /\ r.backbufs = new
      BY ONLY <1>2, <1>6, <1>9 DEF Area
    <2>2. n <= MAX_BACK_BUFFERS
      BY <1>1, <1>3, MaxBackAssumption
    <2>3. msg.allowoverflow
      BY <1>1, <1>10
    <2> QED
      BY <1>6, <1>7, <1>9, <2>1, <2>2, <2>3 DEF Good
  <1>12. Sound(a, m \o d, Waiting(new), over, w)
    <2> DEFINE j == Waiting(new)
               k == Waiting(bufs)
    <2>1. k = d \o j /\ j \in Seq(Block) /\ Sound(a, m, k, over, w)
      BY <1>8 DEF Keeps
    <2> HIDE DEF j, k, d, m, over
    <2>2. k \in Seq(Block) /\ Numbers(k) = Numbers(d) \cup Numbers(j)
      BY SMTT(30), <1>5, <2>1, NumbersConcat
    <2>3. Sound(a, m \o d, j, over, w)
      BY <1>1, <1>5, <2>1, <2>2, SoundMoved
    <2> QED
      BY <2>3 DEF j
  <1>13. Keeps(a, r, w)
    <2>1. r.message = msg /\ r.backbufs = new
      BY ONLY <1>2
    <2> QED
      BY <1>9, <1>10, <1>12, <2>1 DEF Keeps
  <1> QED
    BY <1>11, <1>13

(* What SV_SendClientMessages finds.                                       *)
LEMMA MovedKeeps ==
    ASSUME Good(Staging), NEW a \in Seq(Block), NEW w \in Ledger,
           Keeps(a, Staging, w), NEW st \in Moved
    PROVE  Good(st) /\ Keeps(a, st, w)
  <1>1. PICK u \in Updated :
             st = IF MovesBackbuf(u) THEN MoveBackbuf(u) ELSE u
    BY DEF Moved
  <1>2. Good(u) /\ Keeps(a, u, w)
    <2>1. CASE ~Active
      <3>1. u = Staging
        BY <1>1, <2>1 DEF Updated
      <3> QED
        BY <3>1
    <2>2. CASE Active
      <3> DEFINE c == ClientReliableCheckBlock(Staging, 0)
      <3>1. u = ClientReliableWrite(c, << >>, 0)
        BY <1>1, <2>2 DEF Updated
      <3>2. 0 \in Nat /\ 0 \in 0 .. 0 /\ 0 <= MaxSize
        BY MaxSizeAssumption
      <3>3. Good(c) /\ Fits(Target(c), 0) /\ Keeps(a, c, w)
        BY <3>2, CheckBlockKeeps
      <3> HIDE DEF c
      <3> DEFINE e == << >>
      <3>4. /\ e \in Seq(Block) /\ Dropless(e) /\ Aside(e)
            /\ u = ClientReliableWrite(c, e, 0)
        BY <3>1, EmptyBufs, NumbersNone DEF Aside
      <3> HIDE DEF e
      <3>5. Later(e, w) /\ Wrote(w, e) = w
        BY <3>4, AsideWrote
      <3>6. Good(u) /\ Keeps(a, u, Wrote(w, e))
        BY <3>2, <3>3, <3>4, <3>5, ReliableWriteKeeps
      <3> QED
        BY <3>5, <3>6
    <2> QED
      BY <2>1, <2>2
  <1>3. CASE MovesBackbuf(u)
    BY <1>1, <1>2, <1>3, MoveKeeps
  <1>4. CASE ~MovesBackbuf(u)
    BY <1>1, <1>2, <1>4
  <1> QED
    BY <1>3, <1>4

-----------------------------------------------------------------------------
History == [written |-> written, thrown |-> thrown, forgotten |-> forgotten]

(* The inductive invariant.  StreamIntact alone says nothing of a client   *)
(* whose message has overflowed, and nothing of the message of one that    *)
(* has been dropped; Keeps says what is left of the stream in these cases, *)
(* and Good that the message may always overflow and the others never do.  *)
IInv ==
    /\ state \in {"connected", "spawned", "zombie", "free"}
    /\ reliable_buf \in Seq(Block) /\ received \in Seq(Block)
    /\ writes \in 0 .. MaxWrites /\ written \subseteq 1 .. writes
    /\ thrown \subseteq written /\ forgotten \in BOOLEAN
    /\ sys_error \in Nat /\ (sys_error # 0 => sys_error > MaxSize)
    /\ Good(Staging)
    /\ Keeps(received \o reliable_buf, Staging, History)

LEMMA SizesAreNumbers ==
    ASSUME NEW size \in Sizes PROVE size \in Nat /\ size # 0
  BY SizesAssumption

LEMMA HistoryLedger ==
    ASSUME writes \in 0 .. MaxWrites, written \subseteq 1 .. writes,
           NEW t \in SUBSET written, NEW f \in BOOLEAN,
           NEW w, w = [written |-> written, thrown |-> t, forgotten |-> f]
    PROVE  /\ w \in Ledger /\ w.written = written /\ w.thrown = t
           /\ w.forgotten = f
  <1>1. written \subseteq Nat /\ t \subseteq Nat
    BY MaxWritesAssumption
  <1> QED
    BY <1>1 DEF Ledger

LEMMA HistoryIs ==
    ASSUME IInv
    PROVE  /\ History \in Ledger /\ History.written = written
           /\ History.thrown = thrown /\ History.forgotten = forgotten
  <1>1. thrown \in SUBSET written /\ forgotten \in BOOLEAN
        /\ writes \in 0 .. MaxWrites /\ written \subseteq 1 .. writes
    BY DEF IInv
  <1> QED
    BY <1>1, HistoryLedger DEF History

LEMMA InitInvariant == Init => IInv
  <1> SUFFICES ASSUME Init PROVE IInv
    OBVIOUS
  <1> DEFINE e == << >>
             b == EmptyBuf
             st == [message |-> b, backbufs |-> e]
  <1>1. b \in SizeBuf /\ b.data = e /\ b.cursize = 0
        /\ b.allowoverflow /\ b.overflowed = FALSE
        /\ e \in Seq(Block) /\ e \in Seq(SizeBuf) /\ Len(e) = 0
        /\ e \o e = e
    BY EmptyBufs
  <1>2. Staging = st /\ received = e /\ reliable_buf = e
        /\ written = {} /\ thrown = {} /\ forgotten = FALSE
        /\ writes = 0 /\ sys_error = 0 /\ state = "connected"
    BY DEF Init, Staging
  <1>3. Waiting(e) = e /\ Numbers(e) = {} /\ InOrder(e) /\ Dropless(e)
    BY WaitingNone, NumbersNone, EmptyBufs
  <1>4. /\ History.written = {} /\ History.thrown = {}
        /\ History.forgotten = FALSE
    BY <1>2 DEF History
  <1> HIDE DEF b, e
  <1>5. st \in Area /\ st.message = b /\ st.backbufs = e
    BY <1>1 DEF Area
  <1>6. Good(st)
    BY <1>1, <1>5, MaxSizeAssumption, MaxBackAssumption DEF Good
  <1>7. BeforeDrop(e) = e
    BY <1>1, <1>3, BeforeNoDrop
  <1>8. Sound(e, e, e, FALSE, History)
    BY <1>1, <1>3, <1>4, <1>7 DEF Sound, Closed, Complete, Owed
  <1>9. Keeps(e, st, History)
    BY <1>1, <1>3, <1>5, <1>8 DEF Keeps
  <1>10. 0 \in 0 .. MaxWrites
    BY MaxWritesAssumption
  <1> QED
    BY <1>1, <1>2, <1>6, <1>9, <1>10 DEF IInv

(* Each block is later than those before it.                               *)
LEMMA Fresh ==
    ASSUME writes \in 0 .. MaxWrites, writes < MaxWrites,
           written \subseteq 1 .. writes, NEW w \in Ledger, w.written = written
    PROVE  /\ NextBlock("stream") \in Block
           /\ NextBlock("stream").via # "drop"
           /\ Later(<<NextBlock("stream")>>, w)
           /\ Wrote(w, <<NextBlock("stream")>>)
                 = [written |-> written \cup {writes + 1},
                    thrown |-> w.thrown, forgotten |-> w.forgotten]
           /\ writes + 1 \in 0 .. MaxWrites
           /\ written \cup {writes + 1} \subseteq 1 .. writes + 1
  <1> DEFINE b == NextBlock("stream")
             d == <<b>>
  <1>1. writes + 1 \in Nat /\ writes + 1 \in 0 .. MaxWrites
        /\ written \cup {writes + 1} \subseteq 1 .. writes + 1
        /\ \A k \in written : k < writes + 1
    BY MaxWritesAssumption
  <1>2. b \in Block /\ b.via = "stream" /\ b.n = writes + 1
    BY <1>1 DEF NextBlock, Block
  <1> HIDE DEF b
  <1>3. d \in Seq(Block) /\ InOrder(d) /\ Numbers(d) = {writes + 1}
    BY <1>2, NumbersOfOne
  <1> HIDE DEF d
  <1>4. Later(d, w)
    BY <1>1, <1>3 DEF Later
  <1>5. Wrote(w, d) = [written |-> written \cup {writes + 1},
                       thrown |-> w.thrown, forgotten |-> w.forgotten]
    <2> DEFINE new == written \cup {writes + 1}
    <2>1. Wrote(w, d) = [w EXCEPT !.written = new]
      BY <1>3 DEF Wrote
    <2> HIDE DEF new
    <2> QED
      BY <2>1 DEF Ledger, new
  <1> QED
    BY <1>1, <1>2, <1>4, <1>5 DEF b, d

LEMMA DirectBlock ==
    ASSUME writes \in 0 .. MaxWrites
    PROVE  Aside(<<NextBlock("direct")>>)
  <1> DEFINE b == NextBlock("direct")
             d == <<b>>
  <1>1. b \in Block /\ b.via = "direct"
    BY MaxWritesAssumption DEF NextBlock, Block
  <1> HIDE DEF b
  <1>2. d \in Seq(Block) /\ DOMAIN d = {1} /\ d[1] = b
    BY <1>1
  <1>3. Numbers(d) = {} /\ InOrder(d)
    BY <1>1, NumbersOfOne
  <1> HIDE DEF d
  <1>4. Dropless(d)
    BY <1>1, <1>2 DEF Dropless
  <1> QED
    BY <1>2, <1>3, <1>4 DEF Aside, b, d

(* What a step leaves in the staging area.                                 *)
LEMMA Staged ==
    ASSUME NEW st, Good(st), Stage(st)
    PROVE  Staging' = st
  <1>1. st = [message |-> st.message, backbufs |-> st.backbufs]
    BY GoodParts
  <1> QED
    BY <1>1 DEF Stage, Staging

(* The server has ended.                                                   *)
LEMMA SysErrorKeeps ==
    ASSUME IInv, NEW size \in Nat, size > MaxSize, Sys_Error(size)
    PROVE  IInv'
  <1> DEFINE a == received \o reliable_buf
  <1>1. /\ sys_error' = size
        /\ UNCHANGED <<state, message, backbufs, reliable_buf, writes,
                       written, thrown, forgotten, received>>
    BY DEF Sys_Error, history
  <1>2. Staging' = Staging /\ History' = History /\ a' = a
    BY <1>1 DEF Staging, History
  <1>3. Good(Staging) /\ Keeps(a, Staging, History)
    BY DEF IInv
  <1> HIDE DEF a
  <1>4. Good(Staging') /\ Keeps(a', Staging', History')
    BY <1>2, <1>3
  <1> QED
    BY <1>1, <1>4 DEF IInv, a

(* A reliable write, after st was made.                                    *)
LEMMA WritesToStep ==
    ASSUME writes \in 0 .. MaxWrites, written \subseteq 1 .. writes,
           NEW st, Good(st), NEW announced \in Sizes,
           NEW size \in 1 .. announced, WritesTo(st, announced, size),
           NEW a \in Seq(Block), NEW w \in Ledger, w.written = written,
           Keeps(a, st, w)
    PROVE  \/ size \in Nat /\ size > MaxSize /\ Sys_Error(size)
           \/ /\ UNCHANGED <<state, reliable_buf, sys_error, received>>
              /\ writes' \in 0 .. MaxWrites /\ written' \subseteq 1 .. writes'
              /\ written \subseteq written'
              /\ Good(Staging')
              /\ Keeps(a, Staging', [written |-> written', thrown |-> w.thrown,
                                     forgotten |-> w.forgotten])
  <1> DEFINE b == NextBlock("stream")
             r == Write(st, b, announced, size)
             v == [written |-> written', thrown |-> w.thrown,
                   forgotten |-> w.forgotten]
  <1>1. announced \in Nat /\ size \in 0 .. announced /\ size \in Nat
    BY SizesAreNumbers
  <1>2. CASE WriteFails(st, announced, size)
    <2>1. Notice \in Block /\ Notice.via # "drop"
      BY NoticeBlock
    <2>2. size > MaxSize
      BY <1>1, <1>2, <2>1, WriteKeeps
    <2>3. Sys_Error(size)
      BY <1>2 DEF WritesTo
    <2> QED
      BY <1>1, <2>2, <2>3
  <1>3. CASE ~WriteFails(st, announced, size)
    <2>1. /\ writes < MaxWrites /\ writes' = writes + 1
          /\ written' = written \cup {writes + 1} /\ Stage(r)
          /\ UNCHANGED <<state, reliable_buf, sys_error, received>>
      BY <1>3 DEF WritesTo, Counted
    <2>2. /\ b \in Block /\ b.via # "drop" /\ Later(<<b>>, w)
          /\ Wrote(w, <<b>>) = v
          /\ writes' \in 0 .. MaxWrites /\ written' \subseteq 1 .. writes'
      BY <2>1, Fresh
    <2> HIDE DEF b, v
    <2>3. size <= MaxSize
      <3>1. ~(size > MaxSize)
        BY <1>1, <1>3, <2>2, WriteKeeps
      <3> QED
        BY <1>1, <3>1, MaxSizeAssumption
    <2>4. Good(r) /\ Keeps(a, r, Wrote(w, <<b>>))
      BY <1>1, <2>2, <2>3, WriteKeeps
    <2> HIDE DEF r
    <2>5. Staging' = r
      BY <2>1, <2>4, Staged
    <2>6. Good(Staging') /\ Keeps(a, Staging', v)
      BY <2>2, <2>4, <2>5
    <2> QED
      BY <2>1, <2>2, <2>6 DEF v
  <1> QED
    BY <1>2, <1>3

LEMMA WriteReliableKeeps ==
    ASSUME IInv, WriteReliable PROVE IInv'
  <1> DEFINE a == received \o reliable_buf
  <1>1. PICK announced \in Sizes : \E size \in 1 .. announced :
           WritesTo(Staging, announced, size) /\ UNCHANGED <<thrown, forgotten>>
    BY DEF WriteReliable
  <1>2. PICK size \in 1 .. announced :
           WritesTo(Staging, announced, size) /\ UNCHANGED <<thrown, forgotten>>
    BY <1>1
  <1>3. /\ writes \in 0 .. MaxWrites /\ written \subseteq 1 .. writes
        /\ a \in Seq(Block) /\ Good(Staging) /\ Keeps(a, Staging, History)
        /\ History \in Ledger /\ History.written = written
        /\ History.thrown = thrown /\ History.forgotten = forgotten
    BY HistoryIs DEF IInv
  <1> HIDE DEF a
  <1>4. CASE size \in Nat /\ size > MaxSize /\ Sys_Error(size)
    BY <1>4, SysErrorKeeps
  <1>5. CASE /\ UNCHANGED <<state, reliable_buf, sys_error, received>>
             /\ writes' \in 0 .. MaxWrites /\ written' \subseteq 1 .. writes'
             /\ written \subseteq written'
             /\ Good(Staging')
             /\ Keeps(a, Staging', [written |-> written', thrown |-> thrown,
                                    forgotten |-> forgotten])
    <2>1. History' = [written |-> written', thrown |-> thrown,
                      forgotten |-> forgotten]
      BY <1>2 DEF History
    <2>2. a' = a
      BY <1>5 DEF a
    <2>3. Keeps(a', Staging', History')
      BY <1>5, <2>1, <2>2
    <2> QED
      BY <1>2, <1>5, <2>3 DEF IInv, a
  <1> QED
    BY <1>2, <1>3, <1>4, <1>5, WritesToStep

(* A write of a login, download or signon command, after st was made.      *)
LEMMA DirectToStep ==
    ASSUME writes \in 0 .. MaxWrites,
           NEW st, Good(st), NEW size \in Sizes, DirectTo(st, size),
           NEW a \in Seq(Block), NEW w \in Ledger, Keeps(a, st, w)
    PROVE  \/ size \in Nat /\ size > MaxSize /\ Sys_Error(size)
           \/ /\ UNCHANGED <<state, reliable_buf, sys_error, written, received>>
              /\ writes' \in 0 .. MaxWrites /\ writes' = writes + 1
              /\ Good(Staging') /\ Keeps(a, Staging', w)
  <1> DEFINE d == <<NextBlock("direct")>>
  <1>1. Aside(d) /\ size \in Nat
    BY DirectBlock, SizesAreNumbers
  <1>2. size > MaxSize \/ size <= MaxSize
    BY <1>1, MaxSizeAssumption
  <1>3. CASE SZ_Fails(st.message, size)
    <2>1. ~(size <= MaxSize)
      <3> HIDE DEF d
      <3> QED
        BY <1>1, <1>3, DirectKeeps
    <2> QED
      BY <1>1, <1>2, <1>3, <2>1 DEF DirectTo
  <1>4. CASE ~SZ_Fails(st.message, size)
    <2>1. /\ writes < MaxWrites /\ writes' = writes + 1
          /\ message' = SZ_Write(st.message, d, size)
          /\ backbufs' = st.backbufs
          /\ UNCHANGED <<state, reliable_buf, sys_error, written, received>>
      BY <1>4 DEF DirectTo, Counted
    <2>2. size <= MaxSize
      <3>1. st.message \in SizeBuf
        BY GoodParts
      <3> QED
        BY <1>1, <1>2, <1>4, <3>1, TooLarge
    <2>3. ASSUME NEW msg, msg = message', NEW r, r = Staging'
          PROVE  Good(r) /\ Keeps(a, r, w)
      <3>1. msg = SZ_Write(st.message, d, size)
        BY <2>1, <2>3
      <3>2. r = WithMessage(st, msg)
        BY <2>1, <2>3 DEF Staging, WithMessage
      <3> HIDE DEF d
      <3> QED
        BY ONLY Good(st), Keeps(a, st, w), a \in Seq(Block), w \in Ledger,
                <1>1, <2>2, <3>1, <3>2, DirectKeeps
    <2>4. Good(Staging') /\ Keeps(a, Staging', w)
      BY <2>3
    <2>5. writes' \in 0 .. MaxWrites
      BY <2>1, MaxWritesAssumption
    <2> QED
      BY <2>1, <2>4, <2>5
  <1> QED
    BY <1>3, <1>4

LEMMA WriteDirectKeeps ==
    ASSUME IInv, WriteDirect PROVE IInv'
  <1> DEFINE a == received \o reliable_buf
  <1>1. PICK size \in Sizes : DirectTo(Staging, size)
    BY DEF WriteDirect
  <1>2. UNCHANGED <<thrown, forgotten>>
    BY DEF WriteDirect
  <1>3. /\ writes \in 0 .. MaxWrites /\ written \subseteq 1 .. writes
        /\ a \in Seq(Block) /\ Good(Staging) /\ Keeps(a, Staging, History)
        /\ History \in Ledger
    BY HistoryIs DEF IInv
  <1> HIDE DEF a
  <1>4. CASE size \in Nat /\ size > MaxSize /\ Sys_Error(size)
    BY <1>4, SysErrorKeeps
  <1>5. CASE /\ UNCHANGED <<state, reliable_buf, sys_error, written, received>>
             /\ writes' \in 0 .. MaxWrites /\ writes' = writes + 1
             /\ Good(Staging') /\ Keeps(a, Staging', History)
    <2>1. History' = History /\ a' = a
      BY <1>2, <1>5 DEF History, a
    <2>2. Keeps(a', Staging', History')
      BY <1>5, <2>1
    <2>3. written' \subseteq 1 .. writes'
      BY <1>3, <1>5, MaxWritesAssumption
    <2> QED
      BY <1>2, <1>5, <2>2, <2>3 DEF IInv, a
  <1> QED
    BY <1>1, <1>3, <1>4, <1>5, DirectToStep

-----------------------------------------------------------------------------
(* A disconnect is the only block that ends the stream.                    *)
LEMMA DropIsDisconnect ==
    ASSUME NEW s \in Seq(Block), ~Dropless(s)
    PROVE  Disconnect \in Range(s)
  <1>1. PICK i \in DOMAIN s : s[i].via = "drop"
    BY DEF Dropless
  <1>2. i \in 1 .. Len(s) /\ s[i] \in Block
    BY <1>1
  <1>3. s[i] = Disconnect
    <2>1. \A b \in Block : b.via = "drop" => b = Disconnect
      BY DEF Block, Notice, Disconnect
    <2> QED
      BY <1>1, <1>2, <2>1
  <1> QED
    BY <1>1, <1>3 DEF Range

(* A cleared message.                                                      *)
LEMMA ClearedGood ==
    ASSUME NEW st, Good(st), NEW r, r = Cleared(st)
    PROVE  Good(r) /\ r.message.data = << >> /\ r.backbufs = st.backbufs
  <1> DEFINE old == st.message
             msg == SZ_Clear(old)
  <1>1. old \in SizeBuf /\ old.allowoverflow
        /\ st = [message |-> old, backbufs |-> st.backbufs]
    BY GoodParts DEF Good
  <1> HIDE DEF old
  <1>2. /\ msg \in SizeBuf /\ msg.data = << >> /\ msg.cursize = 0
        /\ msg.allowoverflow = old.allowoverflow
    <2>1. << >> \in Seq(Block)
      BY EmptyBufs
    <2> QED
      BY <1>1, <2>1 DEF SZ_Clear, SizeBuf
  <1>3. r = [message |-> msg, backbufs |-> st.backbufs]
    <2> HIDE DEF msg
    <2>1. r = [st EXCEPT !.message = msg]
      BY DEF msg, old, Cleared
    <2> QED
      BY <1>1, <2>1
  <1> HIDE DEF msg
  <1>4. Good(r)
    <2>1. msg.cursize <= MaxSize
      BY <1>2, MaxSizeAssumption
    <2>2. msg.allowoverflow
      BY <1>1, <1>2
    <2> QED
      BY <1>2, <1>3, <2>1, <2>2, GoodMessage
  <1>5. r.message = msg /\ r.backbufs = st.backbufs
    BY <1>3
  <1> QED
    BY <1>2, <1>4, <1>5

LEMMA ClearedKeeps ==
    ASSUME NEW st, Good(st), NEW a \in Seq(Block), NEW w \in Ledger,
           NEW v \in Ledger, Keeps(a, st, w), v.written = w.written,
           v.thrown = w.thrown \cup Numbers(st.message.data),
           ~v.forgotten => /\ ~w.forgotten /\ ~st.message.overflowed
                           /\ Dropless(st.message.data),
           NEW r, r = Cleared(st)
    PROVE  Good(r) /\ Keeps(a, r, v)
  <1> DEFINE m == st.message.data
             j == Waiting(st.backbufs)
             over == st.message.overflowed
  <1>1. m \in Seq(Block) /\ j \in Seq(Block)
    BY GoodParts
  <1>2. Good(r) /\ r.message.data = << >> /\ r.backbufs = st.backbufs
    BY ClearedGood
  <1>3. Sound(a, m, j, over, w)
    BY DEF Keeps
  <1>4. /\ v.thrown = w.thrown \cup Numbers(m)
        /\ ~v.forgotten => ~w.forgotten /\ ~over /\ Dropless(m)
    OBVIOUS
  <1> HIDE DEF m, j, over
  <1>5. Sound(a, << >>, j, r.message.overflowed, v)
    BY <1>1, <1>3, <1>4, SoundThrown
  <1> QED
    BY <1>2, <1>5 DEF Keeps, j

(* A signon command that starts over.                                      *)
LEMMA RestartedKeeps ==
    ASSUME NEW st, Good(st), NEW a \in Seq(Block), NEW w \in Ledger,
           NEW v \in Ledger, Keeps(a, st, w), v.written = w.written,
           v.thrown = w.thrown \cup (Numbers(st.message.data)
                                        \cup Numbers(Waiting(st.backbufs))),
           ~v.forgotten => /\ ~w.forgotten /\ ~st.message.overflowed
                           /\ Dropless(st.message.data),
           NEW r, r = Restarted(st)
    PROVE  Good(r) /\ Keeps(a, r, v)
  <1> DEFINE e == << >>
             s == [message |-> st.message, backbufs |-> e]
             m == st.message.data
             j == Waiting(st.backbufs)
             over == st.message.overflowed
  <1>1. st.message \in SizeBuf /\ st.message.allowoverflow
        /\ st.message.cursize <= MaxSize
    BY GoodParts DEF Good
  <1>2. e \in Seq(SizeBuf) /\ Len(e) = 0 /\ e = << >>
    OBVIOUS
  <1> HIDE DEF e
  <1>3. s \in Area /\ s.message = st.message /\ s.backbufs = e
    BY <1>1, <1>2 DEF Area
  <1>4. Good(s)
    BY <1>1, <1>2, <1>3, MaxBackAssumption DEF Good
  <1>5. r = Cleared(s)
    BY <1>2 DEF Restarted, Cleared
  <1>6. Good(r) /\ r.message.data = << >> /\ r.backbufs = << >>
    BY <1>2, <1>3, <1>4, <1>5, ClearedGood
  <1>7. m \in Seq(Block) /\ j \in Seq(Block) /\ Sound(a, m, j, over, w)
    BY GoodParts DEF Keeps
  <1>8. /\ v.thrown = w.thrown \cup (Numbers(m) \cup Numbers(j))
        /\ ~v.forgotten => ~w.forgotten /\ ~over /\ Dropless(m)
    OBVIOUS
  <1> HIDE DEF m, j, over, s
  <1>9. Sound(a, << >>, << >>, r.message.overflowed, v)
    BY <1>7, <1>8, EmptyBufs, SoundThrown
  <1> QED
    BY <1>6, <1>9, WaitingNone DEF Keeps

(* What the history is after Throws.                                       *)
Forgets == \/ forgotten \/ message.overflowed
           \/ Disconnect \in Range(message.data)

LEMMA ThrowsLedger ==
    ASSUME IInv, NEW blocks, Numbers(blocks) \subseteq written,
           NEW v, v = [written |-> written,
                       thrown |-> thrown \cup Numbers(blocks),
                       forgotten |-> Forgets]
    PROVE  /\ v \in Ledger /\ v.written = written
           /\ v.thrown = thrown \cup Numbers(blocks) /\ v.forgotten = Forgets
           /\ Forgets \in BOOLEAN
           /\ thrown \cup Numbers(blocks) \subseteq written
           /\ ~v.forgotten => /\ ~History.forgotten
                              /\ ~Staging.message.overflowed
                              /\ Dropless(Staging.message.data)
  <1>1. Staging.message = message /\ message.data \in Seq(Block)
        /\ message.overflowed \in BOOLEAN
    BY GoodParts DEF IInv, Staging
  <1>2. Forgets \in BOOLEAN
    BY <1>1 DEF Forgets, IInv
  <1>3. thrown \cup Numbers(blocks) \in SUBSET written
        /\ writes \in 0 .. MaxWrites /\ written \subseteq 1 .. writes
    BY DEF IInv
  <1>4. /\ v \in Ledger /\ v.written = written
        /\ v.thrown = thrown \cup Numbers(blocks) /\ v.forgotten = Forgets
    BY <1>2, <1>3, HistoryLedger
  <1>5. ~Forgets => /\ ~forgotten /\ ~message.overflowed
                    /\ Dropless(message.data)
    BY <1>1, DropIsDisconnect DEF Forgets
  <1>6. History.forgotten = forgotten
    BY HistoryIs
  <1> QED
    BY <1>1, <1>2, <1>3, <1>4, <1>5, <1>6

LEMMA StagedNumbers ==
    ASSUME IInv
    PROVE  /\ Saved = Waiting(Staging.backbufs) /\ Saved \in Seq(Block)
           /\ message.data = Staging.message.data
           /\ message.data \in Seq(Block)
           /\ Numbers(message.data) \subseteq written
           /\ Numbers(Saved) \subseteq written
  <1>1. Saved = Waiting(Staging.backbufs) /\ Staging.message = message
    BY DEF Saved, Waiting, Staging
  <1>2. Good(Staging) /\ Keeps(received \o reliable_buf, Staging, History)
    BY DEF IInv
  <1>3. message.data \in Seq(Block) /\ Saved \in Seq(Block)
    BY <1>1, <1>2, GoodParts
  <1>4. Numbers(message.data) \subseteq written
        /\ Numbers(Saved) \subseteq written
    BY <1>1, <1>2, HistoryIs DEF Keeps, Sound
  <1> QED
    BY <1>1, <1>3, <1>4

LEMMA SignonKeeps ==
    ASSUME IInv, NEW otherLevel \in BOOLEAN, Signon(otherLevel)
    PROVE  IInv'
  <1> DEFINE a == received \o reliable_buf
             restarts == otherLevel \/ backbufs # << >>
             st == IF restarts THEN Restarted(Staging) ELSE Staging
             blocks == message.data \o Saved
             v == [written |-> written, thrown |-> thrown \cup Numbers(blocks),
                   forgotten |-> Forgets]
             w == IF restarts THEN v ELSE History
  <1>1. PICK size \in Sizes : DirectTo(st, size)
    BY DEF Signon
  <1>2. /\ sys_error = 0
        /\ IF restarts /\ sys_error' = 0 THEN Throws(blocks)
           ELSE UNCHANGED <<thrown, forgotten>>
    BY DEF Signon, Running
  <1>3. /\ writes \in 0 .. MaxWrites /\ written \subseteq 1 .. writes
        /\ a \in Seq(Block) /\ Good(Staging) /\ Keeps(a, Staging, History)
        /\ History \in Ledger /\ History.written = written
        /\ History.thrown = thrown
    BY HistoryIs DEF IInv
  <1>4. Numbers(blocks) = Numbers(Staging.message.data)
                             \cup Numbers(Waiting(Staging.backbufs))
        /\ Numbers(blocks) \subseteq written
    BY StagedNumbers, NumbersConcat
  <1>5. /\ v \in Ledger /\ v.written = written
        /\ v.thrown = thrown \cup Numbers(blocks)
        /\ Forgets \in BOOLEAN
        /\ thrown \cup Numbers(blocks) \subseteq written
        /\ ~v.forgotten => /\ ~History.forgotten
                           /\ ~Staging.message.overflowed
                           /\ Dropless(Staging.message.data)
    <2> HIDE DEF blocks, v
    <2> QED
      BY <1>4, ThrowsLedger DEF v
  <1> HIDE DEF a, blocks, restarts, v
  <1>6. Good(st) /\ Keeps(a, st, w) /\ w \in Ledger
    <2>1. CASE restarts
      <3>1. st = Restarted(Staging) /\ w = v
        BY <2>1
      <3> HIDE DEF st, w
      <3>2. v.written = History.written
            /\ v.thrown = History.thrown \cup
                             (Numbers(Staging.message.data)
                                \cup Numbers(Waiting(Staging.backbufs)))
        BY <1>3, <1>4, <1>5
      <3> QED
        BY <1>3, <1>5, <3>1, <3>2, RestartedKeeps
    <2>2. CASE ~restarts
      BY <1>3, <2>2
    <2> QED
      BY <2>1, <2>2
  <1> HIDE DEF st, w
  <1>7. CASE size \in Nat /\ size > MaxSize /\ Sys_Error(size)
    BY <1>7, SysErrorKeeps
  <1>8. CASE /\ UNCHANGED <<state, reliable_buf, sys_error, written, received>>
             /\ writes' \in 0 .. MaxWrites /\ writes' = writes + 1
             /\ Good(Staging') /\ Keeps(a, Staging', w)
    <2>1. a' = a
      BY <1>8 DEF a
    <2>2. /\ History' = w /\ thrown' \subseteq written'
          /\ forgotten' \in BOOLEAN
      <3>1. CASE restarts
        <4>1. thrown' = thrown \cup Numbers(blocks) /\ forgotten' = Forgets
          BY <1>2, <1>8, <3>1 DEF Throws, Forgets
        <4> QED
          BY <1>5, <1>8, <3>1, <4>1 DEF History, v, w
      <3>2. CASE ~restarts
        <4>1. thrown' = thrown /\ forgotten' = forgotten
          BY <1>2, <3>2
        <4> QED
          BY <1>8, <3>2, <4>1 DEF History, w, IInv
      <3> QED
        BY <3>1, <3>2
    <2>3. Keeps(a', Staging', History')
      BY <1>8, <2>1, <2>2
    <2>4. written' \subseteq 1 .. writes'
      BY <1>3, <1>8, MaxWritesAssumption
    <2> QED
      BY <1>8, <2>2, <2>3, <2>4 DEF IInv, a
  <1> QED
    BY <1>1, <1>3, <1>6, <1>7, <1>8, DirectToStep

LEMMA CmdSpawnKeeps ==
    ASSUME IInv, Cmd_Spawn PROVE IInv'
  <1> DEFINE a == received \o reliable_buf
             st == Cleared(Staging)
             blocks == message.data
             v == [written |-> written, thrown |-> thrown \cup Numbers(blocks),
                   forgotten |-> Forgets]
  <1>1. PICK announced \in Sizes : \E size \in 1 .. announced :
           WritesTo(st, announced, size)
    BY DEF Cmd_Spawn
  <1>2. PICK size \in 1 .. announced : WritesTo(st, announced, size)
    BY <1>1
  <1>3. /\ sys_error = 0
        /\ IF sys_error' = 0 THEN Throws(blocks)
           ELSE UNCHANGED <<thrown, forgotten>>
    BY DEF Cmd_Spawn, Running
  <1>4. /\ writes \in 0 .. MaxWrites /\ written \subseteq 1 .. writes
        /\ a \in Seq(Block) /\ Good(Staging) /\ Keeps(a, Staging, History)
        /\ History \in Ledger /\ History.written = written
        /\ History.thrown = thrown
    BY HistoryIs DEF IInv
  <1>5. blocks = Staging.message.data /\ Numbers(blocks) \subseteq written
    BY StagedNumbers
  <1>6. /\ v \in Ledger /\ v.written = written
        /\ v.thrown = thrown \cup Numbers(blocks) /\ v.forgotten = Forgets
        /\ Forgets \in BOOLEAN
        /\ thrown \cup Numbers(blocks) \subseteq written
        /\ ~v.forgotten => /\ ~History.forgotten
                           /\ ~Staging.message.overflowed
                           /\ Dropless(Staging.message.data)
    <2> HIDE DEF blocks, v
    <2> QED
      BY <1>5, ThrowsLedger DEF v
  <1> HIDE DEF a, blocks, v, st
  <1>7. Good(st) /\ Keeps(a, st, v)
    <2>1. v.written = History.written
          /\ v.thrown = History.thrown \cup Numbers(Staging.message.data)
      BY <1>4, <1>5, <1>6
    <2> QED
      BY <1>4, <1>6, <2>1, ClearedKeeps DEF st
  <1>8. CASE size \in Nat /\ size > MaxSize /\ Sys_Error(size)
    BY <1>8, SysErrorKeeps
  <1>9. CASE /\ UNCHANGED <<state, reliable_buf, sys_error, received>>
             /\ writes' \in 0 .. MaxWrites /\ written' \subseteq 1 .. writes'
             /\ written \subseteq written'
             /\ Good(Staging')
             /\ Keeps(a, Staging', [written |-> written', thrown |-> v.thrown,
                                    forgotten |-> v.forgotten])
    <2>1. thrown' = thrown \cup Numbers(blocks) /\ forgotten' = Forgets
      BY <1>3, <1>9 DEF Throws, Forgets
    <2>2. History' = [written |-> written', thrown |-> v.thrown,
                      forgotten |-> v.forgotten]
      BY <1>6, <2>1 DEF History
    <2>3. a' = a
      BY <1>9 DEF a
    <2>4. Keeps(a', Staging', History')
      BY <1>9, <2>2, <2>3
    <2> QED
      BY <1>6, <1>9, <2>1, <2>4 DEF IInv, a
  <1> QED
    BY <1>2, <1>4, <1>6, <1>7, <1>8, <1>9, WritesToStep

(* Netchan_Transmit takes the message or leaves it.                        *)
LEMMA TransmitKeeps ==
    ASSUME received \in Seq(Block), reliable_buf \in Seq(Block),
           NEW st, Good(st), Netchan_Transmit(st), received' = received,
           NEW w \in Ledger, Keeps(received \o reliable_buf, st, w)
    PROVE  /\ Good(Staging') /\ reliable_buf' \in Seq(Block)
           /\ Keeps((received \o reliable_buf)', Staging', w)
  <1> DEFINE buf == st.message
             e == << >>
             sent == [buf EXCEPT !.data = e, !.cursize = 0]
             m == buf.data
             j == Waiting(st.backbufs)
             r == Staging'
             sends == /\ reliable_buf = << >> /\ buf.cursize > 0
                      /\ ~OverflowDrops(buf)
  <1>1. /\ backbufs' = st.backbufs
        /\ sends => reliable_buf' = buf.data /\ message' = sent
        /\ ~sends => reliable_buf' = reliable_buf /\ message' = buf
    BY DEF Netchan_Transmit
  <1>2. /\ buf \in SizeBuf /\ buf.allowoverflow /\ buf.cursize <= MaxSize
        /\ m \in Seq(Block) /\ j \in Seq(Block)
        /\ st = [message |-> buf, backbufs |-> st.backbufs]
    BY GoodParts DEF Good
  <1>3. CASE sends
    <2>1. /\ reliable_buf' = m /\ message' = sent /\ reliable_buf = << >>
          /\ ~buf.overflowed
      BY <1>1, <1>3 DEF OverflowDrops
    <2>2. /\ sent \in SizeBuf /\ sent.data = e /\ sent.cursize = 0
          /\ sent.allowoverflow = buf.allowoverflow
          /\ sent.overflowed = buf.overflowed
      <3>1. e \in Seq(Block)
        BY EmptyBufs
      <3> HIDE DEF e, buf
      <3> QED
        BY <1>2, <3>1 DEF SizeBuf
    <2>3. r = [message |-> sent, backbufs |-> st.backbufs]
      BY <1>1, <2>1 DEF Staging
    <2> HIDE DEF sent, r, buf
    <2>4. Good(r) /\ r.message = sent /\ r.backbufs = st.backbufs
      <3>1. sent.cursize <= MaxSize
        BY <2>2, MaxSizeAssumption
      <3>2. sent.allowoverflow
        BY <1>2, <2>2
      <3>3. Good(r)
        BY <2>2, <2>3, <3>1, <3>2, GoodMessage
      <3> QED
        BY <2>3, <3>3
    <2>5. received \o << >> = received
      OBVIOUS
    <2>6. Sound(received, m, j, buf.overflowed, w)
      BY <2>1, <2>5 DEF Keeps, buf
    <2>7. Sound(received \o m, << >>, j, buf.overflowed, w)
      <3> HIDE DEF m, j
      <3> QED
        BY <1>2, <2>1, <2>6, SoundSent
    <2>8. Keeps(received \o m, r, w)
      BY <2>2, <2>4, <2>7 DEF Keeps
    <2>9. (received \o reliable_buf)' = received \o m
      BY <2>1
    <2> QED
      BY <1>2, <2>1, <2>4, <2>8, <2>9 DEF r
  <1>4. CASE ~sends
    <2>1. reliable_buf' = reliable_buf /\ message' = buf
      BY <1>1, <1>4
    <2>2. r = [message |-> buf, backbufs |-> st.backbufs]
      BY <1>1, <2>1 DEF Staging
    <2>3. r = st
      BY <1>2, <2>2
    <2>4. (received \o reliable_buf)' = received \o reliable_buf
      BY <2>1
    <2> HIDE DEF r
    <2> QED
      BY <2>1, <2>3, <2>4 DEF r
  <1> QED
    BY <1>3, <1>4

(* The steps of SV_SendClientMessages.                                     *)
LEMMA WaitsKeeps ==
    ASSUME IInv, SV_SendClientMessages_Waits PROVE IInv'
  <1> DEFINE a == received \o reliable_buf
  <1>1. PICK st \in Moved : Stage(st)
    BY DEF SV_SendClientMessages_Waits
  <1>2. UNCHANGED <<state, reliable_buf, sys_error, writes, written, thrown,
                    forgotten, received>>
    BY DEF SV_SendClientMessages_Waits, history
  <1>3. a \in Seq(Block) /\ Good(Staging) /\ Keeps(a, Staging, History)
        /\ History \in Ledger /\ a' = a /\ History' = History
    BY <1>2, HistoryIs DEF IInv, History
  <1> HIDE DEF a
  <1>4. Good(st) /\ Keeps(a, st, History)
    BY <1>3, MovedKeeps
  <1>5. Staging' = st
    BY <1>1, <1>4, Staged
  <1>6. Good(Staging') /\ Keeps(a', Staging', History')
    BY <1>3, <1>4, <1>5
  <1> QED
    BY <1>2, <1>6 DEF IInv, a

LEMMA SendKeeps ==
    ASSUME IInv, SV_SendClientMessages PROVE IInv'
  <1> DEFINE a == received \o reliable_buf
  <1>1. PICK st \in Moved : Netchan_Transmit(st)
    BY DEF SV_SendClientMessages
  <1>2. UNCHANGED <<state, sys_error, writes, written, thrown, forgotten,
                    received>>
    BY DEF SV_SendClientMessages, history
  <1>3. /\ received \in Seq(Block) /\ reliable_buf \in Seq(Block)
        /\ a \in Seq(Block) /\ Good(Staging) /\ Keeps(a, Staging, History)
        /\ History \in Ledger /\ History' = History
    BY <1>2, HistoryIs DEF IInv, History
  <1> HIDE DEF a
  <1>4. Good(st) /\ Keeps(a, st, History)
    BY <1>3, MovedKeeps
  <1>5. /\ Good(Staging') /\ reliable_buf' \in Seq(Block)
        /\ Keeps(a', Staging', History)
    BY <1>1, <1>2, <1>3, <1>4, TransmitKeeps DEF a
  <1>6. Keeps(a', Staging', History')
    BY <1>3, <1>5
  <1> QED
    BY <1>2, <1>5, <1>6 DEF IInv, a

LEMMA StatsKeeps ==
    ASSUME IInv, SV_SendClientMessages_Stats PROVE IInv'
  <1> DEFINE a == received \o reliable_buf
             b == NextBlock("stream")
  <1>1. PICK st \in Moved, size \in Sizes :
           \/ WriteFails(st, size, size) /\ Sys_Error(size)
           \/ /\ ~WriteFails(st, size, size)
              /\ Counted
              /\ written' = written \cup {writes + 1}
              /\ Netchan_Transmit(Write(st, b, size, size))
              /\ UNCHANGED <<state, sys_error, thrown, forgotten, received>>
    BY DEF SV_SendClientMessages_Stats
  <1>2. /\ received \in Seq(Block) /\ reliable_buf \in Seq(Block)
        /\ a \in Seq(Block) /\ Good(Staging) /\ Keeps(a, Staging, History)
        /\ writes \in 0 .. MaxWrites /\ written \subseteq 1 .. writes
        /\ History \in Ledger /\ History.written = written
        /\ History.thrown = thrown /\ History.forgotten = forgotten
    BY HistoryIs DEF IInv
  <1>3. size \in Nat /\ size \in 0 .. size
    BY SizesAreNumbers
  <1> HIDE DEF a
  <1>4. Good(st) /\ Keeps(a, st, History)
    BY <1>2, MovedKeeps
  <1>5. CASE WriteFails(st, size, size) /\ Sys_Error(size)
    <2>1. size > MaxSize
      BY <1>3, <1>4, <1>5, NoticeBlock, WriteKeeps
    <2> QED
      BY <1>3, <1>5, <2>1, SysErrorKeeps
  <1>6. CASE /\ ~WriteFails(st, size, size)
             /\ Counted
             /\ written' = written \cup {writes + 1}
             /\ Netchan_Transmit(Write(st, b, size, size))
             /\ UNCHANGED <<state, sys_error, thrown, forgotten, received>>
    <2> DEFINE r == Write(st, b, size, size)
               w == Wrote(History, <<b>>)
    <2>1. /\ b \in Block /\ b.via # "drop" /\ Later(<<b>>, History)
          /\ w = [written |-> written \cup {writes + 1},
                  thrown |-> thrown, forgotten |-> forgotten]
          /\ writes + 1 \in 0 .. MaxWrites /\ writes' = writes + 1
          /\ written \cup {writes + 1} \subseteq 1 .. writes + 1
      BY <1>2, <1>6, Fresh DEF Counted
    <2>2. Netchan_Transmit(r)
      BY <1>6
    <2> HIDE DEF b
    <2>3. size <= MaxSize
      <3>1. ~(size > MaxSize)
        BY <1>3, <1>4, <1>6, <2>1, WriteKeeps
      <3> QED
        BY <1>3, <3>1, MaxSizeAssumption
    <2>4. Good(r) /\ Keeps(a, r, w)
      BY <1>2, <1>3, <1>4, <2>1, <2>3, WriteKeeps
    <2>5. w \in Ledger
      <3>1. <<b>> \in Seq(Block)
        BY <2>1
      <3> QED
        BY <1>2, <3>1, WroteLedger
    <2> HIDE DEF r
    <2>6. History' = w
      BY <1>6, <2>1 DEF History
    <2> HIDE DEF w
    <2>7. /\ Good(Staging') /\ reliable_buf' \in Seq(Block)
          /\ Keeps(a', Staging', w)
      BY <1>2, <1>6, <2>2, <2>4, <2>5, TransmitKeeps DEF a
    <2>8. Keeps(a', Staging', History')
      BY <2>6, <2>7
    <2> QED
      BY <1>6, <2>1, <2>7, <2>8 DEF IInv, a
  <1> QED
    BY <1>1, <1>5, <1>6

LEMMA NoticeSizesAre ==
    ASSUME NEW size \in NoticeSizes PROVE size \in Nat
  BY SizesAreNumbers DEF NoticeSizes

LEMMA AnnouncedKeeps ==
    ASSUME NEW st, Good(st), NEW size \in NoticeSizes,
           NEW r, r = Announced(st, size),
           NEW a \in Seq(Block), NEW w \in Ledger, Keeps(a, st, w)
    PROVE  /\ AnnouncingFails(st, size) => size > MaxSize
           /\ ~AnnouncingFails(st, size) => /\ size <= MaxSize
                                            /\ Good(r) /\ Keeps(a, r, w)
  <1>1. CASE size = 0
    <2>1. r = st
      BY <1>1 DEF Announced
    <2>2. ~AnnouncingFails(st, size)
      BY <1>1 DEF AnnouncingFails
    <2> QED
      BY <1>1, <2>1, <2>2, MaxSizeAssumption
  <1>2. CASE size # 0
    <2>1. size \in Nat /\ size \in 0 .. size
      BY NoticeSizesAre
    <2>2. r = Write(st, Notice, size, size)
      BY <1>2 DEF Announced
    <2>3. AnnouncingFails(st, size) <=> WriteFails(st, size, size)
      BY <1>2 DEF AnnouncingFails
    <2>4. WriteFails(st, size, size) <=> size > MaxSize
      BY <2>1, NoticeBlock, WriteKeeps
    <2>5. Later(<<Notice>>, w) /\ Wrote(w, <<Notice>>) = w
      BY NoticeBlock, AsideWrote
    <2>6. size <= MaxSize => Good(r) /\ Keeps(a, r, Wrote(w, <<Notice>>))
      BY <2>1, <2>2, <2>5, NoticeBlock, WriteKeeps
    <2>7. ~(size > MaxSize) => size <= MaxSize
      BY <2>1, MaxSizeAssumption
    <2> QED
      BY <2>3, <2>4, <2>5, <2>6, <2>7
  <1> QED
    BY <1>1, <1>2

LEMMA CheckBlockMessage ==
    ASSUME NEW st, Good(st), NEW size,
           NEW r, r = ClientReliableCheckBlock(st, size)
    PROVE  r.message.data = st.message.data
  <1> DEFINE old == st.message
  <1>1. old \in SizeBuf /\ st = [message |-> old, backbufs |-> st.backbufs]
    BY GoodParts
  <1>2. CASE r = st
    BY <1>2
  <1>3. CASE r = OutOfBackbufs(st)
    <2> DEFINE new == [old EXCEPT !.overflowed = TRUE]
    <2>1. r.message = new
      BY <1>3 DEF OutOfBackbufs
    <2> HIDE DEF old
    <2>2. new.data = old.data
      BY <1>1 DEF SizeBuf
    <2> HIDE DEF new
    <2> QED
      BY <2>1, <2>2 DEF old
  <1>4. CASE r = [st EXCEPT !.backbufs = Append(@, EmptyBuf)]
    <2> DEFINE bufs == Append(st.backbufs, EmptyBuf)
    <2>1. r = [st EXCEPT !.backbufs = bufs]
      BY <1>4
    <2> HIDE DEF bufs
    <2>2. r.message = old
      BY <1>1, <2>1
    <2> QED
      BY <2>2
  <1> QED
    BY <1>2, <1>3, <1>4 DEF ClientReliableCheckBlock

(* All that is in a cleared message after the notice.                      *)
LEMMA NoticeMessage ==
    ASSUME NEW st, Good(st), st.message.data = << >>,
           NEW size \in NoticeSizes, size <= MaxSize,
           NEW r, r = Announced(st, size)
    PROVE  Aside(r.message.data)
  <1>1. CASE size = 0
    <2>1. r = st
      BY <1>1 DEF Announced
    <2> QED
      BY <2>1, NoticeBlock
  <1>2. CASE size # 0
    <2> DEFINE c == ClientReliableCheckBlock(st, size)
               d == <<Notice>>
               old == c.message
               buf == SZ_Write(Target(c), d, size)
    <2>1. r = ClientReliableWrite(c, d, size)
      BY <1>2 DEF Announced, Write
    <2>2. size \in Nat /\ size \in 0 .. size
      BY NoticeSizesAre
    <2>3. Good(c)
      <3>1. \E w \in Ledger : Keeps(<< >>, st, w)
        BY KeepsSomething
      <3> QED
        BY <2>2, <3>1, CheckBlockKeeps
    <2>4. old.data = << >>
      BY CheckBlockMessage
    <2> HIDE DEF c, d
    <2>5. old \in SizeBuf /\ c = [message |-> old, backbufs |-> c.backbufs]
      BY <2>3, GoodParts
    <2>6. Aside(d) /\ d \in Seq(Block) /\ << >> \o d = d
      <3>1. Aside(d) /\ d \in Seq(Block)
        BY NoticeBlock DEF Aside, d
      <3> QED
        BY <3>1
    <2>7. CASE c.backbufs = << >>
      <3>1. buf = SZ_Write(old, d, size) /\ r = [c EXCEPT !.message = buf]
        BY <2>1, <2>7 DEF Target, ClientReliableWrite
      <3>2. buf.data = old.data \o d \/ buf.data = d
        <4> HIDE DEF old, buf
        <4> QED
          BY <2>5, <3>1 DEF SZ_Write, SizeBuf
      <3> HIDE DEF buf
      <3>3. r.message = buf
        BY <2>5, <3>1
      <3> QED
        BY <2>4, <2>6, <3>2, <3>3
    <2>8. CASE c.backbufs # << >>
      <3> DEFINE now == old.overflowed \/ buf.overflowed
                 msg == [old EXCEPT !.overflowed = now]
      <3>1. r.message = msg
        BY <2>1, <2>8 DEF ClientReliableWrite
      <3> HIDE DEF now, old
      <3>2. msg.data = old.data
        BY <2>5 DEF SizeBuf
      <3> QED
        BY <2>4, <3>1, <3>2, NoticeBlock
    <2> QED
      BY <2>7, <2>8
  <1> QED
    BY <1>1, <1>2

LEMMA OverflowKeeps ==
    ASSUME IInv, SV_SendClientMessages_Overflow PROVE IInv'
  <1> DEFINE a == received \o reliable_buf
  <1>1. PICK st \in Moved, size \in NoticeSizes :
           \/ AnnouncingFails(Cleared(st), size) /\ Sys_Error(size)
           \/ /\ ~AnnouncingFails(Cleared(st), size)
              /\ Netchan_Transmit(WithDisconnect(Announced(Cleared(st), size)))
              /\ state' = "zombie"
              /\ UNCHANGED <<sys_error, writes, history, received>>
    BY DEF SV_SendClientMessages_Overflow
  <1>2. /\ received \in Seq(Block) /\ reliable_buf \in Seq(Block)
        /\ a \in Seq(Block) /\ Good(Staging) /\ Keeps(a, Staging, History)
        /\ writes \in 0 .. MaxWrites /\ written \subseteq 1 .. writes
        /\ History \in Ledger /\ History.written = written
    BY HistoryIs DEF IInv
  <1> DEFINE c == Cleared(st)
             n == Announced(c, size)
             r == WithDisconnect(n)
             any == [written |-> written, thrown |-> {}, forgotten |-> TRUE]
  <1> HIDE DEF a
  <1>3. Good(st) /\ Keeps(a, st, History)
    BY <1>2, MovedKeeps
  <1>4. Good(c) /\ c.message.data = << >> /\ c.backbufs = st.backbufs
    BY <1>3, ClearedGood
  <1>5. any \in Ledger /\ any.written = written /\ any.forgotten = TRUE
    <2>1. {} \in SUBSET written /\ TRUE \in BOOLEAN
      OBVIOUS
    <2> QED
      BY <1>2, <2>1, HistoryLedger
  <1> HIDE DEF c, any
  <1>6. Keeps(a, c, any)
    <2>1. Numbers(Waiting(st.backbufs)) \subseteq written
      BY <1>2, <1>3 DEF Keeps, Sound
    <2> QED
      BY <1>4, <1>5, <2>1, NumbersNone DEF Keeps, Sound
  <1>7. CASE AnnouncingFails(c, size) /\ Sys_Error(size)
    <2>1. size > MaxSize /\ size \in Nat
      BY <1>2, <1>4, <1>5, <1>6, <1>7, AnnouncedKeeps, NoticeSizesAre
    <2> QED
      BY <1>7, <2>1, SysErrorKeeps
  <1>8. CASE /\ ~AnnouncingFails(c, size)
             /\ Netchan_Transmit(r)
             /\ state' = "zombie"
             /\ UNCHANGED <<sys_error, writes, history, received>>
    <2>1. Good(n) /\ Keeps(a, n, any) /\ size <= MaxSize
      BY <1>2, <1>4, <1>5, <1>6, <1>8, AnnouncedKeeps
    <2>2. Aside(n.message.data)
      BY <1>4, <2>1, NoticeMessage
    <2>3. Numbers(Waiting(n.backbufs)) \subseteq written
      BY <1>5, <2>1 DEF Keeps, Sound
    <2> HIDE DEF n
    <2>4. /\ Good(r) /\ r.backbufs = n.backbufs
          /\ \/ r.message.data = n.message.data \o <<Disconnect>>
             \/ /\ r.message.overflowed = TRUE
                /\ r.message.data = <<Disconnect>>
      BY <2>1, DisconnectGood
    <2>5. ~History.forgotten => Closed(BeforeDrop(a), History)
      BY <1>2 DEF Keeps, Sound
    <2> HIDE DEF r
    <2>6. Keeps(a, r, History)
      <3> DEFINE k == Waiting(r.backbufs)
      <3>1. Numbers(k) \subseteq History.written
        BY <1>2, <2>3, <2>4
      <3>2. CASE r.message.overflowed = TRUE /\ r.message.data = <<Disconnect>>
        <4>1. Numbers(<<Disconnect>>) = {}
          BY DisconnectBlock
        <4> QED
          BY <2>5, <3>1, <3>2, <4>1 DEF Keeps, Sound
      <3>3. CASE r.message.data = n.message.data \o <<Disconnect>>
        <4> DEFINE m == n.message.data
        <4>1. m \in Seq(Block) /\ Dropless(m) /\ Numbers(m) = {}
          BY <2>2 DEF Aside
        <4> HIDE DEF m, k
        <4>2. Sound(a, m \o <<Disconnect>>, k, r.message.overflowed, History)
          BY <1>2, <2>5, <3>1, <4>1, SoundCut
        <4> QED
          BY <3>3, <4>2 DEF Keeps, m, k
      <3> QED
        BY <2>4, <3>2, <3>3
    <2>7. /\ Good(Staging') /\ reliable_buf' \in Seq(Block)
          /\ Keeps(a', Staging', History)
      BY <1>2, <1>8, <2>4, <2>6, TransmitKeeps DEF a
    <2>8. UNCHANGED <<written, thrown, forgotten>> /\ History' = History
      BY <1>8 DEF history, History
    <2>9. Keeps(a', Staging', History')
      BY <2>7, <2>8
    <2> QED
      BY <1>8, <2>7, <2>8, <2>9 DEF IInv, a
  <1> QED
    BY <1>1, <1>7, <1>8 DEF c

(* The steps that leave the stream alone.                                  *)
LEMMA DropKeeps ==
    ASSUME IInv, SV_DropClient PROVE IInv'
  <1> DEFINE a == received \o reliable_buf
             r == WithDisconnect(Staging)
  <1>1. /\ Stage(r) /\ state' = "zombie"
        /\ UNCHANGED <<reliable_buf, sys_error, writes, written, thrown,
                       forgotten, received>>
    BY DEF SV_DropClient, history
  <1>2. a \in Seq(Block) /\ Good(Staging) /\ Keeps(a, Staging, History)
        /\ History \in Ledger /\ a' = a /\ History' = History
    BY <1>1, HistoryIs DEF IInv, History
  <1> HIDE DEF a
  <1>3. Good(r) /\ Keeps(a, r, History)
    BY <1>2, DisconnectKeeps
  <1> HIDE DEF r
  <1>4. Staging' = r
    BY <1>1, <1>3, Staged
  <1>5. Good(Staging') /\ Keeps(a', Staging', History')
    BY <1>2, <1>3, <1>4
  <1> QED
    BY <1>1, <1>5 DEF IInv, a

LEMMA TimeoutsKeeps ==
    ASSUME IInv, SV_CheckTimeouts PROVE IInv'
  <1> DEFINE a == received \o reliable_buf
  <1>1. PICK size \in NoticeSizes :
           \/ AnnouncingFails(Staging, size) /\ Sys_Error(size)
           \/ /\ ~AnnouncingFails(Staging, size)
              /\ Stage(IF Active THEN WithDisconnect(Announced(Staging, size))
                                 ELSE Staging)
              /\ state' = "free"
              /\ UNCHANGED <<reliable_buf, sys_error, writes, history, received>>
    BY DEF SV_CheckTimeouts
  <1>2. a \in Seq(Block) /\ Good(Staging) /\ Keeps(a, Staging, History)
        /\ History \in Ledger
    BY HistoryIs DEF IInv
  <1> DEFINE n == Announced(Staging, size)
             r == IF Active THEN WithDisconnect(n) ELSE Staging
  <1>3. CASE AnnouncingFails(Staging, size) /\ Sys_Error(size)
    <2>1. size > MaxSize /\ size \in Nat
      <3> HIDE DEF a
      <3> QED
        BY <1>2, <1>3, AnnouncedKeeps, NoticeSizesAre
    <2> QED
      BY <1>3, <2>1, SysErrorKeeps
  <1>4. CASE /\ ~AnnouncingFails(Staging, size) /\ Stage(r) /\ state' = "free"
             /\ UNCHANGED <<reliable_buf, sys_error, writes, history, received>>
    <2>1. a' = a /\ History' = History
          /\ UNCHANGED <<written, thrown, forgotten>>
      BY <1>4 DEF history, History
    <2> HIDE DEF a
    <2>2. Good(n) /\ Keeps(a, n, History)
      BY <1>2, <1>4, AnnouncedKeeps
    <2> HIDE DEF n
    <2>3. Good(r) /\ Keeps(a, r, History)
      <3>1. CASE Active
        BY <1>2, <2>2, <3>1, DisconnectKeeps
      <3>2. CASE ~Active
        BY <1>2, <3>2
      <3> QED
        BY <3>1, <3>2
    <2> HIDE DEF r
    <2>4. Staging' = r
      BY <1>4, <2>3, Staged
    <2>5. Good(Staging') /\ Keeps(a', Staging', History')
      BY <2>1, <2>3, <2>4
    <2> QED
      BY <1>4, <2>1, <2>5 DEF IInv, a
  <1> QED
    BY <1>1, <1>3, <1>4

LEMMA AcknowledgeKeeps ==
    ASSUME IInv, Acknowledge PROVE IInv'
  <1>1. /\ received' = received \o reliable_buf /\ reliable_buf' = << >>
        /\ UNCHANGED <<state, message, backbufs, sys_error, writes, written,
                       thrown, forgotten>>
    BY DEF Acknowledge, history
  <1>2. received \in Seq(Block) /\ reliable_buf \in Seq(Block)
        /\ << >> \in Seq(Block)
    BY EmptyBufs DEF IInv
  <1> DEFINE a == received \o reliable_buf
  <1>3. a \in Seq(Block) /\ a' = a
    <2>1. a' = (received \o reliable_buf) \o << >>
      BY <1>1
    <2> QED
      BY <1>2, <2>1
  <1>4. Staging' = Staging /\ History' = History
    BY <1>1 DEF Staging, History
  <1>5. Good(Staging) /\ Keeps(a, Staging, History)
    BY DEF IInv
  <1>6. received' \in Seq(Block) /\ reliable_buf' \in Seq(Block)
    BY <1>1, <1>2
  <1> HIDE DEF a
  <1>7. Good(Staging') /\ Keeps(a', Staging', History')
    BY <1>3, <1>4, <1>5
  <1> QED
    BY <1>1, <1>6, <1>7 DEF IInv, a

LEMMA StateKeeps ==
    ASSUME IInv, state' \in {"connected", "spawned", "zombie", "free"},
           writes' \in 0 .. MaxWrites, writes' >= writes,
           UNCHANGED <<message, backbufs, reliable_buf, sys_error, written,
                       thrown, forgotten, received>>
    PROVE  IInv'
  <1> DEFINE a == received \o reliable_buf
  <1>1. Staging' = Staging /\ a' = a /\ History' = History
    BY DEF Staging, History
  <1>2. Good(Staging) /\ Keeps(a, Staging, History)
    BY DEF IInv
  <1> HIDE DEF a
  <1>3. Good(Staging') /\ Keeps(a', Staging', History')
    BY <1>1, <1>2
  <1>4. written' \subseteq 1 .. writes'
    BY MaxWritesAssumption DEF IInv
  <1> QED
    BY <1>3, <1>4 DEF IInv, a

LEMMA NextInvariant ==
    ASSUME IInv, [Next]_vars PROVE IInv'
  <1>1. CASE Cmd_Begin
    <2>1. writes' \in 0 .. MaxWrites /\ writes' >= writes
      <3>1. writes \in 0 .. MaxWrites
        BY DEF IInv
      <3> QED
        BY <1>1, <3>1, MaxWritesAssumption DEF Cmd_Begin
    <2> QED
      BY <1>1, <2>1, StateKeeps DEF Cmd_Begin, history
  <1>2. CASE SV_SaveSpawnparms
    <2>1. writes' \in 0 .. MaxWrites /\ writes' >= writes
      BY <1>2 DEF IInv, SV_SaveSpawnparms
    <2> QED
      BY <1>2, <2>1, StateKeeps DEF SV_SaveSpawnparms, history
  <1>3. CASE UNCHANGED vars
    <2>1. writes' \in 0 .. MaxWrites /\ writes' >= writes /\ state' = state
      BY <1>3 DEF IInv, vars
    <2>2. state' \in {"connected", "spawned", "zombie", "free"}
      BY <2>1 DEF IInv
    <2> QED
      BY <1>3, <2>1, <2>2, StateKeeps DEF vars
  <1>4. CASE \E otherLevel \in BOOLEAN : Signon(otherLevel)
    BY <1>4, SignonKeeps
  <1>5. CASE WriteReliable \/ WriteDirect \/ Cmd_Spawn
    BY <1>5, WriteReliableKeeps, WriteDirectKeeps, CmdSpawnKeeps
  <1>6. CASE \/ SV_SendClientMessages_Waits \/ SV_SendClientMessages
             \/ SV_SendClientMessages_Stats \/ SV_SendClientMessages_Overflow
    BY <1>6, WaitsKeeps, SendKeeps, StatsKeeps, OverflowKeeps
  <1>7. CASE SV_DropClient \/ SV_CheckTimeouts \/ Acknowledge
    BY <1>7, DropKeeps, TimeoutsKeeps, AcknowledgeKeeps
  <1> QED
    BY <1>1, <1>2, <1>3, <1>4, <1>5, <1>6, <1>7 DEF Next

LEMMA Invariance == Spec => []IInv
  <1>1. Init => IInv
    BY InitInvariant
  <1>2. IInv /\ [Next]_vars => IInv'
    BY NextInvariant
  <1> QED
    BY <1>1, <1>2, PTL DEF Spec

-----------------------------------------------------------------------------
(* The server is never ended by a reliable write or by an overflow, unless *)
(* the one block is larger than a whole message, and never uses a back     *)
(* buffer that it does not have: ClientReliableCheckBlock always leaves    *)
(* room for the block that follows, also in a back buffer that             *)
(* SV_SendClientMessages has moved up, without its allowoverflow.          *)
THEOREM ServerLivesOn == Spec => []NoSysError
  <1>1. IInv => NoSysError
    <2> SUFFICES ASSUME IInv PROVE TypeOK /\ (sys_error # 0 => sys_error > MaxSize)
      BY DEF NoSysError
    <2>1. /\ Staging.message = message /\ Staging.backbufs = backbufs
          /\ Good(Staging)
      BY DEF IInv, Staging
    <2>2. /\ message \in SizeBuf /\ backbufs \in Seq(SizeBuf)
          /\ Len(backbufs) <= MAX_BACK_BUFFERS
      BY <2>1, GoodParts DEF Good
    <2>3. thrown \subseteq Nat
      BY MaxWritesAssumption DEF IInv
    <2> QED
      BY <2>2, <2>3 DEF IInv, TypeOK
  <1> QED
    BY <1>1, Invariance, PTL

(* The stream is kept whole and in order between the acknowledged blocks   *)
(* and the newest back buffer, until a buffer overflows, but for what a    *)
(* signon command throws away.                                             *)
THEOREM StreamKept == Spec => []StreamIntact
  <1>1. IInv => StreamIntact
    <2> SUFFICES ASSUME IInv, ~Lost, ~forgotten
                 PROVE  InOrder(Everything) /\ Numbers(Everything) = Due
      BY DEF StreamIntact
    <2> DEFINE a == received \o reliable_buf
               m == message.data
               j == Saved
    <2>1. a \in Seq(Block) /\ m \in Seq(Block) /\ j \in Seq(Block)
      BY StagedNumbers DEF IInv
    <2>2. Sound(a, m, j, message.overflowed, History)
      BY StagedNumbers DEF IInv, Keeps, Staging
    <2>3. ~message.overflowed /\ Disconnect \notin Range((a \o m) \o j)
          /\ Everything = (a \o m) \o j
      BY DEF Lost, Everything
    <2>4. History.forgotten = forgotten /\ Owed(History) = Due
      BY HistoryIs DEF Owed, Due
    <2> HIDE DEF a, m, j
    <2> DEFINE am == a \o m
    <2>5. am \in Seq(Block)
      BY <2>1
    <2>6. Dropless(am)
      <3>1. Disconnect \notin Range(am \o j)
        BY <2>3
      <3> HIDE DEF am
      <3>2. am \o j \in Seq(Block)
        BY <2>1, <2>5
      <3>3. Dropless(am \o j)
        BY <3>1, <3>2, DropIsDisconnect
      <3> QED
        BY <2>1, <2>5, <3>3, DroplessConcat
    <2> QED
      BY <2>2, <2>3, <2>4, <2>6 DEF Sound, Complete
  <1> QED
    BY <1>1, Invariance, PTL

(* Whatever overflows, what the client has got when the svc_disconnect     *)
(* reaches it, or until then, is all of the stream up to some block, in    *)
(* order, unless a signon command has forgotten an overflow or a drop.     *)
THEOREM PrefixKept == Spec => []PrefixUntilDropped
  <1>1. IInv => PrefixUntilDropped
    <2> SUFFICES ASSUME IInv PROVE PrefixUntilDropped
      OBVIOUS
    <2>1. ~forgotten => Closed(BeforeDrop(received \o reliable_buf), History)
      BY HistoryIs DEF IInv, Keeps, Sound
    <2>2. Owed(History) = Due
      BY HistoryIs DEF Owed, Due
    <2> QED
      BY <2>1, <2>2 DEF PrefixUntilDropped, Closed
  <1> QED
    BY <1>1, Invariance, PTL

=============================================================================
