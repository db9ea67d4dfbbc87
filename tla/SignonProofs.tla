---------------------------- MODULE SignonProofs ---------------------------
(* What Signon promises, for lists of any length and chunks of any size: a *)
(* client in the game has all of its level, and loads it from lists of one *)
(* level only; and, with room for two texts in a message, no answer to it  *)
(* overflows or ends a list early.                                         *)
EXTENDS SignonInvariant, FiniteSetTheorems, SequenceTheorems, TLAPS

(* A set of numbers that is not empty has a smallest one.                  *)
LEMMA SmallestNumber ==
    ASSUME NEW T \in SUBSET Nat, T # {}
    PROVE  \E x \in T : \A y \in T : x <= y
  <1> DEFINE R == StrictSubsetOrdering(Nat)
             F == FiniteSubsetsOf(Nat)
             U == {0 .. x : x \in T}
  <1>1. IsWellFoundedOn(R, F)
    BY FS_StrictSubsetOrderingWellFounded
  <1>2. U \subseteq F /\ U # {}
    <2>1. \A x \in T : 0 .. x \in SUBSET Nat /\ IsFiniteSet(0 .. x)
      BY FS_Interval
    <2> QED
      BY <2>1 DEF FiniteSubsetsOf
  <1>3. \E u \in U : \A w \in U : ~ (<<w, u>> \in R)
    <2> HIDE DEF R, F, U
    <2> QED
      BY <1>1, <1>2, WFMin
  <1>4. PICK x \in T : \A w \in U : ~ (<<w, 0 .. x>> \in R)
    BY <1>3
  <1>5. ASSUME NEW y \in T, y < x PROVE FALSE
    <2>1. 0 .. y \subseteq 0 .. x /\ 0 .. y # 0 .. x
      BY <1>5
    <2>2. 0 .. y \in SUBSET Nat /\ 0 .. x \in SUBSET Nat
      OBVIOUS
    <2>3. <<0 .. y, 0 .. x>> \in R
      BY <2>1, <2>2 DEF StrictSubsetOrdering
    <2> QED
      BY <2>3, <1>4
  <1> QED
    BY <1>5

LEMMA ItemsConcat ==
    ASSUME NEW S, NEW a \in Seq(S), NEW b \in Seq(S)
    PROVE  /\ a \o b \in Seq(S) /\ Items(a \o b) = Items(a) \cup Items(b)
           /\ Len(a \o b) = Len(a) + Len(b) /\ Len(a) \in Nat /\ Len(b) \in Nat
  <1>1. /\ Len(a) \in Nat /\ Len(b) \in Nat
        /\ DOMAIN a = 1..Len(a) /\ DOMAIN b = 1..Len(b)
    BY LenProperties
  <1>2. /\ a \o b \in Seq(S) /\ Len(a \o b) = Len(a) + Len(b)
        /\ \A i \in 1..Len(a) + Len(b) :
             (a \o b)[i] = IF i <= Len(a) THEN a[i] ELSE b[i - Len(a)]
    BY ConcatProperties
  <1>3. DOMAIN (a \o b) = 1..Len(a) + Len(b)
    BY <1>2, LenProperties
  <1>4. \A i \in DOMAIN a : i \in DOMAIN (a \o b) /\ (a \o b)[i] = a[i]
    BY <1>1, <1>2, <1>3
  <1>5. \A i \in DOMAIN b : /\ Len(a) + i \in DOMAIN (a \o b)
                            /\ (a \o b)[Len(a) + i] = b[i]
    BY <1>1, <1>2, <1>3
  <1>6. \A i \in DOMAIN (a \o b) :
          \/ i \in DOMAIN a /\ (a \o b)[i] = a[i]
          \/ i - Len(a) \in DOMAIN b /\ (a \o b)[i] = b[i - Len(a)]
    BY <1>1, <1>2, <1>3
  <1> DEFINE c == a \o b
  <1> HIDE DEF c
  <1>7. Items(a) \subseteq Items(c) /\ Items(b) \subseteq Items(c)
    BY <1>4, <1>5 DEF Items, c
  <1>8. Items(c) \subseteq Items(a) \cup Items(b)
    BY <1>6 DEF Items, c
  <1> QED
    BY <1>1, <1>2, <1>7, <1>8 DEF c

LEMMA ItemsFew ==
    ASSUME NEW x, NEW y
    PROVE  /\ Items(<<>>) = {} /\ Items(<<x>>) = {x} /\ Items(<<x, y>>) = {x, y}
           /\ Len(<<x>>) = 1
  BY DEF Items

LEMMA ItemsIn ==
    ASSUME NEW S, NEW q \in Seq(S)
    PROVE  Items(q) \subseteq S /\ (Items(q) = {} <=> q = <<>>)
  <1>1. Len(q) \in Nat /\ DOMAIN q = 1..Len(q) /\ q \in [1..Len(q) -> S]
    BY LenProperties
  <1>2. q # <<>> => Len(q) # 0
    BY EmptySeq
  <1>3. q # <<>> => 1 \in DOMAIN q
    BY <1>1, <1>2
  <1>4. q = <<>> => DOMAIN q = {}
    OBVIOUS
  <1> QED
    BY <1>1, <1>3, <1>4 DEF Items

LEMMA ItemsAppend ==
    ASSUME NEW S, NEW q \in Seq(S), NEW x \in S
    PROVE  /\ Append(q, x) \in Seq(S) /\ Append(q, x) = q \o <<x>>
           /\ Items(Append(q, x)) = Items(q) \cup {x}
  <1>1. <<x>> \in Seq(S) /\ Append(q, x) = q \o <<x>>
    BY AppendIsConcat
  <1>2. q \o <<x>> \in Seq(S) /\ Items(q \o <<x>>) = Items(q) \cup Items(<<x>>)
    BY <1>1, ItemsConcat
  <1>3. Items(<<x>>) = {x}
    BY ItemsFew
  <1> QED
    BY <1>1, <1>2, <1>3

LEMMA HeadFirst ==
    ASSUME NEW S, NEW q \in Seq(S), q # <<>>
    PROVE  /\ Head(q) \in S /\ Tail(q) \in Seq(S) /\ q = <<Head(q)>> \o Tail(q)
           /\ Items(q) = {Head(q)} \cup Items(Tail(q))
           /\ Len(q) = Len(Tail(q)) + 1
  <1>1. /\ Head(q) \in S /\ Tail(q) \in Seq(S) /\ Len(Tail(q)) = Len(q) - 1
        /\ Len(q) \in Nat
    BY HeadTailProperties, LenProperties
  <1>2. q = <<Head(q)>> \o Tail(q)
    BY HeadTailAppend, <1>1
  <1>3. <<Head(q)>> \in Seq(S)
    BY <1>1
  <1>4. Items(<<Head(q)>> \o Tail(q)) = Items(<<Head(q)>>) \cup Items(Tail(q))
    BY <1>1, <1>3, ItemsConcat
  <1>5. Items(<<Head(q)>>) = {Head(q)}
    BY ItemsFew
  <1>6. Items(q) = {Head(q)} \cup Items(Tail(q))
    BY <1>2, <1>4, <1>5
  <1> QED
    BY <1>1, <1>2, <1>6

LEMMA PairsConcat ==
    ASSUME NEW S, NEW a \in Seq(S), NEW b \in Seq(S), NEW R
    PROVE  InPairs(a \o b, R) <=> InPairs(a, R) /\ InPairs(b, R) /\ Ahead(a, b, R)
  <1>1. /\ Len(a) \in Nat /\ Len(b) \in Nat
        /\ DOMAIN a = 1..Len(a) /\ DOMAIN b = 1..Len(b)
    BY LenProperties
  <1>2. /\ a \o b \in Seq(S) /\ Len(a \o b) = Len(a) + Len(b)
        /\ \A i \in 1..Len(a) + Len(b) :
             (a \o b)[i] = IF i <= Len(a) THEN a[i] ELSE b[i - Len(a)]
    BY ConcatProperties
  <1>3. DOMAIN (a \o b) = 1..Len(a) + Len(b)
    BY <1>2, LenProperties
  <1>4. \A i \in DOMAIN a : i \in DOMAIN (a \o b) /\ (a \o b)[i] = a[i]
    BY <1>1, <1>2, <1>3
  <1>5. \A i \in DOMAIN b : /\ Len(a) + i \in DOMAIN (a \o b)
                            /\ (a \o b)[Len(a) + i] = b[i]
    BY <1>1, <1>2, <1>3
  <1>6. \A i \in DOMAIN (a \o b) :
          \/ i \in DOMAIN a /\ (a \o b)[i] = a[i]
          \/ /\ i - Len(a) \in DOMAIN b /\ (a \o b)[i] = b[i - Len(a)]
             /\ i \notin DOMAIN a
    BY <1>1, <1>2, <1>3
  <1>7. ASSUME InPairs(a \o b, R)
        PROVE  InPairs(a, R) /\ InPairs(b, R) /\ Ahead(a, b, R)
    <2>1. InPairs(a, R)
      BY <1>4, <1>7 DEF InPairs
    <2>2. ASSUME NEW i \in DOMAIN b, NEW j \in DOMAIN b, i < j
          PROVE  <<b[i], b[j]>> \in R
      <3>1. Len(a) + i < Len(a) + j
        BY <1>1, <2>2
      <3> QED
        BY <3>1, <1>5, <1>7 DEF InPairs
    <2>3. ASSUME NEW i \in DOMAIN a, NEW j \in DOMAIN b PROVE <<a[i], b[j]>> \in R
      <3>1. i < Len(a) + j
        BY <1>1
      <3> QED
        BY <3>1, <1>4, <1>5, <1>7 DEF InPairs
    <2> QED
      BY <2>1, <2>2, <2>3 DEF InPairs, Ahead, Items
  <1>8. ASSUME InPairs(a, R), InPairs(b, R), Ahead(a, b, R) PROVE InPairs(a \o b, R)
    <2> SUFFICES ASSUME NEW i \in DOMAIN (a \o b), NEW j \in DOMAIN (a \o b), i < j
                 PROVE  <<(a \o b)[i], (a \o b)[j]>> \in R
      BY DEF InPairs
    <2>1. CASE i \in DOMAIN a /\ j \in DOMAIN a
      BY <2>1, <1>4, <1>8 DEF InPairs
    <2>2. CASE i \in DOMAIN a /\ j \notin DOMAIN a
      BY <2>2, <1>6, <1>8 DEF Ahead, Items
    <2>3. CASE i \notin DOMAIN a
      <3>1. j \notin DOMAIN a
        BY <2>3, <1>1, <1>3
      <3>2. i - Len(a) < j - Len(a)
        BY <1>1, <1>3
      <3> QED
        BY <2>3, <3>1, <3>2, <1>6, <1>8 DEF InPairs
    <2> QED
      BY <2>1, <2>2, <2>3
  <1> QED
    BY <1>7, <1>8

LEMMA PairsFew ==
    ASSUME NEW R, NEW x, NEW y
    PROVE  /\ InPairs(<<>>, R) /\ InPairs(<<x>>, R)
           /\ InPairs(<<x, y>>, R) <=> <<x, y>> \in R
  BY DEF InPairs

LEMMA PairsGrow ==
    ASSUME NEW S, NEW R, NEW q \in Seq(S), InPairs(q, R),
           NEW T, \A x, y \in Items(q) : <<x, y>> \in R => <<x, y>> \in T
    PROVE  InPairs(q, T)
  BY DEF InPairs, Items

(* The first items of a sequence and the rest.                             *)
LEMMA FirstAndRest ==
    ASSUME NEW S, NEW q \in Seq(S), NEW k \in 0..Len(q)
    PROVE  /\ SubSeq(q, 1, k) \in Seq(S) /\ SubSeq(q, k + 1, Len(q)) \in Seq(S)
           /\ q = SubSeq(q, 1, k) \o SubSeq(q, k + 1, Len(q))
           /\ Len(SubSeq(q, 1, k)) = k
           /\ SubSeq(q, 1, 0) = <<>>
  <1>1. Len(q) \in Nat /\ \A i \in 1..Len(q) : q[i] \in S
    BY LenProperties, ElementOfSeq
  <1>2. SubSeq(q, 1, k) \in Seq(S) /\ Len(SubSeq(q, 1, k)) = k
    <2>1. \A i \in 1..k : q[i] \in S
      BY <1>1
    <2> QED
      BY <1>1, <2>1, SubSeqProperties
  <1>3. SubSeq(q, k + 1, Len(q)) \in Seq(S)
    <2>1. \A i \in k + 1..Len(q) : q[i] \in S
      BY <1>1
    <2> QED
      BY <1>1, <2>1, SubSeqProperties
  <1>4. SubSeq(q, 1, k) \o SubSeq(q, k + 1, Len(q)) = SubSeq(q, 1, Len(q))
    <2>1. 1 \in 1..Len(q) + 1 /\ k \in 1 - 1..Len(q) /\ Len(q) \in k..Len(q)
      BY <1>1
    <2> QED
      BY <2>1, ConcatAdjacentSubSeq
  <1>5. SubSeq(q, 1, Len(q)) = q
    BY SubSeqFull
  <1>6. SubSeq(q, 1, 0) = <<>>
    BY SubSeqEmpty
  <1> QED
    BY <1>2, <1>3, <1>4, <1>5, <1>6

-----------------------------------------------------------------------------
(* Sizes and chunks.                                                       *)

LEMMA SignonNaturals ==
    /\ Sounds \in Nat \ {0} /\ Models \in Nat \ {0} /\ Statics \in Nat \ {0}
    /\ Buffers \in Nat \ {0} /\ BufferSize \in Nat \ {0} /\ Players \in Nat \ {0}
    /\ ByteValues \in Nat \ {0} /\ Room \in Nat \ {0} /\ MaxLevel \in Nat \ {0}
    /\ MaxPrints \in Nat /\ MaxDownloads \in Nat /\ MaxRestarts \in Nat
    /\ Half \in Nat /\ BufferSize <= Room /\ (Room >= 6 => Half >= 3)
  <1>1. /\ Sounds \in Nat \ {0} /\ Models \in Nat \ {0} /\ Statics \in Nat \ {0}
        /\ Buffers \in Nat \ {0} /\ BufferSize \in Nat \ {0} /\ Players \in Nat \ {0}
        /\ ByteValues \in Nat \ {0} /\ Room \in Nat \ {0} /\ MaxLevel \in Nat \ {0}
        /\ MaxPrints \in Nat /\ MaxDownloads \in Nat /\ MaxRestarts \in Nat
        /\ BufferSize <= Room
    BY SignonAssumption DEF SignonAssumption
  <1>2. Half \in Nat /\ (Room >= 6 => Half >= 3)
    BY <1>1 DEF Half
  <1> QED
    BY <1>1, <1>2

LEMMA SizeAdds ==
    ASSUME NEW S, NEW q \in Seq(S)
    PROVE  \E f : Adds(q, Len(q), f) /\ Size(q) = f[Len(q)]
  <1> DEFINE Bad == {n \in Nat : ~\E f : Adds(q, n, f)}
  <1>1. Bad = {}
    <2> SUFFICES ASSUME Bad # {} PROVE FALSE
      OBVIOUS
    <2>1. PICK n \in Bad : \A k \in Bad : n <= k
      BY SmallestNumber
    <2>2. n # 0
      <3> DEFINE g == [k \in 0..0 |-> 0]
      <3>1. g = [k \in 0..0 |-> IF k = 0 THEN 0 ELSE g[k - 1] + ItemSize(q[k])]
        OBVIOUS
      <3> HIDE DEF g
      <3>2. \E f : Adds(q, 0, f)
        BY <3>1 DEF Adds
      <3> QED
        BY <3>2
    <2>3. n - 1 \in Nat /\ n - 1 \notin Bad
      BY <2>1, <2>2
    <2>4. PICK h : h = [k \in 0..n - 1 |->
                          IF k = 0 THEN 0 ELSE h[k - 1] + ItemSize(q[k])]
      BY <2>3 DEF Adds
    <2> DEFINE g == [k \in 0..n |-> IF k = n THEN h[n - 1] + ItemSize(q[n]) ELSE h[k]]
    <2>5. g = [k \in 0..n |-> IF k = 0 THEN 0 ELSE g[k - 1] + ItemSize(q[k])]
      BY <2>2, <2>4
    <2> HIDE DEF g
    <2>6. \E f : Adds(q, n, f)
      BY <2>5 DEF Adds
    <2> QED
      BY <2>6
  <1>2. Len(q) \in Nat
    BY LenProperties
  <1>3. \E f : Adds(q, Len(q), f)
    BY <1>1, <1>2
  <1>4. Adds(q, Len(q), CHOOSE f : Adds(q, Len(q), f))
    BY <1>3
  <1>5. Size(q) = (CHOOSE f : Adds(q, Len(q), f))[Len(q)]
    BY DEF Size, Adds
  <1> QED
    BY <1>4, <1>5

LEMMA SizeNatural ==
    ASSUME NEW S, NEW q \in Seq(S), Measured(q)
    PROVE  Size(q) \in Nat
  <1>1. PICK f : Adds(q, Len(q), f) /\ Size(q) = f[Len(q)]
    BY SizeAdds
  <1>2. Len(q) \in Nat /\ \A k \in 1..Len(q) : ItemSize(q[k]) \in Nat
    BY LenProperties DEF Measured, Items
  <1>3. f[0] = 0 /\ \A k \in 1..Len(q) : f[k] = f[k - 1] + ItemSize(q[k])
    BY <1>1, <1>2 DEF Adds
  <1> DEFINE Bad == {n \in 0..Len(q) : f[n] \notin Nat}
  <1>4. Bad = {}
    <2> SUFFICES ASSUME Bad # {} PROVE FALSE
      OBVIOUS
    <2>1. Bad \in SUBSET Nat
      BY <1>2
    <2>2. PICK n \in Bad : \A k \in Bad : n <= k
      BY <2>1, SmallestNumber
    <2>3. n # 0
      BY <1>3
    <2>4. n \in 1..Len(q) /\ n - 1 \in 0..Len(q) /\ n - 1 \notin Bad
      BY <2>2, <2>3, <1>2
    <2> QED
      BY <2>4, <1>2, <1>3
  <1> QED
    BY <1>1, <1>2, <1>4

(* The size of texts is their number.                                      *)
LEMMA SizeOfTexts ==
    ASSUME NEW S, NEW q \in Seq(S), Items(q) \subseteq {Text}
    PROVE  Size(q) = Len(q)
  <1>1. PICK f : Adds(q, Len(q), f) /\ Size(q) = f[Len(q)]
    BY SizeAdds
  <1>2. ItemSize(Text) = 1
    BY DEF ItemSize, Text
  <1>3. Len(q) \in Nat /\ \A k \in 1..Len(q) : ItemSize(q[k]) = 1
    BY <1>2, LenProperties DEF Items
  <1>4. f[0] = 0 /\ \A k \in 1..Len(q) : f[k] = f[k - 1] + ItemSize(q[k])
    BY <1>1, <1>3 DEF Adds
  <1> DEFINE Bad == {n \in 0..Len(q) : f[n] # n}
  <1>5. Bad = {}
    <2> SUFFICES ASSUME Bad # {} PROVE FALSE
      OBVIOUS
    <2>1. Bad \in SUBSET Nat
      BY <1>3
    <2>2. PICK n \in Bad : \A k \in Bad : n <= k
      BY <2>1, SmallestNumber
    <2>3. n # 0
      BY <1>4
    <2>4. n \in 1..Len(q) /\ n - 1 \in 0..Len(q) /\ n - 1 \notin Bad
      BY <2>2, <2>3, <1>3
    <2> QED
      BY <2>4, <1>3, <1>4
  <1> QED
    BY <1>1, <1>3, <1>5

(* The first back buffer is the beginning of what is buffered.             *)
LEMMA FirstBufferFirst ==
    ASSUME NEW S, NEW b \in Seq(S)
    PROVE  \E k \in 0..Len(b) : FirstBuffer(b) = SubSeq(b, 1, k)
  <1> DEFINE fits == {k \in 0..Len(b) : Size(SubSeq(b, 1, k)) < Room}
             left == {Len(b) - k : k \in fits}
  <1>1. Len(b) \in Nat
    BY LenProperties
  <1>2. 0 \in fits
    <2>1. SubSeq(b, 1, 0) = <<>>
      BY SubSeqEmpty
    <2>2. <<>> \in Seq(S) /\ Items(<<>>) \subseteq {Text} /\ Len(<<>>) = 0
      BY ItemsFew, EmptySeq
    <2>3. Size(<<>>) = 0
      BY <2>2, SizeOfTexts
    <2>4. Size(SubSeq(b, 1, 0)) < Room
      <3>1. Room \in Nat \ {0}
        BY SignonNaturals
      <3>2. Size(SubSeq(b, 1, 0)) = Size(<<>>)
        BY Zenon, <2>1
      <3>3. Size(SubSeq(b, 1, 0)) = 0
        BY Zenon, <3>2, <2>3
      <3> DEFINE z == Size(SubSeq(b, 1, 0))
      <3>4. z = 0
        BY Zenon, <3>3
      <3> HIDE DEF z
      <3>5. z < Room
        BY <3>1, <3>4
      <3> QED
        BY Zenon, <3>5 DEF z
    <2>5. 0 \in 0..Len(b)
      BY <1>1
    <2> QED
      BY <2>4, <2>5
  <1>3. left \in SUBSET Nat /\ left # {}
    BY <1>1, <1>2
  <1>4. PICK x \in left : \A y \in left : x <= y
    BY <1>3, SmallestNumber
  <1>5. PICK k \in fits : x = Len(b) - k
    BY <1>4
  <1>6. ASSUME NEW j \in fits PROVE j <= k
    <2>1. Len(b) - j \in left /\ j \in 0..Len(b) /\ k \in 0..Len(b)
      OBVIOUS
    <2>2. Len(b) - k <= Len(b) - j
      BY <1>4, <1>5, <2>1
    <2> QED
      BY <1>1, <2>1, <2>2
  <1> HIDE DEF fits
  <1>7. (CHOOSE k1 \in fits : \A j \in fits : j <= k1) \in fits
    BY <1>5, <1>6
  <1>8. FirstBuffer(b) = SubSeq(b, 1, CHOOSE k1 \in fits : \A j \in fits : j <= k1)
    BY DEF FirstBuffer, fits
  <1> QED
    BY <1>7, <1>8 DEF fits

(* A chunk of models ends with the list or where the byte is not 0.        *)
LEMMA ChunkEnds ==
    ASSUME NEW n \in 0..Models, NEW size \in Nat
    PROVE  /\ ModelChunk(n, size) \in n..Models
           /\ ModelChunk(n, size) = Models \/ ModelChunk(n, size) % ByteValues # 0
  <1> USE SignonNaturals
  <1> DEFINE GoesOn(k) == k % ByteValues = 0 \/ size + (k - n) < Half
             ends == {k \in n..Models : k = Models \/ ~GoesOn(k)}
  <1>1. Models \in ends
    OBVIOUS
  <1>2. PICK k \in ends : \A j \in ends : k <= j
    <2>1. ends \in SUBSET Nat
      OBVIOUS
    <2> HIDE DEF ends
    <2> QED
      BY <1>1, <2>1, SmallestNumber
  <1>3. ASSUME NEW i \in n..(k - 1) PROVE GoesOn(i)
    <2>1. i \in n..Models /\ ~(k <= i)
      BY <1>2
    <2> HIDE DEF GoesOn
    <2> QED
      BY <1>2, <2>1
  <1> DEFINE End(j) == /\ \A i \in n..(j - 1) : GoesOn(i)
                       /\ j = Models \/ ~GoesOn(j)
  <1>4. End(k) /\ k \in n..Models
    BY <1>2, <1>3
  <1>5. ModelChunk(n, size) = CHOOSE j \in n..Models : End(j)
    BY DEF ModelChunk
  <1> HIDE DEF End
  <1>6. ModelChunk(n, size) \in n..Models /\ End(ModelChunk(n, size))
    BY <1>4, <1>5
  <1> QED
    BY <1>6 DEF End

-----------------------------------------------------------------------------
(* The sequences when something is taken from them or written to them.     *)

LEMMA OneFirst ==
    ASSUME NEW S, NEW x \in S, NEW q \in Seq(S)
    PROVE  /\ <<x>> \in Seq(S) /\ <<x>> \o q \in Seq(S)
           /\ Items(<<x>> \o q) = {x} \cup Items(q)
           /\ Len(<<x>> \o q) = Len(q) + 1 /\ Len(q) \in Nat
           /\ \A R : InPairs(<<x>> \o q, R)
                       <=> InPairs(q, R) /\ \A y \in Items(q) : <<x, y>> \in R
  <1>1. <<x>> \in Seq(S) /\ Items(<<x>>) = {x} /\ Len(<<x>>) = 1
    <2>1. <<x>> \in Seq(S)
      OBVIOUS
    <2> QED
      BY <2>1, ItemsFew
  <1> DEFINE one == <<x>>
  <1>a. one \in Seq(S)
    BY <1>1
  <1> HIDE DEF one
  <1>2. /\ one \o q \in Seq(S) /\ Items(one \o q) = Items(one) \cup Items(q)
        /\ Len(one \o q) = Len(one) + Len(q) /\ Len(q) \in Nat
    BY <1>a, ItemsConcat
  <1>3. ASSUME NEW R
        PROVE  InPairs(<<x>> \o q, R)
                 <=> InPairs(q, R) /\ \A y \in Items(q) : <<x, y>> \in R
    <2>1. InPairs(<<x>> \o q, R)
            <=> InPairs(<<x>>, R) /\ InPairs(q, R) /\ Ahead(<<x>>, q, R)
      BY <1>1, PairsConcat
    <2>2. InPairs(<<x>>, R)
      BY PairsFew
    <2> QED
      BY <2>1, <2>2, <1>1 DEF Ahead
  <1> QED
    BY <1>1, <1>2, <1>3 DEF one

LEMMA AnswersGone ==
    ASSUME Packets, NEW x \in ServerMsg, Gone(x, stuffed, cIn, stuffed', cIn'),
           stuffed' \in Seq(ServerMsg), cIn' \in Seq(ServerMsg),
           UNCHANGED <<toClient, msg, back>>
    PROVE  /\ Answers = {x} \cup Answers'
           /\ AnswerCount = AnswerCount' + 1 /\ AnswerCount' \in Nat
           /\ \A R : AnswersFollow(R) =>
                /\ AnswersFollow(R)'
                /\ \A y \in Answers' :
                     <<x, y>> \in R \/ (y \in Items(stuffed) /\ <<y, x>> \in R)
  <1>1. /\ Len(stuffed) \in Nat /\ Len(cIn) \in Nat /\ Len(toClient) \in Nat
        /\ Len(msg) \in Nat /\ Len(back) \in Nat
        /\ Len(stuffed') \in Nat /\ Len(cIn') \in Nat
    BY LenProperties DEF Packets
  <1>2. /\ toClient' = toClient /\ msg' = msg /\ back' = back
    OBVIOUS
  <1>3. CASE stuffed = <<x>> \o stuffed' /\ cIn' = cIn
    <2>1. /\ Items(stuffed) = {x} \cup Items(stuffed') /\ Len(stuffed) = Len(stuffed') + 1
          /\ \A R : InPairs(stuffed, R)
                      <=> InPairs(stuffed', R) /\ \A y \in Items(stuffed') : <<x, y>> \in R
      BY <1>3, OneFirst
    <2>2. Answers = {x} \cup Answers'
      BY <1>2, <1>3, <2>1 DEF Answers
    <2>3. AnswerCount = AnswerCount' + 1 /\ AnswerCount' \in Nat
      BY <1>1, <1>2, <1>3, <2>1 DEF AnswerCount
    <2>4. ASSUME NEW R, AnswersFollow(R)
          PROVE  AnswersFollow(R)' /\ \A y \in Answers' : <<x, y>> \in R
      BY <1>2, <1>3, <2>1, <2>4 DEF AnswersFollow, Follow, Ahead, Answers
    <2> QED
      BY <2>2, <2>3, <2>4
  <1>4. CASE cIn = <<x>> \o cIn' /\ stuffed' = stuffed
    <2>1. /\ Items(cIn) = {x} \cup Items(cIn') /\ Len(cIn) = Len(cIn') + 1
          /\ \A R : InPairs(cIn, R)
                      <=> InPairs(cIn', R) /\ \A y \in Items(cIn') : <<x, y>> \in R
      BY <1>4, OneFirst
    <2>2. Answers = {x} \cup Answers'
      BY <1>2, <1>4, <2>1 DEF Answers
    <2>3. AnswerCount = AnswerCount' + 1 /\ AnswerCount' \in Nat
      BY <1>1, <1>2, <1>4, <2>1 DEF AnswerCount
    <2>4. ASSUME NEW R, AnswersFollow(R)
          PROVE  /\ AnswersFollow(R)'
                 /\ \A y \in Answers' :
                      <<x, y>> \in R \/ (y \in Items(stuffed) /\ <<y, x>> \in R)
      BY <1>2, <1>4, <2>1, <2>4 DEF AnswersFollow, Follow, Ahead, Answers
    <2> QED
      BY <2>2, <2>3, <2>4
  <1> QED
    BY <1>3, <1>4 DEF Gone

(* The server takes the first request.                                     *)
LEMMA RequestsGone ==
    ASSUME Packets, NEW y \in ClientCmd, sIn = <<y>> \o sIn', sIn' \in Seq(ClientCmd),
           UNCHANGED <<toServer, cOut>>
    PROVE  /\ Requests = {y} \cup Requests'
           /\ RequestCount = RequestCount' + 1 /\ RequestCount' \in Nat
           /\ \A R : RequestsFollow(R) =>
                RequestsFollow(R)' /\ \A z \in Requests' : <<y, z>> \in R
  <1>1. Len(sIn') \in Nat /\ Len(toServer) \in Nat /\ Len(cOut) \in Nat
    BY LenProperties DEF Packets
  <1>2. toServer' = toServer /\ cOut' = cOut
    OBVIOUS
  <1>3. /\ Items(sIn) = {y} \cup Items(sIn') /\ Len(sIn) = Len(sIn') + 1
        /\ \A R : InPairs(sIn, R)
                    <=> InPairs(sIn', R) /\ \A z \in Items(sIn') : <<y, z>> \in R
    BY OneFirst
  <1>4. Requests = {y} \cup Requests'
    BY <1>2, <1>3 DEF Requests
  <1>5. RequestCount = RequestCount' + 1 /\ RequestCount' \in Nat
    BY <1>1, <1>2, <1>3 DEF RequestCount
  <1>6. ASSUME NEW R, RequestsFollow(R)
        PROVE  RequestsFollow(R)' /\ \A z \in Requests' : <<y, z>> \in R
    BY <1>2, <1>3, <1>6 DEF RequestsFollow, Ahead, Requests
  <1> QED
    BY <1>4, <1>5, <1>6

(* The client asks for something, or does not.                             *)
LEMMA RequestsGrow ==
    ASSUME Packets, NEW r \in Seq(ClientCmd), Len(r) <= 1, cOut' = cOut \o r,
           UNCHANGED <<sIn, toServer>>
    PROVE  /\ cOut' \in Seq(ClientCmd)
           /\ Requests' = Requests \cup Items(r)
           /\ RequestCount' = RequestCount + Len(r) /\ RequestCount \in Nat /\ Len(r) \in Nat
           /\ RequestCount = 0 <=> Requests = {}
           /\ \A R : /\ RequestsFollow(R)
                     /\ \A y \in Requests : \A z \in Items(r) : <<y, z>> \in R
                     => RequestsFollow(R)'
  <1>1. Len(sIn) \in Nat /\ Len(toServer) \in Nat /\ Len(cOut) \in Nat /\ Len(r) \in Nat
    BY LenProperties DEF Packets
  <1>2. sIn' = sIn /\ toServer' = toServer
    OBVIOUS
  <1>3. /\ cOut' \in Seq(ClientCmd) /\ Items(cOut') = Items(cOut) \cup Items(r)
        /\ Len(cOut') = Len(cOut) + Len(r)
    <2>1. cOut \in Seq(ClientCmd)
      BY DEF Packets
    <2>2. /\ cOut \o r \in Seq(ClientCmd) /\ Items(cOut \o r) = Items(cOut) \cup Items(r)
          /\ Len(cOut \o r) = Len(cOut) + Len(r)
      BY <2>1, ItemsConcat
    <2> QED
      BY <2>2
  <1>4. Requests' = Requests \cup Items(r)
    BY <1>2, <1>3 DEF Requests
  <1>5. RequestCount' = RequestCount + Len(r) /\ RequestCount \in Nat
    BY <1>1, <1>2, <1>3 DEF RequestCount
  <1>6. RequestCount = 0 <=> Requests = {}
    <2>1. /\ Items(sIn) = {} <=> sIn = <<>>
          /\ Items(toServer) = {} <=> toServer = <<>>
          /\ Items(cOut) = {} <=> cOut = <<>>
      BY ItemsIn DEF Packets
    <2>2. /\ Len(sIn) = 0 <=> sIn = <<>>
          /\ Len(toServer) = 0 <=> toServer = <<>>
          /\ Len(cOut) = 0 <=> cOut = <<>>
      BY EmptySeq DEF Packets
    <2> QED
      BY <1>1, <2>1, <2>2 DEF RequestCount, Requests
  <1>7. ASSUME NEW R, RequestsFollow(R),
               \A y \in Requests : \A z \in Items(r) : <<y, z>> \in R
        PROVE  RequestsFollow(R)'
    <2>1. InPairs(r, R)
      <3>1. DOMAIN r = 1..Len(r)
        BY LenProperties
      <3> QED
        BY <3>1, <1>1 DEF InPairs
    <2>2. InPairs(cOut \o r, R) <=> InPairs(cOut, R) /\ InPairs(r, R) /\ Ahead(cOut, r, R)
      BY PairsConcat DEF Packets
    <2>3. InPairs(cOut', R)
      BY <1>7, <2>1, <2>2 DEF RequestsFollow, Ahead, Requests
    <2> QED
      BY <1>2, <1>3, <1>7, <2>3 DEF RequestsFollow, Ahead, Requests
  <1> QED
    BY <1>1, <1>3, <1>4, <1>5, <1>6, <1>7

LEMMA WritesParts ==
    ASSUME NEW d \in Seq(ServerMsg), NEW e \in Seq(ServerMsg), NEW n \in Seq(ServerMsg),
           NEW d2, NEW e2, Writes(n, d, e, d2, e2)
    PROVE  /\ d2 \in Seq(ServerMsg) /\ e2 \in Seq(ServerMsg)
           /\ Items(d2) \subseteq Items(d) \cup Items(n)
           /\ Items(e2) \subseteq Items(e) \cup Items(n)
           /\ Items(n) \subseteq Items(d2) \cup Items(e2)
           /\ Len(d2) + Len(e2) <= Len(d) + Len(e) + Len(n)
           /\ \A R : /\ InPairs(d, R) /\ InPairs(e, R) /\ InPairs(n, R)
                     /\ Ahead(d, e, R) /\ Ahead(d, n, R) /\ Ahead(e, n, R)
                     /\ Ahead(n, e, R) \/ e2 = <<>>
                     => InPairs(d2, R) /\ InPairs(e2, R) /\ Ahead(d2, e2, R)
  <1>1. /\ d \o n \in Seq(ServerMsg) /\ Items(d \o n) = Items(d) \cup Items(n)
        /\ e \o n \in Seq(ServerMsg) /\ Items(e \o n) = Items(e) \cup Items(n)
        /\ <<>> \in Seq(ServerMsg) /\ Items(<<>>) = {}
        /\ Len(d \o n) = Len(d) + Len(n) /\ Len(e \o n) = Len(e) + Len(n) /\ Len(<<>>) = 0
        /\ Len(d) \in Nat /\ Len(e) \in Nat /\ Len(n) \in Nat
    <2>1. /\ d \o n \in Seq(ServerMsg) /\ Items(d \o n) = Items(d) \cup Items(n)
          /\ Len(d \o n) = Len(d) + Len(n) /\ Len(d) \in Nat /\ Len(n) \in Nat
      BY ItemsConcat
    <2>2. /\ e \o n \in Seq(ServerMsg) /\ Items(e \o n) = Items(e) \cup Items(n)
          /\ Len(e \o n) = Len(e) + Len(n) /\ Len(e) \in Nat
      BY ItemsConcat
    <2>3. <<>> \in Seq(ServerMsg) /\ Items(<<>>) = {} /\ Len(<<>>) = 0
      BY ItemsFew, EmptySeq
    <2> QED
      BY <2>1, <2>2, <2>3
  <1>2. ASSUME NEW R
        PROVE  /\ InPairs(d \o n, R) <=> InPairs(d, R) /\ InPairs(n, R) /\ Ahead(d, n, R)
               /\ InPairs(e \o n, R) <=> InPairs(e, R) /\ InPairs(n, R) /\ Ahead(e, n, R)
               /\ InPairs(<<>>, R)
    BY PairsConcat, PairsFew
  <1>3. CASE d2 \in {n, d \o n} /\ \E k \in 0..Len(e) : e2 = SubSeq(e, 1, k)
    <2>1. PICK k \in 0..Len(e) : e2 = SubSeq(e, 1, k)
      BY <1>3
    <2> DEFINE rest == SubSeq(e, k + 1, Len(e))
    <2>2. e2 \in Seq(ServerMsg) /\ rest \in Seq(ServerMsg) /\ e = e2 \o rest /\ Len(e2) = k
      BY <2>1, FirstAndRest
    <2> HIDE DEF rest
    <2>3. Items(e2) \subseteq Items(e)
      BY <2>2, ItemsConcat
    <2>4. ASSUME NEW R, InPairs(d, R), InPairs(e, R), InPairs(n, R), Ahead(d, e, R),
                 Ahead(d, n, R), Ahead(n, e, R) \/ e2 = <<>>
          PROVE  InPairs(d2, R) /\ InPairs(e2, R) /\ Ahead(d2, e2, R)
      <3>1. InPairs(e2, R)
        BY <2>2, <2>4, PairsConcat
      <3>2. InPairs(d2, R)
        BY <1>2, <1>3, <2>4
      <3>3. Ahead(n, e2, R)
        BY <1>1, <2>3, <2>4 DEF Ahead
      <3>4. Ahead(d, e2, R)
        BY <2>3, <2>4 DEF Ahead
      <3>5. Ahead(d2, e2, R)
        BY <1>1, <1>3, <3>3, <3>4 DEF Ahead
      <3> QED
        BY <3>1, <3>2, <3>5
    <2>5. Len(d2) + Len(e2) <= Len(d) + Len(e) + Len(n)
      BY <1>1, <1>3, <2>2
    <2>6. Items(n) \subseteq Items(d2)
      BY <1>1, <1>3
    <2> QED
      BY <1>1, <1>3, <2>2, <2>3, <2>4, <2>5, <2>6
  <1>4. CASE d2 \in {<<>>, d} /\ e2 = e \o n
    <2>1. ASSUME NEW R, InPairs(d, R), InPairs(e, R), InPairs(n, R), Ahead(d, e, R),
                 Ahead(d, n, R), Ahead(e, n, R)
          PROVE  InPairs(d2, R) /\ InPairs(e2, R) /\ Ahead(d2, e2, R)
      <3>1. InPairs(d2, R) /\ InPairs(e2, R)
        BY <1>2, <1>4, <2>1
      <3>2. Ahead(d2, e2, R)
        BY <1>1, <1>4, <2>1 DEF Ahead
      <3> QED
        BY <3>1, <3>2
    <2>2. Len(d2) + Len(e2) <= Len(d) + Len(e) + Len(n)
      BY <1>1, <1>4
    <2> QED
      BY <1>1, <1>4, <2>1, <2>2
  <1> QED
    BY <1>3, <1>4 DEF Writes

LEMMA AnswersWritten ==
    ASSUME Packets, NEW n \in Seq(ServerMsg), Writes(n, msg, back, msg', back'),
           UNCHANGED <<stuffed, cIn, toClient>>
    PROVE  /\ msg' \in Seq(ServerMsg) /\ back' \in Seq(ServerMsg)
           /\ Answers' \subseteq Answers \cup Items(n) /\ Items(n) \subseteq Answers'
           /\ Items(back') \subseteq Items(back) \cup Items(n)
           /\ AnswerCount' <= AnswerCount + Len(n)
           /\ AnswerCount \in Nat /\ AnswerCount' \in Nat /\ Len(n) \in Nat
           /\ \A R : /\ AnswersFollow(R) /\ InPairs(n, R)
                     /\ \A x \in Answers : \A m \in Items(n) : <<x, m>> \in R
                     /\ back' = <<>> \/ \A m \in Items(n) : \A z \in Items(back) : <<m, z>> \in R
                     => AnswersFollow(R)'
  <1>1. /\ msg' \in Seq(ServerMsg) /\ back' \in Seq(ServerMsg)
        /\ Items(msg') \subseteq Items(msg) \cup Items(n)
        /\ Items(back') \subseteq Items(back) \cup Items(n)
        /\ Items(n) \subseteq Items(msg') \cup Items(back')
        /\ Len(msg') + Len(back') <= Len(msg) + Len(back) + Len(n)
        /\ \A R : /\ InPairs(msg, R) /\ InPairs(back, R) /\ InPairs(n, R)
                  /\ Ahead(msg, back, R) /\ Ahead(msg, n, R) /\ Ahead(back, n, R)
                  /\ Ahead(n, back, R) \/ back' = <<>>
                  => InPairs(msg', R) /\ InPairs(back', R) /\ Ahead(msg', back', R)
    BY WritesParts DEF Packets
  <1>2. stuffed' = stuffed /\ cIn' = cIn /\ toClient' = toClient
    OBVIOUS
  <1>3. /\ Len(stuffed) \in Nat /\ Len(cIn) \in Nat /\ Len(toClient) \in Nat
        /\ Len(msg) \in Nat /\ Len(back) \in Nat /\ Len(msg') \in Nat /\ Len(back') \in Nat
        /\ Len(n) \in Nat
    BY <1>1, LenProperties DEF Packets
  <1>4. Answers' \subseteq Answers \cup Items(n) /\ Items(n) \subseteq Answers'
    BY <1>1, <1>2 DEF Answers
  <1>5. /\ AnswerCount' <= AnswerCount + Len(n)
        /\ AnswerCount \in Nat /\ AnswerCount' \in Nat
    BY <1>1, <1>2, <1>3 DEF AnswerCount
  <1>6. ASSUME NEW R, AnswersFollow(R), InPairs(n, R),
               \A x \in Answers : \A m \in Items(n) : <<x, m>> \in R,
               back' = <<>> \/ \A m \in Items(n) : \A z \in Items(back) : <<m, z>> \in R
        PROVE  AnswersFollow(R)'
    <2>1. \A q \in {stuffed, cIn, toClient, msg, back} : Ahead(q, n, R)
      BY <1>6 DEF Ahead, Answers
    <2>2. Ahead(n, back, R) \/ back' = <<>>
      BY <1>6 DEF Ahead
    <2>3. InPairs(msg', R) /\ InPairs(back', R) /\ Ahead(msg', back', R)
      BY <1>1, <1>6, <2>1, <2>2 DEF AnswersFollow, Follow
    <2>4. \A q \in {stuffed, cIn, toClient} : Ahead(q, msg', R) /\ Ahead(q, back', R)
      BY <1>1, <1>6, <2>1 DEF AnswersFollow, Follow, Ahead
    <2> QED
      BY <1>2, <1>6, <2>3, <2>4 DEF AnswersFollow, Follow
  <1> QED
    BY <1>1, <1>3, <1>4, <1>5, <1>6

LEMMA NothingThere ==
    /\ Items(<<>>) = {} /\ Len(<<>>) = 0 /\ <<>> \in Seq(ServerMsg) /\ <<>> \in Seq(ClientCmd)
    /\ \A R : InPairs(<<>>, R) /\ \A q : Ahead(<<>>, q, R) /\ Ahead(q, <<>>, R)
  <1>1. Items(<<>>) = {} /\ Len(<<>>) = 0 /\ <<>> \in Seq(ServerMsg) /\ <<>> \in Seq(ClientCmd)
    BY ItemsFew, EmptySeq
  <1>2. \A R : InPairs(<<>>, R)
    BY PairsFew
  <1> QED
    BY <1>1, <1>2 DEF Ahead

LEMMA ClientReceiveMoves ==
    ASSUME Packets, ClientReceive
    PROVE  AnswersMove
  <1>1. /\ cIn = <<>> /\ stuffed = <<>> /\ cIn' = toClient /\ toClient' = <<>>
        /\ stuffed' = stuffed /\ msg' = msg /\ back' = back
        /\ sIn' = sIn /\ toServer' = toServer /\ cOut' = cOut
    BY DEF ClientReceive, server
  <1>2. Packets'
    BY <1>1, NothingThere DEF Packets
  <1>3. Answers' = Answers
    BY <1>1, NothingThere DEF Answers
  <1>4. AnswerCount' = AnswerCount
    <2>1. Len(toClient) \in Nat /\ Len(msg) \in Nat /\ Len(back) \in Nat
      BY LenProperties DEF Packets
    <2> QED
      BY <1>1, <2>1, NothingThere DEF AnswerCount
  <1>5. \A R : AnswersFollow(R) => AnswersFollow(R)'
    BY <1>1, NothingThere DEF AnswersFollow, Follow
  <1> QED
    BY <1>2, <1>3, <1>4, <1>5 DEF AnswersMove

LEMMA ServerSendMoves ==
    ASSUME Packets, ServerSend
    PROVE  /\ AnswersMove
           /\ \E first \in Seq(ServerMsg), rest \in Seq(ServerMsg) :
                back = first \o rest /\ toClient' = msg \o first /\ back' = rest
  <1> DEFINE first == FirstBuffer(back)
             fits  == Size(msg) + Size(first) < Room
             out   == IF fits THEN msg \o first ELSE msg
  <1>1. /\ toClient = <<>> /\ toClient' = out /\ msg' = <<>>
        /\ back' = IF fits THEN SubSeq(back, Len(first) + 1, Len(back)) ELSE back
        /\ cIn' = cIn /\ stuffed' = stuffed
        /\ sIn' = sIn /\ toServer' = toServer /\ cOut' = cOut
    BY DEF ServerSend, client
  <1>2. PICK k \in 0..Len(back) : first = SubSeq(back, 1, k)
    BY FirstBufferFirst DEF Packets
  <1>3. \E u \in Seq(ServerMsg), v \in Seq(ServerMsg) :
          back = u \o v /\ toClient' = msg \o u /\ back' = v
    <2>1. CASE fits
      <3> HIDE DEF first, fits
      <3>1. Len(first) = k
        BY <1>2, FirstAndRest DEF Packets
      <3>2. /\ SubSeq(back, 1, k) \in Seq(ServerMsg)
            /\ SubSeq(back, k + 1, Len(back)) \in Seq(ServerMsg)
            /\ back = SubSeq(back, 1, k) \o SubSeq(back, k + 1, Len(back))
        BY FirstAndRest DEF Packets
      <3>3. toClient' = msg \o SubSeq(back, 1, k) /\ back' = SubSeq(back, k + 1, Len(back))
        BY <1>1, <1>2, <2>1, <3>1
      <3> QED
        BY <3>2, <3>3
    <2>2. CASE ~fits
      <3>1. toClient' = msg /\ back' = back
        BY <1>1, <2>2
      <3>2. <<>> \o back = back /\ msg \o <<>> = msg
        BY ConcatEmptySeq DEF Packets
      <3> QED
        BY <3>1, <3>2, NothingThere DEF Packets
    <2> QED
      BY <2>1, <2>2
  <1>4. PICK u \in Seq(ServerMsg), v \in Seq(ServerMsg) :
          back = u \o v /\ toClient' = msg \o u /\ back' = v
    BY <1>3
  <1> HIDE DEF out, fits, first
  <1>5. /\ Items(back) = Items(u) \cup Items(v) /\ Len(back) = Len(u) + Len(v)
        /\ Len(u) \in Nat /\ Len(v) \in Nat
    BY <1>4, ItemsConcat
  <1>6. /\ toClient' \in Seq(ServerMsg) /\ Items(toClient') = Items(msg) \cup Items(u)
        /\ Len(toClient') = Len(msg) + Len(u)
    BY <1>4, ItemsConcat DEF Packets
  <1>7. Packets'
    BY <1>1, <1>4, <1>6, NothingThere DEF Packets
  <1>8. Answers' = Answers
    BY <1>1, <1>4, <1>5, <1>6, NothingThere DEF Answers
  <1>9. AnswerCount' = AnswerCount
    <2>1. Len(stuffed) \in Nat /\ Len(cIn) \in Nat /\ Len(msg) \in Nat /\ Len(toClient) \in Nat
      BY LenProperties DEF Packets
    <2>2. /\ Len(toClient) = 0 /\ Len(msg') = 0 /\ Len(back') = Len(v)
          /\ Len(stuffed') = Len(stuffed) /\ Len(cIn') = Len(cIn)
      BY <1>1, <1>4, NothingThere
    <2>3. Len(toClient') = Len(msg) + Len(u) /\ Len(back) = Len(u) + Len(v)
      BY <1>5, <1>6
    <2> QED
      BY <1>5, <2>1, <2>2, <2>3 DEF AnswerCount
  <1>10. ASSUME NEW R, AnswersFollow(R) PROVE AnswersFollow(R)'
    <2>1. InPairs(back, R) <=> InPairs(u, R) /\ InPairs(v, R) /\ Ahead(u, v, R)
      BY <1>4, PairsConcat
    <2>2. InPairs(toClient', R) <=> InPairs(msg, R) /\ InPairs(u, R) /\ Ahead(msg, u, R)
      BY <1>4, PairsConcat DEF Packets
    <2>3. \A q : Ahead(q, back, R) => Ahead(q, u, R) /\ Ahead(q, v, R)
      BY <1>5 DEF Ahead
    <2>4. \A q : /\ Ahead(q, msg, R) /\ Ahead(q, u, R) => Ahead(q, toClient', R)
                 /\ Ahead(msg, q, R) /\ Ahead(u, q, R) => Ahead(toClient', q, R)
      BY <1>6 DEF Ahead
    <2>5. Follow(stuffed, cIn, toClient, msg, back, R)
      BY <1>10 DEF AnswersFollow
    <2>6. /\ InPairs(toClient', R) /\ InPairs(v, R) /\ Ahead(toClient', v, R)
          /\ \A q \in {stuffed, cIn} : Ahead(q, toClient', R) /\ Ahead(q, v, R)
      BY <2>1, <2>2, <2>3, <2>4, <2>5 DEF Follow
    <2>7. /\ InPairs(<<>>, R) /\ Ahead(stuffed, <<>>, R) /\ Ahead(cIn, <<>>, R)
          /\ Ahead(toClient', <<>>, R) /\ Ahead(<<>>, v, R)
      BY NothingThere
    <2>8. Follow(stuffed, cIn, toClient', <<>>, v, R)
      BY <2>5, <2>6, <2>7 DEF Follow
    <2>9. stuffed' = stuffed /\ cIn' = cIn /\ msg' = <<>> /\ back' = v
      BY <1>1, <1>4
    <2>10. Follow(stuffed', cIn', toClient', msg', back', R)
      BY <2>8, <2>9
    <2> QED
      BY <2>10 DEF AnswersFollow
  <1> QED
    BY <1>4, <1>7, <1>8, <1>9, <1>10 DEF AnswersMove

LEMMA ParseStufftextMoves ==
    ASSUME Packets, ParseStufftext
    PROVE  /\ AnswersMove
           /\ \E x \in ServerMsg : /\ cIn = <<x>> \o cIn' /\ stuffed' = stuffed \o <<x>>
                                   /\ x.op = "stuff"
  <1> DEFINE x == Head(cIn)
  <1>1. /\ cIn # <<>> /\ cIn' = Tail(cIn) /\ stuffed' = Append(stuffed, x) /\ x.op = "stuff"
        /\ toClient' = toClient /\ msg' = msg /\ back' = back
        /\ sIn' = sIn /\ toServer' = toServer /\ cOut' = cOut
    BY DEF ParseStufftext, Parses, server, inFlight
  <1>2. /\ x \in ServerMsg /\ cIn' \in Seq(ServerMsg) /\ cIn = <<x>> \o cIn'
    BY <1>1, HeadFirst DEF Packets
  <1> HIDE DEF x
  <1>3. /\ stuffed' \in Seq(ServerMsg) /\ stuffed' = stuffed \o <<x>>
        /\ Items(stuffed') = Items(stuffed) \cup {x}
    BY <1>1, <1>2, ItemsAppend DEF Packets
  <1>4. /\ Items(cIn) = {x} \cup Items(cIn') /\ Len(cIn) = Len(cIn') + 1
        /\ <<x>> \in Seq(ServerMsg) /\ Len(cIn') \in Nat
        /\ \A R : InPairs(cIn, R)
                    <=> InPairs(cIn', R) /\ \A y \in Items(cIn') : <<x, y>> \in R
    BY <1>2, OneFirst
  <1>5. Packets'
    BY <1>1, <1>2, <1>3 DEF Packets
  <1>6. Answers' = Answers
    BY <1>1, <1>3, <1>4 DEF Answers
  <1>7. AnswerCount' = AnswerCount
    <2>1. /\ Len(stuffed) \in Nat /\ Len(toClient) \in Nat /\ Len(msg) \in Nat
          /\ Len(back) \in Nat
      BY LenProperties DEF Packets
    <2>2. Len(stuffed') = Len(stuffed) + 1
      <3>1. Len(stuffed \o <<x>>) = Len(stuffed) + Len(<<x>>)
        BY <1>4, ConcatProperties DEF Packets
      <3> QED
        BY <1>3, <3>1
    <2> QED
      BY <1>1, <1>4, <2>1, <2>2 DEF AnswerCount
  <1>8. ASSUME NEW R, AnswersFollow(R) PROVE AnswersFollow(R)'
    <2>1. InPairs(stuffed', R)
            <=> InPairs(stuffed, R) /\ InPairs(<<x>>, R) /\ Ahead(stuffed, <<x>>, R)
      BY <1>3, <1>4, PairsConcat DEF Packets
    <2>2. InPairs(<<x>>, R) /\ Items(<<x>>) = {x}
      BY PairsFew, ItemsFew
    <2> QED
      BY <1>1, <1>3, <1>4, <1>8, <2>1, <2>2 DEF AnswersFollow, Follow, Ahead
  <1> QED
    BY <1>1, <1>2, <1>3, <1>5, <1>6, <1>7, <1>8 DEF AnswersMove

LEMMA RequestPacketsMove ==
    ASSUME Packets, ServerReceive \/ ClientSend
    PROVE  RequestsMove
  <1>1. /\ \/ sIn = <<>> /\ sIn' = toServer /\ toServer' = <<>> /\ cOut' = cOut
           \/ toServer = <<>> /\ toServer' = cOut /\ cOut' = <<>> /\ sIn' = sIn
        /\ stuffed' = stuffed /\ cIn' = cIn /\ toClient' = toClient /\ msg' = msg
        /\ back' = back
    BY DEF ServerReceive, ClientSend, server, client
  <1>2. Packets'
    BY <1>1, NothingThere DEF Packets
  <1>3. Requests' = Requests
    BY <1>1, NothingThere DEF Requests
  <1>4. RequestCount' = RequestCount
    <2>1. Len(sIn) \in Nat /\ Len(toServer) \in Nat /\ Len(cOut) \in Nat
      BY LenProperties DEF Packets
    <2> QED
      BY <1>1, <2>1, NothingThere DEF RequestCount
  <1>5. \A R : RequestsFollow(R) => RequestsFollow(R)'
    BY <1>1, NothingThere DEF RequestsFollow
  <1> QED
    BY <1>2, <1>3, <1>4, <1>5 DEF RequestsMove

-----------------------------------------------------------------------------
(* What an answer needs is there before it.                                *)

LEMMA CoveredParts ==
    ASSUME NEW S, NEW a \in Seq(S), NEW b \in Seq(S), NEW h, NEW dl, NEW calm
    PROVE  /\ Covered(a \o b, h, dl, calm)
                <=> Covered(a, h, dl, calm) /\ Covered(b, h \cup Carried(a), dl, calm)
           /\ Carried(a \o b) = Carried(a) \cup Carried(b)
  <1>1. /\ Len(a) \in Nat /\ Len(b) \in Nat
        /\ DOMAIN a = 1..Len(a) /\ DOMAIN b = 1..Len(b)
    BY LenProperties
  <1>2. /\ a \o b \in Seq(S) /\ Len(a \o b) = Len(a) + Len(b)
        /\ \A i \in 1..Len(a) + Len(b) :
             (a \o b)[i] = IF i <= Len(a) THEN a[i] ELSE b[i - Len(a)]
    BY ConcatProperties
  <1>3. DOMAIN (a \o b) = 1..Len(a) + Len(b)
    BY <1>2, LenProperties
  <1> DEFINE c == a \o b
             Before(q, i) == UNION {Carries(q[k]) : k \in 1..i - 1}
  <1>4. \A i \in DOMAIN a : i \in DOMAIN c /\ c[i] = a[i]
    BY <1>1, <1>2, <1>3
  <1>5. \A i \in DOMAIN b : Len(a) + i \in DOMAIN c /\ c[Len(a) + i] = b[i]
    BY <1>1, <1>2, <1>3
  <1>6. \A i \in DOMAIN c : i \in DOMAIN a \/ (i - Len(a) \in DOMAIN b)
    BY <1>1, <1>3
  <1> HIDE DEF c
  <1>7. \A i \in DOMAIN a : Before(c, i) = Before(a, i)
    <2> SUFFICES ASSUME NEW i \in DOMAIN a PROVE Before(c, i) = Before(a, i)
      OBVIOUS
    <2>1. \A k \in 1..i - 1 : c[k] = a[k]
      BY <1>1, <1>4
    <2> QED
      BY <2>1
  <1>8. Carried(a) = UNION {Carries(a[k]) : k \in 1..Len(a)}
    BY <1>1 DEF Carried, Items
  <1>9. \A i \in DOMAIN b : Before(c, Len(a) + i) = Carried(a) \cup Before(b, i)
    <2> SUFFICES ASSUME NEW i \in DOMAIN b
                 PROVE  Before(c, Len(a) + i) = Carried(a) \cup Before(b, i)
      OBVIOUS
    <2>1. \A k \in 1..(Len(a) + i - 1) :
            \/ k \in 1..Len(a) /\ c[k] = a[k]
            \/ k - Len(a) \in 1..i - 1 /\ c[k] = b[k - Len(a)]
      <3> SUFFICES ASSUME NEW k \in 1..(Len(a) + i - 1), k \notin 1..Len(a)
                   PROVE  k - Len(a) \in 1..i - 1 /\ c[k] = b[k - Len(a)]
        BY <1>1, <1>4
      <3>1. k - Len(a) \in 1..i - 1 /\ k - Len(a) \in DOMAIN b /\ Len(a) + (k - Len(a)) = k
        BY <1>1
      <3> QED
        BY <3>1, <1>5
    <2>2. \A k \in 1..Len(a) : k \in 1..(Len(a) + i - 1) /\ c[k] = a[k]
      BY <1>1, <1>4
    <2>3. \A k \in 1..i - 1 : Len(a) + k \in 1..(Len(a) + i - 1) /\ c[Len(a) + k] = b[k]
      BY <1>1, <1>5
    <2>4. Before(c, Len(a) + i) \subseteq Carried(a) \cup Before(b, i)
      BY <1>8, <2>1
    <2>5. Carried(a) \subseteq Before(c, Len(a) + i)
      BY <1>8, <2>2
    <2>6. Before(b, i) \subseteq Before(c, Len(a) + i)
      BY <2>3
    <2> QED
      BY <2>4, <2>5, <2>6
  <1>10. Covered(c, h, dl, calm)
           <=> \A i \in DOMAIN c : Needs(c[i], dl, calm) \subseteq h \cup Before(c, i)
    BY DEF Covered
  <1>11. Covered(a, h, dl, calm)
           <=> \A i \in DOMAIN a : Needs(a[i], dl, calm) \subseteq h \cup Before(a, i)
    BY DEF Covered
  <1>12. Covered(b, h \cup Carried(a), dl, calm)
           <=> \A i \in DOMAIN b :
                 Needs(b[i], dl, calm) \subseteq (h \cup Carried(a)) \cup Before(b, i)
    BY DEF Covered
  <1> HIDE DEF Before
  <1>13. Covered(c, h, dl, calm)
           => Covered(a, h, dl, calm) /\ Covered(b, h \cup Carried(a), dl, calm)
    <2> SUFFICES ASSUME Covered(c, h, dl, calm)
                 PROVE  Covered(a, h, dl, calm) /\ Covered(b, h \cup Carried(a), dl, calm)
      OBVIOUS
    <2>1. ASSUME NEW i \in DOMAIN a
          PROVE  Needs(a[i], dl, calm) \subseteq h \cup Before(a, i)
      BY <1>4, <1>7, <1>10
    <2>2. ASSUME NEW i \in DOMAIN b
          PROVE  Needs(b[i], dl, calm) \subseteq (h \cup Carried(a)) \cup Before(b, i)
      <3>1. Needs(c[Len(a) + i], dl, calm) \subseteq h \cup Before(c, Len(a) + i)
        BY <1>5, <1>10
      <3>2. Needs(b[i], dl, calm) \subseteq h \cup (Carried(a) \cup Before(b, i))
        BY <3>1, <1>5, <1>9
      <3> QED
        BY <3>2
    <2> QED
      BY <1>11, <1>12, <2>1, <2>2
  <1>14. Covered(a, h, dl, calm) /\ Covered(b, h \cup Carried(a), dl, calm)
           => Covered(c, h, dl, calm)
    <2> SUFFICES ASSUME Covered(a, h, dl, calm), Covered(b, h \cup Carried(a), dl, calm),
                        NEW i \in DOMAIN c
                 PROVE  Needs(c[i], dl, calm) \subseteq h \cup Before(c, i)
      BY <1>10
    <2>1. CASE i \in DOMAIN a
      BY <2>1, <1>4, <1>7, <1>11
    <2>2. CASE i - Len(a) \in DOMAIN b
      <3> DEFINE j == i - Len(a)
      <3>1. Len(a) + j = i
        BY <1>1, <1>3 DEF c
      <3> HIDE DEF j
      <3>2. j \in DOMAIN b
        BY <2>2 DEF j
      <3>3. Needs(b[j], dl, calm) \subseteq (h \cup Carried(a)) \cup Before(b, j)
        BY <1>12, <3>2
      <3>4. c[i] = b[j] /\ Before(c, i) = Carried(a) \cup Before(b, j)
        BY <1>5, <1>9, <3>1, <3>2
      <3> QED
        BY <3>3, <3>4
    <2> QED
      BY <1>6, <2>1, <2>2
  <1>15. Items(a \o b) = Items(a) \cup Items(b)
    BY ItemsConcat
  <1>16. Carried(a \o b) = Carried(a) \cup Carried(b)
    BY <1>15 DEF Carried
  <1> QED
    BY <1>13, <1>14, <1>16 DEF c

LEMMA CoveredAll ==
    ASSUME NEW q, NEW h, NEW dl, NEW calm, \A x \in Items(q) : Needs(x, dl, calm) \subseteq h
    PROVE  Covered(q, h, dl, calm)
  BY DEF Covered, Items

LEMMA CoveredFew ==
    ASSUME NEW x, NEW h, NEW dl, NEW calm
    PROVE  /\ Covered(<<>>, h, dl, calm) /\ Carried(<<>>) = {} /\ Carried(<<x>>) = Carries(x)
           /\ Covered(<<x>>, h, dl, calm) <=> Needs(x, dl, calm) \subseteq h
  <1>1. Items(<<>>) = {} /\ Items(<<x>>) = {x}
    BY ItemsFew
  <1>2. Carried(<<>>) = {} /\ Carried(<<x>>) = Carries(x)
    BY <1>1 DEF Carried
  <1>3. Covered(<<>>, h, dl, calm)
    BY <1>1, CoveredAll
  <1>4. Needs(x, dl, calm) \subseteq h => Covered(<<x>>, h, dl, calm)
    BY <1>1, CoveredAll
  <1>5. ASSUME Covered(<<x>>, h, dl, calm) PROVE Needs(x, dl, calm) \subseteq h
    <2>1. 1 \in DOMAIN <<x>> /\ <<x>>[1] = x
      OBVIOUS
    <2>2. Needs(x, dl, calm) \subseteq h \cup UNION {Carries(<<x>>[k]) : k \in 1..1 - 1}
      BY <1>5, <2>1 DEF Covered
    <2>3. 1..1 - 1 = {}
      OBVIOUS
    <2> QED
      BY <2>2, <2>3
  <1> QED
    BY <1>2, <1>3, <1>4, <1>5

LEMMA CoveredFirst ==
    ASSUME NEW S, NEW x \in S, NEW q \in Seq(S), NEW h, NEW dl, NEW calm
    PROVE  /\ Covered(<<x>> \o q, h, dl, calm)
                <=> Needs(x, dl, calm) \subseteq h /\ Covered(q, h \cup Carries(x), dl, calm)
           /\ Carried(<<x>> \o q) = Carries(x) \cup Carried(q)
  <1> DEFINE one == <<x>>
  <1>1. one \in Seq(S)
    BY OneFirst
  <1>2. /\ Carried(one) = Carries(x)
        /\ Covered(one, h, dl, calm) <=> Needs(x, dl, calm) \subseteq h
    BY CoveredFew
  <1> HIDE DEF one
  <1>3. /\ Covered(one \o q, h, dl, calm)
             <=> Covered(one, h, dl, calm) /\ Covered(q, h \cup Carried(one), dl, calm)
        /\ Carried(one \o q) = Carried(one) \cup Carried(q)
    BY <1>1, CoveredParts
  <1> QED
    BY <1>2, <1>3 DEF one

LEMMA CoveredMore ==
    ASSUME NEW q, NEW h, NEW dl, NEW calm, Covered(q, h, dl, calm),
           NEW h2, NEW dl2, NEW calm2, h \subseteq h2,
           \A x \in Items(q) : Needs(x, dl2, calm2) \subseteq Needs(x, dl, calm) \cup h2
    PROVE  Covered(q, h2, dl2, calm2)
  <1> SUFFICES ASSUME NEW i \in DOMAIN q
               PROVE  Needs(q[i], dl2, calm2)
                        \subseteq h2 \cup UNION {Carries(q[k]) : k \in 1..i - 1}
    BY DEF Covered
  <1> DEFINE before == UNION {Carries(q[k]) : k \in 1..i - 1}
  <1>1. Needs(q[i], dl, calm) \subseteq h \cup before
    BY DEF Covered
  <1>2. Needs(q[i], dl2, calm2) \subseteq Needs(q[i], dl, calm) \cup h2
    BY DEF Items
  <1> HIDE DEF before
  <1>3. Needs(q[i], dl2, calm2) \subseteq h2 \cup before
    BY <1>1, <1>2
  <1> QED
    BY <1>3 DEF before

LEMMA CoveredWrites ==
    ASSUME NEW d \in Seq(ServerMsg), NEW e \in Seq(ServerMsg), NEW n \in Seq(ServerMsg),
           NEW d2, NEW e2, Writes(n, d, e, d2, e2), NEW h, NEW dl, NEW calm,
           Covered(d, h, dl, calm), Covered(e, h, dl, calm), Covered(n, h, dl, calm)
    PROVE  Covered(d2, h, dl, calm) /\ Covered(e2, h, dl, calm)
  <1>1. ASSUME NEW q \in Seq(ServerMsg), Covered(q, h, dl, calm)
        PROVE  Covered(q \o n, h, dl, calm)
    <2>1. Covered(n, h \cup Carried(q), dl, calm)
      BY CoveredMore
    <2> QED
      BY <1>1, <2>1, CoveredParts
  <1>2. ASSUME NEW k \in 0..Len(e), e2 = SubSeq(e, 1, k)
        PROVE  Covered(e2, h, dl, calm)
    <2> DEFINE rest == SubSeq(e, k + 1, Len(e))
    <2>1. e2 \in Seq(ServerMsg) /\ rest \in Seq(ServerMsg) /\ e = e2 \o rest
      BY <1>2, FirstAndRest
    <2> HIDE DEF rest
    <2> QED
      BY <2>1, CoveredParts
  <1>3. Covered(<<>>, h, dl, calm)
    BY CoveredFew
  <1>4. Covered(d \o n, h, dl, calm) /\ Covered(e \o n, h, dl, calm)
    BY <1>1
  <1>5. CASE d2 \in {n, d \o n} /\ \E k \in 0..Len(e) : e2 = SubSeq(e, 1, k)
    BY <1>2, <1>4, <1>5
  <1>6. CASE d2 \in {<<>>, d} /\ e2 = e \o n
    BY <1>3, <1>4, <1>6
  <1> QED
    BY <1>5, <1>6 DEF Writes

LEMMA AsksByName ==
    ASSUME NEW x, NEW dl, NEW calm, NEW nores
    PROVE  /\ x.cmd = "soundlist" => Asks(x, dl, calm, nores) = SoundsTo(x.n)
           /\ x.cmd = "modellist" =>
                Asks(x, dl, calm, nores) = AfterSounds(calm) \cup ModelsTo(x.n)
           /\ x.cmd \in {"prespawn", "spawn"} => Asks(x, dl, calm, nores) = BeforePlace(x)
           /\ x.cmd = "begin" =>
                Asks(x, dl, calm, nores) = IF nores THEN Everything ELSE {}
           /\ x.cmd \in Transfers => Asks(x, dl, calm, nores) = AfterTransfer(dl)
  BY DEF Asks, Transfers

-----------------------------------------------------------------------------
(* What the client does with the first of the answers.                     *)

LEMMA MessageFields ==
    ASSUME NEW x \in ServerMsg
    PROVE  /\ x.op \in {"text", "download", "serverdata", "stuff"} \cup Lists
           /\ x.op = "text" => x = Text
           /\ x.op = "serverdata" => x.level \in Nat
           /\ x.op = "stuff" => x.cmd \in StuffNames /\ x.level \in Nat /\ x.n \in Nat
           /\ x.op = "download" => x.last \in BOOLEAN
           /\ x.op \in Lists => x.level \in Nat /\ x.from \in Nat /\ x.upto \in Nat /\ x.next \in Nat
  <1>1. CASE x \in [op : {"text"}]
    BY <1>1 DEF Text, Lists
  <1>2. CASE x \in [op : {"download"}, last : BOOLEAN]
    BY <1>2 DEF Lists
  <1>3. CASE x \in [op : {"serverdata"}, level : Nat]
    BY <1>3 DEF Lists
  <1>4. CASE x \in [op : {"stuff"}, cmd : StuffNames, level : Nat, n : Nat]
    BY <1>4 DEF Lists
  <1>5. CASE x \in [op : Lists, level : Nat, from : Nat, upto : Nat, next : Nat]
    BY <1>5 DEF Lists
  <1> QED
    BY <1>1, <1>2, <1>3, <1>4, <1>5 DEF ServerMsg

LEMMA CommandFields ==
    ASSUME NEW c \in CommandNames, NEW l \in Nat, NEW n \in Nat, NEW s \in BOOLEAN
    PROVE  /\ Cmd(c, l, n, s) \in ClientCmd
           /\ Cmd(c, l, n, s).cmd = c /\ Cmd(c, l, n, s).level = l
           /\ Cmd(c, l, n, s).n = n /\ Cmd(c, l, n, s).sum = s
  BY DEF Cmd, ClientCmd

LEMMA ReadsTypes ==
    ASSUME SignonTypes, ClientTypes, NEW x, NEW r, Reads(x, r)
    PROVE  SignonTypes'
  <1>1. /\ x \in ServerMsg /\ r \in Seq(ClientCmd) /\ Len(r) <= 1
        /\ Gone(x, stuffed, cIn, stuffed', cIn')
        /\ stuffed' \in Seq(ServerMsg) /\ cIn' \in Seq(ServerMsg)
        /\ cOut' = cOut \o r /\ missing' \in 0..missing
        /\ \A q \in Items(r) : RequestOK(q, level)
    BY DEF Reads, Reply
  <1>2. /\ level' = level /\ sstate' = sstate /\ scount' = scount /\ pext' = pext
        /\ upload' = upload /\ msg' = msg /\ back' = back /\ sIn' = sIn
        /\ toClient' = toClient /\ toServer' = toServer /\ servercount' = servercount
        /\ prints' = prints /\ restarts' = restarts /\ midway' = midway
    BY DEF Reads, server, inFlight
  <1>3. Packets /\ Messages /\ SignonTypeOK /\ Limits
    BY DEF SignonTypes
  <1>4. Answers = {x} \cup Answers'
    BY <1>1, <1>2, <1>3, AnswersGone
  <1>5. cOut' \in Seq(ClientCmd) /\ Requests' = Requests \cup Items(r)
    BY <1>1, <1>2, <1>3, RequestsGrow
  <1>6. Packets'
    BY <1>1, <1>2, <1>3, <1>5 DEF Packets
  <1>7. Items(stuffed') \subseteq Items(stuffed)
    BY <1>1, OneFirst DEF Gone
  <1>8. Messages'
    <2>1. \A z \in Items(stuffed') : z.op = "stuff"
      BY <1>3, <1>7 DEF Messages
    <2>2. \A z \in Answers' : AnswerOK(z, level')
      BY <1>2, <1>3, <1>4 DEF Messages
    <2>3. \A z \in Requests' : RequestOK(z, level')
      BY <1>1, <1>2, <1>3, <1>5 DEF Messages
    <2>4. \A z \in Items(back') : z.op # "serverdata"
      BY <1>2, <1>3 DEF Messages
    <2> QED
      BY <2>1, <2>2, <2>3, <2>4 DEF Messages
  <1>9. Limits'
    <2>1. missing' \in 0..MaxDownloads
      <3>1. missing \in 0..MaxDownloads /\ MaxDownloads \in Nat
        BY <1>3, SignonNaturals DEF Limits
      <3> QED
        BY <1>1, <3>1
    <2> QED
      BY <1>2, <1>3, <2>1 DEF Limits, ClientTypes
  <1>10. SignonTypeOK'
    BY <1>2, <1>3 DEF SignonTypeOK, ClientTypes
  <1> QED
    BY <1>6, <1>8, <1>9, <1>10 DEF SignonTypes

(* The first message of the packet, and the first stuffed command.         *)
LEMMA ParsesFirst ==
    ASSUME SignonTypes, NEW op, Parses(op)
    PROVE  /\ Head(cIn) \in ServerMsg /\ Head(cIn) \in Answers /\ Head(cIn).op = op
           /\ AnswerOK(Head(cIn), level)
           /\ cIn' \in Seq(ServerMsg) /\ cIn = <<Head(cIn)>> \o cIn'
           /\ cstate # "failed"
  <1>1. cIn # <<>> /\ Head(cIn).op = op /\ cIn' = Tail(cIn) /\ cstate # "failed"
    BY DEF Parses, Running
  <1>2. /\ Head(cIn) \in ServerMsg /\ Tail(cIn) \in Seq(ServerMsg)
        /\ cIn = <<Head(cIn)>> \o Tail(cIn)
        /\ Items(cIn) = {Head(cIn)} \cup Items(Tail(cIn))
    BY <1>1, HeadFirst DEF SignonTypes, Packets
  <1>3. Head(cIn) \in Answers
    BY <1>2 DEF Answers
  <1>4. AnswerOK(Head(cIn), level)
    BY <1>3 DEF SignonTypes, Messages
  <1> QED
    BY <1>1, <1>2, <1>3, <1>4

LEMMA ExecutesFirst ==
    ASSUME SignonTypes, NEW c, Execute(c)
    PROVE  /\ Head(stuffed) \in ServerMsg /\ Head(stuffed) \in Answers
           /\ Head(stuffed).op = "stuff" /\ Head(stuffed).cmd \in c
           /\ AnswerOK(Head(stuffed), level)
           /\ stuffed' \in Seq(ServerMsg) /\ stuffed = <<Head(stuffed)>> \o stuffed'
           /\ cstate # "failed"
  <1>1. stuffed # <<>> /\ Head(stuffed).cmd \in c /\ stuffed' = Tail(stuffed) /\ cstate # "failed"
    BY DEF Execute, Executes, Running
  <1>2. /\ Head(stuffed) \in ServerMsg /\ Tail(stuffed) \in Seq(ServerMsg)
        /\ stuffed = <<Head(stuffed)>> \o Tail(stuffed)
        /\ Items(stuffed) = {Head(stuffed)} \cup Items(Tail(stuffed))
    BY <1>1, HeadFirst DEF SignonTypes, Packets
  <1>3. Head(stuffed) \in Answers /\ Head(stuffed).op = "stuff"
    BY <1>2 DEF Answers, SignonTypes, Messages
  <1>4. AnswerOK(Head(stuffed), level)
    BY <1>3 DEF SignonTypes, Messages
  <1> QED
    BY <1>1, <1>2, <1>3, <1>4

(* The names a list brings.                                                *)
LEMMA StoreAdds ==
    ASSUME SignonTypes, NEW x \in ServerMsg, x.op \in Lists, AnswerOK(x, level), Store(x)
    PROVE  /\ names' \in [Lists -> SUBSET (Nat \X Nat)]
           /\ \A k \in Lists : names'[k] \subseteq (1..level) \X All(k)
           /\ x.level = servercount =>
                \A ld : HeldOf(names, ld, servercount) \cup Carries(x)
                          \subseteq HeldOf(names', ld, servercount)
  <1> DEFINE new == {<<x.level, i>> : i \in x.from + 1 .. x.upto}
  <1>1. /\ x.level \in 1..level /\ x.from \in Nat /\ x.upto \in Nat /\ x.from <= x.upto
        /\ ListOK(x, level)
    BY MessageFields DEF AnswerOK, ListOK
  <1>2. names' = [names EXCEPT ![x.op] = @ \cup new]
    BY DEF Store
  <1>3. /\ names \in [Lists -> SUBSET (Nat \X Nat)]
        /\ \A k \in Lists : names[k] \subseteq (1..level) \X All(k)
        /\ level \in Nat
    <2>1. level \in 1..MaxLevel
      BY DEF SignonTypes, SignonTypeOK
    <2>2. level \in Nat
      BY <2>1
    <2> QED
      BY <2>2 DEF SignonTypes, Limits, SignonTypeOK
  <1>4. new \subseteq (1..level) \X All(x.op)
    <2> SUFFICES ASSUME NEW i \in x.from + 1 .. x.upto PROVE i \in All(x.op)
      BY <1>1
    <2>1. /\ Statics \in Nat /\ Buffers \in Nat /\ Sounds \in Nat /\ Models \in Nat
          /\ Players \in Nat
      BY SignonNaturals
    <2>2. i \in Nat /\ 1 <= i /\ i <= x.upto /\ x.from < i
      BY <1>1
    <2>3. CASE x.op = "sounds"
      BY <1>1, <2>1, <2>2, <2>3 DEF ListOK, All
    <2>4. CASE x.op = "models"
      <3>1. x.upto <= Models
        BY <1>1, <2>4 DEF ListOK
      <3> QED
        BY <1>1, <2>1, <2>2, <2>4, <3>1 DEF All
    <2>5. CASE x.op = "statics"
      BY <1>1, <2>1, <2>2, <2>5 DEF ListOK, All
    <2>6. CASE x.op = "buffers"
      BY <1>1, <2>1, <2>2, <2>6 DEF ListOK, All
    <2>7. CASE x.op = "players"
      BY <1>1, <2>1, <2>2, <2>7 DEF ListOK, All
    <2> QED
      BY <2>3, <2>4, <2>5, <2>6, <2>7 DEF Lists
  <1>5. new \subseteq Nat \X Nat
    BY <1>1
  <1>6. \A k \in Lists : names'[k] = IF k = x.op THEN names[k] \cup new ELSE names[k]
    BY <1>2, <1>3
  <1>7. names' \in [Lists -> SUBSET (Nat \X Nat)]
    BY <1>2, <1>3, <1>5
  <1>8. \A k \in Lists : names'[k] \subseteq (1..level) \X All(k)
    BY <1>3, <1>4, <1>6
  <1>9. ASSUME x.level = servercount, NEW ld
        PROVE  HeldOf(names, ld, servercount) \cup Carries(x)
                 \subseteq HeldOf(names', ld, servercount)
    <2>1. HeldOf(names, ld, servercount) \subseteq HeldOf(names', ld, servercount)
      BY <1>6 DEF HeldOf
    <2>2. \A j \in x.from + 1 .. x.upto :
            <<x.op, j>> \in Lists \X Nat /\ <<servercount, j>> \in names'[x.op]
      <3> SUFFICES ASSUME NEW j \in x.from + 1 .. x.upto
                   PROVE  <<x.op, j>> \in Lists \X Nat /\ <<servercount, j>> \in names'[x.op]
        OBVIOUS
      <3>1. j \in Nat
        BY <1>1
      <3>2. <<x.level, j>> \in new
        OBVIOUS
      <3> QED
        BY <1>6, <1>9, <3>1, <3>2
    <2>3. Carries(x) \subseteq HeldOf(names', ld, servercount)
      BY <2>2 DEF Carries, HeldOf
    <2> QED
      BY <2>1, <2>3
  <1> QED
    BY <1>7, <1>8, <1>9

LEMMA OneRequest ==
    ASSUME NEW q \in ClientCmd
    PROVE  /\ <<q>> \in Seq(ClientCmd) /\ Len(<<q>>) <= 1 /\ Items(<<q>>) = {q}
           /\ <<>> \in Seq(ClientCmd) /\ Len(<<>>) <= 1 /\ Items(<<>>) = {}
           /\ Packets => Append(cOut, q) = cOut \o <<q>> /\ cOut = cOut \o <<>>
  <1>1. <<q>> \in Seq(ClientCmd) /\ Items(<<q>>) = {q} /\ Len(<<q>>) = 1
    <2>1. <<q>> \in Seq(ClientCmd)
      OBVIOUS
    <2> QED
      BY <2>1, ItemsFew
  <1>2. <<>> \in Seq(ClientCmd) /\ Len(<<>>) = 0 /\ Items(<<>>) = {}
    BY NothingThere
  <1>3. Packets => Append(cOut, q) = cOut \o <<q>> /\ cOut = cOut \o <<>>
    BY ItemsAppend, ConcatEmptySeq DEF Packets
  <1> QED
    BY <1>1, <1>2, <1>3

LEMMA SignonScalars ==
    ASSUME SignonTypes
    PROVE  /\ level \in 1..MaxLevel /\ level \in Nat /\ servercount \in 0..level
           /\ level \in 0..level
           /\ servercount \in Nat /\ loaded \in 0..servercount /\ missing \in Nat
           /\ missing <= MaxDownloads /\ Packets /\ scount \in 0..level
           /\ names \in [Lists -> SUBSET (Nat \X Nat)]
           /\ \A k \in Lists : names[k] \subseteq (1..level) \X All(k)
           /\ cstate \in {"disconnected", "connected", "onserver", "active", "failed", "died"}
           /\ dltype \in {"none", "listed", "skin"} /\ file \in BOOLEAN
  <1>1. /\ level \in 1..MaxLevel /\ servercount \in 0..level /\ scount \in 0..level
        /\ loaded \in 0..servercount
        /\ \A k \in Lists : names[k] \subseteq (1..level) \X All(k)
        /\ cstate \in {"disconnected", "connected", "onserver", "active", "failed", "died"}
        /\ dltype \in {"none", "listed", "skin"} /\ file \in BOOLEAN
    BY DEF SignonTypes, SignonTypeOK
  <1>2. /\ missing \in 0..MaxDownloads /\ Packets
        /\ names \in [Lists -> SUBSET (Nat \X Nat)]
    BY DEF SignonTypes, Limits
  <1>3. MaxLevel \in Nat /\ MaxDownloads \in Nat
    BY SignonNaturals
  <1>4. /\ level \in Nat /\ level \in 0..level /\ servercount \in Nat
        /\ missing \in Nat /\ missing <= MaxDownloads
    BY <1>1, <1>2, <1>3
  <1> QED
    BY <1>1, <1>2, <1>4

LEMMA NextListedReplies ==
    ASSUME SignonTypes, NEW x, x.op \in {"models", "download"},
           NextListed(cOut, names'), servercount' = servercount, level' = level,
           names' \in [Lists -> SUBSET (Nat \X Nat)],
           \A k \in Lists : names'[k] \subseteq (1..level) \X All(k)
    PROVE  ListedReplies(x)
  <1>0. /\ level \in 1..MaxLevel /\ level \in Nat /\ servercount \in 0..level
        /\ servercount \in Nat /\ loaded \in 0..servercount /\ missing \in Nat
        /\ missing <= MaxDownloads /\ Packets
        /\ cstate \in {"disconnected", "connected", "onserver", "active", "failed", "died"}
    BY SignonScalars
  <1>d. MaxDownloads \in Nat
    BY SignonNaturals
  <1>1. Have' = HeldOf(names', loaded', servercount)
    BY DEF Have
  <1>2. CASE /\ missing > 0 /\ missing' = missing - 1 /\ dltype' = "listed"
             /\ cOut' = Append(cOut, Cmd("download", 0, 0, FALSE))
             /\ UNCHANGED <<cstate, loaded>>
    <2> DEFINE q == Cmd("download", 0, 0, FALSE)
    <2>1. q \in ClientCmd /\ q.cmd = "download"
      BY <1>0 DEF Cmd, ClientCmd, CommandNames
    <2> HIDE DEF q
    <2>2. /\ <<q>> \in Seq(ClientCmd) /\ Len(<<q>>) <= 1 /\ Items(<<q>>) = {q}
          /\ cOut' = cOut \o <<q>>
      BY <1>0, <1>2, <2>1, OneRequest DEF q
    <2>3. missing' \in 0..missing /\ missing' < MaxDownloads
      BY <1>0, <1>d, <1>2
    <2>4. Reply(x, q)
      BY <1>0, <2>1, <2>3 DEF Reply, RequestOK, Transfers, Guarded
    <2>5. Asks(q, dltype', Quiet, NoRestart) = ModelsTo(Models)
      BY <1>0, <1>2, <2>1 DEF Asks, Transfers, AfterTransfer
    <2>6. loaded' = loaded /\ cstate' = cstate
      BY <1>0, <1>2
    <2> QED
      BY <1>0, <1>1, <1>2, <2>2, <2>3, <2>4, <2>5, <2>6 DEF ListedReplies
  <1>3. CASE /\ dltype' = "listed" /\ missing' = missing
             /\ \E l \in 1..MaxLevel : <<l, 1>> \in names'["models"]
             /\ cOut' = Append(cOut, Cmd("prespawn", servercount, 0, TRUE))
             /\ loaded' = IF Holds(names', servercount, "models") THEN servercount ELSE 0
             /\ UNCHANGED cstate
    <2> DEFINE q == Cmd("prespawn", servercount, 0, TRUE)
    <2>1. /\ q \in ClientCmd /\ q.cmd = "prespawn" /\ q.level = servercount /\ q.n = 0
          /\ q.sum = TRUE
      BY <1>0 DEF Cmd, ClientCmd, CommandNames
    <2> HIDE DEF q
    <2>2. /\ <<q>> \in Seq(ClientCmd) /\ Len(<<q>>) <= 1 /\ Items(<<q>>) = {q}
          /\ cOut' = cOut \o <<q>>
      BY <1>0, <1>3, <2>1, OneRequest DEF q
    <2>3. 0 \in 0 .. Statics + Buffers - 1
      BY SignonNaturals
    <2>4. Reply(x, q)
      BY <1>0, <2>1, <2>3 DEF Reply, RequestOK, PlaceOK, Guarded
    <2>5. loaded' \in 0..servercount /\ missing' \in 0..missing /\ cstate' = cstate
      BY <1>0, <1>3
    <2>6. ASSUME ModelsTo(Models) \subseteq HeldOf(names', loaded, servercount)
          PROVE  /\ HeldOf(names', loaded, servercount) \subseteq Have'
                 /\ Asks(q, dltype', Quiet, NoRestart) \subseteq Have'
      <3>1. \A i \in 1..Models : <<servercount, i>> \in names'["models"]
        <4> SUFFICES ASSUME NEW i \in 1..Models
                     PROVE  <<servercount, i>> \in names'["models"]
          OBVIOUS
        <4>1. <<"models", i>> \in HeldOf(names', loaded, servercount)
          BY <2>6 DEF ModelsTo
        <4> QED
          BY <4>1 DEF HeldOf
      <3>2. loaded' = servercount
        BY <1>0, <1>3, <3>1 DEF Holds, All
      <3>3. /\ HeldOf(names', loaded, servercount) \subseteq HeldOf(names', loaded', servercount)
            /\ <<"loaded", 0>> \in HeldOf(names', loaded', servercount)
        BY <3>2 DEF HeldOf
      <3>4. WorldTo(0) = {}
        BY DEF WorldTo
      <3>5. Asks(q, dltype', Quiet, NoRestart) = Loaded
        BY <2>1, <3>4 DEF Asks, BeforePlace, Guarded, Transfers
      <3> QED
        BY <1>0, <1>1, <2>6, <3>3, <3>5 DEF Loaded
    <2> QED
      BY <1>0, <1>3, <2>2, <2>4, <2>5, <2>6 DEF ListedReplies
  <1>4. CASE /\ dltype' = "listed" /\ missing' = missing
             /\ ~ \E l \in 1..MaxLevel : <<l, 1>> \in names'["models"]
             /\ cstate' = "failed" /\ UNCHANGED <<cOut, loaded>>
    <2>1. /\ <<>> \in Seq(ClientCmd) /\ Len(<<>>) <= 1 /\ Items(<<>>) = {}
          /\ cOut' = cOut \o <<>>
      <3>1. Cmd("new", 0, 0, FALSE) \in ClientCmd
        BY <1>0 DEF Cmd, ClientCmd, CommandNames
      <3> QED
        BY <1>0, <1>4, <3>1, OneRequest
    <2>2. ~(ModelsTo(Models) \subseteq HeldOf(names', loaded, servercount))
      <3> SUFFICES ASSUME ModelsTo(Models) \subseteq HeldOf(names', loaded, servercount)
                   PROVE  FALSE
        OBVIOUS
      <3>1. 1 \in 1..Models
        BY SignonNaturals
      <3>2. <<"models", 1>> \in HeldOf(names', loaded, servercount)
        BY <3>1 DEF ModelsTo
      <3>3. <<servercount, 1>> \in names'["models"]
        BY <3>2 DEF HeldOf
      <3>4. names'["models"] \subseteq (1..level) \X All("models")
        BY DEF Lists
      <3>5. servercount \in 1..level
        BY <3>3, <3>4
      <3>6. servercount \in 1..MaxLevel
        BY <1>0, <3>5, SignonNaturals
      <3> QED
        BY <1>0, <1>4, <3>3, <3>6
    <2>3. loaded' \in 0..servercount /\ missing' \in 0..missing
      BY <1>0, <1>4
    <2> QED
      BY <1>0, <1>4, <2>1, <2>2, <2>3 DEF ListedReplies
  <1> QED
    BY <1>0, <1>2, <1>3, <1>4 DEF NextListed

LEMMA NextSkinReplies ==
    ASSUME SignonTypes, NEW x, x.op = "download" \/ (x.op = "stuff" /\ x.cmd \notin Restarts),
           NextSkin(cOut)
    PROVE  SkinReplies(x)
  <1>0. /\ level \in 1..MaxLevel /\ level \in Nat /\ servercount \in 0..level
        /\ servercount \in Nat /\ loaded \in 0..servercount /\ missing \in Nat
        /\ missing <= MaxDownloads /\ Packets
        /\ cstate \in {"disconnected", "connected", "onserver", "active", "failed", "died"}
    BY SignonScalars
  <1>d. MaxDownloads \in Nat
    BY SignonNaturals
  <1>1. CASE /\ missing > 0 /\ missing' = missing - 1 /\ dltype' = "skin"
             /\ cOut' = Append(cOut, Cmd("download", 0, 0, FALSE))
    <2> DEFINE q == Cmd("download", 0, 0, FALSE)
    <2>1. q \in ClientCmd /\ q.cmd = "download"
      BY <1>0 DEF Cmd, ClientCmd, CommandNames
    <2> HIDE DEF q
    <2>2. /\ <<q>> \in Seq(ClientCmd) /\ Len(<<q>>) <= 1 /\ Items(<<q>>) = {q}
          /\ cOut' = cOut \o <<q>>
      BY <1>0, <1>1, <2>1, OneRequest DEF q
    <2>3. missing' \in 0..missing /\ missing' < MaxDownloads
      BY <1>0, <1>d, <1>1
    <2>4. Reply(x, q)
      BY <1>0, <2>1, <2>3 DEF Reply, RequestOK, Transfers, Guarded
    <2>5. Asks(q, dltype', Quiet, NoRestart) = Everything /\ AfterTransfer(dltype') = Everything
      BY <1>0, <1>1, <2>1 DEF Asks, Transfers, AfterTransfer
    <2> QED
      BY <1>0, <1>1, <2>2, <2>3, <2>4, <2>5 DEF SkinReplies
  <1>2. CASE dltype' = "none" /\ missing' = missing /\ cstate = "onserver"
             /\ cOut' = Append(cOut, Cmd("begin", servercount, 0, FALSE))
    <2> DEFINE q == Cmd("begin", servercount, 0, FALSE)
    <2>1. q \in ClientCmd /\ q.cmd = "begin" /\ q.level = servercount
      BY <1>0 DEF Cmd, ClientCmd, CommandNames
    <2> HIDE DEF q
    <2>2. /\ <<q>> \in Seq(ClientCmd) /\ Len(<<q>>) <= 1 /\ Items(<<q>>) = {q}
          /\ cOut' = cOut \o <<q>>
      BY <1>0, <1>2, <2>1, OneRequest DEF q
    <2>4. Reply(x, q)
      BY <1>0, <2>1 DEF Reply, RequestOK, Guarded
    <2>5. Asks(q, dltype', Quiet, NoRestart) \subseteq Everything /\ AfterTransfer(dltype') = {}
      BY <1>0, <1>2, <2>1 DEF Asks, AfterTransfer
    <2>6. missing' \in 0..missing
      BY <1>0, <1>2
    <2> QED
      BY <1>0, <1>2, <2>2, <2>4, <2>5, <2>6 DEF SkinReplies
  <1>3. CASE dltype' = "none" /\ missing' = missing /\ cOut' = cOut
    <2>1. /\ <<>> \in Seq(ClientCmd) /\ Len(<<>>) <= 1 /\ Items(<<>>) = {}
          /\ cOut' = cOut \o <<>>
      <3>1. Cmd("new", 0, 0, FALSE) \in ClientCmd
        BY <1>0 DEF Cmd, ClientCmd, CommandNames
      <3> QED
        BY <1>0, <1>3, <3>1, OneRequest
    <2>2. AfterTransfer(dltype') = {} /\ missing' \in 0..missing
      BY <1>0, <1>3 DEF AfterTransfer
    <2> QED
      BY <1>0, <1>3, <2>1, <2>2 DEF SkinReplies
  <1> QED
    BY <1>0, <1>1, <1>2, <1>3 DEF NextSkin

(* The reading side of a message of the packet, and of a stuffed command.  *)
LEMMA ParsedIsGone ==
    ASSUME SignonTypes, NEW op, Parses(op), stuffed' = stuffed,
           NEW r \in Seq(ClientCmd), Len(r) <= 1, cOut' = cOut \o r,
           missing' \in 0..missing, \A q \in Items(r) : Reply(Head(cIn), q),
           UNCHANGED <<server, inFlight, servercount, prints, restarts, midway>>
    PROVE  Reads(Head(cIn), r)
  <1>1. /\ Head(cIn) \in ServerMsg
        /\ cIn' \in Seq(ServerMsg) /\ cIn = <<Head(cIn)>> \o cIn'
    BY ParsesFirst
  <1>2. stuffed' \in Seq(ServerMsg)
    BY DEF SignonTypes, Packets
  <1>3. Gone(Head(cIn), stuffed, cIn, stuffed', cIn')
    BY <1>1 DEF Gone
  <1> QED
    BY <1>1, <1>2, <1>3 DEF Reads

LEMMA ExecutedIsGone ==
    ASSUME SignonTypes, NEW c, Execute(c),
           NEW r \in Seq(ClientCmd), Len(r) <= 1, cOut' = cOut \o r,
           missing' \in 0..missing, \A q \in Items(r) : Reply(Head(stuffed), q)
    PROVE  Reads(Head(stuffed), r)
  <1>1. /\ Head(stuffed) \in ServerMsg
        /\ stuffed' \in Seq(ServerMsg) /\ stuffed = <<Head(stuffed)>> \o stuffed'
    BY ExecutesFirst
  <1>2. cIn' = cIn /\ UNCHANGED <<server, inFlight, servercount, prints, restarts, midway>>
    BY DEF Execute, Executes
  <1>3. cIn' \in Seq(ServerMsg)
    BY <1>2 DEF SignonTypes, Packets
  <1>4. Gone(Head(stuffed), stuffed, cIn, stuffed', cIn')
    BY <1>1, <1>2 DEF Gone
  <1> QED
    BY <1>1, <1>2, <1>3, <1>4 DEF Reads

LEMMA NoReply ==
    ASSUME SignonTypes, cOut' = cOut, missing' = missing
    PROVE  /\ <<>> \in Seq(ClientCmd) /\ Len(<<>>) <= 1 /\ Items(<<>>) = {}
           /\ cOut' = cOut \o <<>> /\ missing' \in 0..missing
  <1>1. missing \in Nat /\ cOut \in Seq(ClientCmd)
    BY SignonScalars DEF Packets
  <1>2. /\ <<>> \in Seq(ClientCmd) /\ Len(<<>>) = 0 /\ Items(<<>>) = {}
    BY NothingThere
  <1>3. cOut \o <<>> = cOut
    BY <1>1, ConcatEmptySeq
  <1> QED
    BY <1>1, <1>2, <1>3

LEMMA ParseTextActs ==
    ASSUME SignonTypes, ParseText
    PROVE  ClientTypes /\ ClientActs
  <1> DEFINE x == Head(cIn)
  <1>1. /\ Parses("text") /\ stuffed' = stuffed /\ cOut' = cOut /\ missing' = missing
        /\ names' = names /\ loaded' = loaded /\ cstate' = cstate /\ dltype' = dltype
        /\ file' = file /\ servercount' = servercount
        /\ UNCHANGED <<server, inFlight, servercount, prints, restarts, midway>>
    BY DEF ParseText, limits
  <1>2. ClientTypes
    BY <1>1, SignonScalars DEF ClientTypes
  <1>3. Reads(x, <<>>)
    BY <1>1, NoReply, ParsedIsGone
  <1>4. x.op = "text"
    BY <1>1, ParsesFirst
  <1>5. Carries(x) = {} /\ Items(<<>>) = {}
    BY <1>4, NothingThere DEF Carries, Lists
  <1>6. Have' = Have
    BY <1>1 DEF Have
  <1>7. Meant(x) => Learns(x, <<>>)
    BY <1>1, <1>5, <1>6 DEF Meant, Learns
  <1> QED
    BY <1>2, <1>3, <1>7 DEF ClientActs

LEMMA ParseStaticActs ==
    ASSUME SignonTypes, ParseStatic
    PROVE  ClientTypes /\ ClientActs
  <1> DEFINE x == Head(cIn)
  <1>1. /\ stuffed' = stuffed /\ cOut' = cOut /\ missing' = missing
        /\ loaded' = loaded /\ cstate' = cstate /\ dltype' = dltype
        /\ file' = file /\ servercount' = servercount /\ Store(x)
        /\ UNCHANGED <<server, inFlight, servercount, prints, restarts, midway>>
    BY DEF ParseStatic, limits
  <1>p. PICK op \in {"statics", "buffers", "players"} : Parses(op)
    BY DEF ParseStatic
  <1>2. x \in ServerMsg /\ x.op = op /\ AnswerOK(x, level) /\ x.op \in Lists
    BY <1>p, ParsesFirst DEF Lists
  <1>3. Reads(x, <<>>)
    BY <1>1, <1>p, NoReply, ParsedIsGone
  <1>4. /\ names' \in [Lists -> SUBSET (Nat \X Nat)]
        /\ \A k \in Lists : names'[k] \subseteq (1..level) \X All(k)
        /\ x.level = servercount =>
             \A ld : HeldOf(names, ld, servercount) \cup Carries(x)
                       \subseteq HeldOf(names', ld, servercount)
    BY <1>1, <1>2, StoreAdds
  <1>5. ClientTypes
    BY <1>1, <1>4, SignonScalars DEF ClientTypes
  <1>6. Meant(x) => Learns(x, <<>>)
    <2> SUFFICES ASSUME Meant(x) PROVE Learns(x, <<>>)
      OBVIOUS
    <2>1. x.level = servercount
      BY <1>2 DEF Meant, FitsIn
    <2>2. Have \cup Carries(x) \subseteq Have'
      BY <1>1, <1>4, <2>1 DEF Have
    <2> QED
      BY <1>1, <2>2, NothingThere DEF Meant, Learns
  <1> QED
    BY <1>3, <1>5, <1>6 DEF ClientActs

LEMMA ParseSoundlistActs ==
    ASSUME SignonTypes, ParseSoundlist
    PROVE  ClientTypes /\ ClientActs
  <1> DEFINE x == Head(cIn)
             q == IF x.next # 0 THEN Cmd("soundlist", servercount, x.next, FALSE)
                                ELSE Cmd("modellist", servercount, 0, FALSE)
  <1>1. /\ stuffed' = stuffed /\ missing' = missing /\ Parses("sounds")
        /\ loaded' = loaded /\ cstate' = cstate /\ dltype' = dltype
        /\ file' = file /\ servercount' = servercount /\ Store(x)
        /\ cOut' = Append(cOut, q)
        /\ UNCHANGED <<server, inFlight, servercount, prints, restarts, midway>>
    BY DEF ParseSoundlist, limits
  <1>2. x \in ServerMsg /\ x.op = "sounds" /\ AnswerOK(x, level) /\ x.op \in Lists
    BY <1>1, ParsesFirst DEF Lists
  <1>3. x.from \in Nat /\ x.upto \in Nat /\ x.next \in Nat
    BY <1>2, MessageFields
  <1>4. /\ x.next \in {0, x.upto} /\ x.next < Sounds /\ x.from <= x.upto /\ x.upto <= Sounds
    BY <1>2 DEF AnswerOK, ListOK
  <1>5. /\ names' \in [Lists -> SUBSET (Nat \X Nat)]
        /\ \A k \in Lists : names'[k] \subseteq (1..level) \X All(k)
        /\ x.level = servercount =>
             \A ld : HeldOf(names, ld, servercount) \cup Carries(x)
                       \subseteq HeldOf(names', ld, servercount)
    BY <1>1, <1>2, StoreAdds
  <1>6. ClientTypes
    BY <1>1, <1>5, SignonScalars DEF ClientTypes
  <1> HIDE DEF x
  <1>s. servercount \in Nat /\ missing \in Nat /\ servercount <= level /\ Packets
    <2>1. servercount \in 0..level /\ level \in Nat /\ missing \in Nat /\ Packets
      BY SignonScalars
    <2> QED
      BY <2>1
  <1>7. /\ q \in ClientCmd /\ q.level = servercount
        /\ x.next # 0 => q.cmd = "soundlist" /\ q.n = x.next
        /\ x.next = 0 => q.cmd = "modellist" /\ q.n = 0
    BY <1>3, <1>s DEF Cmd, ClientCmd, CommandNames
  <1> HIDE DEF q
  <1>8. Reply(x, q)
    <2>1. x.next # 0 => x.next \in 0 .. Sounds - 1
      BY <1>3, <1>4, SignonNaturals
    <2>2. 0 \in 0 .. Models - 1
      BY SignonNaturals
    <2> QED
      BY <1>2, <1>7, <1>s, <2>1, <2>2 DEF Reply, RequestOK, Guarded
  <1>9. /\ <<q>> \in Seq(ClientCmd) /\ Len(<<q>>) <= 1 /\ Items(<<q>>) = {q}
        /\ cOut' = cOut \o <<q>>
    BY <1>1, <1>7, <1>s, OneRequest
  <1>10. Reads(x, <<q>>)
    <2>1. missing' \in 0..missing
      BY <1>1, <1>s
    <2> QED
      BY <1>1, <1>8, <1>9, <2>1, ParsedIsGone DEF x
  <1>11. Meant(x) => Learns(x, <<q>>)
    <2> SUFFICES ASSUME Meant(x) PROVE Learns(x, <<q>>)
      OBVIOUS
    <2>1. x.level = servercount
      BY <1>2 DEF Meant, FitsIn
    <2>2. Have \cup Carries(x) \subseteq Have'
      BY <1>1, <1>5, <2>1 DEF Have
    <2>3. SoundsTo(x.from) \subseteq Have
      BY <1>2 DEF Meant, Needs
    <2>4. SoundsTo(x.upto) \subseteq SoundsTo(x.from) \cup Carries(x)
      BY <1>2, <1>3, <1>4 DEF SoundsTo, Carries
    <2>5. ModelsTo(0) = {}
      BY DEF ModelsTo
    <2>6. Asks(q, dltype', Quiet, NoRestart) \subseteq SoundsTo(x.upto)
      <3>1. CASE x.next # 0
        BY <1>4, <1>7, <3>1, AsksByName
      <3>2. CASE x.next = 0
        <4>1. Quiet => x.upto = Sounds
          BY <1>2, <3>2 DEF Meant
        <4>2. Asks(q, dltype', Quiet, NoRestart) = AfterSounds(Quiet)
          BY <1>7, <2>5, <3>2, AsksByName
        <4> QED
          BY <4>1, <4>2 DEF AfterSounds
      <3> QED
        BY <3>1, <3>2
    <2>7. Asks(q, dltype', Quiet, NoRestart) \subseteq Have'
      BY <2>2, <2>3, <2>4, <2>6
    <2> QED
      BY <1>1, <1>9, <2>2, <2>7 DEF Meant, Learns
  <1> QED
    BY <1>6, <1>10, <1>11 DEF ClientActs

LEMMA ParseModellistActs ==
    ASSUME SignonTypes, ParseModellist
    PROVE  ClientTypes /\ ClientActs
  <1> DEFINE x == Head(cIn)
             high == x.upto - (x.upto % ByteValues)
             q == Cmd("modellist", servercount, high + x.next, FALSE)
  <1>1. /\ stuffed' = stuffed /\ Parses("models")
        /\ file' = file /\ servercount' = servercount /\ Store(x)
        /\ UNCHANGED <<server, inFlight, servercount, prints, restarts, midway>>
    BY DEF ParseModellist
  <1>a. level' = level
    BY <1>1 DEF server
  <1>2. x \in ServerMsg /\ x.op = "models" /\ AnswerOK(x, level) /\ x.op \in Lists
    BY <1>1, ParsesFirst DEF Lists
  <1>3. x.from \in Nat /\ x.upto \in Nat /\ x.next \in Nat
    BY <1>2, MessageFields
  <1>4. /\ x.from <= x.upto /\ x.upto <= Models
        /\ IF x.next = 0 THEN x.upto = Models
                         ELSE x.upto < Models /\ x.next = x.upto % ByteValues
    BY <1>2 DEF AnswerOK, ListOK
  <1>5. /\ names' \in [Lists -> SUBSET (Nat \X Nat)]
        /\ \A k \in Lists : names'[k] \subseteq (1..level) \X All(k)
        /\ x.level = servercount =>
             \A ld : HeldOf(names, ld, servercount) \cup Carries(x)
                       \subseteq HeldOf(names', ld, servercount)
    BY <1>1, <1>2, StoreAdds
  <1>s. /\ servercount \in Nat /\ missing \in Nat /\ servercount <= level /\ Packets
        /\ loaded \in 0..servercount
        /\ cstate \in {"disconnected", "connected", "onserver", "active", "failed", "died"}
        /\ dltype \in {"none", "listed", "skin"} /\ file \in BOOLEAN
    <2>1. /\ servercount \in 0..level /\ level \in Nat /\ missing \in Nat /\ Packets
          /\ loaded \in 0..servercount
          /\ cstate \in {"disconnected", "connected", "onserver", "active", "failed", "died"}
          /\ dltype \in {"none", "listed", "skin"} /\ file \in BOOLEAN
      BY SignonScalars
    <2> QED
      BY <2>1
  <1>6. Carries(x) \cup ModelsTo(x.from) = ModelsTo(x.upto)
    BY <1>2, <1>3, <1>4 DEF ModelsTo, Carries
  <1>7. Meant(x) => /\ x.level = servercount /\ ModelsTo(x.from) \subseteq Have
                    /\ AfterSounds(Quiet) \subseteq Have /\ cstate # "failed"
    BY <1>2 DEF Meant, FitsIn, Needs
  <1>8. CASE x.next # 0
    <2>1. /\ cOut' = Append(cOut, q) /\ cstate' = cstate /\ loaded' = loaded
          /\ dltype' = dltype /\ missing' = missing
      BY <1>8 DEF ParseModellist
    <2>2. high + x.next = x.upto
      <3>1. x.next = x.upto % ByteValues
        BY <1>4, <1>8
      <3> DEFINE w == x.upto % ByteValues
                 u == x.upto
      <3>2. u \in Nat /\ x.next \in Nat /\ w = x.next
        BY <1>3, <3>1
      <3> HIDE DEF w, u
      <3>3. (u - w) + x.next = u
        BY <3>2
      <3> QED
        BY <3>3 DEF u, w
    <2>3. /\ q \in ClientCmd /\ q.level = servercount /\ q.cmd = "modellist" /\ q.n = x.upto
      BY <1>3, <1>s, <2>2 DEF Cmd, ClientCmd, CommandNames
    <2> HIDE DEF q, x, high
    <2>4. Reply(x, q)
      <3>1. x.upto \in 0 .. Models - 1
        BY <1>3, <1>4, <1>8, SignonNaturals
      <3> QED
        BY <1>2, <2>3, <1>s, <3>1 DEF Reply, RequestOK, Guarded
    <2>5. /\ <<q>> \in Seq(ClientCmd) /\ Len(<<q>>) <= 1 /\ Items(<<q>>) = {q}
          /\ cOut' = cOut \o <<q>>
      BY <2>1, <2>3, <1>s, OneRequest
    <2>6. Reads(x, <<q>>)
      <3>1. missing' \in 0..missing
        BY <2>1, <1>s
      <3> QED
        BY <1>1, <2>4, <2>5, <3>1, ParsedIsGone DEF x
    <2>7. Meant(x) => Learns(x, <<q>>)
      <3> SUFFICES ASSUME Meant(x) PROVE Learns(x, <<q>>)
        OBVIOUS
      <3>1. Have \cup Carries(x) \subseteq Have'
        BY <1>1, <1>5, <1>7, <2>1 DEF Have
      <3>2. Asks(q, dltype', Quiet, NoRestart) = AfterSounds(Quiet) \cup ModelsTo(x.upto)
        BY <2>3, AsksByName
      <3>3. Asks(q, dltype', Quiet, NoRestart) \subseteq Have'
        BY <1>6, <1>7, <3>1, <3>2
      <3> QED
        BY <1>7, <2>1, <2>5, <3>1, <3>3 DEF Learns
    <2>8. ClientTypes
      BY <1>1, <1>5, <1>s, <2>1 DEF ClientTypes
    <2> QED
      BY <2>6, <2>7, <2>8 DEF ClientActs
  <1>9. CASE x.next = 0
    <2>1. NextListed(cOut, names')
      BY <1>9 DEF ParseModellist
    <2>2. x.op \in {"models", "download"}
      BY <1>2
    <2> HIDE DEF x
    <2>a. ListedReplies(x)
      BY <1>1, <1>a, <1>5, <2>1, <2>2, NextListedReplies
    <2>3. /\ missing' \in 0..missing /\ dltype' = "listed" /\ loaded' \in 0..servercount
          /\ cstate' \in {"disconnected", "connected", "onserver", "active", "failed", "died"}
      BY <2>a DEF ListedReplies
    <2>4. PICK r \in Seq(ClientCmd) :
               /\ Len(r) <= 1 /\ cOut' = cOut \o r
               /\ \A p \in Items(r) : Reply(x, p)
               /\ /\ ModelsTo(Models) \subseteq HeldOf(names', loaded, servercount)
                  /\ cstate # "failed"
                  => /\ HeldOf(names', loaded, servercount) \subseteq Have'
                     /\ \A p \in Items(r) : Asks(p, dltype', Quiet, NoRestart) \subseteq Have'
                     /\ cstate' # "failed"
      BY <2>a DEF ListedReplies
    <2>5. Reads(x, r)
      BY <1>1, <2>3, <2>4, ParsedIsGone DEF x
    <2>6. Meant(x) => Learns(x, r)
      <3> SUFFICES ASSUME Meant(x) PROVE Learns(x, r)
        OBVIOUS
      <3>1. Have \cup Carries(x) \subseteq HeldOf(names', loaded, servercount)
        BY <1>5, <1>7 DEF Have
      <3>2. ModelsTo(Models) \subseteq HeldOf(names', loaded, servercount)
        BY <1>4, <1>6, <1>7, <1>9, <3>1
      <3>3. /\ HeldOf(names', loaded, servercount) \subseteq Have'
            /\ \A p \in Items(r) : Asks(p, dltype', Quiet, NoRestart) \subseteq Have'
            /\ cstate' # "failed"
        BY <1>7, <2>4, <3>2
      <3>4. AfterTransfer(dltype') = ModelsTo(Models)
        BY <2>3 DEF AfterTransfer
      <3> QED
        BY <3>1, <3>2, <3>3, <3>4 DEF Learns
    <2>7. ClientTypes
      BY <1>1, <1>5, <1>s, <2>3 DEF ClientTypes
    <2> QED
      BY <2>5, <2>6, <2>7 DEF ClientActs
  <1> QED
    BY <1>8, <1>9

LEMMA ParseDownloadActs ==
    ASSUME SignonTypes, ParseDownload
    PROVE  ClientTypes /\ ClientActs
  <1> DEFINE x == Head(cIn)
             q == Cmd("nextdl", 0, 0, FALSE)
  <1>1. /\ stuffed' = stuffed /\ Parses("download") /\ file' = ~x.last
        /\ names' = names /\ servercount' = servercount /\ level' = level
        /\ UNCHANGED <<server, inFlight, servercount, prints, restarts, midway>>
    BY DEF ParseDownload, server
  <1>2. x \in ServerMsg /\ x.op = "download" /\ AnswerOK(x, level)
    BY <1>1, ParsesFirst
  <1>s. /\ servercount \in Nat /\ missing \in Nat /\ Packets
        /\ loaded \in 0..servercount
        /\ cstate \in {"disconnected", "connected", "onserver", "active", "failed", "died"}
        /\ dltype \in {"none", "listed", "skin"}
        /\ names' \in [Lists -> SUBSET (Nat \X Nat)]
        /\ \A k \in Lists : names'[k] \subseteq (1..level) \X All(k)
    BY <1>1, SignonScalars
  <1>f. file' \in BOOLEAN
    BY <1>1, <1>2, MessageFields
  <1>3. Carries(x) = {}
    BY <1>2 DEF Carries, Lists
  <1>4. Meant(x) => AfterTransfer(dltype) \subseteq Have /\ cstate # "failed"
    BY <1>2 DEF Meant, Needs
  <1>5. /\ q \in ClientCmd /\ q.cmd = "nextdl"
        /\ <<q>> \in Seq(ClientCmd) /\ Len(<<q>>) <= 1 /\ Items(<<q>>) = {q}
        /\ Append(cOut, q) = cOut \o <<q>>
    <2>1. q \in ClientCmd /\ q.cmd = "nextdl"
      BY DEF Cmd, ClientCmd, CommandNames
    <2> HIDE DEF q
    <2> QED
      BY <2>1, <1>s, OneRequest
  <1> HIDE DEF x, q
  <1>6. CASE ~x.last
    <2>1. /\ cOut' = cOut \o <<q>> /\ cstate' = cstate /\ loaded' = loaded
          /\ dltype' = dltype /\ missing' = missing
      BY <1>5, <1>6 DEF ParseDownload, x, q
    <2>2. Reply(x, q)
      BY <1>2, <1>5 DEF Reply, RequestOK, Transfers, Guarded
    <2>3. Reads(x, <<q>>)
      <3>1. missing' \in 0..missing
        BY <2>1, <1>s
      <3> QED
        BY <1>1, <1>5, <2>1, <2>2, <3>1, ParsedIsGone DEF x
    <2>4. Have' = Have
      BY <1>1, <2>1 DEF Have
    <2>5. Asks(q, dltype', Quiet, NoRestart) = AfterTransfer(dltype)
      BY <1>5, <2>1, AsksByName DEF Transfers
    <2>6. Meant(x) => Learns(x, <<q>>)
      BY <1>3, <1>4, <1>5, <2>1, <2>4, <2>5 DEF Learns
    <2>7. ClientTypes
      BY <1>1, <1>f, <1>s, <2>1 DEF ClientTypes
    <2> QED
      BY <2>3, <2>6, <2>7 DEF ClientActs
  <1>7. CASE x.last /\ dltype = "listed"
    <2>1. NextListed(cOut, names')
      BY <1>1, <1>7 DEF ParseDownload, x
    <2>a. ListedReplies(x)
      BY <1>1, <1>2, <1>s, <2>1, NextListedReplies
    <2>3. /\ missing' \in 0..missing /\ dltype' = "listed" /\ loaded' \in 0..servercount
          /\ cstate' \in {"disconnected", "connected", "onserver", "active", "failed", "died"}
      BY <2>a DEF ListedReplies
    <2>4. PICK r \in Seq(ClientCmd) :
               /\ Len(r) <= 1 /\ cOut' = cOut \o r
               /\ \A p \in Items(r) : Reply(x, p)
               /\ /\ ModelsTo(Models) \subseteq HeldOf(names', loaded, servercount)
                  /\ cstate # "failed"
                  => /\ HeldOf(names', loaded, servercount) \subseteq Have'
                     /\ \A p \in Items(r) : Asks(p, dltype', Quiet, NoRestart) \subseteq Have'
                     /\ cstate' # "failed"
      BY <2>a DEF ListedReplies
    <2>5. Reads(x, r)
      BY <1>1, <2>3, <2>4, ParsedIsGone DEF x
    <2>6. Have = HeldOf(names', loaded, servercount)
      BY <1>1 DEF Have
    <2>7. AfterTransfer(dltype) = ModelsTo(Models)
      BY <1>7 DEF AfterTransfer
    <2>8. Meant(x) => Learns(x, r)
      BY <1>3, <1>4, <1>7, <2>3, <2>4, <2>6, <2>7 DEF Learns
    <2>9. ClientTypes
      BY <1>1, <1>f, <1>s, <2>3 DEF ClientTypes
    <2> QED
      BY <2>5, <2>8, <2>9 DEF ClientActs
  <1>8. CASE x.last /\ dltype = "skin"
    <2>1. NextSkin(cOut) /\ cstate' = cstate /\ loaded' = loaded
      BY <1>8 DEF ParseDownload, x
    <2>a. SkinReplies(x)
      BY <1>2, <2>1, NextSkinReplies
    <2>3. /\ missing' \in 0..missing /\ dltype' \in {"none", "skin"}
          /\ AfterTransfer(dltype') \subseteq Everything
      BY <2>a DEF SkinReplies
    <2>4. PICK r \in Seq(ClientCmd) :
               /\ Len(r) <= 1 /\ cOut' = cOut \o r
               /\ \A p \in Items(r) :
                    Reply(x, p) /\ Asks(p, dltype', Quiet, NoRestart) \subseteq Everything
      BY <2>a DEF SkinReplies
    <2>5. Reads(x, r)
      BY <1>1, <2>3, <2>4, ParsedIsGone DEF x
    <2>6. Have' = Have
      BY <1>1, <2>1 DEF Have
    <2>7. AfterTransfer(dltype) = Everything
      BY <1>8 DEF AfterTransfer
    <2>8. Meant(x) => Learns(x, r)
      BY <1>3, <1>4, <2>1, <2>3, <2>4, <2>6, <2>7 DEF Learns
    <2>9. ClientTypes
      BY <1>1, <1>f, <1>s, <2>1, <2>3 DEF ClientTypes
    <2> QED
      BY <2>5, <2>8, <2>9 DEF ClientActs
  <1>9. CASE x.last /\ dltype \notin {"listed", "skin"}
    <2>1. /\ cOut' = cOut /\ cstate' = cstate /\ loaded' = loaded
          /\ dltype' = dltype /\ missing' = missing
      BY <1>9 DEF ParseDownload, x
    <2>3. Reads(x, <<>>)
      BY <1>1, <2>1, NoReply, ParsedIsGone DEF x
    <2>4. Have' = Have
      BY <1>1, <2>1 DEF Have
    <2>6. Meant(x) => Learns(x, <<>>)
      BY <1>3, <1>4, <2>1, <2>4, NothingThere DEF Learns
    <2>7. ClientTypes
      BY <1>1, <1>f, <1>s, <2>1 DEF ClientTypes
    <2> QED
      BY <2>3, <2>6, <2>7 DEF ClientActs
  <1> QED
    BY <1>6, <1>7, <1>8, <1>9

LEMMA ForwardToServerActs ==
    ASSUME SignonTypes, ~Away, ForwardToServer
    PROVE  ClientTypes /\ ClientActs
  <1> DEFINE x == Head(stuffed)
             q == Cmd(x.cmd, x.level, x.n, FALSE)
  <1>1. /\ Execute({"pext", "new", "prespawn", "spawn"})
        /\ cOut' = Append(cOut, q) /\ cstate' = cstate /\ dltype' = dltype
        /\ missing' = missing
        /\ names' = names /\ servercount' = servercount /\ loaded' = loaded /\ file' = file
    BY DEF ForwardToServer, Execute, Executes, Away
  <1>2. /\ x \in ServerMsg /\ x.op = "stuff" /\ AnswerOK(x, level)
        /\ x.cmd \in {"pext", "new", "prespawn", "spawn"}
    BY <1>1, ExecutesFirst
  <1>s. missing \in Nat /\ Packets
    BY SignonScalars
  <1>3. x.cmd \in {"prespawn", "spawn"} => PlaceOK(x) /\ x.level <= level
    BY <1>2 DEF AnswerOK, Restarts
  <1>a. x.level \in Nat /\ x.n \in Nat
    BY <1>2, MessageFields
  <1> HIDE DEF x
  <1>4. /\ q \in ClientCmd /\ q.cmd = x.cmd /\ q.level = x.level /\ q.n = x.n
    BY <1>2, <1>a DEF Cmd, ClientCmd, CommandNames
  <1> HIDE DEF q
  <1>5. /\ <<q>> \in Seq(ClientCmd) /\ Len(<<q>>) <= 1 /\ Items(<<q>>) = {q}
        /\ cOut' = cOut \o <<q>>
    BY <1>1, <1>4, <1>s, OneRequest
  <1>6. Reply(x, q)
    <2>1. CASE x.cmd \in {"pext", "new"}
      BY <1>2, <1>4, <2>1 DEF Reply, RequestOK, Restarts, Guarded
    <2>2. CASE x.cmd \in {"prespawn", "spawn"}
      <3>1. RequestOK(q, level)
        BY <1>3, <1>4, <2>2 DEF RequestOK, PlaceOK
      <3> QED
        BY <1>2, <1>4, <2>2, <3>1 DEF Reply, Restarts, Guarded
    <2> QED
      BY <1>2, <2>1, <2>2
  <1>7. Reads(x, <<q>>)
    <2>1. missing' \in 0..missing
      BY <1>1, <1>s
    <2> QED
      BY <1>1, <1>5, <1>6, <2>1, ExecutedIsGone DEF x
  <1>8. Have' = Have /\ Carries(x) = {}
    BY <1>1, <1>2 DEF Have, Carries, Lists
  <1>9. Meant(x) => Asks(q, dltype', Quiet, NoRestart) \subseteq Have /\ cstate # "failed"
    <2>1. CASE x.cmd \in {"pext", "new"}
      BY <1>4, <2>1 DEF Asks, Meant, Transfers
    <2>2. CASE x.cmd \in {"prespawn", "spawn"}
      <3>1. BeforePlace(q) = BeforePlace(x)
        BY <1>4 DEF BeforePlace
      <3>2. Needs(x, dltype, Quiet) = BeforePlace(x)
        BY <1>2, <2>2 DEF Needs
      <3>3. Asks(q, dltype', Quiet, NoRestart) = BeforePlace(q)
        BY <1>4, <2>2, AsksByName
      <3> QED
        BY <3>1, <3>2, <3>3 DEF Meant
    <2> QED
      BY <1>2, <2>1, <2>2
  <1>10. Meant(x) => Learns(x, <<q>>)
    BY <1>1, <1>5, <1>8, <1>9 DEF Learns
  <1>11. ClientTypes
    BY <1>1, SignonScalars DEF ClientTypes
  <1> QED
    BY <1>7, <1>10, <1>11 DEF ClientActs

LEMMA ChangingReconnectActs ==
    ASSUME SignonTypes, ~Away, ChangingReconnect
    PROVE  ClientTypes /\ ClientActs
  <1> DEFINE x == Head(stuffed)
             q == Cmd("new", 0, 0, FALSE)
  <1>1. /\ Execute({"changing reconnect"}) /\ dltype' = dltype /\ missing' = missing
        /\ names' = names /\ servercount' = servercount /\ loaded' = loaded /\ file' = file
    BY DEF ChangingReconnect, Execute, Executes
  <1>2. x.op = "stuff" /\ x.cmd = "changing reconnect"
    <2>1. x.op = "stuff" /\ x.cmd \in {"changing reconnect"}
      BY Zenon, <1>1, ExecutesFirst
    <2> HIDE DEF x
    <2> QED
      BY <2>1
  <1>s. missing \in Nat /\ Packets /\ missing' \in 0..missing
    <2>1. missing \in Nat /\ Packets
      BY SignonScalars
    <2>2. missing' = missing
      BY <1>1
    <2> QED
      BY <2>1, <2>2
  <1>3. /\ q \in ClientCmd /\ q.cmd = "new"
        /\ <<q>> \in Seq(ClientCmd) /\ Len(<<q>>) <= 1 /\ Items(<<q>>) = {q}
        /\ Append(cOut, q) = cOut \o <<q>>
    <2>1. q \in ClientCmd /\ q.cmd = "new"
      BY DEF Cmd, ClientCmd, CommandNames
    <2> HIDE DEF q
    <2> QED
      BY <2>1, <1>s, OneRequest
  <1>4. Have' = Have /\ Carries(x) = {}
    BY <1>1, <1>2 DEF Have, Carries, Lists
  <1>5. CASE file
    <2>1. cOut' = cOut /\ cstate' = IF cstate = "active" THEN "connected" ELSE cstate
      BY <1>5 DEF ChangingReconnect
    <2>2. Reads(x, <<>>)
      BY <1>1, <2>1, NoReply, ExecutedIsGone
    <2>3. Meant(x) => Learns(x, <<>>)
      BY <1>1, <1>4, <2>1, NothingThere DEF Meant, Learns
    <2>4. ClientTypes
      BY <1>1, <2>1, SignonScalars DEF ClientTypes
    <2> QED
      BY <2>2, <2>3, <2>4 DEF ClientActs
  <1>6. CASE ~file
    <2>1. cOut' = cOut \o <<q>> /\ cstate' = "connected"
      BY <1>3, <1>6 DEF ChangingReconnect, AskNew, Away
    <2> HIDE DEF x, q
    <2>2. Reply(x, q)
      BY <1>2, <1>3 DEF Reply, RequestOK, Restarts, Guarded
    <2>3. Reads(x, <<q>>)
      BY <1>1, <1>3, <1>s, <2>1, <2>2, ExecutedIsGone DEF x
    <2>4. Asks(q, dltype', Quiet, NoRestart) = {}
      BY <1>3 DEF Asks, Transfers
    <2>5. Meant(x) => Learns(x, <<q>>)
      BY <1>1, <1>3, <1>4, <2>1, <2>4 DEF Learns
    <2>6. ClientTypes
      BY <1>1, <2>1, SignonScalars DEF ClientTypes
    <2> QED
      BY <2>3, <2>5, <2>6 DEF ClientActs
  <1> QED
    BY <1>5, <1>6

LEMMA ReconnectHereActs ==
    ASSUME SignonTypes, ReconnectHere
    PROVE  ClientTypes /\ ClientActs
  <1> DEFINE x == Head(stuffed)
             q == Cmd("new", 0, 0, FALSE)
  <1>1. /\ Execute({"reconnect"}) /\ dltype' = dltype /\ missing' = missing
        /\ names' = names /\ servercount' = servercount /\ loaded' = loaded /\ file' = file
        /\ cstate' = cstate
        /\ cOut' = cOut \/ cOut' = Append(cOut, q)
    BY DEF ReconnectHere, Reconnect_f, AskNew, Execute, Executes
  <1>2. x.op = "stuff" /\ x.cmd = "reconnect"
    <2>1. x.op = "stuff" /\ x.cmd \in {"reconnect"}
      BY Zenon, <1>1, ExecutesFirst
    <2> HIDE DEF x
    <2> QED
      BY <2>1
  <1>s. missing \in Nat /\ Packets /\ missing' \in 0..missing
    <2>1. missing \in Nat /\ Packets
      BY SignonScalars
    <2>2. missing' = missing
      BY <1>1
    <2> QED
      BY <2>1, <2>2
  <1>3. /\ q \in ClientCmd /\ q.cmd = "new"
        /\ <<q>> \in Seq(ClientCmd) /\ Len(<<q>>) <= 1 /\ Items(<<q>>) = {q}
        /\ Append(cOut, q) = cOut \o <<q>>
    <2>1. q \in ClientCmd /\ q.cmd = "new"
      BY DEF Cmd, ClientCmd, CommandNames
    <2> HIDE DEF q
    <2> QED
      BY <2>1, <1>s, OneRequest
  <1>4. Have' = Have /\ Carries(x) = {}
    BY <1>1, <1>2 DEF Have, Carries, Lists
  <1>5. ClientTypes
    BY <1>1, SignonScalars DEF ClientTypes
  <1>6. CASE cOut' = cOut
    <2>1. Reads(x, <<>>)
      BY <1>1, <1>6, NoReply, ExecutedIsGone
    <2>2. Meant(x) => Learns(x, <<>>)
      BY <1>1, <1>4, NothingThere DEF Meant, Learns
    <2> QED
      BY <1>5, <2>1, <2>2 DEF ClientActs
  <1>7. CASE cOut' = Append(cOut, q)
    <2>1. cOut' = cOut \o <<q>>
      BY <1>3, <1>7
    <2> HIDE DEF x, q
    <2>2. Reply(x, q)
      BY <1>2, <1>3 DEF Reply, RequestOK, Restarts, Guarded
    <2>3. Reads(x, <<q>>)
      BY <1>1, <1>3, <1>s, <2>1, <2>2, ExecutedIsGone DEF x
    <2>4. Asks(q, dltype', Quiet, NoRestart) = {}
      BY <1>3 DEF Asks, Transfers
    <2>5. Meant(x) => Learns(x, <<q>>)
      BY <1>1, <1>3, <1>4, <2>4 DEF Learns, Meant
    <2> QED
      BY <1>5, <2>3, <2>5 DEF ClientActs
  <1> QED
    BY <1>1, <1>6, <1>7

LEMMA SkinsActs ==
    ASSUME SignonTypes, Skins
    PROVE  ClientTypes /\ ClientActs
  <1> DEFINE x == Head(stuffed)
  <1>1. /\ Execute({"skins"}) /\ NextSkin(cOut) /\ cstate' = cstate
        /\ names' = names /\ servercount' = servercount /\ loaded' = loaded /\ file' = file
    BY DEF Skins, Execute, Executes
  <1>2. x.op = "stuff" /\ x.cmd = "skins"
    BY <1>1, ExecutesFirst
  <1>3. Have' = Have /\ Carries(x) = {}
    BY <1>1, <1>2 DEF Have, Carries, Lists
  <1> HIDE DEF x
  <1>4. SkinReplies(x)
    BY <1>1, <1>2, NextSkinReplies DEF Restarts
  <1>5. /\ missing' \in 0..missing /\ dltype' \in {"none", "skin"}
        /\ AfterTransfer(dltype') \subseteq Everything
    BY <1>4 DEF SkinReplies
  <1>6. PICK r \in Seq(ClientCmd) :
             /\ Len(r) <= 1 /\ cOut' = cOut \o r
             /\ \A p \in Items(r) :
                  Reply(x, p) /\ Asks(p, dltype', Quiet, NoRestart) \subseteq Everything
    BY <1>4 DEF SkinReplies
  <1>7. Reads(x, r)
    BY <1>1, <1>5, <1>6, ExecutedIsGone DEF x
  <1>8. Meant(x) => Everything \subseteq Have /\ cstate # "failed"
    BY <1>2 DEF Meant, Needs
  <1>9. Meant(x) => Learns(x, r)
    BY <1>1, <1>3, <1>5, <1>6, <1>8 DEF Learns
  <1>10. ClientTypes
    BY <1>1, <1>5, SignonScalars DEF ClientTypes
  <1> QED
    BY <1>7, <1>9, <1>10 DEF ClientActs

LEMMA ClientReadsActs ==
    ASSUME SignonTypes, ~Away, ClientReads
    PROVE  SignonTypes' /\ ClientActs /\ ~Away'
  <1>1. ClientTypes /\ ClientActs
    BY ParseTextActs, ParseSoundlistActs, ParseModellistActs, ParseStaticActs,
       ParseDownloadActs, ForwardToServerActs, ReconnectHereActs, ChangingReconnectActs,
       SkinsActs
       DEF ClientReads
  <1>2. PICK x, r : Reads(x, r)
    BY <1>1 DEF ClientActs
  <1>3. cstate' \in {cstate, "failed", "connected"}
    BY DEF ClientReads, ParseText, ParseSoundlist, ParseModellist, ParseStatic, ParseDownload,
           NextListed, ForwardToServer, ReconnectHere, Reconnect_f, ChangingReconnect, Skins,
           Away
  <1>4. ~Away'
    BY <1>3 DEF Away
  <1> QED
    BY <1>1, <1>2, <1>4, ReadsTypes

-----------------------------------------------------------------------------
(* What the server does with the first of the requests.                    *)

LEMMA CommandTakes ==
    ASSUME SignonTypes, NEW c, Command(c), UNCHANGED <<client, inFlight, limits>>
    PROVE  /\ Taken(Head(sIn)) /\ Head(sIn).cmd = c /\ Head(sIn) \in Requests
           /\ Head(sIn) \in ClientCmd /\ RequestOK(Head(sIn), level)
  <1>1. sIn # <<>> /\ Head(sIn).cmd = c /\ sIn' = Tail(sIn)
    BY DEF Command
  <1>2. /\ Head(sIn) \in ClientCmd /\ Tail(sIn) \in Seq(ClientCmd)
        /\ sIn = <<Head(sIn)>> \o Tail(sIn)
        /\ Items(sIn) = {Head(sIn)} \cup Items(Tail(sIn))
    BY <1>1, HeadFirst DEF SignonTypes, Packets
  <1>3. Head(sIn) \in Requests
    BY <1>2 DEF Requests
  <1>4. RequestOK(Head(sIn), level)
    BY <1>3 DEF SignonTypes, Messages
  <1> QED
    BY <1>1, <1>2, <1>3, <1>4 DEF Taken

LEMMA RequestFields ==
    ASSUME NEW y \in ClientCmd
    PROVE  y.cmd \in CommandNames /\ y.level \in Nat /\ y.n \in Nat /\ y.sum \in BOOLEAN
  BY DEF ClientCmd

LEMMA OneMessage ==
    ASSUME NEW m \in ServerMsg
    PROVE  /\ <<m>> \in Seq(ServerMsg) /\ Items(<<m>>) = {m} /\ Len(<<m>>) = 1
           /\ \A R : InPairs(<<m>>, R)
           /\ \A q \in Seq(ServerMsg) : Append(q, m) = q \o <<m>>
  <1>1. <<m>> \in Seq(ServerMsg)
    OBVIOUS
  <1> QED
    BY <1>1, ItemsFew, PairsFew, AppendIsConcat

LEMMA NoMessage ==
    ASSUME NEW b \in Seq(ServerMsg)
    PROVE  \E k \in 0..Len(b) : b = SubSeq(b, 1, k)
  <1>1. Len(b) \in 0..Len(b)
    BY LenProperties
  <1>2. SubSeq(b, 1, Len(b)) = b
    BY SubSeqFull
  <1> QED
    BY <1>1, <1>2

LEMMA BlocksWrites ==
    ASSUME NEW q \in Seq(ServerMsg), NEW b \in Seq(ServerMsg), NEW m \in ServerMsg
    PROVE  Writes(<<m>>, q, b, Blocks(q, b, m).msg, Blocks(q, b, m).back)
  <1> DEFINE one == <<m>>
  <1>1. Append(q, m) = q \o one /\ Append(b, m) = b \o one
    BY OneMessage
  <1> HIDE DEF one
  <1>2. \E k \in 0..Len(b) : b = SubSeq(b, 1, k)
    BY NoMessage
  <1> DEFINE r == Blocks(q, b, m)
  <1>3. \/ r.msg = Append(q, m) /\ r.back = b
        \/ r.msg = q /\ r.back = Append(b, m)
    BY DEF Blocks
  <1> HIDE DEF r
  <1>4. CASE r.msg = Append(q, m) /\ r.back = b
    <2>1. Writes(one, q, b, r.msg, r.back)
      BY <1>1, <1>2, <1>4 DEF Writes
    <2> QED
      BY <2>1 DEF one, r
  <1>5. CASE r.msg = q /\ r.back = Append(b, m)
    <2>1. Writes(one, q, b, r.msg, r.back)
      BY <1>1, <1>5 DEF Writes
    <2> QED
      BY <2>1 DEF one, r
  <1> QED
    BY <1>3, <1>4, <1>5 DEF r

(* The message a list joins.                                               *)
LEMMA ClearedSize ==
    ASSUME SignonTypes
    PROVE  /\ Cleared \in Seq(ServerMsg) /\ Size(Cleared) \in Nat
           /\ Cleared \in {<<>>, msg}
  <1>1. Cleared \in Seq(ServerMsg) /\ Cleared \in {<<>>, msg}
    BY NothingThere DEF Cleared, SignonTypes, Packets
  <1>2. Items(Cleared) \subseteq Answers
    BY <1>1, NothingThere DEF Answers
  <1>3. Measured(Cleared)
    <2> SUFFICES ASSUME NEW x \in Items(Cleared) PROVE ItemSize(x) \in Nat
      BY DEF Measured
    <2>1. x \in ServerMsg
      BY <1>1, ItemsIn
    <2>2. AnswerOK(x, level)
      BY <1>2 DEF SignonTypes, Messages
    <2>3. CASE x.op \in Lists
      <3>1. x.from \in Nat /\ x.upto \in Nat
        BY <2>1, <2>3, MessageFields
      <3>2. x.from <= x.upto
        BY <2>2, <2>3 DEF AnswerOK, ListOK
      <3>3. x.upto - x.from \in Nat
        BY <3>1, <3>2
      <3> QED
        BY <2>3, <3>3, SignonNaturals DEF ItemSize, Lists
    <2>4. CASE x.op \notin Lists
      BY <2>4 DEF ItemSize, Lists
    <2> QED
      BY <2>3, <2>4
  <1>4. Size(Cleared) \in Nat
    BY <1>1, <1>3, SizeNatural
  <1> QED
    BY <1>1, <1>4

LEMMA SaysTypes ==
    ASSUME SignonTypes, NEW N, Says(N)
    PROVE  SignonTypes'
  <1>0. /\ msg' \in Seq(ServerMsg) /\ back' \in Seq(ServerMsg)
        /\ Items(msg') \cup Items(back') \subseteq Items(msg) \cup Items(back) \cup N
        /\ \A m \in N : AnswerOK(m, level)
        /\ \A m \in Items(back') : m.op # "serverdata"
        /\ sIn' \in Seq(ClientCmd) /\ Items(sIn') \subseteq Items(sIn)
        /\ level' = level /\ UNCHANGED <<client, inFlight, limits>>
        /\ sstate' \in {"preconnected", "connected", "spawned", "left", "dropped: map",
                        "dropped: overflow"}
        /\ scount' \in {scount, level} /\ pext' \in BOOLEAN /\ upload' \in BOOLEAN
    BY DEF Says
  <1>1. Packets /\ Messages /\ SignonTypeOK /\ Limits
    BY DEF SignonTypes
  <1>2. /\ stuffed' = stuffed /\ cIn' = cIn /\ toClient' = toClient /\ toServer' = toServer
        /\ cOut' = cOut /\ cstate' = cstate /\ servercount' = servercount /\ names' = names
        /\ loaded' = loaded /\ file' = file /\ dltype' = dltype
        /\ prints' = prints /\ missing' = missing /\ restarts' = restarts /\ midway' = midway
    BY <1>0 DEF client, inFlight, limits
  <1>3. Packets'
    BY <1>0, <1>1, <1>2 DEF Packets
  <1>4. Messages'
    <2>1. \A x \in Answers' : x \in Answers \/ x \in N
      BY <1>0, <1>2 DEF Answers
    <2>2. \A x \in Answers' : AnswerOK(x, level')
      BY <1>0, <1>1, <2>1 DEF Messages
    <2>3. \A x \in Requests' : RequestOK(x, level')
      BY <1>0, <1>1, <1>2 DEF Messages, Requests
    <2> QED
      BY <1>0, <1>1, <1>2, <2>2, <2>3 DEF Messages
  <1>5. Limits'
    BY <1>1, <1>2 DEF Limits
  <1>6. SignonTypeOK'
    <2>1. scount' \in 0..level
      <3>1. level \in Nat /\ scount \in 0..level
        BY SignonScalars
      <3>2. level \in 0..level
        BY SignonScalars
      <3>3. scount' = scount \/ scount' = level
        BY <1>0
      <3> QED
        BY <3>1, <3>2, <3>3
    <2> QED
      BY <1>0, <1>1, <1>2, <2>1 DEF SignonTypeOK
  <1> QED
    BY <1>3, <1>4, <1>5, <1>6 DEF SignonTypes

LEMMA WritesTypes ==
    ASSUME NEW d \in Seq(ServerMsg), NEW e \in Seq(ServerMsg), NEW n \in Seq(ServerMsg),
           NEW d2, NEW e2, Writes(n, d, e, d2, e2)
    PROVE  WritesInto(n, d, e, d2, e2)
  <1>1. /\ d2 \in Seq(ServerMsg) /\ e2 \in Seq(ServerMsg)
        /\ Items(d2) \subseteq Items(d) \cup Items(n)
        /\ Items(e2) \subseteq Items(e) \cup Items(n)
    BY WritesParts
  <1> QED
    BY <1>1 DEF WritesInto

LEMMA TakenTypes ==
    ASSUME SignonTypes, NEW y, Taken(y)
    PROVE  /\ sIn' \in Seq(ClientCmd) /\ Items(sIn') \subseteq Items(sIn)
           /\ UNCHANGED <<client, inFlight, limits>>
           /\ msg \in Seq(ServerMsg) /\ back \in Seq(ServerMsg)
           /\ \A m \in Items(back) : m.op # "serverdata"
           /\ sstate \in {"preconnected", "connected", "spawned", "left", "dropped: map",
                          "dropped: overflow"}
           /\ pext \in BOOLEAN /\ upload \in BOOLEAN
  <1>1. Items(sIn') \subseteq Items(sIn) /\ sIn' \in Seq(ClientCmd)
    BY OneFirst DEF Taken
  <1>2. UNCHANGED <<client, inFlight, limits>>
    BY DEF Taken
  <1>3. /\ msg \in Seq(ServerMsg) /\ back \in Seq(ServerMsg)
        /\ \A m \in Items(back) : m.op # "serverdata"
    BY DEF SignonTypes, Packets, Messages
  <1>4. /\ sstate \in {"preconnected", "connected", "spawned", "left", "dropped: map",
                       "dropped: overflow"}
        /\ pext \in BOOLEAN /\ upload \in BOOLEAN
    BY DEF SignonTypes, SignonTypeOK
  <1> QED
    BY <1>1, <1>2, <1>3, <1>4

LEMMA DropsTypes ==
    ASSUME SignonTypes, NEW y, Drops(y)
    PROVE  SignonTypes'
  <1>1. Taken(y) /\ upload' \in BOOLEAN
    BY DEF Drops
  <1>2. /\ level' = level /\ scount' \in {scount, level} /\ pext' = pext /\ msg' = msg
        /\ back' = back
    BY DEF Drops
  <1>3. /\ sIn' \in Seq(ClientCmd) /\ Items(sIn') \subseteq Items(sIn)
        /\ UNCHANGED <<client, inFlight, limits>>
        /\ msg \in Seq(ServerMsg) /\ back \in Seq(ServerMsg)
        /\ \A m \in Items(back) : m.op # "serverdata"
        /\ sstate \in {"preconnected", "connected", "spawned", "left", "dropped: map",
                       "dropped: overflow"}
        /\ pext \in BOOLEAN
    BY <1>1, TakenTypes
  <1>4. sstate' \in {"preconnected", "connected", "spawned", "left", "dropped: map",
                     "dropped: overflow"}
    BY <1>3 DEF Drops
  <1>5. /\ Items(msg') \cup Items(back') \subseteq Items(msg) \cup Items(back) \cup {}
        /\ \A m \in Items(back') : m.op # "serverdata"
        /\ msg' \in Seq(ServerMsg) /\ back' \in Seq(ServerMsg) /\ pext' \in BOOLEAN
    BY <1>2, <1>3
  <1>6. \A m \in {} : AnswerOK(m, level)
    OBVIOUS
  <1>z. Says({})
    BY <1>1, <1>2, <1>3, <1>4, <1>5, <1>6 DEF Says
  <1> QED
    BY <1>z, SaysTypes

LEMMA StartsOverTypes ==
    ASSUME SignonTypes, NEW y, StartsOver(y)
    PROVE  SignonTypes'
  <1>1. Taken(y)
    BY DEF StartsOver
  <1>2. level' = level /\ upload' = upload
    BY DEF StartsOver
  <1>3. PICK m \in ServerMsg :
         /\ Writes(<<m>>, msg, back, msg', back')
         /\ \/ /\ m = ServerData /\ back' = <<>> /\ ~pext /\ UNCHANGED pext
               /\ scount' = level /\ sstate' = "connected"
            \/ /\ m.op = "stuff" /\ m.cmd \in {"pext", "new"} /\ pext /\ pext' \in BOOLEAN
               /\ scount' \in {scount, level} /\ UNCHANGED sstate
    BY DEF StartsOver
  <1>4. /\ sIn' \in Seq(ClientCmd) /\ Items(sIn') \subseteq Items(sIn)
        /\ UNCHANGED <<client, inFlight, limits>>
        /\ msg \in Seq(ServerMsg) /\ back \in Seq(ServerMsg)
        /\ \A x \in Items(back) : x.op # "serverdata"
        /\ sstate \in {"preconnected", "connected", "spawned", "left", "dropped: map",
                       "dropped: overflow"}
        /\ pext \in BOOLEAN /\ upload \in BOOLEAN
    BY <1>1, TakenTypes
  <1> DEFINE n == <<m>>
  <1>5. n \in Seq(ServerMsg) /\ Items(n) = {m} /\ Writes(n, msg, back, msg', back')
    BY <1>3, OneMessage
  <1> HIDE DEF n
  <1>a. WritesInto(n, msg, back, msg', back')
    BY <1>4, <1>5, WritesTypes
  <1>6. /\ msg' \in Seq(ServerMsg) /\ back' \in Seq(ServerMsg)
        /\ Items(msg') \subseteq Items(msg) \cup Items(n)
        /\ Items(back') \subseteq Items(back) \cup Items(n)
    BY <1>a DEF WritesInto
  <1>7. AnswerOK(m, level)
    <2>1. CASE m = ServerData
      <3>1. level \in 1..level
        <4>1. level \in 1..MaxLevel
          BY SignonScalars
        <4> QED
          BY <4>1, SignonNaturals
      <3>2. m.op = "serverdata" /\ m.level = level
        BY <2>1 DEF ServerData
      <3> QED
        BY <3>1, <3>2 DEF AnswerOK, Lists
    <2>2. CASE m.op = "stuff" /\ m.cmd \in {"pext", "new"}
      BY <2>2 DEF AnswerOK, Lists, Restarts
    <2> QED
      BY <1>3, <2>1, <2>2
  <1>8. \A x \in Items(back') : x.op # "serverdata"
    <2>1. CASE back' = <<>>
      BY <2>1, NothingThere
    <2>2. CASE m.op = "stuff"
      BY <1>4, <1>5, <1>6, <2>2
    <2> QED
      BY <1>3, <2>1, <2>2
  <1>9. Items(msg') \cup Items(back') \subseteq Items(msg) \cup Items(back) \cup {m}
    BY <1>5, <1>6
  <1>10. /\ scount' \in {scount, level} /\ pext' \in BOOLEAN /\ upload' \in BOOLEAN
         /\ sstate' \in {"preconnected", "connected", "spawned", "left", "dropped: map",
                         "dropped: overflow"}
    BY <1>2, <1>3, <1>4
  <1>11. \A x \in {m} : AnswerOK(x, level)
    BY <1>7
  <1>z. Says({m})
    BY <1>2, <1>4, <1>6, <1>8, <1>9, <1>10, <1>11 DEF Says
  <1> QED
    BY <1>z, SaysTypes

LEMMA AnswerTypes ==
    ASSUME SignonTypes, NEW y, NEW n, AnswerTo(y, n)
    PROVE  \A x \in Items(n) : AnswerOK(x, level) /\ x.op \in Lists \cup {"stuff"}
  <1>1. PICK m \in ServerMsg :
         /\ m.op \in Lists /\ m.level = level /\ ListOK(m, level)
         /\ \/ n = <<m>>
            \/ \E s \in ServerMsg :
                 /\ n = <<m, s>> /\ m.op \in DataLists /\ s.op = "stuff"
                 /\ s.cmd = "skins" \/ (PlaceOK(s) /\ s.level = level)
    BY DEF AnswerTo
  <1>2. AnswerOK(m, level)
    BY <1>1 DEF AnswerOK, Lists
  <1>3. CASE n = <<m>>
    BY <1>1, <1>2, <1>3, ItemsFew
  <1>4. ASSUME NEW s \in ServerMsg, n = <<m, s>>, s.op = "stuff",
               s.cmd = "skins" \/ (PlaceOK(s) /\ s.level = level)
        PROVE  \A x \in Items(n) : AnswerOK(x, level) /\ x.op \in Lists \cup {"stuff"}
    <2>1. level \in Nat
      BY SignonScalars
    <2>2. AnswerOK(s, level)
      BY <1>4, <2>1 DEF AnswerOK, Lists
    <2>3. Items(n) = {m, s}
      BY <1>4, ItemsFew
    <2> QED
      BY <1>1, <1>2, <1>4, <2>2, <2>3
  <1> QED
    BY <1>1, <1>3, <1>4

LEMMA ServesTypes ==
    ASSUME SignonTypes, NEW y, Serves(y)
    PROVE  SignonTypes'
  <1>1. /\ Taken(y) /\ level' = level /\ sstate' = sstate /\ scount' = scount /\ pext' = pext
        /\ upload' = upload
    BY DEF Serves
  <1>2. PICK n : AnswerTo(y, n) /\ Writes(n, msg, back, msg', back')
    BY DEF Serves
  <1>3. /\ sIn' \in Seq(ClientCmd) /\ Items(sIn') \subseteq Items(sIn)
        /\ UNCHANGED <<client, inFlight, limits>>
        /\ msg \in Seq(ServerMsg) /\ back \in Seq(ServerMsg)
        /\ \A x \in Items(back) : x.op # "serverdata"
        /\ sstate \in {"preconnected", "connected", "spawned", "left", "dropped: map",
                       "dropped: overflow"}
        /\ pext \in BOOLEAN /\ upload \in BOOLEAN
    BY <1>1, TakenTypes
  <1>4. \A x \in Items(n) : AnswerOK(x, level) /\ x.op \in Lists \cup {"stuff"}
    BY <1>2, AnswerTypes
  <1>5. n \in Seq(ServerMsg)
    BY <1>2 DEF AnswerTo
  <1>a. WritesInto(n, msg, back, msg', back')
    BY <1>2, <1>3, <1>5, WritesTypes
  <1>6. /\ msg' \in Seq(ServerMsg) /\ back' \in Seq(ServerMsg)
        /\ Items(msg') \subseteq Items(msg) \cup Items(n)
        /\ Items(back') \subseteq Items(back) \cup Items(n)
    BY <1>a DEF WritesInto
  <1>7. \A x \in Items(back') : x.op # "serverdata"
    BY <1>3, <1>4, <1>6 DEF Lists
  <1>8. Items(msg') \cup Items(back') \subseteq Items(msg) \cup Items(back) \cup Items(n)
    BY <1>6
  <1>9. /\ scount' \in {scount, level} /\ pext' \in BOOLEAN /\ upload' \in BOOLEAN
        /\ sstate' \in {"preconnected", "connected", "spawned", "left", "dropped: map",
                        "dropped: overflow"}
    BY <1>1, <1>3
  <1>z. Says(Items(n))
    BY <1>1, <1>3, <1>4, <1>6, <1>7, <1>8, <1>9 DEF Says
  <1> QED
    BY <1>z, SaysTypes

LEMMA ReconnectSaid ==
    /\ Reconnect \in ServerMsg /\ Reconnect.op = "stuff" /\ Reconnect.cmd = "reconnect"
    /\ ChangingReconnects \in ServerMsg /\ ChangingReconnects.op = "stuff"
    /\ ChangingReconnects.cmd = "changing reconnect"
  BY DEF Reconnect, ChangingReconnects, Stuff, ServerMsg, StuffNames

LEMMA GetsBlockTypes ==
    ASSUME SignonTypes, NEW y, GetsBlock(y)
    PROVE  SignonTypes'
  <1>1. /\ Taken(y) /\ level' = level /\ sstate' = sstate /\ scount' = scount /\ pext' = pext
        /\ upload' \in BOOLEAN
    BY DEF GetsBlock
  <1>2. PICK m \in ServerMsg :
         /\ m.op = "download"
         /\ \/ Writes(<<m>>, msg, back, msg', back')
            \/ /\ scount # level
               /\ \E d, e : /\ Writes(<<m>>, msg, back, d, e)
                            /\ Writes(<<ChangingReconnects>>, d, e, msg', back')
    BY DEF GetsBlock
  <1>3. /\ sIn' \in Seq(ClientCmd) /\ Items(sIn') \subseteq Items(sIn)
        /\ UNCHANGED <<client, inFlight, limits>>
        /\ msg \in Seq(ServerMsg) /\ back \in Seq(ServerMsg)
        /\ \A x \in Items(back) : x.op # "serverdata"
        /\ sstate \in {"preconnected", "connected", "spawned", "left", "dropped: map",
                       "dropped: overflow"}
        /\ pext \in BOOLEAN /\ upload \in BOOLEAN
    BY <1>1, TakenTypes
  <1> DEFINE one == <<m>>
             two == <<ChangingReconnects>>
             said == {m, ChangingReconnects}
  <1>4. /\ one \in Seq(ServerMsg) /\ Items(one) = {m}
        /\ two \in Seq(ServerMsg) /\ Items(two) = {ChangingReconnects}
    BY ReconnectSaid, OneMessage
  <1>5. \A x \in said : AnswerOK(x, level) /\ x.op # "serverdata"
    BY <1>2, ReconnectSaid DEF AnswerOK, Lists, Restarts
  <1>6. \/ Writes(one, msg, back, msg', back')
        \/ \E d, e : Writes(one, msg, back, d, e) /\ Writes(two, d, e, msg', back')
    BY <1>2
  <1> HIDE DEF one, two
  <1>7. /\ msg' \in Seq(ServerMsg) /\ back' \in Seq(ServerMsg)
        /\ Items(msg') \subseteq Items(msg) \cup Items(back) \cup said
        /\ Items(back') \subseteq Items(back) \cup said
    <2>1. CASE Writes(one, msg, back, msg', back')
      <3>1. /\ msg' \in Seq(ServerMsg) /\ back' \in Seq(ServerMsg)
            /\ Items(msg') \subseteq Items(msg) \cup Items(one)
            /\ Items(back') \subseteq Items(back) \cup Items(one)
        <4>1. WritesInto(one, msg, back, msg', back')
          BY <1>3, <1>4, <2>1, WritesTypes
        <4> QED
          BY <4>1 DEF WritesInto
      <3> QED
        BY <3>1, <1>4
    <2>2. ASSUME NEW d, NEW e, Writes(one, msg, back, d, e), Writes(two, d, e, msg', back')
          PROVE  /\ msg' \in Seq(ServerMsg) /\ back' \in Seq(ServerMsg)
                 /\ Items(msg') \subseteq Items(msg) \cup Items(back) \cup said
                 /\ Items(back') \subseteq Items(back) \cup said
      <3>1. /\ d \in Seq(ServerMsg) /\ e \in Seq(ServerMsg)
            /\ Items(d) \subseteq Items(msg) \cup Items(one)
            /\ Items(e) \subseteq Items(back) \cup Items(one)
        <4>1. WritesInto(one, msg, back, d, e)
          BY <1>3, <1>4, <2>2, WritesTypes
        <4> QED
          BY <4>1 DEF WritesInto
      <3>2. /\ msg' \in Seq(ServerMsg) /\ back' \in Seq(ServerMsg)
            /\ Items(msg') \subseteq Items(d) \cup Items(two)
            /\ Items(back') \subseteq Items(e) \cup Items(two)
        <4>1. WritesInto(two, d, e, msg', back')
          BY <1>4, <2>2, <3>1, WritesTypes
        <4> QED
          BY <4>1 DEF WritesInto
      <3> QED
        BY <3>1, <3>2, <1>4
    <2> QED
      BY <1>6, <2>1, <2>2
  <1>8. \A x \in Items(back') : x.op # "serverdata"
    BY <1>3, <1>5, <1>7
  <1>9. Items(msg') \cup Items(back') \subseteq Items(msg) \cup Items(back) \cup said
    BY <1>7
  <1>10. /\ scount' \in {scount, level} /\ pext' \in BOOLEAN
         /\ sstate' \in {"preconnected", "connected", "spawned", "left", "dropped: map",
                         "dropped: overflow"}
    BY <1>1, <1>3
  <1>11. \A x \in said : AnswerOK(x, level)
    BY <1>5
  <1>z. Says(said)
    BY <1>1, <1>3, <1>7, <1>8, <1>9, <1>10, <1>11 DEF Says
  <1> QED
    BY <1>z, SaysTypes

LEMMA IgnoredDrops ==
    ASSUME SignonTypes, NEW y, Taken(y), Ignored
    PROVE  ServerActs
  <1>1. upload \in BOOLEAN
    BY DEF SignonTypes, SignonTypeOK
  <1>2. /\ level' = level /\ sstate' = sstate /\ scount' = scount /\ pext' = pext
        /\ upload' = upload /\ msg' = msg /\ back' = back
    BY DEF Ignored
  <1>3. Drops(y)
    BY <1>1, <1>2 DEF Drops
  <1> QED
    BY <1>3 DEF ServerActs

LEMMA ClearedWrites ==
    ASSUME SignonTypes, NEW n \in Seq(ServerMsg), NEW q \in {<<>>, msg}, NEW k \in 0..Len(back),
           msg' = q \o n, back' = SubSeq(back, 1, k)
    PROVE  Writes(n, msg, back, msg', back')
  <1>1. <<>> \o n = n
    BY ConcatEmptySeq
  <1> QED
    BY <1>1 DEF Writes

LEMMA NothingKept ==
    ASSUME SignonTypes
    PROVE  /\ msg \in Seq(ServerMsg) /\ back \in Seq(ServerMsg) /\ <<>> \in Seq(ServerMsg)
           /\ 0 \in 0..Len(back) /\ <<>> = SubSeq(back, 1, 0)
           /\ Len(back) \in 0..Len(back) /\ back = SubSeq(back, 1, Len(back))
  <1>1. msg \in Seq(ServerMsg) /\ back \in Seq(ServerMsg)
    BY DEF SignonTypes, Packets
  <1>2. Len(back) \in Nat
    BY <1>1, LenProperties
  <1>3. SubSeq(back, 1, 0) = <<>> /\ SubSeq(back, 1, Len(back)) = back
    BY <1>1, SubSeqEmpty, SubSeqFull
  <1> QED
    BY <1>1, <1>2, <1>3, NothingThere

LEMMA NewStartsOver ==
    ASSUME SignonTypes, NEW y, Taken(y), Renews(y, level),
           New(msg, back) \/ New(<<>>, <<>>)
    PROVE  ServerActs
  <1> USE NothingKept
  <1>1. level' = level /\ pext' = pext /\ upload' = upload /\ scount' = level
    BY DEF New
  <1>2. pext \in BOOLEAN /\ level \in Nat
    BY SignonScalars DEF SignonTypes, SignonTypeOK
  <1>3. PICK q \in {<<>>, msg}, k \in 0..Len(back) :
          /\ pext => /\ msg' = Append(q, Stuff("pext", 0, 0)) /\ back' = SubSeq(back, 1, k)
                     /\ sstate' = sstate
          /\ ~pext => /\ msg' = Append(q, ServerData) /\ back' = <<>>
                      /\ sstate' = "connected"
    <2>1. CASE New(msg, back)
      <3>1. /\ pext => /\ msg' = Append(msg, Stuff("pext", 0, 0)) /\ back' = back
                       /\ sstate' = sstate
            /\ ~pext => /\ msg' = Append(IF back # <<>> THEN <<>> ELSE msg, ServerData)
                        /\ back' = <<>> /\ sstate' = "connected"
        BY <2>1 DEF New
      <3>2. CASE pext
        BY <3>1, <3>2
      <3>3. CASE ~pext /\ back # <<>>
        BY <3>1, <3>3
      <3>4. CASE ~pext /\ back = <<>>
        BY <3>1, <3>4
      <3> QED
        BY <3>2, <3>3, <3>4
    <2>2. CASE New(<<>>, <<>>)
      <3>1. /\ pext => /\ msg' = Append(<<>>, Stuff("pext", 0, 0)) /\ back' = <<>>
                       /\ sstate' = sstate
            /\ ~pext => /\ msg' = Append(<<>>, ServerData)
                        /\ back' = <<>> /\ sstate' = "connected"
        BY <2>2 DEF New
      <3> QED
        BY <3>1
    <2> QED
      BY <2>1, <2>2
  <1>4. q \in Seq(ServerMsg)
    OBVIOUS
  <1>5. CASE pext
    <2> DEFINE m == Stuff("pext", 0, 0)
    <2>1. m \in ServerMsg /\ m.op = "stuff" /\ m.cmd \in {"pext", "new"}
      BY DEF Stuff, ServerMsg, StuffNames
    <2> HIDE DEF m
    <2>2. <<m>> \in Seq(ServerMsg) /\ Append(q, m) = q \o <<m>>
      BY <2>1, <1>4, OneMessage
    <2>3. msg' = q \o <<m>> /\ back' = SubSeq(back, 1, k)
      BY <1>3, <1>5, <2>2 DEF m
    <2> DEFINE one == <<m>>
    <2>4. one \in Seq(ServerMsg) /\ msg' = q \o one
      BY <2>2, <2>3
    <2> HIDE DEF one
    <2>5. Writes(one, msg, back, msg', back')
      BY <2>3, <2>4, ClearedWrites
    <2>6. StartsOver(y)
      BY <1>1, <1>2, <1>3, <1>5, <2>1, <2>5 DEF StartsOver, one
    <2> QED
      BY <2>6 DEF ServerActs
  <1>6. CASE ~pext
    <2> DEFINE m == ServerData
    <2>1. m \in ServerMsg
      BY <1>2 DEF ServerData, ServerMsg
    <2> HIDE DEF m
    <2>2. <<m>> \in Seq(ServerMsg) /\ Append(q, m) = q \o <<m>>
      BY <2>1, <1>4, OneMessage
    <2>3. msg' = q \o <<m>> /\ back' = SubSeq(back, 1, 0)
      BY <1>3, <1>6, <2>2 DEF m
    <2> DEFINE one == <<m>>
    <2>4. one \in Seq(ServerMsg) /\ msg' = q \o one
      BY <2>2, <2>3
    <2> HIDE DEF one
    <2>5. Writes(one, msg, back, msg', back')
      <3>1. 0 \in 0..Len(back)
        OBVIOUS
      <3> QED
        BY <2>3, <2>4, <3>1, ClearedWrites
    <2>6. StartsOver(y)
      BY <1>1, <1>3, <1>6, <2>1, <2>5 DEF StartsOver, one, m
    <2> QED
      BY <2>6 DEF ServerActs
  <1> QED
    BY <1>5, <1>6

LEMMA NewActs ==
    ASSUME SignonTypes, Cmd_New_f \/ Cmd_PEXT_f
    PROVE  ServerActs
  <1> DEFINE y == Head(sIn)
  <1>1. CASE Cmd_New_f
    <2>1. Command("new") /\ UNCHANGED <<client, inFlight, limits>>
      BY <1>1 DEF Cmd_New_f
    <2>2. Taken(y) /\ y.cmd = "new"
      BY <2>1, CommandTakes
    <2>3. Renews(y, level)
      BY <2>2 DEF Renews
    <2>4. CASE sstate = "spawned"
      <3>1. Ignored
        BY <1>1, <2>4 DEF Cmd_New_f
      <3> QED
        BY <2>2, <3>1, IgnoredDrops
    <2>5. CASE sstate # "spawned"
      <3>1. New(msg, back)
        BY <1>1, <2>5 DEF Cmd_New_f
      <3> QED
        BY <2>2, <2>3, <3>1, NewStartsOver
    <2> QED
      BY <2>4, <2>5
  <1>2. CASE Cmd_PEXT_f
    <2>1. Command("pext") /\ UNCHANGED <<client, inFlight, limits>>
      BY <1>2 DEF Cmd_PEXT_f
    <2>2. Taken(y) /\ y.cmd = "pext"
      BY <2>1, CommandTakes
    <2>3. Renews(y, level)
      BY <2>2 DEF Renews
    <2>4. CASE ~pext
      <3>1. Ignored
        BY <1>2, <2>4 DEF Cmd_PEXT_f
      <3> QED
        BY <2>2, <3>1, IgnoredDrops
    <2>5. CASE pext
      <3> DEFINE m == Stuff("new", 0, 0)
      <3>1. m \in ServerMsg /\ m.op = "stuff" /\ m.cmd \in {"pext", "new"}
        BY DEF Stuff, ServerMsg, StuffNames
      <3>2. /\ pext' = FALSE /\ msg' = Append(msg, m) /\ back' = back /\ level' = level
            /\ sstate' = sstate /\ scount' = scount /\ upload' = upload
        BY <1>2, <2>5 DEF Cmd_PEXT_f
      <3> HIDE DEF m
      <3>3. <<m>> \in Seq(ServerMsg) /\ msg' = msg \o <<m>>
        BY <3>1, <3>2, NothingKept, OneMessage
      <3> DEFINE one == <<m>>
      <3>4. one \in Seq(ServerMsg) /\ msg' = msg \o one
        BY <3>3
      <3> HIDE DEF one
      <3>5. /\ Len(back) \in 0..Len(back) /\ back' = SubSeq(back, 1, Len(back))
            /\ msg \in {<<>>, msg}
        BY <3>2, NothingKept
      <3>6. Writes(one, msg, back, msg', back')
        BY <3>4, <3>5, ClearedWrites
      <3>7. StartsOver(y)
        BY <2>2, <2>3, <2>5, <3>1, <3>2, <3>6 DEF StartsOver, one
      <3> QED
        BY <3>7 DEF ServerActs
    <2> QED
      BY <2>4, <2>5
  <1> QED
    BY <1>1, <1>2

LEMMA BeginActs ==
    ASSUME SignonTypes, Cmd_Begin_f
    PROVE  ServerActs
  <1> DEFINE y == Head(sIn)
  <1>1. Command("begin") /\ UNCHANGED <<client, inFlight, limits>>
    BY DEF Cmd_Begin_f
  <1>2. /\ Taken(y) /\ y.cmd = "begin" /\ y \in ClientCmd /\ RequestOK(y, level)
    BY <1>1, CommandTakes
  <1>3. CASE sstate = "spawned"
    <2>1. Ignored
      BY <1>3 DEF Cmd_Begin_f
    <2> QED
      BY <1>2, <2>1, IgnoredDrops
  <1>4. CASE sstate # "spawned" /\ y.level # level
    <2>1. New(<<>>, <<>>)
      BY <1>4 DEF Cmd_Begin_f
    <2>2. y.level < level
      <3>1. y.level <= level
        BY <1>2 DEF RequestOK, Guarded
      <3>2. y.level \in Nat /\ level \in Nat
        BY <1>2, RequestFields, SignonScalars
      <3> QED
        BY <1>4, <3>1, <3>2
    <2>3. Renews(y, level)
      BY <1>2, <2>2 DEF Renews, Guarded
    <2> QED
      BY <1>2, <2>1, <2>3, NewStartsOver
  <1>5. CASE sstate # "spawned" /\ y.level = level
    <2>1. /\ sstate' = "spawned" /\ level' = level /\ scount' = scount /\ pext' = pext
          /\ upload' = upload /\ msg' = msg /\ back' = back
      BY <1>5 DEF Cmd_Begin_f
    <2>2. upload \in BOOLEAN
      BY DEF SignonTypes, SignonTypeOK
    <2>3. Drops(y)
      BY <1>2, <1>5, <2>1, <2>2 DEF Drops
    <2> QED
      BY <2>3 DEF ServerActs
  <1> QED
    BY <1>3, <1>4, <1>5

LEMMA TransferActs ==
    ASSUME SignonTypes, Cmd_Download_f \/ Cmd_NextDownload_f
    PROVE  ServerActs
  <1> DEFINE y == Head(sIn)
  <1>1. /\ Command("download") \/ Command("nextdl")
        /\ UNCHANGED <<client, inFlight, limits>>
    BY DEF Cmd_Download_f, Cmd_NextDownload_f
  <1>2. Taken(y) /\ y.cmd \in Transfers
    BY <1>1, CommandTakes DEF Transfers
  <1>3. level' = level /\ sstate' = sstate /\ scount' = scount /\ pext' = pext
    BY DEF Cmd_Download_f, Cmd_NextDownload_f
  <1>4. msg \in Seq(ServerMsg) /\ back \in Seq(ServerMsg) /\ upload \in BOOLEAN
    BY NothingKept DEF SignonTypes, SignonTypeOK
  <1>5. CASE LastBlock
    <2> DEFINE m     == Download(TRUE)
               after == Blocks(msg, back, m)
               told  == Blocks(after.msg, after.back, ChangingReconnects)
    <2>1. /\ upload' = FALSE
          /\ IF scount # level THEN msg' = told.msg /\ back' = told.back
                               ELSE msg' = after.msg /\ back' = after.back
      BY <1>5 DEF LastBlock
    <2>2. m \in ServerMsg /\ m.op = "download"
      BY DEF Download, ServerMsg
    <2> HIDE DEF m
    <2>3. Writes(<<m>>, msg, back, after.msg, after.back)
      BY <1>4, <2>2, BlocksWrites
    <2> DEFINE d == after.msg
               e == after.back
               one == <<m>>
    <2>4. one \in Seq(ServerMsg)
      BY <2>2, OneMessage
    <2>5. Writes(one, msg, back, d, e)
      BY <2>3
    <2> HIDE DEF one, after
    <2>6. WritesInto(one, msg, back, d, e)
      BY <1>4, <2>4, <2>5, WritesTypes
    <2>7. d \in Seq(ServerMsg) /\ e \in Seq(ServerMsg)
      BY <2>6 DEF WritesInto
    <2>8. Writes(<<ChangingReconnects>>, d, e, told.msg, told.back)
      BY <2>7, ReconnectSaid, BlocksWrites
    <2> HIDE DEF d, e, told
    <2>9. \/ Writes(one, msg, back, msg', back')
          \/ /\ scount # level
             /\ Writes(one, msg, back, d, e) /\ Writes(<<ChangingReconnects>>, d, e, msg', back')
      BY <2>1, <2>5, <2>8 DEF d, e
    <2>10. GetsBlock(y)
      BY <1>2, <1>3, <2>1, <2>2, <2>9 DEF GetsBlock, one
    <2> QED
      BY <2>10 DEF ServerActs
  <1>6. ASSUME NEW last \in BOOLEAN, ReliableWrite(Download(last)), upload' \in BOOLEAN
        PROVE  ServerActs
    <2> DEFINE m == Download(last)
    <2>1. m \in ServerMsg /\ m.op = "download"
      BY DEF Download, ServerMsg
    <2>2. msg' = Blocks(msg, back, m).msg /\ back' = Blocks(msg, back, m).back
      BY <1>6 DEF ReliableWrite
    <2> HIDE DEF m
    <2>3. Writes(<<m>>, msg, back, msg', back')
      BY <1>4, <2>1, <2>2, BlocksWrites
    <2>4. GetsBlock(y)
      BY <1>2, <1>3, <1>6, <2>1, <2>3 DEF GetsBlock
    <2> QED
      BY <2>4 DEF ServerActs
  <1>7. CASE Cmd_Download_f
    <2>1. \/ LastBlock
          \/ ReliableWrite(Download(FALSE)) /\ upload' = TRUE
          \/ ReliableWrite(Download(TRUE)) /\ upload' = upload
      BY <1>7 DEF Cmd_Download_f
    <2> QED
      BY <1>4, <1>5, <1>6, <2>1
  <1>8. CASE Cmd_NextDownload_f
    <2>1. CASE upload
      BY <1>5, <1>8, <2>1 DEF Cmd_NextDownload_f
    <2>2. CASE ~upload
      <3>1. Ignored
        BY <1>3, <1>8, <2>2 DEF Cmd_NextDownload_f, Ignored
      <3> QED
        BY <1>2, <3>1, IgnoredDrops
    <2> QED
      BY <2>1, <2>2
  <1> QED
    BY <1>7, <1>8

-----------------------------------------------------------------------------
(* The answers of the server.                                              *)

LEMMA ListFields ==
    ASSUME NEW kind \in Lists, NEW from \in Nat, NEW upto \in Nat, NEW next \in Nat,
           level \in Nat
    PROVE  LET m == List(kind, from, upto, next)
           IN  /\ m \in ServerMsg /\ m.op = kind /\ m.level = level
               /\ m.from = from /\ m.upto = upto /\ m.next = next
  BY DEF List, ServerMsg

LEMMA NeedsByName ==
    ASSUME NEW x, NEW dl, NEW calm
    PROVE  /\ x.op = "sounds" => Needs(x, dl, calm) = SoundsTo(x.from)
           /\ x.op = "models" =>
                Needs(x, dl, calm) = AfterSounds(calm) \cup ModelsTo(x.from)
           /\ x.op \in {"statics", "buffers"} =>
                Needs(x, dl, calm) = Loaded \cup WorldTo(x.from)
           /\ x.op = "players" => Needs(x, dl, calm) = World \cup PlayersTo(x.from)
           /\ x.op = "stuff" /\ x.cmd \in {"prespawn", "spawn"} =>
                Needs(x, dl, calm) = BeforePlace(x)
           /\ x.op = "stuff" /\ x.cmd = "skins" => Needs(x, dl, calm) = Everything
           /\ x.op = "stuff" /\ x.cmd \in Restarts => Needs(x, dl, calm) = {}
           /\ x.op = "download" => Needs(x, dl, calm) = AfterTransfer(dl)
           /\ x.op \in {"text", "serverdata"} => Needs(x, dl, calm) = {}
  BY DEF Needs, Restarts

LEMMA NotAdmitted ==
    ASSUME SignonTypes, NEW c \in {"soundlist", "modellist", "prespawn", "spawn"},
           Command(c), UNCHANGED <<client, inFlight, limits>>,
           \/ sstate # "connected" /\ Ignored
           \/ Head(sIn).level # level /\ New(<<>>, <<>>)
    PROVE  ServerActs
  <1> DEFINE y == Head(sIn)
  <1>1. /\ Taken(y) /\ y.cmd = c /\ y \in ClientCmd /\ RequestOK(y, level)
    BY CommandTakes
  <1>2. CASE Ignored
    BY <1>1, <1>2, IgnoredDrops
  <1>3. CASE y.level # level /\ New(<<>>, <<>>)
    <2>1. y.level < level
      <3>1. y.level <= level
        BY <1>1 DEF RequestOK, Guarded
      <3>2. y.level \in Nat /\ level \in Nat
        BY <1>1, RequestFields, SignonScalars
      <3> QED
        BY <1>3, <3>1, <3>2
    <2>2. Renews(y, level)
      BY <1>1, <2>1 DEF Renews, Guarded
    <2> QED
      BY <1>1, <1>3, <2>2, NewStartsOver
  <1> QED
    BY <1>2, <1>3

LEMMA OneList ==
    ASSUME SignonTypes, NEW c, Admitted(c), UNCHANGED <<sstate, upload>>,
           NEW m \in ServerMsg, NamesFrom(c, m, Head(sIn).n),
           msg' = Append(Cleared, m), NEW k \in 0..Len(back), back' = SubSeq(back, 1, k)
    PROVE  ServerActs
  <1> DEFINE y == Head(sIn)
             n == <<m>>
  <1>1. n \in Seq(ServerMsg)
    BY OneMessage
  <1>2. msg' = Cleared \o n
    BY OneMessage, ClearedSize
  <1>3. n = <<m>>
    OBVIOUS
  <1> HIDE DEF n
  <1>4. Writes(n, msg, back, msg', back')
    BY <1>1, <1>2, ClearedSize, ClearedWrites
  <1>5. ASSUME NEW h, NEW dl, NEW calm, NEW nores, Asks(y, dl, calm, nores) \subseteq h
        PROVE  Covered(n, h, dl, calm)
    <2>1. y.cmd = c
      BY DEF Admitted
    <2>2. Needs(m, dl, calm) = Asks(y, dl, calm, nores)
      <3>1. CASE m.op = "sounds" /\ y.cmd = "soundlist"
        <4>1. Needs(m, dl, calm) = SoundsTo(m.from)
          BY <3>1, NeedsByName
        <4>2. Asks(y, dl, calm, nores) = SoundsTo(y.n)
          BY <3>1, AsksByName
        <4> QED
          BY <4>1, <4>2 DEF NamesFrom
      <3>2. CASE m.op = "models" /\ y.cmd = "modellist"
        <4>1. Needs(m, dl, calm) = AfterSounds(calm) \cup ModelsTo(m.from)
          BY <3>2, NeedsByName
        <4>2. Asks(y, dl, calm, nores) = AfterSounds(calm) \cup ModelsTo(y.n)
          BY <3>2, AsksByName
        <4> QED
          BY <4>1, <4>2 DEF NamesFrom
      <3> QED
        BY <2>1, <3>1, <3>2 DEF NamesFrom
    <2>3. Covered(<<m>>, h, dl, calm)
      BY <1>5, <2>2, CoveredFew
    <2> QED
      BY <2>3, <1>3
  <1>6. y.cmd = c /\ y.level = level /\ Taken(y) /\ sstate = "connected"
        /\ level' = level /\ scount' = scount /\ pext' = pext
    BY DEF Admitted
  <1>7. AnswerTo(y, n)
    BY <1>1, <1>3, <1>5, <1>6 DEF AnswerTo, Guarded, Lists, NamesFrom
  <1>8. Serves(y)
    BY <1>4, <1>6, <1>7 DEF Serves
  <1> QED
    BY <1>8 DEF ServerActs

LEMMA SoundlistActs ==
    ASSUME SignonTypes, Cmd_Soundlist_f
    PROVE  ServerActs
  <1> DEFINE y    == Head(sIn)
             n    == y.n
             upto == n + Lesser(Sounds - n, Minus(Half, Size(Cleared)))
             next == IF upto < Sounds THEN upto ELSE 0
             m    == List("sounds", n, upto, next)
  <1>1. Command("soundlist") /\ UNCHANGED <<client, inFlight, limits>>
    BY DEF Cmd_Soundlist_f, Admit
  <1>2. /\ Taken(y) /\ y.cmd = "soundlist" /\ y \in ClientCmd /\ RequestOK(y, level)
    BY <1>1, CommandTakes
  <1>3. CASE sstate # "connected" \/ y.level # level
    <2>1. \/ sstate # "connected" /\ Ignored
          \/ Head(sIn).level # level /\ New(<<>>, <<>>)
      BY <1>3 DEF Cmd_Soundlist_f, Admit
    <2> QED
      BY <1>1, <2>1, NotAdmitted
  <1>4. CASE sstate = "connected" /\ y.level = level
    <2>1. /\ msg' = Append(Cleared, m) /\ back' = <<>>
          /\ UNCHANGED <<sstate, upload>> /\ UNCHANGED <<level, scount, pext>>
      BY <1>4 DEF Cmd_Soundlist_f, Admit
    <2>2. Admitted("soundlist")
      BY <1>2, <1>4, <2>1 DEF Admitted
    <2>3. n \in 0..Sounds - 1
      BY <1>2 DEF RequestOK, Transfers, PlaceOK
    <2>4. Sounds \in Nat \ {0} /\ Half \in Nat /\ Size(Cleared) \in Nat /\ level \in 1..level
          /\ level \in Nat
      <3>1. level \in 1..MaxLevel
        BY SignonScalars
      <3> QED
        BY <3>1, SignonNaturals, ClearedSize
    <2> DEFINE size == Size(Cleared)
    <2>5. /\ upto \in n..Sounds /\ (size < Half => upto > n)
      <3> HIDE DEF n, size
      <3> QED
        BY <2>3, <2>4 DEF Lesser, Minus, size
    <2> HIDE DEF upto
    <2>6. /\ next \in {0, upto} /\ next < Sounds /\ next \in Nat /\ upto \in Nat /\ n \in Nat
          /\ (size < Half /\ next = 0 => upto = Sounds) /\ n <= upto /\ upto <= Sounds
      <3> HIDE DEF n, size
      <3> QED
        BY <2>3, <2>4, <2>5
    <2> HIDE DEF next
    <2>7. /\ m \in ServerMsg /\ m.op = "sounds" /\ m.level = level
          /\ m.from = n /\ m.upto = upto /\ m.next = next
      <3>1. "sounds" \in Lists
        BY DEF Lists
      <3> HIDE DEF n
      <3> QED
        BY <2>4, <2>6, <3>1, ListFields
    <2> HIDE DEF m, n
    <2>8. ListOK(m, level)
      BY <2>4, <2>6, <2>7 DEF ListOK
    <2>9. 0 \in 0..Len(back) /\ back' = SubSeq(back, 1, 0)
      BY <2>1, NothingKept
    <2>10. NamesFrom("soundlist", m, Head(sIn).n)
      BY <2>6, <2>7, <2>8 DEF n, NamesFrom
    <2> HIDE DEF size
    <2> QED
      BY <2>1, <2>2, <2>7, <2>8, <2>9, <2>10, OneList
  <1> QED
    BY <1>3, <1>4

LEMMA ModellistActs ==
    ASSUME SignonTypes, Cmd_Modellist_f
    PROVE  ServerActs
  <1> DEFINE y    == Head(sIn)
             n    == y.n
             upto == ModelChunk(n, Size(Cleared))
             next == IF upto < Models THEN upto % ByteValues ELSE 0
             m    == List("models", n, upto, next)
  <1>1. Command("modellist") /\ UNCHANGED <<client, inFlight, limits>>
    BY DEF Cmd_Modellist_f, Admit
  <1>2. /\ Taken(y) /\ y.cmd = "modellist" /\ y \in ClientCmd /\ RequestOK(y, level)
    BY <1>1, CommandTakes
  <1>3. CASE sstate # "connected" \/ y.level # level
    <2>1. \/ sstate # "connected" /\ Ignored
          \/ Head(sIn).level # level /\ New(<<>>, <<>>)
      BY <1>3 DEF Cmd_Modellist_f, Admit
    <2> QED
      BY <1>1, <2>1, NotAdmitted
  <1>4. CASE sstate = "connected" /\ y.level = level
    <2>1. /\ msg' = Append(Cleared, m) /\ back' = FirstBuffer(back)
          /\ UNCHANGED <<sstate, upload>> /\ UNCHANGED <<level, scount, pext>>
      BY <1>4 DEF Cmd_Modellist_f, Admit
    <2>2. Admitted("modellist")
      BY <1>2, <1>4, <2>1 DEF Admitted
    <2>3. n \in 0..Models - 1
      BY <1>2 DEF RequestOK, Transfers, PlaceOK
    <2>4. /\ Models \in Nat \ {0} /\ ByteValues \in Nat \ {0} /\ Size(Cleared) \in Nat
          /\ level \in 1..level /\ level \in Nat
      <3>1. level \in 1..MaxLevel
        BY SignonScalars
      <3> QED
        BY <3>1, SignonNaturals, ClearedSize
    <2> DEFINE size == Size(Cleared)
    <2>5. upto \in n..Models /\ (upto = Models \/ upto % ByteValues # 0)
      <3>1. n \in 0..Models
        BY <2>3, <2>4
      <3> QED
        BY <2>4, <3>1, ChunkEnds
    <2> HIDE DEF upto
    <2>6. /\ next \in Nat /\ upto \in Nat /\ n \in Nat /\ n <= upto /\ upto <= Models
          /\ IF next = 0 THEN upto = Models ELSE upto < Models /\ next = upto % ByteValues
      <3> HIDE DEF n
      <3>1. upto \in Nat /\ n \in Nat /\ n <= upto /\ upto <= Models
        BY <2>3, <2>4, <2>5
      <3>2. upto % ByteValues \in Nat
        BY <3>1, <2>4
      <3> QED
        BY <2>4, <2>5, <3>1, <3>2
    <2> HIDE DEF next
    <2>7. /\ m \in ServerMsg /\ m.op = "models" /\ m.level = level
          /\ m.from = n /\ m.upto = upto /\ m.next = next
      <3>1. "models" \in Lists
        BY DEF Lists
      <3> HIDE DEF n
      <3> QED
        BY <2>4, <2>6, <3>1, ListFields
    <2> HIDE DEF m, n
    <2>8. ListOK(m, level)
      BY <2>4, <2>6, <2>7 DEF ListOK
    <2>9. PICK k \in 0..Len(back) : back' = SubSeq(back, 1, k)
      BY <2>1, NothingKept, FirstBufferFirst
    <2>10. NamesFrom("modellist", m, Head(sIn).n)
      BY <2>7, <2>8 DEF n, NamesFrom
    <2> HIDE DEF size
    <2> QED
      BY <2>1, <2>2, <2>7, <2>8, <2>9, <2>10, OneList
  <1> QED
    BY <1>3, <1>4

(* A list of data and the text that asks for more.                         *)
LEMMA TwoMessages ==
    ASSUME NEW m \in ServerMsg, NEW s \in ServerMsg, NEW h, NEW dl, NEW calm,
           Needs(m, dl, calm) \subseteq h, Needs(s, dl, calm) \subseteq h \cup Carries(m)
    PROVE  <<m, s>> \in Seq(ServerMsg) /\ Covered(<<m, s>>, h, dl, calm)
  <1>1. <<m, s>> \in Seq(ServerMsg)
    OBVIOUS
  <1> DEFINE q == <<m, s>>
  <1>2. DOMAIN q = {1, 2} /\ q[1] = m /\ q[2] = s
    OBVIOUS
  <1> HIDE DEF q
  <1>3. 1..1 - 1 = {} /\ 1..2 - 1 = {1}
    OBVIOUS
  <1>4. UNION {Carries(q[k]) : k \in {1}} = Carries(m)
    BY <1>2
  <1>5. Needs(q[1], dl, calm) \subseteq h \cup UNION {Carries(q[k]) : k \in 1..1 - 1}
    BY <1>2
  <1>6. Needs(q[2], dl, calm) \subseteq h \cup UNION {Carries(q[k]) : k \in 1..2 - 1}
    BY <1>2, <1>3, <1>4
  <1>7. Covered(q, h, dl, calm)
    BY <1>2, <1>5, <1>6 DEF Covered
  <1> QED
    BY <1>1, <1>7 DEF q

LEMMA TwoLists ==
    ASSUME SignonTypes, NEW c \in {"prespawn", "spawn"}, Admitted(c),
           UNCHANGED <<sstate, upload>>,
           NEW m \in ServerMsg, NEW s \in ServerMsg, Continues(m, s),
           \A dl, calm : /\ Needs(m, dl, calm) \subseteq BeforePlace(Head(sIn))
                         /\ Needs(s, dl, calm) \subseteq BeforePlace(Head(sIn)) \cup Carries(m),
           Writes(<<m, s>>, msg, back, msg', back')
    PROVE  ServerActs
  <1> DEFINE y == Head(sIn)
             n == <<m, s>>
  <1>1. n \in Seq(ServerMsg)
    OBVIOUS
  <1>2. n = <<m, s>>
    OBVIOUS
  <1> HIDE DEF n
  <1>3. Writes(n, msg, back, msg', back')
    BY <1>2
  <1>4. ASSUME NEW h, NEW dl, NEW calm, NEW nores, Asks(y, dl, calm, nores) \subseteq h
        PROVE  Covered(n, h, dl, calm)
    <2>1. y.cmd = c
      BY DEF Admitted
    <2>2. Asks(y, dl, calm, nores) = BeforePlace(y)
      BY <2>1, AsksByName
    <2>3. /\ Needs(m, dl, calm) \subseteq h /\ Needs(s, dl, calm) \subseteq h \cup Carries(m)
      BY <1>4, <2>2
    <2>4. Covered(<<m, s>>, h, dl, calm)
      BY <2>3, TwoMessages
    <2> QED
      BY <2>4, <1>2
  <1>5. y.cmd = c /\ y.level = level /\ Taken(y) /\ sstate = "connected"
        /\ level' = level /\ scount' = scount /\ pext' = pext
    BY DEF Admitted
  <1>6. /\ m.level = level /\ ListOK(m, level) /\ m.op \in DataLists
        /\ s.op = "stuff" /\ (s.cmd = "skins" \/ (PlaceOK(s) /\ s.level = level))
        /\ Size(Cleared) < Half /\ s.cmd = "prespawn" => s.n > 0
    BY DEF Continues
  <1>7. /\ \E s1 \in ServerMsg :
             /\ n = <<m, s1>> /\ m.op \in DataLists /\ s1.op = "stuff"
             /\ s1.cmd = "skins" \/ (PlaceOK(s1) /\ s1.level = level)
             /\ Size(Cleared) < Half /\ s1.cmd = "prespawn" => s1.n > 0
    BY <1>2, <1>6
  <1>8. m.op \in Lists /\ m.op # "sounds" /\ y.cmd # "soundlist"
        /\ y.cmd \in Guarded \ {"begin"}
    BY <1>5, <1>6 DEF Lists, DataLists, Guarded
  <1>9. AnswerTo(y, n)
    BY <1>1, <1>4, <1>5, <1>6, <1>7, <1>8 DEF AnswerTo
  <1>10. Serves(y)
    BY <1>3, <1>5, <1>9 DEF Serves
  <1> QED
    BY <1>10 DEF ServerActs

LEMMA ChunkOf ==
    ASSUME NEW n \in Nat, NEW all \in Nat, n < all, NEW room \in Nat
    PROVE  /\ n + Lesser(all - n, room) \in n..all
           /\ room > 0 => n + Lesser(all - n, room) > n
  BY DEF Lesser

LEMMA RoomLeft ==
    ASSUME NEW size \in Nat
    PROVE  Minus(Half, size) \in Nat /\ (size < Half => Minus(Half, size) > 0)
  BY SignonNaturals DEF Minus

LEMMA WorldGrows ==
    ASSUME NEW m, NEW n \in Nat, m.from = n, m.upto \in Nat, n <= m.upto,
           \/ m.op = "statics" /\ m.upto <= Statics
           \/ m.op = "buffers" /\ n >= Statics
    PROVE  WorldTo(m.upto) \subseteq WorldTo(n) \cup Carries(m)
  <1> SUFFICES ASSUME NEW j \in 1..m.upto, j \notin 1..n
               PROVE  <<IF j <= Statics THEN "statics" ELSE "buffers", j>> \in Carries(m)
    BY DEF WorldTo
  <1>1. j \in m.from + 1 .. m.upto
    OBVIOUS
  <1>2. m.op = IF j <= Statics THEN "statics" ELSE "buffers"
    BY SignonNaturals
  <1>3. Carries(m) = {<<m.op, i>> : i \in m.from + 1 .. m.upto}
    BY DEF Carries, Lists
  <1> QED
    BY <1>1, <1>2, <1>3

LEMMA PlayersGrow ==
    ASSUME NEW m, NEW n \in Nat, m.from = n, m.upto \in Nat, n <= m.upto, m.op = "players"
    PROVE  PlayersTo(m.upto) \subseteq PlayersTo(n) \cup Carries(m)
  <1> SUFFICES ASSUME NEW j \in 1..m.upto, j \notin 1..n
               PROVE  <<"players", j>> \in Carries(m)
    BY DEF PlayersTo
  <1>1. j \in m.from + 1 .. m.upto
    OBVIOUS
  <1>2. Carries(m) = {<<m.op, i>> : i \in m.from + 1 .. m.upto}
    BY DEF Carries, Lists
  <1> QED
    BY <1>1, <1>2

LEMMA StuffFields ==
    ASSUME NEW c \in StuffNames, NEW l \in Nat, NEW n \in Nat
    PROVE  LET s == Stuff(c, l, n)
           IN  s \in ServerMsg /\ s.op = "stuff" /\ s.cmd = c /\ s.level = l /\ s.n = n
  BY DEF Stuff, ServerMsg

LEMMA PreSpawnActs ==
    ASSUME SignonTypes, Cmd_PreSpawn_f
    PROVE  ServerActs
  <1> DEFINE y    == Head(sIn)
             n    == y.n
             size == Size(Cleared)
             upto == IF n < Statics
                       THEN n + Lesser(Statics - n, Minus(Half, size)) ELSE n + 1
             kind == IF n < Statics THEN "statics" ELSE "buffers"
             last == upto = Statics + Buffers
             m    == List(kind, n, upto, 0)
             s    == IF last THEN Stuff("spawn", level, 0) ELSE Stuff("prespawn", level, upto)
  <1>1. Command("prespawn") /\ UNCHANGED <<client, inFlight, limits>>
    BY DEF Cmd_PreSpawn_f, Admit
  <1>2. /\ Taken(y) /\ y.cmd = "prespawn" /\ y \in ClientCmd /\ RequestOK(y, level)
    BY <1>1, CommandTakes
  <1>3. CASE sstate # "connected" \/ y.level # level
    <2>1. \/ sstate # "connected" /\ Ignored
          \/ Head(sIn).level # level /\ New(<<>>, <<>>)
      BY <1>3 DEF Cmd_PreSpawn_f, Admit
    <2> QED
      BY <1>1, <2>1, NotAdmitted
  <1>4. CASE sstate = "connected" /\ y.level = level
    <2>0. UNCHANGED <<level, scount, pext>>
      BY <1>4 DEF Cmd_PreSpawn_f, Admit
    <2>1. \/ n = 0 /\ ~y.sum /\ sstate' = "dropped: map" /\ UNCHANGED <<msg, back, upload>>
          \/ /\ size + BufferSize > Room /\ sstate' = "dropped: overflow"
             /\ UNCHANGED <<msg, back, upload>>
          \/ msg' = Cleared \o <<m, s>> /\ back' = <<>> /\ UNCHANGED <<sstate, upload>>
      BY <1>4 DEF Cmd_PreSpawn_f, Admit
    <2>2. Admitted("prespawn")
      BY <1>2, <1>4, <2>0 DEF Admitted
    <2>3. n \in 0..Statics + Buffers - 1
      BY <1>2 DEF RequestOK, Transfers, PlaceOK
    <2>4. /\ Statics \in Nat \ {0} /\ Buffers \in Nat \ {0} /\ size \in Nat
          /\ level \in 1..level /\ level \in Nat /\ Players \in Nat \ {0}
      <3>1. level \in 1..MaxLevel
        BY SignonScalars
      <3> QED
        BY <3>1, SignonNaturals, ClearedSize
    <2>5. CASE \/ n = 0 /\ ~y.sum /\ sstate' = "dropped: map" /\ UNCHANGED <<msg, back, upload>>
               \/ /\ size + BufferSize > Room /\ sstate' = "dropped: overflow"
                  /\ UNCHANGED <<msg, back, upload>>
      <3>1. /\ upload' \in BOOLEAN /\ msg' = msg /\ back' = back
            /\ level' = level /\ scount' = scount /\ pext' = pext
        BY <2>0, <2>5 DEF SignonTypes, SignonTypeOK
      <3>2. Drops(y)
        BY <1>2, <1>4, <2>5, <3>1 DEF Drops
      <3> QED
        BY <3>2 DEF ServerActs
    <2>6. CASE msg' = Cleared \o <<m, s>> /\ back' = <<>> /\ UNCHANGED <<sstate, upload>>
      <3>1. /\ upto \in Nat /\ n \in Nat /\ n <= upto /\ upto <= Statics + Buffers
            /\ (n < Statics => upto <= Statics) /\ (size < Half => upto > 0)
        <4>1. CASE n < Statics
          <5>1. Minus(Half, size) \in Nat /\ (size < Half => Minus(Half, size) > 0)
            BY <2>4, RoomLeft
          <5> DEFINE room == Minus(Half, size)
          <5>2. upto = n + Lesser(Statics - n, room)
            BY <4>1
          <5>3. n \in Nat /\ room \in Nat /\ Statics \in Nat
            BY <2>3, <2>4, <5>1
          <5> HIDE DEF room, upto, n
          <5>4. upto \in n..Statics /\ (room > 0 => upto > n)
            BY <4>1, <5>2, <5>3, ChunkOf
          <5>5. size < Half => room > 0
            BY <5>1 DEF room
          <5> HIDE DEF size
          <5> QED
            BY <2>4, <4>1, <5>3, <5>4, <5>5
        <4>2. CASE ~(n < Statics)
          <5>1. upto = n + 1
            BY <4>2
          <5> HIDE DEF upto, n, size
          <5> QED
            BY <2>3, <2>4, <4>2, <5>1
        <4> QED
          BY <4>1, <4>2
      <3>2. kind \in {"statics", "buffers"} /\ kind \in Lists /\ (kind = "statics" <=> n < Statics)
        BY DEF Lists
      <3> HIDE DEF upto, kind
      <3>3. /\ m \in ServerMsg /\ m.op = kind /\ m.level = level
            /\ m.from = n /\ m.upto = upto /\ m.next = 0
        BY <2>4, <3>1, <3>2, ListFields
      <3>4. /\ s \in ServerMsg /\ s.op = "stuff" /\ s.level = level
            /\ IF last THEN s.cmd = "spawn" /\ s.n = 0 ELSE s.cmd = "prespawn" /\ s.n = upto
        <4>1. "spawn" \in StuffNames /\ "prespawn" \in StuffNames /\ 0 \in Nat
          BY DEF StuffNames
        <4> HIDE DEF last
        <4> QED
          BY <2>4, <3>1, <4>1, StuffFields
      <3> HIDE DEF m, s, n, size
      <3>5. ListOK(m, level)
        BY <2>3, <2>4, <3>1, <3>2, <3>3 DEF ListOK
      <3>6. PlaceOK(s)
        BY <2>4, <3>1, <3>4 DEF PlaceOK
      <3>7. Size(Cleared) < Half /\ s.cmd = "prespawn" => s.n > 0
        BY <3>1, <3>4 DEF size
      <3>8. Continues(m, s)
        BY <3>2, <3>3, <3>4, <3>5, <3>6, <3>7 DEF Continues, DataLists
      <3>9. BeforePlace(y) = Loaded \cup WorldTo(n)
        BY <1>2 DEF BeforePlace, n
      <3>10. WorldTo(upto) \subseteq WorldTo(n) \cup Carries(m)
        <4>1. /\ m.from = n /\ n \in Nat /\ m.upto \in Nat /\ n <= m.upto
              /\ \/ m.op = "statics" /\ m.upto <= Statics
                 \/ m.op = "buffers" /\ n >= Statics
          BY <2>4, <3>1, <3>2, <3>3
        <4>2. WorldTo(m.upto) \subseteq WorldTo(n) \cup Carries(m)
          BY <4>1, WorldGrows
        <4> QED
          BY <3>3, <4>2
      <3>11. ASSUME NEW dl, NEW calm
             PROVE  /\ Needs(m, dl, calm) \subseteq BeforePlace(y)
                    /\ Needs(s, dl, calm) \subseteq BeforePlace(y) \cup Carries(m)
        <4>1. Needs(m, dl, calm) = Loaded \cup WorldTo(n)
          BY <3>2, <3>3, NeedsByName
        <4>2. Needs(s, dl, calm) = BeforePlace(s)
          BY <3>4, NeedsByName
        <4>3. BeforePlace(s) = Loaded \cup WorldTo(upto)
          <5>1. CASE last
            <6>1. BeforePlace(s) = World \cup PlayersTo(0)
              BY <3>4, <5>1 DEF BeforePlace
            <6>2. PlayersTo(0) = {}
              BY DEF PlayersTo
            <6> QED
              BY <5>1, <6>1, <6>2 DEF World
          <5>2. CASE ~last
            BY <3>4, <5>2 DEF BeforePlace
          <5> QED
            BY <5>1, <5>2
        <4> QED
          BY <3>9, <3>10, <4>1, <4>2, <4>3
      <3>12. Writes(<<m, s>>, msg, back, msg', back')
        <4> DEFINE two == <<m, s>>
        <4>1. two \in Seq(ServerMsg)
          BY <3>3, <3>4
        <4>2. msg' = Cleared \o two
          BY <2>6 DEF m, s, n, size
        <4>3. 0 \in 0..Len(back) /\ back' = SubSeq(back, 1, 0)
          BY <2>6, NothingKept
        <4> HIDE DEF two
        <4>4. Writes(two, msg, back, msg', back')
          BY <4>1, <4>2, <4>3, ClearedSize, ClearedWrites
        <4> QED
          BY <4>4 DEF two
      <3>13. "prespawn" \in {"prespawn", "spawn"} /\ UNCHANGED <<sstate, upload>>
        BY <2>6
      <3> QED
        BY <2>2, <3>3, <3>4, <3>8, <3>11, <3>12, <3>13, TwoLists
    <2> QED
      BY <2>1, <2>5, <2>6
  <1> QED
    BY <1>3, <1>4

LEMMA SpawnActs ==
    ASSUME SignonTypes, Cmd_Spawn_f
    PROVE  ServerActs
  <1> DEFINE y    == Head(sIn)
             n    == y.n
             upto == IF back # <<>> THEN Players ELSE n + Lesser(Players - n, Half)
             more == upto < Players
             m    == List("players", n, upto, 0)
             s    == IF more THEN Stuff("spawn", level, upto) ELSE Stuff("skins", 0, 0)
  <1>1. Command("spawn") /\ UNCHANGED <<client, inFlight, limits>>
    BY DEF Cmd_Spawn_f, Admit
  <1>2. /\ Taken(y) /\ y.cmd = "spawn" /\ y \in ClientCmd /\ RequestOK(y, level)
    BY <1>1, CommandTakes
  <1>3. CASE sstate # "connected" \/ y.level # level
    <2>1. \/ sstate # "connected" /\ Ignored
          \/ Head(sIn).level # level /\ New(<<>>, <<>>)
      BY <1>3 DEF Cmd_Spawn_f, Admit
    <2> QED
      BY <1>1, <2>1, NotAdmitted
  <1>4. CASE sstate = "connected" /\ y.level = level
    <2>1. /\ UNCHANGED <<level, scount, pext>> /\ UNCHANGED <<sstate, upload>>
          /\ IF back # <<>> THEN msg' = <<>> /\ back' = back \o <<m, s>>
                            ELSE msg' = <<m, s>> /\ back' = back
      BY <1>4 DEF Cmd_Spawn_f, Admit
    <2>2. Admitted("spawn")
      BY <1>2, <1>4, <2>1 DEF Admitted
    <2>3. n \in 0..Players - 1
      BY <1>2 DEF RequestOK, Transfers, PlaceOK
    <2>4. /\ Players \in Nat \ {0} /\ Half \in Nat /\ level \in 1..level /\ level \in Nat
      <3>1. level \in 1..MaxLevel
        BY SignonScalars
      <3> QED
        BY <3>1, SignonNaturals
    <2>5. upto \in Nat /\ n \in Nat /\ n <= upto /\ upto <= Players
      <3>1. n \in Nat /\ n < Players
        <4> HIDE DEF n
        <4> QED
          BY <2>3, <2>4
      <3>2. n + Lesser(Players - n, Half) \in n..Players
        BY <2>4, <3>1, ChunkOf
      <3> HIDE DEF n
      <3> QED
        BY <2>4, <3>1, <3>2
    <2> HIDE DEF upto
    <2>6. /\ m \in ServerMsg /\ m.op = "players" /\ m.level = level
          /\ m.from = n /\ m.upto = upto /\ m.next = 0
      <3>1. "players" \in Lists
        BY DEF Lists
      <3> QED
        BY <2>4, <2>5, <3>1, ListFields
    <2>7. /\ s \in ServerMsg /\ s.op = "stuff"
          /\ IF more THEN s.cmd = "spawn" /\ s.n = upto /\ s.level = level ELSE s.cmd = "skins"
      <3>1. "spawn" \in StuffNames /\ "skins" \in StuffNames /\ 0 \in Nat
        BY DEF StuffNames
      <3> HIDE DEF more
      <3> QED
        BY <2>4, <2>5, <3>1, StuffFields
    <2> HIDE DEF m, s, n
    <2>8. ListOK(m, level)
      BY <2>4, <2>5, <2>6 DEF ListOK
    <2>9. s.cmd = "skins" \/ (PlaceOK(s) /\ s.level = level)
      BY <2>4, <2>5, <2>7 DEF PlaceOK
    <2>10. Continues(m, s)
      BY <2>6, <2>7, <2>8, <2>9 DEF Continues, DataLists
    <2>11. BeforePlace(y) = World \cup PlayersTo(n)
      BY <1>2 DEF BeforePlace, n
    <2>12. PlayersTo(upto) \subseteq PlayersTo(n) \cup Carries(m)
      <3>1. PlayersTo(m.upto) \subseteq PlayersTo(n) \cup Carries(m)
        BY <2>5, <2>6, PlayersGrow
      <3> QED
        BY <2>6, <3>1
    <2>13. ASSUME NEW dl, NEW calm
           PROVE  /\ Needs(m, dl, calm) \subseteq BeforePlace(y)
                  /\ Needs(s, dl, calm) \subseteq BeforePlace(y) \cup Carries(m)
      <3>1. Needs(m, dl, calm) = World \cup PlayersTo(n)
        BY <2>6, NeedsByName
      <3>2. Needs(s, dl, calm) = World \cup PlayersTo(upto)
        <4>1. CASE more
          <5>1. Needs(s, dl, calm) = BeforePlace(s)
            BY <2>7, <4>1, NeedsByName
          <5>2. BeforePlace(s) = World \cup PlayersTo(s.n)
            BY <2>7, <4>1 DEF BeforePlace
          <5> QED
            BY <2>7, <4>1, <5>1, <5>2
        <4>2. CASE ~more
          <5>1. upto = Players
            BY <2>4, <2>5, <4>2
          <5>2. Needs(s, dl, calm) = Everything
            BY <2>7, <4>2, NeedsByName
          <5> QED
            BY <5>1, <5>2 DEF Everything
        <4> QED
          BY <4>1, <4>2
      <3> QED
        BY <2>11, <2>12, <3>1, <3>2
    <2>14. Writes(<<m, s>>, msg, back, msg', back')
      <3> DEFINE two == <<m, s>>
      <3>1. two \in Seq(ServerMsg)
        BY <2>6, <2>7
      <3>2. IF back # <<>> THEN msg' = <<>> /\ back' = back \o two
                           ELSE msg' = two /\ back' = back
        BY <2>1 DEF m, s, n
      <3> HIDE DEF two
      <3>3. Len(back) \in 0..Len(back) /\ back = SubSeq(back, 1, Len(back))
        BY NothingKept
      <3>4. Writes(two, msg, back, msg', back')
        BY <3>2, <3>3 DEF Writes
      <3> QED
        BY <3>4 DEF two
    <2>15. "spawn" \in {"prespawn", "spawn"} /\ UNCHANGED <<sstate, upload>>
      BY <2>1
    <2> QED
      BY <2>2, <2>6, <2>7, <2>10, <2>13, <2>14, <2>15, TwoLists
  <1> QED
    BY <1>3, <1>4

LEMMA ServerReadsActs ==
    ASSUME SignonTypes, ServerReads
    PROVE  SignonTypes' /\ ServerActs
  <1>1. ServerActs
    BY NewActs, SoundlistActs, ModellistActs, PreSpawnActs, SpawnActs, BeginActs, TransferActs
    DEF ServerReads
  <1>2. PICK y : Drops(y) \/ StartsOver(y) \/ Serves(y) \/ GetsBlock(y)
    BY <1>1 DEF ServerActs
  <1>3. SignonTypes'
    BY <1>2, DropsTypes, StartsOverTypes, ServesTypes, GetsBlockTypes
  <1> QED
    BY <1>1, <1>3

-----------------------------------------------------------------------------
(* The other steps.                                                        *)

LEMMA NoneLeft ==
    ASSUME NEW S, NEW a \in Seq(S), NEW b \in Seq(S), NEW c \in Seq(S)
    PROVE  /\ Len(a) + Len(b) + Len(c) \in Nat
           /\ Len(a) + Len(b) + Len(c) = 0 <=> Items(a) \cup Items(b) \cup Items(c) = {}
  <1>1. Len(a) \in Nat /\ Len(b) \in Nat /\ Len(c) \in Nat
    BY LenProperties
  <1>2. /\ Items(a) = {} <=> a = <<>>
        /\ Items(b) = {} <=> b = <<>>
        /\ Items(c) = {} <=> c = <<>>
    BY ItemsIn
  <1>3. (Len(a) = 0 <=> a = <<>>) /\ (Len(b) = 0 <=> b = <<>>) /\ (Len(c) = 0 <=> c = <<>>)
    BY EmptySeq
  <1> QED
    BY <1>1, <1>2, <1>3

LEMMA MovesMoved ==
    ASSUME SignonTypes, MoveStep
    PROVE  SignonTypes' /\ Moved
  <1>1. Packets /\ Messages /\ SignonTypeOK /\ Limits
    BY DEF SignonTypes
  <1>2. /\ UNCHANGED <<level, sstate, scount, pext, upload>>
        /\ UNCHANGED <<cstate, servercount, names, loaded, file, dltype, limits>>
    BY DEF MoveStep, ClientReceive, ServerSend, ParseStufftext, ServerReceive, ClientSend,
           server, client
  <1>3. ASSUME ClientReceive \/ ServerSend \/ ParseStufftext
        PROVE  /\ Packets' /\ Moved /\ \A x \in Items(stuffed') : x.op = "stuff"
               /\ \A x \in Items(back') : x.op # "serverdata"
    <2>1. AnswersMove
      BY <1>1, <1>3, ClientReceiveMoves, ServerSendMoves, ParseStufftextMoves
    <2>2. sIn' = sIn /\ toServer' = toServer /\ cOut' = cOut
      BY <1>3 DEF ClientReceive, ServerSend, ParseStufftext, server, client, inFlight
    <2>3. /\ Requests' = Requests /\ RequestCount' = RequestCount
          /\ \A R : RequestsFollow(R) => RequestsFollow(R)'
      BY <2>2 DEF Requests, RequestCount, RequestsFollow
    <2>4. Moved
      BY <1>2, <2>1, <2>3 DEF Moved, AnswersMove
    <2>5. \A x \in Items(stuffed') : x.op = "stuff"
      <3>1. CASE ParseStufftext
        <4>1. PICK x \in ServerMsg : stuffed' = stuffed \o <<x>> /\ x.op = "stuff"
          BY <1>1, <3>1, ParseStufftextMoves
        <4> DEFINE one == <<x>>
        <4>2. one \in Seq(ServerMsg) /\ Items(one) = {x}
          BY OneMessage
        <4>3. stuffed' = stuffed \o one
          BY <4>1
        <4> HIDE DEF one
        <4>4. Items(stuffed') = Items(stuffed) \cup Items(one)
          BY <1>1, <4>2, <4>3, ItemsConcat DEF Packets
        <4> QED
          BY <1>1, <4>1, <4>2, <4>4 DEF Messages
      <3>2. CASE ClientReceive \/ ServerSend
        <4>1. stuffed' = stuffed
          BY <3>2 DEF ClientReceive, ServerSend, client
        <4> QED
          BY <1>1, <4>1 DEF Messages
      <3> QED
        BY <1>3, <3>1, <3>2
    <2>6. \A x \in Items(back') : x.op # "serverdata"
      <3>1. CASE ServerSend
        <4>1. PICK first \in Seq(ServerMsg), rest \in Seq(ServerMsg) :
                back = first \o rest /\ back' = rest
          BY <1>1, <3>1, ServerSendMoves
        <4>2. Items(back) = Items(first) \cup Items(rest)
          BY <4>1, ItemsConcat
        <4> QED
          BY <1>1, <4>1, <4>2 DEF Messages
      <3>2. CASE ClientReceive \/ ParseStufftext
        <4>1. back' = back
          BY <3>2 DEF ClientReceive, ParseStufftext, server
        <4> QED
          BY <1>1, <4>1 DEF Messages
      <3> QED
        BY <1>3, <3>1, <3>2
    <2> QED
      BY <2>1, <2>4, <2>5, <2>6 DEF AnswersMove
  <1>4. ASSUME ServerReceive \/ ClientSend
        PROVE  /\ Packets' /\ Moved /\ \A x \in Items(stuffed') : x.op = "stuff"
               /\ \A x \in Items(back') : x.op # "serverdata"
    <2>1. RequestsMove
      BY <1>1, <1>4, RequestPacketsMove
    <2>2. /\ stuffed' = stuffed /\ cIn' = cIn /\ toClient' = toClient /\ msg' = msg
          /\ back' = back
      BY <1>4 DEF ServerReceive, ClientSend, server, client
    <2>3. /\ Answers' = Answers /\ AnswerCount' = AnswerCount
          /\ \A R : AnswersFollow(R) => AnswersFollow(R)'
      BY <2>2 DEF Answers, AnswerCount, AnswersFollow
    <2>4. Moved
      BY <1>2, <2>1, <2>3 DEF Moved, RequestsMove
    <2> QED
      BY <1>1, <2>1, <2>2, <2>4 DEF RequestsMove, Messages
  <1>5. /\ Packets' /\ Moved /\ \A x \in Items(stuffed') : x.op = "stuff"
        /\ \A x \in Items(back') : x.op # "serverdata"
    BY <1>3, <1>4 DEF MoveStep
  <1>6. Answers' = Answers /\ Requests' = Requests
    BY <1>5 DEF Moved
  <1>7. Messages'
    BY <1>1, <1>2, <1>5, <1>6 DEF Messages
  <1>8. Limits'
    BY <1>1, <1>2 DEF Limits, limits
  <1>9. SignonTypeOK'
    BY <1>1, <1>2 DEF SignonTypeOK, limits
  <1> QED
    BY <1>5, <1>7, <1>8, <1>9 DEF SignonTypes

LEMMA ServerDataRenews ==
    ASSUME SignonTypes, ~Away, ParseServerData
    PROVE  SignonTypes' /\ \E x, q : Renewed(x, q)
  <1> DEFINE x == Head(cIn)
             q == Cmd("soundlist", x.level, 0, FALSE)
  <1>1. Packets /\ Messages /\ SignonTypeOK /\ Limits
    BY DEF SignonTypes
  <1>2. Parses("serverdata")
    BY DEF ParseServerData
  <1>3. /\ x \in ServerMsg /\ x \in Answers /\ x.op = "serverdata" /\ AnswerOK(x, level)
        /\ cIn' \in Seq(ServerMsg) /\ cIn = <<x>> \o cIn'
    BY <1>2, ParsesFirst
  <1>4. x.level \in 1..level /\ x.level \in Nat
    BY <1>3, MessageFields DEF AnswerOK
  <1>5. q \in ClientCmd /\ q.cmd = "soundlist" /\ q.level = x.level /\ q.n = 0
    <2> HIDE DEF x
    <2> QED
      BY <1>4 DEF Cmd, ClientCmd, CommandNames
  <1>6. /\ stuffed = <<>> /\ stuffed' = stuffed /\ servercount' = x.level /\ names' = NoNames
        /\ loaded' = 0 /\ cstate' = "onserver"
        /\ cOut' = <<q>> /\ UNCHANGED <<server, file, dltype, inFlight, limits>>
    BY DEF ParseServerData, Away
  <1> HIDE DEF q, x
  <1>7. <<q>> \in Seq(ClientCmd) /\ Len(<<q>>) <= 1 /\ Items(<<q>>) = {q}
    BY <1>5, OneRequest
  <1>8. Renewed(x, q)
    BY <1>3, <1>5, <1>6, <1>7 DEF Renewed
  <1>9. /\ level' = level /\ sstate' = sstate /\ scount' = scount /\ pext' = pext
        /\ upload' = upload /\ msg' = msg /\ back' = back /\ sIn' = sIn
        /\ toClient' = toClient /\ toServer' = toServer /\ file' = file /\ dltype' = dltype
        /\ prints' = prints /\ missing' = missing /\ restarts' = restarts
        /\ midway' = midway
    BY <1>6 DEF server, inFlight, limits
  <1> DEFINE r == <<q>>
  <1>10. r \in Seq(ClientCmd) /\ cOut' = r /\ Items(r) = {q}
    BY <1>6, <1>7
  <1> HIDE DEF r
  <1>11. cOut' \in Seq(ClientCmd) /\ Requests' \subseteq Requests \cup Items(r)
    BY <1>9, <1>10 DEF Requests
  <1>12. Answers = {x} \cup Answers'
    <2>1. Gone(x, stuffed, cIn, stuffed', cIn')
      BY <1>3, <1>6 DEF Gone
    <2>2. stuffed' \in Seq(ServerMsg)
      BY <1>1, <1>6 DEF Packets
    <2> QED
      BY <1>1, <1>3, <1>9, <2>1, <2>2, AnswersGone
  <1>13. Packets'
    BY <1>1, <1>3, <1>6, <1>9, <1>11 DEF Packets
  <1>14. level \in Nat /\ Sounds \in Nat \ {0}
    BY SignonScalars, SignonNaturals
  <1>15. RequestOK(q, level)
    BY <1>4, <1>5, <1>14 DEF RequestOK
  <1>16. Messages'
    <2>1. \A z \in Items(stuffed') : z.op = "stuff"
      BY <1>1, <1>6 DEF Messages
    <2>2. \A z \in Answers' : AnswerOK(z, level')
      BY <1>1, <1>9, <1>12 DEF Messages
    <2>3. \A z \in Requests' : RequestOK(z, level')
      BY <1>1, <1>9, <1>10, <1>11, <1>15 DEF Messages
    <2>4. \A z \in Items(back') : z.op # "serverdata"
      BY <1>1, <1>9 DEF Messages
    <2> QED
      BY <2>1, <2>2, <2>3, <2>4 DEF Messages
  <1>17. Limits'
    BY <1>1, <1>6, <1>9 DEF Limits, NoNames
  <1>18. SignonTypeOK'
    <2>1. servercount' \in 0..level' /\ loaded' \in 0..servercount'
      BY <1>4, <1>6, <1>9, <1>14
    <2>2. \A k \in Lists : names'[k] \subseteq (1..level') \X All(k)
      BY <1>6 DEF NoNames
    <2> QED
      BY <1>1, <1>6, <1>9, <2>1, <2>2 DEF SignonTypeOK
  <1> QED
    BY <1>8, <1>13, <1>16, <1>17, <1>18 DEF SignonTypes

LEMMA TellsTold ==
    ASSUME SignonTypes, NEW m \in {Text, Reconnect}, ReliableWrite(m),
           UNCHANGED <<scount, pext, upload, sIn, client, inFlight, missing, restarts>>
    PROVE  Tells(m)
  <1>1. m \in ServerMsg
    <2>1. CASE m = Text
      BY <2>1 DEF Text, ServerMsg
    <2> QED
      BY <2>1, ReconnectSaid
  <1>2. msg \in Seq(ServerMsg) /\ back \in Seq(ServerMsg)
    BY NothingKept
  <1> DEFINE r == Blocks(msg, back, m)
  <1>3. msg' = r.msg /\ back' = r.back
    BY DEF ReliableWrite
  <1>4. Writes(<<m>>, msg, back, r.msg, r.back)
    BY <1>1, <1>2, BlocksWrites
  <1>5. \/ r.msg = Append(msg, m) /\ r.back = back
        \/ r.msg = msg /\ r.back = Append(back, m)
    BY DEF Blocks
  <1> HIDE DEF r
  <1>6. /\ Items(Append(msg, m)) = Items(msg) \cup {m}
        /\ Items(Append(back, m)) = Items(back) \cup {m}
    <2> DEFINE one == <<m>>
    <2>1. /\ one \in Seq(ServerMsg) /\ Items(one) = {m}
          /\ Append(msg, m) = msg \o one /\ Append(back, m) = back \o one
      BY <1>1, <1>2, OneMessage
    <2> HIDE DEF one
    <2>2. /\ Items(msg \o one) = Items(msg) \cup Items(one)
          /\ Items(back \o one) = Items(back) \cup Items(one)
      BY <1>2, <2>1, ItemsConcat
    <2> QED
      BY <2>1, <2>2
  <1> QED
    BY <1>1, <1>3, <1>4, <1>5, <1>6 DEF Tells

LEMMA LevelGrows ==
    ASSUME NEW lv \in Nat,
           NEW x, AnswerOK(x, lv), x.op \in Lists => x.level \in Nat,
           x.op = "serverdata" => x.level \in Nat, x.op = "stuff" => x.level \in Nat
    PROVE  AnswerOK(x, lv + 1)
  BY DEF AnswerOK, ListOK, PlaceOK

LEMMA TellsTypes ==
    ASSUME SignonTypes, NEW m, Tells(m),
           level' \in {level, level + 1}, level' <= MaxLevel,
           sstate' \in {sstate, "connected"}, midway' \in BOOLEAN, prints' \in 0..MaxPrints
    PROVE  SignonTypes'
  <1>1. Packets /\ Messages /\ SignonTypeOK /\ Limits
    BY DEF SignonTypes
  <1>2. /\ scount' = scount /\ pext' = pext /\ upload' = upload /\ sIn' = sIn
        /\ stuffed' = stuffed /\ cIn' = cIn /\ toClient' = toClient /\ toServer' = toServer
        /\ cOut' = cOut /\ cstate' = cstate /\ servercount' = servercount /\ names' = names
        /\ loaded' = loaded /\ file' = file /\ dltype' = dltype
        /\ missing' = missing /\ restarts' = restarts
    BY DEF Tells, client, inFlight
  <1> DEFINE n == <<m>>
  <1>3. m \in ServerMsg /\ m.op # "serverdata" /\ Writes(n, msg, back, msg', back')
    <2>1. /\ m \in ServerMsg /\ m \in {Text, Reconnect}
          /\ Writes(n, msg, back, msg', back')
      BY DEF Tells
    <2>2. Text.op # "serverdata"
      BY DEF Text
    <2>3. Reconnect.op # "serverdata"
      BY ReconnectSaid
    <2>4. m.op # "serverdata"
      BY <2>1, <2>2, <2>3
    <2> QED
      BY <2>1, <2>4
  <1>4. n \in Seq(ServerMsg) /\ Items(n) = {m}
    BY <1>3, OneMessage
  <1> HIDE DEF n
  <1>5. WritesInto(n, msg, back, msg', back')
    BY <1>1, <1>3, <1>4, WritesTypes DEF Packets
  <1>6. /\ msg' \in Seq(ServerMsg) /\ back' \in Seq(ServerMsg)
        /\ Items(msg') \subseteq Items(msg) \cup Items(n)
        /\ Items(back') \subseteq Items(back) \cup Items(n)
    BY <1>5 DEF WritesInto
  <1>7. Packets'
    BY <1>1, <1>2, <1>6 DEF Packets
  <1>8. level \in 1..MaxLevel /\ level \in Nat /\ MaxLevel \in Nat
    BY SignonScalars, SignonNaturals
  <1>9. level' \in 1..MaxLevel /\ level <= level' /\ level' \in Nat
    BY <1>8
  <1>10. \A x \in Answers' : x \in Answers \/ x = m
    BY <1>2, <1>4, <1>6 DEF Answers
  <1>11. ASSUME NEW x \in Answers PROVE AnswerOK(x, level')
    <2>1. AnswerOK(x, level)
      BY <1>1 DEF Messages
    <2>2. x \in ServerMsg
      BY <1>1, ItemsIn DEF Answers, Packets
    <2>3. AnswerOK(x, level + 1)
      BY <1>8, <2>1, <2>2, MessageFields, LevelGrows
    <2> QED
      BY <2>1, <2>3
  <1>12. AnswerOK(m, level')
    <2>1. m = Text \/ m = Reconnect
      BY DEF Tells
    <2>2. m = Text => m.op = "text"
      BY DEF Text
    <2> QED
      BY <2>1, <2>2, ReconnectSaid DEF AnswerOK, Lists, Restarts
  <1>13. ASSUME NEW z \in Requests PROVE RequestOK(z, level')
    <2>1. RequestOK(z, level)
      BY <1>1 DEF Messages
    <2>2. z \in ClientCmd
      BY <1>1, ItemsIn DEF Requests, Packets
    <2>3. z.level \in Nat
      BY <2>2, RequestFields
    <2> QED
      BY <1>8, <1>9, <2>1, <2>3 DEF RequestOK
  <1>14. Requests' = Requests
    BY <1>2 DEF Requests
  <1>15. Messages'
    <2>1. \A x \in Answers' : AnswerOK(x, level')
      BY <1>10, <1>11, <1>12
    <2>2. \A z \in Requests' : RequestOK(z, level')
      BY <1>13, <1>14
    <2>3. \A x \in Items(back') : x.op # "serverdata"
      BY <1>1, <1>3, <1>4, <1>6 DEF Messages
    <2>4. \A x \in Items(stuffed') : x.op = "stuff"
      BY <1>1, <1>2 DEF Messages
    <2> QED
      BY <2>1, <2>2, <2>3, <2>4 DEF Messages
  <1>16. Limits'
    BY <1>1, <1>2 DEF Limits
  <1>17. SignonTypeOK'
    <2>1. scount' \in 0..level' /\ servercount' \in 0..level'
      <3>1. scount \in 0..level /\ servercount \in 0..level
        BY SignonScalars
      <3> QED
        BY <1>2, <1>8, <1>9, <3>1
    <2>2. \A k \in Lists : names'[k] \subseteq (1..level') \X All(k)
      <3>1. 1..level \subseteq 1..level'
        BY <1>8, <1>9
      <3>2. \A k \in Lists : names[k] \subseteq (1..level) \X All(k)
        BY <1>1 DEF SignonTypeOK
      <3>3. ASSUME NEW A PROVE (1..level) \X A \subseteq (1..level') \X A
        BY <3>1
      <3> QED
        BY <1>2, <3>2, <3>3
    <2> QED
      BY <1>1, <1>2, <1>9, <2>1, <2>2 DEF SignonTypeOK
  <1> QED
    BY <1>7, <1>15, <1>16, <1>17 DEF SignonTypes

LEMMA ChangeLevelTells ==
    ASSUME SignonTypes, sstate # "left", ChangeLevel
    PROVE  /\ SignonTypes' /\ Tells(Reconnect)
           /\ level' = level + 1 /\ midway' = (midway \/ sstate # "spawned")
           /\ sstate' # "spawned" /\ prints' = prints
           /\ sstate' \in {sstate, "connected"}
  <1>1. /\ ReliableWrite(Reconnect)
        /\ UNCHANGED <<scount, pext, upload, sIn, client, inFlight, missing, restarts>>
        /\ level' = level + 1 /\ level < MaxLevel /\ prints' = prints
        /\ midway' = (midway \/ sstate # "spawned")
        /\ sstate' = IF sstate = "spawned" THEN "connected" ELSE sstate
    <2>1. Alive
      BY DEF ChangeLevel, Alive, Dropped, SignonTypes, SignonTypeOK
    <2> QED
      BY <2>1 DEF ChangeLevel
  <1>2. Tells(Reconnect)
    BY <1>1, TellsTold
  <1>3. level \in Nat /\ MaxLevel \in Nat
    BY SignonScalars, SignonNaturals
  <1>4. /\ level' \in {level, level + 1} /\ level' <= MaxLevel
        /\ sstate' \in {sstate, "connected"} /\ midway' \in BOOLEAN /\ sstate' # "spawned"
    BY <1>1, <1>3
  <1>5. prints' \in 0..MaxPrints
    BY <1>1 DEF SignonTypes, Limits
  <1>6. SignonTypes'
    BY <1>2, <1>4, <1>5, TellsTypes
  <1> QED
    BY <1>1, <1>2, <1>4, <1>6

LEMMA BroadcastTells ==
    ASSUME SignonTypes, Broadcast
    PROVE  /\ SignonTypes' /\ Tells(Text)
           /\ prints > 0 /\ prints' = prints - 1
           /\ UNCHANGED <<level, sstate, midway>>
  <1>1. /\ ReliableWrite(Text)
        /\ UNCHANGED <<scount, pext, upload, sIn, client, inFlight, missing, restarts>>
        /\ prints > 0 /\ prints' = prints - 1
        /\ UNCHANGED <<level, sstate, midway>>
    BY DEF Broadcast
  <1>2. Tells(Text)
    BY <1>1, TellsTold
  <1>3. level \in 1..MaxLevel /\ MaxLevel \in Nat
    BY SignonScalars, SignonNaturals
  <1>4. prints' \in 0..MaxPrints
    <2>1. prints \in 0..MaxPrints /\ MaxPrints \in Nat
      BY SignonNaturals DEF SignonTypes, Limits
    <2> QED
      BY <1>1, <2>1
  <1>5. /\ level' \in {level, level + 1} /\ level' <= MaxLevel
        /\ sstate' \in {sstate, "connected"}
    BY <1>1, <1>3
  <1>6. midway' \in BOOLEAN
    BY <1>1 DEF SignonTypes, SignonTypeOK
  <1>7. SignonTypes'
    BY <1>2, <1>4, <1>5, <1>6, TellsTypes
  <1> QED
    BY <1>1, <1>2, <1>7

LEMMA VidRestartRestarts ==
    ASSUME SignonTypes, VidRestart
    PROVE  SignonTypes' /\ \E r : Restarted(r)
  <1>1. Packets /\ Messages /\ SignonTypeOK /\ Limits
    BY DEF SignonTypes
  <1>2. /\ restarts > 0 /\ restarts' = restarts - 1 /\ NextSkin(cOut)
        /\ UNCHANGED <<server, cstate, servercount, names, loaded, file, stuffed, cIn,
                       inFlight, prints, midway>>
    BY DEF VidRestart
  <1>3. level \in Nat /\ servercount \in 0..level /\ servercount \in Nat /\ missing \in Nat
    BY SignonScalars
  <1>4. \E r : Restarted(r)
    <2>1. CASE /\ missing > 0 /\ missing' = missing - 1 /\ dltype' = "skin"
               /\ cOut' = Append(cOut, Cmd("download", 0, 0, FALSE))
      <3> DEFINE q == Cmd("download", 0, 0, FALSE)
      <3>1. q \in ClientCmd /\ q.cmd = "download"
        BY DEF Cmd, ClientCmd, CommandNames
      <3>2. RequestOK(q, level)
        BY <3>1 DEF RequestOK, Guarded, Transfers
      <3> HIDE DEF q
      <3>3. /\ <<q>> \in Seq(ClientCmd) /\ Len(<<q>>) <= 1 /\ Items(<<q>>) = {q}
            /\ cOut' = cOut \o <<q>>
        BY <1>1, <2>1, <3>1, OneRequest DEF q
      <3>4. missing' \in 0..missing /\ missing' # missing
        BY <1>3, <2>1
      <3> DEFINE r == <<q>>
      <3>5. r \in Seq(ClientCmd) /\ Len(r) <= 1 /\ Items(r) = {q} /\ cOut' = cOut \o r
        BY <3>3
      <3> HIDE DEF r
      <3>6. Restarted(r)
        BY <1>2, <2>1, <3>2, <3>4, <3>5 DEF Restarted
      <3> QED
        BY <3>6
    <2>2. CASE /\ dltype' = "none" /\ missing' = missing /\ cstate = "onserver"
               /\ cOut' = Append(cOut, Cmd("begin", servercount, 0, FALSE))
      <3> DEFINE q == Cmd("begin", servercount, 0, FALSE)
      <3>1. q \in ClientCmd /\ q.cmd = "begin" /\ q.level = servercount
        BY <1>3 DEF Cmd, ClientCmd, CommandNames
      <3> HIDE DEF q
      <3>2. RequestOK(q, level)
        BY <1>3, <3>1 DEF RequestOK
      <3>3. /\ <<q>> \in Seq(ClientCmd) /\ Len(<<q>>) <= 1 /\ Items(<<q>>) = {q}
            /\ cOut' = cOut \o <<q>>
        BY <1>1, <2>2, <3>1, OneRequest DEF q
      <3>4. missing' \in 0..missing
        BY <1>3, <2>2
      <3> DEFINE r == <<q>>
      <3>5. r \in Seq(ClientCmd) /\ Len(r) <= 1 /\ Items(r) = {q} /\ cOut' = cOut \o r
        BY <3>3
      <3> HIDE DEF r
      <3>6. Restarted(r)
        BY <1>2, <2>2, <3>1, <3>2, <3>4, <3>5 DEF Restarted
      <3> QED
        BY <3>6
    <2>3. CASE dltype' = "none" /\ missing' = missing /\ cOut' = cOut
      <3> DEFINE r == <<>>
      <3>1. r \in Seq(ClientCmd) /\ Len(r) <= 1 /\ Items(r) = {} /\ cOut' = cOut \o r
        <4>1. Len(r) = 0
          OBVIOUS
        <4>2. r \in Seq(ClientCmd) /\ Items(r) = {}
          BY NothingThere
        <4>3. cOut' = cOut \o r
          BY <1>1, <2>3, ConcatEmptySeq DEF Packets
        <4> HIDE DEF r
        <4> QED
          BY <4>1, <4>2, <4>3
      <3> HIDE DEF r
      <3>2. missing' \in 0..missing
        BY <1>3, <2>3
      <3>3. Restarted(r)
        BY <1>2, <2>3, <3>1, <3>2 DEF Restarted
      <3> QED
        BY <3>3
    <2> QED
      BY <1>2, <2>1, <2>2, <2>3 DEF NextSkin
  <1>5. PICK r : Restarted(r)
    BY <1>4
  <1>6. /\ r \in Seq(ClientCmd) /\ Len(r) <= 1 /\ cOut' = cOut \o r /\ missing' \in 0..missing
        /\ dltype' \in {"none", "skin"} /\ \A q \in Items(r) : RequestOK(q, level)
    BY <1>5 DEF Restarted
  <1>7. /\ level' = level /\ sstate' = sstate /\ scount' = scount /\ pext' = pext
        /\ upload' = upload /\ msg' = msg /\ back' = back /\ sIn' = sIn
        /\ toClient' = toClient /\ toServer' = toServer /\ file' = file
        /\ stuffed' = stuffed /\ cIn' = cIn /\ cstate' = cstate
        /\ servercount' = servercount /\ names' = names /\ loaded' = loaded
        /\ prints' = prints /\ midway' = midway
    BY <1>2 DEF server, inFlight
  <1>8. cOut' \in Seq(ClientCmd) /\ Requests' = Requests \cup Items(r)
    BY <1>1, <1>6, <1>7, RequestsGrow
  <1>9. Packets'
    BY <1>1, <1>7, <1>8 DEF Packets
  <1>10. Messages'
    <2>1. Answers' = Answers
      BY <1>7 DEF Answers
    <2> QED
      BY <1>1, <1>6, <1>7, <1>8, <2>1 DEF Messages
  <1>11. Limits'
    <2>1. missing' \in 0..MaxDownloads /\ restarts' \in 0..MaxRestarts
      BY <1>1, <1>2, <1>6, SignonNaturals DEF Limits
    <2> QED
      BY <1>1, <1>7, <2>1 DEF Limits
  <1>12. SignonTypeOK'
    BY <1>1, <1>6, <1>7 DEF SignonTypeOK
  <1> QED
    BY <1>4, <1>9, <1>10, <1>11, <1>12 DEF SignonTypes

-----------------------------------------------------------------------------
(* The order of what is under way.                                         *)

LEMMA SaidAndAsked ==
    ASSUME SignonTypes
    PROVE  /\ Answers \subseteq ServerMsg /\ Requests \subseteq ClientCmd
           /\ \A x \in Answers : AnswerOK(x, level)
           /\ \A y \in Requests : RequestOK(y, level)
           /\ RequestCount \in Nat /\ (RequestCount = 0 <=> Requests = {})
           /\ \A x \in Items(stuffed) : x.op = "stuff"
           /\ \A x \in Items(back) : x.op # "serverdata" /\ x \in Answers
  <1>1. Packets /\ Messages
    BY DEF SignonTypes
  <1>2. Answers \subseteq ServerMsg /\ Requests \subseteq ClientCmd
    BY <1>1, ItemsIn DEF Packets, Answers, Requests
  <1>3. RequestCount \in Nat /\ (RequestCount = 0 <=> Requests = {})
    <2>1. sIn \in Seq(ClientCmd) /\ toServer \in Seq(ClientCmd) /\ cOut \in Seq(ClientCmd)
      BY <1>1 DEF Packets
    <2>2. /\ Len(sIn) + Len(toServer) + Len(cOut) \in Nat
          /\ Len(sIn) + Len(toServer) + Len(cOut) = 0
                <=> Items(sIn) \cup Items(toServer) \cup Items(cOut) = {}
      BY <2>1, NoneLeft
    <2> QED
      BY <2>2 DEF RequestCount, Requests
  <1> QED
    BY <1>1, <1>2, <1>3 DEF Messages, Answers

LEMMA FollowsMore ==
    ASSUME NEW S, NEW a \in Seq(S), NEW b \in Seq(S), NEW c \in Seq(S), NEW d \in Seq(S),
           NEW e \in Seq(S), NEW R, NEW T, Follow(a, b, c, d, e, R),
           \A x, y \in Items(a) \cup Items(b) \cup Items(c) \cup Items(d) \cup Items(e) :
             <<x, y>> \in R => <<x, y>> \in T
    PROVE  Follow(a, b, c, d, e, T)
  <1>1. /\ InPairs(a, R) /\ InPairs(b, R) /\ InPairs(c, R) /\ InPairs(d, R) /\ InPairs(e, R)
    BY DEF Follow
  <1>2. InPairs(a, T)
    BY <1>1, PairsGrow
  <1>3. InPairs(b, T)
    BY <1>1, PairsGrow
  <1>4. InPairs(c, T)
    BY <1>1, PairsGrow
  <1>5. InPairs(d, T)
    BY <1>1, PairsGrow
  <1>6. InPairs(e, T)
    BY <1>1, PairsGrow
  <1>7. /\ Ahead(a, b, T) /\ Ahead(a, c, T) /\ Ahead(a, d, T) /\ Ahead(a, e, T)
        /\ Ahead(b, c, T) /\ Ahead(b, d, T) /\ Ahead(b, e, T)
        /\ Ahead(c, d, T) /\ Ahead(c, e, T) /\ Ahead(d, e, T)
    BY DEF Follow, Ahead
  <1> QED
    BY <1>2, <1>3, <1>4, <1>5, <1>6, <1>7 DEF Follow

LEMMA AskGrow ==
    ASSUME Packets, NEW R, NEW T, RequestsFollow(R),
           \A x, y \in Requests : <<x, y>> \in R => <<x, y>> \in T
    PROVE  RequestsFollow(T)
  <1>1. /\ \A x, y \in Items(sIn) : <<x, y>> \in R => <<x, y>> \in T
        /\ \A x, y \in Items(toServer) : <<x, y>> \in R => <<x, y>> \in T
        /\ \A x, y \in Items(cOut) : <<x, y>> \in R => <<x, y>> \in T
    BY DEF Requests
  <1>2. InPairs(sIn, R) /\ InPairs(toServer, R) /\ InPairs(cOut, R)
    BY DEF RequestsFollow
  <1>3. InPairs(sIn, T)
    BY <1>1, <1>2, PairsGrow DEF Packets
  <1>4. InPairs(toServer, T)
    BY <1>1, <1>2, PairsGrow DEF Packets
  <1>5. InPairs(cOut, T)
    BY <1>1, <1>2, PairsGrow DEF Packets
  <1>6. Ahead(sIn, toServer, T) /\ Ahead(sIn, cOut, T) /\ Ahead(toServer, cOut, T)
    BY DEF RequestsFollow, Ahead, Requests
  <1> QED
    BY <1>3, <1>4, <1>5, <1>6 DEF RequestsFollow

LEMMA InOrderPairs ==
    ASSUME NEW x, NEW y, NEW sc, NEW lv
    PROVE  /\ x \in ServerMsg /\ y \in ServerMsg =>
                /\ <<x, y>> \in OrderPairs(sc, lv) <=> May(x, y, sc, lv)
                /\ <<x, y>> \in TokenPairs <=> (Token(x) => y = Text)
                /\ <<x, y>> \in DataPairs <=> (x.op \in DataLists => y.op \notin DataLists)
           /\ x \in ClientCmd /\ y \in ClientCmd =>
                (<<x, y>> \in AskPairs(lv) <=> MayAsk(x, y, lv))
  BY DEF OrderPairs, TokenPairs, DataPairs, AskPairs

LEMMA RegimeKept ==
    ASSUME SignonTypes, SameRegime, missing' \in 0..missing
    PROVE  /\ NoRestart' = NoRestart /\ Undisturbed' = Undisturbed /\ Quiet' = Quiet
           /\ Regular' => Regular
           /\ missing' = MaxDownloads => missing = MaxDownloads
  <1>1. prints' = prints /\ restarts' = restarts /\ midway' = midway
    BY DEF SameRegime
  <1>2. missing \in 0..MaxDownloads /\ MaxDownloads \in Nat
    BY SignonNaturals DEF SignonTypes, Limits
  <1>3. missing' = MaxDownloads => missing = MaxDownloads
    BY <1>2
  <1>4. NoRestart' = NoRestart /\ Undisturbed' = Undisturbed /\ Quiet' = Quiet
    BY <1>1 DEF NoRestart, Undisturbed, Quiet, Calm, RoomForTexts
  <1> QED
    BY <1>3, <1>4 DEF Regular

LEMMA GoneTakes ==
    ASSUME SignonTypes, NEW x \in ServerMsg, Gone(x, stuffed, cIn, stuffed', cIn'),
           stuffed' \in Seq(ServerMsg), cIn' \in Seq(ServerMsg),
           UNCHANGED <<toClient, msg, back>>
    PROVE  TakesAnswer(x)
  <1>1. Packets
    BY DEF SignonTypes
  <1>2. /\ Answers = {x} \cup Answers'
        /\ AnswerCount = AnswerCount' + 1 /\ AnswerCount' \in Nat
        /\ \A R : AnswersFollow(R) =>
             /\ AnswersFollow(R)'
             /\ \A y \in Answers' :
                  <<x, y>> \in R \/ (y \in Items(stuffed) /\ <<y, x>> \in R)
    BY <1>1, AnswersGone
  <1>3. \A y \in Items(stuffed) : y.op = "stuff"
    BY DEF SignonTypes, Messages
  <1>4. ASSUME NEW R, Follow(stuffed, cIn, toClient, msg, back, R)
        PROVE  /\ Follow(stuffed', cIn', toClient', msg', back', R)
               /\ \A y \in Answers' : <<x, y>> \in R \/ (y.op = "stuff" /\ <<y, x>> \in R)
    <2>1. AnswersFollow(R)
      BY <1>4 DEF AnswersFollow
    <2>2. /\ AnswersFollow(R)'
          /\ \A y \in Answers' :
               <<x, y>> \in R \/ (y \in Items(stuffed) /\ <<y, x>> \in R)
      BY <1>2, <2>1
    <2>3. Follow(stuffed', cIn', toClient', msg', back', R)
      BY <2>2 DEF AnswersFollow
    <2> QED
      BY <1>3, <2>2, <2>3
  <1> QED
    BY <1>2, <1>4 DEF TakesAnswer

LEMMA GrowMakes ==
    ASSUME SignonTypes, NEW r \in Seq(ClientCmd), Len(r) <= 1, cOut' = cOut \o r,
           UNCHANGED <<sIn, toServer>>
    PROVE  MakesRequest(r)
  <1>1. Packets
    BY DEF SignonTypes
  <1>2. /\ Requests' = Requests \cup Items(r)
        /\ RequestCount' = RequestCount + Len(r) /\ RequestCount \in Nat /\ Len(r) \in Nat
        /\ \A R : /\ RequestsFollow(R)
                  /\ \A y \in Requests : \A z \in Items(r) : <<y, z>> \in R
                  => RequestsFollow(R)'
    BY <1>1, RequestsGrow
  <1>3. Items(r) \subseteq ClientCmd /\ (Items(r) = {} <=> r = <<>>)
    BY ItemsIn
  <1>4. DOMAIN r = 1..Len(r) /\ (Len(r) = 0 <=> r = <<>>)
    BY LenProperties, EmptySeq
  <1>5. \A p, q \in Items(r) : p = q
    <2>1. \A i, j \in DOMAIN r : i = j
      BY <1>2, <1>4
    <2> QED
      BY <2>1 DEF Items
  <1>6. (Items(r) = {} => Len(r) = 0) /\ (Items(r) # {} => Len(r) = 1)
    BY <1>2, <1>3, <1>4
  <1> QED
    BY <1>2, <1>3, <1>5, <1>6 DEF MakesRequest

LEMMA ReadsBoth ==
    ASSUME SignonTypes, NEW x, NEW r, Reads(x, r)
    PROVE  /\ TakesAnswer(x) /\ MakesRequest(r) /\ SameServer /\ SameRegime
           /\ servercount' = servercount /\ missing' \in 0..missing
           /\ \A q \in Items(r) : Reply(x, q)
  <1>1. /\ x \in ServerMsg /\ r \in Seq(ClientCmd) /\ Len(r) <= 1
        /\ Gone(x, stuffed, cIn, stuffed', cIn')
        /\ stuffed' \in Seq(ServerMsg) /\ cIn' \in Seq(ServerMsg)
        /\ cOut' = cOut \o r /\ missing' \in 0..missing
        /\ \A q \in Items(r) : Reply(x, q)
    BY DEF Reads
  <1>2. /\ UNCHANGED <<toClient, msg, back>> /\ UNCHANGED <<sIn, toServer>>
        /\ SameServer /\ SameRegime /\ servercount' = servercount
    BY DEF Reads, server, inFlight, SameServer, SameRegime
  <1>3. TakesAnswer(x)
    BY <1>1, <1>2, GoneTakes
  <1>4. MakesRequest(r)
    BY <1>1, <1>2, GrowMakes
  <1> QED
    BY <1>1, <1>2, <1>3, <1>4

(* What it asks for is of the level it is on, or starts it over.           *)
LEMMA ReplyLevel ==
    ASSUME SignonTypes, NEW x, NEW q \in ClientCmd, Reply(x, q), FitsIn(x, servercount, level),
           servercount = level
    PROVE  /\ ~Renews(q, level) /\ (q.cmd \in Guarded => q.level = level)
           /\ ~(x.op = "stuff" /\ x.cmd \in Restarts)
  <1>1. level \in Nat
    BY SignonScalars
  <1>2. ~(x.op = "stuff" /\ x.cmd \in Restarts)
    BY <1>1 DEF FitsIn
  <1>3. \/ q.cmd \in Transfers
        \/ q.cmd \in Guarded /\ (q.level = servercount
             \/ (x.op = "stuff" /\ x.cmd \in {"prespawn", "spawn"} /\ q.level = x.level))
    BY <1>2 DEF Reply
  <1>4. q.cmd \in Transfers => q.cmd \notin Guarded /\ q.cmd \notin {"new", "pext"}
    BY DEF Transfers, Guarded
  <1>5. q.cmd \in Guarded => q.cmd \notin {"new", "pext"}
    BY DEF Guarded
  <1>6. x.op = "stuff" /\ x.cmd \in {"prespawn", "spawn"} => x.level = servercount
    BY DEF FitsIn
  <1>7. q.cmd \in Guarded => q.level = level
    BY <1>3, <1>4, <1>6
  <1> QED
    BY <1>1, <1>2, <1>3, <1>4, <1>5, <1>7 DEF Renews

LEMMA ReplyBelow ==
    ASSUME SignonTypes, NEW x, NEW q \in ClientCmd, Reply(x, q), FitsIn(x, servercount, level),
           q.cmd \in Guarded
    PROVE  q.level = servercount
  <1>1. q.cmd \notin Transfers /\ q.cmd \notin {"new", "pext"}
    BY DEF Transfers, Guarded
  <1>2. x.op = "stuff" /\ x.cmd \in {"prespawn", "spawn"} => x.level = servercount
    BY DEF FitsIn
  <1> QED
    BY <1>1, <1>2 DEF Reply

LEMMA ReadsOrder ==
    ASSUME SignonTypes, Regular, Order, Undisturbed => Single, NEW x, NEW r, Reads(x, r)
    PROVE  Order'
  <1>1. /\ TakesAnswer(x) /\ MakesRequest(r) /\ SameServer /\ SameRegime
        /\ servercount' = servercount /\ missing' \in 0..missing
        /\ \A q \in Items(r) : Reply(x, q)
    BY ReadsBoth
  <1>2. /\ NoRestart' = NoRestart /\ Undisturbed' = Undisturbed
        /\ missing' = MaxDownloads => missing = MaxDownloads
    BY <1>1, RegimeKept
  <1>3. /\ level' = level /\ sstate' = sstate /\ scount' = scount /\ pext' = pext
    BY <1>1 DEF SameServer
  <1>4. x \in ServerMsg /\ x \in Answers /\ Answers = {x} \cup Answers'
    BY <1>1 DEF TakesAnswer
  <1>5. /\ Items(r) \subseteq ClientCmd /\ Requests' = Requests \cup Items(r)
    BY <1>1 DEF MakesRequest
  <1>6. /\ Answers \subseteq ServerMsg /\ Requests \subseteq ClientCmd
        /\ \A z \in Answers : AnswerOK(z, level)
    BY SaidAndAsked
  <1>7. level \in Nat /\ servercount \in Nat /\ servercount <= level
    <2>1. level \in Nat /\ servercount \in 0..level
      BY SignonScalars
    <2> QED
      BY <2>1
  <1>8. InOrder /\ Together /\ ServerSide /\ NoTransfers
    BY DEF Order
  <1>9. \A z \in Answers : FitsIn(z, servercount, level)
    BY <1>8 DEF InOrder
  <1>10. \A z \in Requests : z.cmd \in Guarded => z.level \in Nat /\ z.level <= servercount
    BY <1>6, <1>8, RequestFields DEF InOrder
  <1>11. \A q \in Items(r) : servercount = level =>
           /\ ~Renews(q, level) /\ (q.cmd \in Guarded => q.level = level)
           /\ ~(x.op = "stuff" /\ x.cmd \in Restarts)
    BY <1>1, <1>4, <1>5, <1>9, ReplyLevel
  <1>12. \A q \in Items(r) : q.cmd \in Guarded => q.level = servercount
    BY <1>1, <1>4, <1>5, <1>9, ReplyBelow
  <1>13. \A z \in Requests : z.cmd \in Guarded /\ z.level = level => servercount = level
    BY <1>7, <1>10
  <1>14. InOrder'
    <2>1. Follow(stuffed', cIn', toClient', msg', back', OrderPairs(servercount', level'))
      <3>1. Follow(stuffed, cIn, toClient, msg, back, OrderPairs(servercount, level))
        BY <1>8 DEF InOrder, AnswersFollow
      <3> QED
        BY <1>1, <1>3, <3>1 DEF TakesAnswer
    <2>2. \A z \in Answers' : FitsIn(z, servercount', level')
      BY <1>1, <1>3, <1>4, <1>9
    <2>3. RequestsFollow(AskPairs(level))'
      <3> DEFINE R == AskPairs(level)
      <3>1. RequestsFollow(R)
        BY <1>8 DEF InOrder
      <3>2. ASSUME NEW z \in Requests, NEW q \in Items(r) PROVE <<z, q>> \in R
        <4>1. MayAsk(z, q, level)
          BY <1>11, <1>13 DEF MayAsk
        <4>2. z \in ClientCmd /\ q \in ClientCmd
          BY <1>5, <1>6
        <4> QED
          BY <4>1, <4>2, InOrderPairs
      <3>3. R = AskPairs(level')
        BY <1>3
      <3> HIDE DEF R
      <3>4. InPairs(sIn', R) /\ InPairs(toServer', R) /\ InPairs(cOut', R)
            /\ Ahead(sIn', toServer', R) /\ Ahead(sIn', cOut', R) /\ Ahead(toServer', cOut', R)
        BY <1>1, <3>1, <3>2 DEF MakesRequest, RequestsFollow
      <3> QED
        BY <3>3, <3>4 DEF RequestsFollow
    <2>4. \A z \in Requests' : z.cmd \in Guarded => z.level <= servercount'
      BY <1>1, <1>5, <1>7, <1>10, <1>12
    <2> QED
      BY <2>1, <2>2, <2>3, <2>4 DEF InOrder, AnswersFollow
  <1>15. servercount = level /\ (\E z \in Answers : z.op \in Lists \/ z.op = "stuff")
           => NoRenewal
    BY <1>8 DEF Together
  <1>16. servercount = level /\ NoRenewal => NoRenewal'
    BY <1>3, <1>5, <1>11 DEF NoRenewal
  <1>17. NoServerData => NoServerData'
    BY <1>4 DEF NoServerData
  <1>18. Together'
    <2>1. ASSUME NEW z \in Requests', Advanced(z, level, NoRestart)
          PROVE  NoRenewal' /\ NoServerData'
      <3>1. z.cmd \in Guarded /\ z.level = level
        BY <2>1 DEF Advanced
      <3>2. servercount = level
        BY <1>5, <1>12, <1>13, <3>1
      <3>3. CASE z \in Requests
        BY <1>8, <1>16, <1>17, <2>1, <3>2, <3>3 DEF Together
      <3>4. CASE z \in Items(r)
        <4>1. \/ x.op \in {"sounds", "models", "download"}
              \/ x.op = "stuff" /\ x.cmd \notin Restarts
          BY <1>1, <1>11, <3>2, <3>4 DEF Reply
        <4>2. CASE x.op \in {"sounds", "models"} \/ (x.op = "stuff" /\ x.cmd \notin Restarts)
          <5>1. NoRenewal
            BY <1>4, <1>15, <3>2, <4>2 DEF Lists
          <5>2. ASSUME NEW y \in Answers', y.op = "serverdata" PROVE FALSE
            <6>1. y \in Answers /\ y \in ServerMsg /\ AnswerOK(y, level)
              BY <1>4, <1>6
            <6>2. \/ <<x, y>> \in OrderPairs(servercount, level)
                  \/ y.op = "stuff" /\ <<y, x>> \in OrderPairs(servercount, level)
              <7>1. Follow(stuffed, cIn, toClient, msg, back, OrderPairs(servercount, level))
                BY <1>8 DEF InOrder, AnswersFollow
              <7> QED
                BY <1>1, <7>1 DEF TakesAnswer
            <6>3. May(x, y, servercount, level)
              BY <1>4, <5>2, <6>1, <6>2, InOrderPairs
            <6>4. y.level > servercount
              BY <4>2, <5>2, <6>3 DEF May, Lists
            <6>5. y.level \in 1..level
              BY <5>2, <6>1 DEF AnswerOK
            <6> QED
              BY <1>7, <3>2, <6>4, <6>5
          <5> QED
            BY <1>16, <3>2, <5>1, <5>2 DEF NoServerData
        <4>3. CASE x.op = "download"
          <5>1. missing # MaxDownloads
            BY <1>4, <1>8, <4>3 DEF NoTransfers
          <5>2. Single
            BY <5>1 DEF Regular
          <5>3. x # Text
            BY <4>3 DEF Text
          <5>4. Requests = {}
            BY <1>4, <5>2, <5>3 DEF Single, Silent
          <5>5. NoRenewal
            BY <5>4 DEF NoRenewal
          <5>6. ASSUME NEW y \in Answers', y.op = "serverdata" PROVE FALSE
            <6>1. y \in ServerMsg
              BY <1>4, <1>6
            <6>2. <<x, y>> \in TokenPairs \/ (y.op = "stuff" /\ <<y, x>> \in TokenPairs)
              <7>1. Follow(stuffed, cIn, toClient, msg, back, TokenPairs)
                BY <5>2 DEF Single, AnswersFollow
              <7> QED
                BY <1>1, <7>1 DEF TakesAnswer
            <6>3. Token(x) => y = Text
              BY <1>4, <5>6, <6>1, <6>2, InOrderPairs
            <6>4. Token(x)
              BY <4>3 DEF Token, DataLists
            <6> QED
              BY <5>6, <6>3, <6>4 DEF Text
          <5> QED
            BY <1>16, <3>2, <5>5, <5>6 DEF NoServerData
        <4> QED
          BY <4>1, <4>2, <4>3
      <3> QED
        BY <1>5, <2>1, <3>3, <3>4
    <2>2. ASSUME servercount = level, NEW z \in Answers', z.op \in Lists \/ z.op = "stuff"
          PROVE  NoRenewal'
      BY <1>4, <1>15, <1>16, <2>2
    <2>3. \A z \in Requests' : Advanced(z, level', NoRestart') => NoRenewal' /\ NoServerData'
      BY <1>2, <1>3, <2>1
    <2> QED
      BY <1>1, <1>3, <2>2, <2>3 DEF Together
  <1>19. ServerSide'
    <2>1. /\ servercount = level => scount = level
          /\ \A z \in Answers : z.op = "serverdata" /\ z.level = level => scount = level
          /\ pext => servercount = 0 /\ NoServerData
          /\ sstate = "spawned" /\ NoRestart => servercount = level /\ NoServerData
      BY <1>8 DEF ServerSide
    <2>2. /\ servercount' = level' => scount' = level'
          /\ \A z \in Answers' : z.op = "serverdata" /\ z.level = level' => scount' = level'
          /\ pext' => servercount' = 0 /\ NoServerData'
          /\ sstate' = "spawned" /\ NoRestart' => servercount' = level' /\ NoServerData'
      BY <1>1, <1>2, <1>3, <1>4, <1>17, <2>1
    <2> QED
      BY <2>2 DEF ServerSide
  <1>20. NoTransfers'
    <2> SUFFICES ASSUME missing' = MaxDownloads
                 PROVE  /\ \A z \in Answers' : z.op # "download"
                        /\ \A z \in Requests' : z.cmd \notin Transfers
      BY DEF NoTransfers
    <2>1. /\ \A z \in Answers : z.op # "download"
          /\ \A z \in Requests : z.cmd \notin Transfers
      BY <1>2, <1>8 DEF NoTransfers
    <2>2. MaxDownloads \in Nat
      BY SignonNaturals
    <2>3. ASSUME NEW q \in Items(r) PROVE q.cmd \notin Transfers
      <3>1. x.op # "download" /\ ~(missing' < MaxDownloads)
        BY <1>4, <2>1, <2>2
      <3>2. q.cmd \in Guarded \cup {"new", "pext"} => q.cmd \notin Transfers
        BY DEF Guarded, Transfers
      <3> QED
        BY <1>1, <3>1, <3>2 DEF Reply
    <2> QED
      BY <1>4, <1>5, <2>1, <2>3
  <1> QED
    BY <1>14, <1>18, <1>19, <1>20 DEF Order

LEMMA MovedOrder ==
    ASSUME SignonTypes, Moved, Order
    PROVE  Order'
  <1>1. InOrder /\ Together /\ ServerSide /\ NoTransfers
    BY DEF Order
  <1>2. /\ Answers' = Answers /\ Requests' = Requests
        /\ \A R : AnswersFollow(R) => AnswersFollow(R)'
        /\ \A R : RequestsFollow(R) => RequestsFollow(R)'
        /\ level' = level /\ sstate' = sstate /\ scount' = scount /\ pext' = pext
        /\ servercount' = servercount /\ missing' = missing /\ restarts' = restarts
    BY DEF Moved, limits
  <1>3. NoRestart' = NoRestart /\ NoRenewal' = NoRenewal /\ NoServerData' = NoServerData
    BY <1>2 DEF NoRestart, NoRenewal, NoServerData
  <1>4. InOrder'
    <2>1. Follow(stuffed', cIn', toClient', msg', back', OrderPairs(servercount', level'))
      <3> DEFINE R == OrderPairs(servercount, level)
      <3>1. AnswersFollow(R)
        BY <1>1 DEF InOrder
      <3>2. R = OrderPairs(servercount', level')
        BY <1>2
      <3> HIDE DEF R
      <3>3. Follow(stuffed', cIn', toClient', msg', back', R)
        BY <1>2, <3>1 DEF AnswersFollow
      <3> QED
        BY <3>2, <3>3
    <2>2. RequestsFollow(AskPairs(level))'
      <3> DEFINE R == AskPairs(level)
      <3>1. RequestsFollow(R)
        BY <1>1 DEF InOrder
      <3>2. R = AskPairs(level')
        BY <1>2
      <3> HIDE DEF R
      <3>3. InPairs(sIn', R) /\ InPairs(toServer', R) /\ InPairs(cOut', R)
            /\ Ahead(sIn', toServer', R) /\ Ahead(sIn', cOut', R) /\ Ahead(toServer', cOut', R)
        BY <1>2, <3>1 DEF RequestsFollow
      <3> QED
        BY <3>2, <3>3 DEF RequestsFollow
    <2> QED
      BY <1>1, <1>2, <2>1, <2>2 DEF InOrder, AnswersFollow
  <1>5. Together'
    BY <1>1, <1>2, <1>3 DEF Together
  <1>6. ServerSide' /\ NoTransfers'
    BY <1>1, <1>2, <1>3 DEF ServerSide, NoTransfers
  <1> QED
    BY <1>4, <1>5, <1>6 DEF Order

(* What the client reads when it renews: only what comes after.            *)
LEMMA RenewedBoth ==
    ASSUME SignonTypes, NEW x, NEW q, Renewed(x, q)
    PROVE  /\ TakesAnswer(x) /\ AsksOnly(q)
           /\ SameServer /\ SameRegime
           /\ missing' = missing /\ dltype' = dltype
           /\ servercount <= level /\ x.level \in 1..level
           /\ servercount \in Nat /\ level \in Nat /\ x.level \in Nat
  <1>1. /\ x \in ServerMsg /\ x.op = "serverdata" /\ x \in Answers
        /\ Gone(x, stuffed, cIn, stuffed', cIn')
        /\ stuffed' = <<>> /\ cIn' \in Seq(ServerMsg)
        /\ q \in ClientCmd /\ cOut' = <<q>>
    BY DEF Renewed, Gone
  <1>2. /\ UNCHANGED <<toClient, msg, back>> /\ UNCHANGED <<sIn, toServer>>
        /\ SameServer /\ SameRegime /\ missing' = missing /\ dltype' = dltype
    BY DEF Renewed, server, inFlight, limits, SameServer, SameRegime
  <1>3. stuffed' \in Seq(ServerMsg)
    BY <1>1, NothingThere
  <1>4. TakesAnswer(x)
    BY <1>1, <1>2, <1>3, GoneTakes
  <1> DEFINE r == <<q>>
  <1>5. /\ r \in Seq(ClientCmd) /\ Items(r) = {q} /\ Len(r) = 1 /\ cOut' = r
        /\ \A R : InPairs(r, R)
    BY <1>1, OneRequest, ItemsFew, PairsFew
  <1> HIDE DEF r
  <1>6. AsksOnly(q)
    <2>1. /\ sIn \in Seq(ClientCmd) /\ toServer \in Seq(ClientCmd) /\ cOut \in Seq(ClientCmd)
      BY DEF SignonTypes, Packets
    <2>2. sIn' = sIn /\ toServer' = toServer /\ Items(cOut') = {q}
      BY <1>2, <1>5
    <2>3. q \in Requests' /\ Requests' \subseteq Requests \cup {q}
      BY <2>2 DEF Requests
    <2>4. ASSUME Requests = {} PROVE Requests' = {q} /\ RequestCount' = 1
      <3>1. Items(sIn) = {} /\ Items(toServer) = {}
        BY <2>4 DEF Requests
      <3>2. Len(sIn) = 0 /\ Len(toServer) = 0
        BY <2>1, <3>1, ItemsIn, EmptySeq
      <3>3. RequestCount' = 1
        BY <1>5, <2>2, <3>2 DEF RequestCount
      <3> QED
        BY <2>2, <3>1, <3>3 DEF Requests
    <2>5. ASSUME NEW R, RequestsFollow(R), \A y \in Requests : <<y, q>> \in R
          PROVE  Behind(sIn', toServer', cOut', R)
      <3>1. InPairs(sIn, R) /\ InPairs(toServer, R) /\ Ahead(sIn, toServer, R)
        BY <2>5 DEF RequestsFollow
      <3>2. InPairs(cOut', R)
        BY <1>5
      <3>3. Ahead(sIn', cOut', R) /\ Ahead(toServer', cOut', R)
        BY <2>2, <2>5 DEF Ahead, Requests
      <3> QED
        BY <2>2, <3>1, <3>2, <3>3 DEF Behind
    <2> QED
      BY <2>3, <2>4, <2>5 DEF AsksOnly
  <1>7. AnswerOK(x, level)
    BY <1>1, SaidAndAsked
  <1>8. x.level \in 1..level /\ x.level \in Nat
    BY <1>1, <1>7, MessageFields DEF AnswerOK
  <1>9. servercount \in 0..level /\ level \in Nat
    BY SignonScalars
  <1>10. servercount <= level /\ servercount \in Nat
    BY <1>9
  <1> QED
    BY <1>2, <1>4, <1>6, <1>8, <1>9, <1>10

LEMMA RenewedFirst ==
    ASSUME SignonTypes, NEW x, NEW q, Renewed(x, q), InOrder
    PROVE  /\ \A y \in Answers' : May(x, y, servercount, level)
           /\ servercount <= x.level
           /\ Single => \A y \in Answers' : y = Text
  <1>1. TakesAnswer(x)
    BY RenewedBoth
  <1>2. x.op = "serverdata" /\ x \in ServerMsg /\ x \in Answers /\ stuffed = <<>>
    BY DEF Renewed
  <1>3. Answers = {x} \cup Answers' /\ Answers \subseteq ServerMsg
    BY <1>1, SaidAndAsked DEF TakesAnswer
  <1>4. stuffed = <<>> /\ cIn = <<x>> \o cIn' /\ cIn' \in Seq(ServerMsg) /\ stuffed' = <<>>
        /\ toClient' = toClient /\ msg' = msg /\ back' = back
    BY DEF Renewed, server, inFlight
  <1>5. ASSUME NEW R, Follow(stuffed, cIn, toClient, msg, back, R), NEW y \in Answers'
        PROVE  <<x, y>> \in R
    <2>1. /\ InPairs(cIn, R) <=> InPairs(cIn', R) /\ \A z \in Items(cIn') : <<x, z>> \in R
          /\ Items(cIn) = {x} \cup Items(cIn')
      BY <1>2, <1>4, OneFirst
    <2>2. /\ InPairs(cIn, R) /\ Ahead(cIn, toClient, R) /\ Ahead(cIn, msg, R)
          /\ Ahead(cIn, back, R)
      BY <1>5 DEF Follow
    <2>3. Items(stuffed') = {}
      BY <1>4, NothingThere
    <2> QED
      BY <1>4, <1>5, <2>1, <2>2, <2>3 DEF Ahead, Answers
  <1>6. ASSUME NEW y \in Answers' PROVE May(x, y, servercount, level)
    <2>1. <<x, y>> \in OrderPairs(servercount, level)
      BY <1>5 DEF InOrder, AnswersFollow
    <2> QED
      BY <1>3, <2>1, InOrderPairs
  <1>7. servercount <= x.level
    BY <1>2 DEF InOrder, FitsIn
  <1>8. ASSUME Single, NEW y \in Answers' PROVE y = Text
    <2>1. <<x, y>> \in TokenPairs
      BY <1>5, <1>8 DEF Single, AnswersFollow
    <2>2. Token(x)
      BY <1>2 DEF Token, DataLists
    <2> QED
      BY <1>3, <2>1, <2>2, InOrderPairs
  <1> QED
    BY <1>6, <1>7, <1>8

LEMMA RenewedOrder ==
    ASSUME SignonTypes, Order, NEW x, NEW q, Renewed(x, q)
    PROVE  Order'
  <1>1. InOrder /\ Together /\ ServerSide /\ NoTransfers
    BY DEF Order
  <1>2. /\ TakesAnswer(x) /\ AsksOnly(q)
        /\ SameServer /\ SameRegime
        /\ missing' = missing
        /\ servercount <= level /\ x.level \in 1..level
        /\ servercount \in Nat /\ level \in Nat /\ x.level \in Nat
    BY RenewedBoth
  <1>3. /\ x.op = "serverdata" /\ x \in ServerMsg /\ x \in Answers /\ servercount' = x.level
        /\ q \in ClientCmd /\ q.cmd = "soundlist" /\ q.level = x.level /\ q.n = 0
    BY DEF Renewed
  <1>4. Answers = {x} \cup Answers' /\ Requests' \subseteq Requests \cup {q}
    BY <1>2 DEF TakesAnswer, AsksOnly
  <1>5. /\ \A y \in Answers' : May(x, y, servercount, level)
        /\ servercount <= x.level
    BY <1>1, RenewedFirst
  <1>6. /\ level' = level /\ sstate' = sstate /\ scount' = scount /\ pext' = pext
        /\ restarts' = restarts /\ NoRestart' = NoRestart
    BY <1>2 DEF SameServer, SameRegime, NoRestart
  <1>7. /\ Answers \subseteq ServerMsg /\ Requests \subseteq ClientCmd
    BY SaidAndAsked
  <1>8. ~NoServerData
    BY <1>3 DEF NoServerData
  <1>9. /\ \A z \in Answers : FitsIn(z, servercount, level)
        /\ \A z \in Requests : z.cmd \in Guarded => z.level \in Nat /\ z.level <= servercount
    BY <1>1, <1>7, RequestFields DEF InOrder
  <1>10. ~Renews(q, level) \/ x.level < level
    BY <1>3 DEF Renews
  <1>11. InOrder'
    <2>1. Follow(stuffed', cIn', toClient', msg', back', OrderPairs(servercount', level'))
      <3>1. Follow(stuffed, cIn, toClient, msg, back, OrderPairs(servercount, level))
        BY <1>1 DEF InOrder, AnswersFollow
      <3>2. Follow(stuffed', cIn', toClient', msg', back', OrderPairs(servercount, level))
        BY <1>2, <3>1 DEF TakesAnswer
      <3>3. ASSUME NEW y \in Answers', NEW z \in Answers',
                   <<y, z>> \in OrderPairs(servercount, level)
            PROVE  <<y, z>> \in OrderPairs(x.level, level)
        <4>1. y \in ServerMsg /\ z \in ServerMsg
          BY <1>4, <1>7
        <4>2. May(y, z, servercount, level) /\ May(x, y, servercount, level)
              /\ May(x, z, servercount, level)
          BY <1>5, <3>3, <4>1, InOrderPairs
        <4>3. z.op \in Lists => x.level = servercount
          BY <1>3, <4>2 DEF May
        <4>4. y.op \in Lists => x.level = servercount
          BY <1>3, <4>2 DEF May
        <4>5. ~(y.op = "stuff" /\ y.cmd \notin Restarts)
          BY <1>3, <4>2 DEF May, Restarts
        <4>6. /\ y.op = "serverdata" =>
                   /\ z.op = "serverdata" => y.level <= z.level
                   /\ z.op \in Lists => z.op = "sounds" /\ z.from = 0 /\ y.level = x.level
                   /\ z.op = "stuff" => /\ z.cmd \in {"reconnect", "changing reconnect"}
                                      /\ y.level < level
          BY <4>2, <4>3 DEF May
        <4>7. z.op = "serverdata" /\ y.op \in Lists => z.level > x.level
          BY <4>2, <4>4 DEF May
        <4>8. May(y, z, x.level, level)
          BY <4>5, <4>6, <4>7 DEF May
        <4> QED
          BY <4>1, <4>8, InOrderPairs
      <3> DEFINE R == OrderPairs(servercount, level)
                 T == OrderPairs(x.level, level)
      <3>4. \A y, z \in Answers' : <<y, z>> \in R => <<y, z>> \in T
        BY <3>3
      <3>5. Follow(stuffed', cIn', toClient', msg', back', R)
        BY <3>2
      <3>6. Packets'
        <4>1. stuffed' = <<>> /\ cIn' \in Seq(ServerMsg)
          BY DEF Renewed
        <4>2. /\ toClient' = toClient /\ msg' = msg /\ back' = back /\ sIn' = sIn
              /\ toServer' = toServer /\ cOut' = <<q>>
          BY DEF Renewed, server, inFlight
        <4>3. Packets
          BY DEF SignonTypes
        <4>4. cOut' \in Seq(ClientCmd)
          BY <1>3, <4>2
        <4> QED
          BY <4>1, <4>2, <4>3, <4>4, NothingThere DEF Packets
      <3> HIDE DEF R, T
      <3>7. Follow(stuffed', cIn', toClient', msg', back', T)
        BY <3>4, <3>5, <3>6, FollowsMore DEF Packets, Answers
      <3> QED
        BY <1>3, <1>6, <3>7 DEF T
    <2>2. ASSUME NEW z \in Answers' PROVE FitsIn(z, servercount', level')
      <3>1. May(x, z, servercount, level) /\ FitsIn(z, servercount, level)
        BY <1>4, <1>5, <1>9
      <3>2. FitsIn(z, x.level, level)
        BY <1>2, <1>3, <3>1 DEF May, FitsIn, Restarts
      <3> QED
        BY <1>3, <1>6, <3>2
    <2>3. RequestsFollow(AskPairs(level))'
      <3> DEFINE R == AskPairs(level)
      <3>1. RequestsFollow(R)
        BY <1>1 DEF InOrder
      <3>2. ASSUME NEW z \in Requests PROVE <<z, q>> \in R
        <4>1. MayAsk(z, q, level)
          BY <1>2, <1>5, <1>9, <1>10 DEF MayAsk
        <4> QED
          BY <1>3, <1>7, <4>1, InOrderPairs
      <3>3. R = AskPairs(level')
        BY <1>6
      <3> HIDE DEF R
      <3>4. Behind(sIn', toServer', cOut', R)
        BY <1>2, <3>1, <3>2 DEF AsksOnly
      <3> QED
        BY <3>3, <3>4 DEF RequestsFollow, Behind
    <2>4. ASSUME NEW z \in Requests', z.cmd \in Guarded PROVE z.level <= servercount'
      BY <1>2, <1>3, <1>4, <1>5, <1>9, <2>4
    <2> QED
      BY <2>1, <2>2, <2>3, <2>4 DEF InOrder, AnswersFollow
  <1>12. Together'
    <2>1. ASSUME NEW z \in Requests', Advanced(z, level, NoRestart) PROVE FALSE
      <3>1. z \notin Requests
        BY <1>1, <1>8, <2>1 DEF Together
      <3>2. z = q
        BY <1>4, <3>1
      <3> QED
        BY <1>3, <2>1, <3>2 DEF Advanced
    <2>2. ASSUME x.level = level, NEW z \in Answers', z.op \in Lists \/ z.op = "stuff"
          PROVE  NoRenewal'
      <3>1. May(x, z, servercount, level) /\ z \in Answers
        BY <1>4, <1>5
      <3>2. x.level = servercount
        <4>1. z.op = "stuff" => x.level < level
          BY <1>3, <3>1 DEF May
        <4>2. ~(x.level < level)
          BY <1>2, <2>2
        <4>3. z.op \in Lists
          BY <2>2, <4>1, <4>2
        <4> QED
          BY <1>3, <3>1, <4>3 DEF May
      <3>3. NoRenewal
        BY <1>1, <2>2, <3>1, <3>2 DEF Together
      <3>4. ~Renews(q, level)
        BY <1>2, <1>10, <2>2
      <3> QED
        BY <1>4, <1>6, <3>3, <3>4 DEF NoRenewal
    <2>3. \A z \in Requests' : Advanced(z, level', NoRestart') => NoRenewal' /\ NoServerData'
      BY <1>6, <2>1
    <2> QED
      BY <1>3, <1>6, <2>2, <2>3 DEF Together
  <1>13. ServerSide'
    <2>1. /\ \A z \in Answers : z.op = "serverdata" /\ z.level = level => scount = level
          /\ ~pext /\ ~(sstate = "spawned" /\ NoRestart)
      BY <1>1, <1>8 DEF ServerSide
    <2>2. /\ servercount' = level' => scount' = level'
          /\ \A z \in Answers' : z.op = "serverdata" /\ z.level = level' => scount' = level'
          /\ ~pext' /\ ~(sstate' = "spawned" /\ NoRestart')
      BY <1>3, <1>4, <1>6, <2>1
    <2> QED
      BY <2>2 DEF ServerSide
  <1>14. NoTransfers'
    <2>1. q.cmd \notin Transfers
      BY <1>3 DEF Transfers
    <2> QED
      BY <1>1, <1>2, <1>4, <2>1 DEF NoTransfers
  <1> QED
    BY <1>11, <1>12, <1>13, <1>14 DEF Order

-----------------------------------------------------------------------------
(* The order of what is under way, when the server takes a request.        *)

LEMMA TakenTakes ==
    ASSUME SignonTypes, NEW y, Taken(y)
    PROVE  TakesRequest(y) /\ ClientWaits /\ SameLimits
  <1>1. /\ y \in ClientCmd /\ sIn = <<y>> \o sIn' /\ sIn' \in Seq(ClientCmd)
        /\ UNCHANGED <<toServer, cOut>> /\ Packets
    BY DEF Taken, client, inFlight, SignonTypes
  <1>2. ClientWaits /\ SameLimits
    BY DEF Taken, client, inFlight, limits, ClientWaits, SameLimits
  <1>3. /\ Requests = {y} \cup Requests'
        /\ RequestCount = RequestCount' + 1 /\ RequestCount' \in Nat
        /\ \A R : RequestsFollow(R) =>
             RequestsFollow(R)' /\ \A z \in Requests' : <<y, z>> \in R
    BY <1>1, RequestsGone
  <1>4. ASSUME NEW R, Behind(sIn, toServer, cOut, R)
        PROVE  Behind(sIn', toServer', cOut', R) /\ \A z \in Requests' : <<y, z>> \in R
    <2>1. RequestsFollow(R)
      BY <1>4 DEF Behind, RequestsFollow
    <2>2. RequestsFollow(R)' /\ \A z \in Requests' : <<y, z>> \in R
      BY <1>3, <2>1
    <2> QED
      BY <2>2 DEF Behind, RequestsFollow
  <1> QED
    BY <1>1, <1>2, <1>3, <1>4 DEF TakesRequest

LEMMA WritesWrite ==
    ASSUME SignonTypes, NEW n \in Seq(ServerMsg), Writes(n, msg, back, msg', back'),
           UNCHANGED <<stuffed, cIn, toClient>>
    PROVE  WritesAnswers(n)
  <1>1. Packets
    BY DEF SignonTypes
  <1>2. /\ Answers' \subseteq Answers \cup Items(n) /\ Items(n) \subseteq Answers'
        /\ AnswerCount' <= AnswerCount + Len(n) /\ AnswerCount \in Nat /\ AnswerCount' \in Nat
        /\ \A R : /\ AnswersFollow(R) /\ InPairs(n, R)
                  /\ \A x \in Answers : \A m \in Items(n) : <<x, m>> \in R
                  /\ back' = <<>> \/ \A m \in Items(n) : \A z \in Items(back) : <<m, z>> \in R
                  => AnswersFollow(R)'
    BY <1>1, AnswersWritten
  <1>3. ASSUME NEW R, Follow(stuffed, cIn, toClient, msg, back, R), InPairs(n, R),
               \A x \in Answers : \A m \in Items(n) : <<x, m>> \in R,
               back' = <<>> \/ \A m \in Items(n) : \A z \in Items(back) : <<m, z>> \in R
        PROVE  Follow(stuffed', cIn', toClient', msg', back', R)
    <2>1. AnswersFollow(R)
      BY <1>3 DEF AnswersFollow
    <2>2. AnswersFollow(R)'
      BY <1>2, <1>3, <2>1
    <2> QED
      BY <2>2 DEF AnswersFollow
  <1> QED
    BY <1>2, <1>3 DEF WritesAnswers

LEMMA LimitsKept ==
    ASSUME SameLimits
    PROVE  /\ NoRestart' = NoRestart /\ Undisturbed' = Undisturbed /\ Quiet' = Quiet
           /\ Regular' = Regular /\ missing' = missing
  BY DEF SameLimits, NoRestart, Undisturbed, Quiet, Calm, RoomForTexts, Regular

(* What every step of the server gives the order of the requests.          *)
LEMMA TakenOrder ==
    ASSUME SignonTypes, Order, NEW y, Taken(y), level' = level
    PROVE  /\ \A R : R = AskPairs(level') => Behind(sIn', toServer', cOut', R)
           /\ \A z \in Requests' : z.cmd \in Guarded => z.level <= servercount'
           /\ y \in Requests /\ Requests' \subseteq Requests /\ y \in ClientCmd
           /\ y.cmd \in Guarded /\ y.level = level =>
                servercount = level /\ \A z \in Requests' : ~Renews(z, level)
           /\ NoRenewal => NoRenewal' /\ ~Renews(y, level)
  <1>1. InOrder
    BY DEF Order
  <1>2. TakesRequest(y) /\ ClientWaits
    BY TakenTakes
  <1>3. /\ y \in ClientCmd /\ y \in Requests /\ Requests' \subseteq Requests
    BY <1>2 DEF TakesRequest
  <1>4. Requests \subseteq ClientCmd
    BY SaidAndAsked
  <1> DEFINE R == AskPairs(level)
  <1>5. Behind(sIn, toServer, cOut, R)
    BY <1>1 DEF InOrder, RequestsFollow, Behind
  <1>6. Behind(sIn', toServer', cOut', R) /\ \A z \in Requests' : <<y, z>> \in R
    BY <1>2, <1>5 DEF TakesRequest
  <1>7. ASSUME NEW T, T = AskPairs(level') PROVE Behind(sIn', toServer', cOut', T)
    <2>1. T = R
      BY <1>7
    <2> QED
      BY <1>6, <2>1
  <1>8. \A z \in Requests' : z.cmd \in Guarded => z.level <= servercount'
    BY <1>1, <1>2, <1>3 DEF InOrder, ClientWaits
  <1>9. ASSUME y.cmd \in Guarded, y.level = level
        PROVE  servercount = level /\ \A z \in Requests' : ~Renews(z, level)
    <2>1. level <= servercount /\ servercount \in 0..level /\ level \in Nat
      BY <1>1, <1>3, <1>9, SignonScalars DEF InOrder
    <2>2. servercount = level
      BY <2>1
    <2>3. \A z \in Requests' : MayAsk(y, z, level)
      BY <1>3, <1>4, <1>6, InOrderPairs
    <2> QED
      BY <1>9, <2>2, <2>3 DEF MayAsk
  <1>10. NoRenewal => NoRenewal' /\ ~Renews(y, level)
    <2> SUFFICES ASSUME NoRenewal PROVE NoRenewal' /\ ~Renews(y, level)
      OBVIOUS
    <2>1. \A z \in Requests : ~Renews(z, level)
      BY DEF NoRenewal
    <2>2. \A z \in Requests' : ~Renews(z, level')
      BY <1>3, <2>1
    <2> QED
      BY <1>3, <2>1, <2>2 DEF NoRenewal
  <1> QED
    BY <1>3, <1>7, <1>8, <1>9, <1>10

(* In the end the order is these facts.                                    *)
LEMMA InOrderFrom ==
    ASSUME NEW R, R = OrderPairs(servercount', level'),
           Follow(stuffed', cIn', toClient', msg', back', R),
           \A x \in Answers' : FitsIn(x, servercount', level'),
           NEW T, T = AskPairs(level'), Behind(sIn', toServer', cOut', T),
           \A z \in Requests' : z.cmd \in Guarded => z.level <= servercount'
    PROVE  InOrder'
  <1>1. Follow(stuffed', cIn', toClient', msg', back', OrderPairs(servercount', level'))
    OBVIOUS
  <1>2. Behind(sIn', toServer', cOut', AskPairs(level'))
    OBVIOUS
  <1>3. RequestsFollow(AskPairs(level))'
    BY <1>2 DEF Behind, RequestsFollow
  <1> QED
    BY <1>1, <1>3 DEF InOrder, AnswersFollow

LEMMA DropsOrder ==
    ASSUME SignonTypes, Order, NEW y, Drops(y)
    PROVE  Order'
  <1>1. InOrder /\ Together /\ ServerSide /\ NoTransfers
    BY DEF Order
  <1>2. /\ Taken(y) /\ level' = level /\ scount' = scount /\ pext' = pext
        /\ msg' = msg /\ back' = back
        /\ \/ sstate' = sstate
           \/ sstate' = "spawned" /\ y.cmd = "begin" /\ y.level = level
           \/ sstate' \in {"dropped: map", "dropped: overflow"}
    BY DEF Drops
  <1>3. ClientWaits /\ SameLimits
    BY <1>2, TakenTakes
  <1>4. /\ stuffed' = stuffed /\ cIn' = cIn /\ toClient' = toClient
        /\ servercount' = servercount
    BY <1>3 DEF ClientWaits
  <1>5. NoRestart' = NoRestart /\ missing' = missing
    BY <1>3, LimitsKept
  <1>6. /\ \A R : R = AskPairs(level') => Behind(sIn', toServer', cOut', R)
        /\ \A z \in Requests' : z.cmd \in Guarded => z.level <= servercount'
        /\ y \in Requests /\ Requests' \subseteq Requests /\ y \in ClientCmd
        /\ y.cmd \in Guarded /\ y.level = level =>
             servercount = level /\ \A z \in Requests' : ~Renews(z, level)
        /\ NoRenewal => NoRenewal' /\ ~Renews(y, level)
    BY <1>2, TakenOrder
  <1>7. Answers' = Answers /\ NoServerData' = NoServerData
    BY <1>2, <1>4 DEF Answers, NoServerData
  <1>8. InOrder'
    <2> DEFINE R == OrderPairs(servercount, level)
               T == AskPairs(level')
    <2>1. Follow(stuffed', cIn', toClient', msg', back', R)
      BY <1>1, <1>2, <1>4 DEF InOrder, AnswersFollow
    <2>2. \A x \in Answers' : FitsIn(x, servercount', level')
      BY <1>1, <1>2, <1>4, <1>7 DEF InOrder
    <2>3. Behind(sIn', toServer', cOut', T)
      BY <1>6
    <2>4. R = OrderPairs(servercount', level')
      BY <1>2, <1>4
    <2>5. T = AskPairs(level')
      OBVIOUS
    <2> HIDE DEF R, T
    <2> QED
      BY <1>6, <2>1, <2>2, <2>3, <2>4, <2>5, InOrderFrom
  <1>9. Together'
    <2>1. \A z \in Requests' : Advanced(z, level, NoRestart) => NoRenewal' /\ NoServerData'
      BY <1>1, <1>6, <1>7 DEF Together
    <2>2. \A z \in Requests' : Advanced(z, level', NoRestart') => NoRenewal' /\ NoServerData'
      BY <1>2, <1>5, <2>1
    <2>3. servercount' = level' =>
            \A x \in Answers' : x.op \in Lists \/ x.op = "stuff" => NoRenewal'
      BY <1>1, <1>2, <1>4, <1>6, <1>7 DEF Together
    <2> QED
      BY <2>2, <2>3 DEF Together
  <1>10. ServerSide'
    <2>1. ASSUME sstate' = "spawned", NoRestart PROVE servercount = level /\ NoServerData
      <3>1. CASE sstate' = sstate
        BY <1>1, <2>1, <3>1 DEF ServerSide
      <3>2. CASE y.cmd = "begin" /\ y.level = level
        <4>1. Advanced(y, level, NoRestart)
          BY <2>1, <3>2 DEF Advanced, Guarded
        <4>2. servercount = level
          BY <1>6, <3>2 DEF Guarded
        <4> QED
          BY <1>1, <1>6, <4>1, <4>2 DEF Together
      <3> QED
        BY <1>2, <2>1, <3>1, <3>2
    <2> QED
      BY <1>1, <1>2, <1>4, <1>5, <1>7, <2>1 DEF ServerSide
  <1>11. NoTransfers'
    BY <1>1, <1>5, <1>6, <1>7 DEF NoTransfers
  <1> QED
    BY <1>8, <1>9, <1>10, <1>11 DEF Order

-----------------------------------------------------------------------------
(* The order of what is under way, when the server answers.                *)

LEMMA StartsOverWrites ==
    ASSUME SignonTypes, NEW y, StartsOver(y)
    PROVE  /\ Taken(y) /\ Renews(y, level) /\ level' = level
           /\ \E m \in ServerMsg, n \in Seq(ServerMsg) :
                /\ Items(n) = {m} /\ Len(n) = 1 /\ (\A R : InPairs(n, R))
                /\ WritesAnswers(n)
                /\ \/ /\ m = ServerData /\ back' = <<>> /\ ~pext /\ pext' = pext
                      /\ scount' = level /\ sstate' = "connected"
                   \/ /\ m.op = "stuff" /\ m.cmd \in {"pext", "new"} /\ pext
                      /\ scount' \in {scount, level} /\ sstate' = sstate
  <1>1. /\ Taken(y) /\ Renews(y, level) /\ level' = level
    BY DEF StartsOver
  <1>2. PICK m \in ServerMsg :
         /\ Writes(<<m>>, msg, back, msg', back')
         /\ \/ /\ m = ServerData /\ back' = <<>> /\ ~pext /\ pext' = pext
               /\ scount' = level /\ sstate' = "connected"
            \/ /\ m.op = "stuff" /\ m.cmd \in {"pext", "new"} /\ pext
               /\ scount' \in {scount, level} /\ sstate' = sstate
    BY DEF StartsOver
  <1> DEFINE n == <<m>>
  <1>3. n \in Seq(ServerMsg) /\ Items(n) = {m} /\ Len(n) = 1 /\ (\A R : InPairs(n, R))
    BY OneMessage
  <1>4. Writes(n, msg, back, msg', back')
    BY <1>2
  <1> HIDE DEF n
  <1>5. UNCHANGED <<stuffed, cIn, toClient>>
    BY <1>1 DEF Taken, client, inFlight
  <1>6. WritesAnswers(n)
    BY <1>3, <1>4, <1>5, WritesWrite
  <1> QED
    BY <1>1, <1>2, <1>3, <1>6

LEMMA StartsOverOrder ==
    ASSUME SignonTypes, Order, NEW y, StartsOver(y)
    PROVE  Order'
  <1>1. InOrder /\ Together /\ ServerSide /\ NoTransfers
    BY DEF Order
  <1>2. Taken(y) /\ Renews(y, level) /\ level' = level
    BY DEF StartsOver
  <1>3. PICK m \in ServerMsg, n \in Seq(ServerMsg) :
          /\ Items(n) = {m} /\ (\A R : InPairs(n, R)) /\ WritesAnswers(n)
          /\ \/ /\ m = ServerData /\ back' = <<>> /\ ~pext /\ pext' = pext
                /\ scount' = level /\ sstate' = "connected"
             \/ /\ m.op = "stuff" /\ m.cmd \in {"pext", "new"} /\ pext
                /\ scount' \in {scount, level} /\ sstate' = sstate
    BY StartsOverWrites
  <1>4. ClientWaits /\ SameLimits
    BY <1>2, TakenTakes
  <1>5. servercount' = servercount
    BY <1>4 DEF ClientWaits
  <1>6. NoRestart' = NoRestart /\ missing' = missing
    BY <1>4, LimitsKept
  <1>7. /\ \A R : R = AskPairs(level') => Behind(sIn', toServer', cOut', R)
        /\ \A z \in Requests' : z.cmd \in Guarded => z.level <= servercount'
        /\ y \in Requests /\ Requests' \subseteq Requests
        /\ ~NoRenewal
    BY <1>2, TakenOrder
  <1>8. Answers' \subseteq Answers \cup {m}
    BY <1>3 DEF WritesAnswers
  <1>9. /\ Answers \subseteq ServerMsg /\ \A x \in Answers : AnswerOK(x, level)
        /\ \A x \in Items(back) : x.op # "serverdata" /\ x \in Answers
    BY SaidAndAsked
  <1>10. level \in Nat /\ level \in 1..MaxLevel /\ servercount \in 0..level
    BY SignonScalars
  <1>11. \A z \in Requests' : ~Advanced(z, level, NoRestart)
    BY <1>1, <1>7 DEF Together
  <1>12. servercount = level => \A x \in Answers : ~(x.op \in Lists \/ x.op = "stuff")
    BY <1>1, <1>7 DEF Together
  <1>13. m.op # "download"
    BY <1>3 DEF ServerData
  <1>14. ASSUME NEW R, R = OrderPairs(servercount, level),
                \A x \in Answers : May(x, m, servercount, level),
                back' = <<>> \/ \A z \in Answers : May(m, z, servercount, level),
                FitsIn(m, servercount, level)
         PROVE  InOrder'
    <2>1. Follow(stuffed, cIn, toClient, msg, back, R)
      BY <1>1, <1>14 DEF InOrder, AnswersFollow
    <2>2. \A x \in Answers : <<x, m>> \in R
      BY <1>9, <1>14, InOrderPairs
    <2>3. back' = <<>> \/ \A z \in Items(back) : <<m, z>> \in R
      BY <1>9, <1>14, InOrderPairs
    <2>4. Follow(stuffed', cIn', toClient', msg', back', R)
      BY <1>3, <2>1, <2>2, <2>3 DEF WritesAnswers
    <2>5. \A x \in Answers' : FitsIn(x, servercount', level')
      BY <1>1, <1>2, <1>5, <1>8, <1>14 DEF InOrder
    <2>6. R = OrderPairs(servercount', level')
      BY <1>2, <1>5, <1>14
    <2> DEFINE T == AskPairs(level')
    <2>7. Behind(sIn', toServer', cOut', T) /\ T = AskPairs(level')
      BY <1>7
    <2> HIDE DEF T
    <2> QED
      BY <1>7, <2>4, <2>5, <2>6, <2>7, InOrderFrom
  <1>15. NoTransfers'
    BY <1>1, <1>6, <1>7, <1>8, <1>13 DEF NoTransfers
  <1>16. CASE /\ m = ServerData /\ back' = <<>> /\ ~pext /\ pext' = pext
              /\ scount' = level /\ sstate' = "connected"
    <2>1. m.op = "serverdata" /\ m.level = level
      BY <1>16 DEF ServerData
    <2>2. ASSUME NEW x \in Answers PROVE May(x, m, servercount, level)
      <3>1. x.op = "serverdata" => x.level \in 1..level
        BY <1>9 DEF AnswerOK
      <3>2. x.op = "serverdata" => x.level <= m.level
        BY <1>10, <2>1, <3>1
      <3>3. x.op \in Lists \/ x.op = "stuff" => m.level > servercount
        BY <1>10, <1>12, <2>1
      <3> QED
        BY <2>1, <3>2, <3>3 DEF May, Lists
    <2>3. FitsIn(m, servercount, level)
      BY <1>10, <2>1 DEF FitsIn, Lists
    <2>4. InOrder'
      <3> DEFINE R == OrderPairs(servercount, level)
      <3>1. R = OrderPairs(servercount, level)
        OBVIOUS
      <3> HIDE DEF R
      <3> QED
        BY <1>14, <1>16, <2>2, <2>3, <3>1
    <2>5. Together'
      <3>1. \A z \in Requests' : ~Advanced(z, level', NoRestart')
        BY <1>2, <1>6, <1>11
      <3>2. servercount' = level' =>
              \A x \in Answers' : x.op \in Lists \/ x.op = "stuff" => NoRenewal'
        BY <1>2, <1>5, <1>8, <1>12, <2>1 DEF Lists
      <3> QED
        BY <3>1, <3>2 DEF Together
    <2>6. ServerSide'
      BY <1>2, <1>16 DEF ServerSide
    <2> QED
      BY <1>15, <2>4, <2>5, <2>6 DEF Order
  <1>17. CASE /\ m.op = "stuff" /\ m.cmd \in {"pext", "new"} /\ pext
              /\ scount' \in {scount, level} /\ sstate' = sstate
    <2>1. servercount = 0 /\ NoServerData /\ servercount < level
      BY <1>1, <1>10, <1>17 DEF ServerSide
    <2>2. \A x \in Answers : May(x, m, servercount, level) /\ May(m, x, servercount, level)
      BY <1>17, <2>1 DEF May, NoServerData, Restarts, Lists
    <2>3. FitsIn(m, servercount, level)
      BY <1>17, <2>1 DEF FitsIn, Lists
    <2>4. InOrder'
      <3> DEFINE R == OrderPairs(servercount, level)
      <3>1. R = OrderPairs(servercount, level)
        OBVIOUS
      <3> HIDE DEF R
      <3> QED
        BY <1>14, <2>2, <2>3, <3>1
    <2>5. servercount' < level' /\ servercount' # level'
      BY <1>2, <1>5, <1>10, <2>1
    <2>6. Together'
      <3>1. \A z \in Requests' : ~Advanced(z, level', NoRestart')
        BY <1>2, <1>6, <1>11
      <3> QED
        BY <2>5, <3>1 DEF Together
    <2>7. NoServerData'
      BY <1>8, <1>17, <2>1 DEF NoServerData
    <2>8. ~(sstate = "spawned" /\ NoRestart)
      BY <1>1, <2>1 DEF ServerSide
    <2>9. ServerSide'
      BY <1>5, <1>6, <1>17, <2>1, <2>5, <2>7, <2>8 DEF ServerSide, NoServerData
    <2> QED
      BY <1>15, <2>4, <2>6, <2>9 DEF Order
  <1> QED
    BY <1>3, <1>16, <1>17

LEMMA ServesAnswered ==
    ASSUME SignonTypes, NEW y, Serves(y)
    PROVE  \E n \in Seq(ServerMsg), m \in ServerMsg : Answered(y, n, m)
  <1>1. PICK n : AnswerTo(y, n) /\ Writes(n, msg, back, msg', back')
    BY DEF Serves
  <1>2. Taken(y) /\ sstate = "connected" /\ UNCHANGED <<level, sstate, scount, pext, upload>>
    BY DEF Serves
  <1>3. UNCHANGED <<stuffed, cIn, toClient>>
    BY <1>2 DEF Taken, client, inFlight
  <1>4. n \in Seq(ServerMsg)
    BY <1>1 DEF AnswerTo
  <1>5. WritesAnswers(n)
    BY <1>1, <1>3, <1>4, WritesWrite
  <1>6. PICK m \in ServerMsg :
         /\ m.op \in Lists /\ m.level = level /\ ListOK(m, level)
         /\ m.op = "sounds" <=> y.cmd = "soundlist"
         /\ m.op = "sounds" => m.from = y.n
         /\ Size(Cleared) < Half /\ m.op = "sounds" /\ m.next = 0 => m.upto = Sounds
         /\ \/ n = <<m>>
            \/ \E s \in ServerMsg :
                 /\ n = <<m, s>> /\ m.op \in DataLists /\ s.op = "stuff"
                 /\ s.cmd = "skins" \/ (PlaceOK(s) /\ s.level = level)
                 /\ Size(Cleared) < Half /\ s.cmd = "prespawn" => s.n > 0
    BY <1>1 DEF AnswerTo
  <1>7. n = <<m>> => Items(n) = {m} /\ Len(n) = 1
    BY OneMessage
  <1>8. ASSUME NEW s \in ServerMsg, n = <<m, s>> PROVE Items(n) = {m, s} /\ Len(n) = 2
    BY <1>8, ItemsFew
  <1>9. \/ n = <<m>> /\ Items(n) = {m} /\ Len(n) = 1
        \/ \E s \in ServerMsg :
             /\ n = <<m, s>> /\ Items(n) = {m, s} /\ Len(n) = 2
             /\ m.op \in DataLists /\ s.op = "stuff"
             /\ s.cmd = "skins" \/ (PlaceOK(s) /\ s.level = level)
             /\ Size(Cleared) < Half /\ s.cmd = "prespawn" => s.n > 0
    BY <1>6, <1>7, <1>8
  <1>10. Answered(y, n, m)
    BY <1>1, <1>2, <1>5, <1>6, <1>9 DEF Answered
  <1> QED
    BY <1>4, <1>10

LEMMA AnsweredItems ==
    ASSUME NEW y, NEW n, NEW m, Answered(y, n, m)
    PROVE  /\ \A k \in Items(n) : /\ k \in ServerMsg
                                  /\ k.op \in Lists \/ (k.op = "stuff" /\ k.cmd \notin Restarts)
                                  /\ k.op \in Lists => k = m
                                  /\ k.op = "stuff" => m.op \in DataLists
                                  /\ k.op = "stuff" /\ k.cmd \in {"prespawn", "spawn"}
                                       => k.level = level
           /\ \A k \in Items(n) : k.op \notin {"serverdata", "download", "text"}
           /\ m \in Items(n)
  <1>1. m \in ServerMsg /\ m.op \in Lists
    BY DEF Answered
  <1>2. CASE Items(n) = {m}
    BY <1>1, <1>2 DEF Lists
  <1>3. ASSUME NEW s \in ServerMsg, Items(n) = {m, s}, m.op \in DataLists, s.op = "stuff",
               s.cmd = "skins" \/ (PlaceOK(s) /\ s.level = level)
        PROVE  /\ \A k \in Items(n) : /\ k \in ServerMsg
                                      /\ k.op \in Lists \/ (k.op = "stuff" /\ k.cmd \notin Restarts)
                                      /\ k.op \in Lists => k = m
                                      /\ k.op = "stuff" => m.op \in DataLists
                                      /\ k.op = "stuff" /\ k.cmd \in {"prespawn", "spawn"}
                                           => k.level = level
               /\ \A k \in Items(n) : k.op \notin {"serverdata", "download", "text"}
               /\ m \in Items(n)
    <2>1. s.cmd \notin Restarts
      BY <1>3 DEF PlaceOK, Restarts
    <2>2. s.op \notin Lists
      BY <1>3 DEF Lists
    <2>3. s.cmd \in {"prespawn", "spawn"} => s.level = level
      BY <1>3
    <2>4. m.op # "stuff" /\ m.op \notin {"serverdata", "download", "text"}
      BY <1>1 DEF Lists
    <2> QED
      BY <1>1, <1>3, <2>1, <2>2, <2>3, <2>4
  <1> QED
    BY <1>2, <1>3 DEF Answered

LEMMA AnsweredOrder ==
    ASSUME SignonTypes, Order, NEW y, NEW n, NEW m, Answered(y, n, m)
    PROVE  Order'
  <1>1. InOrder /\ Together /\ ServerSide /\ NoTransfers
    BY DEF Order
  <1>2. /\ Taken(y) /\ level' = level /\ sstate' = sstate /\ scount' = scount /\ pext' = pext
        /\ sstate = "connected" /\ WritesAnswers(n) /\ n \in Seq(ServerMsg)
        /\ y.cmd \in Guarded \ {"begin"} /\ y.level = level
        /\ m.op = "sounds" => m.from = y.n
        /\ m.op = "sounds" <=> y.cmd = "soundlist"
        /\ m.level = level
    BY DEF Answered, AnswerTo, WritesAnswers
  <1>3. ClientWaits /\ SameLimits
    BY <1>2, TakenTakes
  <1>4. servercount' = servercount
    BY <1>3 DEF ClientWaits
  <1>5. NoRestart' = NoRestart /\ missing' = missing
    BY <1>3, LimitsKept
  <1>6. /\ \A R : R = AskPairs(level') => Behind(sIn', toServer', cOut', R)
        /\ \A z \in Requests' : z.cmd \in Guarded => z.level <= servercount'
        /\ y \in Requests /\ Requests' \subseteq Requests /\ y \in ClientCmd
        /\ servercount = level /\ \A z \in Requests' : ~Renews(z, level)
    BY <1>2, TakenOrder
  <1>7. /\ \A k \in Items(n) : /\ k \in ServerMsg
                               /\ k.op \in Lists \/ (k.op = "stuff" /\ k.cmd \notin Restarts)
                               /\ k.op \in Lists => k = m
                               /\ k.op = "stuff" => m.op \in DataLists
                               /\ k.op = "stuff" /\ k.cmd \in {"prespawn", "spawn"}
                                    => k.level = level
        /\ \A k \in Items(n) : k.op \notin {"serverdata", "download", "text"}
    BY AnsweredItems
  <1>8. Answers' \subseteq Answers \cup Items(n)
    BY <1>2 DEF WritesAnswers
  <1>9. /\ Answers \subseteq ServerMsg /\ \A x \in Answers : AnswerOK(x, level)
        /\ \A x \in Items(back) : x.op # "serverdata" /\ x \in Answers
    BY SaidAndAsked
  <1>10. level \in Nat /\ level \in 1..MaxLevel /\ y.n \in Nat
    BY <1>6, SignonScalars, RequestFields
  <1>11. NoRenewal'
    BY <1>2, <1>6 DEF NoRenewal
  <1>12. NoServerData => NoServerData'
    BY <1>7, <1>8 DEF NoServerData
  <1>13. ASSUME ~NoServerData PROVE y.cmd = "soundlist" /\ y.n = 0
    <2>1. ~Advanced(y, level, NoRestart)
      BY <1>1, <1>6, <1>13 DEF Together
    <2>2. y.cmd \in Guarded /\ y.cmd # "begin"
      BY <1>2
    <2>3. ~(y.cmd = "soundlist" => y.n > 0)
      BY <1>2, <2>1, <2>2 DEF Advanced
    <2> QED
      BY <1>10, <2>3
  <1>14. ASSUME NEW x \in Answers, NEW k \in Items(n) PROVE May(x, k, servercount, level)
    <2>1. k.op # "serverdata"
      BY <1>7
    <2>2. ASSUME x.op = "serverdata"
          PROVE  /\ k.op \in Lists => k.op = "sounds" /\ k.from = 0 /\ x.level = servercount
                 /\ k.op # "stuff"
      <3>1. y.cmd = "soundlist" /\ y.n = 0
        BY <1>13, <2>2 DEF NoServerData
      <3>2. m.op = "sounds" /\ m.from = 0
        BY <1>2, <3>1
      <3>3. x.level \in 1..level /\ servercount <= x.level
        BY <1>1, <1>9, <2>2 DEF AnswerOK, InOrder, FitsIn
      <3>4. x.level = servercount
        BY <1>6, <1>10, <3>3
      <3> QED
        BY <1>7, <3>2, <3>4 DEF DataLists
    <2> QED
      BY <2>1, <2>2 DEF May
  <1>15. InOrder'
    <2> DEFINE R == OrderPairs(servercount, level)
               T == AskPairs(level')
    <2>1. Follow(stuffed, cIn, toClient, msg, back, R)
      BY <1>1 DEF InOrder, AnswersFollow
    <2>2. \A x \in Answers : \A k \in Items(n) : <<x, k>> \in R
      BY <1>7, <1>9, <1>14, InOrderPairs
    <2>3. \A k \in Items(n) : \A z \in ServerMsg : z.op # "serverdata" => <<k, z>> \in R
      <3>1. \A k \in Items(n) : \A z : z.op # "serverdata" => May(k, z, servercount, level)
        BY <1>7 DEF May
      <3> QED
        BY <1>7, <3>1, InOrderPairs
    <2>4. InPairs(n, R)
      <3>1. \A i \in DOMAIN n : n[i] \in Items(n)
        BY DEF Items
      <3>2. \A i, j \in DOMAIN n : <<n[i], n[j]>> \in R
        BY <1>7, <2>3, <3>1
      <3> QED
        BY <3>2 DEF InPairs
    <2>5. \A k \in Items(n) : \A z \in Items(back) : <<k, z>> \in R
      BY <1>9, <2>3
    <2>6. Follow(stuffed', cIn', toClient', msg', back', R)
      BY <1>2, <2>1, <2>2, <2>4, <2>5 DEF WritesAnswers
    <2>7. \A x \in Answers' : FitsIn(x, servercount', level')
      <3>1. \A k \in Items(n) : FitsIn(k, servercount, level)
        <4> SUFFICES ASSUME NEW k \in Items(n) PROVE FitsIn(k, servercount, level)
          OBVIOUS
        <4>1. k.op # "serverdata"
          BY <1>7
        <4>2. k.op \in Lists => k.level = servercount
          BY <1>2, <1>6, <1>7
        <4>3. k.op = "stuff" => k.cmd \notin Restarts
          BY <1>7 DEF Lists
        <4>4. k.op = "stuff" /\ k.cmd \in {"prespawn", "spawn"} => k.level = servercount
          BY <1>6, <1>7
        <4> QED
          BY <4>1, <4>2, <4>3, <4>4 DEF FitsIn
      <3>2. \A x \in Answers' : FitsIn(x, servercount, level)
        BY <1>1, <1>8, <3>1 DEF InOrder
      <3> QED
        BY <1>2, <1>4, <3>2
    <2>8. R = OrderPairs(servercount', level')
      BY <1>2, <1>4
    <2>9. Behind(sIn', toServer', cOut', T) /\ T = AskPairs(level')
      BY <1>6
    <2> HIDE DEF R, T
    <2> QED
      BY <1>6, <2>6, <2>7, <2>8, <2>9, InOrderFrom
  <1>16. Together'
    <2>1. \A z \in Requests' : Advanced(z, level, NoRestart) => NoServerData'
      BY <1>1, <1>6, <1>12 DEF Together
    <2>2. \A z \in Requests' : Advanced(z, level', NoRestart') => NoRenewal' /\ NoServerData'
      BY <1>2, <1>5, <1>11, <2>1
    <2> QED
      BY <1>11, <2>2 DEF Together
  <1>17. ServerSide'
    <2>1. \A x \in Answers' : x.op = "serverdata" /\ x.level = level => scount = level
      BY <1>1, <1>6 DEF ServerSide
    <2>2. servercount = level => scount = level
      BY <1>1 DEF ServerSide
    <2>3. ~pext
      BY <1>1, <1>6, <1>10 DEF ServerSide
    <2> QED
      BY <1>2, <1>4, <2>1, <2>2, <2>3 DEF ServerSide
  <1>18. NoTransfers'
    BY <1>1, <1>5, <1>6, <1>7, <1>8 DEF NoTransfers
  <1> QED
    BY <1>15, <1>16, <1>17, <1>18 DEF Order

LEMMA GetsBlockOnly ==
    ASSUME SignonTypes, Regular, Order, Undisturbed => Single, NEW y, GetsBlock(y)
    PROVE  \E n \in Seq(ServerMsg), m \in ServerMsg : BlockOnly(y, n, m)
  <1>1. Taken(y) /\ y.cmd \in Transfers /\ UNCHANGED <<level, sstate, scount, pext>>
    BY DEF GetsBlock
  <1>2. TakesRequest(y)
    BY <1>1, TakenTakes
  <1>3. /\ y \in Requests /\ Requests = {y} \cup Requests'
        /\ RequestCount = RequestCount' + 1 /\ RequestCount' \in Nat
    BY <1>2 DEF TakesRequest
  <1>4. missing # MaxDownloads
    BY <1>1, <1>3 DEF Order, NoTransfers
  <1>5. Undisturbed /\ Single
    BY <1>4 DEF Regular
  <1>6. Silent /\ RequestCount <= 1
    BY <1>3, <1>5 DEF Single
  <1>7. Requests' = {}
    <2>1. RequestCount' = 0
      <3>1. \A k \in Nat : k + 1 <= 1 => k = 0
        OBVIOUS
      <3> QED
        BY <1>3, <1>6, <3>1
    <2>2. sIn' \in Seq(ClientCmd) /\ toServer' \in Seq(ClientCmd) /\ cOut' \in Seq(ClientCmd)
      BY <1>1 DEF Taken, client, inFlight, SignonTypes, Packets
    <2>3. /\ Len(sIn') + Len(toServer') + Len(cOut') \in Nat
          /\ Len(sIn') + Len(toServer') + Len(cOut') = 0
                <=> Items(sIn') \cup Items(toServer') \cup Items(cOut') = {}
      BY <2>2, NoneLeft
    <2> QED
      BY <2>1, <2>3 DEF RequestCount, Requests
  <1>8. servercount = level /\ scount = level
    <2>1. y.cmd \notin {"new", "pext"}
      BY <1>1 DEF Transfers
    <2>2. servercount = level
      BY <1>3, <1>5, <2>1 DEF Single
    <2> QED
      BY <2>2 DEF Order, ServerSide
  <1>9. PICK m \in ServerMsg : m.op = "download" /\ Writes(<<m>>, msg, back, msg', back')
    BY <1>8 DEF GetsBlock
  <1> DEFINE n == <<m>>
  <1>10. n \in Seq(ServerMsg) /\ Items(n) = {m} /\ Len(n) = 1 /\ (\A R : InPairs(n, R))
    BY OneMessage
  <1>11. Writes(n, msg, back, msg', back') /\ n = <<m>>
    BY <1>9
  <1> HIDE DEF n
  <1>12. UNCHANGED <<stuffed, cIn, toClient>>
    BY <1>1 DEF Taken, client, inFlight
  <1>13. WritesAnswers(n)
    BY <1>10, <1>11, <1>12, WritesWrite
  <1>14. BlockOnly(y, n, m)
    BY <1>1, <1>3, <1>4, <1>5, <1>6, <1>7, <1>8, <1>9, <1>10, <1>11, <1>13 DEF BlockOnly
  <1> QED
    BY <1>10, <1>14

LEMMA BlockOrder ==
    ASSUME SignonTypes, Order, NEW y, NEW n, NEW m, BlockOnly(y, n, m)
    PROVE  Order'
  <1>1. InOrder /\ Together /\ ServerSide /\ NoTransfers
    BY DEF Order
  <1>2. /\ Taken(y) /\ level' = level /\ sstate' = sstate /\ scount' = scount /\ pext' = pext
        /\ missing # MaxDownloads /\ Silent /\ Requests' = {} /\ servercount = level
        /\ m \in ServerMsg /\ m.op = "download" /\ Items(n) = {m}
        /\ (\A R : InPairs(n, R)) /\ WritesAnswers(n)
    BY DEF BlockOnly
  <1>3. ClientWaits /\ SameLimits
    BY <1>2, TakenTakes
  <1>4. servercount' = servercount
    BY <1>3 DEF ClientWaits
  <1>5. NoRestart' = NoRestart /\ missing' = missing
    BY <1>3, LimitsKept
  <1>6. /\ \A R : R = AskPairs(level') => Behind(sIn', toServer', cOut', R)
        /\ \A z \in Requests' : z.cmd \in Guarded => z.level <= servercount'
    BY <1>2, TakenOrder
  <1>7. Answers' \subseteq Answers \cup {m}
    BY <1>2 DEF WritesAnswers
  <1>8. /\ Answers \subseteq ServerMsg
        /\ \A x \in Items(back) : x.op # "serverdata" /\ x \in Answers
    BY SaidAndAsked
  <1>9. \A x \in Answers : x.op = "text"
    BY <1>2 DEF Silent, Text
  <1>10. NoServerData' /\ NoRenewal' /\ NoServerData
    BY <1>2, <1>7, <1>9 DEF NoServerData, NoRenewal
  <1>11. InOrder'
    <2> DEFINE R == OrderPairs(servercount, level)
               T == AskPairs(level')
    <2>1. Follow(stuffed, cIn, toClient, msg, back, R)
      BY <1>1 DEF InOrder, AnswersFollow
    <2>2. \A x \in Answers : <<x, m>> \in R /\ <<m, x>> \in R
      <3>1. \A x \in Answers : May(x, m, servercount, level) /\ May(m, x, servercount, level)
        BY <1>2, <1>9 DEF May, Lists
      <3> QED
        BY <1>2, <1>8, <3>1, InOrderPairs
    <2>3. Follow(stuffed', cIn', toClient', msg', back', R)
      BY <1>2, <1>8, <2>1, <2>2 DEF WritesAnswers
    <2>4. \A x \in Answers' : FitsIn(x, servercount', level')
      <3>1. FitsIn(m, servercount, level)
        BY <1>2 DEF FitsIn, Lists
      <3> QED
        BY <1>1, <1>2, <1>4, <1>7, <3>1 DEF InOrder
    <2>5. R = OrderPairs(servercount', level')
      BY <1>2, <1>4
    <2>6. Behind(sIn', toServer', cOut', T) /\ T = AskPairs(level')
      BY <1>6
    <2> HIDE DEF R, T
    <2> QED
      BY <1>6, <2>3, <2>4, <2>5, <2>6, InOrderFrom
  <1>12. Together'
    BY <1>2, <1>10 DEF Together
  <1>13. ServerSide'
    BY <1>1, <1>2, <1>4, <1>5, <1>10 DEF ServerSide, NoServerData
  <1>14. NoTransfers'
    BY <1>2, <1>5 DEF NoTransfers
  <1> QED
    BY <1>11, <1>12, <1>13, <1>14 DEF Order

-----------------------------------------------------------------------------
(* The order of what is under way, in the steps nobody asked for.          *)

LEMMA TellsIsTold ==
    ASSUME SignonTypes, NEW m, Tells(m)
    PROVE  \E n : Told(n, m)
  <1>1. /\ m \in ServerMsg /\ m \in {Text, Reconnect} /\ Writes(<<m>>, msg, back, msg', back')
        /\ Items(msg) \subseteq Items(msg') /\ Items(back) \subseteq Items(back')
        /\ scount' = scount /\ pext' = pext /\ missing' = missing /\ restarts' = restarts
    BY DEF Tells
  <1>2. /\ sIn' = sIn /\ toServer' = toServer /\ cOut' = cOut
        /\ UNCHANGED <<stuffed, cIn, toClient>>
        /\ ClientWaits
    BY DEF Tells, client, inFlight, ClientWaits
  <1> DEFINE n == <<m>>
  <1>3. /\ n \in Seq(ServerMsg) /\ Items(n) = {m} /\ Len(n) = 1 /\ (\A R : InPairs(n, R))
        /\ n = <<m>> /\ Writes(n, msg, back, msg', back')
    BY <1>1, OneMessage
  <1> HIDE DEF n
  <1>4. WritesAnswers(n)
    BY <1>2, <1>3, WritesWrite
  <1>5. /\ Requests' = Requests /\ RequestCount' = RequestCount
        /\ \A R : Behind(sIn, toServer, cOut, R) => Behind(sIn', toServer', cOut', R)
    BY <1>2 DEF Requests, RequestCount
  <1>6. Told(n, m)
    BY <1>1, <1>2, <1>3, <1>4, <1>5 DEF Told
  <1> QED
    BY <1>6

LEMMA MessagesTold ==
    /\ Text.op = "text" /\ Text \in ServerMsg
    /\ Reconnect.op = "stuff" /\ Reconnect.cmd = "reconnect"
    /\ Reconnect \in ServerMsg
  BY ReconnectSaid DEF Text, ServerMsg

LEMMA BroadcastOrder ==
    ASSUME SignonTypes, Order, NEW n, Told(n, Text), level' = level, sstate' = sstate
    PROVE  Order'
  <1>1. InOrder /\ Together /\ ServerSide /\ NoTransfers
    BY DEF Order
  <1>2. /\ n \in Seq(ServerMsg) /\ Items(n) = {Text} /\ (\A R : InPairs(n, R))
        /\ WritesAnswers(n) /\ ClientWaits /\ missing' = missing /\ restarts' = restarts
        /\ scount' = scount /\ pext' = pext /\ Requests' = Requests
        /\ \A R : Behind(sIn, toServer, cOut, R) => Behind(sIn', toServer', cOut', R)
    BY DEF Told
  <1>3. servercount' = servercount /\ NoRestart' = NoRestart
    BY <1>2 DEF ClientWaits, NoRestart
  <1>4. Text.op = "text" /\ Text \in ServerMsg
    BY MessagesTold
  <1>5. Answers' \subseteq Answers \cup {Text}
    BY <1>2 DEF WritesAnswers
  <1>6. /\ Answers \subseteq ServerMsg /\ \A x \in Items(back) : x \in Answers
    BY SaidAndAsked
  <1>7. NoRenewal' = NoRenewal /\ (NoServerData => NoServerData')
    BY <1>2, <1>4, <1>5 DEF NoRenewal, NoServerData
  <1>8. InOrder'
    <2> DEFINE R == OrderPairs(servercount, level)
               T == AskPairs(level')
    <2>1. Follow(stuffed, cIn, toClient, msg, back, R)
      BY <1>1 DEF InOrder, AnswersFollow
    <2>2. \A x \in Answers : <<x, Text>> \in R
      <3>1. \A x \in Answers : May(x, Text, servercount, level)
        BY <1>4 DEF May, Lists
      <3> QED
        BY <1>4, <1>6, <3>1, InOrderPairs
    <2>3. back' = <<>> \/ \A z \in Items(back) : <<Text, z>> \in R
      <3>1. \A z \in Answers : May(Text, z, servercount, level)
        BY <1>4 DEF May, Lists
      <3> QED
        BY <1>4, <1>6, <3>1, InOrderPairs
    <2>4. Follow(stuffed', cIn', toClient', msg', back', R)
      BY <1>2, <2>1, <2>2, <2>3 DEF WritesAnswers
    <2>5. \A x \in Answers' : FitsIn(x, servercount', level')
      <3>1. FitsIn(Text, servercount, level)
        BY <1>4 DEF FitsIn, Lists
      <3> QED
        BY <1>1, <1>3, <1>5, <3>1 DEF InOrder
    <2>6. R = OrderPairs(servercount', level')
      BY <1>3
    <2>7. Behind(sIn', toServer', cOut', T) /\ T = AskPairs(level')
      <3>1. RequestsFollow(T)
        BY <1>1 DEF InOrder
      <3>2. T = AskPairs(level')
        OBVIOUS
      <3> HIDE DEF T
      <3>3. Behind(sIn, toServer, cOut, T)
        BY <3>1 DEF RequestsFollow, Behind
      <3> QED
        BY <1>2, <3>2, <3>3
    <2>8. \A z \in Requests' : z.cmd \in Guarded => z.level <= servercount'
      BY <1>1, <1>2, <1>3 DEF InOrder
    <2> HIDE DEF R, T
    <2> QED
      BY <2>4, <2>5, <2>6, <2>7, <2>8, InOrderFrom
  <1>9. Together'
    BY <1>1, <1>2, <1>3, <1>4, <1>5, <1>7 DEF Together, Lists
  <1>10. ServerSide' /\ NoTransfers'
    BY <1>1, <1>2, <1>3, <1>4, <1>5, <1>7 DEF ServerSide, NoTransfers
  <1> QED
    BY <1>8, <1>9, <1>10 DEF Order

LEMMA ChangeLevelOrder ==
    ASSUME SignonTypes, SignonTypes', Order, NEW n, Told(n, Reconnect), level' = level + 1,
           sstate' # "spawned"
    PROVE  Order'
  <1>1. InOrder /\ Together /\ ServerSide /\ NoTransfers
    BY DEF Order
  <1>2. /\ n \in Seq(ServerMsg) /\ Items(n) = {Reconnect} /\ (\A R : InPairs(n, R))
        /\ WritesAnswers(n) /\ ClientWaits /\ missing' = missing /\ restarts' = restarts
        /\ scount' = scount /\ pext' = pext /\ Requests' = Requests
        /\ \A R : Behind(sIn, toServer, cOut, R) => Behind(sIn', toServer', cOut', R)
    BY DEF Told
  <1>3. servercount' = servercount /\ NoRestart' = NoRestart
    BY <1>2 DEF ClientWaits, NoRestart
  <1>4. /\ Reconnect.op = "stuff" /\ Reconnect.cmd = "reconnect"
        /\ Reconnect \in ServerMsg
    BY MessagesTold
  <1>5. Answers' \subseteq Answers \cup {Reconnect}
    BY <1>2 DEF WritesAnswers
  <1>6. /\ Answers \subseteq ServerMsg /\ Requests \subseteq ClientCmd
        /\ \A x \in Items(back) : x \in Answers
        /\ \A x \in Answers : AnswerOK(x, level)
    BY SaidAndAsked
  <1>7. level \in Nat /\ servercount \in Nat /\ servercount <= level
    BY SignonScalars
  <1>8. ASSUME NEW x \in Answers, x.op = "serverdata"
        PROVE  x.level \in Nat /\ x.level < level + 1
    <2>1. AnswerOK(x, level) /\ x.level \in Nat
      BY <1>6, <1>8, MessageFields
    <2> QED
      BY <1>7, <1>8, <2>1 DEF AnswerOK
  <1>9. \A z \in Requests : z.cmd \in Guarded => z.level < level + 1
    BY <1>1, <1>6, <1>7, RequestFields DEF InOrder
  <1>10. InOrder'
    <2> DEFINE R == OrderPairs(servercount, level)
               S == OrderPairs(servercount, level + 1)
               T == AskPairs(level + 1)
    <2>1. Follow(stuffed, cIn, toClient, msg, back, S)
      <3>1. Follow(stuffed, cIn, toClient, msg, back, R)
        BY <1>1 DEF InOrder, AnswersFollow
      <3>2. ASSUME NEW x \in Answers, NEW y \in Answers, <<x, y>> \in R
            PROVE  <<x, y>> \in S
        <4>1. x \in ServerMsg /\ y \in ServerMsg
          BY <1>6
        <4>2. May(x, y, servercount, level)
          BY <3>2, <4>1, InOrderPairs
        <4>3. May(x, y, servercount, level + 1)
          BY <1>8, <4>2 DEF May
        <4> QED
          BY <4>1, <4>3, InOrderPairs
      <3>3. Packets
        BY DEF SignonTypes
      <3> HIDE DEF R, S
      <3> QED
        BY <3>1, <3>2, <3>3, FollowsMore DEF Packets, Answers
    <2>2. \A x \in Answers : <<x, Reconnect>> \in S
      <3>1. \A x \in Answers : May(x, Reconnect, servercount, level + 1)
        BY <1>4, <1>8 DEF May, Lists
      <3> QED
        BY <1>4, <1>6, <3>1, InOrderPairs
    <2>3. back' = <<>> \/ \A z \in Items(back) : <<Reconnect, z>> \in S
      <3>1. \A z \in Answers : May(Reconnect, z, servercount, level + 1)
        BY <1>4 DEF May, Lists, Restarts
      <3> QED
        BY <1>4, <1>6, <3>1, InOrderPairs
    <2>4. Follow(stuffed', cIn', toClient', msg', back', S)
      BY <1>2, <2>1, <2>2, <2>3 DEF WritesAnswers
    <2>5. \A x \in Answers' : FitsIn(x, servercount', level')
      <3>1. FitsIn(Reconnect, servercount, level + 1)
        <4>1. servercount < level + 1
          BY <1>7
        <4>2. /\ Reconnect.op \notin Lists /\ Reconnect.op # "serverdata"
              /\ Reconnect.cmd \notin {"prespawn", "spawn"}
          BY <1>4 DEF Lists
        <4> QED
          BY <4>1, <4>2 DEF FitsIn
      <3>2. \A x \in Answers : FitsIn(x, servercount, level) => FitsIn(x, servercount, level + 1)
        BY <1>7 DEF FitsIn
      <3> QED
        BY <1>1, <1>3, <1>5, <3>1, <3>2 DEF InOrder
    <2>6. S = OrderPairs(servercount', level')
      BY <1>3
    <2>7. Behind(sIn', toServer', cOut', T) /\ T = AskPairs(level')
      <3>1. RequestsFollow(AskPairs(level))
        BY <1>1 DEF InOrder
      <3>2. \A y, z \in Requests : <<y, z>> \in T
        <4>1. \A y, z \in Requests : MayAsk(y, z, level + 1)
          BY <1>7, <1>9 DEF MayAsk
        <4> QED
          BY <1>6, <4>1, InOrderPairs
      <3>3. T = AskPairs(level')
        OBVIOUS
      <3> DEFINE Q == AskPairs(level)
      <3>4. RequestsFollow(Q) /\ Packets
        BY <3>1 DEF SignonTypes
      <3> HIDE DEF T, Q
      <3>5. RequestsFollow(T)
        BY <3>2, <3>4, AskGrow
      <3>6. Behind(sIn, toServer, cOut, T)
        BY <3>5 DEF RequestsFollow, Behind
      <3> QED
        BY <1>2, <3>3, <3>6
    <2>8. \A z \in Requests' : z.cmd \in Guarded => z.level <= servercount'
      BY <1>1, <1>2, <1>3 DEF InOrder
    <2> HIDE DEF R, S, T
    <2> QED
      BY <2>4, <2>5, <2>6, <2>7, <2>8, InOrderFrom
  <1>11. servercount' # level' /\ servercount # level + 1
    BY <1>3, <1>7
  <1>12. Together'
    <2>1. \A z \in Requests' : ~Advanced(z, level', NoRestart')
      <3>1. \A z \in Requests : z.cmd \in Guarded => z.level # level + 1
        BY <1>6, <1>7, <1>9, RequestFields
      <3> QED
        BY <1>2, <3>1 DEF Advanced
    <2> QED
      BY <1>11, <2>1 DEF Together
  <1>13. ServerSide'
    <2>1. \A x \in Answers' : ~(x.op = "serverdata" /\ x.level = level')
      <3>1. \A x \in Answers : x.op = "serverdata" => x.level # level + 1
        BY <1>7, <1>8
      <3> QED
        BY <1>4, <1>5, <3>1
    <2>2. pext' => servercount' = 0 /\ NoServerData'
      BY <1>1, <1>2, <1>3, <1>4, <1>5 DEF ServerSide, NoServerData
    <2> QED
      BY <1>11, <2>1, <2>2 DEF ServerSide
  <1>14. NoTransfers'
    BY <1>1, <1>2, <1>4, <1>5 DEF NoTransfers
  <1> QED
    BY <1>10, <1>12, <1>13, <1>14 DEF Order

LEMMA IdleMoved ==
    ASSUME SignonTypes, Idle
    PROVE  SignonTypes' /\ Moved
  <1>1. Packets /\ Messages /\ SignonTypeOK /\ Limits
    BY DEF SignonTypes
  <1>2. /\ cstate' \in {cstate, "active"}
        /\ level' = level /\ sstate' = sstate /\ scount' = scount /\ pext' = pext
        /\ upload' = upload /\ msg' = msg /\ back' = back /\ sIn' = sIn
        /\ toClient' = toClient /\ toServer' = toServer /\ file' = file
        /\ stuffed' = stuffed /\ cIn' = cIn /\ cOut' = cOut /\ dltype' = dltype
        /\ servercount' = servercount /\ names' = names /\ loaded' = loaded
        /\ prints' = prints /\ midway' = midway /\ missing' = missing
        /\ restarts' = restarts
    BY DEF Idle, server, inFlight, limits
  <1>3. cstate' \in {"disconnected", "connected", "onserver", "active", "failed", "died"}
    BY <1>2, SignonScalars
  <1>4. Packets' /\ Limits'
    BY <1>1, <1>2 DEF Packets, Limits
  <1>5. SignonTypeOK'
    BY <1>1, <1>2, <1>3 DEF SignonTypeOK
  <1>6. Answers' = Answers /\ Requests' = Requests
    BY <1>2 DEF Answers, Requests
  <1>7. Messages'
    BY <1>1, <1>2, <1>6 DEF Messages
  <1>8. /\ AnswerCount' = AnswerCount /\ RequestCount' = RequestCount
        /\ \A R : AnswersFollow(R) => AnswersFollow(R)'
        /\ \A R : RequestsFollow(R) => RequestsFollow(R)'
    BY <1>2 DEF AnswerCount, RequestCount, AnswersFollow, RequestsFollow
  <1>9. Moved
    BY <1>2, <1>6, <1>8 DEF Moved, limits
  <1> QED
    BY <1>4, <1>5, <1>7, <1>9 DEF SignonTypes

LEMMA RestartedRegime ==
    ASSUME SignonTypes, NEW r, Restarted(r)
    PROVE  ~NoRestart' /\ ~Undisturbed' /\ ~Quiet' /\ (Regular' => Regular)
  <1>1. restarts > 0 /\ restarts' = restarts - 1 /\ missing' \in 0..missing
    BY DEF Restarted
  <1>2. ~NoRestart'
    <2>1. restarts \in 0..MaxRestarts /\ MaxRestarts \in Nat
      BY SignonNaturals DEF SignonTypes, Limits
    <2>2. restarts' # MaxRestarts
      BY <1>1, <2>1
    <2> QED
      BY <2>2 DEF NoRestart
  <1>3. ~Undisturbed' /\ ~Quiet'
    BY <1>2 DEF Undisturbed, Quiet, Calm
  <1>4. missing' = MaxDownloads => missing = MaxDownloads
    BY <1>1, SignonScalars, SignonNaturals
  <1> QED
    BY <1>2, <1>3, <1>4 DEF Regular

LEMMA RestartedOrder ==
    ASSUME SignonTypes, Order, NEW r, Restarted(r), Regular'
    PROVE  Regular /\ Order' /\ ~NoRestart' /\ ~Undisturbed' /\ ~Quiet'
  <1>1. InOrder /\ Together /\ ServerSide /\ NoTransfers
    BY DEF Order
  <1>2. /\ r \in Seq(ClientCmd) /\ Len(r) <= 1 /\ cOut' = cOut \o r
        /\ restarts > 0 /\ restarts' = restarts - 1 /\ missing' \in 0..missing
        /\ missing' = missing => \A q \in Items(r) : q.cmd = "begin" /\ q.level = servercount
        /\ level' = level /\ sstate' = sstate /\ scount' = scount /\ pext' = pext
        /\ servercount' = servercount
        /\ stuffed' = stuffed /\ cIn' = cIn /\ toClient' = toClient /\ msg' = msg
        /\ back' = back /\ sIn' = sIn /\ toServer' = toServer
    BY DEF Restarted, server, inFlight
  <1>3. ~NoRestart' /\ ~Undisturbed' /\ ~Quiet' /\ Regular
    BY RestartedRegime
  <1>4. missing' = MaxDownloads
    BY <1>3 DEF Regular
  <1>5. missing' = missing
    BY <1>2, <1>4, SignonScalars
  <1>6. \A q \in Items(r) : q.cmd = "begin" /\ q.level = servercount
    BY <1>2, <1>5
  <1>7. MakesRequest(r)
    BY <1>2, GrowMakes
  <1>8. Items(r) \subseteq ClientCmd /\ Requests' = Requests \cup Items(r)
    BY <1>7 DEF MakesRequest
  <1>9. Answers' = Answers /\ NoServerData' = NoServerData
    BY <1>2 DEF Answers, NoServerData
  <1>10. level \in Nat /\ servercount \in Nat /\ servercount <= level
    BY SignonScalars
  <1>11. Requests \subseteq ClientCmd
    BY SaidAndAsked
  <1>12. servercount = level => \A q \in Items(r) : ~Renews(q, level)
    BY <1>6, <1>10 DEF Renews
  <1>13. \A z \in Requests : z.cmd \in Guarded /\ z.level = level => servercount = level
    BY <1>1, <1>10 DEF InOrder
  <1>14. servercount = level /\ NoRenewal => NoRenewal'
    BY <1>2, <1>8, <1>12 DEF NoRenewal
  <1>15. InOrder'
    <2> DEFINE R == OrderPairs(servercount, level)
               T == AskPairs(level)
    <2>1. Follow(stuffed', cIn', toClient', msg', back', R)
      BY <1>1, <1>2 DEF InOrder, AnswersFollow
    <2>2. \A x \in Answers' : FitsIn(x, servercount', level')
      BY <1>1, <1>2, <1>9 DEF InOrder
    <2>3. R = OrderPairs(servercount', level')
      BY <1>2
    <2>4. RequestsFollow(T)
      BY <1>1 DEF InOrder
    <2>5. \A z \in Requests : \A q \in Items(r) : <<z, q>> \in T
      <3>1. \A z \in Requests : \A q \in Items(r) : MayAsk(z, q, level)
        BY <1>12, <1>13 DEF MayAsk
      <3> QED
        BY <1>8, <1>11, <3>1, InOrderPairs
    <2>6. T = AskPairs(level')
      BY <1>2
    <2>7. \A z \in Requests' : z.cmd \in Guarded => z.level <= servercount'
      BY <1>1, <1>2, <1>6, <1>8, <1>10 DEF InOrder
    <2> HIDE DEF R, T
    <2>8. Behind(sIn', toServer', cOut', T)
      BY <1>7, <2>4, <2>5 DEF MakesRequest, RequestsFollow, Behind
    <2> QED
      BY <2>1, <2>2, <2>3, <2>6, <2>7, <2>8, InOrderFrom
  <1>16. Together'
    <2>1. ASSUME NEW z \in Requests', Advanced(z, level', NoRestart')
          PROVE  NoRenewal' /\ NoServerData'
      <3>1. z.cmd # "begin" /\ z.cmd \in Guarded /\ z.level = level
        BY <1>2, <1>3, <2>1 DEF Advanced
      <3>2. z \in Requests
        BY <1>6, <1>8, <3>1
      <3>3. Advanced(z, level, NoRestart)
        BY <1>2, <2>1, <3>1 DEF Advanced
      <3> QED
        BY <1>1, <1>9, <1>13, <1>14, <3>1, <3>2, <3>3 DEF Together
    <2> QED
      BY <1>1, <1>2, <1>9, <1>14, <2>1 DEF Together
  <1>17. ServerSide'
    BY <1>1, <1>2, <1>3, <1>9 DEF ServerSide
  <1>18. NoTransfers'
    <2>1. \A q \in Items(r) : q.cmd \notin Transfers
      BY <1>6 DEF Transfers
    <2> QED
      BY <1>1, <1>5, <1>8, <1>9, <2>1 DEF NoTransfers
  <1> QED
    BY <1>3, <1>15, <1>16, <1>17, <1>18 DEF Order

-----------------------------------------------------------------------------
(* What was said is covered, and what was asked: the reading steps.        *)

LEMMA NeedsLess ==
    ASSUME NEW x, NEW h, NEW dl, NEW dl2, NEW calm, NEW calm2, calm2 => calm,
           dl2 = dl \/ AfterTransfer(dl2) \subseteq h
    PROVE  Needs(x, dl2, calm2) \subseteq Needs(x, dl, calm) \cup h
  <1>1. AfterSounds(calm2) \subseteq AfterSounds(calm)
    BY DEF AfterSounds
  <1>2. CASE x.op = "models"
    BY <1>1, <1>2 DEF Needs
  <1>3. CASE x.op = "download"
    BY <1>3 DEF Needs
  <1>4. CASE x.op \notin {"models", "download"}
    BY <1>4 DEF Needs
  <1> QED
    BY <1>2, <1>3, <1>4

LEMMA AsksLess ==
    ASSUME NEW x, NEW h, NEW dl, NEW dl2, NEW calm, NEW calm2, NEW nores, NEW nores2,
           calm2 => calm, nores2 => nores, dl2 = dl \/ AfterTransfer(dl2) \subseteq h
    PROVE  Asks(x, dl2, calm2, nores2) \subseteq Asks(x, dl, calm, nores) \cup h
  <1>1. AfterSounds(calm2) \subseteq AfterSounds(calm)
    BY DEF AfterSounds
  <1>2. CASE x.cmd = "modellist"
    BY <1>1, <1>2 DEF Asks
  <1>3. CASE x.cmd \in Transfers
    BY <1>3 DEF Asks, Transfers
  <1>4. CASE x.cmd = "begin"
    BY <1>4 DEF Asks, Transfers
  <1>5. CASE x.cmd \notin Transfers \cup {"modellist", "begin"}
    BY <1>5 DEF Asks, Transfers
  <1> QED
    BY <1>2, <1>3, <1>4, <1>5

LEMMA CoverKept ==
    ASSUME NEW q, NEW h, NEW h2, NEW dl, NEW dl2, NEW calm, NEW calm2,
           Covered(q, h, dl, calm), h \subseteq h2, calm2 => calm,
           dl2 = dl \/ AfterTransfer(dl2) \subseteq h2
    PROVE  Covered(q, h2, dl2, calm2)
  <1>1. \A x \in Items(q) : Needs(x, dl2, calm2) \subseteq Needs(x, dl, calm) \cup h2
    BY NeedsLess
  <1> QED
    BY <1>1, CoveredMore

LEMMA FirstMeant ==
    ASSUME SignonTypes, Order, Claims, Quiet => Sizes, NEW x, NEW r, Reads(x, r)
    PROVE  /\ Meant(x)
           /\ \/ /\ stuffed = <<x>> \o stuffed' /\ cIn' = cIn /\ stuffed' \in Seq(ServerMsg)
                 /\ Covered(stuffed', Have \cup Carries(x), dltype, Quiet)
                 /\ Covered(cIn', Have, dltype, Quiet)
                 /\ Carried(cIn) = Carried(cIn')
              \/ /\ cIn = <<x>> \o cIn' /\ stuffed' = stuffed /\ cIn' \in Seq(ServerMsg)
                 /\ Covered(cIn', Have \cup Carries(x), dltype, Quiet)
                 /\ Covered(stuffed', Have, dltype, Quiet)
                 /\ Carried(cIn) = Carries(x) \cup Carried(cIn')
  <1>1. /\ x \in ServerMsg /\ Gone(x, stuffed, cIn, stuffed', cIn')
        /\ stuffed' \in Seq(ServerMsg) /\ cIn' \in Seq(ServerMsg)
    BY DEF Reads
  <1>2. x \in Answers
    BY ReadsBoth DEF TakesAnswer
  <1>3. FitsIn(x, servercount, level) /\ cstate # "failed" /\ AnswersCovered
    BY <1>2 DEF Order, InOrder, Claims
  <1>4. Quiet /\ x.op = "sounds" /\ x.next = 0 => x.upto = Sounds
    BY <1>2 DEF Sizes
  <1>5. Covered(stuffed, Have, dltype, Quiet) /\ Covered(cIn, Have, dltype, Quiet)
    BY <1>3 DEF AnswersCovered
  <1>6. CASE stuffed = <<x>> \o stuffed' /\ cIn' = cIn
    <2> DEFINE calm == Quiet
               h == Have
    <2>1. Covered(<<x>> \o stuffed', h, dltype, calm)
      BY <1>5, <1>6
    <2> HIDE DEF calm, h
    <2>2. Needs(x, dltype, calm) \subseteq h /\ Covered(stuffed', h \cup Carries(x), dltype, calm)
      BY <1>1, <2>1, CoveredFirst
    <2>3. Meant(x)
      BY <1>3, <1>4, <2>2 DEF Meant, calm, h
    <2> QED
      BY <1>1, <1>5, <1>6, <2>2, <2>3 DEF calm, h
  <1>7. CASE cIn = <<x>> \o cIn' /\ stuffed' = stuffed
    <2> DEFINE calm == Quiet
               h == Have
    <2>1. Covered(<<x>> \o cIn', h, dltype, calm)
      BY <1>5, <1>7
    <2> HIDE DEF calm, h
    <2>2. /\ Needs(x, dltype, calm) \subseteq h
          /\ Covered(cIn', h \cup Carries(x), dltype, calm)
          /\ Carried(<<x>> \o cIn') = Carries(x) \cup Carried(cIn')
      BY <1>1, <2>1, CoveredFirst
    <2>3. Meant(x)
      BY <1>3, <1>4, <2>2 DEF Meant, calm, h
    <2> QED
      BY <1>1, <1>5, <1>7, <2>2, <2>3 DEF calm, h
  <1> QED
    BY <1>1, <1>6, <1>7 DEF Gone

LEMMA ReadsClaims ==
    ASSUME SignonTypes, Order, Claims, Quiet => Sizes, NEW x, NEW r, Reads(x, r),
           Meant(x) => Learns(x, r)
    PROVE  Claims'
  <1>1. /\ Have \cup Carries(x) \subseteq Have'
        /\ \A q \in Items(r) : Asks(q, dltype', Quiet, NoRestart) \subseteq Have'
        /\ dltype' = dltype \/ AfterTransfer(dltype') \subseteq Have'
        /\ cstate' # "failed"
    BY FirstMeant DEF Learns
  <1>2. /\ \/ /\ Covered(stuffed', Have \cup Carries(x), dltype, Quiet)
              /\ Covered(cIn', Have, dltype, Quiet)
              /\ Carried(cIn) = Carried(cIn')
           \/ /\ Covered(cIn', Have \cup Carries(x), dltype, Quiet)
              /\ Covered(stuffed', Have, dltype, Quiet)
              /\ Carried(cIn) = Carries(x) \cup Carried(cIn')
    BY FirstMeant
  <1>3. /\ MakesRequest(r) /\ SameServer /\ SameRegime /\ missing' \in 0..missing
        /\ toClient' = toClient /\ msg' = msg /\ back' = back
    BY ReadsBoth DEF Reads, server, inFlight
  <1>4. Quiet' = Quiet /\ NoRestart' = NoRestart
    BY <1>3, RegimeKept
  <1>5. level' = level /\ sstate' = sstate
    BY <1>3 DEF SameServer
  <1>6. AnswersCovered /\ RequestsCovered
    BY DEF Claims
  <1>7. Have \subseteq Have' /\ Have \cup Carried(cIn) \subseteq Have' \cup Carried(cIn')
        /\ Ready \subseteq Ready'
    <2>1. Have \subseteq Have' /\ Have \cup Carried(cIn) \subseteq Have' \cup Carried(cIn')
      BY <1>1, <1>2
    <2>2. Ready' = Have' \cup Carried(cIn') \cup Carried(toClient')
      BY DEF Ready
    <2> QED
      BY <1>3, <2>1, <2>2 DEF Ready
  <1> DEFINE h == Have
             h2 == Have'
             c == Carried(cIn)
             c2 == Carried(cIn')
             f == Ready
             f2 == Ready'
             calm == Quiet
             k == Carries(x)
  <1>8. h \subseteq h2 /\ h \cup k \subseteq h2 /\ h \cup c \subseteq h2 \cup c2 /\ f \subseteq f2
        /\ h2 \subseteq f2
    <2>1. Have' \subseteq Ready'
      BY DEF Ready
    <2> QED
      BY <1>1, <1>7, <2>1
  <1>9. /\ Covered(stuffed', h \cup k, dltype, calm) \/ Covered(stuffed', h, dltype, calm)
        /\ Covered(cIn', h \cup k, dltype, calm) \/ Covered(cIn', h, dltype, calm)
    BY <1>2
  <1>10. /\ Covered(toClient', h \cup c, dltype, calm)
         /\ Covered(msg', f, dltype, calm) /\ Covered(back', f, dltype, calm)
    BY <1>3, <1>6 DEF AnswersCovered
  <1>11. dltype' = dltype \/ AfterTransfer(dltype') \subseteq h2
    BY <1>1
  <1>12. Quiet' = calm
    BY <1>4
  <1> HIDE DEF h, h2, c, c2, f, f2, calm, k
  <1>13. Covered(stuffed', h2, dltype', calm) /\ Covered(cIn', h2, dltype', calm)
    BY <1>8, <1>9, <1>11, CoverKept
  <1>14. Covered(toClient', h2 \cup c2, dltype', calm)
    <2>1. dltype' = dltype \/ AfterTransfer(dltype') \subseteq h2 \cup c2
      BY <1>11
    <2> QED
      BY <1>8, <1>10, <2>1, CoverKept
  <1>15. Covered(msg', f2, dltype', calm) /\ Covered(back', f2, dltype', calm)
    <2>1. dltype' = dltype \/ AfterTransfer(dltype') \subseteq f2
      BY <1>8, <1>11
    <2> QED
      BY <1>8, <1>10, <2>1, CoverKept
  <1>16. AnswersCovered'
    BY <1>12, <1>13, <1>14, <1>15 DEF AnswersCovered, h2, c2, f2
  <1>17. RequestsCovered'
    <2> SUFFICES ASSUME NEW z \in Requests',
                        z.cmd \in Transfers \/ (z.cmd \in Guarded /\ z.level = level')
                 PROVE  Asks(z, dltype', Quiet', NoRestart') \subseteq Have'
      BY DEF RequestsCovered
    <2>1. CASE z \in Requests
      <3> DEFINE nores == NoRestart
      <3>1. Asks(z, dltype, Quiet, NoRestart) \subseteq Have
        BY <1>5, <1>6, <2>1 DEF RequestsCovered
      <3>2. Asks(z, dltype, calm, nores) \subseteq h
        BY <3>1 DEF calm, h
      <3>3. Quiet' = calm /\ NoRestart' = nores
        BY <1>4, <1>12
      <3> HIDE DEF nores
      <3>4. Asks(z, dltype', calm, nores) \subseteq Asks(z, dltype, calm, nores) \cup h2
        BY <1>11, AsksLess
      <3>5. Asks(z, dltype', calm, nores) \subseteq h2
        BY <1>8, <3>2, <3>4
      <3> QED
        BY <3>3, <3>5 DEF h2
    <2>2. CASE z \in Items(r)
      BY <1>1, <1>4, <2>2
    <2> QED
      BY <1>3, <2>1, <2>2 DEF MakesRequest
  <1>18. sstate' = "spawned" /\ NoRestart' => Everything \subseteq Have'
    BY <1>4, <1>5, <1>7 DEF Claims
  <1> QED
    BY <1>1, <1>16, <1>17, <1>18 DEF Claims

-----------------------------------------------------------------------------
(* What was said is covered: packets move, and the client renews.          *)

LEMMA CoverMore ==
    ASSUME NEW q, NEW h, NEW h2, NEW dl, NEW calm, Covered(q, h, dl, calm), h \subseteq h2
    PROVE  Covered(q, h2, dl, calm)
  BY CoverKept

LEMMA MovesCovered ==
    ASSUME SignonTypes, AnswersCovered, MoveStep \/ Idle, Moved
    PROVE  AnswersCovered'
  <1>1. Packets
    BY DEF SignonTypes
  <1>2. /\ servercount' = servercount /\ names' = names /\ loaded' = loaded
        /\ dltype' = dltype /\ limits' = limits
    BY DEF Moved
  <1>3. Have' = Have /\ Quiet' = Quiet
    BY <1>2 DEF Have, Quiet, Calm, NoRestart, RoomForTexts, limits
  <1> DEFINE h == Have
             calm == Quiet
             dl == dltype
             c == Carried(cIn)
             t == Carried(toClient)
  <1>4. /\ Covered(stuffed, h, dl, calm) /\ Covered(cIn, h, dl, calm)
        /\ Covered(toClient, h \cup c, dl, calm)
        /\ Covered(msg, (h \cup c) \cup t, dl, calm) /\ Covered(back, (h \cup c) \cup t, dl, calm)
    BY DEF AnswersCovered, Ready
  <1>5. ASSUME NEW c2, NEW t2, c2 = Carried(cIn'), t2 = Carried(toClient'),
               Covered(stuffed', h, dl, calm), Covered(cIn', h, dl, calm),
               Covered(toClient', h \cup c2, dl, calm),
               Covered(msg', (h \cup c2) \cup t2, dl, calm),
               Covered(back', (h \cup c2) \cup t2, dl, calm)
        PROVE  AnswersCovered'
    <2>1. h = Have' /\ calm = Quiet' /\ dl = dltype'
      BY <1>2, <1>3
    <2> HIDE DEF h, calm, dl
    <2>2. Ready' = (h \cup c2) \cup t2
      BY <1>5, <2>1 DEF Ready
    <2> QED
      BY <1>5, <2>1, <2>2 DEF AnswersCovered
  <1>6. Covered(<<>>, h \cup c, dl, calm) /\ Carried(<<>>) = {}
    BY CoveredFew
  <1>7. \A f : Covered(<<>>, f, dl, calm)
    BY CoveredFew
  <1>8. CASE ClientReceive
    <2>1. /\ cIn = <<>> /\ cIn' = toClient /\ toClient' = <<>>
          /\ stuffed' = stuffed /\ msg' = msg /\ back' = back
      BY <1>8 DEF ClientReceive, server
    <2>2. c = {} /\ Carried(cIn') = t /\ Carried(toClient') = {}
      BY <1>6, <2>1
    <2> DEFINE c2 == Carried(cIn')
               t2 == Carried(toClient')
    <2>3. c2 = Carried(cIn') /\ t2 = Carried(toClient')
      OBVIOUS
    <2>4. h \cup c = h /\ (h \cup c2) \cup t2 = (h \cup c) \cup t
      BY <2>2
    <2> HIDE DEF h, calm, dl, c, t, c2, t2
    <2>5. /\ Covered(stuffed', h, dl, calm) /\ Covered(cIn', h, dl, calm)
          /\ Covered(toClient', h \cup c2, dl, calm)
          /\ Covered(msg', (h \cup c2) \cup t2, dl, calm)
          /\ Covered(back', (h \cup c2) \cup t2, dl, calm)
      BY <1>4, <1>7, <2>1, <2>4
    <2> QED
      BY <1>5, <2>3, <2>5
  <1>9. CASE ServerSend
    <2>1. PICK first \in Seq(ServerMsg), rest \in Seq(ServerMsg) :
            back = first \o rest /\ toClient' = msg \o first /\ back' = rest
      BY <1>1, <1>9, ServerSendMoves
    <2>2. /\ toClient = <<>> /\ msg' = <<>> /\ stuffed' = stuffed /\ cIn' = cIn
      BY <1>9 DEF ServerSend, client
    <2> DEFINE c2 == Carried(cIn')
               t2 == Carried(toClient')
               f == Carried(first)
               g == Carried(msg)
    <2>3. c2 = Carried(cIn') /\ t2 = Carried(toClient')
      OBVIOUS
    <2>4. t = {} /\ c2 = c /\ t2 = g \cup f
      <3>1. t = {} /\ c2 = c
        BY <1>6, <2>2
      <3>2. Carried(msg \o first) = Carried(msg) \cup Carried(first)
        <4>1. msg \in Seq(ServerMsg)
          BY <1>1 DEF Packets
        <4> HIDE DEF h, calm, dl, c, t
        <4> QED
          BY <2>1, <4>1, CoveredParts
      <3>3. t2 = g \cup f
        BY <2>1, <3>2
      <3> QED
        BY <3>1, <3>3
    <2>5. /\ Covered(back, (h \cup c) \cup t, dl, calm)
               <=> /\ Covered(first, (h \cup c) \cup t, dl, calm)
                   /\ Covered(rest, ((h \cup c) \cup t) \cup f, dl, calm)
          /\ Covered(msg \o first, h \cup c, dl, calm)
               <=> Covered(msg, h \cup c, dl, calm) /\ Covered(first, (h \cup c) \cup g, dl, calm)
      <3>1. msg \in Seq(ServerMsg)
        BY <1>1 DEF Packets
      <3> HIDE DEF h, calm, dl, c, t
      <3> QED
        BY <2>1, <3>1, CoveredParts
    <2> HIDE DEF h, calm, dl, c, t, c2, t2, f, g
    <2>6. (h \cup c) \cup t = h \cup c
      BY <2>4
    <2>7. /\ Covered(first, h \cup c, dl, calm) /\ Covered(rest, (h \cup c) \cup f, dl, calm)
          /\ Covered(msg, h \cup c, dl, calm)
      BY <1>4, <2>5, <2>6
    <2>8. Covered(first, (h \cup c) \cup g, dl, calm)
      BY <2>7, CoverMore
    <2>9. Covered(toClient', h \cup c2, dl, calm)
      BY <2>1, <2>4, <2>5, <2>7, <2>8
    <2>10. Covered(back', (h \cup c2) \cup t2, dl, calm)
      <3>1. (h \cup c) \cup f \subseteq (h \cup c2) \cup t2
        BY <2>4
      <3> QED
        BY <2>1, <2>7, <3>1, CoverMore
    <2> QED
      BY <1>4, <1>5, <1>7, <2>2, <2>3, <2>9, <2>10
  <1>10. CASE ParseStufftext
    <2>1. PICK x \in ServerMsg : /\ cIn = <<x>> \o cIn' /\ stuffed' = stuffed \o <<x>>
                                 /\ x.op = "stuff"
      BY <1>1, <1>10, ParseStufftextMoves
    <2>2. toClient' = toClient /\ msg' = msg /\ back' = back /\ cIn' \in Seq(ServerMsg)
      <3>1. cIn # <<>> /\ cIn' = Tail(cIn)
        BY <1>10 DEF ParseStufftext, Parses
      <3> QED
        BY <1>1, <1>10, <3>1, HeadFirst DEF ParseStufftext, server, inFlight, Packets
    <2> DEFINE one == <<x>>
    <2>3. Carries(x) = {} /\ one \in Seq(ServerMsg)
      BY <2>1 DEF Carries, Lists
    <2> DEFINE c2 == Carried(cIn')
               t2 == Carried(toClient')
    <2>4. c2 = Carried(cIn') /\ t2 = Carried(toClient')
      OBVIOUS
    <2> HIDE DEF h, calm, dl, t, t2, c2
    <2>5. /\ Covered(<<x>> \o cIn', h, dl, calm)
               <=> Needs(x, dl, calm) \subseteq h /\ Covered(cIn', h \cup Carries(x), dl, calm)
          /\ Carried(<<x>> \o cIn') = Carries(x) \cup Carried(cIn')
      BY <2>2, CoveredFirst
    <2>6. c2 = c
      BY <2>1, <2>3, <2>5 DEF c2
    <2>7. h \cup Carries(x) = h
      BY <2>3
    <2>8. Needs(x, dl, calm) \subseteq h /\ Covered(cIn', h, dl, calm)
      BY <1>4, <2>1, <2>5, <2>7
    <2>9. Covered(one, h, dl, calm)
      BY <2>8, CoveredFew
    <2>10. t2 = t
      BY <2>2 DEF t, t2
    <2> HIDE DEF one, c
    <2>11. Covered(one, h \cup Carried(stuffed), dl, calm)
      BY <2>9, CoverMore
    <2>12. /\ stuffed \in Seq(ServerMsg)
           /\ Covered(stuffed \o one, h, dl, calm)
                <=> Covered(stuffed, h, dl, calm)
                      /\ Covered(one, h \cup Carried(stuffed), dl, calm)
      BY <1>1, <2>3, CoveredParts DEF Packets
    <2>13. Covered(stuffed', h, dl, calm)
      BY <1>4, <2>1, <2>11, <2>12 DEF one
    <2> QED
      BY <1>4, <1>5, <2>2, <2>4, <2>6, <2>8, <2>10, <2>13
  <1>11. CASE ServerReceive \/ ClientSend \/ Idle
    <2>1. /\ stuffed' = stuffed /\ cIn' = cIn /\ toClient' = toClient /\ msg' = msg
          /\ back' = back
      BY <1>11 DEF ServerReceive, ClientSend, Idle, server, client, inFlight
    <2> QED
      BY <1>2, <1>3, <2>1 DEF AnswersCovered, Ready
  <1> QED
    BY <1>8, <1>9, <1>10, <1>11 DEF MoveStep

LEMMA MovedClaims ==
    ASSUME SignonTypes, Claims, MoveStep \/ Idle, Moved
    PROVE  Claims'
  <1>1. AnswersCovered'
    BY MovesCovered DEF Claims
  <1>2. /\ servercount' = servercount /\ names' = names /\ loaded' = loaded
        /\ dltype' = dltype /\ limits' = limits /\ Requests' = Requests
        /\ level' = level /\ sstate' = sstate /\ cstate' \in {cstate, "active"}
    BY DEF Moved
  <1>3. Have' = Have /\ Quiet' = Quiet /\ NoRestart' = NoRestart
    BY <1>2 DEF Have, Quiet, Calm, NoRestart, RoomForTexts, limits
  <1>4. RequestsCovered'
    BY <1>2, <1>3 DEF RequestsCovered, Claims
  <1>5. cstate' # "failed" /\ (sstate' = "spawned" /\ NoRestart' => Everything \subseteq Have')
    BY <1>2, <1>3 DEF Claims
  <1> QED
    BY <1>1, <1>4, <1>5 DEF Claims

LEMMA RenewedClaims ==
    ASSUME SignonTypes, Regular, Order, Undisturbed => Single, NEW x, NEW q, Renewed(x, q)
    PROVE  Claims'
  <1>1. /\ TakesAnswer(x) /\ AsksOnly(q)
        /\ SameServer /\ SameRegime /\ missing' = missing /\ dltype' = dltype
    BY RenewedBoth
  <1>2. /\ x.op = "serverdata" /\ x \in Answers /\ cstate' = "onserver"
        /\ q \in ClientCmd /\ q.cmd = "soundlist" /\ q.n = 0
    BY DEF Renewed
  <1>3. /\ \A y \in Answers' : May(x, y, servercount, level)
        /\ Single => \A y \in Answers' : y = Text
    BY RenewedFirst DEF Order
  <1>4. /\ level' = level /\ sstate' = sstate /\ restarts' = restarts /\ NoRestart' = NoRestart
    BY <1>1 DEF SameServer, SameRegime, NoRestart
  <1>5. Requests' \subseteq Requests \cup {q} /\ Answers' \subseteq Answers
    BY <1>1 DEF AsksOnly, TakesAnswer
  <1>6. ~NoServerData /\ ~Silent
    BY <1>2 DEF NoServerData, Silent, Text
  <1>7. missing = MaxDownloads \/ (Undisturbed /\ Single)
    BY DEF Regular
  <1>8. SoundsTo(0) = {}
    BY DEF SoundsTo
  <1>9. ASSUME NEW y \in Answers', NEW dl, NEW calm PROVE Needs(y, dl, calm) = {}
    <2>1. May(x, y, servercount, level)
      BY <1>3
    <2>2. y.op # "download"
      <3>1. CASE missing = MaxDownloads
        BY <1>5, <3>1 DEF Order, NoTransfers
      <3>2. CASE Undisturbed /\ Single
        BY <1>3, <3>2 DEF Text
      <3> QED
        BY <1>7, <3>1, <3>2
    <2>3. CASE y.op \in Lists
      <3>1. y.op = "sounds" /\ y.from = 0
        BY <1>2, <2>1, <2>3 DEF May
      <3> QED
        BY <1>8, <3>1, NeedsByName
    <2>4. CASE y.op = "stuff"
      <3>1. y.cmd \in Restarts
        BY <1>2, <2>1, <2>4 DEF May, Restarts
      <3> QED
        BY <2>4, <3>1, NeedsByName
    <2>5. CASE y.op \notin Lists \cup {"stuff"}
      BY <2>2, <2>5 DEF Needs, Lists
    <2> QED
      BY <2>3, <2>4, <2>5
  <1>10. AnswersCovered'
    <2>1. ASSUME NEW p, NEW f, NEW dl, NEW calm, Items(p) \subseteq Answers'
          PROVE  Covered(p, f, dl, calm)
      BY <1>9, <2>1, CoveredAll
    <2>2. /\ Items(stuffed') \subseteq Answers' /\ Items(cIn') \subseteq Answers'
          /\ Items(toClient') \subseteq Answers' /\ Items(msg') \subseteq Answers'
          /\ Items(back') \subseteq Answers'
      BY DEF Answers
    <2>3. /\ Covered(stuffed', Have', dltype', Quiet')
          /\ Covered(cIn', Have', dltype', Quiet')
          /\ Covered(toClient', Have' \cup Carried(cIn'), dltype', Quiet')
          /\ Covered(msg', Ready', dltype', Quiet')
          /\ Covered(back', Ready', dltype', Quiet')
      BY <2>1, <2>2
    <2> QED
      BY <2>3 DEF AnswersCovered
  <1>11. RequestsCovered'
    <2> SUFFICES ASSUME NEW z \in Requests',
                        z.cmd \in Transfers \/ (z.cmd \in Guarded /\ z.level = level')
                 PROVE  Asks(z, dltype', Quiet', NoRestart') = {}
      BY DEF RequestsCovered
    <2>1. CASE z = q
      BY <1>2, <1>8, <2>1, AsksByName
    <2>2. CASE z \in Requests
      <3>1. z.cmd \notin Transfers
        <4>1. CASE missing = MaxDownloads
          BY <2>2, <4>1 DEF Order, NoTransfers
        <4>2. CASE Undisturbed /\ Single
          BY <1>6, <2>2, <4>2 DEF Single
        <4> QED
          BY <1>7, <4>1, <4>2
      <3>2. z.cmd \in Guarded /\ z.level = level
        BY <1>4, <3>1
      <3>3. ~Advanced(z, level, NoRestart)
        BY <1>6, <2>2 DEF Order, Together
      <3>4. \/ z.cmd = "soundlist" /\ ~(z.n > 0)
            \/ z.cmd = "begin" /\ ~NoRestart
        BY <3>2, <3>3 DEF Advanced
      <3>5. z.n \in Nat
        BY <2>2, SaidAndAsked, RequestFields
      <3>6. CASE z.cmd = "soundlist" /\ ~(z.n > 0)
        <4>1. z.n = 0
          BY <3>5, <3>6
        <4> QED
          BY <1>8, <3>6, <4>1, AsksByName
      <3>7. CASE z.cmd = "begin" /\ ~NoRestart
        BY <1>4, <3>7, AsksByName
      <3> QED
        BY <3>4, <3>6, <3>7
    <2> QED
      BY <1>5, <2>1, <2>2
  <1>12. ~(sstate' = "spawned" /\ NoRestart')
    BY <1>4, <1>6 DEF Order, ServerSide
  <1> QED
    BY <1>2, <1>10, <1>11, <1>12 DEF Claims

-----------------------------------------------------------------------------
(* What was said is covered: the server's steps.                           *)

LEMMA WrittenCovered ==
    ASSUME SignonTypes, AnswersCovered, ClientWaits, NEW n \in Seq(ServerMsg),
           Writes(n, msg, back, msg', back'), Covered(n, Ready, dltype, Quiet),
           Quiet' => Quiet
    PROVE  AnswersCovered'
  <1>1. /\ servercount' = servercount /\ names' = names /\ loaded' = loaded
        /\ dltype' = dltype /\ stuffed' = stuffed /\ cIn' = cIn /\ toClient' = toClient
    BY DEF ClientWaits
  <1>2. Have' = Have /\ Ready' = Ready
    BY <1>1 DEF Have, Ready
  <1>3. msg \in Seq(ServerMsg) /\ back \in Seq(ServerMsg)
    BY DEF SignonTypes, Packets
  <1> DEFINE f == Ready
             calm == Quiet
             calm2 == Quiet'
             h == Have
             hc == Have \cup Carried(cIn)
             dl == dltype
  <1>4. /\ Covered(msg, f, dl, calm) /\ Covered(back, f, dl, calm) /\ Covered(n, f, dl, calm)
        /\ Covered(stuffed, h, dl, calm) /\ Covered(cIn, h, dl, calm)
        /\ Covered(toClient, hc, dl, calm)
    BY DEF AnswersCovered
  <1>5. calm2 => calm
    OBVIOUS
  <1>6. /\ f = Ready' /\ h = Have' /\ hc = Have' \cup Carried(cIn') /\ dl = dltype'
        /\ calm2 = Quiet'
    BY <1>1, <1>2
  <1> HIDE DEF f, calm, calm2, h, hc, dl
  <1>7. Covered(msg', f, dl, calm) /\ Covered(back', f, dl, calm)
    BY <1>3, <1>4, CoveredWrites
  <1>8. /\ Covered(msg', f, dl, calm2) /\ Covered(back', f, dl, calm2)
        /\ Covered(stuffed, h, dl, calm2) /\ Covered(cIn, h, dl, calm2)
        /\ Covered(toClient, hc, dl, calm2)
    BY <1>4, <1>5, <1>7, CoverKept
  <1> QED
    BY <1>1, <1>6, <1>8 DEF AnswersCovered

LEMMA NothingNeeded ==
    ASSUME NEW m \in ServerMsg, m.op \in {"serverdata", "text"} \/ (m.op = "stuff" /\ m.cmd \in Restarts),
           NEW n, Items(n) = {m}, NEW h, NEW dl, NEW calm
    PROVE  Covered(n, h, dl, calm)
  <1>1. CASE m.op \in {"serverdata", "text"}
    <2>1. Needs(m, dl, calm) = {}
      BY <1>1 DEF Needs, Lists
    <2> QED
      BY <2>1, CoveredAll
  <1>2. CASE m.op = "stuff" /\ m.cmd \in Restarts
    <2>1. Needs(m, dl, calm) = {}
      BY <1>2, NeedsByName
    <2> QED
      BY <2>1, CoveredAll
  <1> QED
    BY <1>1, <1>2

(* A step of the server with the limits where they were.                   *)
LEMMA ServerClaims ==
    ASSUME SignonTypes, Claims, ClientWaits, SameLimits, AnswersCovered',
           level' = level, Requests' \subseteq Requests,
           sstate' = "spawned" /\ NoRestart => Everything \subseteq Have
    PROVE  Claims'
  <1>1. /\ servercount' = servercount /\ names' = names /\ loaded' = loaded
        /\ dltype' = dltype /\ cstate' = cstate
    BY DEF ClientWaits
  <1>2. Have' = Have /\ Quiet' = Quiet /\ NoRestart' = NoRestart
    BY <1>1, LimitsKept DEF Have
  <1>3. RequestsCovered'
    BY <1>1, <1>2 DEF RequestsCovered, Claims
  <1> QED
    BY <1>1, <1>2, <1>3 DEF Claims

LEMMA DropsClaims ==
    ASSUME SignonTypes, Order, Claims, NEW y, Drops(y)
    PROVE  Claims'
  <1>1. /\ Taken(y) /\ level' = level /\ msg' = msg /\ back' = back
        /\ \/ sstate' = sstate
           \/ sstate' = "spawned" /\ y.cmd = "begin" /\ y.level = level
           \/ sstate' \in {"dropped: map", "dropped: overflow"}
    BY DEF Drops
  <1>2. ClientWaits /\ SameLimits /\ TakesRequest(y)
    BY <1>1, TakenTakes
  <1>3. /\ servercount' = servercount /\ names' = names /\ loaded' = loaded
        /\ dltype' = dltype /\ stuffed' = stuffed /\ cIn' = cIn /\ toClient' = toClient
    BY <1>2 DEF ClientWaits
  <1>4. Quiet' = Quiet
    BY <1>2, LimitsKept
  <1>5. AnswersCovered'
    BY <1>1, <1>3, <1>4 DEF Claims, AnswersCovered, Have, Ready
  <1>6. y \in Requests /\ Requests' \subseteq Requests
    BY <1>2 DEF TakesRequest
  <1>7. ASSUME sstate' = "spawned", NoRestart PROVE Everything \subseteq Have
    <2>1. CASE sstate' = sstate
      BY <1>7, <2>1 DEF Claims
    <2>2. CASE y.cmd = "begin" /\ y.level = level
      <3>1. Asks(y, dltype, Quiet, NoRestart) \subseteq Have
        BY <1>6, <2>2 DEF Claims, RequestsCovered, Guarded
      <3>2. Asks(y, dltype, Quiet, NoRestart) = Everything
        BY <1>7, <2>2, AsksByName
      <3> QED
        BY <3>1, <3>2
    <2> QED
      BY <1>1, <1>7, <2>1, <2>2
  <1> QED
    BY <1>1, <1>2, <1>5, <1>6, <1>7, ServerClaims

LEMMA StartsOverClaims ==
    ASSUME SignonTypes, Order, Claims, NEW y, StartsOver(y)
    PROVE  Claims'
  <1>1. Taken(y) /\ level' = level
    BY DEF StartsOver
  <1>2. PICK m \in ServerMsg :
         /\ Writes(<<m>>, msg, back, msg', back')
         /\ \/ m = ServerData /\ sstate' = "connected"
            \/ m.op = "stuff" /\ m.cmd \in {"pext", "new"} /\ sstate' = sstate
    BY DEF StartsOver
  <1> DEFINE n == <<m>>
  <1>3. n \in Seq(ServerMsg) /\ Items(n) = {m} /\ Writes(n, msg, back, msg', back')
    BY <1>2, OneMessage
  <1> HIDE DEF n
  <1>4. m.op \in {"serverdata", "text"} \/ (m.op = "stuff" /\ m.cmd \in Restarts)
    <2>1. ServerData.op = "serverdata"
      BY DEF ServerData
    <2>2. {"pext", "new"} \subseteq Restarts
      BY DEF Restarts
    <2> QED
      BY <1>2, <2>1, <2>2
  <1>5. Covered(n, Ready, dltype, Quiet)
    BY <1>3, <1>4, NothingNeeded
  <1>6. ClientWaits /\ SameLimits /\ TakesRequest(y)
    BY <1>1, TakenTakes
  <1>7. Quiet' = Quiet
    BY <1>6, LimitsKept
  <1>8. AnswersCovered'
    BY <1>3, <1>5, <1>6, <1>7, WrittenCovered DEF Claims
  <1>9. Requests' \subseteq Requests
    BY <1>6 DEF TakesRequest
  <1>10. sstate' = "spawned" /\ NoRestart => Everything \subseteq Have
    BY <1>2 DEF Claims
  <1> QED
    BY <1>1, <1>6, <1>8, <1>9, <1>10, ServerClaims

LEMMA AnsweredClaims ==
    ASSUME SignonTypes, Order, Claims, NEW y, NEW n, NEW m, Answered(y, n, m)
    PROVE  Claims'
  <1>1. /\ Taken(y) /\ level' = level /\ sstate' = sstate
        /\ AnswerTo(y, n) /\ Writes(n, msg, back, msg', back') /\ n \in Seq(ServerMsg)
        /\ y.cmd \in Guarded /\ y.level = level
        /\ \A h, dl, calm, nores :
             Asks(y, dl, calm, nores) \subseteq h => Covered(n, h, dl, calm)
    BY DEF Answered, AnswerTo
  <1>2. ClientWaits /\ SameLimits /\ TakesRequest(y)
    BY <1>1, TakenTakes
  <1>3. Quiet' = Quiet
    BY <1>2, LimitsKept
  <1>4. y \in Requests /\ Requests' \subseteq Requests
    BY <1>2 DEF TakesRequest
  <1>5. Asks(y, dltype, Quiet, NoRestart) \subseteq Have
    BY <1>1, <1>4 DEF Claims, RequestsCovered
  <1>6. Covered(n, Ready, dltype, Quiet)
    <2> DEFINE f == Ready
               calm == Quiet
               nores == NoRestart
    <2>1. Asks(y, dltype, calm, nores) \subseteq f
      BY <1>5 DEF Ready
    <2> HIDE DEF f, calm, nores
    <2>2. Covered(n, f, dltype, calm)
      BY <1>1, <2>1
    <2> QED
      BY <2>2 DEF f, calm
  <1>7. AnswersCovered'
    BY <1>1, <1>2, <1>3, <1>6, WrittenCovered DEF Claims
  <1>8. sstate' = "spawned" /\ NoRestart => Everything \subseteq Have
    BY <1>1 DEF Claims
  <1> QED
    BY <1>1, <1>2, <1>4, <1>7, <1>8, ServerClaims

LEMMA BlockClaims ==
    ASSUME SignonTypes, Order, Claims, NEW y, NEW n, NEW m, BlockOnly(y, n, m)
    PROVE  Claims'
  <1>1. /\ Taken(y) /\ level' = level /\ sstate' = sstate /\ y.cmd \in Transfers
        /\ y \in Requests /\ Requests' = {}
        /\ m \in ServerMsg /\ m.op = "download" /\ Items(n) = {m} /\ n \in Seq(ServerMsg)
        /\ Writes(n, msg, back, msg', back')
    BY DEF BlockOnly
  <1>2. ClientWaits /\ SameLimits
    BY <1>1, TakenTakes
  <1>3. Quiet' = Quiet
    BY <1>2, LimitsKept
  <1>4. Asks(y, dltype, Quiet, NoRestart) \subseteq Have
    BY <1>1 DEF Claims, RequestsCovered
  <1>5. AfterTransfer(dltype) \subseteq Have
    BY <1>1, <1>4, AsksByName
  <1>6. Covered(n, Ready, dltype, Quiet)
    <2> DEFINE f == Ready
               calm == Quiet
    <2>1. AfterTransfer(dltype) \subseteq f
      BY <1>5 DEF Ready
    <2> HIDE DEF f, calm
    <2>2. Needs(m, dltype, calm) = AfterTransfer(dltype)
      BY <1>1, NeedsByName
    <2>3. Covered(n, f, dltype, calm)
      BY <1>1, <2>1, <2>2, CoveredAll
    <2> QED
      BY <2>3 DEF f, calm
  <1>7. AnswersCovered'
    BY <1>1, <1>2, <1>3, <1>6, WrittenCovered DEF Claims
  <1>8. sstate' = "spawned" /\ NoRestart => Everything \subseteq Have
    BY <1>1 DEF Claims
  <1> QED
    BY <1>1, <1>2, <1>7, <1>8, ServerClaims

LEMMA ToldClaims ==
    ASSUME SignonTypes, Order, Claims, NEW n, NEW m, Told(n, m), Quiet' => Quiet,
           \/ level' = level /\ sstate' = sstate
           \/ level' = level + 1 /\ sstate' # "spawned"
    PROVE  Claims'
  <1>1. /\ m \in ServerMsg /\ m \in {Text, Reconnect} /\ n \in Seq(ServerMsg)
        /\ Items(n) = {m} /\ Writes(n, msg, back, msg', back') /\ ClientWaits
        /\ restarts' = restarts /\ Requests' = Requests
    BY DEF Told
  <1>2. m.op \in {"serverdata", "text"} \/ (m.op = "stuff" /\ m.cmd \in Restarts)
    BY <1>1, MessagesTold DEF Restarts
  <1>3. Covered(n, Ready, dltype, Quiet)
    BY <1>1, <1>2, NothingNeeded
  <1>4. AnswersCovered'
    BY <1>1, <1>3, WrittenCovered DEF Claims
  <1>5. /\ servercount' = servercount /\ names' = names /\ loaded' = loaded
        /\ dltype' = dltype /\ cstate' = cstate
    BY <1>1 DEF ClientWaits
  <1>6. Have' = Have /\ NoRestart' = NoRestart
    BY <1>1, <1>5 DEF Have, NoRestart
  <1>7. RequestsCovered'
    <2> SUFFICES ASSUME NEW z \in Requests,
                        z.cmd \in Transfers \/ (z.cmd \in Guarded /\ z.level = level')
                 PROVE  Asks(z, dltype, Quiet', NoRestart) \subseteq Have
      BY <1>1, <1>5, <1>6 DEF RequestsCovered
    <2>1. z.cmd \in Transfers \/ (z.cmd \in Guarded /\ z.level = level)
      <3>1. CASE level' = level
        BY <3>1
      <3>2. CASE level' = level + 1
        <4>1. z.cmd \in Guarded => z.level <= servercount
          BY DEF Order, InOrder
        <4>2. level \in Nat /\ servercount \in 0..level
          BY SignonScalars
        <4>3. z.cmd \in Guarded => z.level # level + 1
          BY <4>1, <4>2
        <4> QED
          BY <3>2, <4>3
      <3> QED
        BY <3>1, <3>2
    <2> DEFINE calm == Quiet
               calm2 == Quiet'
               nores == NoRestart
    <2>2. Asks(z, dltype, calm, nores) \subseteq Have
      BY <2>1 DEF Claims, RequestsCovered
    <2>3. calm2 => calm
      OBVIOUS
    <2> HIDE DEF calm, calm2, nores
    <2>4. Asks(z, dltype, calm2, nores) \subseteq Asks(z, dltype, calm, nores) \cup {}
      BY <2>3, AsksLess
    <2>5. Asks(z, dltype, calm2, nores) \subseteq Have
      BY <2>2, <2>4
    <2> QED
      BY <2>5 DEF calm2, nores
  <1>8. sstate' = "spawned" /\ NoRestart' => Everything \subseteq Have'
    BY <1>6 DEF Claims
  <1> QED
    BY <1>4, <1>5, <1>7, <1>8 DEF Claims

LEMMA RestartedClaims ==
    ASSUME SignonTypes, Order, Claims, NEW r, Restarted(r), Regular'
    PROVE  Claims'
  <1>1. ~NoRestart' /\ ~Quiet' /\ ~Undisturbed'
    BY RestartedOrder
  <1>2. /\ restarts' = restarts - 1 /\ missing' \in 0..missing
        /\ missing' = missing =>
             dltype' = "none" /\ \A q \in Items(r) : q.cmd = "begin"
        /\ level' = level /\ sstate' = sstate /\ cstate' = cstate
        /\ servercount' = servercount /\ names' = names /\ loaded' = loaded
        /\ stuffed' = stuffed /\ cIn' = cIn /\ toClient' = toClient /\ msg' = msg
        /\ back' = back /\ r \in Seq(ClientCmd) /\ Len(r) <= 1 /\ cOut' = cOut \o r
        /\ sIn' = sIn /\ toServer' = toServer
    BY DEF Restarted, server, inFlight
  <1>3. missing' = missing
    BY <1>1, <1>2, SignonScalars DEF Regular
  <1>4. dltype' = "none" /\ \A q \in Items(r) : q.cmd = "begin"
    BY <1>2, <1>3
  <1>5. AfterTransfer(dltype') = {}
    BY <1>4 DEF AfterTransfer
  <1>6. Have' = Have /\ Ready' = Ready
    BY <1>2 DEF Have, Ready
  <1>7. Requests' = Requests \cup Items(r)
    BY <1>2, GrowMakes DEF MakesRequest
  <1>8. AnswersCovered'
    <2> DEFINE calm == Quiet
               calm2 == Quiet'
               f == Ready
               h == Have
               hc == Have \cup Carried(cIn)
               dl == dltype
               dl2 == dltype'
    <2>1. /\ Covered(msg, f, dl, calm) /\ Covered(back, f, dl, calm)
          /\ Covered(stuffed, h, dl, calm) /\ Covered(cIn, h, dl, calm)
          /\ Covered(toClient, hc, dl, calm)
      BY DEF Claims, AnswersCovered
    <2>2. ~calm2 /\ AfterTransfer(dl2) = {}
      BY <1>1, <1>5
    <2>3. /\ f = Ready' /\ h = Have' /\ hc = Have' \cup Carried(cIn') /\ dl2 = dltype'
          /\ calm2 = Quiet'
      BY <1>2, <1>6
    <2> HIDE DEF calm, calm2, f, h, hc, dl, dl2
    <2>4. /\ Covered(msg, f, dl2, calm2) /\ Covered(back, f, dl2, calm2)
          /\ Covered(stuffed, h, dl2, calm2) /\ Covered(cIn, h, dl2, calm2)
          /\ Covered(toClient, hc, dl2, calm2)
      BY <2>1, <2>2, CoverKept
    <2> QED
      BY <1>2, <2>3, <2>4 DEF AnswersCovered
  <1>9. RequestsCovered'
    <2> SUFFICES ASSUME NEW z \in Requests',
                        z.cmd \in Transfers \/ (z.cmd \in Guarded /\ z.level = level)
                 PROVE  Asks(z, dltype', Quiet', NoRestart') \subseteq Have
      BY <1>2, <1>6 DEF RequestsCovered
    <2>1. CASE z \in Items(r)
      BY <1>1, <1>4, <2>1, AsksByName
    <2>2. CASE z \in Requests
      <3> DEFINE calm == Quiet
                 calm2 == Quiet'
                 nores == NoRestart
                 nores2 == NoRestart'
                 dl2 == dltype'
      <3>1. Asks(z, dltype, calm, nores) \subseteq Have
        BY <2>2 DEF Claims, RequestsCovered
      <3>2. ~calm2 /\ ~nores2 /\ AfterTransfer(dl2) = {}
        BY <1>1, <1>5
      <3> HIDE DEF calm, calm2, nores, nores2, dl2
      <3>3. Asks(z, dl2, calm2, nores2) \subseteq Asks(z, dltype, calm, nores) \cup {}
        BY <3>2, AsksLess
      <3>4. Asks(z, dl2, calm2, nores2) \subseteq Have
        BY <3>1, <3>3
      <3> QED
        BY <3>4 DEF calm2, nores2, dl2
    <2> QED
      BY <1>7, <2>1, <2>2
  <1> QED
    BY <1>1, <1>2, <1>8, <1>9 DEF Claims

-----------------------------------------------------------------------------
(* One message at a time.                                                  *)

LEMMA TokenText ==
    ASSUME NEW x
    PROVE  /\ ~Token(Text) /\ (Token(x) => x # Text)
           /\ x.op \in {"serverdata", "stuff", "sounds", "models", "download"} => Token(x)
           /\ x.op \in DataLists => ~Token(x)
  <1>1. ~Token(Text)
    BY DEF Token, Text
  <1> QED
    BY <1>1 DEF Token, DataLists

LEMMA TokenRead ==
    ASSUME SignonTypes, Single, NEW x, TakesAnswer(x), Token(x)
    PROVE  Requests = {} /\ RequestCount = 0 /\ Silent' /\ sstate # "spawned"
  <1>1. x \in ServerMsg /\ x \in Answers /\ Answers = {x} \cup Answers'
    BY DEF TakesAnswer
  <1>2. ~Silent
    BY <1>1, TokenText DEF Silent
  <1>3. Requests = {} /\ sstate # "spawned"
    BY <1>2 DEF Single
  <1>4. RequestCount = 0
    BY <1>3, SaidAndAsked
  <1>5. ASSUME NEW y \in Answers' PROVE y = Text
    <2>1. Follow(stuffed, cIn, toClient, msg, back, TokenPairs)
      BY DEF Single, AnswersFollow
    <2>2. <<x, y>> \in TokenPairs \/ (y.op = "stuff" /\ <<y, x>> \in TokenPairs)
      BY <2>1 DEF TakesAnswer
    <2>3. y \in ServerMsg
      BY <1>1, SaidAndAsked
    <2>4. (Token(x) => y = Text) \/ (y.op = "stuff" /\ (Token(y) => x = Text))
      BY <1>1, <2>2, <2>3, InOrderPairs
    <2> QED
      BY <2>4, TokenText
  <1>6. Silent'
    BY <1>5 DEF Silent
  <1> QED
    BY <1>3, <1>4, <1>6

LEMMA ReadsSingle ==
    ASSUME SignonTypes, Order, Single, NEW x, NEW r, Reads(x, r)
    PROVE  Single'
  <1>1. /\ TakesAnswer(x) /\ MakesRequest(r) /\ SameServer
        /\ servercount' = servercount /\ \A q \in Items(r) : Reply(x, q)
    BY ReadsBoth
  <1>2. level' = level /\ sstate' = sstate
    BY <1>1 DEF SameServer
  <1>3. x \in Answers /\ Answers = {x} \cup Answers'
    BY <1>1 DEF TakesAnswer
  <1>4. /\ Requests' = Requests \cup Items(r)
        /\ Items(r) = {} => RequestCount' = RequestCount
        /\ Items(r) # {} => RequestCount' = RequestCount + 1
    BY <1>1 DEF MakesRequest
  <1>5. /\ RequestCount <= 1 /\ (Requests # {} => Silent)
        /\ sstate = "spawned" => Silent /\ Requests = {}
        /\ \A z \in Answers : z # Text => Expected(z)
        /\ \A z \in Requests : z.cmd \notin {"new", "pext"} => servercount = level
    BY DEF Single, Expected
  <1>6. Follow(stuffed', cIn', toClient', msg', back', TokenPairs)
    <2>1. Follow(stuffed, cIn, toClient, msg, back, TokenPairs)
      BY DEF Single, AnswersFollow
    <2> QED
      BY <1>1, <2>1 DEF TakesAnswer
  <1>7. Silent => Silent'
    BY <1>3 DEF Silent
  <1>8. \A z \in Answers' : z # Text => Expected(z)'
    BY <1>1, <1>2, <1>3, <1>5 DEF Expected
  <1>9. CASE Items(r) = {}
    <2>1. RequestCount' = RequestCount /\ Requests' = Requests
      BY <1>4, <1>9
    <2> QED
      BY <1>1, <1>2, <1>5, <1>6, <1>7, <1>8, <2>1 DEF Single, AnswersFollow, Expected
  <1>10. CASE Items(r) # {}
    <2>1. \A q \in Items(r) :
            \/ x.op = "stuff" /\ x.cmd \in Restarts /\ q.cmd \in {"new", "pext"}
            \/ x.op \in {"sounds", "models", "download"}
            \/ x.op = "stuff" /\ x.cmd \notin Restarts
      BY <1>1 DEF Reply
    <2>2. x.op \in {"sounds", "models", "download", "stuff"}
      BY <1>10, <2>1
    <2>3. Token(x) /\ x # Text
      BY <2>2, TokenText
    <2>4. Requests = {} /\ RequestCount = 0 /\ Silent' /\ sstate # "spawned"
      BY <1>1, <2>3, TokenRead
    <2>5. RequestCount' = 1
      BY <1>4, <1>10, <2>4
    <2>6. \A z \in Requests' : z.cmd \notin {"new", "pext"} => servercount = level
      <3>1. Expected(x)
        BY <1>3, <1>5, <2>3
      <3> QED
        BY <1>4, <2>1, <2>4, <3>1 DEF Expected
    <2> QED
      BY <1>1, <1>2, <1>6, <1>8, <2>4, <2>5, <2>6 DEF Single, AnswersFollow, Expected
  <1> QED
    BY <1>9, <1>10

LEMMA RenewedSingle ==
    ASSUME SignonTypes, Order, Single, NEW x, NEW q, Renewed(x, q)
    PROVE  Single'
  <1>1. /\ TakesAnswer(x) /\ AsksOnly(q) /\ SameServer
        /\ servercount \in Nat /\ level \in Nat /\ x.level \in 1..level
    BY RenewedBoth
  <1>2. x.op = "serverdata" /\ servercount' = x.level /\ q.cmd = "soundlist"
    BY DEF Renewed
  <1>3. level' = level /\ sstate' = sstate
    BY <1>1 DEF SameServer
  <1>4. Token(x) /\ x # Text
    BY <1>2, TokenText
  <1>5. Requests = {} /\ RequestCount = 0 /\ Silent' /\ sstate # "spawned"
    BY <1>1, <1>4, TokenRead
  <1>6. Requests' = {q} /\ RequestCount' = 1
    BY <1>1, <1>5 DEF AsksOnly
  <1>7. x \in Answers
    BY <1>1 DEF TakesAnswer
  <1>8. x.level = level
    <2>1. Expected(x)
      BY <1>4, <1>7 DEF Single, Expected
    <2>2. servercount <= x.level
      BY <1>2, <1>7 DEF Order, InOrder, FitsIn
    <2>3. servercount = level \/ x.level = level
      BY <1>2, <2>1 DEF Expected
    <2> QED
      BY <1>1, <2>2, <2>3
  <1>9. Follow(stuffed', cIn', toClient', msg', back', TokenPairs)
    <2>1. Follow(stuffed, cIn, toClient, msg, back, TokenPairs)
      BY DEF Single, AnswersFollow
    <2> QED
      BY <1>1, <2>1 DEF TakesAnswer
  <1>10. servercount' = level'
    BY <1>2, <1>3, <1>8
  <1> QED
    BY <1>3, <1>5, <1>6, <1>9, <1>10 DEF Single, AnswersFollow

LEMMA MovedSingle ==
    ASSUME SignonTypes, Single, Moved
    PROVE  Single'
  <1>1. /\ Answers' = Answers /\ Requests' = Requests /\ RequestCount' = RequestCount
        /\ \A R : AnswersFollow(R) => AnswersFollow(R)'
        /\ level' = level /\ sstate' = sstate /\ servercount' = servercount
    BY DEF Moved
  <1>2. AnswersFollow(TokenPairs)'
    <2> DEFINE R == TokenPairs
    <2>1. AnswersFollow(R)
      BY DEF Single
    <2> HIDE DEF R
    <2>2. Follow(stuffed', cIn', toClient', msg', back', R)
      BY <1>1, <2>1 DEF AnswersFollow
    <2> QED
      BY <2>2 DEF AnswersFollow, R
  <1> QED
    BY <1>1, <1>2 DEF Single, Silent

LEMMA TakenSingle ==
    ASSUME SignonTypes, Single, NEW y, Taken(y)
    PROVE  Requests' = {} /\ RequestCount' = 0 /\ Silent /\ sstate # "spawned" /\ y \in Requests
  <1>1. /\ y \in Requests /\ Requests = {y} \cup Requests'
        /\ RequestCount = RequestCount' + 1 /\ RequestCount' \in Nat
    BY TakenTakes DEF TakesRequest
  <1>2. RequestCount' = 0
    <2>1. RequestCount <= 1
      BY DEF Single
    <2>2. \A k \in Nat : k + 1 <= 1 => k = 0
      OBVIOUS
    <2> QED
      BY <1>1, <2>1, <2>2
  <1>3. Silent /\ sstate # "spawned"
    BY <1>1 DEF Single
  <1>4. Requests' = {}
    <2>1. sIn' \in Seq(ClientCmd) /\ toServer' \in Seq(ClientCmd) /\ cOut' \in Seq(ClientCmd)
      BY DEF Taken, client, inFlight, SignonTypes, Packets
    <2>2. /\ Len(sIn') + Len(toServer') + Len(cOut') \in Nat
          /\ Len(sIn') + Len(toServer') + Len(cOut') = 0
                <=> Items(sIn') \cup Items(toServer') \cup Items(cOut') = {}
      BY <2>1, NoneLeft
    <2> QED
      BY <1>2, <2>2 DEF RequestCount, Requests
  <1> QED
    BY <1>1, <1>2, <1>3, <1>4

LEMMA WritesSingle ==
    ASSUME SignonTypes, Silent, Requests' = {}, RequestCount' = 0, NEW n, WritesAnswers(n),
           InPairs(n, TokenPairs), Items(n) \subseteq ServerMsg,
           \A k \in Items(n) : k # Text => Expected(k)', sstate' # "spawned"
    PROVE  Single'
  <1>1. \A x \in Answers : x = Text
    BY DEF Silent
  <1>2. Text \in ServerMsg
    BY MessagesTold
  <1>3. Answers' \subseteq Answers \cup Items(n)
    BY DEF WritesAnswers
  <1>4. Items(back) \subseteq Answers
    BY DEF Answers
  <1>5. Follow(stuffed, cIn, toClient, msg, back, TokenPairs)
    <2>1. Packets
      BY DEF SignonTypes
    <2>2. \A x, y \in Answers : <<x, y>> \in TokenPairs
      BY <1>1, <1>2, TokenText DEF TokenPairs
    <2>3. \A q \in Seq(ServerMsg) : Items(q) \subseteq Answers => InPairs(q, TokenPairs)
      BY <2>2 DEF InPairs, Items
    <2>4. /\ InPairs(stuffed, TokenPairs) /\ InPairs(cIn, TokenPairs)
          /\ InPairs(toClient, TokenPairs) /\ InPairs(msg, TokenPairs)
          /\ InPairs(back, TokenPairs)
      BY <2>1, <2>3 DEF Packets, Answers
    <2> QED
      BY <2>2, <2>4 DEF Follow, Ahead, Answers
  <1>6. \A x \in Answers : \A k \in Items(n) : <<x, k>> \in TokenPairs
    BY <1>1, <1>2, TokenText DEF TokenPairs
  <1>7. \A k \in Items(n) : \A z \in Items(back) : <<k, z>> \in TokenPairs
    BY <1>1, <1>2, <1>4 DEF TokenPairs
  <1>8. Follow(stuffed', cIn', toClient', msg', back', TokenPairs)
    BY <1>5, <1>6, <1>7 DEF WritesAnswers
  <1>9. \A x \in Answers' : x # Text => Expected(x)'
    BY <1>1, <1>3
  <1> QED
    BY <1>8, <1>9 DEF Single, AnswersFollow, Expected

-----------------------------------------------------------------------------
(* One message at a time, when the server acts.                            *)

LEMMA DropsSingle ==
    ASSUME SignonTypes, Single, NEW y, Drops(y)
    PROVE  Single'
  <1>1. /\ Taken(y) /\ level' = level /\ msg' = msg /\ back' = back
    BY DEF Drops
  <1>2. Requests' = {} /\ RequestCount' = 0 /\ Silent
    BY <1>1, TakenSingle
  <1>3. /\ stuffed' = stuffed /\ cIn' = cIn /\ toClient' = toClient
        /\ servercount' = servercount
    BY <1>1, TakenTakes DEF ClientWaits
  <1>4. Answers' = Answers
    BY <1>1, <1>3 DEF Answers
  <1>5. Silent'
    BY <1>2, <1>4 DEF Silent
  <1>6. AnswersFollow(TokenPairs)'
    BY <1>1, <1>3 DEF Single, AnswersFollow
  <1>7. \A x \in Answers' : x = Text
    BY <1>5 DEF Silent
  <1> QED
    BY <1>2, <1>5, <1>6, <1>7 DEF Single

LEMMA StartsOverSingle ==
    ASSUME SignonTypes, Single, NEW y, StartsOver(y)
    PROVE  Single'
  <1>1. Taken(y) /\ level' = level
    BY DEF StartsOver
  <1>2. PICK m \in ServerMsg, n \in Seq(ServerMsg) :
          /\ Items(n) = {m} /\ (\A R : InPairs(n, R)) /\ WritesAnswers(n)
          /\ \/ m = ServerData /\ sstate' = "connected"
             \/ m.op = "stuff" /\ m.cmd \in {"pext", "new"} /\ sstate' = sstate
    BY StartsOverWrites
  <1>3. Requests' = {} /\ RequestCount' = 0 /\ Silent /\ sstate # "spawned"
    BY <1>1, TakenSingle
  <1>4. Expected(m)' /\ sstate' # "spawned"
    <2>1. CASE m = ServerData /\ sstate' = "connected"
      <3>1. m.op = "serverdata" /\ m.level = level
        BY <2>1 DEF ServerData
      <3> QED
        BY <1>1, <2>1, <3>1 DEF Expected
    <2>2. CASE m.op = "stuff" /\ m.cmd \in {"pext", "new"} /\ sstate' = sstate
      <3>1. m.cmd \in Restarts
        BY <2>2 DEF Restarts
      <3> QED
        BY <1>3, <2>2, <3>1 DEF Expected
    <2> QED
      BY <1>2, <2>1, <2>2
  <1>5. InPairs(n, TokenPairs)
    BY <1>2
  <1> QED
    BY <1>2, <1>3, <1>4, <1>5, WritesSingle

LEMMA AnsweredSingle ==
    ASSUME SignonTypes, Order, Single, NEW y, NEW n, NEW m, Answered(y, n, m)
    PROVE  Single'
  <1>1. /\ Taken(y) /\ level' = level /\ sstate' = "connected" /\ WritesAnswers(n)
        /\ y.cmd \in Guarded /\ y.level = level
        /\ m \in ServerMsg
        /\ \/ n = <<m>>
           \/ \E s \in ServerMsg : n = <<m, s>> /\ m.op \in DataLists
    BY DEF Answered, AnswerTo
  <1>2. Requests' = {} /\ RequestCount' = 0 /\ Silent
    BY <1>1, TakenSingle
  <1>3. servercount' = level'
    <2>1. servercount = level
      BY <1>1, TakenOrder
    <2> QED
      BY <1>1, <2>1, TakenTakes DEF ClientWaits
  <1>4. Items(n) \subseteq ServerMsg
    BY AnsweredItems
  <1>5. InPairs(n, TokenPairs)
    <2>1. CASE n = <<m>>
      BY <2>1, PairsFew
    <2>2. ASSUME NEW s \in ServerMsg, n = <<m, s>>, m.op \in DataLists
          PROVE  InPairs(n, TokenPairs)
      <3>1. ~Token(m)
        BY <2>2, TokenText
      <3>2. <<m, s>> \in TokenPairs
        BY <1>1, <3>1, InOrderPairs
      <3> QED
        BY <2>2, <3>2, PairsFew
    <2> QED
      BY <1>1, <2>1, <2>2
  <1>6. \A k \in Items(n) : k # Text => Expected(k)'
    BY <1>3 DEF Expected
  <1> QED
    BY <1>1, <1>2, <1>4, <1>5, <1>6, WritesSingle

LEMMA BlockSingle ==
    ASSUME SignonTypes, Single, NEW y, NEW n, NEW m, BlockOnly(y, n, m)
    PROVE  Single'
  <1>1. /\ Taken(y) /\ level' = level /\ sstate' = sstate /\ servercount = level
        /\ m \in ServerMsg /\ Items(n) = {m} /\ (\A R : InPairs(n, R)) /\ WritesAnswers(n)
    BY DEF BlockOnly
  <1>2. Requests' = {} /\ RequestCount' = 0 /\ Silent /\ sstate # "spawned"
    BY <1>1, TakenSingle
  <1>3. servercount' = level'
    BY <1>1, TakenTakes DEF ClientWaits
  <1>4. InPairs(n, TokenPairs) /\ sstate' # "spawned"
    BY <1>1, <1>2
  <1>5. \A k \in Items(n) : k # Text => Expected(k)'
    BY <1>3 DEF Expected
  <1> QED
    BY <1>1, <1>2, <1>4, <1>5, WritesSingle

LEMMA ChangeLevelSingle ==
    ASSUME SignonTypes, Single, NEW n, Told(n, Reconnect), sstate = "spawned",
           sstate' # "spawned"
    PROVE  Single'
  <1>1. /\ Items(n) = {Reconnect} /\ (\A R : InPairs(n, R)) /\ WritesAnswers(n)
        /\ Requests' = Requests /\ RequestCount' = RequestCount
    BY DEF Told
  <1>2. Silent /\ Requests = {}
    BY DEF Single
  <1>3. RequestCount' = 0
    BY <1>1, <1>2, SaidAndAsked
  <1>4. Reconnect \in ServerMsg /\ Expected(Reconnect)'
    BY MessagesTold DEF Expected, Restarts
  <1>5. InPairs(n, TokenPairs)
    BY <1>1
  <1> QED
    BY <1>1, <1>2, <1>3, <1>4, <1>5, WritesSingle

LEMMA BroadcastSingle ==
    ASSUME SignonTypes, Single, NEW n, Told(n, Text), level' = level, sstate' = sstate
    PROVE  Single'
  <1>1. /\ Items(n) = {Text} /\ (\A R : InPairs(n, R)) /\ WritesAnswers(n)
        /\ Requests' = Requests /\ RequestCount' = RequestCount /\ ClientWaits
    BY DEF Told
  <1>2. servercount' = servercount
    BY <1>1 DEF ClientWaits
  <1>3. Answers' \subseteq Answers \cup {Text}
    BY <1>1 DEF WritesAnswers
  <1>4. Silent => Silent'
    BY <1>3 DEF Silent
  <1>5. Text \in ServerMsg /\ ~Token(Text)
    BY MessagesTold, TokenText
  <1>6. Answers \subseteq ServerMsg /\ Items(back) \subseteq Answers
    BY SaidAndAsked DEF Answers
  <1>7. Follow(stuffed', cIn', toClient', msg', back', TokenPairs)
    <2>1. Follow(stuffed, cIn, toClient, msg, back, TokenPairs)
      BY DEF Single, AnswersFollow
    <2>2. \A x \in Answers : <<x, Text>> \in TokenPairs /\ <<Text, x>> \in TokenPairs
      BY <1>5, <1>6, InOrderPairs
    <2> QED
      BY <1>1, <1>6, <2>1, <2>2 DEF WritesAnswers
  <1>8. \A x \in Answers' : x # Text => Expected(x)'
    <2>1. \A x \in Answers : x # Text => Expected(x)
      BY DEF Single, Expected
    <2> QED
      BY <1>2, <1>3, <2>1 DEF Expected
  <1> QED
    BY <1>1, <1>2, <1>4, <1>7, <1>8 DEF Single, AnswersFollow, Expected

-----------------------------------------------------------------------------
(* What the server answers fits.                                           *)

LEMMA BesideParts ==
    ASSUME NEW A
    PROVE  /\ Beside(A) \in Nat
           /\ A \subseteq {Text} => Beside(A) = 0
           /\ \A x \in A : Token(x) \/ x.op \in DataLists => 1 <= Beside(A)
           /\ \A x, y \in A : Token(x) /\ y.op \in DataLists => 2 <= Beside(A)
  <1> DEFINE t == \E x \in A : Token(x)
             d == \E x \in A : x.op \in DataLists
  <1>1. Beside(A) = (IF t THEN 1 ELSE 0) + (IF d THEN 1 ELSE 0)
    BY DEF Beside
  <1>2. A \subseteq {Text} => ~t /\ ~d
    BY TokenText DEF Text, DataLists
  <1>3. \A x \in A : Token(x) \/ x.op \in DataLists => t \/ d
    OBVIOUS
  <1>4. \A x, y \in A : Token(x) /\ y.op \in DataLists => t /\ d
    OBVIOUS
  <1> HIDE DEF t, d
  <1>5. /\ Beside(A) \in Nat /\ (~t /\ ~d => Beside(A) = 0)
        /\ t \/ d => 1 <= Beside(A)
        /\ t /\ d => 2 <= Beside(A)
    BY <1>1
  <1> QED
    BY <1>2, <1>3, <1>4, <1>5

LEMMA BesideLess ==
    ASSUME NEW A, NEW B, NEW x, A = {x} \cup B
    PROVE  Beside(A) <= Beside(B) + 1
  <1> DEFINE t == \E z \in A : Token(z)
             d == \E z \in A : z.op \in DataLists
             tb == \E z \in B : Token(z)
             db == \E z \in B : z.op \in DataLists
  <1>1. /\ Beside(A) = (IF t THEN 1 ELSE 0) + (IF d THEN 1 ELSE 0)
        /\ Beside(B) = (IF tb THEN 1 ELSE 0) + (IF db THEN 1 ELSE 0)
    BY DEF Beside
  <1>2. ~Token(x) \/ x.op \notin DataLists
    BY TokenText
  <1>3. (t => tb \/ Token(x)) /\ (d => db \/ x.op \in DataLists)
    OBVIOUS
  <1>4. (t => tb) \/ (d => db)
    BY <1>2, <1>3
  <1> HIDE DEF t, d, tb, db
  <1> QED
    BY <1>1, <1>4

LEMMA BesideMore ==
    ASSUME NEW A, NEW B, A \subseteq B
    PROVE  Beside(A) <= Beside(B)
  <1> DEFINE t == \E z \in A : Token(z)
             d == \E z \in A : z.op \in DataLists
             tb == \E z \in B : Token(z)
             db == \E z \in B : z.op \in DataLists
  <1>1. /\ Beside(A) = (IF t THEN 1 ELSE 0) + (IF d THEN 1 ELSE 0)
        /\ Beside(B) = (IF tb THEN 1 ELSE 0) + (IF db THEN 1 ELSE 0)
    BY DEF Beside
  <1>2. (t => tb) /\ (d => db)
    OBVIOUS
  <1> HIDE DEF t, d, tb, db
  <1> QED
    BY <1>1, <1>2

LEMMA SizesParts ==
    Sizes <=> /\ Follow(stuffed, cIn, toClient, msg, back, DataPairs)
              /\ AnswerCount <= (MaxPrints - prints) + Beside(Answers)
              /\ Fine(Answers, Requests)
              /\ sstate \notin {"dropped: overflow", "dropped: map"}
  BY DEF Sizes, AnswersFollow, Fine

LEMMA SizesFrom ==
    ASSUME Follow(stuffed', cIn', toClient', msg', back', DataPairs),
           AnswerCount' <= (MaxPrints - prints') + Beside(Answers'),
           Fine(Answers', Requests'),
           sstate' \notin {"dropped: overflow", "dropped: map"}
    PROVE  Sizes'
  BY DEF Sizes, AnswersFollow, Fine

LEMMA PrintsLeft ==
    ASSUME SignonTypes
    PROVE  /\ prints \in Nat /\ MaxPrints - prints \in Nat
           /\ Quiet => MaxPrints - prints <= 2
  <1>1. prints \in 0..MaxPrints /\ MaxPrints \in Nat
    BY SignonNaturals DEF SignonTypes, Limits
  <1>2. Quiet => prints + 2 >= MaxPrints
    BY DEF Quiet, Calm
  <1> QED
    BY <1>1, <1>2

LEMMA TextsSmall ==
    ASSUME SignonTypes, Quiet, Sizes, Silent
    PROVE  Size(Cleared) < Half /\ Size(Cleared) + BufferSize <= Room
  <1>1. AnswerCount <= MaxPrints - prints
    <2>1. Beside(Answers) = 0
      BY BesideParts DEF Silent
    <2>2. AnswerCount <= (MaxPrints - prints) + Beside(Answers)
      BY SizesParts
    <2> QED
      BY <2>1, <2>2, PrintsLeft
  <1>2. Packets
    BY DEF SignonTypes
  <1>3. Len(msg) <= 2
    <2>1. /\ Len(stuffed) \in Nat /\ Len(cIn) \in Nat /\ Len(toClient) \in Nat
          /\ Len(msg) \in Nat /\ Len(back) \in Nat
      BY <1>2, LenProperties DEF Packets
    <2>2. AnswerCount <= 2 /\ AnswerCount \in Nat
      BY <1>1, <2>1, PrintsLeft DEF AnswerCount
    <2> QED
      BY <2>1, <2>2 DEF AnswerCount
  <1>4. Cleared \in {<<>>, msg} /\ Cleared \in Seq(ServerMsg)
    BY ClearedSize
  <1>5. Items(Cleared) \subseteq {Text}
    BY <1>4, ItemsFew DEF Silent, Answers
  <1>6. Len(Cleared) <= 2
    BY <1>3, <1>4, NothingThere
  <1>7. Size(Cleared) = Len(Cleared) /\ Size(Cleared) \in Nat
    BY <1>4, <1>5, ClearedSize, SizeOfTexts
  <1>8. Size(Cleared) <= 2
    BY <1>6, <1>7
  <1>9. Half >= 3 /\ BufferSize + 2 <= Room
    BY SignonNaturals DEF Quiet, RoomForTexts
  <1> DEFINE z == Size(Cleared)
  <1>10. z \in Nat /\ z <= 2
    BY <1>7, <1>8
  <1> HIDE DEF z
  <1>11. z < Half /\ z + BufferSize <= Room
    BY <1>9, <1>10, SignonNaturals
  <1> QED
    BY <1>11 DEF z

LEMMA CountsAdd ==
    ASSUME NEW c \in Nat, NEW d \in Nat, NEW p \in Nat, NEW b \in Nat, NEW e \in Nat,
           c <= p + b
    PROVE  /\ c = d + 1 /\ b <= e + 1 => d <= p + e
           /\ d <= c + 1 /\ b <= e => d <= (p + 1) + e
           /\ \A k \in Nat : d <= c + k /\ b = 0 /\ k <= e => d <= p + e
  OBVIOUS

LEMMA ReadsSizes ==
    ASSUME SignonTypes, Sizes, NEW x, NEW r, Reads(x, r)
    PROVE  Sizes'
  <1>1. /\ TakesAnswer(x) /\ MakesRequest(r) /\ SameServer /\ SameRegime
        /\ \A q \in Items(r) : Reply(x, q)
    BY ReadsBoth
  <1>2. sstate' = sstate /\ prints' = prints
    BY <1>1 DEF SameServer, SameRegime
  <1>3. x \in Answers /\ Answers = {x} \cup Answers' /\ AnswerCount = AnswerCount' + 1 /\ AnswerCount' \in Nat
    BY <1>1 DEF TakesAnswer
  <1>4. Requests' = Requests \cup Items(r)
    BY <1>1 DEF MakesRequest
  <1>5. /\ Follow(stuffed, cIn, toClient, msg, back, DataPairs)
        /\ AnswerCount <= (MaxPrints - prints) + Beside(Answers)
        /\ Fine(Answers, Requests)
        /\ sstate \notin {"dropped: overflow", "dropped: map"}
    BY SizesParts
  <1>6. Follow(stuffed', cIn', toClient', msg', back', DataPairs)
    BY <1>1, <1>5 DEF TakesAnswer
  <1>7. AnswerCount' <= (MaxPrints - prints') + Beside(Answers')
    <2>1. Beside(Answers) <= Beside(Answers') + 1
      BY <1>3, BesideLess
    <2>2. Beside(Answers) \in Nat /\ Beside(Answers') \in Nat
      BY BesideParts
    <2>3. AnswerCount \in Nat /\ MaxPrints - prints \in Nat
      <3>1. \A k \in Nat : k + 1 \in Nat
        OBVIOUS
      <3>2. AnswerCount \in Nat
        BY Zenon, <1>3, <3>1
      <3> QED
        BY Zenon, <3>2, PrintsLeft
    <2>4. AnswerCount' <= (MaxPrints - prints) + Beside(Answers')
      BY <1>3, <1>5, <2>1, <2>2, <2>3, CountsAdd
    <2> QED
      BY <1>2, <2>4
  <1>8. Fine(Answers', Requests')
    <2>1. ~(x.op = "stuff" /\ x.cmd = "prespawn" /\ x.n = 0)
      <3>1. x.op = "stuff" /\ x.cmd = "prespawn" => x.n > 0
        BY <1>3, <1>5 DEF Fine
      <3>2. x.n > 0 => x.n # 0
        OBVIOUS
      <3> QED
        BY <3>1, <3>2
    <2>2. \A q \in Items(r) : q.cmd = "prespawn" /\ q.n = 0 => q.sum
      BY <1>1, <2>1 DEF Reply
    <2> QED
      BY <1>3, <1>4, <1>5, <2>2 DEF Fine
  <1> QED
    BY <1>2, <1>5, <1>6, <1>7, <1>8, SizesFrom

LEMMA RenewedSizes ==
    ASSUME SignonTypes, Sizes, NEW x, NEW q, Renewed(x, q)
    PROVE  Sizes'
  <1>1. /\ TakesAnswer(x) /\ AsksOnly(q) /\ SameServer
        /\ SameRegime
    BY RenewedBoth
  <1>2. sstate' = sstate /\ prints' = prints
    BY <1>1 DEF SameServer, SameRegime
  <1>3. Answers = {x} \cup Answers' /\ AnswerCount = AnswerCount' + 1 /\ AnswerCount' \in Nat
    BY <1>1 DEF TakesAnswer
  <1>4. Requests' \subseteq Requests \cup {q} /\ q.cmd = "soundlist"
    BY <1>1 DEF AsksOnly, Renewed
  <1>5. /\ Follow(stuffed, cIn, toClient, msg, back, DataPairs)
        /\ AnswerCount <= (MaxPrints - prints) + Beside(Answers)
        /\ Fine(Answers, Requests)
        /\ sstate \notin {"dropped: overflow", "dropped: map"}
    BY SizesParts
  <1>6. Follow(stuffed', cIn', toClient', msg', back', DataPairs)
    BY <1>1, <1>5 DEF TakesAnswer
  <1>7. AnswerCount' <= (MaxPrints - prints') + Beside(Answers')
    <2>1. Beside(Answers) <= Beside(Answers') + 1
      BY <1>3, BesideLess
    <2>2. Beside(Answers) \in Nat /\ Beside(Answers') \in Nat
      BY BesideParts
    <2>3. AnswerCount \in Nat /\ MaxPrints - prints \in Nat
      <3>1. \A k \in Nat : k + 1 \in Nat
        OBVIOUS
      <3>2. AnswerCount \in Nat
        BY Zenon, <1>3, <3>1
      <3> QED
        BY Zenon, <3>2, PrintsLeft
    <2>4. AnswerCount' <= (MaxPrints - prints) + Beside(Answers')
      BY <1>3, <1>5, <2>1, <2>2, <2>3, CountsAdd
    <2> QED
      BY <1>2, <2>4
  <1>8. Fine(Answers', Requests')
    BY <1>3, <1>4, <1>5 DEF Fine
  <1> QED
    BY <1>2, <1>5, <1>6, <1>7, <1>8, SizesFrom

LEMMA MovedSizes ==
    ASSUME SignonTypes, Sizes, Moved
    PROVE  Sizes'
  <1>1. /\ Answers' = Answers /\ Requests' = Requests /\ AnswerCount' = AnswerCount
        /\ \A R : AnswersFollow(R) => AnswersFollow(R)'
        /\ sstate' = sstate /\ prints' = prints
    BY DEF Moved, limits
  <1>2. Follow(stuffed', cIn', toClient', msg', back', DataPairs)
    <2> DEFINE R == DataPairs
    <2>1. AnswersFollow(R)
      BY DEF Sizes
    <2> HIDE DEF R
    <2>2. Follow(stuffed', cIn', toClient', msg', back', R)
      BY <1>1, <2>1 DEF AnswersFollow
    <2> QED
      BY <2>2 DEF R
  <1>3. /\ AnswerCount <= (MaxPrints - prints) + Beside(Answers)
        /\ Fine(Answers, Requests)
        /\ sstate \notin {"dropped: overflow", "dropped: map"}
    BY SizesParts
  <1> QED
    BY <1>1, <1>2, <1>3, SizesFrom

-----------------------------------------------------------------------------
(* What the server answers fits, when it acts.                             *)

LEMMA WritesSizes ==
    ASSUME SignonTypes, Sizes, Silent, NEW n, WritesAnswers(n), prints' = prints,
           Len(n) \in Nat, Len(n) <= Beside(Answers'), InPairs(n, DataPairs),
           Items(n) \subseteq ServerMsg, Fine(Items(n), {}), Requests' \subseteq Requests,
           sstate' \notin {"dropped: overflow", "dropped: map"}
    PROVE  Sizes'
  <1>1. \A x \in Answers : x = Text
    BY DEF Silent
  <1>2. Text \in ServerMsg /\ Text.op \notin DataLists
    BY MessagesTold DEF DataLists
  <1>3. Answers' \subseteq Answers \cup Items(n) /\ Items(back) \subseteq Answers
    BY DEF WritesAnswers, Answers
  <1>4. /\ Follow(stuffed, cIn, toClient, msg, back, DataPairs)
        /\ AnswerCount <= (MaxPrints - prints) + Beside(Answers)
        /\ Fine(Answers, Requests)
    BY SizesParts
  <1>5. Follow(stuffed', cIn', toClient', msg', back', DataPairs)
    <2>1. \A x \in Answers : \A k \in Items(n) : <<x, k>> \in DataPairs /\ <<k, x>> \in DataPairs
      BY <1>1, <1>2 DEF DataPairs
    <2> QED
      BY <1>3, <1>4, <2>1 DEF WritesAnswers
  <1>6. AnswerCount' <= (MaxPrints - prints') + Beside(Answers')
    <2>1. Beside(Answers) = 0 /\ Beside(Answers') \in Nat
      BY BesideParts DEF Silent
    <2>2. AnswerCount' <= AnswerCount + Len(n) /\ AnswerCount \in Nat /\ AnswerCount' \in Nat
      BY DEF WritesAnswers
    <2>3. MaxPrints - prints \in Nat
      BY PrintsLeft
    <2>4. AnswerCount' <= (MaxPrints - prints) + Beside(Answers')
      <3>1. Beside(Answers) \in Nat
        BY BesideParts
      <3> QED
        BY <1>4, <2>1, <2>2, <2>3, <3>1, CountsAdd
    <2> QED
      BY <2>4
  <1>7. Fine(Answers', Requests')
    BY <1>3, <1>4 DEF Fine
  <1> QED
    BY <1>5, <1>6, <1>7, SizesFrom

LEMMA DropsSizes ==
    ASSUME SignonTypes, Quiet, Single, Sizes, NEW y, Drops(y)
    PROVE  Sizes'
  <1>1. /\ Taken(y) /\ msg' = msg /\ back' = back
        /\ \/ sstate' = sstate
           \/ sstate' = "spawned" /\ y.cmd = "begin" /\ y.level = level
           \/ /\ y.cmd = "prespawn" /\ y.level = level
              /\ \/ sstate' = "dropped: map" /\ y.n = 0 /\ ~y.sum
                 \/ sstate' = "dropped: overflow" /\ Size(Cleared) + BufferSize > Room
    BY DEF Drops
  <1>2. Requests' = {} /\ Silent /\ y \in Requests
    BY <1>1, TakenSingle
  <1>3. /\ stuffed' = stuffed /\ cIn' = cIn /\ toClient' = toClient /\ prints' = prints
    BY <1>1, TakenTakes DEF ClientWaits, SameLimits
  <1>4. Answers' = Answers /\ AnswerCount' = AnswerCount
    BY <1>1, <1>3 DEF Answers, AnswerCount
  <1>5. /\ Follow(stuffed, cIn, toClient, msg, back, DataPairs)
        /\ AnswerCount <= (MaxPrints - prints) + Beside(Answers)
        /\ Fine(Answers, Requests)
        /\ sstate \notin {"dropped: overflow", "dropped: map"}
    BY SizesParts
  <1>6. Follow(stuffed', cIn', toClient', msg', back', DataPairs)
    BY <1>1, <1>3, <1>5
  <1>7. sstate' \notin {"dropped: overflow", "dropped: map"}
    <2>1. ~(y.cmd = "prespawn" /\ y.n = 0 /\ ~y.sum)
      BY <1>2, <1>5 DEF Fine
    <2>2. ~(Size(Cleared) + BufferSize > Room)
      <3> DEFINE z == Size(Cleared)
      <3>1. z \in Nat /\ z + BufferSize <= Room
        BY <1>2, TextsSmall, ClearedSize
      <3> HIDE DEF z
      <3>2. ~(z + BufferSize > Room)
        BY <3>1, SignonNaturals
      <3> QED
        BY <3>2 DEF z
    <2> QED
      BY <1>1, <1>5, <2>1, <2>2
  <1>8. Fine(Answers', Requests')
    BY <1>2, <1>4, <1>5 DEF Fine
  <1>9. AnswerCount' <= (MaxPrints - prints') + Beside(Answers')
    BY <1>3, <1>4, <1>5
  <1> QED
    BY <1>6, <1>7, <1>8, <1>9, SizesFrom

LEMMA StartsOverSizes ==
    ASSUME SignonTypes, Single, Sizes, NEW y, StartsOver(y)
    PROVE  Sizes'
  <1>1. Taken(y)
    BY DEF StartsOver
  <1>2. PICK m \in ServerMsg, n \in Seq(ServerMsg) :
          /\ Items(n) = {m} /\ Len(n) = 1 /\ (\A R : InPairs(n, R)) /\ WritesAnswers(n)
          /\ \/ m = ServerData /\ sstate' = "connected"
             \/ m.op = "stuff" /\ m.cmd \in {"pext", "new"} /\ sstate' = sstate
    BY StartsOverWrites
  <1>3. Requests' = {} /\ Silent
    BY <1>1, TakenSingle
  <1>4. m.op = "serverdata" \/ (m.op = "stuff" /\ m.cmd \in {"pext", "new"})
    BY <1>2 DEF ServerData
  <1>5. Token(m) /\ m \in Answers'
    BY <1>2, <1>4, TokenText DEF WritesAnswers
  <1>6. Len(n) <= Beside(Answers')
    <2>1. 1 <= Beside(Answers')
      BY <1>5, BesideParts
    <2> QED
      BY <1>2, <2>1
  <1>7. Fine(Items(n), {})
    BY <1>2, <1>4 DEF Fine
  <1>8. sstate' \notin {"dropped: overflow", "dropped: map"}
    BY <1>2, SizesParts
  <1>9. prints' = prints
    BY <1>1, TakenTakes DEF SameLimits
  <1>10. InPairs(n, DataPairs) /\ Len(n) \in Nat /\ Items(n) \subseteq ServerMsg
    BY <1>2
  <1> QED
    BY <1>2, <1>3, <1>6, <1>7, <1>8, <1>9, <1>10, WritesSizes

LEMMA AnsweredSizes ==
    ASSUME SignonTypes, Quiet, Single, Sizes, NEW y, NEW n, NEW m, Answered(y, n, m)
    PROVE  Sizes'
  <1>1. /\ Taken(y) /\ sstate' = "connected" /\ WritesAnswers(n)
        /\ m \in ServerMsg /\ m.op \in Lists
        /\ m.op = "sounds" /\ Size(Cleared) < Half /\ m.next = 0 => m.upto = Sounds
        /\ \/ n = <<m>> /\ Items(n) = {m} /\ Len(n) = 1
           \/ \E s \in ServerMsg :
                /\ n = <<m, s>> /\ Items(n) = {m, s} /\ Len(n) = 2
                /\ m.op \in DataLists /\ s.op = "stuff"
                /\ Size(Cleared) < Half /\ s.cmd = "prespawn" => s.n > 0
    BY DEF Answered
  <1>2. Requests' = {} /\ Silent
    BY <1>1, TakenSingle
  <1>3. Size(Cleared) < Half
    BY <1>2, TextsSmall
  <1>4. prints' = prints
    BY <1>1, TakenTakes DEF SameLimits
  <1>5. Items(n) \subseteq Answers'
    BY <1>1 DEF WritesAnswers
  <1>6. CASE n = <<m>> /\ Items(n) = {m} /\ Len(n) = 1
    <2>1. Token(m) \/ m.op \in DataLists
      BY <1>1, TokenText DEF Lists, DataLists
    <2>2. 1 <= Beside(Answers')
      BY <1>5, <1>6, <2>1, BesideParts
    <2>3. Len(n) <= Beside(Answers') /\ Len(n) \in Nat
      BY <1>6, <2>2
    <2>4. m.op # "stuff"
      BY <1>1 DEF Lists
    <2>5. Fine(Items(n), {})
      BY <1>1, <1>3, <1>6, <2>4 DEF Fine
    <2>6. InPairs(n, DataPairs) /\ Items(n) \subseteq ServerMsg
      BY <1>1, <1>6, PairsFew
    <2> QED
      BY <1>1, <1>2, <1>4, <2>3, <2>5, <2>6, WritesSizes
  <1>7. ASSUME NEW s \in ServerMsg, n = <<m, s>>, Items(n) = {m, s}, Len(n) = 2,
               m.op \in DataLists, s.op = "stuff",
               Size(Cleared) < Half /\ s.cmd = "prespawn" => s.n > 0
        PROVE  Sizes'
    <2>1. Token(s)
      BY <1>7, TokenText
    <2>2. 2 <= Beside(Answers')
      BY <1>5, <1>7, <2>1, BesideParts
    <2>3. Len(n) <= Beside(Answers') /\ Len(n) \in Nat
      BY <1>7, <2>2
    <2>4. m.op # "stuff" /\ m.op # "sounds" /\ s.op \notin DataLists
      BY <1>7 DEF DataLists
    <2>5. Fine(Items(n), {})
      BY <1>3, <1>7, <2>4 DEF Fine
    <2>6. <<m, s>> \in DataPairs
      BY <1>1, <2>4, InOrderPairs
    <2>7. InPairs(n, DataPairs) /\ Items(n) \subseteq ServerMsg
      BY <1>1, <1>7, <2>6, PairsFew
    <2> QED
      BY <1>1, <1>2, <1>4, <2>3, <2>5, <2>7, WritesSizes
  <1> QED
    BY <1>1, <1>6, <1>7

LEMMA BlockSizes ==
    ASSUME SignonTypes, Sizes, NEW y, NEW n, NEW m, BlockOnly(y, n, m)
    PROVE  Sizes'
  <1>1. /\ Taken(y) /\ sstate' = sstate /\ Silent /\ Requests' = {}
        /\ m \in ServerMsg /\ m.op = "download" /\ Items(n) = {m} /\ Len(n) = 1
        /\ (\A R : InPairs(n, R)) /\ WritesAnswers(n)
    BY DEF BlockOnly
  <1>2. Token(m) /\ m \in Answers'
    BY <1>1, TokenText DEF WritesAnswers
  <1>3. Len(n) <= Beside(Answers') /\ Len(n) \in Nat
    <2>1. 1 <= Beside(Answers')
      BY <1>2, BesideParts
    <2> QED
      BY <1>1, <2>1
  <1>4. Fine(Items(n), {})
    BY <1>1 DEF Fine
  <1>5. prints' = prints
    BY <1>1, TakenTakes DEF SameLimits
  <1>6. sstate' \notin {"dropped: overflow", "dropped: map"}
    BY <1>1, SizesParts
  <1>7. InPairs(n, DataPairs)
    BY <1>1
  <1> QED
    BY <1>1, <1>3, <1>4, <1>5, <1>6, <1>7, WritesSizes

LEMMA ChangeLevelSizes ==
    ASSUME SignonTypes, Single, Sizes, NEW n, Told(n, Reconnect), sstate = "spawned",
           sstate' \in {sstate, "connected"}, prints' = prints
    PROVE  Sizes'
  <1>1. /\ Items(n) = {Reconnect} /\ Len(n) = 1 /\ (\A R : InPairs(n, R)) /\ WritesAnswers(n)
        /\ Requests' = Requests
    BY DEF Told
  <1>2. Silent
    BY DEF Single
  <1>3. Reconnect \in ServerMsg /\ Reconnect.op = "stuff" /\ Reconnect.cmd # "prespawn"
    BY MessagesTold
  <1>4. Token(Reconnect) /\ Reconnect \in Answers'
    BY <1>1, <1>3, TokenText DEF WritesAnswers
  <1>5. Len(n) <= Beside(Answers') /\ Len(n) \in Nat
    <2>1. 1 <= Beside(Answers')
      BY <1>4, BesideParts
    <2> QED
      BY <1>1, <2>1
  <1>6. Fine(Items(n), {})
    BY <1>1, <1>3 DEF Fine
  <1>7. InPairs(n, DataPairs)
    BY <1>1
  <1> QED
    BY <1>1, <1>2, <1>3, <1>5, <1>6, <1>7, WritesSizes

LEMMA BroadcastSizes ==
    ASSUME SignonTypes, Sizes, NEW n, Told(n, Text), sstate' = sstate,
           prints > 0, prints' = prints - 1
    PROVE  Sizes'
  <1>1. /\ Items(n) = {Text} /\ Len(n) = 1 /\ (\A R : InPairs(n, R)) /\ WritesAnswers(n)
        /\ Requests' = Requests /\ ClientWaits
        /\ Items(msg) \subseteq Items(msg') /\ Items(back) \subseteq Items(back')
    BY DEF Told
  <1>2. Answers' \subseteq Answers \cup {Text}
    BY <1>1 DEF WritesAnswers
  <1>3. Answers \subseteq Answers'
    BY <1>1 DEF Answers, ClientWaits
  <1>4. /\ Follow(stuffed, cIn, toClient, msg, back, DataPairs)
        /\ AnswerCount <= (MaxPrints - prints) + Beside(Answers)
        /\ Fine(Answers, Requests)
        /\ sstate \notin {"dropped: overflow", "dropped: map"}
    BY SizesParts
  <1>5. Text \in ServerMsg /\ Text.op \notin DataLists /\ Text.op = "text"
    BY MessagesTold DEF DataLists
  <1>6. Answers \subseteq ServerMsg /\ Items(back) \subseteq Answers
    BY SaidAndAsked DEF Answers
  <1>7. Follow(stuffed', cIn', toClient', msg', back', DataPairs)
    <2>1. \A x \in Answers : <<x, Text>> \in DataPairs /\ <<Text, x>> \in DataPairs
      BY <1>5, <1>6, InOrderPairs
    <2> QED
      BY <1>1, <1>4, <1>6, <2>1 DEF WritesAnswers
  <1>8. AnswerCount' <= (MaxPrints - prints') + Beside(Answers')
    <2>1. AnswerCount' <= AnswerCount + 1 /\ AnswerCount \in Nat /\ AnswerCount' \in Nat
      BY <1>1 DEF WritesAnswers
    <2>2. Beside(Answers) <= Beside(Answers') /\ Beside(Answers) \in Nat
          /\ Beside(Answers') \in Nat
      BY <1>3, BesideMore, BesideParts
    <2>3. MaxPrints - prints' = (MaxPrints - prints) + 1 /\ MaxPrints - prints \in Nat
      BY PrintsLeft, SignonNaturals
    <2>4. AnswerCount' <= ((MaxPrints - prints) + 1) + Beside(Answers')
      BY <1>4, <2>1, <2>2, <2>3, CountsAdd
    <2> QED
      BY <2>3, <2>4
  <1>9. Fine(Answers', Requests')
    BY <1>1, <1>2, <1>4, <1>5 DEF Fine
  <1> QED
    BY <1>4, <1>7, <1>8, <1>9, SizesFrom

-----------------------------------------------------------------------------
(* The invariant holds at the start.                                       *)

LEMMA RequestedNew ==
    LET q == Cmd("new", 0, 0, FALSE)
    IN  q \in ClientCmd /\ q.cmd = "new" /\ <<q>> \in Seq(ClientCmd) /\ Items(<<q>>) = {q}
        /\ Len(<<q>>) = 1
  <1> DEFINE q == Cmd("new", 0, 0, FALSE)
  <1>1. q \in ClientCmd /\ q.cmd = "new"
    <2>1. "new" \in CommandNames /\ 0 \in Nat /\ FALSE \in BOOLEAN
      BY DEF CommandNames
    <2> QED
      BY <2>1, CommandFields
  <1> HIDE DEF q
  <1>2. <<q>> \in Seq(ClientCmd) /\ Items(<<q>>) = {q} /\ Len(<<q>>) = 1
    BY <1>1, OneRequest, ItemsFew
  <1> QED
    BY <1>1, <1>2 DEF q

LEMMA ConnectingAsks ==
    ASSUME Connecting
    PROVE  /\ Answers = {} /\ AnswerCount = 0
           /\ \E q \in ClientCmd : q.cmd = "new" /\ Requests = {q} /\ RequestCount = 1
           /\ \A R : AnswersFollow(R) /\ RequestsFollow(R)
           /\ Packets
  <1> DEFINE q == Cmd("new", 0, 0, FALSE)
  <1>1. /\ q \in ClientCmd /\ q.cmd = "new" /\ <<q>> \in Seq(ClientCmd) /\ Items(<<q>>) = {q}
        /\ Len(<<q>>) = 1
    BY RequestedNew
  <1>2. /\ stuffed = <<>> /\ cIn = <<>> /\ toClient = <<>> /\ msg = <<>> /\ back = <<>>
        /\ sIn = <<>> /\ toServer = <<>> /\ cOut = <<q>>
    BY DEF Connecting
  <1> HIDE DEF q
  <1>3. Packets
    BY <1>1, <1>2, NothingThere DEF Packets
  <1>4. Answers = {} /\ AnswerCount = 0
    BY <1>2, NothingThere DEF Answers, AnswerCount
  <1>5. Requests = {q} /\ RequestCount = 1
    BY <1>1, <1>2, NothingThere DEF Requests, RequestCount
  <1>6. \A R : AnswersFollow(R)
    BY <1>2, NothingThere DEF AnswersFollow, Follow
  <1>7. \A R : RequestsFollow(R)
    BY <1>2, NothingThere, PairsFew DEF RequestsFollow
  <1> QED
    BY <1>1, <1>3, <1>4, <1>5, <1>6, <1>7

LEMMA ConnectingTypes ==
    ASSUME Connecting
    PROVE  SignonTypes
  <1>1. SignonTypeOK
    <2>1. /\ level \in 1..MaxLevel /\ scount \in 0..level /\ servercount \in 0..level
          /\ loaded \in 0..servercount
      BY SignonNaturals DEF Connecting
    <2>2. /\ sstate \in {"preconnected", "connected", "spawned", "left", "dropped: map",
                         "dropped: overflow"}
          /\ pext \in BOOLEAN /\ upload \in BOOLEAN /\ midway \in BOOLEAN /\ file \in BOOLEAN
          /\ cstate \in {"disconnected", "connected", "onserver", "active", "failed", "died"}
          /\ dltype \in {"none", "listed", "skin"}
      BY DEF Connecting
    <2>3. \A k \in Lists : names[k] \subseteq (1..level) \X All(k)
      BY DEF Connecting, NoNames
    <2> QED
      BY <2>1, <2>2, <2>3 DEF SignonTypeOK
  <1>2. Limits
    <2>1. names \in [Lists -> SUBSET (Nat \X Nat)]
      BY DEF Connecting, NoNames
    <2>2. /\ prints \in 0..MaxPrints /\ missing \in 0..MaxDownloads
          /\ restarts \in 0..MaxRestarts
      BY SignonNaturals DEF Connecting
    <2> QED
      BY <2>1, <2>2 DEF Limits
  <1>3. Messages
    <2>1. Answers = {} /\ \E q \in ClientCmd : q.cmd = "new" /\ Requests = {q}
      BY ConnectingAsks
    <2>2. \A x \in Requests : RequestOK(x, level)
      BY <2>1 DEF RequestOK, Guarded
    <2>3. Items(stuffed) \subseteq Answers /\ Items(back) \subseteq Answers
      BY DEF Answers
    <2> QED
      BY <2>1, <2>2, <2>3 DEF Messages
  <1> QED
    BY <1>1, <1>2, <1>3, ConnectingAsks DEF SignonTypes

LEMMA ConnectingInv == Connecting => SignonInv
  <1> SUFFICES ASSUME Connecting PROVE SignonInv
    OBVIOUS
  <1>0. servercount # level
    BY SignonNaturals DEF Connecting
  <1>1. /\ sstate = "preconnected" /\ servercount = 0 /\ cstate = "connected"
        /\ stuffed = <<>> /\ cIn = <<>> /\ toClient = <<>> /\ msg = <<>> /\ back = <<>>
    BY DEF Connecting
  <1>2. PICK q \in ClientCmd : q.cmd = "new" /\ Requests = {q} /\ RequestCount = 1
    BY ConnectingAsks
  <1>3. Answers = {} /\ AnswerCount = 0 /\ \A R : AnswersFollow(R) /\ RequestsFollow(R)
    BY ConnectingAsks
  <1>4. Order
    <2>1. InOrder
      BY <1>2, <1>3 DEF InOrder, Guarded
    <2>2. Together
      BY <1>0, <1>1, <1>2, <1>3 DEF Together, Advanced, Guarded
    <2>3. ServerSide
      BY <1>0, <1>1, <1>3 DEF ServerSide, NoServerData
    <2>4. NoTransfers
      BY <1>2, <1>3 DEF NoTransfers, Transfers
    <2> QED
      BY <2>1, <2>2, <2>3, <2>4 DEF Order
  <1>5. Claims
    <2>1. AnswersCovered
      BY <1>1 DEF AnswersCovered, Covered
    <2>2. RequestsCovered
      BY <1>2 DEF RequestsCovered, Transfers, Guarded
    <2> QED
      BY <1>1, <2>1, <2>2 DEF Claims
  <1>6. Single
    BY <1>1, <1>2, <1>3 DEF Single, Silent
  <1>7. Sizes
    <2>1. AnswerCount <= (MaxPrints - prints) + Beside(Answers)
      <3>1. Beside(Answers) = 0
        BY <1>3, BesideParts
      <3>2. MaxPrints - prints \in Nat
        BY ConnectingTypes, PrintsLeft
      <3> QED
        BY <1>3, <3>1, <3>2
    <2>2. Fine(Answers, Requests)
      BY <1>2, <1>3 DEF Fine
    <2>3. Follow(stuffed, cIn, toClient, msg, back, DataPairs)
      BY <1>3 DEF AnswersFollow
    <2> QED
      BY <1>1, <2>1, <2>2, <2>3, SizesParts
  <1> QED
    BY <1>1, <1>4, <1>5, <1>6, <1>7, ConnectingTypes DEF SignonInv, Away, Dropped

LEMMA SignonInitInv == SignonInit => SignonInv
  <1>1. /\ 1 \in 1..MaxLevel /\ MaxPrints \in 0..MaxPrints
        /\ MaxDownloads \in 0..MaxDownloads /\ MaxRestarts \in 0..MaxRestarts
    BY SignonAssumption
  <1>2. SignonInit => Connecting
    BY <1>1 DEF SignonInit, Connecting
  <1> QED
    BY <1>2, ConnectingInv

LEMMA ConnectedInv == Connecting' => SignonInv'
  BY ConnectingInv, PTL

(* A client that left the game connects anew.                              *)
LEMMA DirectConnectKeeps ==
    ASSUME SignonInv, DirectConnect
    PROVE  SignonInv'
  <1>1. SignonTypes /\ Left
    BY DEF SignonInv, DirectConnect, Away
  <1>2. /\ toClient' = <<>> /\ msg' = <<>> /\ back' = <<>> /\ sIn' = <<>> /\ toServer' = <<>>
        /\ cOut' = Append(<<>>, Cmd("new", 0, 0, FALSE)) /\ file' = FALSE /\ upload' = FALSE
        /\ dltype' = "none" /\ stuffed' = <<>> /\ cIn' = <<>>
    BY <1>1 DEF DirectConnect, Left, Between, AskNew, inFlight
  <1>3. cOut' = <<Cmd("new", 0, 0, FALSE)>>
    BY <1>2
  <1>4. /\ level' \in 1..MaxLevel /\ sstate' = "preconnected" /\ scount' = 0
        /\ pext' \in BOOLEAN /\ cstate' = "connected" /\ servercount' = 0
        /\ names' = NoNames /\ loaded' = 0
    BY <1>1 DEF DirectConnect, SignonTypes, SignonTypeOK
  <1>5. /\ prints' \in 0..MaxPrints /\ missing' \in 0..MaxDownloads
        /\ restarts' \in 0..MaxRestarts /\ midway' \in BOOLEAN
    BY <1>1 DEF DirectConnect, SignonTypes, SignonTypeOK, Limits, limits
  <1>6. Connecting'
    BY <1>2, <1>3, <1>4, <1>5 DEF Connecting
  <1> QED
    BY <1>6, ConnectedInv

-----------------------------------------------------------------------------
(* The client leaves the game, and is away.                                *)

LEMMA AwayFrom ==
    ASSUME SignonTypes', Away', Left', Quiet' => ~Dropped'
    PROVE  SignonInv'
  BY DEF SignonInv

(* Host_EndGame: of what was stuffed only texts can stand behind a         *)
(* "reconnect" while nothing disturbs the exchange, and they are gone.     *)
LEMMA LeavesQuietly ==
    ASSUME SignonInv, ReconnectAnew, Undisturbed
    PROVE  stuffed' = <<>> /\ cIn = <<>>
  <1> DEFINE x == Head(stuffed)
  <1>1. Executes({"reconnect"})
    BY DEF ReconnectAnew, Reconnect_f
  <1>2. /\ Packets /\ Messages
    BY DEF SignonInv, SignonTypes
  <1>3. stuffed # <<>> /\ stuffed' = Tail(stuffed) /\ x.cmd = "reconnect"
        /\ (cIn # <<>> => Head(cIn).op = "serverdata")
    BY <1>1 DEF Executes
  <1>4. Single
    BY <1>3 DEF SignonInv, Left
  <1>5. stuffed \in Seq(ServerMsg) /\ cIn \in Seq(ServerMsg)
    BY <1>2 DEF Packets
  <1>6. /\ x \in ServerMsg /\ stuffed' \in Seq(ServerMsg) /\ stuffed = <<x>> \o stuffed'
        /\ Items(stuffed) = {x} \cup Items(stuffed')
    BY <1>3, <1>5, HeadFirst
  <1>7. x.op = "stuff" /\ \A z \in Items(stuffed') : z.op = "stuff"
    BY <1>2, <1>6 DEF Messages
  <1> HIDE DEF x
  <1>8. Token(x)
    BY <1>7, TokenText
  <1>9. /\ \A z \in Items(stuffed') : <<x, z>> \in TokenPairs
        /\ \A z \in Items(cIn) : <<x, z>> \in TokenPairs
    <2>1. InPairs(stuffed, TokenPairs) /\ Ahead(stuffed, cIn, TokenPairs)
      BY <1>4 DEF Single, AnswersFollow, Follow
    <2>2. \A z \in Items(stuffed') : <<x, z>> \in TokenPairs
      BY <1>6, <2>1, OneFirst
    <2> QED
      BY <1>6, <2>1, <2>2 DEF Ahead
  <1>10. \A z : <<x, z>> \in TokenPairs => z.op = "text"
    <2>1. \A z : <<x, z>> \in TokenPairs => z = Text
      BY <1>8 DEF TokenPairs
    <2>2. Text.op = "text"
      BY DEF Text
    <2> QED
      BY <2>1, <2>2
  <1>11. stuffed' = <<>>
    <2>1. ASSUME NEW z \in Items(stuffed') PROVE FALSE
      <3>1. z.op = "stuff"
        BY <1>7, <2>1
      <3>2. z.op = "text"
        BY <1>9, <1>10, <2>1
      <3> QED
        BY <3>1, <3>2
    <2>2. Items(stuffed') = {}
      BY <2>1
    <2> QED
      BY <1>6, <2>2, ItemsIn
  <1>12. cIn = <<>>
    <2> SUFFICES ASSUME cIn # <<>> PROVE FALSE
      OBVIOUS
    <2>1. Head(cIn) \in Items(cIn)
      BY <1>5, HeadFirst
    <2>2. Head(cIn).op = "text"
      BY <1>9, <1>10, <2>1
    <2> QED
      BY <1>3, <2>2
  <1> QED
    BY <1>11, <1>12

LEMMA ReconnectAnewKeeps ==
    ASSUME SignonInv, ReconnectAnew
    PROVE  SignonInv'
  <1>1. Executes({"reconnect"}) /\ EndGame /\ missing' = missing
    BY DEF ReconnectAnew, Reconnect_f
  <1>2. /\ stuffed # <<>> /\ stuffed' = Tail(stuffed) /\ cIn' = cIn
        /\ (cIn # <<>> => Head(cIn).op = "serverdata")
        /\ servercount' = servercount /\ names' = names /\ loaded' = loaded
        /\ prints' = prints /\ restarts' = restarts /\ midway' = midway
    BY <1>1 DEF Executes
  <1>3. /\ cstate' = "disconnected" /\ file' = FALSE /\ dltype' = "none" /\ cOut' = <<>>
        /\ sstate' = (IF Alive THEN "left" ELSE sstate) /\ upload' = FALSE
        /\ msg' = <<>> /\ back' = <<>> /\ sIn' = <<>> /\ toClient' = <<>> /\ toServer' = <<>>
        /\ level' = level /\ scount' = scount /\ pext' = pext
    BY <1>1 DEF EndGame
  <1>4. Packets /\ Messages /\ SignonTypeOK /\ Limits
    BY DEF SignonInv, SignonTypes
  <1>5. stuffed' \in Seq(ServerMsg) /\ Items(stuffed') \subseteq Items(stuffed)
    BY <1>2, <1>4, HeadFirst DEF Packets
  <1>6. SignonTypes'
    <2>1. Packets'
      BY <1>2, <1>3, <1>4, <1>5, NothingThere DEF Packets
    <2>2. Answers' \subseteq Answers /\ Requests' = {} /\ Items(back') = {}
      BY <1>2, <1>3, <1>5, NothingThere DEF Answers, Requests
    <2>3. Messages'
      BY <1>3, <1>4, <1>5, <2>2 DEF Messages
    <2>4. Limits'
      BY <1>1, <1>2, <1>4 DEF Limits
    <2>5. SignonTypeOK'
      BY <1>2, <1>3, <1>4 DEF SignonTypeOK
    <2> QED
      BY <2>1, <2>3, <2>4, <2>5 DEF SignonTypes
  <1>7. ~Alive' /\ (Dropped' => Dropped)
    BY <1>3 DEF Alive, Dropped
  <1>8. Undisturbed' = Undisturbed /\ Quiet' = Quiet
    BY <1>2 DEF Undisturbed, NoRestart, Quiet, Calm, RoomForTexts
  <1>9. Left'
    <2>1. Undisturbed' => stuffed' = <<>> /\ cIn' = <<>>
      BY <1>2, <1>8, LeavesQuietly
    <2> QED
      BY <1>2, <1>3, <1>7, <2>1 DEF Left
  <1>10. Quiet' => ~Dropped'
    BY <1>7, <1>8 DEF SignonInv
  <1> QED
    BY <1>3, <1>6, <1>9, <1>10, AwayFrom DEF Away

LEMMA DriftsKeeps ==
    ASSUME SignonInv, Away, Drifts
    PROVE  SignonInv'
  <1>1. Packets /\ Messages /\ SignonTypeOK /\ Limits /\ Left /\ SignonTypes
    BY DEF SignonInv, SignonTypes
  <1>2. /\ sstate' = sstate /\ scount' = scount /\ pext' = pext /\ upload' = upload
        /\ msg' = msg /\ back' = back /\ sIn' = sIn /\ toClient' = toClient
        /\ toServer' = toServer /\ file' = file /\ dltype' = dltype /\ cOut' = cOut
        /\ prints' = prints /\ missing' = missing
    BY DEF Drifts, inFlight
  <1>3. /\ cIn' \in Seq(ServerMsg) /\ Items(cIn') \subseteq Items(cIn)
        /\ stuffed' \in Seq(ServerMsg) /\ Items(stuffed') \subseteq Items(stuffed)
    BY <1>1, HeadFirst DEF Packets, Drifts
  <1>4. /\ level \in 1..MaxLevel /\ level \in Nat /\ MaxLevel \in Nat
        /\ level' \in 1..MaxLevel /\ level <= level' /\ level' \in Nat
    <2>1. level \in 1..MaxLevel /\ level \in Nat /\ MaxLevel \in Nat
      BY <1>1, SignonScalars, SignonNaturals
    <2> QED
      BY <2>1 DEF Drifts
  <1>5. Away'
    BY DEF Away, Drifts
  <1>6. (Undisturbed' => Undisturbed) /\ (Quiet' => Quiet)
    <2>1. restarts \in Nat /\ MaxRestarts \in Nat /\ restarts <= MaxRestarts
      BY <1>1, SignonNaturals DEF Limits
    <2>2. NoRestart' => NoRestart
      BY <2>1 DEF Drifts, NoRestart
    <2>3. ~midway' => ~midway
      BY <1>1 DEF Drifts, SignonTypeOK
    <2> QED
      BY <1>2, <2>2, <2>3 DEF Undisturbed, Quiet, Calm, RoomForTexts
  <1>7. Left'
    <2>1. ~Alive'
      BY <1>1, <1>2 DEF Left, Alive
    <2>2. cstate' = "disconnected" /\ cIn' # <<>> => Head(cIn').op = "serverdata"
      BY <1>1 DEF Left, Drifts
    <2>3. Undisturbed' => cstate' = "disconnected" /\ stuffed' = <<>> /\ cIn' = <<>>
      BY <1>1, <1>6 DEF Left, Drifts
    <2> QED
      BY <1>1, <1>2, <2>1, <2>2, <2>3 DEF Left
  <1>8. Quiet' => ~Dropped'
    BY <1>2, <1>6 DEF SignonInv, Dropped
  <1>9. Messages'
    <2>1. Answers' \subseteq Answers
      BY <1>2, <1>3 DEF Answers
    <2>2. ASSUME NEW x \in Answers PROVE AnswerOK(x, level')
      <3>1. AnswerOK(x, level) /\ x \in ServerMsg
        BY <1>1, SaidAndAsked
      <3>2. AnswerOK(x, level + 1)
        BY <1>4, <3>1, MessageFields, LevelGrows
      <3> QED
        BY <3>1, <3>2 DEF Drifts
    <2>3. Requests' = {} /\ Items(back') = {}
      BY <1>1, <1>2, NothingThere DEF Left, Requests
    <2>4. \A x \in Items(stuffed') : x.op = "stuff"
      BY <1>1, <1>3 DEF Messages
    <2> QED
      BY <2>1, <2>2, <2>3, <2>4 DEF Messages
  <1>10. Limits'
    <2>1. names' \in [Lists -> SUBSET (Nat \X Nat)]
      BY <1>1 DEF Limits, Drifts, NoNames
    <2>2. restarts' \in 0..MaxRestarts
      BY <1>1, SignonNaturals DEF Limits, Drifts
    <2> QED
      BY <1>1, <1>2, <2>1, <2>2 DEF Limits
  <1>11. SignonTypeOK'
    <2>1. scount' \in 0..level' /\ servercount' \in 0..level' /\ loaded' \in 0..servercount'
      <3>1. scount \in 0..level /\ servercount' \in 0..level /\ loaded' \in 0..servercount'
        BY <1>1 DEF SignonTypeOK, Drifts
      <3> QED
        BY <1>2, <1>4, <3>1
    <2>2. \A k \in Lists : names'[k] \subseteq (1..level') \X All(k)
      <3>1. \A k \in Lists : names'[k] \subseteq (1..level) \X All(k)
        BY <1>1 DEF SignonTypeOK, Drifts, NoNames
      <3>2. 1..level \subseteq 1..level'
        BY <1>4
      <3>3. ASSUME NEW A PROVE (1..level) \X A \subseteq (1..level') \X A
        BY <3>2
      <3> QED
        BY <3>1, <3>3
    <2>3. midway' \in BOOLEAN /\ cstate' \in {cstate, "died"}
      BY <1>1 DEF SignonTypeOK, Drifts
    <2> QED
      BY <1>1, <1>2, <1>4, <2>1, <2>2, <2>3 DEF SignonTypeOK
  <1>12. SignonTypes'
    BY <1>1, <1>2, <1>3, <1>9, <1>10, <1>11 DEF SignonTypes, Packets
  <1> QED
    BY <1>5, <1>7, <1>8, <1>12, AwayFrom

LEMMA AwayKeeps ==
    ASSUME SignonInv, Away, [SignonNext]_signonVars
    PROVE  SignonInv'
  <1>1. SignonTypes /\ Left
    BY DEF SignonInv
  <1>2. /\ level \in 1..MaxLevel /\ level \in Nat /\ MaxLevel \in Nat
        /\ level + 1 \in Nat /\ servercount \in 0..level /\ loaded \in 0..servercount
    <2>1. level \in Nat /\ MaxLevel \in Nat
      BY <1>1, SignonScalars, SignonNaturals
    <2> QED
      BY <1>1, <2>1, SignonScalars
  <1>3. level \in {level, level + 1} /\ level <= MaxLevel
    BY <1>2
  <1>4. /\ ~Alive /\ sIn = <<>> /\ toServer = <<>> /\ cOut = <<>> /\ toClient = <<>>
        /\ file = FALSE /\ dltype = "none" /\ sstate # "spawned"
        /\ cstate = "disconnected" /\ cIn # <<>> => Head(cIn).op = "serverdata"
        /\ cstate \in {"disconnected", "died"}
    BY <1>1 DEF Left, Away, Alive
  <1>5. CASE ServerStep
    BY <1>4, <1>5 DEF ServerStep, Cmd_New_f, Cmd_PEXT_f, Cmd_Soundlist_f, Cmd_Modellist_f,
       Cmd_PreSpawn_f, Cmd_Spawn_f, Cmd_Begin_f, Cmd_Download_f, Cmd_NextDownload_f,
       ServerReceive, ServerSend, Admit, Command
  <1>6. CASE ChangeLevel
    <2>1. /\ level < MaxLevel /\ level' = level + 1 /\ sstate' = sstate
          /\ midway' = (midway \/ sstate # "spawned") /\ UNCHANGED <<msg, back>>
          /\ UNCHANGED <<scount, pext, upload, sIn, client, inFlight, prints, missing, restarts>>
      BY <1>4, <1>6 DEF ChangeLevel
    <2>2. midway' \in {midway, TRUE}
      BY <1>4, <2>1
    <2>3. level' <= MaxLevel
      BY <1>2, <2>1
    <2>4. Drifts
      BY <1>2, <2>1, <2>2, <2>3 DEF Drifts, client
    <2> QED
      BY <2>4, DriftsKeeps
  <1>7. CASE Broadcast
    BY <1>4, <1>7 DEF Broadcast
  <1>8. CASE ClientReceive \/ MakeActive \/ ClientSend
    BY <1>4, <1>8 DEF ClientReceive, MakeActive, ClientSend
  <1>9. CASE ParseText \/ ParseStufftext \/ ParseSoundlist \/ ParseModellist \/ ParseStatic
             \/ ParseDownload
    <2>1. \A op : Parses(op) => op = "serverdata"
      BY <1>4 DEF Parses, Running
    <2>2. \E op : Parses(op) /\ op # "serverdata"
      <3>1. CASE ParseText
        BY <3>1 DEF ParseText
      <3>2. CASE ParseStufftext
        BY <3>2 DEF ParseStufftext
      <3>3. CASE ParseSoundlist
        BY <3>3 DEF ParseSoundlist
      <3>4. CASE ParseModellist
        BY <3>4 DEF ParseModellist
      <3>5. CASE ParseStatic
        BY <3>5 DEF ParseStatic
      <3>6. CASE ParseDownload
        BY <3>6 DEF ParseDownload
      <3> QED
        BY <1>9, <3>1, <3>2, <3>3, <3>4, <3>5, <3>6
    <2> QED
      BY <2>1, <2>2
  <1>10. CASE ParseServerData
    <2>1. Parses("serverdata")
      BY <1>10 DEF ParseServerData
    <2>2. Head(cIn) \in ServerMsg /\ Head(cIn).op = "serverdata" /\ AnswerOK(Head(cIn), level)
      BY <1>1, <2>1, ParsesFirst
    <2>3. Head(cIn).level \in 1..level
      BY <2>2 DEF AnswerOK
    <2>4. cIn # <<>> /\ cIn' = Tail(cIn) /\ cstate = "disconnected"
      BY <1>4, <2>1 DEF Parses, Running
    <2>5. /\ stuffed' = stuffed /\ servercount' = Head(cIn).level /\ names' = NoNames
          /\ loaded' = 0 /\ cstate' = "died" /\ cOut' = cOut
          /\ UNCHANGED <<server, file, dltype, inFlight, limits>>
      BY <1>10, <2>4 DEF ParseServerData
    <2>6. servercount' \in 0..level /\ loaded' \in 0..servercount'
      BY <1>2, <2>3, <2>5
    <2>7. Drifts
      BY <1>3, <2>4, <2>5, <2>6 DEF Drifts, server, limits
    <2> QED
      BY <2>7, DriftsKeeps
  <1>11. CASE ForwardToServer \/ ChangingReconnect \/ Skins
    <2>1. \E c : Execute(c)
      BY <1>11 DEF ForwardToServer, ChangingReconnect, Skins
    <2>2. /\ stuffed # <<>> /\ stuffed' = Tail(stuffed) /\ cstate = "disconnected"
          /\ UNCHANGED <<servercount, names, loaded, cIn, prints, restarts, midway>>
          /\ UNCHANGED <<server, file, inFlight>>
      BY <1>4, <2>1 DEF Execute, Executes, Running
    <2>3. cstate' \in {cstate, "died"} /\ UNCHANGED <<cOut, dltype, missing>>
      BY <1>4, <1>11, <2>2 DEF ForwardToServer, ChangingReconnect, Skins, NextSkin
    <2>4. Drifts
      BY <1>2, <1>3, <2>2, <2>3 DEF Drifts, server
    <2> QED
      BY <2>4, DriftsKeeps
  <1>12. CASE Reconnect_f
    <2>1. ReconnectAnew
      BY <1>4, <1>12 DEF ReconnectAnew
    <2> QED
      BY <2>1, ReconnectAnewKeeps
  <1>13. CASE DirectConnect
    BY <1>13, DirectConnectKeeps
  <1>14. CASE VidRestart
    <2>1. /\ restarts > 0 /\ restarts' = restarts - 1 /\ cstate = "disconnected"
          /\ UNCHANGED <<server, cstate, servercount, names, loaded, file, stuffed,
                         cIn, inFlight, prints, midway>>
      BY <1>4, <1>14 DEF VidRestart, Between, Running
    <2>2. UNCHANGED <<cOut, dltype, missing>>
      BY <1>4, <1>14, <2>1 DEF VidRestart, NextSkin
    <2>3. Drifts
      BY <1>2, <1>3, <2>1, <2>2 DEF Drifts, server
    <2> QED
      BY <2>3, DriftsKeeps
  <1>15. CASE UNCHANGED signonVars
    <2>1. Drifts
      BY <1>2, <1>3, <1>15 DEF Drifts, signonVars, server, client, limits
    <2> QED
      BY <2>1, DriftsKeeps
  <1> QED
    BY <1>5, <1>6, <1>7, <1>8, <1>9, <1>10, <1>11, <1>12, <1>13, <1>14, <1>15
    DEF SignonNext, ClientStep

-----------------------------------------------------------------------------
(* Every step keeps the invariant.                                         *)

LEMMA SignonInvParts ==
    ASSUME SignonInv, ~Away
    PROVE  /\ SignonTypes /\ sstate # "left" /\ (Regular => Order /\ Claims) /\ (Undisturbed => Single)
           /\ (Quiet => Sizes) /\ (Quiet => Undisturbed) /\ (Undisturbed => Regular)
  BY DEF SignonInv, Quiet, Calm, Undisturbed, Regular

LEMMA SignonInvFrom ==
    ASSUME SignonTypes', Regular' => Order' /\ Claims', Undisturbed' => Single',
           Quiet' => Sizes', ~Away', sstate' # "left"
    PROVE  SignonInv'
  BY DEF SignonInv, Sizes, Dropped

LEMMA ReadsKeeps ==
    ASSUME SignonInv, ~Away, SignonTypes', ClientActs, ~Away'
    PROVE  SignonInv'
  <1>1. PICK x, r : Reads(x, r) /\ (Meant(x) => Learns(x, r))
    BY DEF ClientActs
  <1>2. /\ SignonTypes /\ (Regular => Order /\ Claims) /\ (Undisturbed => Single)
        /\ (Quiet => Sizes) /\ (Quiet => Undisturbed) /\ (Undisturbed => Regular)
    BY SignonInvParts
  <1>3. /\ Undisturbed' = Undisturbed /\ Quiet' = Quiet /\ (Regular' => Regular)
    <2>1. SameRegime /\ missing' \in 0..missing
      BY <1>1, <1>2, ReadsBoth
    <2> QED
      BY <1>2, <2>1, RegimeKept
  <1>4. Regular => Order' /\ Claims'
    BY <1>1, <1>2, ReadsOrder, ReadsClaims
  <1>5. Undisturbed => Single'
    BY <1>1, <1>2, ReadsSingle
  <1>6. Quiet => Sizes'
    BY <1>1, <1>2, ReadsSizes
  <1>7. sstate' # "left"
    BY <1>1, SignonInvParts DEF Reads, server
  <1> QED
    BY <1>3, <1>4, <1>5, <1>6, <1>7, SignonInvFrom

LEMMA RenewedKeeps ==
    ASSUME SignonInv, ~Away, SignonTypes', NEW x, NEW q, Renewed(x, q)
    PROVE  SignonInv'
  <1>1. /\ SignonTypes /\ (Regular => Order /\ Claims) /\ (Undisturbed => Single)
        /\ (Quiet => Sizes) /\ (Quiet => Undisturbed) /\ (Undisturbed => Regular)
    BY SignonInvParts
  <1>2. /\ Undisturbed' = Undisturbed /\ Quiet' = Quiet /\ (Regular' => Regular)
    <2>1. SameRegime /\ missing' = missing
      BY <1>1, RenewedBoth
    <2>2. missing' \in 0..missing
      BY <1>1, <2>1, SignonScalars
    <2> QED
      BY <1>1, <2>1, <2>2, RegimeKept
  <1>3. Regular => Order' /\ Claims'
    BY <1>1, RenewedOrder, RenewedClaims
  <1>4. Undisturbed => Single'
    BY <1>1, RenewedSingle
  <1>5. Quiet => Sizes'
    BY <1>1, RenewedSizes
  <1>6. ~Away' /\ sstate' # "left"
    BY SignonInvParts DEF Renewed, server, Away
  <1> QED
    BY <1>2, <1>3, <1>4, <1>5, <1>6, SignonInvFrom

LEMMA MovedKeeps ==
    ASSUME SignonInv, ~Away, SignonTypes', MoveStep \/ Idle, Moved
    PROVE  SignonInv'
  <1>1. /\ SignonTypes /\ (Regular => Order /\ Claims) /\ (Undisturbed => Single)
        /\ (Quiet => Sizes) /\ (Quiet => Undisturbed) /\ (Undisturbed => Regular)
    BY SignonInvParts
  <1>2. /\ Undisturbed' = Undisturbed /\ Quiet' = Quiet /\ Regular' = Regular
    <2>1. SameLimits
      BY DEF Moved, limits, SameLimits
    <2> QED
      BY <2>1, LimitsKept
  <1>3. Regular => Order' /\ Claims'
    BY <1>1, MovedOrder, MovedClaims
  <1>4. Undisturbed => Single'
    BY <1>1, MovedSingle
  <1>5. Quiet => Sizes'
    BY <1>1, MovedSizes
  <1>6. ~Away' /\ sstate' # "left"
    BY SignonInvParts DEF Moved, Away
  <1> QED
    BY <1>2, <1>3, <1>4, <1>5, <1>6, SignonInvFrom

LEMMA ServerKeeps ==
    ASSUME SignonInv, ~Away, SignonTypes', ServerActs
    PROVE  SignonInv'
  <1>1. PICK y : Drops(y) \/ StartsOver(y) \/ Serves(y) \/ GetsBlock(y)
    BY DEF ServerActs
  <1>2. /\ SignonTypes /\ (Regular => Order /\ Claims) /\ (Undisturbed => Single)
        /\ (Quiet => Sizes) /\ (Quiet => Undisturbed) /\ (Undisturbed => Regular)
    BY SignonInvParts
  <1>3. Undisturbed' = Undisturbed /\ Quiet' = Quiet /\ Regular' = Regular
    <2>1. Taken(y)
      BY <1>1 DEF Drops, StartsOver, Serves, GetsBlock
    <2> QED
      BY <1>2, <2>1, TakenTakes, LimitsKept
  <1>w. ~Away' /\ sstate' # "left"
    <2>1. Taken(y) /\ sstate' \in {sstate, "connected", "spawned", "dropped: map",
                                  "dropped: overflow"}
      BY <1>1 DEF Drops, StartsOver, Serves, GetsBlock
    <2> QED
      BY <2>1, SignonInvParts DEF Taken, client, Away
  <1>4. CASE Drops(y)
    <2>1. Regular => Order' /\ Claims'
      BY <1>2, <1>4, DropsOrder, DropsClaims
    <2>2. Undisturbed => Single'
      BY <1>2, <1>4, DropsSingle
    <2>3. Quiet => Sizes'
      BY <1>2, <1>4, DropsSizes
    <2> QED
      BY <1>3, <1>w, <2>1, <2>2, <2>3, SignonInvFrom
  <1>5. CASE StartsOver(y)
    <2>1. Regular => Order' /\ Claims'
      BY <1>2, <1>5, StartsOverOrder, StartsOverClaims
    <2>2. Undisturbed => Single'
      BY <1>2, <1>5, StartsOverSingle
    <2>3. Quiet => Sizes'
      BY <1>2, <1>5, StartsOverSizes
    <2> QED
      BY <1>3, <1>w, <2>1, <2>2, <2>3, SignonInvFrom
  <1>6. CASE Serves(y)
    <2>1. PICK n \in Seq(ServerMsg), m \in ServerMsg : Answered(y, n, m)
      BY <1>2, <1>6, ServesAnswered
    <2>2. Regular => Order' /\ Claims'
      BY <1>2, <2>1, AnsweredOrder, AnsweredClaims
    <2>3. Undisturbed => Single'
      BY <1>2, <2>1, AnsweredSingle
    <2>4. Quiet => Sizes'
      BY <1>2, <2>1, AnsweredSizes
    <2> QED
      BY <1>3, <1>w, <2>2, <2>3, <2>4, SignonInvFrom
  <1>7. CASE GetsBlock(y)
    <2>1. CASE ~Regular
      BY <1>2, <1>3, <1>w, <2>1, SignonInvFrom
    <2>2. CASE Regular
      <3>1. PICK n \in Seq(ServerMsg), m \in ServerMsg : BlockOnly(y, n, m)
        BY <1>2, <1>7, <2>2, GetsBlockOnly
      <3>2. Order' /\ Claims'
        BY <1>2, <2>2, <3>1, BlockOrder, BlockClaims
      <3>3. Undisturbed => Single'
        BY <1>2, <3>1, BlockSingle
      <3>4. Quiet => Sizes'
        BY <1>2, <3>1, BlockSizes
      <3> QED
        BY <1>3, <1>w, <3>2, <3>3, <3>4, SignonInvFrom
    <2> QED
      BY <2>1, <2>2
  <1> QED
    BY <1>1, <1>4, <1>5, <1>6, <1>7

LEMMA ChangeLevelKeeps ==
    ASSUME SignonInv, ~Away, ChangeLevel
    PROVE  SignonInv'
  <1>1. /\ SignonTypes /\ (Regular => Order /\ Claims) /\ (Undisturbed => Single)
        /\ (Quiet => Sizes) /\ (Quiet => Undisturbed) /\ (Undisturbed => Regular)
    BY SignonInvParts
  <1>2. /\ SignonTypes' /\ Tells(Reconnect)
        /\ level' = level + 1 /\ midway' = (midway \/ sstate # "spawned")
        /\ sstate' # "spawned" /\ prints' = prints /\ sstate' \in {sstate, "connected"}
    BY <1>1, SignonInvParts, ChangeLevelTells
  <1>3. PICK n : Told(n, Reconnect)
    BY <1>1, <1>2, TellsIsTold
  <1>4. missing' = missing /\ restarts' = restarts
    BY <1>3 DEF Told
  <1>5. /\ Undisturbed' => Undisturbed /\ sstate = "spawned"
        /\ Quiet' => Quiet /\ sstate = "spawned"
        /\ Regular' => Regular
    BY <1>2, <1>4 DEF Undisturbed, Quiet, Calm, Regular, NoRestart
  <1>6. Regular => Order' /\ Claims'
    BY <1>1, <1>2, <1>3, <1>5, ChangeLevelOrder, ToldClaims
  <1>7. Undisturbed' => Single'
    BY <1>1, <1>2, <1>3, <1>5, ChangeLevelSingle
  <1>8. Quiet' => Sizes'
    BY <1>1, <1>2, <1>3, <1>5, ChangeLevelSizes
  <1>9. ~Away' /\ sstate' # "left"
    BY <1>2, SignonInvParts DEF Tells, client, Away
  <1> QED
    BY <1>2, <1>5, <1>6, <1>7, <1>8, <1>9, SignonInvFrom

LEMMA BroadcastKeeps ==
    ASSUME SignonInv, ~Away, Broadcast
    PROVE  SignonInv'
  <1>1. /\ SignonTypes /\ (Regular => Order /\ Claims) /\ (Undisturbed => Single)
        /\ (Quiet => Sizes) /\ (Quiet => Undisturbed) /\ (Undisturbed => Regular)
    BY SignonInvParts
  <1>2. /\ SignonTypes' /\ Tells(Text) /\ prints > 0 /\ prints' = prints - 1
        /\ level' = level /\ sstate' = sstate /\ midway' = midway
    BY <1>1, BroadcastTells
  <1>3. PICK n : Told(n, Text)
    BY <1>1, <1>2, TellsIsTold
  <1>4. missing' = missing /\ restarts' = restarts
    BY <1>3 DEF Told
  <1>5. /\ Undisturbed' = Undisturbed /\ Regular' = Regular
    BY <1>2, <1>4 DEF Undisturbed, Regular, NoRestart
  <1>6. Quiet' => Quiet
    <2>1. prints \in Nat /\ MaxPrints \in Nat
      BY <1>1, PrintsLeft, SignonNaturals
    <2>2. prints' + 2 >= MaxPrints => prints + 2 >= MaxPrints
      BY <1>2, <2>1
    <2>3. NoRestart' = NoRestart
      BY <1>4 DEF NoRestart
    <2> QED
      BY <1>2, <2>2, <2>3 DEF Quiet, Calm, RoomForTexts
  <1>7. Regular => Order' /\ Claims'
    BY <1>1, <1>2, <1>3, <1>6, BroadcastOrder, ToldClaims
  <1>8. Undisturbed => Single'
    BY <1>1, <1>2, <1>3, BroadcastSingle
  <1>9. Quiet => Sizes'
    BY <1>1, <1>2, <1>3, BroadcastSizes
  <1>10. ~Away' /\ sstate' # "left"
    BY <1>2, SignonInvParts DEF Tells, client, Away
  <1> QED
    BY <1>2, <1>5, <1>6, <1>7, <1>8, <1>9, <1>10, SignonInvFrom

LEMMA RestartedKeeps ==
    ASSUME SignonInv, ~Away, SignonTypes', NEW r, Restarted(r)
    PROVE  SignonInv'
  <1>1. SignonTypes /\ (Regular => Order /\ Claims)
    BY SignonInvParts
  <1>2. ~Undisturbed' /\ ~Quiet' /\ (Regular' => Regular)
    BY <1>1, RestartedRegime
  <1>3. Regular' => Order' /\ Claims'
    BY <1>1, <1>2, RestartedOrder, RestartedClaims
  <1>4. ~Away' /\ sstate' # "left"
    BY SignonInvParts DEF Restarted, server, Away
  <1> QED
    BY <1>2, <1>3, <1>4, SignonInvFrom

LEMMA SignonStep ==
    ASSUME SignonInv, [SignonNext]_signonVars
    PROVE  SignonInv'
  <1>0. CASE Away
    BY <1>0, AwayKeeps
  <1> SUFFICES ASSUME ~Away PROVE SignonInv'
    BY <1>0
  <1>1. SignonTypes
    BY SignonInvParts
  <1>2. CASE ClientReads
    BY <1>1, <1>2, ClientReadsActs, ReadsKeeps
  <1>3. CASE ParseServerData
    <2>1. SignonTypes' /\ \E x, q : Renewed(x, q)
      BY <1>1, <1>3, ServerDataRenews
    <2> QED
      BY <2>1, RenewedKeeps
  <1>4. CASE MoveStep
    BY <1>1, <1>4, MovesMoved, MovedKeeps
  <1>5. CASE ServerReads
    BY <1>1, <1>5, ServerReadsActs, ServerKeeps
  <1>6. CASE ChangeLevel
    BY <1>6, ChangeLevelKeeps
  <1>7. CASE Broadcast
    BY <1>7, BroadcastKeeps
  <1>8. CASE VidRestart
    <2>1. SignonTypes' /\ \E r : Restarted(r)
      BY <1>1, <1>8, VidRestartRestarts
    <2> QED
      BY <2>1, RestartedKeeps
  <1>9. CASE MakeActive \/ UNCHANGED signonVars
    <2>1. Idle
      BY <1>9 DEF MakeActive, Idle, signonVars, server, client, inFlight, limits
    <2> QED
      BY <1>1, <2>1, IdleMoved, MovedKeeps
  <1>10. CASE ReconnectAnew
    BY <1>10, ReconnectAnewKeeps
  <1>11. CASE DirectConnect
    BY <1>11, DirectConnectKeeps
  <1> QED
    BY <1>2, <1>3, <1>4, <1>5, <1>6, <1>7, <1>8, <1>9, <1>10, <1>11
    DEF SignonNext, ServerStep, ClientStep, ClientReads, MoveStep, ServerReads,
        ReconnectHere, ReconnectAnew

-----------------------------------------------------------------------------
(* What the invariant says of the properties.                              *)

LEMMA EverythingHeld ==
    ASSUME SignonTypes, Everything \subseteq Have, servercount = level
    PROVE  Complete
  <1>1. \A k, i : <<k, i>> \in Have /\ k \in Lists => <<level, i>> \in names[k]
    BY DEF Have, HeldOf, Lists
  <1>2. loaded = level
    <2>1. <<"loaded", 0>> \in Everything
      BY DEF Everything, World, Loaded
    <2>2. <<"loaded", 0>> \notin Lists \X Nat
      BY DEF Lists
    <2> QED
      BY <2>1, <2>2 DEF Have, HeldOf
  <1>3. Holds(names, level, "models")
    <2>1. \A i \in 1..Models : <<"models", i>> \in Everything
      BY DEF Everything, World, Loaded, ModelsTo
    <2>2. All("models") = 1..Models
      BY DEF All
    <2> QED
      BY <1>1, <2>1, <2>2 DEF Holds, Lists
  <1>4. Holds(names, level, "statics")
    <2>1. \A i \in 1..Statics : <<"statics", i>> \in Everything
      <3>1. \A i \in 1..Statics : i \in 1..Statics + Buffers /\ i <= Statics
        BY SignonNaturals
      <3> QED
        BY <3>1 DEF Everything, World, WorldTo
    <2>2. All("statics") = 1..Statics
      BY DEF All
    <2> QED
      BY <1>1, <2>1, <2>2 DEF Holds, Lists
  <1>5. Holds(names, level, "buffers")
    <2>1. \A i \in Statics + 1 .. Statics + Buffers : <<"buffers", i>> \in Everything
      <3>1. \A i \in Statics + 1 .. Statics + Buffers :
              i \in 1..Statics + Buffers /\ ~(i <= Statics)
        BY SignonNaturals
      <3> QED
        BY <3>1 DEF Everything, World, WorldTo
    <2>2. All("buffers") = Statics + 1 .. Statics + Buffers
      BY DEF All
    <2> QED
      BY <1>1, <2>1, <2>2 DEF Holds, Lists
  <1>6. Holds(names, level, "players")
    <2>1. \A i \in 1..Players : <<"players", i>> \in Everything
      BY DEF Everything, PlayersTo
    <2>2. All("players") = 1..Players
      BY DEF All
    <2> QED
      BY <1>1, <2>1, <2>2 DEF Holds, Lists
  <1> QED
    BY <1>2, <1>3, <1>4, <1>5, <1>6 DEF Complete, Lists

LEMMA InvSpawned ==
    ASSUME SignonInv
    PROVE  SpawnedComplete
  <1>1. SignonTypes /\ (sstate = "spawned" => ~Away)
    BY DEF SignonInv, Left, Alive
  <1>2. SignonTypeOK
    BY <1>1 DEF SignonTypes
  <1>3. ASSUME sstate = "spawned", NoRestart, midway => missing = MaxDownloads
        PROVE  Complete
    <2>1. Regular
      BY <1>3 DEF Regular, Undisturbed
    <2>r. Order /\ Claims
      BY <1>1, <1>3, <2>1, SignonInvParts
    <2>2. Everything \subseteq Have
      BY <1>3, <2>r DEF Claims
    <2>3. servercount = level
      BY <1>3, <2>r DEF Order, ServerSide
    <2> QED
      BY <1>1, <2>2, <2>3, EverythingHeld
  <1> QED
    BY <1>2, <1>3 DEF SpawnedComplete

LEMMA InvNeverFails ==
    ASSUME SignonInv
    PROVE  NeverFails
  <1>0. cstate = "died" => midway \/ ~NoRestart
    BY DEF SignonInv, Away, Left, Undisturbed
  <1> SUFFICES ASSUME cstate = "failed"
               PROVE  missing < MaxDownloads /\ (midway \/ ~NoRestart)
    BY <1>0 DEF NeverFails
  <1>1. SignonTypes /\ (Regular => Order /\ Claims)
    BY SignonInvParts DEF Away
  <1>2. ~Regular
    BY <1>1 DEF Claims
  <1>3. missing # MaxDownloads /\ ~Undisturbed
    BY <1>2 DEF Regular
  <1>4. missing < MaxDownloads
    BY <1>1, <1>3, SignonScalars, SignonNaturals
  <1> QED
    BY <1>3, <1>4 DEF Undisturbed

LEMMA InvNeverDropped ==
    ASSUME SignonInv, RoomForTexts
    PROVE  NeverDropped
  BY DEF NeverDropped, SignonInv, Quiet, Dropped

LEMMA InvDoneWithSounds ==
    ASSUME SignonInv, RoomForTexts
    PROVE  DoneWithSounds
  <1> SUFFICES ASSUME Calm, NEW i \in 1..Len(cOut), cOut[i].cmd = "modellist",
                      cOut[i].level = servercount
               PROVE  Holds(names, servercount, "sounds")
    BY DEF DoneWithSounds
  <1>1. Quiet
    BY DEF Quiet
  <1>2. SignonTypes /\ Claims /\ Single
    <2>1. Away => cOut = <<>>
      BY DEF SignonInv, Left
    <2>2. ~Away
      BY <2>1
    <2> QED
      BY <1>1, <2>2, SignonInvParts
  <1> DEFINE x == cOut[i]
  <1>3. x \in Requests
    <2>1. cOut \in Seq(ClientCmd)
      BY <1>2 DEF SignonTypes, Packets
    <2>2. DOMAIN cOut = 1..Len(cOut)
      BY <2>1, LenProperties
    <2> QED
      BY <2>2 DEF Requests, Items
  <1>4. x.cmd = "modellist" /\ x.level = servercount
    OBVIOUS
  <1> HIDE DEF x
  <1>5. servercount = level
    BY <1>2, <1>3, <1>4 DEF Single
  <1>6. Asks(x, dltype, Quiet, NoRestart) \subseteq Have
    BY <1>2, <1>3, <1>4, <1>5 DEF Claims, RequestsCovered, Guarded
  <1>7. SoundsTo(Sounds) \subseteq Have
    <2> DEFINE calm == Quiet
               nores == NoRestart
    <2>1. calm /\ Asks(x, dltype, calm, nores) \subseteq Have
      BY <1>1, <1>6
    <2> HIDE DEF calm, nores
    <2>2. Asks(x, dltype, calm, nores) = AfterSounds(calm) \cup ModelsTo(x.n)
      BY <1>4, AsksByName
    <2> QED
      BY <2>1, <2>2 DEF AfterSounds
  <1>8. \A j \in 1..Sounds : <<servercount, j>> \in names["sounds"]
    <2>1. \A j \in 1..Sounds : <<"sounds", j>> \in Have
      BY <1>7 DEF SoundsTo
    <2> QED
      BY <2>1 DEF Have, HeldOf, Lists
  <1>9. All("sounds") = 1..Sounds
    BY DEF All
  <1> QED
    BY <1>8, <1>9 DEF Holds

(* The answers under way are in an order the client can take them in, each *)
(* with what it needs ahead of it, whatever level changes and refused      *)
(* requests do to the exchange of Cmd_New_f to Cmd_Begin_f with            *)
(* CL_ParseServerMessage.  The order is claimed where a restart of the     *)
(* video or a level change in the middle has no download to cross it.      *)
THEOREM SignonInductive == SignonSpec => []SignonInv
  <1>1. SignonInit => SignonInv
    BY SignonInitInv
  <1>2. SignonInv /\ [SignonNext]_signonVars => SignonInv'
    BY SignonStep
  <1> QED
    BY <1>1, <1>2, PTL DEF SignonSpec

(* Cmd_Begin_f checks no more than the level: still a client it puts into  *)
(* the game holds all of that level, for lists of any length and chunks of *)
(* any size, as long as the video does not restart and no download meets a *)
(* level change on the way.                                                *)
THEOREM SignonSpawned == SignonSpec => []SpawnedComplete
  <1>1. SignonInv => SpawnedComplete
    BY InvSpawned
  <1> QED
    BY <1>1, SignonInductive, PTL

(* Model_NextDownload loads from lists of one level: CL_ParseServerData    *)
(* never empties them under a client that is about to load, but where a    *)
(* download meets a level change or a restart of the video.                *)
THEOREM SignonNeverFails == SignonSpec => []NeverFails
  <1>1. SignonInv => NeverFails
    BY InvNeverFails
  <1> QED
    BY <1>1, SignonInductive, PTL

(* Where a message has room for two texts next to what Cmd_PreSpawn_f      *)
(* writes, no answer overflows it, and CL_Prespawn's request has the       *)
(* checksum Cmd_PreSpawn_f asks for.                                       *)
THEOREM SignonNeverDropped ==
    ASSUME RoomForTexts
    PROVE  SignonSpec => []NeverDropped
  <1>1. SignonInv => NeverDropped
    BY InvNeverDropped
  <1> QED
    BY <1>1, SignonInductive, PTL

(* Where it has, every chunk of Cmd_Soundlist_f makes progress, and the    *)
(* byte after it, which CL_ParseSoundlist takes for the end when it is 0,  *)
(* is so only then: the models are asked for after the last sound.         *)
THEOREM SignonDoneWithSounds ==
    ASSUME RoomForTexts
    PROVE  SignonSpec => []DoneWithSounds
  <1>1. SignonInv => DoneWithSounds
    BY InvDoneWithSounds
  <1> QED
    BY <1>1, SignonInductive, PTL

=============================================================================
