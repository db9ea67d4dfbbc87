------------------------ MODULE DelayedPacketsProofs ------------------------
(* What DelayedPackets promises, for any number of clients, any size of    *)
(* the pool and any delays: the lists stay apart, and what they hold is    *)
(* run first in, first out.                                                *)
EXTENDS DelayedPackets, SequenceTheorems, FiniteSetTheorems, TLAPS

LEMMA Constants ==
    /\ MAX_DELAYED_PACKETS \in Nat \ {0} /\ MaxDelay \in Nat \ {0}
    /\ MaxSocket \in Nat \ {0}
    /\ MaxPackets \in [Clients -> Nat \ {0}]
    /\ IsFiniteSet(Clients) /\ Clients # {}
  BY DelayedAssumption DEF DelayedAssumption

(* Some client may send most packets.                                      *)
LEMMA Most ==
    \E d \in Clients : \A c \in Clients : MaxPackets[c] <= MaxPackets[d]
  <1> DEFINE Tops(s) == {d \in s : \A c \in s : MaxPackets[c] <= MaxPackets[d]}
             U == {s \in SUBSET Clients : s # {} /\ Tops(s) = {}}
  <1> SUFFICES ASSUME U # {} PROVE FALSE
    BY Constants
  <1>1. PICK s \in U : \A t \in U : ~ (<<t, s>> \in StrictSubsetOrdering(Clients))
    <2>1. /\ IsWellFoundedOn(StrictSubsetOrdering(Clients),
                             FiniteSubsetsOf(Clients))
          /\ U \subseteq FiniteSubsetsOf(Clients)
      BY Constants, FS_StrictSubsetOrderingWellFounded, FS_FiniteSubsetsOfFinite
    <2> HIDE DEF U
    <2> QED
      BY <2>1, WFMin
  <1>2. PICK d \in s : TRUE
    OBVIOUS
  <1>3. s \ {d} \notin U
    <2>1. <<s \ {d}, s>> \in StrictSubsetOrdering(Clients)
      BY <1>2 DEF StrictSubsetOrdering
    <2> QED
      BY <1>1, <2>1
  <1>4. \A c \in s : MaxPackets[c] \in Nat
    BY Constants
  <1>5. CASE s \ {d} = {}
    <2>1. d \in Tops(s)
      BY <1>2, <1>4, <1>5
    <2> QED
      BY <2>1
  <1>6. CASE s \ {d} # {}
    <2>1. PICK e \in s \ {d} :
              \A c \in s \ {d} : MaxPackets[c] <= MaxPackets[e]
      BY <1>3, <1>6
    <2>2. CASE MaxPackets[d] <= MaxPackets[e]
      <3>1. e \in Tops(s)
        BY <2>1, <2>2
      <3> QED
        BY <3>1
    <2>3. CASE ~(MaxPackets[d] <= MaxPackets[e])
      <3>1. d \in Tops(s)
        BY <1>2, <1>4, <2>1, <2>3
      <3> QED
        BY <3>1
    <2> QED
      BY <2>2, <2>3
  <1> QED
    BY <1>5, <1>6

LEMMA Numbers ==
    \E m \in Nat \ {0} : Number = 1 .. m /\ \A c \in Clients : MaxPackets[c] <= m
  <1> DEFINE T == {MaxPackets[c] : c \in Clients}
  <1>1. PICK d \in Clients : \A c \in Clients : MaxPackets[c] <= MaxPackets[d]
    BY Most
  <1>2. MaxPackets[d] \in T /\ \A y \in T : MaxPackets[d] >= y
    BY <1>1, Constants
  <1>3. T \subseteq Nat \ {0}
    BY Constants
  <1> HIDE DEF T
  <1>4. Max(T) \in T /\ \A y \in T : Max(T) >= y
    <2> DEFINE P(x) == x \in T /\ \A y \in T : x >= y
    <2>1. \E x : P(x)
      BY <1>2
    <2>2. P(CHOOSE x : P(x))
      BY <2>1
    <2> QED
      BY <2>2 DEF Max
  <1>5. Max(T) = MaxPackets[d]
    <2>1. Max(T) >= MaxPackets[d] /\ MaxPackets[d] >= Max(T)
      BY <1>2, <1>4
    <2>2. Max(T) \in Nat /\ MaxPackets[d] \in Nat
      BY <1>2, <1>3, <1>4
    <2> QED
      BY <2>1, <2>2
  <1> QED
    BY <1>1, <1>3, <1>4, <1>5 DEF Number, T

(* A set of numbers that is not empty has a smallest one.                  *)
LEMMA SmallestNumber ==
    ASSUME NEW T \in SUBSET Nat, T # {}
    PROVE  \E x \in T : \A y \in T : x <= y
  <1> DEFINE R == StrictSubsetOrdering(Nat)
             F == FiniteSubsetsOf(Nat)
             U == {0 .. x : x \in T}
  <1>1. IsWellFoundedOn(R, F)
    BY FS_StrictSubsetOrderingWellFounded
  <1>2. U \subseteq F /\ U # {}
    <2>1. \A x \in T : 0 .. x \in SUBSET Nat /\ IsFiniteSet(0 .. x)
      BY FS_Interval
    <2> QED
      BY <2>1 DEF FiniteSubsetsOf
  <1>3. \E u \in U : \A w \in U : ~ (<<w, u>> \in R)
    <2> HIDE DEF R, F, U
    <2> QED
      BY <1>1, <1>2, WFMin
  <1>4. PICK x \in T : \A w \in U : ~ (<<w, 0 .. x>> \in R)
    BY <1>3
  <1>5. ASSUME NEW y \in T, y < x PROVE FALSE
    <2>1. 0 .. y \subseteq 0 .. x /\ 0 .. y # 0 .. x
      BY <1>5
    <2>2. 0 .. y \in SUBSET Nat /\ 0 .. x \in SUBSET Nat
      OBVIOUS
    <2>3. <<0 .. y, 0 .. x>> \in R
      BY <2>1, <2>2 DEF StrictSubsetOrdering
    <2> QED
      BY <2>3, <1>4
  <1> QED
    BY <1>5

-----------------------------------------------------------------------------
(* Lists.  A list that starts at n is a sequence of different packet_t.    *)

Chain(nodes, n, s) ==
    /\ s \in Seq(Node)
    /\ \A i, j \in 1 .. Len(s) : s[i] = s[j] => i = j
    /\ n = IF s = << >> THEN NULL ELSE s[1]
    /\ \A i \in 1 .. Len(s) :
          nodes[s[i]].next = IF i = Len(s) THEN NULL ELSE s[i + 1]

LEMMA ChainShort ==
    ASSUME NEW nodes, NEW n, NEW s, Chain(nodes, n, s)
    PROVE  Len(s) \in 0 .. MAX_DELAYED_PACKETS
  <1> DEFINE L == Len(s)
             M == MAX_DELAYED_PACKETS
  <1>1. L \in Nat /\ M \in Nat /\ s \in [1 .. L -> Node]
    BY Constants, LenProperties DEF Chain
  <1>2. s \in Injection(1 .. L, Node)
    BY <1>1 DEF Chain, Injection, IsInjective
  <1>3. /\ IsFiniteSet(Node) /\ Cardinality(Node) = M
        /\ Cardinality(1 .. L) = L
    <2>1. \A k \in Nat : IsFiniteSet(1 .. k) /\ Cardinality(1 .. k) = k
      <3> SUFFICES ASSUME NEW k \in Nat
                   PROVE  IsFiniteSet(1 .. k) /\ Cardinality(1 .. k) = k
        OBVIOUS
      <3>1. 1 \in Int /\ k \in Int
        OBVIOUS
      <3>2. /\ IsFiniteSet(1 .. k)
            /\ Cardinality(1 .. k) = IF 1 > k THEN 0 ELSE k - 1 + 1
        BY <3>1, FS_Interval
      <3> QED
        BY <3>2
    <2> QED
      BY <1>1, <2>1 DEF Node
  <1> HIDE DEF L, M
  <1>4. Cardinality(1 .. L) <= Cardinality(Node)
    BY <1>2, <1>3, FS_Injection
  <1> QED
    BY <1>1, <1>3, <1>4 DEF L, M

(* What List follows.                                                      *)
Follow(nodes, n, g, k) ==
    IF k = 0 THEN n
    ELSE IF g[k - 1] = NULL THEN NULL ELSE nodes[g[k - 1]].next

Follows(nodes, n, m, g) == \A k \in 0 .. m : g[k] = Follow(nodes, n, g, k)

LEMMA FollowsOnce ==
    ASSUME NEW nodes, NEW n, NEW m \in Nat,
           NEW u, Follows(nodes, n, m, u), NEW v, Follows(nodes, n, m, v)
    PROVE  \A k \in 0 .. m : u[k] = v[k]
  <1> DEFINE T == {k \in 0 .. m : u[k] # v[k]}
  <1> SUFFICES ASSUME T # {} PROVE FALSE
    OBVIOUS
  <1>1. PICK k \in T : \A j \in T : k <= j
    <2>1. T \in SUBSET Nat
      OBVIOUS
    <2> HIDE DEF T
    <2> QED
      BY <2>1, SmallestNumber
  <1>2. k = 0 \/ u[k - 1] = v[k - 1]
    BY <1>1
  <1>3. Follow(nodes, n, u, k) = Follow(nodes, n, v, k)
    BY <1>2 DEF Follow
  <1> QED
    BY <1>1, <1>3 DEF Follows

LEMMA ChainIsList ==
    ASSUME NEW nodes, NEW n, NEW s, Chain(nodes, n, s)
    PROVE  ListIn(nodes, n) = s
  <1> DEFINE L == Len(s)
             M == MAX_DELAYED_PACKETS
             Steps(g) == [k \in 0 .. M + 1 |-> Follow(nodes, n, g, k)]
             u == CHOOSE g : g = Steps(g)
             v == [k \in 0 .. M + 1 |-> IF k < L THEN s[k + 1] ELSE NULL]
             past == {k \in 0 .. M : u[k] = NULL}
             len == IF past = {} THEN M + 1
                    ELSE CHOOSE k \in past : \A j \in past : k <= j
  <1>1. L \in 0 .. M /\ M \in Nat /\ s \in Seq(Node)
    BY ChainShort, Constants DEF Chain
  <1>2. ListIn(nodes, n) = [k \in 1 .. len |-> u[k - 1]]
    BY DEF ListIn, Follow
  <1>3. \A i \in 1 .. L : s[i] \in Node /\ s[i] # NULL
    BY <1>1, ElementOfSeq DEF Node, NULL
  <1>4. ASSUME NEW k \in 0 .. M + 1 PROVE v[k] = Follow(nodes, n, v, k)
    <2>1. CASE k = 0
      BY <1>1, <2>1, EmptySeq DEF Follow, Chain
    <2>2. CASE k > 0
      <3>1. k - 1 \in 0 .. M + 1 /\ k # 0
        BY <2>2, <1>1
      <3>2. CASE k <= L
        <4>1. /\ v[k - 1] = s[k] /\ s[k] # NULL
              /\ nodes[s[k]].next = IF k = L THEN NULL ELSE s[k + 1]
          BY <1>1, <1>3, <2>2, <3>1, <3>2 DEF Chain
        <4> QED
          BY <1>1, <3>1, <3>2, <4>1 DEF Follow
      <3>3. CASE k > L
        <4>1. v[k - 1] = NULL /\ v[k] = NULL
          BY <1>1, <3>1, <3>3
        <4> QED
          BY <3>1, <4>1 DEF Follow
      <3> QED
        BY <1>1, <3>2, <3>3
    <2> QED
      BY <2>1, <2>2
  <1> HIDE DEF L, M
  <1>5. v = Steps(v)
    BY <1>4
  <1>6. u = Steps(u)
    <2> HIDE DEF Steps, v
    <2> QED
      BY <1>5
  <1>7. \A k \in 0 .. M + 1 : u[k] = Follow(nodes, n, u, k)
    <2> HIDE DEF u
    <2> QED
      BY <1>6
  <1>8. \A k \in 0 .. M + 1 : u[k] = v[k]
    <2> DEFINE m == M + 1
    <2>1. m \in Nat
      BY <1>1
    <2>2. Follows(nodes, n, m, u) /\ Follows(nodes, n, m, v)
      BY <1>4, <1>7 DEF Follows
    <2> HIDE DEF u, v, m
    <2>3. \A k \in 0 .. m : u[k] = v[k]
      BY ONLY <2>1, <2>2, FollowsOnce
    <2> QED
      BY <2>3 DEF m
  <1> HIDE DEF u
  <1>9. past = L .. M
    BY <1>1, <1>3, <1>8 DEF L
  <1> HIDE DEF past
  <1>10. len = L
    BY <1>1, <1>9
  <1> HIDE DEF len
  <1>11. \A k \in 1 .. L : u[k - 1] = s[k]
    BY <1>1, <1>8
  <1> QED
    BY <1>1, <1>2, <1>10, <1>11, LenProperties DEF L

LEMMA ChainKept ==
    ASSUME NEW a, NEW b, NEW n, NEW s, Chain(a, n, s),
           \A i \in 1 .. Len(s) : b[s[i]].next = a[s[i]].next
    PROVE  Chain(b, n, s)
  BY DEF Chain

Els(s) == {s[i] : i \in 1 .. Len(s)}

LEMMA ChainTail ==
    ASSUME NEW a, NEW n, NEW s, Chain(a, n, s), n # NULL
    PROVE  /\ s # << >> /\ n \in Node /\ n = s[1] /\ n = Head(s)
           /\ n \in Els(s) /\ n \notin Els(Tail(s))
           /\ Els(Tail(s)) \subseteq Els(s)
           /\ Chain(a, a[n].next, Tail(s))
  <1> DEFINE t == Tail(s)
             L == Len(s)
  <1>1. s # << >> /\ s \in Seq(Node) /\ n = s[1]
    BY DEF Chain
  <1>2. /\ L \in Nat /\ L >= 1
        /\ Head(s) = s[1] /\ t \in Seq(Node) /\ Len(t) = L - 1
        /\ \A i \in 1 .. L - 1 : t[i] = s[i + 1]
        /\ \A i \in 1 .. L : s[i] \in Node
    BY <1>1, HeadTailProperties, EmptySeq, ElementOfSeq
  <1>3. /\ \A i, j \in 1 .. L : s[i] = s[j] => i = j
        /\ \A i \in 1 .. L : a[s[i]].next = IF i = L THEN NULL ELSE s[i + 1]
    BY DEF Chain
  <1> HIDE DEF t
  <1>4. (t = << >>) <=> (L = 1)
    BY <1>2, EmptySeq
  <1> HIDE DEF L
  <1>5. /\ \A i, j \in 1 .. L - 1 : t[i] = t[j] => i = j
        /\ \A i \in 1 .. L - 1 :
              a[t[i]].next = IF i = L - 1 THEN NULL ELSE t[i + 1]
        /\ a[n].next = IF t = << >> THEN NULL ELSE t[1]
    BY SMTT(30), <1>1, <1>2, <1>3, <1>4
  <1>6. Chain(a, a[n].next, t)
    BY <1>2, <1>5 DEF Chain
  <1>7. n \in Els(s) /\ n \notin Els(t) /\ Els(t) \subseteq Els(s) /\ n \in Node
    BY <1>1, <1>2, <1>3 DEF Els, L
  <1> QED
    BY <1>1, <1>2, <1>6, <1>7 DEF t

LEMMA ChainCons ==
    ASSUME NEW a, NEW n, NEW s, Chain(a, n, s),
           NEW m \in Node, m \notin Els(s), a[m].next = n
    PROVE  Chain(a, m, << m >> \o s) /\ Els(<< m >> \o s) = {m} \cup Els(s)
  <1> DEFINE t == << m >> \o s
             L == Len(s)
  <1>1. s \in Seq(Node) /\ << m >> \in Seq(Node) /\ Len(<< m >>) = 1
        /\ << m >>[1] = m
    BY DEF Chain
  <1>2. /\ L \in Nat /\ t \in Seq(Node) /\ Len(t) = L + 1 /\ t[1] = m
        /\ \A i \in 2 .. L + 1 : t[i] = s[i - 1]
    BY <1>1, ConcatProperties, LenProperties
  <1> HIDE DEF t
  <1>3. t # << >> /\ ((s = << >>) <=> (L = 0))
    BY <1>1, <1>2, EmptySeq
  <1>4. /\ \A i, j \in 1 .. L : s[i] = s[j] => i = j
        /\ \A i \in 1 .. L : a[s[i]].next = IF i = L THEN NULL ELSE s[i + 1]
        /\ n = IF s = << >> THEN NULL ELSE s[1]
        /\ \A i \in 1 .. L : s[i] # m
    BY DEF Chain, Els
  <1> HIDE DEF L
  <1>5. ASSUME NEW i \in 1 .. L + 1, NEW j \in 1 .. L + 1, t[i] = t[j]
        PROVE  i = j
    <2>1. \A k \in 1 .. L + 1 :
             k = 1 \/ (k - 1 \in 1 .. L /\ t[k] = s[k - 1] /\ t[k] # m)
      BY <1>2, <1>4
    <2>2. CASE i = 1 \/ j = 1
      BY <1>2, <1>5, <2>1, <2>2
    <2>3. CASE i # 1 /\ j # 1
      <3>1. i - 1 = j - 1
        BY <1>4, <1>5, <2>1, <2>3
      <3> QED
        BY <1>2, <3>1
    <2> QED
      BY <2>2, <2>3
  <1>6. \A i \in 1 .. L + 1 : a[t[i]].next = IF i = L + 1 THEN NULL ELSE t[i + 1]
    <2> SUFFICES ASSUME NEW i \in 1 .. L + 1
                 PROVE  a[t[i]].next = IF i = L + 1 THEN NULL ELSE t[i + 1]
      OBVIOUS
    <2>1. CASE i = 1
      BY <1>2, <1>3, <1>4, <2>1
    <2>2. CASE i # 1
      <3>1. i - 1 \in 1 .. L /\ t[i] = s[i - 1]
        BY <1>2, <2>2
      <3>2. a[s[i - 1]].next = IF i - 1 = L THEN NULL ELSE s[(i - 1) + 1]
        BY <1>4, <3>1
      <3>3. i # L + 1 => t[i + 1] = s[(i - 1) + 1]
        BY <1>2, <2>2
      <3> QED
        BY <1>2, <3>1, <3>2, <3>3
    <2> QED
      BY <2>1, <2>2
  <1>7. Chain(a, m, t)
    BY <1>2, <1>3, <1>5, <1>6 DEF Chain
  <1>8. Els(t) = {m} \cup Els(s)
    <2>1. \A i \in 1 .. L : i + 1 \in 1 .. L + 1 /\ s[i] = t[i + 1]
      BY <1>2
    <2>2. \A i \in 1 .. L + 1 : i = 1 \/ i - 1 \in 1 .. L
      BY <1>2
    <2>3. 1 \in 1 .. L + 1
      BY <1>2
    <2> QED
      BY SMTT(30), <1>2, <2>1, <2>2, <2>3 DEF Els, L
  <1> QED
    BY <1>7, <1>8 DEF t

LEMMA ChainAppend ==
    ASSUME NEW a, NEW b, NEW n, NEW s, Chain(a, n, s),
           NEW m \in Node, m \notin Els(s), b[m].next = NULL,
           \A i \in 1 .. Len(s) :
              b[s[i]].next = IF i = Len(s) THEN m ELSE a[s[i]].next
    PROVE  /\ Chain(b, IF n = NULL THEN m ELSE n, Append(s, m))
           /\ Els(Append(s, m)) = {m} \cup Els(s)
  <1> DEFINE t == Append(s, m)
             L == Len(s)
             k == IF n = NULL THEN m ELSE n
  <1>1. s \in Seq(Node)
    BY DEF Chain
  <1>2. /\ L \in Nat /\ t \in Seq(Node) /\ Len(t) = L + 1 /\ t[L + 1] = m
        /\ \A i \in 1 .. L : t[i] = s[i]
        /\ t # << >>
        /\ \A i \in 1 .. L : s[i] \in Node /\ s[i] # NULL
    BY SMTT(30), <1>1, AppendProperties, LenProperties, ElementOfSeq, Constants
       DEF Node, NULL
  <1> HIDE DEF t
  <1>3. (s = << >>) <=> (L = 0)
    BY <1>1, <1>2, EmptySeq
  <1>4. /\ \A i, j \in 1 .. L : s[i] = s[j] => i = j
        /\ \A i \in 1 .. L : a[s[i]].next = IF i = L THEN NULL ELSE s[i + 1]
        /\ n = IF s = << >> THEN NULL ELSE s[1]
        /\ \A i \in 1 .. L : s[i] # m
        /\ \A i \in 1 .. L : b[s[i]].next = IF i = L THEN m ELSE a[s[i]].next
    BY DEF Chain, Els
  <1> HIDE DEF L
  <1>5. \A i, j \in 1 .. L + 1 : t[i] = t[j] => i = j
    BY <1>2, <1>4
  <1>6. \A i \in 1 .. L + 1 : b[t[i]].next = IF i = L + 1 THEN NULL ELSE t[i + 1]
    <2> SUFFICES ASSUME NEW i \in 1 .. L + 1
                 PROVE  b[t[i]].next = IF i = L + 1 THEN NULL ELSE t[i + 1]
      OBVIOUS
    <2>1. CASE i = L + 1
      BY <1>2, <2>1
    <2>2. CASE i # L + 1
      <3>1. i \in 1 .. L /\ t[i] = s[i]
        BY <1>2, <2>2
      <3>2. b[s[i]].next = IF i = L THEN m ELSE s[i + 1]
        BY <1>4, <3>1
      <3>3. t[i + 1] = IF i = L THEN m ELSE s[i + 1]
        BY <1>2, <3>1
      <3> QED
        BY <2>2, <3>1, <3>2, <3>3
    <2> QED
      BY <2>1, <2>2
  <1>7. k = t[1]
    BY <1>2, <1>3, <1>4
  <1> HIDE DEF k
  <1>8. Chain(b, k, t)
    BY <1>2, <1>5, <1>6, <1>7 DEF Chain
  <1>9. Els(t) = {m} \cup Els(s)
    <2>1. \A i \in 1 .. L : i \in 1 .. L + 1 /\ s[i] = t[i]
      BY <1>2
    <2>2. \A i \in 1 .. L + 1 : i = L + 1 \/ i \in 1 .. L
      BY <1>2
    <2>3. L + 1 \in 1 .. L + 1
      BY <1>2
    <2> QED
      BY <1>2, <2>1, <2>2, <2>3 DEF Els, L
  <1> QED
    BY <1>8, <1>9 DEF t, k

(* The lists f, of the pool, and q, of the clients, have nothing in common *)
(* and the ends of the clients' are known.                                 *)
Apart(nodes, heads, ends, first, f, q) ==
    /\ Chain(nodes, first, f)
    /\ q \in [Clients -> Seq(Node)]
    /\ \A c \in Clients : Chain(nodes, heads[c], q[c])
    /\ \A c \in Clients : Els(q[c]) \cap Els(f) = {}
    /\ \A c, d \in Clients : c # d => Els(q[c]) \cap Els(q[d]) = {}
    /\ \A c \in Clients : heads[c] # NULL => ends[c] = q[c][Len(q[c])]

LEMMA ApartIsLists ==
    ASSUME NEW nodes, NEW heads, NEW ends, NEW first, NEW f, NEW q,
           Apart(nodes, heads, ends, first, f, q)
    PROVE  /\ f = ListIn(nodes, first)
           /\ q = [c \in Clients |-> ListIn(nodes, heads[c])]
  <1>1. \A c \in Clients : q[c] = ListIn(nodes, heads[c])
    BY ChainIsList DEF Apart
  <1>2. f = ListIn(nodes, first)
    BY ChainIsList DEF Apart
  <1>3. q \in [Clients -> Seq(Node)]
    BY DEF Apart
  <1> QED
    BY <1>1, <1>2, <1>3

LEMMA EmptyIffNull ==
    ASSUME NEW nodes, NEW n, NEW s, Chain(nodes, n, s)
    PROVE  /\ s = << >> <=> n = NULL
           /\ Len(s) = 0 <=> n = NULL
           /\ Len(s) \in Nat
           /\ s \in Seq(Node)
           /\ \A i \in 1 .. Len(s) : s[i] \in Node /\ s[i] \in Els(s)
           /\ Els(s) \subseteq Node
  <1>1. s \in Seq(Node)
    BY DEF Chain
  <1>2. s # << >> => s[1] \in Node /\ Len(s) > 0
    BY <1>1, EmptySeq, ElementOfSeq
  <1>3. Len(<< >>) = 0
    BY EmptySeq
  <1>4. NULL \notin Node
    BY Constants DEF Node, NULL
  <1>5. (s = << >>) <=> (n = NULL)
    BY <1>2, <1>4 DEF Chain
  <1>6. Len(s) \in Nat /\ \A i \in 1 .. Len(s) : s[i] \in Node
    BY <1>1, LenProperties, ElementOfSeq
  <1> QED
    BY <1>1, <1>2, <1>3, <1>5, <1>6 DEF Els

(* Nodes that differ in no link.                                           *)
LEMMA ApartKept ==
    ASSUME NEW a, NEW b, NEW heads, NEW ends, NEW first, NEW f, NEW q,
           Apart(a, heads, ends, first, f, q),
           \A m \in Node : b[m].next = a[m].next
    PROVE  Apart(b, heads, ends, first, f, q)
  <1>1. Chain(b, first, f)
    BY ChainKept, EmptyIffNull DEF Apart
  <1>2. \A c \in Clients : Chain(b, heads[c], q[c])
    BY ChainKept, EmptyIffNull DEF Apart
  <1> QED
    BY <1>1, <1>2 DEF Apart

LEMMA EmptyChain ==
    ASSUME NEW nodes
    PROVE  Chain(nodes, NULL, << >>) /\ Els(<< >>) = {}
  BY EmptySeq DEF Chain, Els

(* The client_t is cleared.                                                *)
LEMMA ApartCleared ==
    ASSUME NEW a, NEW heads, NEW ends, NEW first, NEW f, NEW q,
           Apart(a, heads, ends, first, f, q),
           NEW c \in Clients,
           heads \in [Clients -> Node \cup {NULL}],
           ends \in [Clients -> Node \cup {NULL}]
    PROVE  Apart(a, [heads EXCEPT ![c] = NULL], [ends EXCEPT ![c] = NULL],
                 first, f, [q EXCEPT ![c] = << >>])
  <1> DEFINE h == [heads EXCEPT ![c] = NULL]
             e == [ends EXCEPT ![c] = NULL]
             r == [q EXCEPT ![c] = << >>]
  <1>1. << >> \in Seq(Node) /\ q \in [Clients -> Seq(Node)]
    BY EmptySeq DEF Apart
  <1>2. /\ h[c] = NULL /\ r[c] = << >>
        /\ \A d \in Clients : d # c => /\ h[d] = heads[d] /\ e[d] = ends[d]
                                       /\ r[d] = q[d]
        /\ r \in [Clients -> Seq(Node)]
    BY <1>1
  <1> HIDE DEF h, e, r
  <1>3. \A d \in Clients : Chain(a, h[d], r[d])
    BY <1>2, EmptyChain DEF Apart
  <1>4. /\ \A d \in Clients : Els(r[d]) \cap Els(f) = {}
        /\ \A d, b \in Clients : d # b => Els(r[d]) \cap Els(r[b]) = {}
    BY <1>2, EmptyChain DEF Apart
  <1>5. \A d \in Clients : h[d] # NULL => e[d] = r[d][Len(r[d])]
    BY <1>2 DEF Apart
  <1>6. Apart(a, h, e, first, f, r)
    BY <1>2, <1>3, <1>4, <1>5 DEF Apart
  <1> QED
    BY <1>6 DEF h, e, r

With(f, c, v) == [f EXCEPT ![c] = v]

Added(s, n) == Append(s, n)

Rest(s) == Tail(s)

Cons(n, s) == << n >> \o s

(* SV_FreeHeadDelayedPacket.                                               *)
Freed(a, b, n, first) ==
    \A m \in Node : b[m].next = IF m = n THEN first ELSE a[m].next

Gone(n, r, q) ==
    \A d \in Clients : n \notin Els(r[d]) /\ Els(r[d]) \subseteq Els(q[d])

LEMMA ApartFreed ==
    ASSUME NEW a, NEW b, NEW heads, NEW ends, NEW first, NEW f, NEW q,
           Apart(a, heads, ends, first, f, q),
           NEW c \in Clients, NEW n \in Node, n = heads[c],
           heads \in [Clients -> Node \cup {NULL}],
           Freed(a, b, n, first)
    PROVE  /\ Apart(b, With(heads, c, a[n].next), ends, n, Cons(n, f),
                    With(q, c, Rest(q[c])))
           /\ Gone(n, With(q, c, Rest(q[c])), q)
  <1> DEFINE h == With(heads, c, a[n].next)
             r == With(q, c, Rest(q[c]))
             g == Cons(n, f)
             t == Tail(q[c])
  <1> \A m \in Node : b[m].next = IF m = n THEN first ELSE a[m].next
    BY DEF Freed
  <1>1. /\ Chain(a, first, f) /\ Chain(a, n, q[c])
        /\ q \in [Clients -> Seq(Node)]
        /\ \A d \in Clients : Chain(a, heads[d], q[d])
        /\ \A d \in Clients : Els(q[d]) \cap Els(f) = {}
        /\ \A d, k \in Clients : d # k => Els(q[d]) \cap Els(q[k]) = {}
        /\ \A d \in Clients : heads[d] # NULL => ends[d] = q[d][Len(q[d])]
    BY DEF Apart
  <1>2. n # NULL
    BY Constants DEF Node, NULL
  <1>3. /\ q[c] # << >> /\ n = q[c][1] /\ n = Head(q[c])
        /\ n \in Els(q[c]) /\ n \notin Els(t) /\ Els(t) \subseteq Els(q[c])
        /\ Chain(a, a[n].next, t)
    BY <1>1, <1>2, ChainTail
  <1>4. t \in Seq(Node) /\ Len(t) = Len(q[c]) - 1
        /\ \A i \in 1 .. Len(t) : t[i] = q[c][i + 1]
    BY <1>1, <1>3, HeadTailProperties
  <1>5. /\ h[c] = a[n].next /\ r[c] = t
        /\ \A d \in Clients : d # c => h[d] = heads[d] /\ r[d] = q[d]
        /\ r \in [Clients -> Seq(Node)]
    BY <1>1, <1>4 DEF With, Rest
  <1> HIDE DEF h, r, t, g
  <1>6. Chain(b, first, f)
    <2>1. n \notin Els(f)
      BY <1>1, <1>3
    <2>2. \A i \in 1 .. Len(f) : b[f[i]].next = a[f[i]].next
      BY <1>1, <2>1, EmptyIffNull
    <2> QED
      BY <1>1, <2>2, ChainKept
  <1>7. Chain(b, n, g) /\ Els(g) = {n} \cup Els(f)
    <2>1. n \notin Els(f) /\ b[n].next = first
      BY <1>1, <1>3
    <2> QED
      BY <1>6, <2>1, ChainCons DEF g, Cons
  <1>8. \A d \in Clients : Chain(b, h[d], r[d]) /\ n \notin Els(r[d])
    <2> SUFFICES ASSUME NEW d \in Clients
                 PROVE  Chain(b, h[d], r[d]) /\ n \notin Els(r[d])
      OBVIOUS
    <2>1. Chain(a, h[d], r[d]) /\ n \notin Els(r[d])
      BY <1>1, <1>3, <1>5
    <2>2. \A i \in 1 .. Len(r[d]) : b[r[d][i]].next = a[r[d][i]].next
      BY <2>1, EmptyIffNull
    <2> QED
      BY <2>1, <2>2, ChainKept
  <1>9. \A d \in Clients : Els(r[d]) \subseteq Els(q[d])
    BY <1>3, <1>5
  <1>10. /\ \A d \in Clients : Els(r[d]) \cap Els(g) = {}
         /\ \A d, k \in Clients : d # k => Els(r[d]) \cap Els(r[k]) = {}
    <2>1. \A d \in Clients : Els(q[d]) \cap Els(f) = {}
      BY <1>1
    <2>2. \A d \in Clients : Els(r[d]) \cap Els(g) = {}
      <3> SUFFICES ASSUME NEW d \in Clients PROVE Els(r[d]) \cap Els(g) = {}
        OBVIOUS
      <3>1. /\ Els(r[d]) \subseteq Els(q[d]) /\ Els(q[d]) \cap Els(f) = {}
            /\ n \notin Els(r[d]) /\ Els(g) = {n} \cup Els(f)
        BY <1>7, <1>8, <1>9, <2>1
      <3> QED
        BY ONLY <3>1
    <2>3. \A d, k \in Clients : d # k => Els(r[d]) \cap Els(r[k]) = {}
      BY <1>1, <1>9
    <2> QED
      BY <2>2, <2>3
  <1>11. \A d \in Clients : h[d] # NULL => ends[d] = r[d][Len(r[d])]
    <2> SUFFICES ASSUME NEW d \in Clients, h[d] # NULL
                 PROVE  ends[d] = r[d][Len(r[d])]
      OBVIOUS
    <2>1. CASE d # c
      BY <1>1, <1>5, <2>1
    <2>2. CASE d = c
      <3>1. Len(t) \in Nat /\ Len(t) # 0
        BY <1>3, <1>5, <2>2, EmptyIffNull
      <3>2. t[Len(t)] = q[c][Len(q[c])]
        <4> DEFINE k == Len(t)
        <4>1. k \in 1 .. k /\ k + 1 = Len(q[c])
          BY <1>1, <1>4, <3>1, EmptyIffNull
        <4> QED
          BY <1>4, <4>1
      <3>3. ends[c] = q[c][Len(q[c])]
        BY <1>1, <1>2
      <3> QED
        BY <1>5, <2>2, <3>2, <3>3
    <2> QED
      BY <2>1, <2>2
  <1>12. Apart(b, h, ends, n, g, r)
    BY <1>5, <1>7, <1>8, <1>10, <1>11 DEF Apart
  <1> QED
    BY <1>8, <1>9, <1>12 DEF h, r, g, Gone

(* "insert at end of list"                                                 *)
First(head, n) == IF head = NULL THEN n ELSE head

Linked(a, b, n, head, end) ==
    \A m \in Node :
        b[m].next = IF m = n THEN NULL
                    ELSE IF head # NULL /\ m = end THEN n ELSE a[m].next

LEMMA ApartAdded ==
    ASSUME NEW a, NEW b, NEW heads, NEW ends, NEW f, NEW q,
           NEW n \in Node, Apart(a, heads, ends, n, f, q),
           NEW c \in Clients,
           heads \in [Clients -> Node \cup {NULL}],
           ends \in [Clients -> Node \cup {NULL}],
           Linked(a, b, n, heads[c], ends[c])
    PROVE  /\ \A d \in Clients : n \notin Els(q[d]) /\ Els(q[d]) \subseteq Node
           /\ Els(With(q, c, Added(q[c], n))[c]) = {n} \cup Els(q[c])
           /\ Apart(b, With(heads, c, First(heads[c], n)), With(ends, c, n),
                    a[n].next, Rest(f), With(q, c, Added(q[c], n)))
  <1> DEFINE h == With(heads, c, First(heads[c], n))
             e == With(ends, c, n)
             r == With(q, c, Added(q[c], n))
             t == Append(q[c], n)
             g == Rest(f)
  <1> \A m \in Node : b[m].next = IF m = n THEN NULL
                                  ELSE IF heads[c] # NULL /\ m = ends[c] THEN n
                                  ELSE a[m].next
    BY DEF Linked
  <1>1. /\ Chain(a, n, f)
        /\ q \in [Clients -> Seq(Node)]
        /\ \A d \in Clients : Chain(a, heads[d], q[d])
        /\ \A d \in Clients : Els(q[d]) \cap Els(f) = {}
        /\ \A d, k \in Clients : d # k => Els(q[d]) \cap Els(q[k]) = {}
        /\ \A d \in Clients : heads[d] # NULL => ends[d] = q[d][Len(q[d])]
    BY DEF Apart
  <1>2. n # NULL
    BY Constants DEF Node, NULL
  <1>3. /\ n \in Els(f) /\ n \notin Els(g) /\ Els(g) \subseteq Els(f)
        /\ Chain(a, a[n].next, g)
    BY <1>1, <1>2, ChainTail DEF Rest
  <1>4. t \in Seq(Node) /\ Len(t) = Len(q[c]) + 1 /\ t[Len(q[c]) + 1] = n
    BY <1>1, AppendProperties
  <1>5. /\ h[c] = (IF heads[c] = NULL THEN n ELSE heads[c])
        /\ r[c] = t /\ e[c] = n
        /\ \A d \in Clients : d # c => /\ h[d] = heads[d] /\ r[d] = q[d]
                                       /\ e[d] = ends[d]
        /\ r \in [Clients -> Seq(Node)]
    BY <1>1, <1>4 DEF With, Added, First
  <1>6. \A d \in Clients : n \notin Els(q[d])
    BY <1>1, <1>3
  <1> HIDE DEF h, e, r, t, g
  <1>7. heads[c] # NULL => ends[c] \in Els(q[c])
    <2> HAVE heads[c] # NULL
    <2>1. Len(q[c]) \in 1 .. Len(q[c])
      BY <1>1, EmptyIffNull
    <2> QED
      BY <1>1, <2>1 DEF Els
  <1>8. Chain(b, a[n].next, g)
    <2>1. \A i \in 1 .. Len(g) : g[i] \in Node /\ g[i] \in Els(g)
      BY <1>3, EmptyIffNull
    <2>2. \A i \in 1 .. Len(g) : b[g[i]].next = a[g[i]].next
      BY SMTT(30), <1>1, <1>3, <1>7, <2>1
    <2> QED
      BY <1>3, <2>2, ChainKept
  <1>9. Chain(b, h[c], t) /\ Els(t) = {n} \cup Els(q[c])
    <2>1. /\ \A i \in 1 .. Len(q[c]) : q[c][i] \in Node /\ q[c][i] # n
          /\ Len(q[c]) \in Nat
          /\ (Len(q[c]) = 0) <=> (heads[c] = NULL)
      BY <1>1, <1>6, EmptyIffNull
    <2>2. \A i \in 1 .. Len(q[c]) :
             b[q[c][i]].next = IF i = Len(q[c]) THEN n ELSE a[q[c][i]].next
      <3> SUFFICES ASSUME NEW i \in 1 .. Len(q[c])
                   PROVE  b[q[c][i]].next
                              = IF i = Len(q[c]) THEN n ELSE a[q[c][i]].next
        OBVIOUS
      <3>1. heads[c] # NULL /\ Len(q[c]) \in 1 .. Len(q[c])
        BY <2>1
      <3>2. ends[c] = q[c][Len(q[c])]
        BY <1>1, <3>1
      <3>3. q[c][i] = ends[c] <=> i = Len(q[c])
        BY <1>1, <3>1, <3>2 DEF Chain
      <3> QED
        BY <2>1, <3>1, <3>3
    <2>3. b[n].next = NULL /\ n \notin Els(q[c])
      BY <1>6
    <2>4. Chain(a, heads[c], q[c])
      BY <1>1
    <2>5. /\ Chain(b, IF heads[c] = NULL THEN n ELSE heads[c], Append(q[c], n))
          /\ Els(Append(q[c], n)) = {n} \cup Els(q[c])
      BY <2>2, <2>3, <2>4, ChainAppend
    <2> QED
      BY <1>5, <2>5 DEF t
  <1>10. \A d \in Clients : Chain(b, h[d], r[d])
    <2> SUFFICES ASSUME NEW d \in Clients, d # c PROVE Chain(b, h[d], r[d])
      BY <1>5, <1>9
    <2>1. h[d] = heads[d] /\ r[d] = q[d] /\ Chain(a, heads[d], q[d])
      BY <1>1, <1>5
    <2>2. \A i \in 1 .. Len(q[d]) : q[d][i] \in Node /\ q[d][i] \in Els(q[d])
      BY <2>1, EmptyIffNull
    <2>3. \A i \in 1 .. Len(q[d]) : b[q[d][i]].next = a[q[d][i]].next
      BY <1>1, <1>6, <1>7, <2>2
    <2> QED
      BY <2>1, <2>3, ChainKept
  <1>11. /\ \A d \in Clients : Els(r[d]) \cap Els(g) = {}
         /\ \A d, k \in Clients : d # k => Els(r[d]) \cap Els(r[k]) = {}
    <2>1. \A d \in Clients : Els(r[d]) \subseteq {n} \cup Els(q[d])
      BY <1>5, <1>9
    <2>2. \A d \in Clients : d # c => Els(r[d]) = Els(q[d])
      BY <1>5
    <2> QED
      BY <1>1, <1>3, <1>6, <2>1, <2>2
  <1>12. \A d \in Clients : h[d] # NULL => e[d] = r[d][Len(r[d])]
    <2> SUFFICES ASSUME NEW d \in Clients, h[d] # NULL
                 PROVE  e[d] = r[d][Len(r[d])]
      OBVIOUS
    <2>1. CASE d # c
      BY <1>1, <1>5, <2>1
    <2>2. CASE d = c
      BY <1>4, <1>5, <2>2
    <2> QED
      BY <2>1, <2>2
  <1>13. Apart(b, h, e, a[n].next, g, r)
    BY <1>5, <1>8, <1>10, <1>11, <1>12 DEF Apart
  <1> QED
    BY <1>1, <1>5, <1>6, <1>9, <1>13, EmptyIffNull DEF h, e, r, g, t

-----------------------------------------------------------------------------
(* The numbers of the packets in the lists.                                *)

NodeType == [number : Number, kind : {"move", "drop"}, age : 0 .. MaxDelay + 1,
             next : Node \cup {NULL}]

PendingOf(nodes, q) ==
    [c \in Clients |-> [i \in 1 .. Len(q[c]) |-> nodes[q[c][i]].number]]

LEMMA PendingType ==
    ASSUME NEW a \in [Node -> NodeType], NEW q \in [Clients -> Seq(Node)]
    PROVE  /\ PendingOf(a, q) \in [Clients -> Seq(Number)]
           /\ \A c \in Clients :
                 /\ Len(PendingOf(a, q)[c]) = Len(q[c])
                 /\ \A i \in 1 .. Len(q[c]) :
                       PendingOf(a, q)[c][i] = a[q[c][i]].number
  <1>1. ASSUME NEW c \in Clients
        PROVE  /\ PendingOf(a, q)[c] \in Seq(Number)
               /\ Len(PendingOf(a, q)[c]) = Len(q[c])
               /\ \A i \in 1 .. Len(q[c]) :
                     PendingOf(a, q)[c][i] = a[q[c][i]].number
    <2> DEFINE n == Len(q[c])
               s == [i \in 1 .. n |-> a[q[c][i]].number]
    <2>1. n \in Nat /\ \A i \in 1 .. n : q[c][i] \in Node
      BY LenProperties, ElementOfSeq
    <2>2. \A i \in 1 .. n : a[q[c][i]].number \in Number
      BY <2>1 DEF NodeType
    <2>3. PendingOf(a, q)[c] = s
      BY DEF PendingOf
    <2> HIDE DEF n
    <2>4. s \in [1 .. n -> Number] /\ DOMAIN s = 1 .. n
      BY <2>2
    <2>5. s \in Seq(Number) /\ Len(s) = n
      BY <2>1, <2>4
    <2> QED
      BY <2>3, <2>5 DEF n
  <1>2. PendingOf(a, q) \in [Clients -> Seq(Number)]
    <2>1. PendingOf(a, q) = [c \in Clients |-> PendingOf(a, q)[c]]
      BY DEF PendingOf
    <2> QED
      BY <1>1, <2>1
  <1> QED
    BY <1>1, <1>2

LEMMA PendingAt ==
    ASSUME NEW a \in [Node -> NodeType], NEW q \in [Clients -> Seq(Node)],
           NEW c \in Clients
    PROVE  /\ PendingOf(a, q)[c] \in Seq(Number)
           /\ Len(PendingOf(a, q)[c]) = Len(q[c])
           /\ \A i \in 1 .. Len(q[c]) :
                 PendingOf(a, q)[c][i] = a[q[c][i]].number
  BY PendingType

LEMMA PendingSame ==
    ASSUME NEW a \in [Node -> NodeType], NEW b \in [Node -> NodeType],
           NEW q \in [Clients -> Seq(Node)], NEW r \in [Clients -> Seq(Node)],
           NEW c \in Clients, q[c] = r[c],
           \A m \in Els(r[c]) : b[m].number = a[m].number
    PROVE  PendingOf(b, r)[c] = PendingOf(a, q)[c]
  <1>1. \A i \in 1 .. Len(r[c]) : b[r[c][i]].number = a[r[c][i]].number
    BY DEF Els
  <1> QED
    BY <1>1 DEF PendingOf

LEMMA PendingKept ==
    ASSUME NEW a \in [Node -> NodeType], NEW b \in [Node -> NodeType],
           NEW q \in [Clients -> Seq(Node)],
           \A c \in Clients : \A m \in Els(q[c]) : b[m].number = a[m].number
    PROVE  PendingOf(b, q) = PendingOf(a, q)
  <1>1. \A c \in Clients : PendingOf(b, q)[c] = PendingOf(a, q)[c]
    BY PendingSame
  <1>2. /\ PendingOf(a, q) \in [Clients -> Seq(Number)]
        /\ PendingOf(b, q) \in [Clients -> Seq(Number)]
    BY PendingType
  <1> QED
    BY <1>1, <1>2

LEMMA PendingCleared ==
    ASSUME NEW a \in [Node -> NodeType],
           NEW q \in [Clients -> Seq(Node)], NEW c \in Clients
    PROVE  PendingOf(a, [q EXCEPT ![c] = << >>])
               = [PendingOf(a, q) EXCEPT ![c] = << >>]
  <1> DEFINE r == [q EXCEPT ![c] = << >>]
             P == PendingOf(a, q)
             R == PendingOf(a, r)
  <1>1. << >> \in Seq(Node) /\ Len(<< >>) = 0
    BY EmptySeq
  <1>2. /\ r \in [Clients -> Seq(Node)] /\ r[c] = << >>
        /\ \A d \in Clients : d # c => r[d] = q[d]
    BY <1>1
  <1> HIDE DEF r
  <1>3. \A d \in Clients : d # c => R[d] = P[d]
    BY <1>2, PendingSame
  <1>4. R[c] \in Seq(Number) /\ Len(R[c]) = 0
    BY SMTT(30), <1>1, <1>2, PendingType
  <1>5. R[c] = << >>
    BY <1>4, EmptySeq
  <1>6. P \in [Clients -> Seq(Number)] /\ R \in [Clients -> Seq(Number)]
    BY <1>2, PendingType
  <1> HIDE DEF P, R
  <1>7. R = [P EXCEPT ![c] = << >>]
    BY <1>3, <1>5, <1>6
  <1> QED
    BY <1>7 DEF P, R, r

SameNumbers(a, b, q) ==
    \A d \in Clients : \A m \in Els(q[d]) : b[m].number = a[m].number

LEMMA PendingTail ==
    ASSUME NEW a \in [Node -> NodeType], NEW b \in [Node -> NodeType],
           NEW q \in [Clients -> Seq(Node)], NEW c \in Clients, q[c] # << >>,
           NEW r, r = With(q, c, Rest(q[c])), SameNumbers(a, b, r)
    PROVE  /\ PendingOf(a, q)[c] # << >>
           /\ Head(PendingOf(a, q)[c]) = a[q[c][1]].number
           /\ PendingOf(b, r)
                  = With(PendingOf(a, q), c, Rest(PendingOf(a, q)[c]))
  <1> DEFINE P == PendingOf(a, q)
             R == PendingOf(b, r)
             t == Tail(q[c])
             L == Len(q[c])
  <1>1. /\ t \in Seq(Node) /\ Len(t) = L - 1 /\ L \in Nat /\ L >= 1
        /\ \A i \in 1 .. L - 1 : t[i] = q[c][i + 1]
    BY HeadTailProperties, EmptySeq
  <1>2. /\ r \in [Clients -> Seq(Node)] /\ r[c] = t
        /\ \A d \in Clients : d # c => r[d] = q[d]
    BY <1>1 DEF With, Rest
  <1>3. \A d \in Clients : \A m \in Els(r[d]) : b[m].number = a[m].number
    BY DEF SameNumbers
  <1>4. \A d \in Clients : d # c => R[d] = P[d]
    <2> SUFFICES ASSUME NEW d \in Clients, d # c PROVE R[d] = P[d]
      OBVIOUS
    <2>1. /\ r \in [Clients -> Seq(Node)] /\ q[d] = r[d]
          /\ \A m \in Els(r[d]) : b[m].number = a[m].number
      BY <1>2, <1>3
    <2> QED
      BY ONLY ZenonT(30), <2>1, PendingSame, a \in [Node -> NodeType],
         b \in [Node -> NodeType], q \in [Clients -> Seq(Node)], d \in Clients
  <1>5. P \in [Clients -> Seq(Number)] /\ R \in [Clients -> Seq(Number)]
    BY <1>2, PendingType
  <1>6. /\ P[c] \in Seq(Number) /\ Len(P[c]) = L
        /\ \A i \in 1 .. L : P[c][i] = a[q[c][i]].number
    BY PendingAt
  <1>7. /\ R[c] \in Seq(Number) /\ Len(R[c]) = L - 1
        /\ \A i \in 1 .. L - 1 : R[c][i] = b[t[i]].number
    <2>1. /\ R[c] \in Seq(Number) /\ Len(R[c]) = Len(r[c])
          /\ \A i \in 1 .. Len(r[c]) : R[c][i] = b[r[c][i]].number
      BY <1>2, PendingAt
    <2> QED
      BY <1>1, <1>2, <2>1
  <1>8. P[c] # << >>
    BY <1>1, <1>6, EmptySeq
  <1>9. Head(P[c]) = P[c][1]
    BY <1>6, <1>8
  <1>10. /\ Tail(P[c]) \in Seq(Number) /\ Len(Tail(P[c])) = L - 1
         /\ \A i \in 1 .. L - 1 : Tail(P[c])[i] = P[c][i + 1]
    BY <1>6, <1>8, HeadTailProperties
  <1>11. \A i \in 1 .. L - 1 : b[t[i]].number = a[t[i]].number
    <2>1. \A i \in 1 .. Len(t) : t[i] \in Els(r[c])
      BY <1>2 DEF Els
    <2> QED
      BY <1>1, <1>3, <2>1
  <1> HIDE DEF P, R, t, L
  <1>12. \A i \in 1 .. L - 1 : R[c][i] = Tail(P[c])[i]
    <2> SUFFICES ASSUME NEW i \in 1 .. L - 1 PROVE R[c][i] = Tail(P[c])[i]
      OBVIOUS
    <2>1. i + 1 \in 1 .. L
      BY <1>1
    <2>2. P[c][i + 1] = a[q[c][i + 1]].number /\ t[i] = q[c][i + 1]
      BY <1>1, <1>6, <2>1
    <2>3. R[c][i] = b[t[i]].number /\ Tail(P[c])[i] = P[c][i + 1]
          /\ b[t[i]].number = a[t[i]].number
      BY <1>7, <1>10, <1>11
    <2> QED
      BY <2>2, <2>3
  <1>13. R[c] = Tail(P[c])
    BY <1>7, <1>10, <1>12, SeqEqual
  <1>14. R = With(P, c, Rest(P[c]))
    BY <1>4, <1>5, <1>13 DEF With, Rest
  <1> QED
    BY <1>1, <1>6, <1>8, <1>9, <1>14 DEF P, R

LEMMA PendingAppend ==
    ASSUME NEW a \in [Node -> NodeType], NEW b \in [Node -> NodeType],
           NEW q \in [Clients -> Seq(Node)], NEW c \in Clients, NEW n \in Node,
           NEW r, r = With(q, c, Added(q[c], n)), SameNumbers(a, b, q)
    PROVE  PendingOf(b, r) = With(PendingOf(a, q), c,
                                  Added(PendingOf(a, q)[c], b[n].number))
  <1> DEFINE P == PendingOf(a, q)
             R == PendingOf(b, r)
             t == Append(q[c], n)
             L == Len(q[c])
             k == b[n].number
  <1> \A d \in Clients : \A m \in Els(q[d]) : b[m].number = a[m].number
    BY DEF SameNumbers
  <1>1. /\ t \in Seq(Node) /\ Len(t) = L + 1 /\ L \in Nat
        /\ \A i \in 1 .. L : t[i] = q[c][i]
        /\ t[L + 1] = n
    BY AppendProperties, LenProperties
  <1>2. /\ r \in [Clients -> Seq(Node)] /\ r[c] = t
        /\ \A d \in Clients : d # c => r[d] = q[d]
    BY <1>1 DEF With, Added
  <1>3. \A d \in Clients : d # c => R[d] = P[d]
    <2> SUFFICES ASSUME NEW d \in Clients, d # c PROVE R[d] = P[d]
      OBVIOUS
    <2>1. /\ r \in [Clients -> Seq(Node)] /\ q[d] = r[d]
          /\ \A m \in Els(r[d]) : b[m].number = a[m].number
      BY <1>2
    <2> QED
      BY ONLY <2>1, PendingSame, a \in [Node -> NodeType],
         b \in [Node -> NodeType], q \in [Clients -> Seq(Node)], d \in Clients
  <1>4. P \in [Clients -> Seq(Number)] /\ R \in [Clients -> Seq(Number)]
        /\ k \in Number
    BY <1>2, PendingType DEF NodeType
  <1>5. /\ P[c] \in Seq(Number) /\ Len(P[c]) = L
        /\ \A i \in 1 .. L : P[c][i] = a[q[c][i]].number
    BY PendingAt
  <1>6. /\ R[c] \in Seq(Number) /\ Len(R[c]) = L + 1
        /\ \A i \in 1 .. L + 1 : R[c][i] = b[t[i]].number
    <2>1. /\ R[c] \in Seq(Number) /\ Len(R[c]) = Len(r[c])
          /\ \A i \in 1 .. Len(r[c]) : R[c][i] = b[r[c][i]].number
      BY <1>2, PendingAt
    <2> QED
      BY <1>1, <1>2, <2>1
  <1>7. \A i \in 1 .. L : b[q[c][i]].number = a[q[c][i]].number
    BY DEF Els
  <1>8. /\ Append(P[c], k) \in Seq(Number) /\ Len(Append(P[c], k)) = L + 1
        /\ \A i \in 1 .. L : Append(P[c], k)[i] = P[c][i]
        /\ Append(P[c], k)[L + 1] = k
    BY <1>4, <1>5, AppendProperties
  <1>9. R[c][L + 1] = k
    <2>1. L + 1 \in 1 .. L + 1
      BY <1>1
    <2> QED
      BY <1>1, <1>6, <2>1
  <1> HIDE DEF P, R, t, L, k
  <1>10. \A i \in 1 .. L + 1 : R[c][i] = Append(P[c], k)[i]
    <2> SUFFICES ASSUME NEW i \in 1 .. L + 1
                 PROVE  R[c][i] = Append(P[c], k)[i]
      OBVIOUS
    <2>1. CASE i = L + 1
      BY <1>8, <1>9, <2>1
    <2>2. CASE i # L + 1
      <3>1. i \in 1 .. L
        BY <1>1, <2>2
      <3> QED
        BY <1>1, <1>5, <1>6, <1>7, <1>8, <3>1
    <2> QED
      BY <2>1, <2>2
  <1>11. R[c] = Append(P[c], k)
    BY <1>6, <1>8, <1>10, SeqEqual
  <1>12. R = With(P, c, Added(P[c], k))
    BY <1>3, <1>4, <1>11 DEF With, Added
  <1> QED
    BY <1>12 DEF P, R, k

-----------------------------------------------------------------------------
(* The order of the packets: run, waiting and still in the socket.         *)

(* What waits is newer than the last packet run and older than those to    *)
(* come, and in order.                                                     *)
Rising(p, lo, hi) ==
    /\ lo <= hi
    /\ \A i \in 1 .. Len(p) : lo < p[i] /\ p[i] <= hi
    /\ \A i, j \in 1 .. Len(p) : i < j => p[i] < p[j]

Fresh(p, lo, hi, n) ==
    /\ lo < n /\ n <= hi
    /\ \A i \in 1 .. Len(p) : p[i] < n

InTurn(s) ==
    \A i, j \in 1 .. Len(s) :
        i < j /\ s[i].client = s[j].client => s[i].number < s[j].number

FreshFor(P, l, a, m) ==
    Fresh(P[m.client], l[m.client], a[m.client], m.number)

OrderOf(P, l, a, s) ==
    /\ \A c \in Clients : Rising(P[c], l[c], a[c])
    /\ \A i \in 1 .. Len(s) : FreshFor(P, l, a, s[i])
    /\ InTurn(s)

LEMMA NumbersAreNat == Number \subseteq Nat \ {0}
  BY Numbers

LEMMA RisingTail ==
    ASSUME NEW p \in Seq(Number), p # << >>, NEW lo \in Nat, NEW hi \in Nat,
           Rising(p, lo, hi)
    PROVE  /\ Head(p) \in Number /\ lo < Head(p)
           /\ Rising(Tail(p), Head(p), hi)
           /\ \A n \in Number : Fresh(p, lo, hi, n) => Fresh(Tail(p), Head(p), hi, n)
  <1> DEFINE L == Len(p)
             t == Tail(p)
  <1>1. /\ L \in Nat /\ L >= 1 /\ Head(p) = p[1] /\ Len(t) = L - 1
        /\ \A i \in 1 .. L - 1 : t[i] = p[i + 1]
        /\ \A i \in 1 .. L : p[i] \in Nat /\ p[i] \in Number
    <2>1. \A i \in 1 .. L : p[i] \in Number
      BY ElementOfSeq
    <2>2. \A i \in 1 .. L : p[i] \in Nat
      BY <2>1, NumbersAreNat
    <2>3. L \in Nat /\ L # 0
      BY EmptySeq, LenProperties
    <2>4. /\ Head(p) = p[1] /\ Len(t) = L - 1
          /\ \A i \in 1 .. L - 1 : t[i] = p[i + 1]
      BY HeadTailProperties
    <2> QED
      BY <2>1, <2>2, <2>3, <2>4
  <1>2. /\ \A i \in 1 .. L : lo < p[i] /\ p[i] <= hi
        /\ \A i, j \in 1 .. L : i < j => p[i] < p[j]
    BY DEF Rising
  <1> HIDE DEF L, t
  <1>3. 1 \in 1 .. L /\ \A i \in 1 .. L - 1 : i + 1 \in 1 .. L
    BY <1>1
  <1>4. \A i \in 1 .. L - 1 : p[1] < t[i] /\ t[i] <= hi
    BY SMTT(30), <1>1, <1>2, <1>3
  <1>5. \A i, j \in 1 .. L - 1 : i < j => t[i] < t[j]
    BY <1>1, <1>2, <1>3
  <1>6. Rising(t, p[1], hi)
    BY <1>1, <1>2, <1>3, <1>4, <1>5 DEF Rising
  <1>7. ASSUME NEW n \in Number, Fresh(p, lo, hi, n) PROVE Fresh(t, p[1], hi, n)
    BY <1>1, <1>3, <1>7 DEF Fresh, L
  <1> QED
    BY <1>1, <1>2, <1>3, <1>6, <1>7 DEF t

LEMMA RisingAppend ==
    ASSUME NEW p \in Seq(Number), NEW lo \in Nat, NEW hi \in Nat,
           Rising(p, lo, hi), NEW n \in Number, Fresh(p, lo, hi, n)
    PROVE  /\ Rising(Append(p, n), lo, hi)
           /\ \A k \in Number : Fresh(p, lo, hi, k) /\ n < k
                                => Fresh(Append(p, n), lo, hi, k)
  <1> DEFINE L == Len(p)
             t == Append(p, n)
  <1>1. /\ L \in Nat /\ Len(t) = L + 1 /\ t[L + 1] = n
        /\ \A i \in 1 .. L : t[i] = p[i]
        /\ \A i \in 1 .. L : p[i] \in Nat
        /\ n \in Nat
    <2>1. \A i \in 1 .. L : p[i] \in Number
      BY ElementOfSeq
    <2>2. \A i \in 1 .. L : p[i] \in Nat
      BY <2>1, NumbersAreNat
    <2>3. n \in Nat
      BY NumbersAreNat
    <2>4. /\ L \in Nat /\ Len(t) = L + 1 /\ t[L + 1] = n
          /\ \A i \in 1 .. L : t[i] = p[i]
      BY AppendProperties, LenProperties
    <2> QED
      BY <2>2, <2>3, <2>4
  <1>2. /\ \A i \in 1 .. L : lo < p[i] /\ p[i] <= hi /\ p[i] < n
        /\ \A i, j \in 1 .. L : i < j => p[i] < p[j]
        /\ lo < n /\ n <= hi /\ lo <= hi
    BY DEF Rising, Fresh
  <1> HIDE DEF L, t
  <1>3. \A i \in 1 .. L + 1 : i = L + 1 \/ i \in 1 .. L
    BY <1>1
  <1>4. \A i \in 1 .. L + 1 : lo < t[i] /\ t[i] <= hi
    BY <1>1, <1>2, <1>3
  <1>5. \A i, j \in 1 .. L + 1 : i < j => t[i] < t[j]
    <2> SUFFICES ASSUME NEW i \in 1 .. L + 1, NEW j \in 1 .. L + 1, i < j
                 PROVE  t[i] < t[j]
      OBVIOUS
    <2>1. i \in 1 .. L /\ t[i] = p[i]
      BY <1>1
    <2>2. CASE j = L + 1
      BY <1>1, <1>2, <2>1, <2>2
    <2>3. CASE j # L + 1
      <3>1. j \in 1 .. L /\ t[j] = p[j]
        BY <1>1, <2>3
      <3> QED
        BY <1>2, <2>1, <3>1
    <2> QED
      BY <2>2, <2>3
  <1>6. Rising(t, lo, hi)
    BY <1>1, <1>2, <1>4, <1>5 DEF Rising
  <1>7. ASSUME NEW k \in Number, Fresh(p, lo, hi, k), n < k
        PROVE  Fresh(t, lo, hi, k)
    BY <1>1, <1>3, <1>7 DEF Fresh, L
  <1> QED
    BY <1>6, <1>7 DEF t

(* The types of what is put in order.                                      *)
OrderType(P, l, a, s) ==
    /\ P \in [Clients -> Seq(Number)]
    /\ l \in [Clients -> {0} \cup Number] /\ a \in [Clients -> {0} \cup Number]
    /\ s \in Seq(Packet)

LEMMA OrderTypes ==
    ASSUME NEW P, NEW l, NEW a, NEW s, OrderType(P, l, a, s)
    PROVE  /\ \A c \in Clients : P[c] \in Seq(Number) /\ l[c] \in Nat /\ a[c] \in Nat
           /\ Len(s) \in Nat
           /\ \A i \in 1 .. Len(s) : /\ s[i] \in Packet /\ s[i].client \in Clients
                                     /\ s[i].number \in Number
  <1>1. \A i \in 1 .. Len(s) : s[i] \in Packet
    BY ElementOfSeq DEF OrderType
  <1>2. Len(s) \in Nat
    BY LenProperties DEF OrderType
  <1>3. \A i \in 1 .. Len(s) : /\ s[i] \in Packet /\ s[i].client \in Clients
                               /\ s[i].number \in Number
    BY <1>1 DEF Packet
  <1>4. \A c \in Clients : P[c] \in Seq(Number) /\ l[c] \in Nat /\ a[c] \in Nat
    <2> SUFFICES ASSUME NEW c \in Clients
                 PROVE  P[c] \in Seq(Number) /\ l[c] \in Nat /\ a[c] \in Nat
      OBVIOUS
    <2>1. /\ P[c] \in Seq(Number) /\ l[c] \in {0} \cup Number
          /\ a[c] \in {0} \cup Number
      BY DEF OrderType
    <2>2. \A x \in {0} \cup Number : x \in Nat
      BY NumbersAreNat
    <2> QED
      BY ONLY <2>1, <2>2
  <1> QED
    BY <1>2, <1>3, <1>4

(* The packet at the head of the socket.                                   *)
LEMMA Taken ==
    ASSUME NEW P, NEW l, NEW a, NEW s, OrderType(P, l, a, s),
           OrderOf(P, l, a, s), s # << >>
    PROVE  /\ Head(s) \in Packet /\ Head(s).client \in Clients
           /\ Head(s).number \in Number
           /\ FreshFor(P, l, a, Head(s))
           /\ Tail(s) \in Seq(Packet)
           /\ \A i \in 1 .. Len(Tail(s)) :
                 /\ Tail(s)[i] \in Packet
                 /\ Tail(s)[i].client \in Clients
                 /\ Tail(s)[i].number \in Number
                 /\ FreshFor(P, l, a, Tail(s)[i])
                 /\ Tail(s)[i].client = Head(s).client
                    => Head(s).number < Tail(s)[i].number
           /\ InTurn(Tail(s))
  <1> DEFINE L == Len(s)
             t == Tail(s)
  <1>1. s \in Seq(Packet) /\ L \in Nat
        /\ \A i \in 1 .. L : /\ s[i] \in Packet /\ s[i].client \in Clients
                             /\ s[i].number \in Number
    BY OrderTypes DEF OrderType
  <1>2. /\ L >= 1 /\ Head(s) = s[1] /\ t \in Seq(Packet) /\ Len(t) = L - 1
        /\ \A i \in 1 .. L - 1 : t[i] = s[i + 1]
    BY <1>1, HeadTailProperties, EmptySeq
  <1>3. /\ \A i \in 1 .. L : FreshFor(P, l, a, s[i])
        /\ \A i, j \in 1 .. L :
              i < j /\ s[i].client = s[j].client => s[i].number < s[j].number
    BY DEF OrderOf, InTurn
  <1> HIDE DEF L, t
  <1>4. 1 \in 1 .. L /\ \A i \in 1 .. L - 1 : i + 1 \in 1 .. L /\ 1 < i + 1
    BY <1>1, <1>2
  <1>5. ASSUME NEW i \in 1 .. L - 1, NEW j \in 1 .. L - 1,
               i < j, t[i].client = t[j].client
        PROVE  t[i].number < t[j].number
    <2>1. i + 1 \in 1 .. L /\ j + 1 \in 1 .. L /\ i + 1 < j + 1
      BY <1>1, <1>5
    <2>2. t[i] = s[i + 1] /\ t[j] = s[j + 1]
      BY <1>2
    <2> DEFINE k == i + 1
               m == j + 1
    <2>3. /\ k \in 1 .. L /\ m \in 1 .. L /\ k < m
          /\ t[i] = s[k] /\ t[j] = s[m]
      BY <2>1, <2>2
    <2> HIDE DEF k, m
    <2> QED
      BY <1>3, <1>5, <2>3
  <1>6. \A i \in 1 .. L - 1 :
           /\ t[i] \in Packet /\ t[i].client \in Clients
           /\ t[i].number \in Number /\ FreshFor(P, l, a, t[i])
    BY <1>1, <1>2, <1>3, <1>4
  <1>7. \A i \in 1 .. L - 1 :
           t[i].client = s[1].client => s[1].number < t[i].number
    BY <1>2, <1>3, <1>4
  <1>8. /\ s[1] \in Packet /\ s[1].client \in Clients
        /\ s[1].number \in Number /\ FreshFor(P, l, a, s[1])
    BY <1>1, <1>3, <1>4
  <1>9. InTurn(t)
    BY <1>2, <1>5 DEF InTurn
  <1> QED
    BY <1>2, <1>6, <1>7, <1>8, <1>9 DEF t

LEMMA OrderArrives ==
    ASSUME NEW P, NEW l, NEW a, NEW s, OrderType(P, l, a, s),
           OrderOf(P, l, a, s), NEW c \in Clients, NEW m \in Packet,
           m.client = c, m.number = a[c] + 1
    PROVE  OrderOf(P, l, [a EXCEPT ![c] = @ + 1], Append(s, m))
  <1> DEFINE L == Len(s)
             t == Append(s, m)
             b == [a EXCEPT ![c] = @ + 1]
  <1>1. /\ \A d \in Clients : P[d] \in Seq(Number) /\ l[d] \in Nat /\ a[d] \in Nat
        /\ L \in Nat
        /\ \A i \in 1 .. L : /\ s[i] \in Packet /\ s[i].client \in Clients
                             /\ s[i].number \in Number
        /\ \A d \in Clients : \A i \in 1 .. Len(P[d]) : P[d][i] \in Nat
        /\ Number \subseteq Nat
    <2>1. /\ \A d \in Clients : P[d] \in Seq(Number) /\ l[d] \in Nat /\ a[d] \in Nat
          /\ L \in Nat
          /\ \A i \in 1 .. L : /\ s[i] \in Packet /\ s[i].client \in Clients
                               /\ s[i].number \in Number
      BY OrderTypes
    <2>2. Number \subseteq Nat
      BY NumbersAreNat
    <2>3. \A d \in Clients : \A i \in 1 .. Len(P[d]) : P[d][i] \in Number
      BY <2>1, ElementOfSeq
    <2> QED
      BY <2>1, <2>2, <2>3
  <1>2. /\ Len(t) = L + 1 /\ t[L + 1] = m /\ \A i \in 1 .. L : t[i] = s[i]
        /\ t \in Seq(Packet)
    BY AppendProperties DEF OrderType
  <1>3. /\ b[c] = a[c] + 1 /\ \A d \in Clients : d # c => b[d] = a[d]
        /\ \A d \in Clients : b[d] \in Nat /\ a[d] <= b[d]
    BY <1>1 DEF OrderType
  <1> HIDE DEF L, t, b
  <1>4. \A d \in Clients : Rising(P[d], l[d], b[d])
    <2> SUFFICES ASSUME NEW d \in Clients PROVE Rising(P[d], l[d], b[d])
      OBVIOUS
    <2>1. Rising(P[d], l[d], a[d])
      BY DEF OrderOf
    <2>2. /\ l[d] \in Nat /\ a[d] \in Nat /\ b[d] \in Nat /\ a[d] <= b[d]
          /\ \A i \in 1 .. Len(P[d]) : P[d][i] \in Nat
      BY <1>1, <1>3
    <2> QED
      BY ONLY <2>1, <2>2 DEF Rising
  <1>5. \A i \in 1 .. L + 1 : i = L + 1 \/ i \in 1 .. L
    BY <1>1
  <1>6. FreshFor(P, l, b, m)
    <2>1. Rising(P[c], l[c], a[c])
      BY DEF OrderOf
    <2> QED
      BY <1>1, <1>3, <2>1 DEF FreshFor, Fresh, Rising
  <1>7. \A i \in 1 .. L : FreshFor(P, l, b, s[i])
    <2> SUFFICES ASSUME NEW i \in 1 .. L PROVE FreshFor(P, l, b, s[i])
      OBVIOUS
    <2> DEFINE d == s[i].client
    <2>1. FreshFor(P, l, a, s[i])
      BY DEF OrderOf, L
    <2>2. d \in Clients /\ s[i].number \in Nat
      BY <1>1
    <2> QED
      BY <1>1, <1>3, <2>1, <2>2 DEF FreshFor, Fresh
  <1>8. \A i \in 1 .. L : s[i].client = c => s[i].number < m.number
    <2> SUFFICES ASSUME NEW i \in 1 .. L, s[i].client = c
                 PROVE  s[i].number < m.number
      OBVIOUS
    <2>1. FreshFor(P, l, a, s[i])
      BY DEF OrderOf, L
    <2>2. s[i].number <= a[c]
      BY <2>1 DEF FreshFor, Fresh
    <2>3. s[i].number \in Nat /\ a[c] \in Nat
      BY <1>1
    <2> QED
      BY <2>2, <2>3
  <1>9. \A i \in 1 .. L + 1 : FreshFor(P, l, b, t[i])
    BY <1>2, <1>5, <1>6, <1>7
  <1>10. InTurn(t)
    <2> SUFFICES ASSUME NEW i \in 1 .. L + 1, NEW j \in 1 .. L + 1, i < j,
                        t[i].client = t[j].client
                 PROVE  t[i].number < t[j].number
      BY <1>2 DEF InTurn
    <2>1. i \in 1 .. L
      BY <1>1
    <2>2. CASE j = L + 1
      BY <1>2, <1>8, <2>1, <2>2
    <2>3. CASE j # L + 1
      BY <1>2, <1>5, <2>1, <2>3 DEF OrderOf, InTurn, L
    <2> QED
      BY <2>2, <2>3
  <1> QED
    BY <1>2, <1>4, <1>9, <1>10 DEF OrderOf, t, b

(* A step that leaves the socket as it is or takes its head: what waits    *)
(* for one client and its last packet change.                              *)
LEMMA OrderChanges ==
    ASSUME NEW P, NEW l, NEW a, NEW s, OrderType(P, l, a, s),
           OrderOf(P, l, a, s), NEW c \in Clients,
           NEW p \in Seq(Number), NEW n \in {0} \cup Number,
           NEW t, t = s \/ (s # << >> /\ t = Tail(s)),
           Rising(p, n, a[c]),
           \A i \in 1 .. Len(t) :
              t[i].client = c /\ Fresh(P[c], l[c], a[c], t[i].number)
              => Fresh(p, n, a[c], t[i].number)
    PROVE  OrderOf([P EXCEPT ![c] = p], [l EXCEPT ![c] = n], a, t)
  <1> DEFINE Q == [P EXCEPT ![c] = p]
             m == [l EXCEPT ![c] = n]
  <1>1. /\ Q[c] = p /\ m[c] = n
        /\ \A d \in Clients : d # c => Q[d] = P[d] /\ m[d] = l[d]
    BY DEF OrderType
  <1> HIDE DEF Q, m
  <1>2. /\ \A i \in 1 .. Len(t) : FreshFor(P, l, a, t[i]) /\ t[i].client \in Clients
        /\ InTurn(t)
    <2>1. CASE t = s
      BY <2>1, OrderTypes DEF OrderOf
    <2>2. CASE s # << >> /\ t = Tail(s)
      BY <2>2, Taken
    <2> QED
      BY <2>1, <2>2
  <1>3. \A d \in Clients : Rising(Q[d], m[d], a[d])
    BY <1>1 DEF OrderOf
  <1>4. \A i \in 1 .. Len(t) : FreshFor(Q, m, a, t[i])
    <2> SUFFICES ASSUME NEW i \in 1 .. Len(t) PROVE FreshFor(Q, m, a, t[i])
      OBVIOUS
    <2>1. FreshFor(P, l, a, t[i]) /\ t[i].client \in Clients
      BY <1>2
    <2>2. CASE t[i].client = c
      BY <1>1, <2>1, <2>2 DEF FreshFor
    <2>3. CASE t[i].client # c
      BY <1>1, <2>1, <2>3 DEF FreshFor
    <2> QED
      BY <2>2, <2>3
  <1> QED
    BY <1>2, <1>3, <1>4 DEF OrderOf, Q, m

-----------------------------------------------------------------------------
(* The inductive invariant.                                                *)

Free == List(free_packets)

Queue == [c \in Clients |-> List(packets[c])]

ListsOK == Apart(node, packets, last_packet, free_packets, Free, Queue)

(* A packet held back has its time.                                        *)
Aged == \A c \in Clients : \A m \in Els(Queue[c]) : node[m].age >= 1

InOrder == OrderOf(Pending, last, arrived, socket)

(* When new packets are read, the first loop has run all that was due: a   *)
(* client without a delay has nothing left that a new packet could         *)
(* overtake.                                                               *)
Prompt ==
    phase = "new" =>
        \A c \in Clients :
            state[c] # "free" /\ packets[c] # NULL => delay[c] > 0

IInv == TypeOK /\ ListsOK /\ Aged /\ InOrder /\ Prompt

LEMMA PendingIs ==
    ASSUME NEW a, NEW heads, NEW q \in [Clients -> Seq(Node)],
           q = [c \in Clients |-> ListIn(a, heads[c])]
    PROVE  [c \in Clients |-> [i \in DOMAIN ListIn(a, heads[c]) |->
                                  a[ListIn(a, heads[c])[i]].number]]
               = PendingOf(a, q)
  <1>1. ASSUME NEW c \in Clients
        PROVE  [i \in DOMAIN ListIn(a, heads[c]) |->
                                  a[ListIn(a, heads[c])[i]].number]
               = [i \in 1 .. Len(q[c]) |-> a[q[c][i]].number]
    <2>1. q[c] = ListIn(a, heads[c]) /\ q[c] \in Seq(Node)
      OBVIOUS
    <2>2. DOMAIN q[c] = 1 .. Len(q[c])
      BY <2>1, LenProperties
    <2> QED
      BY <2>1, <2>2
  <1> QED
    BY <1>1 DEF PendingOf

LEMMA Facts ==
    ASSUME TypeOK, ListsOK
    PROVE  /\ node \in [Node -> NodeType]
           /\ packets \in [Clients -> Node \cup {NULL}]
           /\ last_packet \in [Clients -> Node \cup {NULL}]
           /\ free_packets \in Node \cup {NULL}
           /\ Queue \in [Clients -> Seq(Node)]
           /\ Pending = PendingOf(node, Queue)
           /\ OrderType(Pending, last, arrived, socket)
  <1>1. /\ node \in [Node -> NodeType]
        /\ packets \in [Clients -> Node \cup {NULL}]
        /\ last_packet \in [Clients -> Node \cup {NULL}]
        /\ free_packets \in Node \cup {NULL}
        /\ last \in [Clients -> {0} \cup Number]
        /\ arrived \in [Clients -> {0} \cup Number]
        /\ socket \in Seq(Packet)
    BY DEF TypeOK, NodeType
  <1>2. Queue \in [Clients -> Seq(Node)]
    BY DEF ListsOK, Apart
  <1>3. Queue = [c \in Clients |-> ListIn(node, packets[c])]
    BY DEF Queue, List
  <1>4. Pending = PendingOf(node, Queue)
    BY <1>2, <1>3, PendingIs DEF Pending, List
  <1>5. Pending \in [Clients -> Seq(Number)]
    BY <1>1, <1>2, <1>4, PendingType
  <1> QED
    BY <1>1, <1>2, <1>4, <1>5 DEF OrderType

(* The lists after a step.                                                 *)
LEMMA ListsNext ==
    ASSUME NEW f, NEW q,
           Apart(node', packets', last_packet', free_packets', f, q)
    PROVE  ListsOK' /\ Free' = f /\ Queue' = q /\ Pending' = PendingOf(node', q)
  <1>1. /\ f = ListIn(node', free_packets')
        /\ q = [c \in Clients |-> ListIn(node', packets'[c])]
    BY ApartIsLists
  <1>2. Free' = f /\ Queue' = q
    BY <1>1 DEF Free, Queue, List
  <1>3. ListsOK'
    BY <1>2 DEF ListsOK
  <1>4. q \in [Clients -> Seq(Node)]
    BY DEF Apart
  <1>5. Pending' = PendingOf(node', q)
    BY <1>1, <1>4, PendingIs DEF Pending, List
  <1> QED
    BY <1>2, <1>3, <1>5

LEMMA ListsSame ==
    ASSUME UNCHANGED lists
    PROVE  /\ Free' = Free /\ Queue' = Queue /\ Pending' = Pending
           /\ ListsOK => ListsOK'
           /\ Aged => Aged'
  BY DEF lists, Free, Queue, Pending, List, ListsOK, Aged

LEMMA InitInv == Init => IInv /\ Line!Init
  <1> SUFFICES ASSUME Init PROVE IInv /\ Line!Init
    OBVIOUS
  <1> DEFINE M == MAX_DELAYED_PACKETS
             f == [i \in 1 .. M |-> i]
             q == [c \in Clients |-> << >>]
  <1>1. M \in Nat /\ M >= 1
    BY Constants
  <1>2. PICK m \in Nat \ {0} : Number = 1 .. m
    BY Numbers
  <1>3. TypeOK
    <2>1. 1 \in Node /\ 1 \in Number
      BY <1>1, <1>2 DEF Node
    <2>2. node \in [Node -> [number : Number, kind : {"move", "drop"},
                             age : 0 .. MaxDelay + 1,
                             next : Node \cup {NULL}]]
      <3>1. node = [n \in Node |-> [Unused EXCEPT !.next =
                       IF n = MAX_DELAYED_PACKETS THEN NULL ELSE n + 1]]
        BY DEF Init
      <3>2. \A n \in Node :
               (IF n = MAX_DELAYED_PACKETS THEN NULL ELSE n + 1) \in Node \cup {NULL}
        BY <1>1 DEF Node
      <3>3. 0 \in 0 .. MaxDelay + 1
        BY Constants
      <3> QED
        BY <2>1, <3>1, <3>2, <3>3 DEF Unused
    <2>3. << >> \in Seq(Packet)
      BY EmptySeq
    <2> QED
      BY <2>1, <2>2, <2>3 DEF TypeOK, Init
  <1>4. Chain(node, free_packets, f)
    <2>1. f \in Seq(Node) /\ Len(f) = M /\ f # << >> /\ f[1] = 1
      <3>1. f \in [1 .. M -> Node]
        BY DEF Node
      <3>2. f \in Seq(Node) /\ Len(f) = M
        BY <1>1, <3>1
      <3> QED
        BY <1>1, <3>2, EmptySeq
    <2>2. \A i \in 1 .. M : f[i] = i
      OBVIOUS
    <2>3. \A i \in 1 .. M : node[i].next = IF i = M THEN NULL ELSE i + 1
      BY DEF Init, Node, Unused
    <2>4. \A i \in 1 .. M : i # M => i + 1 \in 1 .. M
      BY <1>1
    <2>5. free_packets = 1
      BY DEF Init
    <2> HIDE DEF f
    <2> QED
      BY <2>1, <2>2, <2>3, <2>4, <2>5 DEF Chain
  <1>5. Apart(node, packets, last_packet, free_packets, f, q)
    <2>1. packets = [c \in Clients |-> NULL]
      BY DEF Init
    <2>2. q \in [Clients -> Seq(Node)]
      BY EmptySeq
    <2>3. \A c \in Clients : q[c] = << >> /\ packets[c] = NULL
      BY <2>1
    <2> HIDE DEF f, q
    <2>4. \A c \in Clients : Chain(node, packets[c], q[c]) /\ Els(q[c]) = {}
      BY <2>3, EmptyChain
    <2> QED
      BY <1>4, <2>2, <2>3, <2>4 DEF Apart
  <1>6. Free = f /\ Queue = q
    <2>1. /\ f = ListIn(node, free_packets)
          /\ q = [c \in Clients |-> ListIn(node, packets[c])]
      <3> HIDE DEF f, q
      <3> QED
        BY <1>5, ApartIsLists
    <2> QED
      BY <2>1 DEF Free, Queue, List
  <1>7. ListsOK
    BY <1>5, <1>6 DEF ListsOK
  <1>8. /\ OrderType(Pending, last, arrived, socket)
        /\ Pending = PendingOf(node, Queue)
    BY <1>3, <1>7, Facts
  <1>9. \A c \in Clients : Queue[c] = << >> /\ Len(Queue[c]) = 0 /\ Els(Queue[c]) = {}
    BY <1>6, EmptyChain, EmptySeq
  <1>10. \A c \in Clients : Pending[c] = << >> /\ Len(Pending[c]) = 0
    <2>1. \A c \in Clients : Pending[c] \in Seq(Number) /\ Len(Pending[c]) = 0
      BY <1>3, <1>7, <1>8, <1>9, Facts, PendingAt
    <2> QED
      BY <2>1, EmptySeq
  <1>11. Pending = [c \in Clients |-> << >>]
    BY <1>8, <1>10 DEF OrderType
  <1>12. InOrder
    <2>1. /\ last = [c \in Clients |-> 0] /\ arrived = [c \in Clients |-> 0]
          /\ socket = << >> /\ Len(socket) = 0
      BY EmptySeq DEF Init
    <2>2. \A c \in Clients : Rising(Pending[c], last[c], arrived[c])
      BY <1>10, <2>1 DEF Rising
    <2> QED
      BY <2>1, <2>2 DEF InOrder, OrderOf, InTurn
  <1>13. Aged /\ Prompt
    BY <1>9 DEF Aged, Prompt, Init
  <1>14. Line!Init
    BY <1>11 DEF Line!Init, Init
  <1> QED
    BY <1>3, <1>7, <1>12, <1>13, <1>14 DEF IInv

-----------------------------------------------------------------------------
(* The steps that leave the lists alone.                                   *)

Line_vars == <<Pending, last>>

LEMMA ArriveKeeps ==
    ASSUME IInv, NEW c \in Clients, NEW kind \in {"move", "drop", "connect"},
           Arrive(c, kind)
    PROVE  IInv' /\ UNCHANGED Line_vars
  <1> DEFINE m == [client |-> c, number |-> arrived[c] + 1, kind |-> kind]
  <1>1. /\ arrived[c] < MaxPackets[c]
        /\ arrived' = [arrived EXCEPT ![c] = @ + 1]
        /\ socket' = Append(socket, [client |-> c, number |-> arrived'[c],
                                     kind |-> kind])
        /\ UNCHANGED <<phase, paused, state, delay, lists, last>>
    BY DEF Arrive
  <1>2. /\ arrived \in [Clients -> {0} \cup Number] /\ socket \in Seq(Packet)
        /\ TypeOK /\ ListsOK
    BY DEF IInv, TypeOK
  <1>3. arrived[c] + 1 \in Number
    <2>1. PICK x \in Nat \ {0} :
              Number = 1 .. x /\ \A d \in Clients : MaxPackets[d] <= x
      BY Numbers
    <2>2. MaxPackets[c] \in Nat /\ MaxPackets[c] <= x
      BY <2>1, Constants
    <2> QED
      BY <1>1, <1>2, <2>1, <2>2
  <1>4. m \in Packet /\ m.client = c /\ m.number = arrived[c] + 1
    BY <1>3 DEF Packet
  <1>5. socket' = Append(socket, m)
    BY <1>1, <1>2
  <1>6. /\ arrived' \in [Clients -> {0} \cup Number] /\ socket' \in Seq(Packet)
    <2> HIDE DEF m
    <2> QED
      BY <1>1, <1>2, <1>3, <1>4, <1>5, AppendProperties
  <1>7. TypeOK'
    BY <1>1, <1>2, <1>6 DEF TypeOK, lists
  <1>8. /\ Pending' = Pending /\ ListsOK' /\ Aged'
    BY <1>1, ListsSame DEF IInv
  <1>9. InOrder'
    <2>1. OrderType(Pending, last, arrived, socket)
      BY <1>2, Facts
    <2>2. OrderOf(Pending, last, arrived, socket)
      BY DEF IInv, InOrder
    <2> HIDE DEF m
    <2>3. OrderOf(Pending, last, [arrived EXCEPT ![c] = @ + 1], Append(socket, m))
      BY <1>4, <2>1, <2>2, OrderArrives
    <2> QED
      BY <1>1, <1>5, <1>8, <2>3 DEF InOrder
  <1>10. Prompt'
    BY <1>1 DEF IInv, Prompt, lists
  <1> QED
    BY <1>1, <1>7, <1>8, <1>9, <1>10 DEF IInv, Line_vars

LEMMA StandStill ==
    ASSUME IInv, UNCHANGED <<lists, last, arrived, socket>>
    PROVE  ListsOK' /\ Aged' /\ InOrder' /\ UNCHANGED Line_vars
  <1>1. Pending' = Pending /\ ListsOK' /\ Aged'
    BY ListsSame DEF IInv
  <1> QED
    BY <1>1 DEF IInv, InOrder, Line_vars

LEMMA TogglePauseKeeps ==
    ASSUME IInv, TogglePause PROVE IInv' /\ UNCHANGED Line_vars
  <1>1. /\ UNCHANGED <<lists, last, arrived, socket>>
        /\ paused' = ~paused
        /\ UNCHANGED <<phase, state, delay, lists>>
    BY DEF TogglePause
  <1>2. ListsOK' /\ Aged' /\ InOrder' /\ UNCHANGED Line_vars
    BY <1>1, StandStill
  <1>3. TypeOK'
    BY <1>1 DEF IInv, TypeOK, lists
  <1>4. Prompt'
    BY <1>1 DEF IInv, Prompt, lists
  <1> QED
    BY <1>2, <1>3, <1>4 DEF IInv

LEMMA CheckTimeoutsKeeps ==
    ASSUME IInv, NEW c \in Clients, SV_CheckTimeouts(c)
    PROVE  IInv' /\ UNCHANGED Line_vars
  <1>1. /\ UNCHANGED <<lists, last, arrived, socket>>
        /\ phase = "frame" /\ phase' = phase
        /\ state' = [state EXCEPT ![c] = "free"]
        /\ UNCHANGED <<paused, delay, lists>>
    BY DEF SV_CheckTimeouts
  <1>2. ListsOK' /\ Aged' /\ InOrder' /\ UNCHANGED Line_vars
    BY <1>1, StandStill
  <1>3. TypeOK'
    BY <1>1 DEF IInv, TypeOK, lists
  <1>4. Prompt'
    BY <1>1 DEF Prompt
  <1> QED
    BY <1>2, <1>3, <1>4 DEF IInv

LEMMA EndDelayedKeeps ==
    ASSUME IInv, EndDelayed PROVE IInv' /\ UNCHANGED Line_vars
  <1>1. /\ UNCHANGED <<lists, last, arrived, socket>>
        /\ \A c \in Clients : ~CanRun(c)
        /\ phase' = "new"
        /\ UNCHANGED <<paused, state, delay, lists>>
    BY DEF EndDelayed
  <1>2. ListsOK' /\ Aged' /\ InOrder' /\ UNCHANGED Line_vars
    BY <1>1, StandStill
  <1>3. TypeOK'
    BY <1>1 DEF IInv, TypeOK, lists
  <1>4. \A c \in Clients : state[c] # "free" /\ packets[c] # NULL => delay[c] > 0
    <2> SUFFICES ASSUME NEW c \in Clients, state[c] # "free", packets[c] # NULL
                 PROVE  delay[c] > 0
      OBVIOUS
    <2>1. ~(node[packets[c]].age > delay[c])
      BY <1>1 DEF CanRun, Due
    <2>2. Chain(node, packets[c], Queue[c])
      BY DEF IInv, ListsOK, Apart
    <2>3. packets[c] \in Els(Queue[c])
      BY <2>2, ChainTail
    <2>4. node[packets[c]].age >= 1
      BY <2>3 DEF IInv, Aged
    <2>5. node[packets[c]].age \in Int /\ delay[c] \in Int
      <3>1. packets[c] \in Node /\ delay[c] \in 0 .. MaxDelay
            /\ node \in [Node -> NodeType]
        BY Facts DEF IInv, TypeOK
      <3> QED
        BY <3>1 DEF NodeType
    <2> QED
      BY <2>1, <2>4, <2>5
  <1>5. Prompt'
    BY <1>1, <1>4 DEF Prompt, lists
  <1> QED
    BY <1>2, <1>3, <1>5 DEF IInv

LEMMA EndNewKeeps ==
    ASSUME IInv, EndNew PROVE IInv' /\ UNCHANGED Line_vars
  <1>1. /\ UNCHANGED <<lists, last, arrived, socket>>
        /\ phase' = "frame"
        /\ UNCHANGED <<paused, state, delay, lists>>
    BY DEF EndNew
  <1>2. ListsOK' /\ Aged' /\ InOrder' /\ UNCHANGED Line_vars
    BY <1>1, StandStill
  <1>3. TypeOK'
    BY <1>1 DEF IInv, TypeOK, lists
  <1>4. Prompt'
    BY <1>1 DEF Prompt
  <1> QED
    BY <1>2, <1>3, <1>4 DEF IInv

LEMMA StutterKeeps ==
    ASSUME IInv, UNCHANGED vars PROVE IInv' /\ UNCHANGED Line_vars
  <1>1. UNCHANGED <<lists, last, arrived, socket>>
        /\ UNCHANGED <<phase, paused, state, delay, lists>>
    BY DEF vars
  <1>2. ListsOK' /\ Aged' /\ InOrder' /\ UNCHANGED Line_vars
    BY <1>1, StandStill
  <1>3. TypeOK'
    BY <1>1 DEF IInv, TypeOK, lists
  <1>4. Prompt'
    BY <1>1 DEF IInv, Prompt, lists
  <1> QED
    BY <1>2, <1>3, <1>4 DEF IInv

(* A frame passes: what waits grows older, and nothing else changes.       *)
LEMMA FrameKeeps ==
    ASSUME IInv, SV_Frame PROVE IInv' /\ UNCHANGED Line_vars
  <1>1. /\ phase' = "delayed"
        /\ UNCHANGED <<paused, state, delay, packets, last_packet, free_packets,
                       socket, arrived, last>>
        /\ node' = IF paused THEN node
                   ELSE [n \in Node |-> [node[n] EXCEPT
                          !.age = IF 0 < @ /\ @ <= MaxDelay THEN @ + 1 ELSE @]]
    BY DEF SV_Frame
  <1>2. /\ node \in [Node -> NodeType] /\ TypeOK /\ ListsOK
        /\ Queue \in [Clients -> Seq(Node)]
        /\ Pending = PendingOf(node, Queue)
    BY Facts DEF IInv
  <1>3. \A n \in Node : /\ node'[n] \in NodeType
                        /\ node'[n].number = node[n].number
                        /\ node'[n].next = node[n].next
                        /\ node'[n].age >= node[n].age
    <2> SUFFICES ASSUME NEW n \in Node
                 PROVE  /\ node'[n] \in NodeType
                        /\ node'[n].number = node[n].number
                        /\ node'[n].next = node[n].next
                        /\ node'[n].age >= node[n].age
      OBVIOUS
    <2>1. node[n] \in NodeType /\ node[n].age \in 0 .. MaxDelay + 1
      BY <1>2 DEF NodeType
    <2>2. CASE paused
      BY <1>1, <2>1, <2>2
    <2>3. CASE ~paused
      <3>1. node'[n] = [node[n] EXCEPT
                          !.age = IF 0 < @ /\ @ <= MaxDelay THEN @ + 1 ELSE @]
        BY <1>1, <2>3
      <3> DEFINE k == IF 0 < node[n].age /\ node[n].age <= MaxDelay
                      THEN node[n].age + 1 ELSE node[n].age
      <3>2. k \in 0 .. MaxDelay + 1 /\ k >= node[n].age
        BY <2>1, Constants
      <3>3. node'[n] = [node[n] EXCEPT !.age = k]
        BY <3>1
      <3> HIDE DEF k
      <3> QED
        BY <2>1, <3>2, <3>3 DEF NodeType
    <2> QED
      BY <2>2, <2>3
  <1>4. node' \in [Node -> NodeType]
    <2>1. CASE paused
      BY <1>1, <1>2, <2>1
    <2>2. CASE ~paused
      <3>1. node' = [n \in Node |-> node'[n]]
        BY <1>1, <2>2
      <3> QED
        BY <1>3, <3>1
    <2> QED
      BY <2>1, <2>2
  <1>5. TypeOK'
    BY <1>1, <1>2, <1>4 DEF TypeOK, NodeType
  <1>6. Apart(node', packets', last_packet', free_packets', Free, Queue)
    <2>1. Apart(node', packets, last_packet, free_packets, Free, Queue)
      BY <1>2, <1>3, ApartKept DEF ListsOK
    <2> QED
      BY <1>1, <2>1
  <1>7. ListsOK' /\ Queue' = Queue /\ Pending' = PendingOf(node', Queue)
    BY <1>6, ListsNext
  <1>8. \A c \in Clients : Els(Queue[c]) \subseteq Node
    BY <1>2, EmptyIffNull DEF ListsOK, Apart
  <1>9. Pending' = Pending
    BY <1>2, <1>3, <1>4, <1>7, <1>8, PendingKept
  <1>10. Aged'
    <2> SUFFICES ASSUME NEW c \in Clients, NEW m \in Els(Queue[c])
                 PROVE  node'[m].age >= 1
      BY <1>7 DEF Aged
    <2>1. m \in Node /\ node[m].age >= 1
      BY <1>8 DEF IInv, Aged
    <2>2. node[m].age \in Int /\ node'[m].age \in Int
      BY <1>2, <1>4, <2>1 DEF NodeType
    <2> QED
      BY <1>3, <2>1, <2>2
  <1>11. InOrder'
    BY <1>1, <1>9 DEF IInv, InOrder
  <1>12. Prompt'
    BY <1>1 DEF Prompt
  <1> QED
    BY <1>1, <1>5, <1>7, <1>9, <1>10, <1>11, <1>12 DEF IInv, Line_vars

-----------------------------------------------------------------------------
(* The steps that run a packet or move it between the lists.               *)

LEMMA Executed ==
    ASSUME TypeOK, NEW c \in Clients, NEW number \in Number, NEW kind,
           SV_ExecuteClientMessage(c, number, kind)
    PROVE  /\ last' = [last EXCEPT ![c] = number]
           /\ last' \in [Clients -> {0} \cup Number]
           /\ state' \in [Clients -> {"free", "zombie", "connected"}]
           /\ delay' \in [Clients -> 0 .. MaxDelay]
           /\ \A d \in Clients : d # c => state'[d] = state[d]
                                          /\ delay'[d] = delay[d]
  <1>1. /\ state \in [Clients -> {"free", "zombie", "connected"}]
        /\ delay \in [Clients -> 0 .. MaxDelay]
        /\ last \in [Clients -> {0} \cup Number]
    BY DEF TypeOK
  <1>2. /\ last' = [last EXCEPT ![c] = number]
        /\ state' = IF kind = "drop" THEN [state EXCEPT ![c] = "zombie"]
                                     ELSE state
    BY DEF SV_ExecuteClientMessage
  <1>3. PICK x \in Delays(delay[c]) : delay' = [delay EXCEPT ![c] = x]
    BY DEF SV_ExecuteClientMessage
  <1>4. x \in 0 .. MaxDelay
    BY DEF Delays
  <1>5. last' \in [Clients -> {0} \cup Number]
    BY <1>1, <1>2
  <1>6. /\ state' \in [Clients -> {"free", "zombie", "connected"}]
        /\ \A d \in Clients : d # c => state'[d] = state[d]
    BY <1>1, <1>2
  <1>7. /\ delay' \in [Clients -> 0 .. MaxDelay]
        /\ \A d \in Clients : d # c => delay'[d] = delay[d]
    BY <1>1, <1>3, <1>4
  <1> QED
    BY <1>2, <1>5, <1>6, <1>7

LEMMA RunDelayedKeeps ==
    ASSUME IInv, NEW c \in Clients, RunDelayed(c)
    PROVE  IInv' /\ Line!RunFirst(c)
  <1> DEFINE n == packets[c]
             r == With(Queue, c, Rest(Queue[c]))
             g == Cons(n, Free)
  <1>1. /\ phase = "delayed" /\ CanRun(c)
        /\ SV_ExecuteClientMessage(c, node[n].number, node[n].kind)
        /\ node' = [node EXCEPT ![n] = [Unused EXCEPT !.next = free_packets]]
        /\ free_packets' = n
        /\ packets' = [packets EXCEPT ![c] = node[n].next]
        /\ UNCHANGED <<phase, paused, last_packet, socket, arrived>>
    BY DEF RunDelayed, SV_FreeHeadDelayedPacket
  <1>2. /\ node \in [Node -> NodeType] /\ TypeOK /\ ListsOK
        /\ packets \in [Clients -> Node \cup {NULL}]
        /\ free_packets \in Node \cup {NULL}
        /\ Queue \in [Clients -> Seq(Node)]
        /\ Pending = PendingOf(node, Queue)
        /\ OrderType(Pending, last, arrived, socket)
        /\ Aged /\ OrderOf(Pending, last, arrived, socket)
    BY Facts DEF IInv, InOrder
  <1>3. n \in Node /\ node[n] \in NodeType /\ node[n].number \in Number
        /\ node[n].next \in Node \cup {NULL}
    <2>1. n \in Node
      BY <1>1, <1>2 DEF CanRun
    <2> QED
      BY <1>2, <2>1 DEF NodeType
  <1>4. /\ node' \in [Node -> NodeType]
        /\ \A m \in Node : node'[m].next = IF m = n THEN free_packets
                                           ELSE node[m].next
        /\ \A m \in Node : m # n => node'[m] = node[m]
    <2> DEFINE u == [Unused EXCEPT !.next = free_packets]
    <2>1. u \in NodeType /\ u.next = free_packets
      <3>1. 1 \in Number /\ 0 \in 0 .. MaxDelay + 1
        BY Numbers, Constants
      <3> QED
        BY <1>2, <3>1 DEF NodeType, Unused
    <2>2. node' = [node EXCEPT ![n] = u]
      BY <1>1
    <2> HIDE DEF u, n
    <2> QED
      BY <1>2, <1>3, <2>1, <2>2
  <1>5. /\ Queue[c] # << >> /\ n = Queue[c][1]
        /\ Apart(node', packets', last_packet, n, g, r)
        /\ \A d \in Clients : n \notin Els(r[d]) /\ Els(r[d]) \subseteq Els(Queue[d])
    <2>1. n = packets[c] /\ r = With(Queue, c, Rest(Queue[c]))
          /\ packets' = With(packets, c, node[n].next)
      BY <1>1 DEF With
    <2>2. Apart(node, packets, last_packet, free_packets, Free, Queue)
      BY <1>2 DEF ListsOK
    <2>3. Freed(node, node', n, free_packets)
      BY <1>4 DEF Freed
    <2>4. g = Cons(n, Free)
      OBVIOUS
    <2> HIDE DEF n, r, g
    <2>5. n \in Node /\ packets \in [Clients -> Node \cup {NULL}]
      BY <1>2, <1>3
    <2>6. n = packets[c]
      BY <2>1
    <2>7. /\ Apart(node', With(packets, c, node[n].next), last_packet, n,
                   Cons(n, Free), With(Queue, c, Rest(Queue[c])))
          /\ Gone(n, With(Queue, c, Rest(Queue[c])), Queue)
      BY ONLY <2>2, <2>3, <2>5, <2>6, ApartFreed, c \in Clients
    <2>8. Apart(node', packets', last_packet, n, g, r) /\ Gone(n, r, Queue)
      BY ONLY <2>1, <2>4, <2>7
    <2>9. Chain(node, n, Queue[c]) /\ n # NULL
      BY <1>1, <2>1, <2>2 DEF Apart, CanRun
    <2>10. Queue[c] # << >> /\ n = Queue[c][1]
      BY <2>9, ChainTail
    <2> QED
      BY <2>8, <2>10 DEF Gone
  <1>6. Apart(node', packets', last_packet', free_packets', g, r)
    BY <1>1, <1>5
  <1> HIDE DEF n, r, g
  <1>7. ListsOK' /\ Queue' = r /\ Pending' = PendingOf(node', r)
    BY <1>6, ListsNext
  <1>8. \A d \in Clients : Els(Queue[d]) \subseteq Node
    BY <1>2, EmptyIffNull DEF ListsOK, Apart
  <1>9. \A d \in Clients : n \notin Els(r[d]) /\ Els(r[d]) \subseteq Els(Queue[d])
    BY <1>5
  <1>10. /\ Pending[c] # << >>
         /\ Head(Pending[c]) = node[n].number
         /\ Pending' = [Pending EXCEPT ![c] = Tail(@)]
    <2>1. SameNumbers(node, node', r)
      BY <1>4, <1>8, <1>9 DEF SameNumbers
    <2>2. r = With(Queue, c, Rest(Queue[c]))
      BY DEF r
    <2>3. /\ PendingOf(node, Queue)[c] # << >>
          /\ Head(PendingOf(node, Queue)[c]) = node[Queue[c][1]].number
          /\ PendingOf(node', r) = With(PendingOf(node, Queue), c,
                                        Rest(PendingOf(node, Queue)[c]))
      <3>1. /\ node \in [Node -> NodeType] /\ node' \in [Node -> NodeType]
            /\ Queue \in [Clients -> Seq(Node)] /\ Queue[c] # << >>
        BY <1>2, <1>4, <1>5
      <3> QED
        BY ONLY <3>1, <2>1, <2>2, PendingTail, c \in Clients
    <2> QED
      BY <1>2, <1>5, <1>7, <2>3 DEF With, Rest
  <1>11. /\ last' = [last EXCEPT ![c] = node[n].number]
         /\ last' \in [Clients -> {0} \cup Number]
         /\ state' \in [Clients -> {"free", "zombie", "connected"}]
         /\ delay' \in [Clients -> 0 .. MaxDelay]
    BY <1>1, <1>2, <1>3, Executed
  <1>12. InOrder'
    <2> DEFINE p == Pending[c]
               k == node[n].number
    <2>1. /\ p \in Seq(Number) /\ p # << >> /\ last[c] \in Nat /\ arrived[c] \in Nat
          /\ Rising(p, last[c], arrived[c]) /\ Head(p) = k
      BY <1>2, <1>10, OrderTypes DEF OrderOf
    <2>2. /\ Rising(Tail(p), k, arrived[c])
          /\ \A x \in Number : Fresh(p, last[c], arrived[c], x)
                               => Fresh(Tail(p), k, arrived[c], x)
      BY <2>1, RisingTail
    <2>3. Tail(p) \in Seq(Number)
      BY <2>1, HeadTailProperties
    <2>4. \A i \in 1 .. Len(socket) : socket[i].number \in Number
      BY <1>2, OrderTypes
    <2>5. k \in {0} \cup Number
      BY <1>3
    <2> HIDE DEF p, k
    <2>6. OrderOf([Pending EXCEPT ![c] = Tail(p)], [last EXCEPT ![c] = k],
                  arrived, socket)
      <3> DEFINE tp == Tail(p)
      <3>1. /\ tp \in Seq(Number) /\ Rising(tp, k, arrived[c])
            /\ \A i \in 1 .. Len(socket) :
                 socket[i].client = c /\ Fresh(Pending[c], last[c], arrived[c],
                                               socket[i].number)
                 => Fresh(tp, k, arrived[c], socket[i].number)
        BY <2>2, <2>3, <2>4 DEF p
      <3> HIDE DEF tp
      <3>2. OrderOf([Pending EXCEPT ![c] = tp], [last EXCEPT ![c] = k],
                    arrived, socket)
        BY <1>2, <2>5, <3>1, OrderChanges
      <3> QED
        BY <3>2 DEF tp
    <2>7. Pending' = [Pending EXCEPT ![c] = Tail(p)]
      BY <1>10 DEF p
    <2> QED
      BY <1>1, <1>11, <2>6, <2>7 DEF InOrder, k
  <1>13. TypeOK'
    <2>1. /\ packets' \in [Clients -> Node \cup {NULL}]
          /\ free_packets' \in Node \cup {NULL}
      BY <1>1, <1>2, <1>3
    <2> QED
      BY <1>1, <1>2, <1>4, <1>11, <2>1 DEF TypeOK, NodeType
  <1>14. Aged'
    <2> SUFFICES ASSUME NEW d \in Clients, NEW m \in Els(r[d])
                 PROVE  node'[m].age >= 1
      BY <1>7 DEF Aged
    <2>1. m # n /\ m \in Node /\ m \in Els(Queue[d])
      BY <1>8, <1>9
    <2> QED
      BY <1>2, <1>4, <2>1 DEF Aged
  <1>15. Prompt'
    BY <1>1 DEF Prompt
  <1>16. Line!RunFirst(c)
    BY <1>10, <1>11 DEF Line!RunFirst
  <1> QED
    BY <1>7, <1>12, <1>13, <1>14, <1>15, <1>16 DEF IInv

(* The packet taken from the socket.                                       *)
LEMMA Read ==
    ASSUME IInv, NET_GetPacket
    PROVE  /\ socket # << >> /\ socket' = Tail(socket) /\ phase = "new"
           /\ UNCHANGED <<paused, arrived>>
           /\ socket' \in Seq(Packet) /\ Head(socket) \in Packet
           /\ OrderType(Pending, last, arrived, socket)
           /\ OrderOf(Pending, last, arrived, socket)
           /\ LET p == Head(socket)
              IN  /\ p.client \in Clients /\ p.number \in Number
                  /\ p.kind \in {"move", "drop", "connect"}
                  /\ Fresh(Pending[p.client], last[p.client],
                           arrived[p.client], p.number)
                  /\ \A i \in 1 .. Len(socket') :
                        /\ socket'[i].number \in Number
                        /\ socket'[i].client = p.client
                           => p.number < socket'[i].number
  <1>1. /\ socket # << >> /\ socket' = Tail(socket) /\ phase = "new"
        /\ UNCHANGED <<paused, arrived>>
    BY DEF NET_GetPacket
  <1>2. /\ OrderType(Pending, last, arrived, socket)
        /\ OrderOf(Pending, last, arrived, socket)
    BY Facts DEF IInv, InOrder
  <1>3. /\ Head(socket) \in Packet /\ Head(socket).client \in Clients
        /\ Head(socket).number \in Number
        /\ FreshFor(Pending, last, arrived, Head(socket))
        /\ Tail(socket) \in Seq(Packet)
        /\ \A i \in 1 .. Len(Tail(socket)) :
              /\ Tail(socket)[i].number \in Number
              /\ Tail(socket)[i].client = Head(socket).client
                 => Head(socket).number < Tail(socket)[i].number
    BY <1>1, <1>2, Taken
  <1>4. Head(socket).kind \in {"move", "drop", "connect"}
    BY <1>3 DEF Packet
  <1> QED
    BY <1>1, <1>2, <1>3, <1>4 DEF FreshFor

LEMMA NoneRising ==
    ASSUME NEW lo, NEW hi, lo <= hi
    PROVE  Rising(<< >>, lo, hi) /\ << >> \in Seq(Number)
  BY EmptySeq DEF Rising

LEMMA OrderTaken ==
    ASSUME NEW P, NEW l, NEW a, NEW s, OrderType(P, l, a, s),
           OrderOf(P, l, a, s), s # << >>
    PROVE  OrderOf(P, l, a, Tail(s))
  BY Taken DEF OrderOf

(* A packet that changes nothing but the socket and, perhaps, the phase.   *)
LEMMA Dropped ==
    ASSUME IInv, NET_GetPacket, UNCHANGED <<state, delay, lists, last>>,
           phase' \in {phase, "frame"}
    PROVE  IInv' /\ UNCHANGED Line_vars
  <1>1. /\ socket # << >> /\ socket' = Tail(socket) /\ phase = "new"
        /\ UNCHANGED <<paused, arrived>>
        /\ socket' \in Seq(Packet)
        /\ OrderType(Pending, last, arrived, socket)
        /\ OrderOf(Pending, last, arrived, socket)
    BY Read
  <1>2. Pending' = Pending /\ ListsOK' /\ Aged'
    BY ListsSame DEF IInv
  <1>3. OrderOf(Pending, last, arrived, socket')
    BY <1>1, OrderTaken
  <1>4. InOrder'
    BY <1>1, <1>2, <1>3 DEF InOrder
  <1>5. TypeOK'
    BY <1>1 DEF IInv, TypeOK, lists
  <1>6. Prompt'
    BY <1>1 DEF IInv, Prompt, lists
  <1> QED
    BY <1>2, <1>4, <1>5, <1>6 DEF IInv, Line_vars

LEMMA DirectConnectKeeps ==
    ASSUME IInv, NET_GetPacket, SVC_DirectConnect(Head(socket))
    PROVE  IInv' /\ \E c \in Clients : Line!Forget(c)
  <1> DEFINE c == Head(socket).client
             h == [packets EXCEPT ![c] = NULL]
             e == [last_packet EXCEPT ![c] = NULL]
             r == [Queue EXCEPT ![c] = << >>]
  <1>1. /\ state' = [state EXCEPT ![c] = "connected"]
        /\ delay' = [delay EXCEPT ![c] = 0]
        /\ packets' = h /\ last_packet' = e
        /\ UNCHANGED <<phase, free_packets, node, last>>
    BY DEF SVC_DirectConnect
  <1>2. /\ socket # << >> /\ socket' = Tail(socket) /\ phase = "new"
        /\ UNCHANGED <<paused, arrived>> /\ socket' \in Seq(Packet)
        /\ OrderType(Pending, last, arrived, socket)
        /\ OrderOf(Pending, last, arrived, socket)
        /\ c \in Clients
        /\ \A i \in 1 .. Len(socket') : socket'[i].number \in Number
    BY Read
  <1>3. /\ node \in [Node -> NodeType] /\ TypeOK /\ ListsOK
        /\ packets \in [Clients -> Node \cup {NULL}]
        /\ last_packet \in [Clients -> Node \cup {NULL}]
        /\ Queue \in [Clients -> Seq(Node)]
        /\ Pending = PendingOf(node, Queue)
    BY Facts DEF IInv
  <1>4. Apart(node', packets', last_packet', free_packets', Free, r)
    <2>1. Apart(node, packets, last_packet, free_packets, Free, Queue)
      BY <1>3 DEF ListsOK
    <2>2. Apart(node, h, e, free_packets, Free, r)
      BY <1>2, <1>3, <2>1, ApartCleared
    <2> QED
      BY <1>1, <2>2
  <1>5. ListsOK' /\ Queue' = r /\ Pending' = PendingOf(node', r)
    BY <1>4, ListsNext
  <1>6. Pending' = [Pending EXCEPT ![c] = << >>]
    <2>1. PendingOf(node, r) = [PendingOf(node, Queue) EXCEPT ![c] = << >>]
      BY <1>2, <1>3, PendingCleared
    <2> QED
      BY <1>1, <1>3, <1>5, <2>1
  <1>7. Els(r[c]) = {} /\ \A d \in Clients : d # c => r[d] = Queue[d]
    BY <1>2, <1>3, EmptyChain
  <1> HIDE DEF c, h, e, r
  <1>8. InOrder'
    <2>1. /\ last[c] \in Nat /\ arrived[c] \in Nat
          /\ Rising(Pending[c], last[c], arrived[c])
          /\ last[c] \in {0} \cup Number
          /\ last = [last EXCEPT ![c] = last[c]]
      BY <1>2, OrderTypes DEF OrderOf, OrderType
    <2>2. Rising(<< >>, last[c], arrived[c]) /\ << >> \in Seq(Number)
      BY <2>1, NoneRising DEF Rising
    <2>3. \A x : Fresh(Pending[c], last[c], arrived[c], x)
                 => Fresh(<< >>, last[c], arrived[c], x)
      BY EmptySeq DEF Fresh
    <2> DEFINE none == << >>
               k == last[c]
    <2>4. /\ none \in Seq(Number) /\ Rising(none, k, arrived[c])
          /\ k \in {0} \cup Number
          /\ \A i \in 1 .. Len(socket') :
               socket'[i].client = c /\ Fresh(Pending[c], last[c], arrived[c],
                                              socket'[i].number)
               => Fresh(none, k, arrived[c], socket'[i].number)
      BY <2>1, <2>2, <2>3
    <2> HIDE DEF none, k
    <2>5. OrderOf([Pending EXCEPT ![c] = none], [last EXCEPT ![c] = k], arrived,
                  socket')
      BY <1>2, <2>4, OrderChanges
    <2>6. OrderOf(Pending', last', arrived', socket')
      BY <1>1, <1>2, <1>6, <2>1, <2>5 DEF none, k
    <2> QED
      BY <2>6 DEF InOrder
  <1>9. /\ packets'[c] = NULL
        /\ \A d \in Clients : d # c => /\ packets'[d] = packets[d]
                                       /\ state'[d] = state[d]
                                       /\ delay'[d] = delay[d]
    <2>1. /\ state \in [Clients -> {"free", "zombie", "connected"}]
          /\ delay \in [Clients -> 0 .. MaxDelay]
      BY <1>3 DEF TypeOK
    <2> QED
      BY <1>1, <1>2, <1>3, <2>1 DEF h
  <1>10. TypeOK'
    <2>1. 0 \in 0 .. MaxDelay
      BY Constants
    <2> QED
      BY <1>1, <1>2, <1>3, <2>1 DEF TypeOK, h, e
  <1>11. Aged'
    <2> SUFFICES ASSUME NEW d \in Clients, NEW m \in Els(r[d])
                 PROVE  node'[m].age >= 1
      BY <1>5 DEF Aged
    <2>1. d # c /\ m \in Els(Queue[d])
      BY <1>7
    <2> QED
      BY <1>1, <2>1 DEF IInv, Aged
  <1>12. Prompt'
    <2> SUFFICES ASSUME NEW d \in Clients, state'[d] # "free", packets'[d] # NULL
                 PROVE  delay'[d] > 0
      BY DEF Prompt
    <2> QED
      BY <1>2, <1>9 DEF IInv, Prompt
  <1>13. Line!Forget(c)
    BY <1>1, <1>6 DEF Line!Forget
  <1> QED
    BY <1>2, <1>5, <1>8, <1>10, <1>11, <1>12, <1>13 DEF IInv

(* A number that is fresh is newer than all before it.                     *)
LEMMA FreshIsNewer ==
    ASSUME NEW c \in Clients, NEW n \in Number, NEW hi,
           OrderType(Pending, last, arrived, socket),
           Fresh(Pending[c], last[c], hi, n)
    PROVE  Line!Newer(c, n)
  <1>1. /\ Pending[c] \in Seq(Number) /\ last[c] \in Nat /\ n \in Nat
        /\ DOMAIN Pending[c] = 1 .. Len(Pending[c])
    BY OrderTypes, LenProperties, NumbersAreNat
  <1>2. \A i \in 1 .. Len(Pending[c]) : Pending[c][i] \in Nat
    <2>1. \A i \in 1 .. Len(Pending[c]) : Pending[c][i] \in Number
      BY <1>1, ElementOfSeq
    <2> QED
      BY <2>1, NumbersAreNat
  <1>3. last[c] < n /\ \A i \in 1 .. Len(Pending[c]) : Pending[c][i] < n
    BY DEF Fresh
  <1>4. n > last[c]
    BY <1>1, <1>3
  <1>5. \A i \in DOMAIN Pending[c] : n > Pending[c][i]
    BY <1>1, <1>2, <1>3
  <1> QED
    BY <1>4, <1>5 DEF Line!Newer

(* A packet is run at once: nothing waits for its client.                  *)
LEMMA RunNewKeeps ==
    ASSUME IInv, NET_GetPacket, RunNew(Head(socket))
    PROVE  /\ IInv'
           /\ \E c \in Clients, n \in Number : Line!RunAtOnce(c, n)
  <1> DEFINE c == Head(socket).client
             n == Head(socket).number
             kind == Head(socket).kind
  <1>1. /\ state[c] # "free" /\ delay[c] = 0
        /\ SV_ExecuteClientMessage(c, n, kind)
        /\ UNCHANGED <<phase, lists>>
    BY DEF RunNew, Known
  <1>2. /\ socket # << >> /\ socket' = Tail(socket) /\ phase = "new"
        /\ UNCHANGED <<paused, arrived>> /\ socket' \in Seq(Packet)
        /\ OrderType(Pending, last, arrived, socket)
        /\ OrderOf(Pending, last, arrived, socket)
        /\ c \in Clients /\ n \in Number
        /\ Fresh(Pending[c], last[c], arrived[c], n)
        /\ \A i \in 1 .. Len(socket') :
              /\ socket'[i].number \in Number
              /\ socket'[i].client = c => n < socket'[i].number
    BY Read
  <1> HIDE DEF c, n, kind
  <1>3. /\ TypeOK /\ ListsOK /\ Queue \in [Clients -> Seq(Node)]
        /\ Pending = PendingOf(node, Queue) /\ node \in [Node -> NodeType]
    BY Facts DEF IInv
  <1>4. /\ last' = [last EXCEPT ![c] = n]
        /\ last' \in [Clients -> {0} \cup Number]
        /\ state' \in [Clients -> {"free", "zombie", "connected"}]
        /\ delay' \in [Clients -> 0 .. MaxDelay]
        /\ \A d \in Clients : d # c => state'[d] = state[d]
                                       /\ delay'[d] = delay[d]
    BY <1>1, <1>2, <1>3, Executed
  <1>5. packets[c] = NULL
    BY <1>1, <1>2 DEF IInv, Prompt
  <1>6. Pending[c] = << >>
    <2>1. Chain(node, packets[c], Queue[c])
      BY <1>2, <1>3 DEF ListsOK, Apart
    <2>2. Len(Queue[c]) = 0
      BY <1>5, <2>1, EmptyIffNull
    <2>3. Pending[c] \in Seq(Number) /\ Len(Pending[c]) = 0
      BY <1>2, <1>3, <2>2, PendingAt
    <2> QED
      BY <2>3, EmptySeq
  <1>7. Pending' = Pending /\ ListsOK' /\ Aged'
    BY <1>1, ListsSame DEF IInv
  <1>8. InOrder'
    <2>1. arrived[c] \in Nat /\ n \in Nat /\ n <= arrived[c]
      BY <1>2, OrderTypes, NumbersAreNat DEF Fresh
    <2> DEFINE none == << >>
    <2>2. Rising(none, n, arrived[c]) /\ none \in Seq(Number)
      BY <2>1, NoneRising
    <2>3. \A i \in 1 .. Len(socket') :
             socket'[i].client = c /\ Fresh(Pending[c], last[c], arrived[c],
                                            socket'[i].number)
             => Fresh(none, n, arrived[c], socket'[i].number)
      BY <1>2, EmptySeq DEF Fresh
    <2>4. n \in {0} \cup Number
      BY <1>2
    <2> HIDE DEF none
    <2>5. OrderOf([Pending EXCEPT ![c] = none], [last EXCEPT ![c] = n], arrived,
                  socket')
      BY <1>2, <2>2, <2>3, <2>4, OrderChanges
    <2>6. [Pending EXCEPT ![c] = none] = Pending
      BY <1>2, <1>6 DEF none, OrderType
    <2>7. OrderOf(Pending', last', arrived', socket')
      BY <1>2, <1>4, <1>7, <2>5, <2>6
    <2> QED
      BY <2>7 DEF InOrder
  <1>9. TypeOK'
    BY <1>1, <1>2, <1>3, <1>4 DEF TypeOK, lists
  <1>10. Prompt'
    <2> SUFFICES ASSUME NEW d \in Clients, state'[d] # "free", packets'[d] # NULL
                 PROVE  delay'[d] > 0
      BY DEF Prompt
    <2>1. packets' = packets
      BY <1>1 DEF lists
    <2>2. d # c
      BY <1>5, <2>1
    <2> QED
      BY <1>2, <1>4, <2>1, <2>2 DEF IInv, Prompt
  <1>11. Line!RunAtOnce(c, n)
    <2>1. Line!Newer(c, n)
      BY <1>2, FreshIsNewer
    <2> QED
      BY <1>4, <1>6, <1>7, <2>1 DEF Line!RunAtOnce
  <1> QED
    BY <1>2, <1>7, <1>8, <1>9, <1>10, <1>11 DEF IInv

(* The packet_t that Delay fills and links.                                *)
Filled(a, n, k, kind) ==
    [a EXCEPT ![n].number = k, ![n].kind = kind, ![n].age = 1]

Joined(a, head, end, n) == IF head = NULL THEN a ELSE [a EXCEPT ![end].next = n]

Waiting(a, head, end, n, k, kind) ==
    Terminated(Filled(Joined(a, head, end, n), n, k, kind), n)

Numbered(a, b, n, k) ==
    /\ \A m \in Node : m # n => /\ b[m].number = a[m].number
                                /\ b[m].age = a[m].age
    /\ b[n].number = k /\ b[n].age = 1

LEMMA WaitingNodes ==
    ASSUME NEW a \in [Node -> NodeType], NEW n \in Node,
           NEW head, NEW end, head # NULL => end \in Node,
           NEW k \in Number, NEW kind \in {"move", "drop"},
           NEW b, b = Waiting(a, head, end, n, k, kind)
    PROVE  /\ b \in [Node -> NodeType]
           /\ Linked(a, b, n, head, end)
           /\ Numbered(a, b, n, k)
  <1> DEFINE j == Joined(a, head, end, n)
             f == Filled(j, n, k, kind)
  <1>1. /\ j \in [Node -> NodeType]
        /\ \A m \in Node : /\ j[m].number = a[m].number
                           /\ j[m].age = a[m].age
                           /\ j[m].next = IF head # NULL /\ m = end THEN n
                                          ELSE a[m].next
    <2>1. CASE head = NULL
      BY <2>1 DEF Joined
    <2>2. CASE head # NULL
      <3>1. end \in Node /\ j = [a EXCEPT ![end].next = n]
        BY <2>2 DEF Joined
      <3> HIDE DEF j
      <3>2. \A m \in Node : a[m] \in NodeType
        OBVIOUS
      <3>3. j = [a EXCEPT ![end] = [a[end] EXCEPT !.next = n]]
        BY <3>1
      <3> DEFINE u == [a[end] EXCEPT !.next = n]
      <3>4. u \in NodeType /\ u.number = a[end].number /\ u.age = a[end].age
            /\ u.next = n
        BY <3>1, <3>2 DEF NodeType
      <3>5. j = [a EXCEPT ![end] = u]
        BY <3>3
      <3> HIDE DEF u
      <3>6. j[end] = u /\ \A m \in Node : m # end => j[m] = a[m]
        BY <3>1, <3>5
      <3>7. j \in [Node -> NodeType]
        BY <3>1, <3>4, <3>5
      <3> QED
        BY <2>2, <3>1, <3>4, <3>6, <3>7
    <2> QED
      BY <2>1, <2>2
  <1> HIDE DEF j
  <1>2. /\ f \in [Node -> NodeType]
        /\ \A m \in Node : m # n => f[m] = j[m]
        /\ f[n].number = k /\ f[n].age = 1 /\ f[n].next = j[n].next
    <2> DEFINE v == [j[n] EXCEPT !.number = k, !.kind = kind, !.age = 1]
    <2>1. 1 \in 0 .. MaxDelay + 1
      BY Constants
    <2>2. v \in NodeType /\ v.number = k /\ v.age = 1 /\ v.next = j[n].next
      <3> DEFINE w == j[n]
                 age == 1
      <3>1. w \in NodeType /\ age \in 0 .. MaxDelay + 1
        BY <1>1, <2>1
      <3> HIDE DEF w, age
      <3>2. v = [w EXCEPT !.number = k, !.kind = kind, !.age = age]
        BY DEF w, age
      <3> HIDE DEF v
      <3>3. v \in NodeType
        BY <3>1, <3>2 DEF NodeType
      <3>4. v.number = k /\ v.age = age /\ v.next = w.next
        BY <3>1, <3>2 DEF NodeType
      <3> QED
        BY <3>3, <3>4 DEF w, age
    <2>3. f = [j EXCEPT ![n] = v]
      BY <1>1 DEF Filled
    <2> HIDE DEF v, f
    <2> QED
      BY <1>1, <2>2, <2>3
  <1> HIDE DEF f
  <1>3. /\ b \in [Node -> NodeType]
        /\ \A m \in Node : m # n => b[m] = f[m]
        /\ b[n].number = k /\ b[n].age = 1 /\ b[n].next = NULL
    <2> DEFINE w == [f[n] EXCEPT !.next = NULL]
    <2>1. w \in NodeType /\ w.number = k /\ w.age = 1 /\ w.next = NULL
      BY <1>2 DEF NodeType
    <2>2. b = [f EXCEPT ![n] = w]
      BY <1>2 DEF Waiting, Terminated, f, j
    <2> HIDE DEF w
    <2> QED
      BY <1>2, <2>1, <2>2
  <1>4. Linked(a, b, n, head, end)
    <2> SUFFICES ASSUME NEW m \in Node
                 PROVE  b[m].next = IF m = n THEN NULL
                                    ELSE IF head # NULL /\ m = end THEN n
                                    ELSE a[m].next
      BY DEF Linked
    <2> QED
      BY <1>1, <1>2, <1>3
  <1>5. Numbered(a, b, n, k)
    BY <1>1, <1>2, <1>3 DEF Numbered
  <1> QED
    BY <1>3, <1>4, <1>5

LEMMA DelayKeeps ==
    ASSUME IInv, NET_GetPacket, Delay(Head(socket))
    PROVE  IInv' /\ \E c \in Clients, n \in Number : Line!Wait(c, n)
  <1> DEFINE c == Head(socket).client
             k == Head(socket).number
             kind == Head(socket).kind
             n == free_packets
             r == With(Queue, c, Added(Queue[c], n))
             g == Rest(Free)
  <1>1. /\ delay[c] > 0 /\ n # NULL
        /\ kind # "connect"
        /\ packets' = [packets EXCEPT ![c] = IF @ = NULL THEN n ELSE @]
        /\ last_packet' = [last_packet EXCEPT ![c] = n]
        /\ free_packets' = node[n].next
        /\ node' = Waiting(node, packets[c], last_packet[c], n, k, kind)
        /\ UNCHANGED <<phase, state, delay, last>>
    BY DEF Delay, Known, Waiting, Filled, Joined
  <1>2. /\ socket # << >> /\ socket' = Tail(socket) /\ phase = "new"
        /\ UNCHANGED <<paused, arrived>> /\ socket' \in Seq(Packet)
        /\ OrderType(Pending, last, arrived, socket)
        /\ OrderOf(Pending, last, arrived, socket)
        /\ c \in Clients /\ k \in Number
        /\ kind \in {"move", "drop", "connect"}
        /\ Fresh(Pending[c], last[c], arrived[c], k)
        /\ \A i \in 1 .. Len(socket') :
              /\ socket'[i].number \in Number
              /\ socket'[i].client = c => k < socket'[i].number
    BY Read
  <1>3. /\ node \in [Node -> NodeType] /\ TypeOK /\ ListsOK
        /\ packets \in [Clients -> Node \cup {NULL}]
        /\ last_packet \in [Clients -> Node \cup {NULL}]
        /\ free_packets \in Node \cup {NULL}
        /\ Queue \in [Clients -> Seq(Node)]
        /\ Pending = PendingOf(node, Queue)
    BY Facts DEF IInv
  <1>4. /\ n \in Node /\ kind \in {"move", "drop"}
        /\ node[n].next \in Node \cup {NULL}
    <2>1. n \in Node /\ kind \in {"move", "drop"}
      BY <1>1, <1>2, <1>3
    <2> QED
      BY <1>3, <2>1 DEF NodeType
  <1> HIDE DEF c, k, kind, n, r, g
  <1>5. Apart(node, packets, last_packet, n, Free, Queue)
    BY <1>3 DEF ListsOK, n
  <1>6. packets[c] # NULL => last_packet[c] \in Node
    <2> HAVE packets[c] # NULL
    <2>1. Chain(node, packets[c], Queue[c])
          /\ last_packet[c] = Queue[c][Len(Queue[c])]
      BY <1>2, <1>5 DEF Apart
    <2>2. Len(Queue[c]) \in 1 .. Len(Queue[c])
      BY <2>1, EmptyIffNull
    <2> QED
      BY <2>1, <2>2, EmptyIffNull
  <1>7. /\ node' \in [Node -> NodeType]
        /\ Linked(node, node', n, packets[c], last_packet[c])
        /\ \A m \in Node : m # n => /\ node'[m].number = node[m].number
                                    /\ node'[m].age = node[m].age
        /\ node'[n].number = k /\ node'[n].age = 1
    <2> DEFINE h == packets[c]
               e == last_packet[c]
    <2>1. (h # NULL => e \in Node) /\ node' = Waiting(node, h, e, n, k, kind)
      BY <1>1, <1>6
    <2> HIDE DEF h, e
    <2>2. /\ node \in [Node -> NodeType] /\ n \in Node /\ k \in Number
          /\ kind \in {"move", "drop"}
      BY <1>2, <1>3, <1>4
    <2>3. /\ node' \in [Node -> NodeType]
          /\ Linked(node, node', n, h, e) /\ Numbered(node, node', n, k)
      BY ONLY <2>1, <2>2, WaitingNodes
    <2> QED
      BY <2>3 DEF h, e, Numbered
  <1>8. /\ \A d \in Clients : n \notin Els(Queue[d]) /\ Els(Queue[d]) \subseteq Node
        /\ Els(r[c]) = {n} \cup Els(Queue[c])
        /\ Apart(node', packets', last_packet', free_packets', g, r)
    <2>1. /\ packets' = With(packets, c, First(packets[c], n))
          /\ last_packet' = With(last_packet, c, n)
      BY <1>1 DEF With, First
    <2>2. /\ \A d \in Clients : n \notin Els(Queue[d]) /\ Els(Queue[d]) \subseteq Node
          /\ Els(With(Queue, c, Added(Queue[c], n))[c]) = {n} \cup Els(Queue[c])
          /\ Apart(node', With(packets, c, First(packets[c], n)),
                   With(last_packet, c, n), node[n].next, Rest(Free),
                   With(Queue, c, Added(Queue[c], n)))
      BY ONLY <1>2, <1>3, <1>4, <1>5, <1>7, ApartAdded
    <2> QED
      BY <1>1, <2>1, <2>2 DEF r, g
  <1>9. ListsOK' /\ Queue' = r /\ Pending' = PendingOf(node', r)
    BY <1>8, ListsNext
  <1>10. \A d \in Clients : d # c => r[d] = Queue[d]
    BY <1>3 DEF r, With
  <1>11. Pending' = With(Pending, c, Added(Pending[c], k))
    <2>1. SameNumbers(node, node', Queue)
      BY <1>7, <1>8 DEF SameNumbers
    <2>2. r = With(Queue, c, Added(Queue[c], n))
      BY DEF r
    <2>3. PendingOf(node', r)
             = With(PendingOf(node, Queue), c,
                    Added(PendingOf(node, Queue)[c], node'[n].number))
      <3>1. /\ node \in [Node -> NodeType] /\ node' \in [Node -> NodeType]
            /\ Queue \in [Clients -> Seq(Node)] /\ c \in Clients /\ n \in Node
        BY <1>2, <1>3, <1>4, <1>7
      <3> QED
        BY ONLY SMTT(30), <3>1, <2>1, <2>2, PendingAppend
    <2> QED
      BY <1>3, <1>7, <1>9, <2>3
  <1>12. InOrder'
    <2> DEFINE p == Pending[c]
               q == Append(p, k)
               l == last[c]
    <2>1. /\ p \in Seq(Number) /\ l \in Nat /\ arrived[c] \in Nat
          /\ Rising(p, l, arrived[c]) /\ Fresh(p, l, arrived[c], k)
          /\ l \in {0} \cup Number
          /\ last = [last EXCEPT ![c] = l]
      BY <1>2, OrderTypes DEF OrderOf, OrderType
    <2>2. /\ Rising(q, l, arrived[c])
          /\ \A x \in Number : Fresh(p, l, arrived[c], x) /\ k < x
                               => Fresh(q, l, arrived[c], x)
      <3> HIDE DEF p, l
      <3> QED
        BY <1>2, <2>1, RisingAppend
    <2>3. q \in Seq(Number)
      BY <1>2, <2>1, AppendProperties
    <2>4. \A i \in 1 .. Len(socket') :
             socket'[i].client = c /\ Fresh(Pending[c], last[c], arrived[c],
                                            socket'[i].number)
             => Fresh(q, l, arrived[c], socket'[i].number)
      BY <1>2, <2>2
    <2>5. Pending' = [Pending EXCEPT ![c] = q]
      BY <1>11 DEF With, Added
    <2> HIDE DEF q, l
    <2>6. OrderOf([Pending EXCEPT ![c] = q], [last EXCEPT ![c] = l], arrived,
                  socket')
      BY <1>2, <2>1, <2>2, <2>3, <2>4, OrderChanges
    <2>7. OrderOf(Pending', last', arrived', socket')
      BY <1>1, <1>2, <2>1, <2>5, <2>6
    <2> QED
      BY <2>7 DEF InOrder
  <1>13. TypeOK'
    <2>1. /\ packets' \in [Clients -> Node \cup {NULL}]
          /\ last_packet' \in [Clients -> Node \cup {NULL}]
          /\ free_packets' \in Node \cup {NULL}
      BY <1>1, <1>3, <1>4
    <2> QED
      BY <1>1, <1>2, <1>3, <1>7, <2>1 DEF TypeOK, NodeType
  <1>14. Aged'
    <2> SUFFICES ASSUME NEW d \in Clients, NEW m \in Els(r[d])
                 PROVE  node'[m].age >= 1
      BY <1>9 DEF Aged
    <2>1. CASE m = n
      BY <1>7, <2>1
    <2>2. CASE m # n
      <3>1. m \in Els(Queue[d])
        BY <1>8, <1>10, <2>2
      <3>2. m \in Node
        BY <1>8, <3>1
      <3> QED
        BY <1>7, <2>2, <3>1, <3>2 DEF IInv, Aged
    <2> QED
      BY <2>1, <2>2
  <1>15. Prompt'
    <2> SUFFICES ASSUME NEW d \in Clients, state'[d] # "free", packets'[d] # NULL
                 PROVE  delay'[d] > 0
      BY DEF Prompt
    <2>1. CASE d = c
      BY <1>1, <2>1
    <2>2. CASE d # c
      <3>1. packets'[d] = packets[d]
        BY <1>1, <1>3, <2>2
      <3> QED
        BY <1>1, <1>2, <3>1 DEF IInv, Prompt
    <2> QED
      BY <2>1, <2>2
  <1>16. Line!Wait(c, k)
    <2>1. Line!Newer(c, k)
      BY <1>2, FreshIsNewer
    <2>2. Pending' = [Pending EXCEPT ![c] = Append(@, k)]
      BY <1>11 DEF With, Added
    <2> QED
      BY <1>1, <2>1, <2>2 DEF Line!Wait
  <1> QED
    BY <1>2, <1>9, <1>12, <1>13, <1>14, <1>15, <1>16 DEF IInv

-----------------------------------------------------------------------------
(* Each step keeps the invariant, and is a step of DelayLine or none.      *)
LEMMA StepKeeps ==
    IInv /\ [Next]_vars => IInv' /\ [Line!Next]_Line_vars
  <1> SUFFICES ASSUME IInv, [Next]_vars
               PROVE  IInv' /\ (Line!Next \/ UNCHANGED Line_vars)
    OBVIOUS
  <1>1. ASSUME NET_GetPacket, SVC_DirectConnect(Head(socket))
        PROVE  IInv' /\ Line!Next
    BY <1>1, DirectConnectKeeps DEF Line!Next
  <1>2. ASSUME NET_GetPacket, Unknown(Head(socket))
        PROVE  IInv' /\ UNCHANGED Line_vars
    BY <1>2, Dropped DEF Unknown
  <1>3. ASSUME NET_GetPacket, RunNew(Head(socket)) PROVE IInv' /\ Line!Next
    BY <1>3, RunNewKeeps DEF Line!Next
  <1>4. ASSUME NET_GetPacket, NoFreePacket(Head(socket))
        PROVE  IInv' /\ UNCHANGED Line_vars
    BY <1>4, Dropped DEF NoFreePacket
  <1>5. ASSUME NET_GetPacket, Delay(Head(socket)) PROVE IInv' /\ Line!Next
    BY <1>5, DelayKeeps DEF Line!Next
  <1>6. ASSUME ReadPacket PROVE IInv' /\ (Line!Next \/ UNCHANGED Line_vars)
    BY <1>1, <1>2, <1>3, <1>4, <1>5, <1>6 DEF ReadPacket
  <1>7. ASSUME NEW c \in Clients, RunDelayed(c) PROVE IInv' /\ Line!Next
    BY <1>7, RunDelayedKeeps DEF Line!Next
  <1>8. ASSUME Server PROVE IInv' /\ (Line!Next \/ UNCHANGED Line_vars)
    BY <1>6, <1>7, <1>8, FrameKeeps, EndDelayedKeeps, EndNewKeeps DEF Server
  <1>9. ASSUME NEW c \in Clients, SV_CheckTimeouts(c)
        PROVE  IInv' /\ UNCHANGED Line_vars
    BY <1>9, CheckTimeoutsKeeps
  <1>10. ASSUME NEW c \in Clients, NEW kind \in {"move", "drop", "connect"},
                Arrive(c, kind)
         PROVE  IInv' /\ UNCHANGED Line_vars
    BY <1>10, ArriveKeeps
  <1> QED
    BY <1>8, <1>9, <1>10, TogglePauseKeeps, StutterKeeps DEF Next

THEOREM Invariance == Spec => []IInv
  <1>1. Init => IInv
    BY InitInv
  <1>2. IInv /\ [Next]_vars => IInv'
    BY StepKeeps
  <1> QED
    BY <1>1, <1>2, PTL DEF Spec

(* A packet_t is in one list at most, every list ends, and last_packet is  *)
(* the end of its client's list: SV_ReadPackets may append to a list, and  *)
(* SV_FreeHeadDelayedPacket take from it, and never tangle it with the     *)
(* list of another client or with the free one (sv_main.c).                *)
THEOREM ListsStayApart == Spec => []ListsApart
  <1>1. IInv => ListsApart
    <2> SUFFICES ASSUME IInv PROVE ListsApart
      OBVIOUS
    <2>1. /\ Chain(node, free_packets, Free)
          /\ Queue \in [Clients -> Seq(Node)]
          /\ \A c \in Clients : Chain(node, packets[c], Queue[c])
          /\ \A c \in Clients : Els(Queue[c]) \cap Els(Free) = {}
          /\ \A c, d \in Clients : c # d => Els(Queue[c]) \cap Els(Queue[d]) = {}
          /\ \A c \in Clients :
                packets[c] # NULL => last_packet[c] = Queue[c][Len(Queue[c])]
      BY DEF IInv, ListsOK, Apart
    <2>2. /\ Free = List(free_packets)
          /\ \A c \in Clients : Queue[c] = List(packets[c])
      BY DEF Free, Queue
    <2>3. Elements(free_packets) = Els(Free)
      <3>1. Free \in Seq(Node)
        BY <2>1 DEF Chain
      <3>2. DOMAIN Free = 1 .. Len(Free)
        BY <3>1, LenProperties
      <3> QED
        BY <2>2, <3>2 DEF Elements, Els
    <2>4. \A c \in Clients : Elements(packets[c]) = Els(Queue[c])
      <3> SUFFICES ASSUME NEW c \in Clients
                   PROVE  Elements(packets[c]) = Els(Queue[c])
        OBVIOUS
      <3>1. DOMAIN Queue[c] = 1 .. Len(Queue[c])
        BY <2>1, LenProperties
      <3> QED
        BY <2>2, <3>1 DEF Elements, Els
    <2>5. Len(List(free_packets)) <= MAX_DELAYED_PACKETS
      <3>1. Len(Free) \in 0 .. MAX_DELAYED_PACKETS
        BY <2>1, ChainShort
      <3> QED
        BY <2>2, <3>1, Constants
    <2>6. \A c \in Clients : Len(List(packets[c])) <= MAX_DELAYED_PACKETS
      <3> SUFFICES ASSUME NEW c \in Clients
                   PROVE  Len(List(packets[c])) <= MAX_DELAYED_PACKETS
        OBVIOUS
      <3>1. Len(Queue[c]) \in 0 .. MAX_DELAYED_PACKETS
        BY <2>1, ChainShort
      <3> QED
        BY <2>2, <3>1, Constants
    <2>7. TypeOK
      BY DEF IInv
    <2> QED
      BY <2>1, <2>2, <2>3, <2>4, <2>5, <2>6, <2>7 DEF ListsApart
  <1> QED
    BY <1>1, Invariance, PTL

(* DelayedPackets implements DelayLine: whatever the delay of a client     *)
(* does, its packets are run in the order of arrival, those held back and  *)
(* those run at once, and none is run twice.                               *)
THEOREM RunInOrder == Spec => FirstInFirstOut
  <1>1. Init => Line!Init
    BY InitInv
  <1>2. IInv /\ [Next]_vars => [Line!Next]_<<Pending, last>>
    BY StepKeeps DEF Line_vars
  <1> QED
    BY <1>1, <1>2, Invariance, PTL DEF Spec, FirstInFirstOut, Line!Spec

=============================================================================
