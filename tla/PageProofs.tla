------------------------------ MODULE PageProofs ------------------------------
(***************************************************************************)
(* Proofs about the smaller pages: Roster, MqttChat, Signing, OsmDownload, *)
(* OsmView and ShellCache, for all values of their constants and without   *)
(* their bounds on what is awaited at a time.                              *)
(***************************************************************************)
EXTENDS Roster, MqttChat, Signing, OsmDownload, OsmView, ShellCache, FiniteSetTheorems,
        WellFoundedInduction, TLAPS

----------------------------------------------------------------------------
\* A set of numbers has a least one.
LEMMA LeastIs ==
    ASSUME NEW T \in SUBSET Nat, T # {}
    PROVE  Min(T) \in T /\ \A y \in T : Min(T) <= y
<1> DEFINE R == OpToRel(<, Nat)
<1>1. R = {s \in Nat \X Nat : s[1] < s[2]}
  BY DEF OpToRel
<1>2. IsWellFoundedOn(R, Nat)
  BY NatLessThanWellFounded
<1> HIDE DEF R
<1>3. PICK x \in T : \A y \in T : ~ (<<y, x>> \in R)
  BY <1>2, WFMin, Zenon
<1>4. ASSUME NEW y \in T PROVE x <= y
  <2>1. x \in Nat /\ y \in Nat
    OBVIOUS
  <2>2. <<y, x>> \in Nat \X Nat /\ <<y, x>>[1] = y /\ <<y, x>>[2] = x
    BY <2>1
  <2>3. ~ (<<y, x>> \in R)
    BY <1>3
  <2>4. ~ (y < x)
    BY <1>1, <2>2, <2>3
  <2> QED
    BY <2>1, <2>4
<1> QED
  BY <1>4 DEF Min

\* What holds of 0, and of n + 1 when it holds of n, holds of every number.
LEMMA CountingUp ==
    ASSUME NEW N \in Nat, NEW T, 0 \in T, \A n \in 0 .. N : n \in T /\ n < N => n + 1 \in T
    PROVE  \A n \in 0 .. N : n \in T
<1> DEFINE Not == {n \in 0 .. N : n \notin T}
<1>1. SUFFICES ASSUME Not # {} PROVE FALSE
  OBVIOUS
<1>2. Not \in SUBSET Nat
  OBVIOUS
<1> DEFINE m == Min(Not)
<1>3. m \in Not /\ \A n \in Not : m <= n
  <2> HIDE DEF Not
  <2> QED
    BY <1>1, <1>2, LeastIs
<1> HIDE DEF m
<1>4. m \in Nat /\ m # 0 /\ m \notin T /\ m \in 0 .. N
  BY <1>3
<1>5. m - 1 \in 0 .. N /\ m - 1 \notin Not /\ m - 1 < N /\ (m - 1) + 1 = m
  BY <1>3, <1>4
<1>6. m - 1 \in T
  BY <1>5
<1> QED
  BY <1>4, <1>5, <1>6

----------------------------------------------------------------------------
\* Roster.

\* A set of positions in order: each place holds one of them, and some member
\* has k - 1 others before it.
LEMMA InOrderIs ==
    ASSUME NEW N \in Nat, NEW S \in SUBSET (1 .. N)
    PROVE  /\ InOrder(S) \in Seq(S) /\ Len(InOrder(S)) = Cardinality(S)
           /\ \A k \in 1 .. Cardinality(S) :
                 \E i \in S : Cardinality({j \in S : j < i}) = k - 1
<1> DEFINE Before(i) == {j \in S : j < i}
           Holes == {k \in Nat : k < Cardinality(S) /\ ~\E i \in S : Cardinality(Before(i)) = k}
<1>0. S \in SUBSET Nat
  OBVIOUS
<1>1. IsFiniteSet(S) /\ Cardinality(S) \in Nat
  <2>1. 1 \in Int /\ N \in Int
    OBVIOUS
  <2>2. IsFiniteSet(1 .. N)
    BY <2>1, FS_Interval
  <2>3. IsFiniteSet(S)
    BY <2>2, FS_Subset
  <2> QED
    BY <2>3, FS_CardinalityType
<1>2. \A T \in SUBSET S : IsFiniteSet(T) /\ Cardinality(T) \in Nat
  BY <1>1, FS_Subset, FS_CardinalityType
<1>3. SUFFICES Holes = {}
  <2>1. \A k \in 1 .. Cardinality(S) : \E i \in S : Cardinality(Before(i)) = k - 1
    <3> TAKE k \in 1 .. Cardinality(S)
    <3>1. k - 1 \in Nat /\ k - 1 < Cardinality(S)
      BY <1>1
    <3> QED
      BY <1>3, <3>1
  <2>2. \A k \in 1 .. Cardinality(S) : InOrder(S)[k] \in S
    BY <2>1 DEF InOrder
  <2>3. InOrder(S) \in [1 .. Cardinality(S) -> S]
    BY <2>2 DEF InOrder
  <2>4. InOrder(S) \in Seq(S) /\ Len(InOrder(S)) = Cardinality(S)
    BY <1>1, <2>3
  <2> QED
    BY <2>1, <2>4
<1>4. SUFFICES ASSUME Holes # {} PROVE FALSE
  OBVIOUS
<1> DEFINE k == Min(Holes)
<1>5. k \in Holes /\ \A h \in Holes : k <= h
  <2>1. Holes \in SUBSET Nat
    OBVIOUS
  <2> HIDE DEF Holes
  <2> QED
    BY <1>4, <2>1, LeastIs
<1> HIDE DEF k
<1>6. /\ k \in Nat /\ k < Cardinality(S)
      /\ \A i \in S : Cardinality(Before(i)) # k
  BY <1>5
\* The lines before the least one that follows the first k make k of them.
<1>7. PICK T \in SUBSET S : /\ Cardinality(T) = k
                            /\ \A i \in S \ T, j \in T : j < i
  <2>1. CASE k = 0
    <3>1. Cardinality({}) = k /\ {} \in SUBSET S
      BY <2>1, FS_EmptySet
    <3> QED
      BY <3>1
  <2>2. CASE k # 0
    <3>1. k - 1 \in Nat /\ k - 1 \notin Holes
      BY <1>5, <1>6, <2>2
    <3>2. PICK i \in S : Cardinality(Before(i)) = k - 1
      BY <1>1, <1>6, <3>1
    <3>3. Cardinality(Before(i) \cup {i}) = k
      <4>1. IsFiniteSet(Before(i))
        BY <1>2
      <4>2. i \notin Before(i)
        BY <1>0
      <4> HIDE DEF Before
      <4>3. Cardinality(Before(i) \cup {i}) = Cardinality(Before(i)) + 1
        BY <4>1, <4>2, FS_AddElement
      <4> QED
        BY <1>6, <3>2, <4>3
    <3>4. \A m \in S \ (Before(i) \cup {i}), j \in Before(i) \cup {i} : j < m
      BY <1>0
    <3>5. Before(i) \cup {i} \in SUBSET S
      OBVIOUS
    <3> QED
      BY <3>3, <3>4, <3>5
  <2> QED
    BY <2>1, <2>2
<1>8. S \ T # {} /\ S \ T \in SUBSET Nat
  <2>1. S # T
    BY <1>1, <1>6, <1>7
  <2>2. S \ T # {}
    BY <2>1
  <2> QED
    BY <1>0, <2>2
<1>9. Min(S \ T) \in S \ T /\ \A i \in S \ T : Min(S \ T) <= i
  BY <1>8, LeastIs
<1>10. Before(Min(S \ T)) = T
  <2> DEFINE m == Min(S \ T)
  <2>1. m \in Nat /\ \A j \in S : j \in Nat
    BY <1>0, <1>9
  <2>2. \A j \in T : j < m
    BY <1>7, <1>9
  <2>3. \A j \in S \ T : m <= j
    BY <1>9
  <2> HIDE DEF m
  <2>4. \A j \in S : j < m <=> j \in T
    BY <2>1, <2>2, <2>3
  <2>5. Before(m) = T
    BY <2>4
  <2> QED
    BY <2>5 DEF m
<1> QED
  BY <1>6, <1>7, <1>9, <1>10

\* The rising list of all members of a set of positions is the set in order:
\* two members have different numbers of members before them.
LEMMA RisingIs ==
    ASSUME NEW N \in Nat, NEW S \in SUBSET (1 .. N), NEW n \in Nat, NEW g \in [1 .. n -> S],
           \A k, l \in 1 .. n : k < l => g[k] < g[l],
           \A i \in S : \E k \in 1 .. n : g[k] = i
    PROVE  InOrder(S) = g /\ Cardinality(S) = n
<1> DEFINE Before(i) == {j \in S : j < i}
<1>1. \A i \in S : i \in Nat
  OBVIOUS
<1>2. ASSUME NEW k \in 0 .. n PROVE Cardinality({g[j] : j \in 1 .. k}) = k
  <2> DEFINE T == {g[j] : j \in 1 .. k}
             h == [j \in 1 .. k |-> g[j]]
  <2>1. h \in [1 .. k -> T] /\ \A i \in T : \E j \in 1 .. k : h[j] = i
    OBVIOUS
  <2>2. \A i, j \in 1 .. k : h[i] = h[j] => i = j
    <3>1. \A i \in 1 .. k : h[i] = g[i] /\ i \in 1 .. n /\ g[i] \in Nat
      <4> TAKE i \in 1 .. k
      <4>1. h[i] = g[i] /\ i \in 1 .. n
        OBVIOUS
      <4>2. g[i] \in S
        BY <4>1
      <4> QED
        BY <1>1, <4>1, <4>2
    <3> HIDE DEF h
    <3> QED
      BY <3>1
  <2>3. k \in Nat /\ 1 .. k = DOMAIN h
    OBVIOUS
  <2> HIDE DEF h, T
  <2>4. h \in Bijection(1 .. k, T)
    BY <2>1, <2>2, <2>3 DEF Bijection, Injection, Surjection, IsInjective
  <2>5. ExistsBijection(1 .. k, T)
    BY <2>4 DEF ExistsBijection
  <2> QED
    BY <2>3, <2>5, FS_CountingElements DEF T
<1>3. Cardinality(S) = n
  <2>1. S = {g[j] : j \in 1 .. n}
    OBVIOUS
  <2>2. n \in 0 .. n
    OBVIOUS
  <2> QED
    BY <1>2, <2>1, <2>2
<1>4. ASSUME NEW k \in 1 .. n PROVE Cardinality(Before(g[k])) = k - 1
  <2>1. Before(g[k]) = {g[j] : j \in 1 .. k - 1}
    <3>1. ASSUME NEW i \in S, i < g[k] PROVE i \in {g[j] : j \in 1 .. k - 1}
      <4>1. PICK j \in 1 .. n : g[j] = i
        OBVIOUS
      <4>2. g[j] \in Nat /\ g[k] \in Nat
        BY <1>1
      <4>3. j < k
        BY <3>1, <4>1, <4>2
      <4> QED
        BY <4>1, <4>3
    <3>2. ASSUME NEW j \in 1 .. k - 1 PROVE g[j] \in S /\ g[j] < g[k]
      OBVIOUS
    <3> QED
      BY <3>1, <3>2
  <2>2. k - 1 \in 0 .. n
    OBVIOUS
  <2> QED
    BY <1>2, <2>1, <2>2
<1>5. ASSUME NEW k \in 1 .. n
      PROVE  (CHOOSE i \in S : Cardinality(Before(i)) = k - 1) = g[k]
  <2>1. \A i \in S : Cardinality(Before(i)) = k - 1 => i = g[k]
    <3> HIDE DEF Before
    <3> TAKE i \in S
    <3>1. PICK j \in 1 .. n : g[j] = i
      OBVIOUS
    <3>2. Cardinality(Before(i)) = j - 1
      BY <1>4, <3>1
    <3> QED
      BY <3>1, <3>2
  <2>2. g[k] \in S /\ Cardinality(Before(g[k])) = k - 1
    BY <1>4
  <2> HIDE DEF Before
  <2> QED
    BY <2>1, <2>2
<1>6. InOrder(S) = [k \in 1 .. n |-> CHOOSE i \in S : Cardinality(Before(i)) = k - 1]
  BY <1>3 DEF InOrder
<1>7. InOrder(S) = [k \in 1 .. n |-> g[k]]
  <2> HIDE DEF Before
  <2> QED
    BY <1>5, <1>6
<1> QED
  BY <1>3, <1>7

\* A set of positions in order rises and leaves no member out.
LEMMA InOrderRises ==
    ASSUME NEW N \in Nat, NEW S \in SUBSET (1 .. N)
    PROVE  /\ \A k, l \in DOMAIN InOrder(S) : k < l => InOrder(S)[k] < InOrder(S)[l]
           /\ \A i \in S : \E k \in DOMAIN InOrder(S) : InOrder(S)[k] = i
<1> DEFINE Before(i) == {j \in S : j < i}
           n == Cardinality(S)
           o == InOrder(S)
<1>1. \A i \in S : i \in Nat
  OBVIOUS
<1>2. o \in [1 .. n -> S] /\ n \in Nat
  <2>1. o \in Seq(S) /\ Len(o) = n
    BY InOrderIs
  <2>2. IsFiniteSet(S)
    <3>1. IsFiniteSet(1 .. N)
      BY FS_Interval
    <3> QED
      BY <3>1, FS_Subset
  <2>3. n \in Nat
    BY <2>2, FS_CardinalityType
  <2> HIDE DEF o, n
  <2> QED
    BY <2>1, <2>3
<1>3. \A T \in SUBSET S : IsFiniteSet(T) /\ Cardinality(T) \in Nat
  <2>1. IsFiniteSet(1 .. N)
    BY FS_Interval
  <2>2. \A T \in SUBSET S : T \in SUBSET (1 .. N)
    OBVIOUS
  <2> QED
    BY <2>1, <2>2, FS_Subset, FS_CardinalityType
<1>4. ASSUME NEW i \in S, NEW j \in S, i < j
      PROVE  Cardinality(Before(i)) < Cardinality(Before(j))
  <2>1. Before(i) \in SUBSET Before(j) /\ Before(i) # Before(j) /\ Before(j) \in SUBSET S
    <3>1. i \in Nat /\ j \in Nat
      BY <1>1
    <3>2. \A k \in S : k < i => k < j
      BY <1>1, <1>4, <3>1
    <3>3. i \in Before(j) /\ i \notin Before(i)
      BY <1>4, <3>1
    <3> QED
      BY <3>2, <3>3
  <2>2. IsFiniteSet(Before(j)) /\ Cardinality(Before(i)) \in Nat /\ Cardinality(Before(j)) \in Nat
    BY <1>3
  <2> HIDE DEF Before
  <2>3. Cardinality(Before(i)) <= Cardinality(Before(j)) /\ Cardinality(Before(i)) # Cardinality(Before(j))
    BY <2>1, <2>2, FS_Subset
  <2> QED
    BY <2>2, <2>3
<1>5. ASSUME NEW i \in S PROVE Cardinality(Before(i)) \in 0 .. n - 1
  <2>1. Before(i) \in SUBSET S /\ Before(i) # S
    BY <1>1
  <2>2. IsFiniteSet(S) /\ Cardinality(Before(i)) \in Nat
    BY <1>3
  <2> HIDE DEF Before
  <2>3. Cardinality(Before(i)) <= n /\ Cardinality(Before(i)) # n
    BY <2>1, <2>2, FS_Subset
  <2> QED
    BY <1>2, <2>2, <2>3
<1>6. \A k \in 1 .. n : Cardinality(Before(o[k])) = k - 1
  <2> TAKE k \in 1 .. n
  <2>1. \E i \in S : Cardinality(Before(i)) = k - 1
    BY InOrderIs
  <2>2. o[k] = CHOOSE i \in S : Cardinality(Before(i)) = k - 1
    BY DEF InOrder
  <2> HIDE DEF Before
  <2> QED
    BY <2>1, <2>2
<1> HIDE DEF Before, o
<1>7. ASSUME NEW k \in 1 .. n, NEW l \in 1 .. n, k < l PROVE o[k] < o[l]
  <2>1. o[k] \in S /\ o[l] \in S
    BY <1>2
  <2>2. o[k] \in Nat /\ o[l] \in Nat
    BY <1>1, <2>1
  <2>3. Cardinality(Before(o[k])) = k - 1 /\ Cardinality(Before(o[l])) = l - 1
    BY <1>6
  <2>4. o[k] # o[l]
    BY <1>7, <2>3
  <2>5. ~ (o[l] < o[k])
    <3>1. o[l] < o[k] => l - 1 < k - 1
      BY <1>4, <2>1, <2>3
    <3> QED
      BY <1>2, <1>7, <3>1
  <2> QED
    BY <2>2, <2>4, <2>5
<1>8. ASSUME NEW i \in S PROVE \E k \in 1 .. n : o[k] = i
  <2> DEFINE k == Cardinality(Before(i)) + 1
  <2>1. k \in 1 .. n /\ k - 1 = Cardinality(Before(i))
    BY <1>2, <1>5
  <2>2. o[k] \in S /\ Cardinality(Before(o[k])) = Cardinality(Before(i))
    BY <1>2, <1>6, <2>1
  <2> HIDE DEF k
  <2>3. Cardinality(Before(i)) \in Nat /\ o[k] \in Nat /\ i \in Nat
    <3>1. Cardinality(Before(i)) \in Nat
      BY <1>2, <1>5
    <3>2. o[k] \in Nat /\ i \in Nat
      BY <1>1, <2>2
    <3> QED
      BY <3>1, <3>2
  <2>4. ~ (o[k] < i) /\ ~ (i < o[k])
    BY <1>4, <2>2, <2>3
  <2> QED
    BY <2>1, <2>3, <2>4
<1>9. DOMAIN o = 1 .. n
  BY <1>2
<1> QED
  BY <1>7, <1>8, <1>9 DEF o

\* What parseRoster gives and the handlers keep.
Block == [start : Nat, stop : Nat, players : Seq(Slots)]

\* Parsing a text gives blocks whose players are slots of the text.
LEMMA ParseBlocks ==
    ASSUME NEW text \in Seq(Line)
    PROVE  ParseRoster(text) \in Seq(Block)
<1> DEFINE D == {i \in DOMAIN text : text[i].kind = "date"}
<1>1. Len(text) \in Nat /\ DOMAIN text = 1 .. Len(text)
  OBVIOUS
<1>2. Dates(text) \in Seq(D)
  <2>1. D \in SUBSET (1 .. Len(text))
    BY <1>1
  <2> HIDE DEF D
  <2>2. InOrder(D) \in Seq(D)
    BY <1>1, <2>1, InOrderIs
  <2> QED
    BY <2>2 DEF Dates, D
<1>3. Len(Dates(text)) \in Nat /\ DOMAIN Dates(text) = 1 .. Len(Dates(text))
  BY <1>2
<1>4. ASSUME NEW i \in DOMAIN Dates(text) PROVE ParseRoster(text)[i] \in Block
  <2> DEFINE B == BlockLines(text, i)
             at == InOrder(B)
  <2>1. B \in SUBSET (1 .. Len(text))
    <3>1. Dates(text)[i] \in 1 .. Len(text)
      BY <1>1, <1>2, <1>4
    <3>2. i < Len(Dates(text)) => Dates(text)[i + 1] \in 1 .. Len(text)
      BY <1>1, <1>2, <1>3, <1>4
    <3> QED
      BY <1>1, <3>1, <3>2 DEF BlockLines
  <2> HIDE DEF B
  <2>2. at \in Seq(B)
    BY <1>1, <2>1, InOrderIs
  <2>3. ParseRoster(text)[i] =
            [start   |-> IF at = <<>> THEN 0 ELSE Head(at),
             stop    |-> IF at = <<>> THEN 0 ELSE Last(at),
             players |-> [j \in DOMAIN at |-> text[at[j]].slot]]
    BY <1>4 DEF ParseRoster, B
  <2> HIDE DEF at
  <2>4. \A j \in DOMAIN at : at[j] \in 1 .. Len(text)
    <3>1. \A j \in DOMAIN at : at[j] \in B
      BY <2>2
    <3> QED
      BY <2>1, <3>1
  <2>5. at # <<>> => Head(at) \in Nat /\ Last(at) \in Nat
    <3>1. at # <<>> => 1 \in DOMAIN at /\ Len(at) \in DOMAIN at /\ Head(at) = at[1]
      BY <2>2
    <3>2. \A n \in 1 .. Len(text) : n \in Nat
      OBVIOUS
    <3> QED
      BY <2>4, <3>1, <3>2 DEF Last
  <2>6. [j \in DOMAIN at |-> text[at[j]].slot] \in Seq(Slots)
    <3>1. \A j \in DOMAIN at : text[at[j]] \in Line
      BY <1>1, <2>4
    <3>2. \A j \in DOMAIN at : text[at[j]].slot \in Slots
      BY <3>1 DEF Line
    <3>3. DOMAIN at = 1 .. Len(at) /\ Len(at) \in Nat
      BY <2>2
    <3> QED
      BY <3>2, <3>3
  <2> QED
    BY <2>3, <2>5, <2>6 DEF Block
<1> QED
  BY <1>3, <1>4 DEF ParseRoster

\* Moving positions without changing their order moves the set in order.
LEMMA MovedIs ==
    ASSUME NEW N \in Nat, NEW S \in SUBSET (1 .. N), NEW M \in Nat, NEW T \in SUBSET (1 .. M),
           NEW f \in [S -> T],
           \A i, j \in S : i < j => f[i] < f[j],
           \A t \in T : \E i \in S : f[i] = t
    PROVE  InOrder(T) = [k \in DOMAIN InOrder(S) |-> f[InOrder(S)[k]]]
<1> DEFINE o == InOrder(S)
           n == Len(o)
           g == [k \in 1 .. n |-> f[o[k]]]
<1>1. o \in Seq(S)
  BY InOrderIs
<1>2. n \in Nat /\ DOMAIN o = 1 .. n /\ \A k \in 1 .. n : o[k] \in S
  BY <1>1
<1>3. /\ \A k, l \in 1 .. n : k < l => o[k] < o[l]
      /\ \A i \in S : \E k \in 1 .. n : o[k] = i
  BY <1>2, InOrderRises
<1> HIDE DEF o, n
<1>4. g \in [1 .. n -> T]
  BY <1>2
<1>5. \A k, l \in 1 .. n : k < l => g[k] < g[l]
  BY <1>2, <1>3
<1>6. \A t \in T : \E k \in 1 .. n : g[k] = t
  <2> TAKE t \in T
  <2>1. PICK i \in S : f[i] = t
    OBVIOUS
  <2>2. PICK k \in 1 .. n : o[k] = i
    BY <1>3
  <2> QED
    BY <2>1, <2>2
<1> HIDE DEF g
<1>7. InOrder(T) = g
  BY <1>2, <1>4, <1>5, <1>6, RisingIs
<1> QED
  BY <1>2, <1>7 DEF g, o

\* A run of positions in order.
LEMMA RunIs ==
    ASSUME NEW a \in Nat \ {0}, NEW n \in Nat
    PROVE  InOrder(a .. a + n - 1) = [k \in 1 .. n |-> a + k - 1]
<1> DEFINE g == [k \in 1 .. n |-> a + k - 1]
           S == a .. a + n - 1
<1>1. a + n \in Nat /\ S \in SUBSET (1 .. a + n)
  OBVIOUS
<1>2. g \in [1 .. n -> S]
  OBVIOUS
<1>3. \A k, l \in 1 .. n : k < l => g[k] < g[l]
  OBVIOUS
<1>4. \A i \in S : \E k \in 1 .. n : g[k] = i
  <2> TAKE i \in S
  <2>1. i - a + 1 \in 1 .. n /\ g[i - a + 1] = i
    OBVIOUS
  <2> QED
    BY <2>1
<1> HIDE DEF g, S
<1>5. InOrder(S) = g
  BY <1>1, <1>2, <1>3, <1>4, RisingIs
<1> QED
  BY <1>5 DEF g, S

\* Where Splice moves a line that it does not replace.
Replaced(b) == b.start .. b.stop
Shift(b, p) == IF p < b.start THEN p ELSE p + Len(b.players) - (b.stop + 1 - b.start)

\* A block that can be written to a text.
Fits(b, text) ==
    /\ b \in Block /\ text \in Seq(Line)
    /\ 1 <= b.start /\ b.start <= b.stop /\ b.stop <= Len(text)

\* Two lists, one after the other.
LEMMA JoinIs ==
    ASSUME NEW S, NEW x \in Seq(S), NEW y \in Seq(S), NEW z, z = x \o y
    PROVE  /\ z \in Seq(S) /\ Len(z) = Len(x) + Len(y)
           /\ \A p \in 1 .. Len(x) : z[p] = x[p]
           /\ \A p \in 1 .. Len(y) : z[Len(x) + p] = y[p]
<1>1. Len(x) \in Nat /\ Len(y) \in Nat
  OBVIOUS
<1>2. z \in Seq(S)
  OBVIOUS
<1>3. Len(z) = Len(x) + Len(y)
  OBVIOUS
<1>4. \A p \in 1 .. Len(x) : z[p] = x[p]
  BY <1>1
<1>5. \A p \in 1 .. Len(y) : z[Len(x) + p] = y[p]
  BY <1>1
<1> QED
  BY <1>2, <1>3, <1>4, <1>5

\* The text after a Splice: the players where the old ones stood, and every
\* other line, moved.
LEMMA SpliceIs ==
    ASSUME NEW b, NEW text, Fits(b, text)
    PROVE  /\ Splice(b, text) \in Seq(Line)
           /\ Len(Splice(b, text)) = Shift(b, Len(text) + 1) - 1
           /\ \A p \in (1 .. Len(text)) \ Replaced(b) :
                 Splice(b, text)[Shift(b, p)] = text[p]
           /\ \A m \in 1 .. Len(b.players) :
                 Splice(b, text)[b.start + m - 1] = [kind |-> "player", slot |-> b.players[m]]
<1> DEFINE L == Len(b.players)
           N == Len(text)
           s == b.start
           t == b.stop
           front == SubSeq(text, 1, s - 1)
           mid == PlayerLines(b.players)
           back == SubSeq(text, t + 1, N)
           left == front \o mid
           out == left \o back
<1>1. /\ L \in Nat /\ N \in Nat /\ s \in Nat /\ t \in Nat
      /\ 1 <= s /\ s <= t /\ t <= N /\ text \in Seq(Line)
      /\ b.players \in Seq(Slots)
  BY DEF Fits, Block
<1>2. Splice(b, text) = out
  <2>1. b.start # 0
    BY <1>1
  <2> QED
    BY <2>1, Zenon DEF Splice
<1>3. \A p \in Nat : Shift(b, p) = IF p < s THEN p ELSE p + L - (t + 1 - s)
  BY DEF Shift
<1>4. Replaced(b) = s .. t
  BY DEF Replaced
<1>5. /\ mid \in Seq(Line) /\ Len(mid) = L
      /\ \A m \in 1 .. L : mid[m] = [kind |-> "player", slot |-> b.players[m]]
  <2>1. DOMAIN b.players = 1 .. L /\ \A m \in 1 .. L : b.players[m] \in Slots
    BY <1>1
  <2>2. mid = [m \in 1 .. L |-> [kind |-> "player", slot |-> b.players[m]]]
    BY <2>1 DEF PlayerLines
  <2>3. \A m \in 1 .. L : [kind |-> "player", slot |-> b.players[m]] \in Line
    BY <2>1 DEF Line
  <2> HIDE DEF mid
  <2> QED
    BY <1>1, <2>2, <2>3
<1> HIDE DEF L, s, t, mid
<1>6. front \in Seq(Line) /\ Len(front) = s - 1 /\ \A p \in 1 .. s - 1 : front[p] = text[p]
  BY <1>1
<1>7. /\ back \in Seq(Line) /\ Len(back) = N - t
      /\ \A p \in 1 .. N - t : back[p] = text[t + p]
  BY <1>1
<1> HIDE DEF front, back, N
<1>8. /\ left \in Seq(Line) /\ Len(left) = s - 1 + L
      /\ \A p \in 1 .. s - 1 : left[p] = text[p]
      /\ \A m \in 1 .. L : left[s - 1 + m] = mid[m]
  <2>0. left = front \o mid
    OBVIOUS
  <2> HIDE DEF left
  <2>1. /\ left \in Seq(Line) /\ Len(left) = Len(front) + Len(mid)
        /\ \A p \in 1 .. Len(front) : left[p] = front[p]
        /\ \A m \in 1 .. Len(mid) : left[Len(front) + m] = mid[m]
    <3>1. front \in Seq(Line) /\ mid \in Seq(Line)
      BY <1>5, <1>6
    <3> QED
      BY <2>0, <3>1, JoinIs
  <2> QED
    BY <1>5, <1>6, <2>1
<1> HIDE DEF left
<1>9. /\ out \in Seq(Line) /\ Len(out) = s - 1 + L + (N - t)
      /\ \A p \in 1 .. s - 1 + L : out[p] = left[p]
      /\ \A p \in 1 .. N - t : out[s - 1 + L + p] = back[p]
  <2>0. out = left \o back
    OBVIOUS
  <2> HIDE DEF out
  <2>1. /\ out \in Seq(Line) /\ Len(out) = Len(left) + Len(back)
        /\ \A p \in 1 .. Len(left) : out[p] = left[p]
        /\ \A p \in 1 .. Len(back) : out[Len(left) + p] = back[p]
    <3>1. left \in Seq(Line) /\ back \in Seq(Line)
      BY <1>7, <1>8
    <3> QED
      BY <2>0, <3>1, JoinIs
  <2> QED
    BY <1>7, <1>8, <2>1
<1> HIDE DEF out
<1>10. Len(out) = Shift(b, N + 1) - 1
  <2>1. N + 1 \in Nat /\ ~(N + 1 < s)
    BY <1>1
  <2>2. Shift(b, N + 1) = N + 1 + L - (t + 1 - s)
    BY <1>3, <2>1
  <2> QED
    BY <1>1, <1>9, <2>2
<1>11. \A p \in (1 .. N) \ Replaced(b) : out[Shift(b, p)] = text[p]
  <2>1. ASSUME NEW p \in 1 .. N, p < s PROVE out[Shift(b, p)] = text[p]
    <3>1. Shift(b, p) = p /\ p \in 1 .. s - 1 /\ p \in 1 .. s - 1 + L
      BY <1>1, <1>3, <2>1
    <3> QED
      BY <1>8, <1>9, <3>1
  <2>2. ASSUME NEW p \in 1 .. N, p > t PROVE out[Shift(b, p)] = text[p]
    <3>1. Shift(b, p) = s - 1 + L + (p - t)
      BY <1>1, <1>3, <2>2
    <3>2. p - t \in 1 .. N - t /\ t + (p - t) = p
      BY <1>1, <2>2
    <3>3. back[p - t] = text[p]
      BY <1>7, <3>2
    <3> QED
      BY <1>9, <3>1, <3>2, <3>3
  <2> QED
    BY <1>1, <1>4, <2>1, <2>2
<1>12. \A m \in 1 .. L : out[s + m - 1] = mid[m]
  <2> TAKE m \in 1 .. L
  <2>1. s - 1 + m \in 1 .. s - 1 + L /\ s - 1 + m = s + m - 1
    BY <1>1
  <2> QED
    BY <1>8, <1>9, <2>1
<1> QED
  BY <1>2, <1>5, <1>9, <1>10, <1>11, <1>12 DEF L, N, s

\* Splice keeps the order of the lines, on either side of the players.
LEMMA ShiftIs ==
    ASSUME NEW b, NEW text, Fits(b, text)
    PROVE  LET N == Len(text)
               new == b.start .. b.start + Len(b.players) - 1
               kept == (1 .. N + 1) \ Replaced(b)
           IN /\ \A p \in kept : Shift(b, p) \in (1 .. Shift(b, N + 1)) \ new
              /\ \A p, q \in kept : p < q <=> Shift(b, p) < Shift(b, q)
              /\ \A p \in kept : p < b.start => Shift(b, p) = p
              /\ \A q \in (1 .. Shift(b, N + 1) - 1) \ new :
                    \E p \in kept : p <= N /\ Shift(b, p) = q
              /\ new \in SUBSET (1 .. Shift(b, N + 1) - 1)
              /\ \A p \in kept : /\ p > b.stop => Shift(b, p) >= b.start + Len(b.players)
                                 /\ p < b.start \/ p > b.stop
              /\ Shift(b, N + 1) \in Nat \ {0}
<1> DEFINE L == Len(b.players)
           N == Len(text)
           s == b.start
           t == b.stop
<1>1. /\ L \in Nat /\ N \in Nat /\ s \in Nat /\ t \in Nat
      /\ 1 <= s /\ s <= t /\ t <= N
  BY DEF Fits, Block
<1>2. \A p : Shift(b, p) = IF p < s THEN p ELSE p + L - (t + 1 - s)
  BY DEF Shift
<1>3. Replaced(b) = s .. t
  BY DEF Replaced
<1> HIDE DEF L, N, s, t
<1> DEFINE new == s .. s + L - 1
           kept == (1 .. N + 1) \ (s .. t)
<1>4. Shift(b, N + 1) = N + 1 + L - (t + 1 - s)
  BY <1>1, <1>2
<1>5. \A p \in kept : Shift(b, p) \in (1 .. Shift(b, N + 1)) \ new
  BY <1>1, <1>2, <1>4
<1>6. \A p, q \in kept : p < q <=> Shift(b, p) < Shift(b, q)
  BY <1>1, <1>2
<1>7. \A p \in kept : p < s => Shift(b, p) = p
  BY <1>2
<1>8. \A q \in (1 .. Shift(b, N + 1) - 1) \ new : \E p \in kept : p <= N /\ Shift(b, p) = q
  <2> TAKE q \in (1 .. Shift(b, N + 1) - 1) \ new
  <2>1. CASE q < s
    BY <1>1, <1>2, <2>1
  <2>2. CASE q >= s + L
    <3> DEFINE p == q - L + (t + 1 - s)
    <3>1. p \in kept /\ p <= N /\ ~(p < s) /\ p + L - (t + 1 - s) = q
      BY <1>1, <1>4, <2>2
    <3>2. Shift(b, p) = q
      BY <1>2, <3>1
    <3> QED
      BY <3>1, <3>2
  <2> QED
    BY <1>1, <2>1, <2>2
<1>9. new \in SUBSET (1 .. Shift(b, N + 1) - 1)
  BY <1>1, <1>4
<1>10. \A p \in kept : /\ p > t => Shift(b, p) >= s + L
                       /\ p < s \/ p > t
  BY <1>1, <1>2
<1>11. Shift(b, N + 1) \in Nat \ {0}
  BY <1>1, <1>4
<1> QED
  BY <1>3, <1>5, <1>6, <1>7, <1>8, <1>9, <1>10, <1>11 DEF L, N, s, t

\* Lines that are moved stay in order.
LEMMA ShiftedIs ==
    ASSUME NEW b, NEW text, Fits(b, text), NEW S \in SUBSET ((1 .. Len(text)) \ Replaced(b))
    PROVE  InOrder({Shift(b, p) : p \in S}) = [k \in DOMAIN InOrder(S) |-> Shift(b, InOrder(S)[k])]
<1> DEFINE N == Len(text)
           T == {Shift(b, p) : p \in S}
           f == [p \in S |-> Shift(b, p)]
           o == InOrder(S)
<1>1. N \in Nat /\ S \in SUBSET (1 .. N) /\ S \in SUBSET ((1 .. N + 1) \ Replaced(b))
  BY DEF Fits
<1>2. Shift(b, N + 1) \in Nat /\ \A p \in S : Shift(b, p) \in 1 .. Shift(b, N + 1)
  BY <1>1, ShiftIs
<1>3. T \in SUBSET (1 .. Shift(b, N + 1))
  BY <1>2
<1>4. f \in [S -> T] /\ \A t \in T : \E i \in S : f[i] = t
  OBVIOUS
<1>5. \A i, j \in S : i < j => f[i] < f[j]
  BY <1>1, ShiftIs
<1> HIDE DEF f, T, N
<1>6. InOrder(T) = [k \in DOMAIN o |-> f[o[k]]]
  <2> DEFINE M == Shift(b, N + 1)
  <2>1. N \in Nat /\ S \in SUBSET (1 .. N) /\ M \in Nat /\ T \in SUBSET (1 .. M)
    BY <1>1, <1>2, <1>3
  <2> HIDE DEF M
  <2> QED
    BY <1>4, <1>5, <2>1, MovedIs, SMTT(60)
<1>7. \A k \in DOMAIN o : o[k] \in S
  <2>1. o \in Seq(S)
    BY <1>1, InOrderIs
  <2> HIDE DEF o
  <2> QED
    BY <2>1
<1> HIDE DEF o
<1>8. \A k \in DOMAIN o : f[o[k]] = Shift(b, o[k])
  BY <1>7 DEF f
<1> QED
  BY <1>6, <1>8 DEF T, o

\* The date lines of a text, and where the block of the i-th of them ends.
DateLines(text) == {i \in DOMAIN text : text[i].kind = "date"}
BlockEnd(text, i) == IF i < Len(Dates(text)) THEN Dates(text)[i + 1] ELSE Len(text) + 1

\* The dates are the date lines from top to bottom.
LEMMA DatesAre ==
    ASSUME NEW text \in Seq(Line)
    PROVE  LET D == Dates(text) IN
           /\ Len(D) \in Nat /\ DOMAIN D = 1 .. Len(D)
           /\ \A k \in DOMAIN D : D[k] \in DateLines(text)
           /\ \A k, l \in DOMAIN D : k < l => D[k] < D[l]
           /\ \A p \in DateLines(text) : \E k \in DOMAIN D : D[k] = p
           /\ DateLines(text) \in SUBSET (1 .. Len(text))
<1> DEFINE S == DateLines(text)
           D == InOrder(S)
<1>1. Len(text) \in Nat /\ S \in SUBSET (1 .. Len(text))
  BY DEF DateLines
<1>2. D \in Seq(S)
  BY <1>1, InOrderIs
<1>3. /\ \A k, l \in DOMAIN D : k < l => D[k] < D[l]
      /\ \A i \in S : \E k \in DOMAIN D : D[k] = i
  BY <1>1, InOrderRises
<1>4. Dates(text) = D
  BY DEF Dates, DateLines
<1> HIDE DEF D
<1>5. Len(D) \in Nat /\ DOMAIN D = 1 .. Len(D) /\ \A k \in DOMAIN D : D[k] \in S
  BY <1>2
<1> QED
  BY <1>1, <1>3, <1>4, <1>5

\* The lines of a block lie between its date and the next.
LEMMA BlockLinesAre ==
    ASSUME NEW text \in Seq(Line), NEW i \in DOMAIN Dates(text)
    PROVE  /\ BlockLines(text, i) =
                  {p \in 1 .. Len(text) : /\ Dates(text)[i] < p /\ p < BlockEnd(text, i)
                                          /\ text[p].kind = "player"}
           /\ Dates(text)[i] \in 1 .. Len(text) /\ BlockEnd(text, i) \in 1 .. Len(text) + 1
<1> DEFINE D == Dates(text)
<1>1. /\ Len(D) \in Nat /\ DOMAIN D = 1 .. Len(D)
      /\ \A k \in DOMAIN D : D[k] \in 1 .. Len(text)
  BY DatesAre
<1>2. D[i] \in 1 .. Len(text) /\ Len(text) \in Nat
  BY <1>1
<1>3. BlockEnd(text, i) \in 1 .. Len(text) + 1
  BY <1>1, <1>2 DEF BlockEnd
<1>4. BlockLines(text, i) = {p \in D[i] + 1 .. BlockEnd(text, i) - 1 : text[p].kind = "player"}
  BY DEF BlockLines, BlockEnd
<1> HIDE DEF D
<1> QED
  BY <1>2, <1>3, <1>4 DEF D

\* A block whose first and last player line are where it says.
Frames(b, text, i) ==
    /\ Fits(b, text) /\ i \in DOMAIN Dates(text)
    /\ b.start \in BlockLines(text, i) /\ b.stop \in BlockLines(text, i)
    /\ BlockLines(text, i) \subseteq Replaced(b)

\* Which dates stand above the players of the block, and which below.
LEMMA Around ==
    ASSUME NEW b, NEW text, NEW i, Frames(b, text, i), NEW k \in DOMAIN Dates(text)
    PROVE  /\ k <= i => Dates(text)[k] < b.start
           /\ k > i => Dates(text)[k] > b.stop
           /\ b.stop < BlockEnd(text, i)
<1> DEFINE D == Dates(text)
<1>1. text \in Seq(Line) /\ i \in DOMAIN D /\ b.start \in Nat /\ b.stop \in Nat
  BY DEF Frames, Fits, Block
<1>2. /\ Len(D) \in Nat /\ DOMAIN D = 1 .. Len(D)
      /\ \A m \in DOMAIN D : D[m] \in Nat
      /\ \A m, l \in DOMAIN D : m < l => D[m] < D[l]
  <2>1. \A m \in DOMAIN D : D[m] \in 1 .. Len(text)
    BY <1>1, DatesAre
  <2>2. \A m \in DOMAIN D : D[m] \in Nat
    BY <2>1
  <2> QED
    BY <1>1, <2>2, DatesAre
<1>3. D[i] < b.start /\ b.stop < BlockEnd(text, i) /\ BlockEnd(text, i) \in Nat
  BY <1>1, BlockLinesAre DEF Frames
<1> HIDE DEF D
<1>4. k <= i => D[k] < b.start
  <2>1. k \in 1 .. Len(D) /\ i \in 1 .. Len(D)
    BY <1>1, <1>2 DEF D
  <2>2. k <= i => D[k] <= D[i]
    BY <1>2, <2>1
  <2>3. D[k] \in Nat /\ D[i] \in Nat
    BY <1>2, <2>1
  <2> QED
    BY <1>1, <1>3, <2>2, <2>3
<1>5. k > i => D[k] > b.stop
  <2> SUFFICES ASSUME k > i PROVE D[k] > b.stop
    OBVIOUS
  <2>1. k \in 1 .. Len(D) /\ i \in 1 .. Len(D) /\ i + 1 \in 1 .. Len(D)
    BY <1>1, <1>2 DEF D
  <2>2. BlockEnd(text, i) = D[i + 1]
    BY <1>2, <2>1 DEF BlockEnd, D
  <2>3. D[i + 1] <= D[k] /\ D[k] \in Nat /\ D[i + 1] \in Nat
    BY <1>2, <2>1
  <2> QED
    BY <1>1, <1>3, <2>2, <2>3
<1> QED
  BY <1>3, <1>4, <1>5 DEF D

\* Rewriting the players of a block moves the dates and makes no new one.
LEMMA SpliceDates ==
    ASSUME NEW b, NEW text, NEW i, Frames(b, text, i)
    PROVE  /\ DateLines(text) \in SUBSET ((1 .. Len(text)) \ Replaced(b))
           /\ Dates(Splice(b, text)) =
                  [k \in DOMAIN Dates(text) |-> Shift(b, Dates(text)[k])]
<1> DEFINE D == Dates(text)
           out == Splice(b, text)
           N == Len(text)
           new == b.start .. b.start + Len(b.players) - 1
<1>1. /\ text \in Seq(Line) /\ b \in Block /\ Fits(b, text) /\ N \in Nat
      /\ b.start \in Nat /\ b.stop \in Nat /\ Len(b.players) \in Nat
  BY DEF Frames, Fits, Block
<1>2. DateLines(text) \in SUBSET (1 .. N) /\ DateLines(text) \cap Replaced(b) = {}
  <2>1. DateLines(text) \in SUBSET (1 .. N)
    BY <1>1, DatesAre
  <2>2. ASSUME NEW p \in DateLines(text) PROVE p \notin Replaced(b)
    <3>1. PICK k \in DOMAIN D : D[k] = p
      BY <1>1, DatesAre
    <3>2. i \in DOMAIN D /\ k \in Int /\ i \in Int
      <4>1. DOMAIN D = 1 .. Len(D)
        BY <1>1, DatesAre
      <4>2. i \in DOMAIN D
        BY DEF Frames
      <4> HIDE DEF D
      <4> QED
        BY <4>1, <4>2
    <3>3. p < b.start \/ p > b.stop
      BY <3>1, <3>2, Around
    <3>4. p \in Nat
      BY <1>1, <2>1
    <3> QED
      BY <1>1, <3>3, <3>4 DEF Replaced
  <2> QED
    BY <2>1, <2>2
<1>3. /\ out \in Seq(Line) /\ Len(out) = Shift(b, N + 1) - 1
      /\ \A p \in (1 .. N) \ Replaced(b) : out[Shift(b, p)] = text[p]
      /\ \A m \in 1 .. Len(b.players) :
            out[b.start + m - 1] = [kind |-> "player", slot |-> b.players[m]]
  BY <1>1, SpliceIs
<1> HIDE DEF out
<1>4. DateLines(out) = {Shift(b, p) : p \in DateLines(text)}
  <2>1. ASSUME NEW p \in DateLines(text) PROVE Shift(b, p) \in DateLines(out)
    <3>1. p \in (1 .. N) \ Replaced(b) /\ text[p].kind = "date"
      BY <1>2 DEF DateLines
    <3>2. out[Shift(b, p)].kind = "date"
      BY <1>3, <3>1
    <3>3. Shift(b, p) \in 1 .. Len(out)
      <4>1. p \in (1 .. N + 1) \ Replaced(b) /\ N + 1 \in (1 .. N + 1) \ Replaced(b) /\ p < N + 1
        BY <1>1, <3>1 DEF Fits, Replaced
      <4>2. /\ Shift(b, p) \in 1 .. Shift(b, N + 1) /\ Shift(b, p) < Shift(b, N + 1)
            /\ Shift(b, N + 1) \in Nat
        BY <1>1, <4>1, ShiftIs
      <4> QED
        BY <1>3, <4>2
    <3>4. DOMAIN out = 1 .. Len(out)
      BY <1>3
    <3> QED
      BY <3>2, <3>3, <3>4 DEF DateLines
  <2>2. ASSUME NEW q \in DateLines(out) PROVE \E p \in DateLines(text) : q = Shift(b, p)
    <3>1. q \in 1 .. Len(out) /\ out[q].kind = "date"
      BY <1>3 DEF DateLines
    <3>2. q \notin new
      <4> SUFFICES ASSUME q \in new PROVE FALSE
        OBVIOUS
      <4>1. q - b.start + 1 \in 1 .. Len(b.players) /\ b.start + (q - b.start + 1) - 1 = q
        BY <1>1
      <4>2. out[q] = [kind |-> "player", slot |-> b.players[q - b.start + 1]]
        BY <1>3, <4>1
      <4> QED
        BY <3>1, <4>2
    <3>3. q \in (1 .. Shift(b, N + 1) - 1) \ new
      BY <1>3, <3>1, <3>2
    <3>4. PICK p \in (1 .. N + 1) \ Replaced(b) : p <= N /\ Shift(b, p) = q
      BY <1>1, <3>3, ShiftIs
    <3>5. p \in (1 .. N) \ Replaced(b)
      BY <1>1, <3>4
    <3>6. text[p].kind = "date" /\ p \in DOMAIN text
      BY <1>1, <1>3, <3>1, <3>4, <3>5
    <3> QED
      BY <3>4, <3>6 DEF DateLines
  <2> QED
    BY <2>1, <2>2
<1>5. InOrder(DateLines(out)) = [k \in DOMAIN InOrder(DateLines(text)) |->
                                    Shift(b, InOrder(DateLines(text))[k])]
  <2>1. DateLines(text) \in SUBSET ((1 .. Len(text)) \ Replaced(b))
    BY <1>2
  <2> QED
    BY <1>1, <1>4, <2>1, ShiftedIs
<1> QED
  BY <1>2, <1>5 DEF Dates, DateLines, out

\* It moves the players of the other blocks, and puts the new ones in a row.
LEMMA SpliceBlocks ==
    ASSUME NEW b, NEW text, NEW i, Frames(b, text, i), NEW j \in DOMAIN Dates(text)
    PROVE  LET out == Splice(b, text) IN
           /\ j \in DOMAIN Dates(out)
           /\ j = i => BlockLines(out, j) = b.start .. b.start + Len(b.players) - 1
           /\ j # i => /\ BlockLines(out, j) = {Shift(b, p) : p \in BlockLines(text, j)}
                       /\ BlockLines(text, j) \in SUBSET ((1 .. Len(text)) \ Replaced(b))
           /\ j < i => BlockLines(out, j) = BlockLines(text, j)
<1> DEFINE D == Dates(text)
           out == Splice(b, text)
           N == Len(text)
           L == Len(b.players)
           new == b.start .. b.start + L - 1
           kept == (1 .. N + 1) \ Replaced(b)
           lo == D[j]
           hi == BlockEnd(text, j)
<1>1. /\ text \in Seq(Line) /\ Fits(b, text) /\ N \in Nat /\ i \in DOMAIN D
      /\ b.start \in Nat /\ b.stop \in Nat /\ L \in Nat
      /\ 1 <= b.start /\ b.start <= b.stop /\ b.stop <= N
  BY DEF Frames, Fits, Block
<1>2. /\ out \in Seq(Line) /\ Len(out) = Shift(b, N + 1) - 1
      /\ \A p \in (1 .. N) \ Replaced(b) : out[Shift(b, p)] = text[p]
      /\ \A m \in 1 .. L : out[b.start + m - 1] = [kind |-> "player", slot |-> b.players[m]]
  BY <1>1, SpliceIs
<1>3. DOMAIN Dates(out) = DOMAIN D /\ \A k \in DOMAIN D : Dates(out)[k] = Shift(b, D[k])
  BY SpliceDates
<1>4. /\ \A p \in kept : Shift(b, p) \in (1 .. Shift(b, N + 1)) \ new
      /\ \A p, q \in kept : p < q <=> Shift(b, p) < Shift(b, q)
      /\ \A p \in kept : p < b.start => Shift(b, p) = p
      /\ \A q \in (1 .. Shift(b, N + 1) - 1) \ new : \E p \in kept : p <= N /\ Shift(b, p) = q
      /\ new \in SUBSET (1 .. Shift(b, N + 1) - 1)
      /\ \A p \in kept : /\ p > b.stop => Shift(b, p) >= b.start + L
                         /\ p < b.start \/ p > b.stop
      /\ Shift(b, N + 1) \in Nat \ {0}
  BY <1>1, ShiftIs
<1>5. /\ Len(D) \in Nat /\ DOMAIN D = 1 .. Len(D)
      /\ i \in 1 .. Len(D) /\ j \in 1 .. Len(D)
  <2>1. Len(D) \in Nat /\ DOMAIN D = 1 .. Len(D)
    BY <1>1, DatesAre
  <2>2. i \in DOMAIN D /\ j \in DOMAIN D
    BY <1>1
  <2> HIDE DEF D
  <2> QED
    BY <2>1, <2>2
\* Where the block begins and ends.
<1>6. /\ lo \in kept /\ hi \in kept /\ lo \in Nat /\ hi \in Nat
      /\ j <= i => lo < b.start
      /\ j < i => hi < b.start
      /\ j >= i => hi > b.stop
      /\ j > i => lo > b.stop
  <2>1. lo \in 1 .. N /\ hi \in 1 .. N + 1
    BY <1>1, BlockLinesAre
  <2>2. (j <= i => lo < b.start) /\ (j > i => lo > b.stop) /\ b.stop < BlockEnd(text, i)
    BY Around
  <2>3. ASSUME j < i PROVE hi < b.start
    <3>1. j + 1 \in DOMAIN D /\ j < Len(D) /\ j + 1 <= i
      BY <1>5, <2>3
    <3>2. D[j + 1] < b.start
      BY <3>1, Around
    <3> QED
      BY <3>1, <3>2 DEF BlockEnd
  <2>4. ASSUME j > i PROVE hi > b.stop
    <3>1. CASE j < Len(D)
      <4>1. j + 1 \in DOMAIN D /\ j + 1 > i
        BY <1>5, <2>4, <3>1
      <4>2. D[j + 1] > b.stop
        BY <4>1, Around
      <4> QED
        BY <3>1, <4>2 DEF BlockEnd
    <3>2. CASE ~(j < Len(D))
      <4>1. hi = N + 1
        BY <3>2 DEF BlockEnd
      <4> QED
        BY <1>1, <4>1
    <3> QED
      BY <3>1, <3>2
  <2> HIDE DEF lo, hi, D
  <2>5. j = i => hi > b.stop
    BY <2>1, <1>1, <2>2 DEF hi
  <2>6. lo \in Nat /\ hi \in Nat /\ (lo < b.start \/ lo > b.stop) /\ (hi < b.start \/ hi > b.stop)
    BY <1>1, <1>5, <2>1, <2>2, <2>3, <2>4, <2>5
  <2>7. lo \in kept /\ hi \in kept
    BY <1>1, <2>1, <2>6 DEF Replaced
  <2> QED
    BY <1>5, <2>2, <2>3, <2>4, <2>5, <2>6, <2>7
<1>7. /\ Dates(out)[j] = Shift(b, lo) /\ BlockEnd(out, j) = Shift(b, hi)
      /\ BlockLines(out, j) = {q \in 1 .. Len(out) : /\ Shift(b, lo) < q /\ q < Shift(b, hi)
                                                     /\ out[q].kind = "player"}
  <2>1. Dates(out)[j] = Shift(b, lo)
    BY <1>3
  <2>2. Len(Dates(out)) = Len(D) /\ j \in DOMAIN Dates(out)
    <3>1. Len(Dates(out)) \in Nat /\ DOMAIN Dates(out) = 1 .. Len(Dates(out))
      BY <1>2, DatesAre
    <3>2. DOMAIN Dates(out) = 1 .. Len(D)
      BY <1>3, <1>5
    <3>3. j \in DOMAIN Dates(out)
      BY <1>3
    <3> DEFINE m == Len(Dates(out))
               n == Len(D)
    <3> HIDE DEF m, n
    <3>4. m \in Nat /\ n \in Nat /\ 1 .. m = 1 .. n
      BY <1>5, <3>1, <3>2 DEF m, n
    <3>5. m = n
      BY <3>4
    <3> QED
      BY <3>3, <3>5 DEF m, n
  <2>3. BlockEnd(out, j) = Shift(b, hi)
    <3>1. CASE j < Len(D)
      <4>1. j + 1 \in DOMAIN D
        BY <1>5, <3>1
      <4> QED
        BY <1>3, <2>2, <3>1, <4>1 DEF BlockEnd
    <3>2. CASE ~(j < Len(D))
      <4>1. hi = N + 1 /\ BlockEnd(out, j) = Len(out) + 1
        BY <2>2, <3>2 DEF BlockEnd
      <4> QED
        BY <1>2, <1>4, <4>1
    <3> QED
      BY <3>1, <3>2
  <2>4. BlockLines(out, j) = {q \in 1 .. Len(out) : /\ Dates(out)[j] < q /\ q < BlockEnd(out, j)
                                                    /\ out[q].kind = "player"}
    BY <1>2, <2>2, BlockLinesAre
  <2> HIDE DEF lo, hi, out
  <2> QED
    BY <2>1, <2>3, <2>4
<1>8. BlockLines(text, j) = {p \in 1 .. N : lo < p /\ p < hi /\ text[p].kind = "player"}
  BY <1>1, BlockLinesAre
<1>9. j \in DOMAIN Dates(out)
  BY <1>3
<1>10. Len(out) \in Nat /\ 1 .. Len(out) = 1 .. Shift(b, N + 1) - 1
  BY <1>2, <1>4
<1> HIDE DEF D, out, lo, hi, L
<1>11. ASSUME j = i PROVE BlockLines(out, j) = new
  <2>1. ASSUME NEW q \in new PROVE q \in BlockLines(out, j)
    <3>1. q - b.start + 1 \in 1 .. L /\ b.start + (q - b.start + 1) - 1 = q
      BY <1>1
    <3>2. out[q].kind = "player"
      <4>1. out[q] = [kind |-> "player", slot |-> b.players[q - b.start + 1]]
        BY <1>2, <3>1
      <4> QED
        BY <4>1
    <3>3. Shift(b, lo) = lo /\ lo < b.start /\ Shift(b, hi) >= b.start + L
      BY <1>4, <1>6, <1>11, <1>5
    <3>4. q \in 1 .. Len(out)
      BY <1>4, <1>10
    <3>5. Shift(b, hi) \in Nat
      BY <1>4, <1>6
    <3>6. Shift(b, lo) < q /\ q < Shift(b, hi)
      BY <1>1, <1>6, <3>3, <3>5
    <3> QED
      BY <1>7, <3>2, <3>4, <3>6
  <2>2. ASSUME NEW q \in BlockLines(out, j), q \notin new PROVE FALSE
    <3>1. q \in 1 .. Len(out) /\ Shift(b, lo) < q /\ q < Shift(b, hi) /\ out[q].kind = "player"
      BY <1>7
    <3>2. PICK p \in kept : p <= N /\ Shift(b, p) = q
      BY <1>4, <1>10, <2>2, <3>1
    <3>3. p \in (1 .. N) \ Replaced(b)
      BY <1>1, <3>2
    <3>4. lo < p /\ p < hi
      BY <1>4, <1>6, <3>1, <3>2
    <3>5. text[p].kind = "player"
      BY <1>2, <3>1, <3>2, <3>3
    <3>6. p \in BlockLines(text, i)
      BY <1>8, <1>11, <3>3, <3>4, <3>5
    <3> QED
      BY <3>3, <3>6 DEF Frames
  <2> QED
    BY <2>1, <2>2
<1>12. ASSUME j # i
       PROVE  /\ BlockLines(out, j) = {Shift(b, p) : p \in BlockLines(text, j)}
              /\ BlockLines(text, j) \in SUBSET ((1 .. N) \ Replaced(b))
  <2>1. hi < b.start \/ lo > b.stop
    BY <1>5, <1>6, <1>12
  <2>2. ASSUME NEW p \in BlockLines(text, j) PROVE p \in (1 .. N) \ Replaced(b)
    <3>1. p \in 1 .. N /\ lo < p /\ p < hi
      BY <1>8
    <3> QED
      BY <1>1, <1>6, <2>1, <3>1 DEF Replaced
  <2>3. ASSUME NEW p \in BlockLines(text, j) PROVE Shift(b, p) \in BlockLines(out, j)
    <3>1. p \in (1 .. N) \ Replaced(b) /\ lo < p /\ p < hi /\ text[p].kind = "player"
      BY <1>8, <2>2
    <3>2. p \in kept /\ p < N + 1 /\ N + 1 \in kept
      BY <1>1, <3>1 DEF Replaced
    <3>3. Shift(b, lo) < Shift(b, p) /\ Shift(b, p) < Shift(b, hi)
      BY <1>4, <1>6, <3>1, <3>2
    <3>4. Shift(b, p) \in 1 .. Shift(b, N + 1) /\ Shift(b, p) < Shift(b, N + 1)
      BY <1>4, <3>2
    <3>5. Shift(b, p) \in 1 .. Len(out)
      BY <1>4, <1>10, <3>4
    <3>6. out[Shift(b, p)].kind = "player"
      BY <1>2, <3>1
    <3> QED
      BY <1>7, <3>3, <3>5, <3>6
  <2>4. ASSUME NEW q \in BlockLines(out, j)
        PROVE  \E p \in BlockLines(text, j) : Shift(b, p) = q
    <3>1. q \in 1 .. Len(out) /\ Shift(b, lo) < q /\ q < Shift(b, hi) /\ out[q].kind = "player"
      BY <1>7
    <3>2. q \notin new
      <4>1. hi < b.start => Shift(b, hi) = hi
        BY <1>4, <1>6
      <4>2. lo > b.stop => Shift(b, lo) >= b.start + L
        BY <1>4, <1>6
      <4>3. Shift(b, lo) \in Nat /\ Shift(b, hi) \in Nat
        BY <1>4, <1>6
      <4> QED
        BY <1>1, <1>6, <2>1, <3>1, <4>1, <4>2, <4>3
    <3>3. PICK p \in kept : p <= N /\ Shift(b, p) = q
      BY <1>4, <1>10, <3>1, <3>2
    <3>4. p \in (1 .. N) \ Replaced(b)
      BY <1>1, <3>3
    <3>5. lo < p /\ p < hi
      BY <1>4, <1>6, <3>1, <3>3
    <3>6. text[p].kind = "player"
      BY <1>2, <3>1, <3>3, <3>4
    <3> QED
      BY <1>8, <3>3, <3>4, <3>5, <3>6
  <2> QED
    BY <2>2, <2>3, <2>4
<1>13. ASSUME j < i PROVE BlockLines(out, j) = BlockLines(text, j)
  <2>1. ASSUME NEW p \in BlockLines(text, j) PROVE Shift(b, p) = p
    <3>1. p \in 1 .. N /\ p < hi /\ hi < b.start /\ hi \in Nat
      BY <1>6, <1>8, <1>13
    <3>2. p < b.start /\ p \in kept
      BY <1>1, <3>1 DEF Replaced
    <3> QED
      BY <1>4, <3>2
  <2>2. j # i
    BY <1>5, <1>13
  <2>3. BlockLines(out, j) = {Shift(b, p) : p \in BlockLines(text, j)}
    BY <1>12, <2>2
  <2> QED
    BY <2>1, <2>3
<1> QED
  BY <1>9, <1>11, <1>12, <1>13 DEF out, L

\* What parseRoster makes of the lines of a block.
LEMMA ParseIs ==
    ASSUME NEW text \in Seq(Line), NEW j \in DOMAIN Dates(text)
    PROVE  LET B == BlockLines(text, j)
               at == InOrder(B)
               b == ParseRoster(text)[j]
           IN /\ B \in SUBSET (1 .. Len(text))
              /\ at \in Seq(B)
              /\ b.players = [m \in DOMAIN at |-> text[at[m]].slot]
              /\ b.start = IF at = <<>> THEN 0 ELSE Head(at)
              /\ b.stop = IF at = <<>> THEN 0 ELSE Last(at)
              /\ b.start = 0 <=> B = {}
              /\ B # {} => /\ b.start \in B /\ b.stop \in B
                           /\ B \subseteq b.start .. b.stop
<1> DEFINE B == BlockLines(text, j)
           at == InOrder(B)
           b == ParseRoster(text)[j]
<1>1. B \in SUBSET (1 .. Len(text)) /\ Len(text) \in Nat
  BY BlockLinesAre
<1>2. at \in Seq(B) /\ Len(at) = Cardinality(B)
  BY <1>1, InOrderIs
<1>3. /\ \A k, l \in DOMAIN at : k < l => at[k] < at[l]
      /\ \A i \in B : \E k \in DOMAIN at : at[k] = i
  BY <1>1, InOrderRises
<1>4. b = [start   |-> IF at = <<>> THEN 0 ELSE Head(at),
           stop    |-> IF at = <<>> THEN 0 ELSE Last(at),
           players |-> [m \in DOMAIN at |-> text[at[m]].slot]]
  BY DEF ParseRoster
<1> HIDE DEF b, at, B
<1>5. /\ b.players = [m \in DOMAIN at |-> text[at[m]].slot]
      /\ b.start = IF at = <<>> THEN 0 ELSE Head(at)
      /\ b.stop = IF at = <<>> THEN 0 ELSE Last(at)
  BY <1>4
<1>6. CASE at = <<>>
  <2>1. B = {}
    BY <1>3, <1>6
  <2> QED
    BY <1>1, <1>2, <1>5, <1>6, <2>1 DEF b, at, B
<1>7. CASE at # <<>>
  <2> DEFINE n == Len(at)
  <2>1. n \in Nat /\ n > 0 /\ DOMAIN at = 1 .. n /\ Head(at) = at[1] /\ Last(at) = at[n]
    BY <1>2, <1>7 DEF Last
  <2> HIDE DEF n
  <2>2. \A k \in 1 .. n : at[k] \in B /\ at[k] \in Nat /\ at[k] > 0
    <3>1. \A k \in 1 .. n : at[k] \in B
      BY <1>2, <2>1
    <3>2. \A i \in B : i \in Nat /\ i > 0
      BY <1>1
    <3> QED
      BY <3>1, <3>2
  <2>3. b.start = at[1] /\ b.stop = at[n]
    BY <1>5, <1>7, <2>1
  <2>4. ASSUME NEW p \in B PROVE p \in b.start .. b.stop
    <3>1. PICK k \in 1 .. n : at[k] = p
      BY <1>3, <2>1
    <3>2. 1 \in 1 .. n /\ n \in 1 .. n /\ (k = 1 \/ 1 < k) /\ (k = n \/ k < n)
      BY <2>1
    <3>3. (1 < k => at[1] < at[k]) /\ (k < n => at[k] < at[n])
      BY <1>3, <2>1, <3>2
    <3>4. at[1] \in Nat /\ at[k] \in Nat /\ at[n] \in Nat
      BY <2>2, <3>2
    <3> QED
      BY <2>3, <3>1, <3>2, <3>3, <3>4
  <2>5. b.start \in B /\ b.stop \in B /\ b.start # 0
    BY <2>1, <2>2, <2>3
  <2> QED
    BY <1>1, <1>2, <1>5, <2>4, <2>5 DEF b, at, B
<1> QED
  BY <1>6, <1>7

\* Parsing the text after a Splice: the block has the players written to it,
\* and the others have theirs.
LEMMA SpliceParse ==
    ASSUME NEW b, NEW text, NEW i, Frames(b, text, i), NEW j \in DOMAIN Dates(text)
    PROVE  ParseRoster(Splice(b, text))[j].players =
               IF j = i THEN b.players ELSE ParseRoster(text)[j].players
<1> DEFINE out == Splice(b, text)
           L == Len(b.players)
           B == BlockLines(text, j)
           C == BlockLines(out, j)
           at == InOrder(B)
           now == InOrder(C)
<1>1. /\ text \in Seq(Line) /\ Fits(b, text) /\ b.start \in Nat \ {0}
      /\ L \in Nat /\ b.players \in Seq(Slots)
  BY DEF Frames, Fits, Block
<1>2. /\ out \in Seq(Line) /\ Len(out) = Shift(b, Len(text) + 1) - 1
      /\ \A p \in (1 .. Len(text)) \ Replaced(b) : out[Shift(b, p)] = text[p]
      /\ \A m \in 1 .. L : out[b.start + m - 1] = [kind |-> "player", slot |-> b.players[m]]
  BY <1>1, SpliceIs
<1>3. j \in DOMAIN Dates(out)
  BY SpliceBlocks
<1>4. ParseRoster(out)[j].players = [m \in DOMAIN now |-> out[now[m]].slot]
  <2> HIDE DEF out
  <2> QED
    BY <1>2, <1>3, ParseIs
<1>5. ParseRoster(text)[j].players = [m \in DOMAIN at |-> text[at[m]].slot] /\ at \in Seq(B)
  BY <1>1, ParseIs
<1>6. CASE j = i
  <2>1. C = b.start .. b.start + L - 1
    BY <1>6, SpliceBlocks
  <2> HIDE DEF C, L, out
  <2>2. now = [m \in 1 .. L |-> b.start + m - 1]
    BY <1>1, <2>1, RunIs
  <2> HIDE DEF now
  <2>3. \A m \in 1 .. L : out[now[m]].slot = b.players[m]
    <3> TAKE m \in 1 .. L
    <3>1. out[now[m]] = [kind |-> "player", slot |-> b.players[m]]
      BY <1>2, <2>2
    <3> QED
      BY <3>1
  <2>4. DOMAIN now = 1 .. L
    BY <2>2
  <2>5. ParseRoster(out)[j].players = [m \in 1 .. L |-> b.players[m]]
    BY <1>4, <2>3, <2>4
  <2>6. b.players = [m \in 1 .. L |-> b.players[m]]
    BY <1>1 DEF L
  <2> QED
    BY <1>6, <2>5, <2>6 DEF out
<1>7. CASE j # i
  <2>1. C = {Shift(b, p) : p \in B} /\ B \in SUBSET ((1 .. Len(text)) \ Replaced(b))
    BY <1>7, SpliceBlocks
  <2> HIDE DEF C, B, out
  <2>2. now = [m \in DOMAIN at |-> Shift(b, at[m])]
    BY <1>1, <2>1, ShiftedIs
  <2> HIDE DEF now
  <2>3. \A m \in DOMAIN at : at[m] \in B
    <3> HIDE DEF at
    <3> QED
      BY <1>5
  <2> HIDE DEF at
  <2>4. \A m \in DOMAIN at : out[now[m]].slot = text[at[m]].slot
    <3> TAKE m \in DOMAIN at
    <3>1. now[m] = Shift(b, at[m]) /\ at[m] \in (1 .. Len(text)) \ Replaced(b)
      BY <2>1, <2>2, <2>3
    <3> QED
      BY <1>2, <3>1
  <2>5. DOMAIN now = DOMAIN at
    BY <2>2
  <2>6. ParseRoster(out)[j].players = ParseRoster(text)[j].players
    BY <1>4, <1>5, <2>4, <2>5
  <2> QED
    BY <1>7, <2>6 DEF out
<1> QED
  BY <1>6, <1>7

\* When nothing but players is replaced, the other lines survive in order.
LEMMA SpliceOthers ==
    ASSUME NEW b, NEW text, NEW i, Frames(b, text, i), Replaced(b) \subseteq BlockLines(text, i)
    PROVE  Others(Splice(b, text)) = Others(text)
<1> DEFINE out == Splice(b, text)
           N == Len(text)
           L == Len(b.players)
           kept == (1 .. N + 1) \ Replaced(b)
           new == b.start .. b.start + L - 1
           S == {p \in DOMAIN text : text[p].kind # "player"}
           T == {q \in DOMAIN out : out[q].kind # "player"}
<1>1. /\ text \in Seq(Line) /\ Fits(b, text) /\ N \in Nat /\ DOMAIN text = 1 .. N
      /\ b.start \in Nat \ {0} /\ b.stop \in Nat /\ b.stop <= N
      /\ L \in Nat /\ b.players \in Seq(Slots)
  BY DEF Frames, Fits, Block
<1>2. /\ out \in Seq(Line) /\ Len(out) = Shift(b, N + 1) - 1
      /\ \A p \in (1 .. N) \ Replaced(b) : out[Shift(b, p)] = text[p]
      /\ \A m \in 1 .. L : out[b.start + m - 1] = [kind |-> "player", slot |-> b.players[m]]
  BY <1>1, SpliceIs
<1>3. /\ \A p \in kept : Shift(b, p) \in (1 .. Shift(b, N + 1)) \ new
      /\ \A p, q \in kept : p < q <=> Shift(b, p) < Shift(b, q)
      /\ \A q \in (1 .. Shift(b, N + 1) - 1) \ new : \E p \in kept : p <= N /\ Shift(b, p) = q
      /\ Shift(b, N + 1) \in Nat \ {0}
  BY <1>1, ShiftIs
<1>4. \A p \in Replaced(b) : text[p].kind = "player"
  <2>1. \A p \in BlockLines(text, i) : text[p].kind = "player"
    BY <1>1, BlockLinesAre DEF Frames
  <2> QED
    BY <2>1
<1>5. S \in SUBSET ((1 .. N) \ Replaced(b))
  BY <1>1, <1>4
<1> HIDE DEF out, N, L
<1>6. DOMAIN out = 1 .. Len(out) /\ Len(out) \in Nat /\ 1 .. Len(out) = 1 .. Shift(b, N + 1) - 1
  BY <1>2, <1>3
<1>7. T = {Shift(b, p) : p \in S}
  <2>1. ASSUME NEW p \in S PROVE Shift(b, p) \in T
    <3>1. p \in (1 .. N) \ Replaced(b) /\ text[p].kind # "player"
      BY <1>5
    <3>2. p \in kept /\ N + 1 \in kept /\ p < N + 1
      BY <1>1, <3>1 DEF Replaced
    <3>3. Shift(b, p) \in 1 .. Shift(b, N + 1) /\ Shift(b, p) < Shift(b, N + 1)
      BY <1>3, <3>2
    <3>4. Shift(b, p) \in DOMAIN out
      BY <1>3, <1>6, <3>3
    <3> QED
      BY <1>2, <3>1, <3>4
  <2>2. ASSUME NEW q \in T PROVE \E p \in S : Shift(b, p) = q
    <3>1. q \in 1 .. Shift(b, N + 1) - 1 /\ out[q].kind # "player"
      BY <1>6
    <3>2. q \notin new
      <4> SUFFICES ASSUME q \in new PROVE FALSE
        OBVIOUS
      <4>1. q - b.start + 1 \in 1 .. L /\ b.start + (q - b.start + 1) - 1 = q
        BY <1>1
      <4>2. out[q] = [kind |-> "player", slot |-> b.players[q - b.start + 1]]
        BY <1>2, <4>1
      <4> QED
        BY <3>1, <4>2
    <3>3. PICK p \in kept : p <= N /\ Shift(b, p) = q
      BY <1>3, <3>1, <3>2
    <3>4. p \in (1 .. N) \ Replaced(b)
      BY <1>1, <3>3
    <3>5. text[p].kind # "player" /\ p \in DOMAIN text
      BY <1>1, <1>2, <3>1, <3>3, <3>4
    <3> QED
      BY <3>3, <3>5
  <2> QED
    BY <2>1, <2>2
<1> DEFINE o == InOrder(S)
<1>8. InOrder(T) = [k \in DOMAIN o |-> Shift(b, o[k])]
  <2> HIDE DEF S, T
  <2>1. S \in SUBSET ((1 .. Len(text)) \ Replaced(b))
    BY <1>5 DEF N
  <2> QED
    BY <1>1, <1>7, <2>1, ShiftedIs
<1>9. o \in Seq(S)
  <2> HIDE DEF S
  <2> QED
    BY <1>1, <1>5, InOrderIs
<1>10. Others(text) = [k \in DOMAIN o |-> text[o[k]]]
  BY DEF Others
<1>11. Others(out) = [k \in DOMAIN InOrder(T) |-> out[InOrder(T)[k]]]
  BY DEF Others
<1> HIDE DEF o, T, S
<1>12. \A k \in DOMAIN o : out[Shift(b, o[k])] = text[o[k]]
  <2> TAKE k \in DOMAIN o
  <2>1. o[k] \in S
    BY <1>9
  <2> QED
    BY <1>2, <1>5, <2>1
<1>13. Others(out) = [k \in DOMAIN o |-> out[Shift(b, o[k])]]
  BY <1>8, <1>11
<1> QED
  BY <1>10, <1>12, <1>13 DEF out

\* Rewriting the blocks of a text one after the other, from the last.
Rendering(text, bs, g) ==
    g = [n \in 0 .. Len(bs) |->
            IF n = 0 THEN text ELSE Splice(bs[Len(bs) + 1 - n], g[n - 1])]

LEMMA RenderingExists ==
    ASSUME NEW text, NEW bs \in Seq(Block)
    PROVE  \E g : Rendering(text, bs, g) /\ RenderRoster(text, bs) = g[Len(bs)]
<1> DEFINE N == Len(bs)
           Written(n, x) == Splice(bs[N + 1 - n], x)
           P(g, n) == g = [i \in 0 .. n |-> IF i = 0 THEN text ELSE Written(i, g[i - 1])]
           T == {n \in 0 .. N : \E g : P(g, n)}
<1>1. N \in Nat
  OBVIOUS
<1>2. 0 \in T
  <2>1. P([i \in 0 .. 0 |-> text], 0)
    OBVIOUS
  <2> HIDE DEF P
  <2> QED
    BY <1>1, <2>1
<1>3. ASSUME NEW n \in 0 .. N, n \in T, n < N PROVE n + 1 \in T
  <2>1. PICK g : P(g, n)
    BY <1>3
  <2> DEFINE h == [i \in 0 .. n + 1 |-> IF i <= n THEN g[i] ELSE Written(n + 1, g[n])]
  <2>2. n + 1 \in 0 .. N /\ n \in Nat
    BY <1>1, <1>3
  <2> HIDE DEF Written
  <2>3. \A i \in 0 .. n : h[i] = g[i]
    BY <2>2
  <2>4. \A i \in 0 .. n + 1 : h[i] = IF i = 0 THEN text ELSE Written(i, h[i - 1])
    <3>1. ASSUME NEW i \in 0 .. n
          PROVE  h[i] = IF i = 0 THEN text ELSE Written(i, h[i - 1])
      <4>1. g[i] = IF i = 0 THEN text ELSE Written(i, g[i - 1])
        BY <2>1
      <4>2. i # 0 => i - 1 \in 0 .. n
        BY <2>2
      <4> HIDE DEF h
      <4> QED
        BY <2>3, <4>1, <4>2
    <3>2. h[n + 1] = Written(n + 1, h[n])
      BY <2>2
    <3>3. \A i \in 0 .. n + 1 : i \in 0 .. n \/ (i = n + 1 /\ i # 0 /\ i - 1 = n)
      BY <2>2
    <3> HIDE DEF h
    <3> QED
      BY <3>1, <3>2, <3>3
  <2>5. h = [i \in 0 .. n + 1 |-> h[i]]
    OBVIOUS
  <2> HIDE DEF h
  <2>6. P(h, n + 1)
    BY <2>4, <2>5
  <2> HIDE DEF P
  <2> QED
    BY <2>2, <2>6
<1>4. N \in T
  <2> HIDE DEF T
  <2>1. \A n \in 0 .. N : n \in T
    BY <1>1, <1>2, <1>3, CountingUp
  <2> QED
    BY <1>1, <2>1
<1>5. \E g : Rendering(text, bs, g)
  BY <1>4 DEF Rendering
<1>6. Rendering(text, bs, CHOOSE g : Rendering(text, bs, g))
  BY <1>5, Zenon
<1>7. RenderRoster(text, bs) = (CHOOSE g : Rendering(text, bs, g))[N]
  BY DEF RenderRoster, Rendering
<1> QED
  BY <1>6, <1>7

\* The blocks lie in the text where parseRoster found them.
Framed(text, bs) ==
    /\ DOMAIN bs = DOMAIN ParseRoster(text)
    /\ \A i \in DOMAIN bs : /\ bs[i].start = ParseRoster(text)[i].start
                            /\ bs[i].stop = ParseRoster(text)[i].stop

\* A block with players in the text can be written to every text that has
\* the same lines for it.
LEMMA FramedFits ==
    ASSUME NEW text \in Seq(Line), NEW bs \in Seq(Block), Framed(text, bs), NEW i \in DOMAIN bs,
           NEW out \in Seq(Line), i \in DOMAIN Dates(out),
           BlockLines(out, i) = BlockLines(text, i)
    PROVE  /\ i \in DOMAIN Dates(text)
           /\ bs[i].start # 0 => Frames(bs[i], out, i)
<1> DEFINE b == bs[i]
<1>1. b \in Block /\ b.start \in Nat /\ b.stop \in Nat
  <2>1. b \in Block
    OBVIOUS
  <2> QED
    BY <2>1 DEF Block
<1>2. i \in DOMAIN Dates(text)
  BY DEF Framed, ParseRoster
<1>3. b.start = ParseRoster(text)[i].start /\ b.stop = ParseRoster(text)[i].stop
  BY DEF Framed
<1>4. ASSUME b.start # 0
      PROVE  /\ b.start \in BlockLines(text, i) /\ b.stop \in BlockLines(text, i)
             /\ BlockLines(text, i) \subseteq b.start .. b.stop
  <2>1. BlockLines(text, i) # {}
    BY <1>2, <1>3, <1>4, ParseIs
  <2> QED
    BY <1>2, <1>3, <2>1, ParseIs
<1>5. BlockLines(out, i) \in SUBSET (1 .. Len(out)) /\ Len(out) \in Nat
  <2>1. BlockLines(out, i) \in SUBSET (1 .. Len(out))
    BY BlockLinesAre
  <2> QED
    BY <2>1
<1> HIDE DEF b
<1>6. ASSUME b.start # 0 PROVE Frames(b, out, i)
  <2>1. b.start \in 1 .. Len(out) /\ b.stop \in 1 .. Len(out) /\ b.start \in b.start .. b.stop
    BY <1>4, <1>5, <1>6
  <2>2. 1 <= b.start /\ b.start <= b.stop /\ b.stop <= Len(out)
    BY <1>1, <1>5, <2>1
  <2>3. Fits(b, out)
    BY <1>1, <2>2 DEF Fits
  <2> QED
    BY <1>4, <1>6, <2>3 DEF Frames, Replaced
<1> QED
  BY <1>2, <1>6 DEF b

\* When no other line stands between the players of a block, nothing else is
\* replaced.
LEMMA ContiguousIs ==
    ASSUME NEW b, NEW text, NEW i, Frames(b, text, i), Contiguous(text, i)
    PROVE  Replaced(b) \subseteq BlockLines(text, i)
BY DEF Frames, Contiguous, Replaced

\* What the rewritten text says of the blocks that were written to it.
LEMMA RenderSays ==
    ASSUME NEW text \in Seq(Line), NEW bs \in Seq(Block), Framed(text, bs)
    PROVE  LET out == RenderRoster(text, bs) IN
           /\ DOMAIN ParseRoster(out) = DOMAIN bs
           /\ \A i \in DOMAIN bs :
                 bs[i].start > 0 => ParseRoster(out)[i].players = bs[i].players
           /\ (\A i \in DOMAIN bs : Contiguous(text, i)) => Others(out) = Others(text)
<1> DEFINE K == Len(bs)
           AllContiguous == \A i \in DOMAIN bs : Contiguous(text, i)
           Fine(n, x) ==
               /\ x \in Seq(Line)
               /\ DOMAIN Dates(x) = 1 .. K
               /\ \A j \in 1 .. K - n : BlockLines(x, j) = BlockLines(text, j)
               /\ \A j \in K - n + 1 .. K :
                     bs[j].start > 0 => ParseRoster(x)[j].players = bs[j].players
               /\ AllContiguous => Others(x) = Others(text)
<1>1. K \in Nat /\ DOMAIN bs = 1 .. K
  OBVIOUS
<1>2. DOMAIN Dates(text) = 1 .. K
  BY <1>1 DEF Framed, ParseRoster
<1>3. PICK g : Rendering(text, bs, g) /\ RenderRoster(text, bs) = g[K]
  BY RenderingExists
<1>4. \A n \in 0 .. K : g[n] = IF n = 0 THEN text ELSE Splice(bs[K + 1 - n], g[n - 1])
  BY <1>3 DEF Rendering
<1> HIDE DEF K, AllContiguous
<1>5. Fine(0, g[0])
  <2>1. g[0] = text /\ K - 0 + 1 .. K = {}
    BY <1>1, <1>4
  <2> QED
    BY <1>2, <2>1
<1>6. ASSUME NEW n \in 0 .. K, n < K, Fine(n, g[n]) PROVE Fine(n + 1, g[n + 1])
  <2> DEFINE i == K - n
             b == bs[i]
             x == g[n]
  <2>1. /\ i \in 1 .. K /\ i \in DOMAIN bs /\ n + 1 \in 0 .. K /\ n + 1 # 0
        /\ K + 1 - (n + 1) = i /\ (n + 1) - 1 = n
        /\ K - (n + 1) + 1 = i /\ K - (n + 1) = i - 1
    BY <1>1, <1>6
  <2>2. g[n + 1] = Splice(b, x)
    BY <1>4, <2>1
  <2>3. /\ x \in Seq(Line) /\ DOMAIN Dates(x) = 1 .. K
        /\ \A j \in 1 .. i : BlockLines(x, j) = BlockLines(text, j)
        /\ \A j \in i + 1 .. K : bs[j].start > 0 => ParseRoster(x)[j].players = bs[j].players
        /\ AllContiguous => Others(x) = Others(text)
    BY <1>6
  <2>4. b \in Block /\ b.start \in Nat
    <3>1. b \in Block
      BY <2>1
    <3> QED
      BY <3>1 DEF Block
  <2>5. CASE b.start = 0
    <3>1. g[n + 1] = x
      BY <2>2, <2>5 DEF Splice
    <3>2. \A j \in 1 .. i - 1 : BlockLines(x, j) = BlockLines(text, j)
      BY <2>1, <2>3
    <3>3. \A j \in i .. K : bs[j].start > 0 => ParseRoster(x)[j].players = bs[j].players
      <4> TAKE j \in i .. K
      <4>1. j = i \/ j \in i + 1 .. K
        BY <1>1, <2>1
      <4>2. j = i => ~(bs[j].start > 0)
        BY <2>5
      <4> QED
        BY <2>3, <4>1, <4>2
    <3> HIDE DEF i
    <3> QED
      BY <2>1, <2>3, <3>1, <3>2, <3>3
  <2>6. CASE b.start # 0
    <3>1. i \in DOMAIN Dates(x) /\ BlockLines(x, i) = BlockLines(text, i)
      BY <1>1, <2>1, <2>3
    <3> HIDE DEF i, x
    <3>2. Frames(b, x, i)
      BY <2>1, <2>3, <2>6, <3>1, FramedFits
    <3>3. Fits(b, x)
      BY <3>2 DEF Frames
    <3> HIDE DEF b
    <3> DEFINE y == Splice(b, x)
    <3>4. y \in Seq(Line)
      BY <3>3, SpliceIs
    <3>5. DOMAIN Dates(y) = 1 .. K
      <4>1. Dates(y) = [k \in DOMAIN Dates(x) |-> Shift(b, Dates(x)[k])]
        BY <3>2, SpliceDates
      <4> QED
        BY <2>3, <4>1
    <3>6. \A j \in 1 .. i - 1 : BlockLines(y, j) = BlockLines(text, j)
      <4> TAKE j \in 1 .. i - 1
      <4>1. j \in DOMAIN Dates(x) /\ j \in 1 .. i /\ j < i
        BY <1>1, <2>1, <2>3
      <4>2. BlockLines(y, j) = BlockLines(x, j)
        BY <3>2, <4>1, SpliceBlocks
      <4> QED
        BY <2>3, <4>1, <4>2
    <3>7. \A j \in i .. K : bs[j].start > 0 => ParseRoster(y)[j].players = bs[j].players
      <4> TAKE j \in i .. K
      <4>1. j \in DOMAIN Dates(x) /\ (j = i \/ (j \in i + 1 .. K /\ j # i))
        BY <1>1, <2>1, <2>3
      <4>2. ParseRoster(y)[j].players =
                IF j = i THEN b.players ELSE ParseRoster(x)[j].players
        BY <3>2, <4>1, SpliceParse
      <4>3. CASE j = i
        BY <4>2, <4>3 DEF b
      <4>4. CASE j \in i + 1 .. K /\ j # i
        BY <2>3, <4>2, <4>4
      <4> QED
        BY <4>1, <4>3, <4>4
    <3>8. AllContiguous => Others(y) = Others(text)
      <4> SUFFICES ASSUME AllContiguous PROVE Others(y) = Others(text)
        OBVIOUS
      <4>1. Contiguous(text, i)
        BY <2>1 DEF AllContiguous
      <4>2. Contiguous(x, i)
        BY <3>1, <4>1 DEF Contiguous
      <4>3. Replaced(b) \subseteq BlockLines(x, i)
        BY <3>2, <4>2, ContiguousIs
      <4>4. Others(y) = Others(x)
        BY <3>2, <4>3, SpliceOthers
      <4> QED
        BY <2>3, <4>4
    <3>9. g[n + 1] = y
      BY <2>2
    <3> HIDE DEF y
    <3> QED
      BY <2>1, <3>4, <3>5, <3>6, <3>7, <3>8, <3>9
  <2> QED
    BY <2>5, <2>6
<1> DEFINE T == {n \in 0 .. K : Fine(n, g[n])}
<1>7. 0 \in T /\ \A n \in 0 .. K : n \in T /\ n < K => n + 1 \in T
  <2> HIDE DEF Fine
  <2> QED
    BY <1>1, <1>5, <1>6
<1>8. Fine(K, g[K])
  <2>1. \A n \in 0 .. K : n \in T
    <3> HIDE DEF T
    <3> QED
      BY <1>1, <1>7, CountingUp
  <2> HIDE DEF Fine
  <2> QED
    BY <1>1, <2>1
<1>9. K - K + 1 = 1
  BY <1>1
<1>10. /\ DOMAIN ParseRoster(g[K]) = DOMAIN bs
       /\ \A i \in DOMAIN bs : bs[i].start > 0 => ParseRoster(g[K])[i].players = bs[i].players
       /\ AllContiguous => Others(g[K]) = Others(text)
  <2>1. DOMAIN ParseRoster(g[K]) = DOMAIN Dates(g[K])
    BY DEF ParseRoster
  <2> QED
    BY <1>1, <1>8, <1>9, <2>1
<1> QED
  BY <1>3, <1>10 DEF AllContiguous

\* Who goes to the game of a block.
Goers(b) == {b.players[j].name : j \in DOMAIN b.players} \ {NoUser}

\* Rewriting a user's slots as another slot of his, or as free ones, leaves
\* everybody else's where they are.
LEMMA PutIs ==
    ASSUME NEW b \in Block, NEW u \in Person, NEW slot \in Slots, slot.name \in {u, NoUser}
    PROVE  /\ Put(b, u, slot) \in Block
           /\ Goers(Put(b, u, slot)) = IF slot.name = u THEN Goers(b) ELSE Goers(b) \ {u}
           /\ Put(b, u, slot).start = b.start /\ Put(b, u, slot).stop = b.stop
<1> DEFINE ps == [j \in DOMAIN b.players |->
                     IF IsSameUser(b.players[j], u) THEN slot ELSE b.players[j]]
<1>1. b.players \in Seq(Slots) /\ \A j \in DOMAIN b.players : b.players[j] \in Slots
  BY DEF Block
<1>2. ps \in Seq(Slots) /\ DOMAIN ps = DOMAIN b.players
  <2>1. DOMAIN b.players = 1 .. Len(b.players) /\ Len(b.players) \in Nat
    BY <1>1
  <2> QED
    BY <1>1, <2>1
<1>3. \A j \in DOMAIN b.players :
          ps[j].name = IF b.players[j].name = u THEN slot.name ELSE b.players[j].name
  BY DEF IsSameUser
<1>4. Put(b, u, slot) = [b EXCEPT !.players = ps]
  BY DEF Put
<1> HIDE DEF ps
<1>5. /\ Put(b, u, slot) \in Block /\ Put(b, u, slot).players = ps
      /\ Put(b, u, slot).start = b.start /\ Put(b, u, slot).stop = b.stop
  BY <1>2, <1>4 DEF Block
<1>6. u # NoUser
  BY PersonAssumption
<1> QED
  BY <1>2, <1>3, <1>5, <1>6 DEF Goers

\* Blocks that lie in the same places.
SameFrames(bs, was) ==
    /\ DOMAIN bs = DOMAIN was
    /\ \A i \in DOMAIN was : bs[i].start = was[i].start /\ bs[i].stop = was[i].stop

\* Rendering normalises the user's slots and changes nobody's attendance.
LEMMA RenderIs ==
    ASSUME NEW bs \in Seq(Block), NEW u \in Person \cup {NoUser}
    PROVE  /\ NormalizeUserSlots(bs, u) \in Seq(Block)
           /\ Attendees(NormalizeUserSlots(bs, u)) = Attendees(bs)
           /\ SameFrames(NormalizeUserSlots(bs, u), bs)
<1>1. CASE u = NoUser
  BY <1>1 DEF NormalizeUserSlots, SameFrames
<1>2. CASE u \in Person
  <2> DEFINE ns == [i \in DOMAIN bs |-> Put(bs[i], u, Tagged(u))]
  <2>1. Tagged(u) \in Slots /\ Tagged(u).name = u
    BY <1>2 DEF Tagged, Slots
  <2>2. ASSUME NEW i \in DOMAIN bs
        PROVE  /\ ns[i] \in Block /\ Goers(ns[i]) = Goers(bs[i])
               /\ ns[i].start = bs[i].start /\ ns[i].stop = bs[i].stop
    <3>1. bs[i] \in Block
      OBVIOUS
    <3> QED
      BY <1>2, <2>1, <3>1, PutIs
  <2>3. DOMAIN bs = 1 .. Len(bs) /\ Len(bs) \in Nat /\ DOMAIN ns = DOMAIN bs
    OBVIOUS
  <2>4. NormalizeUserSlots(bs, u) = ns
    BY <1>2, PersonAssumption DEF NormalizeUserSlots
  <2>5. ns \in Seq(Block)
    BY <2>2, <2>3
  <2> HIDE DEF ns
  <2>6. Attendees(ns) = Attendees(bs)
    BY <2>2, <2>3 DEF Attendees, Goers
  <2>7. SameFrames(ns, bs)
    BY <2>2, <2>3 DEF SameFrames
  <2> QED
    BY <2>4, <2>5, <2>6, <2>7
<1> QED
  BY <1>1, <1>2

\* Joining takes the first free slot or a new one: one more goes, and nobody
\* else is displaced.
LEMMA AddUserIs ==
    ASSUME NEW b \in Block, NEW u \in Person
    PROVE  /\ AddUser(b, u) \in Block /\ Goers(AddUser(b, u)) = Goers(b) \cup {u}
           /\ AddUser(b, u).start = b.start /\ AddUser(b, u).stop = b.stop
<1> DEFINE ps == b.players
           F == {j \in 1 .. Len(ps) : ps[j] = Free}
           free == SelectInSeq(ps, LAMBDA s : s = Free)
<1>0. u # NoUser
  BY PersonAssumption
<1>1. ps \in Seq(Slots) /\ DOMAIN ps = 1 .. Len(ps) /\ Len(ps) \in Nat
  BY DEF Block
<1>2. Tagged(u) \in Slots /\ Tagged(u).name = u /\ Free.name = NoUser
  BY DEF Tagged, Slots, Free
<1>3. free = IF F # {} THEN Min(F) ELSE 0
  BY DEF SelectInSeq
<1>4. CASE F # {}
  <2>1. F \in SUBSET Nat
    OBVIOUS
  <2> HIDE DEF F
  <2>2. free \in F
    BY <1>3, <1>4, <2>1, LeastIs
  <2> HIDE DEF free
  <2>3. free \in DOMAIN ps /\ free > 0 /\ ps[free] = Free
    BY <1>1, <2>2 DEF F
  <2> DEFINE new == [ps EXCEPT ![free] = Tagged(u)]
  <2>4. AddUser(b, u) = [b EXCEPT !.players = new]
    BY <2>3 DEF AddUser, free
  <2>5. /\ new \in Seq(Slots) /\ DOMAIN new = DOMAIN ps
        /\ \A j \in DOMAIN ps : new[j] = IF j = free THEN Tagged(u) ELSE ps[j]
    BY <1>1, <1>2, <2>3
  <2> HIDE DEF new
  <2>6. /\ AddUser(b, u) \in Block /\ AddUser(b, u).players = new
        /\ AddUser(b, u).start = b.start /\ AddUser(b, u).stop = b.stop
    BY <2>4, <2>5 DEF Block
  <2>7. {new[j].name : j \in DOMAIN new} \ {NoUser} =
            ({ps[j].name : j \in DOMAIN ps} \ {NoUser}) \cup {u}
    <3>1. \A j \in DOMAIN ps : new[j].name = IF j = free THEN u ELSE ps[j].name
      BY <1>2, <2>5
    <3>2. ps[free].name = NoUser
      BY <1>2, <2>3
    <3> HIDE DEF ps
    <3> QED
      BY <1>0, <2>3, <2>5, <3>1, <3>2
  <2> QED
    BY <2>6, <2>7 DEF Goers
<1>5. CASE F = {}
  <2> DEFINE new == Append(ps, Tagged(u))
  <2>1. AddUser(b, u) = [b EXCEPT !.players = new]
    BY <1>3, <1>5 DEF AddUser
  <2>2. /\ new \in Seq(Slots) /\ DOMAIN new = DOMAIN ps \cup {Len(ps) + 1}
        /\ \A j \in DOMAIN ps : new[j] = ps[j]
        /\ new[Len(ps) + 1] = Tagged(u)
    BY <1>1, <1>2
  <2> HIDE DEF new
  <2>3. /\ AddUser(b, u) \in Block /\ AddUser(b, u).players = new
        /\ AddUser(b, u).start = b.start /\ AddUser(b, u).stop = b.stop
    BY <2>1, <2>2 DEF Block
  <2>4. {new[j].name : j \in DOMAIN new} \ {NoUser} =
            ({ps[j].name : j \in DOMAIN ps} \ {NoUser}) \cup {u}
    <3>1. new[Len(ps) + 1].name = u /\ \A j \in DOMAIN ps : new[j].name = ps[j].name
      BY <1>2, <2>2
    <3> HIDE DEF ps
    <3> QED
      BY <1>0, <2>2, <3>1
  <2> QED
    BY <2>3, <2>4 DEF Goers
<1> QED
  BY <1>4, <1>5

\* A press of a card makes the user go, or no longer go.
LEMMA PressIs ==
    ASSUME NEW b \in Block, NEW u \in Person,
           NEW new, new = IF IsUserIn(b, u) THEN RemoveUser(b, u) ELSE AddUser(b, u)
    PROVE  /\ new \in Block
           /\ Goers(new) = IF u \in Goers(b) THEN Goers(b) \ {u} ELSE Goers(b) \cup {u}
           /\ new.start = b.start /\ new.stop = b.stop
<1>1. u # NoUser
  BY PersonAssumption
<1>2. IsUserIn(b, u) <=> u \in Goers(b)
  BY <1>1 DEF IsUserIn, IsSameUser, Goers
<1>3. Free \in Slots /\ Free.name = NoUser
  BY DEF Free, Slots
<1>4. /\ RemoveUser(b, u) \in Block /\ Goers(RemoveUser(b, u)) = Goers(b) \ {u}
      /\ RemoveUser(b, u).start = b.start /\ RemoveUser(b, u).stop = b.stop
  BY <1>1, <1>3, PutIs DEF RemoveUser
<1> QED
  BY <1>2, <1>4, AddUserIs

\* What the roster keeps, whatever is pasted and pressed.
RosterInv ==
    /\ lines \in Paper /\ blocks \in Seq(Block) /\ Framed(lines, blocks)
    /\ user \in Person \cup {NoUser} /\ shown \in Person \cup {NoUser}

\* A step of the page changes the attendance as Attendance.tla says.
LEMMA RosterStep ==
    ASSUME RosterInv, [RosterNext]_rosterVars
    PROVE  RosterInv' /\ [Group!Next]_(Group!vars)
<1>1. ASSUME NEW text \in Paper, Ingest(text) PROVE RosterInv' /\ Group!Paste
  <2>1. text \in Seq(Line)
    BY PaperAssumption
  <2>2. /\ lines' = text /\ user' = user /\ shown' = user
        /\ blocks' = NormalizeUserSlots(ParseRoster(text), user)
    BY <1>1 DEF Ingest, Render
  <2>3. /\ blocks' \in Seq(Block) /\ Attendees(blocks') = ReadAttendees(text)
        /\ SameFrames(blocks', ParseRoster(text))
    BY <2>1, <2>2, ParseBlocks, RenderIs DEF RosterInv, ReadAttendees
  <2>4. Framed(lines', blocks')
    BY <2>2, <2>3 DEF Framed, SameFrames
  <2> QED
    BY <2>2, <2>3, <2>4 DEF RosterInv, Group!Paste
<1>2. ASSUME NEW i \in 1 .. 2, Toggle(i)
      PROVE  RosterInv' /\ Group!Flip(i) /\ i \in DOMAIN Attendees(blocks)
  <2> DEFINE b == blocks[i]
             new == IF IsUserIn(b, user) THEN RemoveUser(b, user) ELSE AddUser(b, user)
             bs == [blocks EXCEPT ![i] = new]
  <2>1. /\ i \in DOMAIN blocks /\ user # NoUser
        /\ lines' = lines /\ user' = user /\ shown' = user
        /\ blocks' = NormalizeUserSlots(bs, user)
    BY <1>2 DEF Toggle, Render
  <2>2. user \in Person /\ b \in Block
    BY <2>1 DEF RosterInv
  <2>3. /\ new \in Block
        /\ Goers(new) = IF user \in Goers(b) THEN Goers(b) \ {user} ELSE Goers(b) \cup {user}
        /\ new.start = b.start /\ new.stop = b.stop
    BY <2>2, PressIs
  <2> HIDE DEF new
  <2>4. /\ bs \in Seq(Block) /\ DOMAIN bs = DOMAIN blocks
        /\ \A j \in DOMAIN blocks : bs[j] = IF j = i THEN new ELSE blocks[j]
    BY <2>1, <2>3 DEF RosterInv
  <2> HIDE DEF bs
  <2>5. /\ blocks' \in Seq(Block) /\ Attendees(blocks') = Attendees(bs)
        /\ SameFrames(blocks', bs)
    BY <2>1, <2>2, <2>4, RenderIs
  <2>6. \A j \in DOMAIN blocks : /\ Attendees(blocks)[j] = Goers(blocks[j])
                                 /\ Attendees(bs)[j] = Goers(bs[j])
    BY <2>4 DEF Attendees, Goers
  <2>7. Attendees(bs) =
            [Attendees(blocks) EXCEPT ![i] = IF user \in @ THEN @ \ {user} ELSE @ \cup {user}]
    <3>1. DOMAIN Attendees(bs) = DOMAIN blocks /\ DOMAIN Attendees(blocks) = DOMAIN blocks
      BY <2>4 DEF Attendees
    <3>2. \A j \in DOMAIN blocks :
              Attendees(bs)[j] = IF j = i THEN Goers(new) ELSE Attendees(blocks)[j]
      BY <2>4, <2>6
    <3>3. Attendees(bs) = [j \in DOMAIN blocks |-> Attendees(bs)[j]]
      BY <2>4 DEF Attendees
    <3>4. Attendees(blocks) = [j \in DOMAIN blocks |-> Attendees(blocks)[j]]
      BY DEF Attendees
    <3>5. Attendees(blocks)[i] = Goers(b)
      BY <2>1, <2>6
    <3> HIDE DEF b
    <3> QED
      BY <2>1, <2>3, <3>1, <3>2, <3>3, <3>4, <3>5
  <2>8. i \in DOMAIN Attendees(blocks)
    BY <2>1 DEF Attendees
  <2>9. SameFrames(bs, blocks)
    BY <2>3, <2>4 DEF SameFrames
  <2>10. Framed(lines', blocks')
    BY <2>1, <2>5, <2>9 DEF RosterInv, Framed, SameFrames
  <2> QED
    BY <2>1, <2>5, <2>7, <2>8, <2>10 DEF RosterInv, Group!Flip
<1>3. ASSUME NEW u \in Person, SetUser(u) PROVE RosterInv' /\ Group!SwitchUser
  BY <1>3 DEF SetUser, RosterInv, Group!SwitchUser
<1>4. ASSUME Rerender PROVE RosterInv' /\ Group!SwitchUser
  <2>1. /\ lines' = lines /\ user' = user /\ shown' = user
        /\ blocks' = NormalizeUserSlots(blocks, user)
    BY <1>4 DEF Rerender, Render
  <2>2. /\ blocks' \in Seq(Block) /\ Attendees(blocks') = Attendees(blocks)
        /\ SameFrames(blocks', blocks)
    BY <2>1, RenderIs DEF RosterInv
  <2>3. Framed(lines', blocks')
    BY <2>1, <2>2 DEF RosterInv, Framed, SameFrames
  <2> QED
    BY <2>1, <2>2, <2>3 DEF RosterInv, Group!SwitchUser
<1>5. ASSUME SignOut PROVE RosterInv' /\ Group!SwitchUser
  BY <1>5 DEF SignOut, RosterInv, Group!SwitchUser
<1>6. ASSUME UNCHANGED rosterVars PROVE RosterInv' /\ Group!SwitchUser
  BY <1>6 DEF rosterVars, RosterInv, Group!SwitchUser
<1> QED
  BY <1>1, <1>2, <1>3, <1>4, <1>5, <1>6 DEF RosterNext, Group!Next

\* The roster starts empty.
LEMMA RosterStart == RosterInit => RosterInv /\ Group!Init
<1> SUFFICES ASSUME RosterInit PROVE RosterInv /\ Group!Init
  OBVIOUS
<1>1. lines = <<>> /\ blocks = <<>> /\ user = NoUser /\ shown = NoUser
  BY DEF RosterInit
<1>2. <<>> \in Paper /\ <<>> \in Seq(Block)
  BY PaperAssumption
<1>3. DOMAIN ParseRoster(<<>>) = {}
  <2>1. {i \in DOMAIN <<>> : <<>>[i].kind = "date"} = {}
    OBVIOUS
  <2>2. DOMAIN Dates(<<>>) = {}
    BY <2>1, FS_EmptySet DEF Dates, InOrder
  <2> QED
    BY <2>2 DEF ParseRoster
<1>4. Attendees(blocks) = ReadAttendees(lines)
  BY <1>1, <1>3 DEF Attendees, ReadAttendees
<1>5. Framed(lines, blocks)
  BY <1>1, <1>3 DEF Framed
<1> QED
  BY <1>1, <1>2, <1>4, <1>5 DEF RosterInv, Group!Init

\* The roster does what Attendance.tla promises a group, for any people, texts
\* and mixture of typed and tagged names: a press of a card changes where the
\* signed-in user goes and nothing else, and renders, sign-ins and sign-outs
\* change nothing (app.js 632-686).
THEOREM KeepsAttendanceHolds == RosterSpec => KeepsAttendance
<1>1. RosterInit => RosterInv /\ Group!Init
  BY RosterStart
<1>2. RosterInv /\ [RosterNext]_rosterVars => RosterInv' /\ [Group!Next]_(Group!vars)
  BY RosterStep
<1> QED
  BY <1>1, <1>2, PTL DEF RosterSpec, KeepsAttendance, Group!Spec

\* Every variable of the roster keeps its type: what parseRoster finds and the
\* handlers change are blocks of slots, for any texts and people (app.js
\* 580-686).
THEOREM RosterTypeCorrect == RosterSpec => []RosterTypeOK
<1>1. RosterInit => RosterInv
  BY RosterStart
<1>2. RosterInv /\ [RosterNext]_rosterVars => RosterInv'
  BY RosterStep
<1>3. RosterInv => RosterTypeOK
  <2> SUFFICES ASSUME RosterInv PROVE RosterTypeOK
    OBVIOUS
  <2>1. \A i \in DOMAIN blocks : blocks[i] \in Block
    BY DEF RosterInv
  <2>2. lines \in Seq(Line)
    BY PaperAssumption DEF RosterInv
  <2> QED
    BY <2>1, <2>2 DEF RosterInv, RosterTypeOK, Block
<1> QED
  BY <1>1, <1>2, <1>3, PTL DEF RosterSpec

\* The text handed back says what the cards say, for any text, blocks in any
\* number and order of presses: parsing it again gives the players of every
\* block that had a line to be written to, and no other line is lost when none
\* stands between two players (app.js 614-627).
THEOREM TextSaysWhatCardsSayHolds == RosterSpec => []TextSaysWhatCardsSay
<1>1. RosterInit => RosterInv
  BY RosterStart
<1>2. RosterInv /\ [RosterNext]_rosterVars => RosterInv'
  BY RosterStep
<1>3. RosterInv => TextSaysWhatCardsSay
  <2> SUFFICES ASSUME RosterInv PROVE TextSaysWhatCardsSay
    OBVIOUS
  <2>1. lines \in Seq(Line) /\ blocks \in Seq(Block) /\ Framed(lines, blocks)
    BY PaperAssumption DEF RosterInv
  <2> DEFINE out == RenderRoster(lines, blocks)
  <2>2. /\ DOMAIN ParseRoster(out) = DOMAIN blocks
        /\ \A i \in DOMAIN blocks :
              blocks[i].start > 0 => ParseRoster(out)[i].players = blocks[i].players
        /\ (\A i \in DOMAIN blocks : Contiguous(lines, i)) => Others(out) = Others(lines)
    BY <2>1, RenderSays
  <2> HIDE DEF out
  <2> QED
    BY <2>2 DEF TextSaysWhatCardsSay, out
<1> QED
  BY <1>1, <1>2, <1>3, PTL DEF RosterSpec

----------------------------------------------------------------------------
\* MqttChat.

\* There is always a button to go on with: Connect exactly while there is no
\* client, and Disconnect, or the end it began, while there is one (app.js
\* 176-223, 282-298).
THEOREM NeverStuckOnMqtt == MqttSpec => []NeverStuck
<1>1. MqttInit => NeverStuck
  BY DEF MqttInit, NeverStuck
<1>2. ASSUME NeverStuck, [MqttNext]_mqttVars PROVE NeverStuck'
  <2>1. CASE UNCHANGED connection
    BY <1>2, <2>1, Zenon DEF NeverStuck, connection
  <2>2. CASE Connect
    <3>1. CASE client' = TRUE /\ canConnect' = FALSE /\ canEnd' = TRUE
      BY <3>1, Zenon DEF NeverStuck
    <3> QED
      BY <2>1, <2>2, <3>1, Zenon DEF Connect
  <2>3. CASE Connected
    BY <1>2, <2>3, Zenon DEF NeverStuck, Connected
  <2>4. CASE Reconnecting \/ Closed
    <3>1. UNCHANGED <<client, ending, canConnect, canEnd>>
      BY <2>4 DEF Reconnecting, Closed
    <3> QED
      BY <1>2, <3>1, Zenon DEF NeverStuck
  <2>5. CASE Disconnect
    BY <1>2, <2>5, Zenon DEF NeverStuck, Disconnect
  <2>6. CASE Ended
    BY <1>2, <2>6, Zenon DEF NeverStuck, Ended
  <2>7. ASSUME NEW k, SetKeyFromInput(k) \/ ImportEnds(k) PROVE UNCHANGED connection
    BY <2>7, Zenon DEF SetKeyFromInput, ImportEnds
  <2>8. ASSUME NEW e, Write(e) \/ PreviewEnds(e) \/ SendEnds(e) PROVE UNCHANGED connection
    BY <2>8, Zenon DEF Write, PreviewEnds, SendEnds
  <2>9. ClearTx \/ Send \/ UNCHANGED mqttVars => UNCHANGED connection
    BY Zenon DEF ClearTx, Send, mqttVars
  <2> QED
    BY <1>2, <2>1, <2>2, <2>3, <2>4, <2>5, <2>6, <2>7, <2>8, <2>9, Zenon DEF MqttNext
<1> QED
  BY <1>1, <1>2, PTL DEF MqttSpec

\* The Send button tells whether a message can be sent, through late keys,
\* lost connections and a box that is cleared (app.js 171-174 and the handlers
\* that call it).
THEOREM SendButtonHolds == MqttSpec => []SendButtonTells
<1>1. MqttInit => SendButtonTells
  BY Zenon DEF MqttInit, SendButtonTells, Sendable
<1>2. ASSUME SendButtonTells, [MqttNext]_mqttVars PROVE SendButtonTells'
  <2>1. CASE UpdateSendButton
    <3>1. canSend' <=> Sendable'
      BY <2>1, Zenon DEF UpdateSendButton
    <3> QED
      BY <3>1, Zenon DEF SendButtonTells
  <2>2. CASE UNCHANGED <<client, up, cryptoKey, plain, previews, canSend>>
    BY <1>2, <2>2, Zenon DEF SendButtonTells, Sendable
  <2>3. CASE Connect
    <3>1. CASE UNCHANGED connection
      BY <2>2, <2>3, <3>1, Zenon DEF Connect, connection, keying, writing
    <3>2. CASE up' = FALSE /\ ~client /\ canSend' = canSend
      BY <1>2, <3>2, Zenon DEF SendButtonTells, Sendable
    <3> QED
      BY <2>3, <3>1, <3>2, Zenon DEF Connect
  <2>4. Connected \/ Closed \/ Ended \/ ClearTx => UpdateSendButton
    BY Zenon DEF Connected, Closed, Ended, ClearTx
  <2>5. Reconnecting \/ Disconnect \/ Send =>
            UNCHANGED <<client, up, cryptoKey, plain, previews, canSend>>
    BY Zenon DEF Reconnecting, Disconnect, Send, connection, keying, writing
  <2>6. ASSUME NEW e, PreviewEnds(e) \/ ImportEnds(e) PROVE UpdateSendButton
    BY <2>6, Zenon DEF PreviewEnds, ImportEnds
  <2>7. ASSUME NEW e, SendEnds(e)
        PROVE  UNCHANGED <<client, up, cryptoKey, plain, previews, canSend>>
    BY <2>7, Zenon DEF SendEnds, connection, keying
  <2>8. ASSUME NEW k, SetKeyFromInput(k)
        PROVE  \/ UpdateSendButton
               \/ UNCHANGED <<client, up, cryptoKey, plain, previews, canSend>>
    BY <2>8, Zenon DEF SetKeyFromInput, connection, writing
  <2>9. ASSUME NEW text, Write(text) PROVE SendButtonTells'
    <3>1. CASE text = Blank \/ cryptoKey = Blank
      BY <2>1, <2>9, <3>1, Zenon DEF Write, RefreshCipherPreview
    <3>2. CASE ~(text = Blank \/ cryptoKey = Blank)
      <4>1. /\ plain' = text /\ UNCHANGED <<client, up, cryptoKey, canSend>>
            /\ previews' = previews \cup {<<text, cryptoKey>>}
        BY <2>9, <3>2, Zenon DEF Write, RefreshCipherPreview, connection, keying
      <4>2. previews' # {}
        BY <4>1
      <4>3. canSend' => Sendable'
        BY <1>2, <3>2, <4>1, Zenon DEF SendButtonTells, Sendable
      <4> QED
        BY <4>2, <4>3, Zenon DEF SendButtonTells
    <3> QED
      BY <3>1, <3>2
  <2>10. UNCHANGED mqttVars => UNCHANGED <<client, up, cryptoKey, plain, previews, canSend>>
    BY Zenon DEF mqttVars, connection, keying, writing
  <2> QED
    BY <1>2, <2>1, <2>2, <2>3, <2>4, <2>5, <2>6, <2>7, <2>8, <2>9, <2>10, Zenon DEF MqttNext
<1> QED
  BY <1>1, <1>2, PTL DEF MqttSpec

\* Every variable of the chat keeps its type: a late preview, import or send
\* ends with a key and a text that the page once had, and the back-off stays
\* between its bounds (app.js 176-253, 300-368).
THEOREM MqttTypeCorrect == MqttSpec => []MqttTypeOK
<1> DEFINE Flags == {client, up, ending, canConnect, canEnd, canSend} \subseteq BOOLEAN
           Waits == {backoff, period} \subseteq BackoffMin .. BackoffMax
           Keys == /\ keyBox \in Key \cup {BadKey, Blank} /\ imports \subseteq Key
                   /\ cryptoKey \in Key \cup {Blank}
           Texts == /\ plain \in Message \cup {Blank}
                    /\ previews \subseteq Message \X Key /\ sends \subseteq Message \X Key
                    /\ cipher \in (Message \X Key) \cup {Blank}
<1>1. MqttTypeOK <=> Flags /\ Waits /\ Keys /\ Texts
  BY DEF MqttTypeOK
<1>2. MqttInit => MqttTypeOK
  <2> SUFFICES ASSUME MqttInit PROVE Flags /\ Waits /\ Keys /\ Texts
    BY <1>1
  <2>1. Flags
    BY Zenon DEF MqttInit
  <2>2. BackoffMin \in BackoffMin .. BackoffMax
    BY DEF BackoffMin, BackoffMax
  <2>3. Waits
    BY <2>2, Zenon DEF MqttInit
  <2>4. Keys /\ Texts
    BY Zenon DEF MqttInit
  <2> QED
    BY <2>1, <2>3, <2>4
<1>3. ASSUME MqttTypeOK, [MqttNext]_mqttVars PROVE MqttTypeOK'
  <2>1. Flags'
    <3>0. Flags /\ Sendable' \in BOOLEAN
      BY <1>1, <1>3 DEF Sendable
    <3>1. CASE Connect
      BY <3>0, <3>1, Zenon DEF Connect, connection
    <3>2. CASE Connected \/ Closed \/ Ended
      BY <3>0, <3>2, Zenon DEF Connected, Closed, Ended, UpdateSendButton
    <3>3. CASE Reconnecting \/ Disconnect \/ Send \/ UNCHANGED mqttVars
      BY <3>0, <3>3, Zenon DEF Reconnecting, Disconnect, Send, mqttVars, connection
    <3>4. CASE ClearTx
      BY <3>0, <3>4, Zenon DEF ClearTx, UpdateSendButton, connection
    <3>5. ASSUME NEW k, SetKeyFromInput(k) \/ ImportEnds(k) PROVE Flags'
      BY <3>0, <3>5, Zenon DEF SetKeyFromInput, ImportEnds, UpdateSendButton, connection
    <3>6. ASSUME NEW e, Write(e) \/ PreviewEnds(e) \/ SendEnds(e) PROVE Flags'
      BY <3>0, <3>6, Zenon DEF Write, RefreshCipherPreview, PreviewEnds, SendEnds, UpdateSendButton, connection
    <3> QED
      BY <1>3, <3>1, <3>2, <3>3, <3>4, <3>5, <3>6, Zenon DEF MqttNext
  <2>2. Waits'
    <3>0. Waits
      BY <1>1, <1>3
    <3>1. CASE UNCHANGED <<backoff, period>>
      BY <3>0, <3>1
    <3>2. CASE backoff' = BackoffMin /\ period' \in {BackoffMin, period}
      BY <3>0, <3>2 DEF BackoffMin, BackoffMax
    <3>3. CASE Reconnecting
      BY <3>0, <3>3 DEF Reconnecting, BackoffMin, BackoffMax
    <3>4. Connect \/ Connected => \/ UNCHANGED <<backoff, period>>
                                  \/ backoff' = BackoffMin /\ period' \in {BackoffMin, period}
      BY DEF Connect, Connected, connection
    <3>5. Closed \/ Disconnect \/ Ended \/ ClearTx \/ Send \/ UNCHANGED mqttVars =>
              UNCHANGED <<backoff, period>>
      BY DEF Closed, Disconnect, Ended, ClearTx, Send, mqttVars, connection
    <3>6. ASSUME NEW k, SetKeyFromInput(k) \/ ImportEnds(k) PROVE UNCHANGED <<backoff, period>>
      BY <3>6 DEF SetKeyFromInput, ImportEnds, connection
    <3>7. ASSUME NEW e, Write(e) \/ PreviewEnds(e) \/ SendEnds(e) PROVE UNCHANGED <<backoff, period>>
      BY <3>7 DEF Write, PreviewEnds, SendEnds, connection
    <3> QED
      BY <1>3, <3>1, <3>2, <3>3, <3>4, <3>5, <3>6, <3>7, Zenon DEF MqttNext
  <2>3. Keys'
    <3>0. Keys
      BY <1>1, <1>3
    <3>1. CASE UNCHANGED keying
      BY <3>0, <3>1 DEF keying
    <3>2. ASSUME NEW k \in Key \cup {BadKey, Blank}, SetKeyFromInput(k) PROVE Keys'
      BY <3>0, <3>2 DEF SetKeyFromInput
    <3>3. ASSUME NEW k \in imports, ImportEnds(k) PROVE Keys'
      BY <3>0, <3>3 DEF ImportEnds
    <3>4. Connect \/ Connected \/ Reconnecting \/ Closed \/ Disconnect \/ Ended => UNCHANGED keying
      BY Zenon DEF Connect, Connected, Reconnecting, Closed, Disconnect, Ended
    <3>5. ClearTx \/ Send \/ UNCHANGED mqttVars => UNCHANGED keying
      BY Zenon DEF ClearTx, Send, mqttVars
    <3>6. ASSUME NEW e, Write(e) \/ PreviewEnds(e) \/ SendEnds(e) PROVE UNCHANGED keying
      BY <3>6, Zenon DEF Write, PreviewEnds, SendEnds
    <3> QED
      BY <1>3, <3>1, <3>2, <3>3, <3>4, <3>5, <3>6, Zenon DEF MqttNext
  <2>4. Texts'
    <3>0. Texts /\ cryptoKey \in Key \cup {Blank}
      BY <1>1, <1>3
    <3>1. CASE UNCHANGED writing
      BY <3>0, <3>1 DEF writing
    <3>2. ASSUME NEW text \in Message \cup {Blank}, Write(text) PROVE Texts'
      BY <3>0, <3>2 DEF Write, RefreshCipherPreview
    <3>3. ASSUME NEW k \in imports, ImportEnds(k) PROVE Texts'
      <4>1. k \in Key
        BY <1>1, <1>3
      <4> QED
        BY <3>0, <3>3, <4>1 DEF ImportEnds
    <3>4. ASSUME NEW e \in previews, PreviewEnds(e) PROVE Texts'
      BY <3>0, <3>4 DEF PreviewEnds
    <3>5. ASSUME NEW e \in sends, SendEnds(e) PROVE Texts'
      BY <3>0, <3>5 DEF SendEnds
    <3>6. CASE ClearTx
      BY <3>0, <3>6 DEF ClearTx
    <3>7. CASE Send
      <4>1. plain \in Message /\ cryptoKey \in Key
        BY <3>0, <3>7 DEF Send, Sendable
      <4> QED
        BY <3>0, <3>7, <4>1 DEF Send
    <3>8. Connect \/ Connected \/ Reconnecting \/ Closed \/ Disconnect \/ Ended => UNCHANGED writing
      BY Zenon DEF Connect, Connected, Reconnecting, Closed, Disconnect, Ended
    <3>9. UNCHANGED mqttVars => UNCHANGED writing
      BY Zenon DEF mqttVars
    <3>10. ASSUME NEW k, SetKeyFromInput(k) PROVE UNCHANGED writing
      BY <3>10, Zenon DEF SetKeyFromInput
    <3> QED
      BY <1>3, <3>1, <3>2, <3>3, <3>4, <3>5, <3>6, <3>7, <3>8, <3>9, <3>10, Zenon DEF MqttNext
  <2>5. MqttTypeOK' <=> Flags' /\ Waits' /\ Keys' /\ Texts'
    BY DEF MqttTypeOK
  <2> QED
    BY <2>1, <2>2, <2>3, <2>4, <2>5, Zenon
<1> QED
  BY <1>2, <1>3, PTL DEF MqttSpec

----------------------------------------------------------------------------
\* OsmDownload.

\* The page shows the box of the place and size it has, and knows whether a
\* download runs.
Drawn == panel.box = Box /\ panel.busy = busy

\* The page advertises the box of now at every moment, and so the download
\* fetches the box that is shown (the comment of app.js 89-91).
THEOREM AdvertisedHolds == OsmSpec => AdvertisedIsRequested
<1>1. OsmInit => Drawn
  <2>1. OsmInit => panel.box = Box
    BY DEF OsmInit, Box
  <2>2. OsmInit => panel.busy = FALSE /\ busy = FALSE
    BY DEF OsmInit
  <2> QED
    BY <2>1, <2>2 DEF Drawn
<1>2. ASSUME Drawn, [OsmNext]_osmVars PROVE Drawn'
  <2>1. CASE Redraw
    BY <2>1 DEF Redraw, Drawn
  <2>2. CASE UNCHANGED <<position, size, busy, panel>>
    BY <1>2, <2>2 DEF Drawn, Box, CurrentSize
  <2>3. PressLocate \/ AutoLocate \/ NotLocated => UNCHANGED <<position, size, busy, panel>>
    BY DEF PressLocate, AutoLocate, Locate, NotLocated
  <2>4. \A p : Located(p) => Redraw
    BY DEF Located
  <2>5. \A s : SelectSize(s) => Redraw
    BY DEF SelectSize
  <2>6. Download \/ BlobRead \/ BlobLost \/ DownloadFails => Redraw
    BY DEF Download, BlobRead, BlobLost, DownloadFails, Finally
  <2>7. Response \/ BodyRead \/ Cancel \/ Frame \/ UNCHANGED osmVars =>
            UNCHANGED <<position, size, busy, panel>>
    BY DEF Response, BodyRead, Cancel, Frame, osmVars
  <2> QED
    BY <1>2, <2>1, <2>2, <2>3, <2>4, <2>5, <2>6, <2>7 DEF OsmNext
<1>3. ASSUME Drawn, [OsmNext]_osmVars, request = NoPlace, request' # NoPlace
      PROVE  request'.box = panel.box /\ panel'.box = panel.box
  <2>1. Download
    BY <1>3 DEF OsmNext, osmVars, locating, drawing, PressLocate, AutoLocate, Locate,
                NotLocated, Located, SelectSize, Response, BodyRead, BlobRead, BlobLost,
                DownloadFails, Finally, Cancel, Frame, Await
  <2>2. request'.box = Box /\ panel'.box = Box' /\ UNCHANGED <<position, size>>
    BY <2>1 DEF Download, Redraw
  <2> QED
    BY <1>3, <2>2 DEF Drawn, Box, CurrentSize
<1> QED
  BY <1>1, <1>2, <1>3, PTL DEF OsmSpec, AdvertisedIsRequested

\* The file is saved, and read once more for the map.
Rereading == busy /\ request.await = "blob text"

\* Between the awaits of a download, and while maps wait for their frame: but
\* while the file is read once more, and when that failed, the map that is or
\* will be drawn is that of the file.
MapInv ==
    /\ request # NoPlace =>
          busy /\ request = [box |-> request.box, await |-> request.await]
    /\ \E S : frames \in Seq(S)
    /\ Rereading => request.box = saved
    /\ ~Rereading /\ ~unread =>
          /\ mapPill = "ok" => scene = saved
          /\ frames # <<>> => Last(frames) = saved

LEMMA LastAppended ==
    ASSUME NEW S, NEW s \in Seq(S), NEW e
    PROVE  /\ Append(s, e) \in Seq(S \cup {e}) /\ Append(s, e) # <<>>
           /\ Last(Append(s, e)) = e
<1>1. s \in Seq(S \cup {e})
  OBVIOUS
<1>2. Append(s, e) \in Seq(S \cup {e}) /\ Len(Append(s, e)) = Len(s) + 1
      /\ Append(s, e)[Len(s) + 1] = e /\ Len(s) \in Nat
  BY <1>1
<1> QED
  BY <1>2 DEF Last

\* A change that the map does not see.
LEMMA SameMap ==
    ASSUME MapInv, UNCHANGED <<busy, request, saved, unread, frames, scene, mapPill>>
    PROVE  MapInv'
BY DEF MapInv, Rereading

\* Downloads that are cancelled, that fail or follow one another, and maps
\* that wait for their frame, leave the map of the file saved last, unless
\* that file could not be read back (app.js 331-378, 695-721).
THEOREM DrawnIsSavedHolds == OsmSpec => []DrawnIsSaved
<1>1. OsmInit => MapInv
  <2> SUFFICES ASSUME OsmInit PROVE MapInv
    OBVIOUS
  <2>1. frames \in Seq({})
    BY DEF OsmInit
  <2> QED
    BY <2>1 DEF OsmInit, MapInv, Rereading
<1>2. ASSUME MapInv, [OsmNext]_osmVars PROVE MapInv'
  <2>1. CASE UNCHANGED <<busy, request, saved, unread, frames, scene, mapPill>>
    BY <1>2, <2>1, SameMap
  <2>2. CASE Download
    <3>1. ~Rereading /\ ~Rereading'
      BY <2>2 DEF Download, Rereading
    <3>2. busy' /\ request' = [box |-> request'.box, await |-> request'.await]
      BY <2>2 DEF Download
    <3> QED
      BY <1>2, <2>2, <3>1, <3>2 DEF MapInv, Download, drawing
  <2>3. CASE Response
    <3>1. PICK next \in {"body", "error text"} : request' = [request EXCEPT !.await = next]
      BY <2>3 DEF Response
    <3>2. /\ request # NoPlace /\ request.await = "fetch"
          /\ request = [box |-> request.box, await |-> request.await] /\ busy
      BY <1>2, <2>3 DEF MapInv, Response, Await
    <3>3. request' = [box |-> request.box, await |-> next]
      BY <3>1, <3>2
    <3>4. ~Rereading /\ ~Rereading'
      BY <3>2, <3>3 DEF Rereading
    <3> QED
      BY <1>2, <2>3, <3>2, <3>3, <3>4 DEF MapInv, Response, drawing
  <2>4. CASE BodyRead
    <3>1. /\ request # NoPlace /\ busy
          /\ request = [box |-> request.box, await |-> request.await]
      BY <1>2, <2>4 DEF MapInv, BodyRead, Await
    <3>2. request' = [box |-> request.box, await |-> "blob text"]
      BY <2>4, <3>1 DEF BodyRead
    <3>3. saved' = request'.box
      BY <2>4, <3>2 DEF BodyRead
    <3>4. busy' /\ request' = [box |-> request'.box, await |-> request'.await]
      BY <2>4, <3>1, <3>2 DEF BodyRead
    <3>5. \E S : frames' \in Seq(S)
      BY <1>2, <2>4 DEF MapInv, BodyRead, drawing
    <3>6. Rereading'
      BY <3>2, <3>4 DEF Rereading
    <3> QED
      BY <3>3, <3>4, <3>5, <3>6 DEF MapInv
  <2>5. CASE BlobRead
    <3>1. /\ request.box = saved /\ request' = NoPlace /\ saved' = saved /\ unread' = unread
          /\ frames' = Append(frames, saved) /\ mapPill' = "rendering" /\ ~busy'
      BY <1>2, <2>5 DEF MapInv, BlobRead, Finally, Await, Rereading
    <3>2. PICK S : frames \in Seq(S)
      BY <1>2 DEF MapInv
    <3>4. frames' \in Seq(S \cup {saved}) /\ Last(frames') = saved
      BY <3>1, <3>2, LastAppended
    <3> QED
      BY <3>1, <3>4 DEF MapInv, Rereading
  <2>6. CASE DownloadFails
    <3>1. /\ ~Rereading /\ request' = NoPlace /\ ~busy'
          /\ UNCHANGED <<saved, unread, frames, scene, mapPill>>
      BY <2>6 DEF DownloadFails, Finally, Await, Rereading, drawing
    <3> QED
      BY <1>2, <3>1 DEF MapInv, Rereading
  <2>10. CASE BlobLost
    <3>1. request' = NoPlace /\ ~busy' /\ unread' /\ frames' = frames
      BY <2>10 DEF BlobLost, Finally, drawing
    <3> QED
      BY <1>2, <3>1 DEF MapInv, Rereading
  <2>7. CASE Frame
    <3>1. frames # <<>> /\ frames' = <<>> /\ UNCHANGED <<busy, request, saved, unread>>
      BY <2>7 DEF Frame
    <3>2. mapPill' = "ok" => scene' = Last(frames)
      BY <2>7 DEF Frame
    <3>3. frames' \in Seq({})
      BY <3>1
    <3> QED
      BY <1>2, <3>1, <3>2, <3>3 DEF MapInv, Rereading
  <2>8. PressLocate \/ AutoLocate \/ NotLocated \/ Cancel \/ UNCHANGED osmVars =>
            UNCHANGED <<busy, request, saved, unread, frames, scene, mapPill>>
    BY DEF PressLocate, AutoLocate, Locate, NotLocated, Cancel, osmVars, drawing
  <2>9. \A p : Located(p) \/ SelectSize(p) =>
            UNCHANGED <<busy, request, saved, unread, frames, scene, mapPill>>
    BY DEF Located, SelectSize, drawing
  <2> QED
    BY <1>2, <2>1, <2>2, <2>3, <2>4, <2>5, <2>6, <2>7, <2>8, <2>9, <2>10 DEF OsmNext
<1>3. MapInv => DrawnIsSaved
  BY DEF MapInv, DrawnIsSaved, Rereading
<1> QED
  BY <1>1, <1>2, <1>3, PTL DEF OsmSpec

\* The box around a place stays on the globe, also at the poles.
LEMMA BoxIsOnTheGlobe ==
    ASSUME NEW lat \in Place, NEW s \in Sizes
    PROVE  BoxAround(lat, Smaller(s, MaxSize)) \in Boxes
<1>1. lat \in -Limit .. Limit
  BY PlaceAssumption, SMT
<1>0. Limit \in Nat /\ Limit >= 10
  BY SMT DEF Limit
<1> DEFINE h == Smaller(s, MaxSize) \div 2
           low == Larger(-Limit, lat - h)
           high == Smaller(Limit, lat + h)
<1>2. h \in {5, 10}
  <2>1. CASE s = 10
    BY <2>1 DEF Smaller, MaxSize
  <2>2. CASE s = 20
    BY <2>2 DEF Smaller, MaxSize
  <2> QED
    BY <2>1, <2>2 DEF Sizes
<1> HIDE DEF h
<1>3. low \in -Limit .. Limit /\ high \in -Limit .. Limit
  BY <1>0, <1>1, <1>2, SMT DEF Larger, Smaller
<1>4. BoxAround(lat, Smaller(s, MaxSize)) = [min |-> low, max |-> high]
  BY DEF BoxAround, h
<1> HIDE DEF low, high
<1> QED
  BY <1>3, <1>4, SMT DEF Boxes

\* Every variable of the download keeps its type, and the box on the page is
\* one on the globe (app.js 84-120, 240-378).
THEOREM OsmTypeCorrect == OsmSpec => []OsmTypeOK
<1>1. OsmInit => OsmTypeOK
  <2> SUFFICES ASSUME OsmInit PROVE OsmTypeOK
    OBVIOUS
  <2>1. fixes \in Nat /\ size \in Sizes
    BY DEF OsmInit, Sizes, MaxSize
  <2>2. {canLocate, booting, busy, unread} \subseteq BOOLEAN
    BY Zenon DEF OsmInit
  <2>3. position = NoPlace /\ mapPill = "none"
    BY DEF OsmInit
  <2>4. panel = [box |-> NoPlace, busy |-> FALSE]
    BY DEF OsmInit
  <2>5. panel \in [box : Boxes \cup {NoPlace}, busy : BOOLEAN]
    BY <2>4
  <2> QED
    BY <2>1, <2>2, <2>3, <2>5 DEF OsmTypeOK
<1>2. ASSUME OsmTypeOK, [OsmNext]_osmVars PROVE OsmTypeOK'
  <2> DEFINE Where == position \in Place \cup {NoPlace} /\ size \in Sizes
             Shows == panel \in [box : Boxes \cup {NoPlace}, busy : BOOLEAN]
             Flags == fixes \in Nat /\ {canLocate, booting, busy, unread} \subseteq BOOLEAN
             Pill == mapPill \in {"none", "rendering", "ok", "unreadable"}
  <2>0. Where /\ Shows /\ Flags /\ Pill
    BY <1>2 DEF OsmTypeOK
  <2>1. Where'
    <3>1. CASE UNCHANGED <<position, size>>
      BY <2>0, <3>1
    <3>2. ASSUME NEW p \in Place, Located(p) PROVE Where'
      BY <2>0, <3>2 DEF Located
    <3>3. ASSUME NEW s \in Sizes, SelectSize(s) PROVE Where'
      BY <2>0, <3>3 DEF SelectSize
    <3>4. PressLocate \/ AutoLocate \/ NotLocated => UNCHANGED <<position, size>>
      BY DEF PressLocate, AutoLocate, NotLocated, Locate
    <3>5. Download \/ Response \/ BodyRead \/ BlobRead \/ BlobLost \/ DownloadFails =>
              UNCHANGED <<position, size>>
      BY DEF Download, Response, BodyRead, BlobRead, BlobLost, DownloadFails, Finally
    <3>6. Cancel \/ Frame \/ UNCHANGED osmVars => UNCHANGED <<position, size>>
      BY DEF Cancel, Frame, osmVars
    <3> QED
      BY <1>2, <3>1, <3>2, <3>3, <3>4, <3>5, <3>6, Zenon DEF OsmNext
  <2>2. Flags'
    <3>0. ASSUME Locate \/ UNCHANGED <<fixes, canLocate>>
          PROVE  fixes' \in Nat /\ canLocate' \in BOOLEAN
      <4>1. fixes' \in Nat
        BY <2>0, <3>0 DEF Locate
      <4>2. canLocate' \in BOOLEAN
        BY <2>0, <3>0, Zenon DEF Locate
      <4> QED
        BY <4>1, <4>2
    <3>1. CASE PressLocate \/ AutoLocate
      <4>1. Locate \/ UNCHANGED <<fixes, canLocate>>
        <5>1. PressLocate => Locate
          BY Zenon DEF PressLocate
        <5>2. AutoLocate => Locate \/ UNCHANGED <<fixes, canLocate>>
          BY SMT DEF AutoLocate
        <5> QED
          BY <3>1, <5>1, <5>2, Zenon
      <4>2. booting' \in BOOLEAN /\ UNCHANGED <<busy, unread>>
        BY <2>0, <3>1, Zenon DEF PressLocate, AutoLocate, Locate
      <4> QED
        BY <2>0, <3>0, <4>1, <4>2
    <3>2. CASE NotLocated
      BY <2>0, <3>2 DEF NotLocated
    <3>3. ASSUME NEW p \in Place, Located(p) PROVE Flags'
      BY <2>0, <3>3 DEF Located
    <3>4. ASSUME NEW s \in Sizes, SelectSize(s) PROVE Flags'
      BY <2>0, <3>4 DEF SelectSize, locating
    <3>5. CASE Download \/ Response \/ BodyRead
      BY <2>0, <3>5 DEF Download, Response, BodyRead, locating
    <3>6. CASE BlobRead \/ BlobLost \/ DownloadFails
      BY <2>0, <3>6 DEF BlobRead, BlobLost, DownloadFails, Finally, locating
    <3>7. CASE Cancel \/ Frame \/ UNCHANGED osmVars
      BY <2>0, <3>7 DEF Cancel, Frame, osmVars, locating
    <3> QED
      BY <1>2, <3>1, <3>2, <3>3, <3>4, <3>5, <3>6, <3>7, Zenon DEF OsmNext
  <2>3. Redraw => Shows'
    <3>1. Box' \in Boxes \cup {NoPlace}
      <4>1. CASE position' = NoPlace
        BY <4>1 DEF Box
      <4>2. CASE position' # NoPlace
        <5>1. position' \in Place /\ size' \in Sizes
          BY <2>1, <4>2
        <5>2. BoxAround(position', Smaller(size', MaxSize)) \in Boxes
          BY <5>1, BoxIsOnTheGlobe
        <5> QED
          BY <4>2, <5>2, Zenon DEF Box, CurrentSize
      <4> QED
        BY <4>1, <4>2
    <3>2. busy' \in BOOLEAN
      BY <2>2
    <3> QED
      BY <3>1, <3>2 DEF Redraw
  <2>4. Shows'
    <3>1. CASE UNCHANGED panel
      BY <2>0, <3>1
    <3>2. PressLocate \/ AutoLocate \/ NotLocated => UNCHANGED panel
      BY DEF PressLocate, AutoLocate, NotLocated, Locate
    <3>3. Download \/ BlobRead \/ BlobLost \/ DownloadFails => Redraw
      BY Zenon DEF Download, BlobRead, BlobLost, DownloadFails, Finally
    <3>4. Response \/ BodyRead \/ Cancel \/ Frame \/ UNCHANGED osmVars => UNCHANGED panel
      BY DEF Response, BodyRead, Cancel, Frame, osmVars
    <3>5. ASSUME NEW x, Located(x) \/ SelectSize(x) PROVE Redraw
      BY <3>5, Zenon DEF Located, SelectSize
    <3> QED
      BY <1>2, <2>3, <3>1, <3>2, <3>3, <3>4, <3>5, Zenon DEF OsmNext
  <2>5. Pill'
    <3>1. CASE BlobRead \/ Frame
      BY <3>1 DEF BlobRead, Frame
    <3>2. PressLocate \/ AutoLocate \/ NotLocated => UNCHANGED mapPill
      BY DEF PressLocate, AutoLocate, NotLocated, Locate, drawing
    <3>3. Download \/ Response \/ BodyRead \/ BlobLost \/ DownloadFails => UNCHANGED mapPill
      BY DEF Download, Response, BodyRead, BlobLost, DownloadFails, drawing
    <3>4. Cancel \/ UNCHANGED osmVars => UNCHANGED mapPill
      BY DEF Cancel, osmVars, drawing
    <3>5. ASSUME NEW x, Located(x) \/ SelectSize(x) PROVE UNCHANGED mapPill
      BY <3>5 DEF Located, SelectSize, drawing
    <3>6. UNCHANGED mapPill => Pill'
      BY <2>0
    <3> QED
      BY <1>2, <3>1, <3>2, <3>3, <3>4, <3>5, <3>6, Zenon DEF OsmNext
  <2> QED
    BY <2>1, <2>2, <2>4, <2>5 DEF OsmTypeOK
<1> QED
  BY <1>1, <1>2, PTL DEF OsmSpec

----------------------------------------------------------------------------
\* OsmView.

\* A pinch that is measured has its two fingers down; what it takes to keep
\* that when one of more than two fingers goes up.
PinchInv ==
    /\ IsFiniteSet(pointers)
    /\ pinch # NoPinch => pinch = pointers /\ Cardinality(pointers) = 2

\* A pinch is measured from the two fingers that are down, for any number of
\* fingers in any order of going down and up (app.js 749-788).
THEOREM NoPinchJumpHolds == ViewSpec => []NoPinchJump
<1>1. ViewInit => PinchInv
  BY FS_EmptySet DEF ViewInit, PinchInv
<1>2. ASSUME PinchInv, [ViewNext]_viewVars PROVE PinchInv'
  <2>1. CASE UNCHANGED <<pointers, pinch>>
    BY <1>2, <2>1 DEF PinchInv
  <2>2. CASE Pinch
    BY <1>2, <2>2 DEF Pinch, PinchInv
  <2>3. ASSUME NEW f \in Finger, PointerDown(f) PROVE PinchInv'
    <3>1. IsFiniteSet(pointers')
      BY <1>2, <2>3, FS_AddElement DEF PointerDown, PinchInv
    <3> QED
      BY <2>3, <3>1 DEF PointerDown, PinchInv
  <2>4. ASSUME NEW f \in Finger, PointerUp(f) PROVE PinchInv'
    <3>1. f \in pointers /\ pointers' = pointers \ {f}
      BY <2>4 DEF PointerUp
    <3>2. IsFiniteSet(pointers') /\ Cardinality(pointers') = Cardinality(pointers) - 1
      BY <1>2, <3>1, FS_RemoveElement DEF PinchInv
    <3>3. \/ pinch' = NoPinch
          \/ pinch' = pinch /\ ~(Cardinality(pointers') < 2)
      BY <2>4 DEF PointerUp
    <3>4. pinch' = NoPinch
      BY <1>2, <3>2, <3>3 DEF PinchInv
    <3> QED
      BY <3>2, <3>4 DEF PinchInv
  <2>5. Wheel \/ ZoomButton \/ Fit \/ NewMap \/ Pan \/ UNCHANGED viewVars => UNCHANGED <<pointers, pinch>>
    BY DEF Wheel, ZoomButton, ZoomAnywhere, Fit, NewMap, Pan, viewVars
  <2> QED
    BY <1>2, <2>1, <2>2, <2>3, <2>4, <2>5 DEF ViewNext
<1>3. PinchInv => NoPinchJump
  BY DEF PinchInv, NoPinchJump
<1> QED
  BY <1>1, <1>2, <1>3, PTL DEF ViewSpec

\* The scale is a power of two and divides how far the map is moved, so that
\* no zoom rounds.
Scales == {1, 2, 4, 8, 16, 32, 64}
ExactInv == scale \in Scales /\ tx \in Int /\ tx % scale = 0

\* What a zoom about x does to the view.
Zoomed(x) ==
    /\ scale' \in Scales /\ tx' \in Int /\ tx' % scale' = 0
    /\ (Unit * x - Offset(scale, tx)) * scale' = (Unit * x - Offset(scale', tx')) * scale

\* Dividing by a scale undoes multiplying by it.
LEMMA ScaleDivides ==
    ASSUME NEW s \in Scales, NEW e \in Int
    PROVE  (e * s) \div s = e /\ (e * s) % s = 0
BY DEF Scales

\* Every scale divides the unit of length.
LEMMA UnitDivides ==
    ASSUME NEW s \in Scales
    PROVE  \E c \in Int : Unit = c * s
<1>1. Unit = 64 * 1 /\ Unit = 32 * 2 /\ Unit = 16 * 4 /\ Unit = 8 * 8 /\ Unit = 4 * 16
      /\ Unit = 2 * 32 /\ Unit = 1 * 64
  BY DEF Unit
<1> QED
  BY <1>1 DEF Scales

\* A zoom by a factor goes from one power of two to another and holds x still,
\* also where the clamp cuts it short.
LEMMA ZoomIsExact ==
    ASSUME ExactInv, NEW f \in Factors, NEW x \in Int, ZoomBy(f, x)
    PROVE  Zoomed(x)
<1> DEFINE n == Next2(f)
<1>1. /\ scale' = n
      /\ tx' = Unit * x - ((Unit * x - tx) * n) \div scale
  BY DEF ZoomBy, NewView
<1>2. n \in Scales
  <2>1. f = [num |-> 2, den |-> 1] \/ f = [num |-> 4, den |-> 1] \/ f = [num |-> 1, den |-> 2]
    BY DEF Factors
  <2>2. \/ f.num = 2 /\ f.den = 1
        \/ f.num = 4 /\ f.den = 1
        \/ f.num = 1 /\ f.den = 2
    BY <2>1
  <2> QED
    BY <2>2 DEF Next2, ExactInv, Scales, MaxScale
<1> HIDE DEF n
<1>3. scale \in Scales /\ scale \in Int /\ n \in Int /\ tx \in Int /\ tx % scale = 0
  BY <1>2 DEF ExactInv, Scales
<1>4. PICK q \in Int : tx = q * scale
  BY <1>3 DEF Scales
<1>5. PICK c \in Int : Unit = c * scale
  BY <1>3, UnitDivides
<1>6. PICK k \in Int : Unit = k * n
  BY <1>2, UnitDivides
<1> DEFINE d == c * x - q
<1>7. d \in Int
  OBVIOUS
<1>8. Unit * x - tx = d * scale
  BY <1>3, <1>4, <1>5
<1> HIDE DEF d
<1>9. (d * scale) * n = (d * n) * scale /\ d * n \in Int
  BY <1>3, <1>7
<1>10. tx' = Unit * x - d * n
  BY <1>1, <1>3, <1>8, <1>9, ScaleDivides
<1>11. tx' = (k * x - d) * n /\ k * x - d \in Int
  BY <1>3, <1>6, <1>7, <1>10
<1>12. tx' \in Int /\ tx' % n = 0
  <2>1. tx' \in Int
    BY <1>3, <1>11
  <2> QED
    BY <1>2, <1>11, <2>1, ScaleDivides
<1>13. (d * scale - Unit * PadX * scale) * n = (d * n - Unit * PadX * n) * scale
  BY <1>3, <1>7 DEF Unit, PadX
<1>14. /\ Unit * x - Offset(scale, tx) = d * scale - Unit * PadX * scale
       /\ Unit * x - Offset(n, tx') = d * n - Unit * PadX * n
  <2>1. Unit \in Int /\ PadX \in Int
    BY DEF Unit, PadX
  <2> QED
    BY <1>3, <1>7, <1>8, <1>9, <1>10, <1>12, <2>1 DEF Offset
<1> QED
  BY <1>1, <1>2, <1>12, <1>13, <1>14 DEF Zoomed

\* The point that is to stay put does.
Still ==
    scale' # scale => \/ scale' = 1 /\ tx' = 0
                      \/ \E x \in Anchor :
                             (Unit * x - Offset(scale, tx)) * scale' =
                             (Unit * x - Offset(scale', tx')) * scale

LEMMA ZoomStep ==
    ASSUME ExactInv, NEW f \in Factors, NEW x \in Anchor, ZoomBy(f, x)
    PROVE  ExactInv' /\ Still
<1>1. x \in Int
  BY AnchorAssumption
<1>2. Zoomed(x)
  BY <1>1, ZoomIsExact
<1> QED
  BY <1>2 DEF Zoomed, ExactInv, Still

LEMMA ViewStep ==
    ASSUME ExactInv, [ViewNext]_viewVars
    PROVE  ExactInv' /\ Still
<1>1. CASE UNCHANGED <<scale, tx>>
  BY <1>1 DEF ExactInv, Still
<1>2. CASE \E f \in Factors, x \in Anchor : ZoomBy(f, x)
  BY <1>2, ZoomStep
<1>3. CASE FitView
  <2>1. scale' = 1 /\ tx' = 0
    BY <1>3 DEF FitView, NewView
  <2> QED
    BY <2>1 DEF ExactInv, Still, Scales
<1>4. CASE Pan
  <2>1. PICK e \in Step : scale' = scale /\ tx' = tx + Unit * e
    BY <1>4 DEF Pan, NewView
  <2>2. e \in Int
    BY AnchorAssumption
  <2>3. tx' \in Int /\ tx' % scale = 0
    BY <2>1, <2>2 DEF ExactInv, Scales, Unit
  <2> QED
    BY <2>1, <2>3 DEF ExactInv, Still
<1>5. ASSUME NEW f, PointerDown(f) \/ PointerUp(f) PROVE UNCHANGED <<scale, tx>>
  BY <1>5 DEF PointerDown, PointerUp
<1>6. Wheel \/ ZoomButton => \E f \in Factors, x \in Anchor : ZoomBy(f, x)
  BY DEF Wheel, ZoomButton, ZoomAnywhere
<1>7. Pinch => \/ UNCHANGED <<scale, tx>>
               \/ \E f \in Factors, x \in Anchor : ZoomBy(f, x)
  BY DEF Pinch
<1>8. Fit \/ NewMap => FitView
  BY DEF Fit, NewMap
<1>9. UNCHANGED viewVars => UNCHANGED <<scale, tx>>
  BY DEF viewVars
<1> QED
  BY <1>1, <1>2, <1>3, <1>4, <1>5, <1>6, <1>7, <1>8, <1>9 DEF ViewNext

\* Zooming holds the point under the cursor or between the fingers still, or
\* fits the view, for every set of anchors and any pan, with the clamp and the
\* centring of the drawing (app.js 524-531 and 729).
THEOREM PointStaysPutHolds == ViewSpec => PointStaysPut
<1>1. ViewInit => ExactInv
  BY DEF ViewInit, ExactInv, Scales
<1>2. ExactInv /\ [ViewNext]_viewVars => ExactInv' /\ [Still]_viewVars
  BY ViewStep
<1>3. ViewSpec => [][Still]_viewVars
  BY <1>1, <1>2, PTL DEF ViewSpec
<1> QED
  BY <1>3 DEF PointStaysPut, Still

\* The view keeps its type: the scale stays between 1 and MaxScale whatever
\* factors are applied, and only fingers are down (app.js 729-788).
THEOREM ViewTypeCorrect == ViewSpec => []ViewTypeOK
<1> DEFINE Hand == /\ drawn \in BOOLEAN /\ pointers \subseteq Finger
                   /\ pinch \in (SUBSET Finger) \cup {NoPinch}
<1>1. ViewInit => ExactInv /\ Hand
  <2>1. ViewInit => ExactInv
    BY DEF ViewInit, ExactInv, Scales
  <2>2. ViewInit => Hand
    BY Zenon DEF ViewInit
  <2> QED
    BY <2>1, <2>2
<1>2. ASSUME ExactInv /\ Hand, [ViewNext]_viewVars PROVE (ExactInv /\ Hand)'
  <2>1. ExactInv'
    BY <1>2, ViewStep
  <2>2. CASE UNCHANGED <<drawn, pointers, pinch>>
    BY <1>2, <2>1, <2>2
  <2>3. CASE NewMap
    BY <1>2, <2>1, <2>3 DEF NewMap
  <2>4. CASE Pinch
    BY <1>2, <2>1, <2>4 DEF Pinch
  <2>5. ASSUME NEW f \in Finger, PointerDown(f) \/ PointerUp(f) PROVE (ExactInv /\ Hand)'
    BY <1>2, <2>1, <2>5 DEF PointerDown, PointerUp
  <2>6. Wheel \/ ZoomButton \/ Fit \/ Pan \/ UNCHANGED viewVars => UNCHANGED <<drawn, pointers, pinch>>
    BY Zenon DEF Wheel, ZoomButton, ZoomAnywhere, Fit, Pan, viewVars
  <2> QED
    BY <1>2, <2>2, <2>3, <2>4, <2>5, <2>6 DEF ViewNext
<1>3. ExactInv /\ Hand => ViewTypeOK
  BY DEF ExactInv, Scales, MaxScale, ViewTypeOK
<1> QED
  BY <1>1, <1>2, <1>3, PTL DEF ViewSpec

----------------------------------------------------------------------------
\* Signing.

\* As long as nothing was reset under a running step, a step that runs has
\* what it reads, and where a click focuses no button all that are ready are
\* enabled.
Told ==
    /\ \A a \in running : Ready(a.step)
    /\ \A b \in enabled : Ready(b)
    /\ \A b \in Button :
          Ready(b) => b \in enabled \/ (focuses /\ \E a \in running : a.step = b)

SigningInv == SigningTypeOK /\ (~raced => Told)

\* Ready, button by button.
LEMMA ReadyButtons ==
    /\ Ready("gen") /\ Ready("encode")
    /\ Ready("exportPub") <=> keyPair # NoKey
    /\ Ready("exportPriv") <=> keyPair # NoKey
    /\ Ready("hash") <=> messageBytes
    /\ Ready("sign") <=> keyPair # NoKey /\ messageBytes
    /\ Ready("verify") <=> signature
    /\ Ready("tamper") <=> signature
BY DEF Ready

LEMMA EnableTypes ==
    ASSUME SigningTypeOK, NEW a \in running, NEW more \in SUBSET Button, Enable(a, more)
    PROVE  enabled' \subseteq Button
BY DEF SigningTypeOK, Enable, Button

LEMMA SigningTypes == SigningTypeOK /\ [SigningNext]_signingVars => SigningTypeOK'
<1> SUFFICES ASSUME SigningTypeOK, [SigningNext]_signingVars PROVE SigningTypeOK'
  OBVIOUS
<1>1. ASSUME NEW s \in Awaited, Press(s) PROVE SigningTypeOK'
  <2>1. running' \subseteq [step : Awaited, spec : Algo] /\ enabled' \subseteq Button
    BY <1>1 DEF SigningTypeOK, Press
  <2> QED
    BY <1>1, <2>1 DEF SigningTypeOK, Press
<1>2. ASSUME NEW a \in running, StepEnds(a) PROVE SigningTypeOK'
  <2>1. a \in [step : Awaited, spec : Algo] /\ running' \subseteq running
    BY <1>2 DEF SigningTypeOK, StepEnds
  <2>2. UNCHANGED <<focuses, algo, raced>>
    BY <1>2 DEF StepEnds
  <2>3. CASE Generated(a)
    <3>1. enabled' \subseteq Button
      BY <2>3, EnableTypes DEF Generated, Button, Awaited
    <3> QED
      BY <2>1, <2>2, <2>3, <3>1 DEF SigningTypeOK, Generated
  <2>4. CASE Signed(a)
    <3>1. enabled' \subseteq Button
      BY <2>4, EnableTypes DEF Signed, Button, Awaited
    <3> QED
      BY <2>1, <2>2, <2>4, <3>1 DEF SigningTypeOK, Signed
  <2>5. CASE Shown(a)
    <3>1. enabled' \subseteq Button
      BY <2>5, EnableTypes DEF Shown
    <3> QED
      BY <2>1, <2>2, <2>5, <3>1 DEF SigningTypeOK, Shown
  <2> QED
    BY <1>2, <2>3, <2>4, <2>5 DEF StepEnds
<1>3. Reset => /\ enabled' \subseteq Button /\ raced' \in BOOLEAN
               /\ keyPair' \in Algo \cup {NoKey}
               /\ messageBytes' \in BOOLEAN /\ signature' \in BOOLEAN
  BY DEF SigningTypeOK, Reset
<1>4. CASE PressReset
  BY <1>3, <1>4 DEF SigningTypeOK, PressReset
<1>5. ASSUME NEW a \in Algo, AlgoChange(a) PROVE SigningTypeOK'
  <2>1. CASE Reset
    BY <1>3, <1>5, <2>1 DEF SigningTypeOK, AlgoChange
  <2>2. CASE UNCHANGED <<keyPair, messageBytes, signature, enabled, raced>>
    BY <1>5, <2>2 DEF SigningTypeOK, AlgoChange
  <2> QED
    BY <1>5, <2>1, <2>2 DEF AlgoChange
<1>6. CASE Encode8
  <2>1. enabled' \subseteq Button /\ messageBytes' \in BOOLEAN
    BY <1>6 DEF SigningTypeOK, Encode8, Button, Awaited
  <2> QED
    BY <1>6, <2>1 DEF SigningTypeOK, Encode8
<1>7. CASE UNCHANGED signingVars
  BY <1>7 DEF SigningTypeOK, signingVars
<1> QED
  BY <1>1, <1>2, <1>4, <1>5, <1>6, <1>7 DEF SigningNext

\* A step ends, and the buttons that became ready are among those it enables.
LEMMA EndTold ==
    ASSUME SigningTypeOK, Told, NEW a \in running, NEW more,
           running' = running \ {a}, focuses' = focuses, Enable(a, more),
           \A b \in Button : Ready(b) => Ready(b)',
           \A b \in more : Ready(b)',
           \A b \in Button : Ready(b)' => Ready(b) \/ b \in more
    PROVE  Told'
<1>1. a.step \in Button /\ running \subseteq [step : Awaited, spec : Algo]
  BY DEF SigningTypeOK, Button
<1>2. \A x \in running' : Ready(x.step)'
  BY <1>1 DEF Told, Button
<1>3. \A b \in enabled' : Ready(b)'
  BY <1>1 DEF Told, Enable, SigningTypeOK
<1>4. ASSUME NEW b \in Button, Ready(b)'
      PROVE  b \in enabled' \/ (focuses' /\ \E x \in running' : x.step = b)
  BY <1>1, <1>4 DEF Told, Enable
<1> QED
  BY <1>2, <1>3, <1>4 DEF Told

LEMMA SigningTold ==
    ASSUME SigningInv, SigningNext, ~raced'
    PROVE  Told'
<1>1. raced \in BOOLEAN /\ ~raced /\ Told
  <2>1. ~raced
    BY Zenon DEF SigningNext, Press, StepEnds, AlgoChange, Encode8, PressReset, Reset
  <2> QED
    BY <2>1 DEF SigningInv, SigningTypeOK
<1>2. ASSUME NEW s \in Awaited, Press(s) PROVE Told'
  <2>1. \A b : Ready(b)' <=> Ready(b)
    BY <1>2 DEF Press, Ready
  <2>2. Ready(s) /\ running' = running \cup {[step |-> s, spec |-> algo]}
    BY <1>1, <1>2 DEF Press, Told
  <2>3. \A x \in running' : Ready(x.step)'
    BY <1>1, <2>1, <2>2 DEF Told
  <2>4. \A b \in enabled' : Ready(b)'
    BY <1>1, <1>2, <2>1 DEF Told, Press
  <2>5. ASSUME NEW b \in Button, Ready(b)'
        PROVE  b \in enabled' \/ (focuses' /\ \E x \in running' : x.step = b)
    BY <1>1, <1>2, <2>1, <2>2, <2>5 DEF Told, Press
  <2> QED
    BY <2>3, <2>4, <2>5 DEF Told
<1>3. ASSUME NEW a \in running, StepEnds(a) PROVE Told'
  <2>1. /\ running' = running \ {a} /\ focuses' = focuses
        /\ a \in [step : Awaited, spec : Algo]
    BY <1>3 DEF StepEnds, SigningInv, SigningTypeOK
  <2>2. CASE Generated(a)
    <3> DEFINE more == {"exportPub", "exportPriv"} \cup (IF messageBytes THEN {"sign"} ELSE {})
    <3>1. /\ keyPair' # NoKey /\ UNCHANGED <<messageBytes, signature>> /\ Enable(a, more)
      BY <2>1, <2>2, AlgoAssumption DEF Generated
    <3>2. /\ \A b \in Button : Ready(b) => Ready(b)'
          /\ \A b \in more : Ready(b)'
          /\ \A b \in Button : Ready(b)' => Ready(b) \/ b \in more
      BY <3>1 DEF Ready, Button, Awaited
    <3> HIDE DEF more
    <3> QED
      BY <1>1, <2>1, <3>1, <3>2, EndTold DEF SigningInv
  <2>3. CASE Signed(a)
    <3>1. /\ signature' = TRUE /\ UNCHANGED <<keyPair, messageBytes>>
          /\ Enable(a, {"verify", "tamper"})
      BY <2>3 DEF Signed
    <3>2. /\ \A b \in Button : Ready(b) => Ready(b)'
          /\ \A b \in {"verify", "tamper"} : Ready(b)'
          /\ \A b \in Button : Ready(b)' => Ready(b) \/ b \in {"verify", "tamper"}
      BY <3>1 DEF Ready, Button, Awaited
    <3> QED
      BY <1>1, <2>1, <3>1, <3>2, EndTold DEF SigningInv
  <2>4. CASE Shown(a)
    <3>1. Enable(a, {}) /\ \A b : Ready(b)' <=> Ready(b)
      BY <2>4 DEF Shown, Ready
    <3> QED
      BY <1>1, <2>1, <3>1, EndTold DEF SigningInv
  <2> QED
    BY <1>3, <2>2, <2>3, <2>4 DEF StepEnds
<1>4. CASE Reset /\ UNCHANGED <<focuses, running>>
  <2>1. running = {} /\ running' = {}
    BY <1>4, Zenon DEF Reset
  <2>2. {"gen", "encode"} \subseteq enabled
    BY <1>1, <2>1, ReadyButtons DEF Told, Button, Awaited
  <2>3. enabled' = {"gen", "encode"}
    BY <1>4, <2>2 DEF Reset
  <2>4. \A b \in Button : Ready(b)' <=> b \in {"gen", "encode"}
    BY <1>4 DEF Reset, Ready, Button, Awaited
  <2>5. {"gen", "encode"} \subseteq Button
    BY DEF Button, Awaited
  <2> QED
    BY <2>1, <2>3, <2>4, <2>5 DEF Told
<1>5. ASSUME UNCHANGED <<keyPair, messageBytes, signature, enabled, focuses, running>>
      PROVE  Told'
  BY <1>1, <1>5 DEF Told, Ready
<1>6. CASE Encode8
  <2>1. /\ messageBytes' = TRUE /\ UNCHANGED <<keyPair, signature, running, focuses>>
        /\ enabled' = enabled \cup {"hash"} \cup (IF keyPair # NoKey THEN {"sign"} ELSE {})
    BY <1>6 DEF Encode8
  <2>2. /\ \A b \in Button : Ready(b) => Ready(b)'
        /\ \A b \in Button : Ready(b)' => Ready(b) \/ b \in enabled'
        /\ \A b \in enabled' \ enabled : Ready(b)'
    BY <2>1 DEF Ready, Button, Awaited
  <2>3. enabled \subseteq Button /\ \A x \in running : x.step \in Button
    BY DEF SigningInv, SigningTypeOK, Button
  <2> QED
    BY <1>1, <2>1, <2>2, <2>3 DEF Told
<1>7. PressReset => Reset /\ UNCHANGED <<focuses, running>>
  BY DEF PressReset
<1>8. ASSUME NEW a, AlgoChange(a) PROVE Told'
  BY <1>4, <1>5, <1>8 DEF AlgoChange
<1> QED
  BY <1>2, <1>3, <1>4, <1>6, <1>7, <1>8 DEF SigningInv, SigningNext

\* As long as nothing is reset under a running step, the buttons tell the
\* state, for any number of steps at once and any algorithms (app.js 125-147,
\* 151-222, 280-300).
THEOREM ButtonsTellStateHolds == SigningSpec => []ButtonsTellState
<1>1. SigningInit => SigningInv
  <2> SUFFICES ASSUME SigningInit PROVE SigningInv
    OBVIOUS
  <2>1. SigningTypeOK
    BY DEF SigningInit, SigningTypeOK, Button, Awaited
  <2>2. \A b \in Button : Ready(b) <=> b \in {"gen", "encode"}
    BY DEF SigningInit, Ready, Button, Awaited
  <2>3. Told
    BY <2>2 DEF SigningInit, Told, Button, Awaited
  <2> QED
    BY <2>1, <2>3 DEF SigningInv
<1>2. SigningInv /\ [SigningNext]_signingVars => SigningInv'
  <2>1. SigningInv /\ UNCHANGED signingVars => SigningInv'
    BY DEF SigningInv, SigningTypeOK, Told, Ready, signingVars
  <2> QED
    BY <2>1, SigningTypes, SigningTold DEF SigningInv
<1>3. SigningInv => ButtonsTellState
  BY DEF SigningInv, Told, ButtonsTellState
<1> QED
  BY <1>1, <1>2, <1>3, PTL DEF SigningSpec

\* Every variable of the signing page keeps its type: what a step that ends
\* late stores is a key of some algorithm, and it enables buttons of the page
\* (app.js 125-302).
THEOREM SigningTypeCorrect == SigningSpec => []SigningTypeOK
<1>1. SigningInit => SigningTypeOK
  BY DEF SigningInit, SigningTypeOK, Button, Awaited
<1> QED
  BY <1>1, SigningTypes, PTL DEF SigningSpec

----------------------------------------------------------------------------
\* ShellCache.

\* caches.match() answers with what one of the caches holds, and misses only
\* what none of them holds.
LEMMA MatchIs ==
    ASSUME ShellTypeOK, NEW f
    PROVE  \/ Match(f) = Absent /\ \A g \in ToSet(names) : caches[g][f] = Absent
           \/ Match(f) # Absent /\ \E g \in ToSet(names) : Match(f) = caches[g][f]
<1> DEFINE I == {i \in 1 .. Len(names) : caches[names[i]][f] # Absent}
           hit == SelectInSeq(names, LAMBDA g : caches[g][f] # Absent)
<1>1. I \in SUBSET Nat /\ 0 \notin I
  OBVIOUS
<1>2. hit = IF I # {} THEN Min(I) ELSE 0
  BY DEF SelectInSeq
<1>3. DOMAIN names = 1 .. Len(names)
  BY DEF ShellTypeOK
<1>4. Match(f) = IF hit = 0 THEN Absent ELSE caches[names[hit]][f]
  BY DEF Match
<1>5. CASE I = {}
  <2>1. \A g \in ToSet(names) : caches[g][f] = Absent
    BY <1>3, <1>5 DEF ToSet
  <2> QED
    BY <1>2, <1>4, <1>5, <2>1
<1>6. CASE I # {}
  <2>1. hit \in I
    BY <1>1, <1>2, <1>6, LeastIs
  <2>2. hit # 0 /\ names[hit] \in ToSet(names) /\ caches[names[hit]][f] # Absent
    BY <1>1, <1>3, <2>1 DEF ToSet
  <2> QED
    BY <1>4, <2>2
<1> QED
  BY <1>5, <1>6

\* Every worker keeps files of its page, and the one that explains asks the
\* network first and adds file by file.
LEMMA WorkerKinds ==
    ASSUME NEW w \in Workers
    PROVE  /\ w.shell \subseteq File
           /\ w.explains => w.fresh /\ ~w.atomic
           /\ w.reload => w.shell = File
<1>1. /\ CacheFirst.shell = File /\ ~CacheFirst.explains
      /\ NetworkFirst.shell = File /\ ~NetworkFirst.explains
  BY DEF NetworkFirst, CacheFirst
<1>2. IpfsWorker.shell \subseteq File /\ ~IpfsWorker.explains /\ ~IpfsWorker.reload
  BY DEF IpfsWorker, CacheFirst, File
<1>3. /\ MinimalQtWorker.shell = File
      /\ MinimalQtWorker.fresh /\ ~MinimalQtWorker.atomic
  BY DEF MinimalQtWorker, NetworkFirst, CacheFirst
<1> QED
  BY <1>1, <1>2, <1>3 DEF Workers, CertificateWorker, PasswordWorker, QrScannerWorker,
     MinimalWorker, OsmWorker, WasmWorker, QtCounterWorker

\* What is asked for, kept, or about to be kept is typed.
LEMMA AnswerTypes ==
    /\ \A v \in Version : /\ TheFile(v) \in Answer
                           /\ TheFile(v).kind = "file" /\ TheFile(v).version = v
    /\ \A k \in Outcomes : Other(k) \in Answer /\ Other(k).kind = k
    /\ Absent \in Answer /\ Absent.kind = "none" /\ Nothing \in [File -> Answer]
    /\ Answers \subseteq Answer
<1>1. \A v \in Version : /\ TheFile(v) \in Answer
                         /\ TheFile(v).kind = "file" /\ TheFile(v).version = v
  BY VersionAssumption DEF Version, TheFile, Answer, Outcomes
<1>2. \A k \in Outcomes : Other(k) \in Answer /\ Other(k).kind = k
  BY VersionAssumption DEF Other, Answer
<1>3. Absent \in Answer /\ Absent.kind = "none"
  BY <1>2 DEF Absent, Outcomes
<1>4. Answers \subseteq Answer
  BY <1>1, <1>2 DEF Answers, Outcomes
<1> QED
  BY <1>1, <1>2, <1>3, <1>4 DEF Nothing

\* The caches and their order alone.
LEMMA StoresAre ==
    ASSUME ShellTypeOK
    PROVE  caches \in [Version -> [File -> Answer]] /\ names \in Seq(Version)
BY DEF ShellTypeOK

\* What a request gets, and what the HTTP cache makes of it.
LEMMA RequestIs ==
    ASSUME ShellTypeOK, NEW f \in File, NEW answer \in Answers,
           Requested(f, answer) \/ ShellRequested(f, answer)
    PROVE  /\ http' \in [File -> Answer]
           /\ \A g \in File : http'[g] \in {http[g], TheFile(version), Absent}
           /\ answer \in {http[f], TheFile(version), Other("http error")}
<1>1. TheFile(version) \in Answer /\ Absent \in Answer
  BY AnswerTypes DEF ShellTypeOK
<1>2. CASE FromServer(f, answer)
  BY <1>1, <1>2 DEF FromServer, ShellTypeOK
<1>3. CASE FromHttpCache(f, answer)
  BY <1>3 DEF FromHttpCache, ShellTypeOK
<1>4. CASE HttpError(answer)
  BY <1>4 DEF HttpError, ShellTypeOK
<1> QED
  BY <1>2, <1>3, <1>4 DEF Requested, ShellRequested

\* The generations in their order: a worker that installs is newer than the
\* one in control, and no write under way is for a newer one.
ShellOrder ==
    /\ active <= generation /\ generation <= version /\ installing <= generation
    /\ installing # 0 => active < installing
    /\ \A p \in puts : p.cache <= active

LEMMA StepOrder ==
    ASSUME ShellTypeOK, ShellOrder, [ShellNext]_shellVars
    PROVE  ShellOrder'
<1>0. /\ active \in Nat /\ installing \in Nat /\ generation \in Nat /\ version \in Nat
      /\ \A p \in puts : p.cache \in Nat
  BY DEF ShellTypeOK, Version
<1>1. CASE UNCHANGED <<version, generation, active, installing>> /\ puts' \subseteq puts
  BY <1>1 DEF ShellOrder
<1>2. CASE Deploy
  BY <1>0, <1>2 DEF ShellOrder, Deploy, install
<1>3. CASE InstallBegins
  BY <1>0, <1>3 DEF ShellOrder, InstallBegins, server
<1>4. CASE Activate
  BY <1>0, <1>4 DEF ShellOrder, Activate, server
<1>5. ASSUME NEW f \in File, Fetch(f)
      PROVE  ShellOrder'
  <2>1. UNCHANGED <<version, generation, active, installing>>
    BY <1>5 DEF Fetch, server, install
  <2>2. \A p \in puts' : p \in puts \/ p.cache = active
    <3>1. \A answer : Refresh(f, answer) => \A p \in puts' : p \in puts \/ p.cache = active
      BY DEF Refresh
    <3> QED
      BY <1>5, <3>1 DEF Fetch, Uncontrolled, AskNetwork, FallBack, CacheThenNetwork
  <2> QED
    BY <1>0, <2>1, <2>2 DEF ShellOrder
<1>6. \A f : FileAdded(f) \/ FileFails(f) =>
          UNCHANGED <<version, generation, active, installing, puts>>
  BY DEF FileAdded, FileFails, server
<1>7. \A p : PutEnds(p) => /\ UNCHANGED <<version, generation, active, installing>>
                           /\ puts' \subseteq puts
  BY DEF PutEnds, server, install
<1>8. Connection \/ SiblingActivates \/ Load \/ UNCHANGED shellVars =>
          UNCHANGED <<version, generation, active, installing, puts>>
  BY DEF Connection, SiblingActivates, Load, shellVars, server, install
<1> QED
  BY <1>1, <1>2, <1>3, <1>4, <1>5, <1>6, <1>7, <1>8 DEF ShellNext

\* What a page can get: a file or what stands for one.
LEMMA FetchGets ==
    ASSUME ShellTypeOK, NEW f \in File, Fetch(f)
    PROVE  /\ \E answer \in Answer : Gets(f, answer)
           /\ \A p \in puts' : \/ p \in puts
                               \/ /\ p \in [cache : Version, file : File, what : Answer]
                                  /\ p.what.kind = "file"
<1>0. /\ version \in Version /\ active \in 0 .. MaxVersion
      /\ \A g \in ToSet(names) : caches[g][f] \in Answer
  BY DEF ShellTypeOK, ToSet
<1>1. Match(f) \in Answer
  BY <1>0, MatchIs, AnswerTypes
<1>2. \A answer \in Answers : answer \in Answer
  BY AnswerTypes
<1>3. \A k \in {"undefined", "explanation", "network error", "offline"} : Other(k) \in Answer
  BY AnswerTypes DEF Outcomes
<1>4. Uncontrolled(f) => (\E answer \in Answer : Gets(f, answer)) /\ puts' = puts
  BY <1>2, <1>3 DEF Uncontrolled
<1>5. CacheThenNetwork(f) => (\E answer \in Answer : Gets(f, answer)) /\ puts' = puts
  BY <1>1, <1>2, <1>3 DEF CacheThenNetwork
<1>6. FallBack(f) => (\E answer \in Answer : Gets(f, answer)) /\ puts' = puts
  BY <1>1, <1>3 DEF FallBack, FromCache, FromCacheOrExplain
<1>7. ASSUME active # 0, AskNetwork(f)
      PROVE  /\ \E answer \in Answer : Gets(f, answer)
             /\ \A p \in puts' : \/ p \in puts
                                 \/ /\ p \in [cache : Version, file : File, what : Answer]
                                    /\ p.what.kind = "file"
  <2>1. PICK answer \in Answers : Gets(f, answer) /\ Refresh(f, answer)
    BY <1>7 DEF AskNetwork
  <2>2. active \in Version
    BY <1>0, <1>7, VersionAssumption DEF Version
  <2> DEFINE q == [cache |-> active, file |-> f, what |-> answer]
  <2>3. /\ q \in [cache : Version, file : File, what : Answer]
        /\ q.what = answer
    BY <1>2, <2>2
  <2>4. \/ puts' = puts
        \/ answer.kind = "file" /\ puts' = puts \cup {q}
    BY <2>1 DEF Refresh
  <2> QED
    BY <1>2, <2>1, <2>3, <2>4
<1> QED
  BY <1>4, <1>5, <1>6, <1>7 DEF Fetch

\* What addAll has of a file, once it arrived, and what that makes of a cache.
LEMMA FileAddedIs ==
    ASSUME ShellTypeOK, NEW f \in File, FileAdded(f)
    PROVE  \E answer \in Answers :
               /\ ShellRequested(f, answer)
               /\ \A g \in File : added'[g] = IF g = f THEN answer ELSE added[g]
               /\ added' \in [File -> Answer] /\ caches' \in [Version -> [File -> Answer]]
               /\ \A h \in Version, g \in File :
                     \/ caches'[h][g] = caches[h][g]
                     \/ h = installing /\ caches'[h][g] = added'[g] /\ added'[g] # Absent
               /\ ~worker.atomic /\ installing \in ToSet(names) =>
                     \A g \in File : caches'[installing][g] = IF g = f THEN answer
                                                              ELSE caches[installing][g]
<1>1. PICK answer \in Answers :
          ShellRequested(f, answer) /\ added' = [added EXCEPT ![f] = answer]
  BY DEF FileAdded
<1>2. /\ added \in [File -> Answer] /\ caches \in [Version -> [File -> Answer]]
      /\ answer \in Answer /\ answer # Absent
  <2>1. answer.kind # "none"
    BY AnswerTypes DEF Answers, Outcomes
  <2> QED
    BY <2>1, AnswerTypes DEF ShellTypeOK
<1>3. /\ \A g \in File : added'[g] = IF g = f THEN answer ELSE added[g]
      /\ added' \in [File -> Answer]
  BY <1>1, <1>2
<1>4. installing \in ToSet(names) => installing \in Version
  BY DEF ShellTypeOK, ToSet
<1> DEFINE Result ==
             /\ caches' \in [Version -> [File -> Answer]]
             /\ \A h \in Version, g \in File :
                   \/ caches'[h][g] = caches[h][g]
                   \/ h = installing /\ caches'[h][g] = added'[g] /\ added'[g] # Absent
             /\ ~worker.atomic /\ installing \in ToSet(names) =>
                   \A g \in File : caches'[installing][g] = IF g = f THEN answer
                                                            ELSE caches[installing][g]
<1>5. ASSUME caches' = caches, ~(~worker.atomic /\ installing \in ToSet(names))
      PROVE  Result
  BY <1>2, <1>5
<1>6. ASSUME installing \in ToSet(names), caches' = [caches EXCEPT ![installing][f] = added'[f]]
      PROVE  Result
  <2>1. added'[f] = answer
    BY <1>3
  <2> QED
    BY <1>2, <1>4, <1>6, <2>1
<1>7. ASSUME installing \in ToSet(names), worker.atomic,
             caches' = [caches EXCEPT ![installing] =
                            [g \in File |-> IF added'[g] # Absent THEN added'[g] ELSE @[g]]]
      PROVE  Result
  BY <1>2, <1>3, <1>4, <1>7
<1> HIDE DEF Result
<1>8. Result
  BY <1>5, <1>6, <1>7 DEF FileAdded
<1> QED
  BY <1>1, <1>3, <1>8 DEF Result

LEMMA StepShellTypes ==
    ASSUME ShellTypeOK, ShellOrder, [ShellNext]_shellVars
    PROVE  ShellTypeOK'
<1>1. CASE UNCHANGED shellVars
  BY <1>1 DEF ShellTypeOK, shellVars, server, install, storage, history
<1>2. CASE Deploy
  <2>1. version' \in Version /\ generation' \in Version
    BY <1>2, VersionAssumption DEF Deploy, ShellTypeOK, ShellOrder, Version
  <2>2. born' \in [Version -> 0 .. MaxVersion]
    BY <1>2, <2>1, VersionAssumption DEF Deploy, ShellTypeOK, Version
  <2> QED
    BY <1>2, <2>1, <2>2 DEF Deploy, ShellTypeOK, install, storage
<1>3. CASE Connection
  BY <1>3 DEF Connection, ShellTypeOK, server, install, storage, history
<1>4. CASE InstallBegins
  <2>1. worker.shell \subseteq File /\ Nothing \in [File -> Answer]
    BY WorkerKinds, AnswerTypes DEF ShellTypeOK
  <2>2. names' \in Seq(Version)
    BY <1>4 DEF InstallBegins, Opened, ShellTypeOK
  <2>3. installing' \in 0 .. MaxVersion
    BY <1>4, VersionAssumption DEF InstallBegins, ShellTypeOK, Version
  <2> QED
    BY <1>4, <2>1, <2>2, <2>3 DEF InstallBegins, ShellTypeOK, server, history
<1>5. ASSUME NEW f \in File, FileAdded(f) PROVE ShellTypeOK'
  <2>1. PICK answer \in Answers :
            /\ ShellRequested(f, answer)
            /\ added' \in [File -> Answer] /\ caches' \in [Version -> [File -> Answer]]
    BY <1>5, FileAddedIs
  <2>2. http' \in [File -> Answer]
    BY <2>1, RequestIs
  <2> QED
    BY <1>5, <2>1, <2>2 DEF FileAdded, ShellTypeOK, server, history
<1>6. ASSUME NEW f \in File, FileFails(f) PROVE ShellTypeOK'
  <2>1. installing \in Version
    BY <1>6, VersionAssumption DEF FileFails, ShellTypeOK, Version
  <2> QED
    BY <1>6, <2>1 DEF FileFails, ShellTypeOK, server, storage
<1>7. ASSUME NEW g, Sweep(g)
      PROVE  names' \in Seq(Version) /\ caches' \in [Version -> [File -> Answer]]
  <2>1. g \in ToSet(names) => g \in Version
    BY DEF ShellTypeOK, ToSet
  <2> QED
    BY <1>7, <2>1, AnswerTypes DEF Sweep, ShellTypeOK
<1>8. CASE Activate
  <2>1. names' \in Seq(Version) /\ caches' \in [Version -> [File -> Answer]]
    BY <1>7, <1>8 DEF Activate, storage, ShellTypeOK
  <2>2. /\ active' \in 0 .. MaxVersion /\ installing' \in 0 .. MaxVersion
        /\ added' \in [File -> Answer]
    BY <1>8, AnswerTypes, VersionAssumption DEF Activate, ShellTypeOK
  <2> QED
    BY <1>8, <2>1, <2>2 DEF Activate, ShellTypeOK, server, history
<1>9. CASE SiblingActivates
  <2>1. names' \in Seq(Version) /\ caches' \in [Version -> [File -> Answer]]
    BY <1>7, <1>9 DEF SiblingActivates
  <2> QED
    BY <1>9, <2>1 DEF SiblingActivates, ShellTypeOK, server, install, history
<1>10. CASE Load
  <2>1. page' \in [File -> Answer]
    BY <1>10, AnswerTypes DEF Load, Outcomes
  <2> QED
    BY <1>10, <2>1 DEF Load, ShellTypeOK, server, install, storage, history
<1>11. ASSUME NEW f \in File, Fetch(f) PROVE ShellTypeOK'
  <2>1. page' \in [File -> Answer]
    BY <1>11, FetchGets DEF Gets, ShellTypeOK
  <2>2. puts' \subseteq [cache : Version, file : File, what : Answer]
    BY <1>11, FetchGets DEF ShellTypeOK
  <2>3. http' \in [File -> Answer]
    <3>1. http' = http \/ \E answer \in Answers : Requested(f, answer)
      BY <1>11 DEF Fetch, Uncontrolled, AskNetwork, FallBack, CacheThenNetwork
    <3> QED
      BY <3>1, RequestIs DEF ShellTypeOK
  <2> QED
    BY <1>11, <2>1, <2>2, <2>3 DEF Fetch, ShellTypeOK, server, install, storage, history
<1>12. ASSUME NEW p \in puts, PutEnds(p) PROVE ShellTypeOK'
  <2>1. p.cache \in Version /\ p.file \in File /\ p.what \in Answer
    BY DEF ShellTypeOK
  <2>2. names' \in Seq(Version)
    BY <1>12, <2>1 DEF PutEnds, Opened, ShellTypeOK
  <2>3. [caches EXCEPT ![p.cache][p.file] = p.what] \in [Version -> [File -> Answer]]
    BY <2>1 DEF ShellTypeOK
  <2>4. caches' \in [Version -> [File -> Answer]]
    BY <1>12, <2>3 DEF PutEnds, ShellTypeOK
  <2> QED
    BY <1>12, <2>2, <2>4 DEF PutEnds, ShellTypeOK, server, install, history
<1> QED
  BY <1>1, <1>2, <1>3, <1>4, <1>5, <1>6, <1>8, <1>9, <1>10, <1>11, <1>12 DEF ShellNext

\* What a cache may hold of a file.
Kept(a) == a = Absent \/ a.kind = "file"

\* What is fetched, kept or about to be kept is a file, never an error.
ShellFiles ==
    /\ \A g \in Version, f \in File : Kept(caches[g][f])
    /\ \A f \in File : Kept(added[f]) /\ Kept(http[f])
    /\ \A p \in puts : p.what.kind = "file"

\* The HTTP cache holds files alone.
LEMMA RequestFiles ==
    ASSUME ShellTypeOK, ShellFiles, NEW f \in File, NEW answer \in Answers,
           Requested(f, answer) \/ ShellRequested(f, answer)
    PROVE  /\ \A g \in File : Kept(http'[g])
           /\ ShellRequested(f, answer) => Kept(answer)
<1>1. Kept(Absent) /\ Kept(TheFile(version)) /\ \A g \in File : Kept(http[g])
  BY AnswerTypes DEF Kept, ShellTypeOK, ShellFiles
<1>2. \A g \in File : Kept(http'[g])
  BY <1>1, RequestIs
<1>3. ShellRequested(f, answer) => answer \in {http[f], TheFile(version)}
  BY DEF ShellRequested, FromServer, FromHttpCache
<1> QED
  BY <1>1, <1>2, <1>3

LEMMA StepFiles ==
    ASSUME ShellTypeOK, ShellFiles, [ShellNext]_shellVars
    PROVE  ShellFiles'
<1>0. \A f \in File : Kept(Nothing[f])
  BY DEF Nothing, Kept
<1>1. CASE UNCHANGED <<caches, added, puts, http>>
  BY <1>1 DEF ShellFiles
<1>2. CASE InstallBegins
  <2>1. added' = Nothing /\ UNCHANGED <<caches, puts, http>>
    BY <1>2 DEF InstallBegins
  <2> QED
    BY <1>0, <2>1 DEF ShellFiles
<1>3. ASSUME NEW f \in File, FileAdded(f) PROVE ShellFiles'
  <2>1. PICK answer \in Answers :
            /\ ShellRequested(f, answer)
            /\ \A g \in File : added'[g] = IF g = f THEN answer ELSE added[g]
            /\ \A h \in Version, g \in File : \/ caches'[h][g] = caches[h][g]
                                              \/ caches'[h][g] = added'[g]
    BY <1>3, FileAddedIs
  <2>2. \A g \in File : Kept(added'[g]) /\ Kept(http'[g])
    BY <2>1, RequestFiles DEF ShellFiles
  <2>3. \A h \in Version, g \in File : Kept(caches'[h][g])
    BY <2>1, <2>2 DEF ShellFiles
  <2>4. puts' = puts
    BY <1>3 DEF FileAdded
  <2> QED
    BY <2>2, <2>3, <2>4 DEF ShellFiles
<1>4. ASSUME NEW g, Sweep(g) PROVE \A h \in Version, f \in File : Kept(caches'[h][f])
  <2>1. \A h \in Version : caches'[h] = caches[h] \/ caches'[h] = Nothing
    BY <1>4 DEF Sweep, ShellTypeOK
  <2> QED
    BY <1>0, <2>1 DEF ShellFiles
<1>5. CASE Activate
  <2>1. added' = Nothing /\ UNCHANGED <<puts, http>>
    BY <1>5 DEF Activate
  <2>2. (\E g : Sweep(g)) \/ caches' = caches
    BY <1>5 DEF Activate, storage
  <2> QED
    BY <1>0, <1>4, <2>1, <2>2 DEF ShellFiles
<1>6. CASE SiblingActivates
  <2>1. UNCHANGED <<added, puts, http>>
    BY <1>6 DEF SiblingActivates, install
  <2> QED
    BY <1>4, <1>6, <2>1 DEF ShellFiles, SiblingActivates
<1>7. ASSUME NEW f \in File, Fetch(f) PROVE ShellFiles'
  <2>1. \A p \in puts' : p.what.kind = "file"
    BY <1>7, FetchGets DEF ShellFiles
  <2>2. UNCHANGED <<caches, added>>
    BY <1>7 DEF Fetch, storage, install
  <2>3. \A g \in File : Kept(http'[g])
    <3>1. http' = http \/ \E answer \in Answers : Requested(f, answer)
      BY <1>7 DEF Fetch, Uncontrolled, AskNetwork, FallBack, CacheThenNetwork
    <3> QED
      BY <3>1, RequestFiles DEF ShellFiles
  <2> QED
    BY <2>1, <2>2, <2>3 DEF ShellFiles
<1>8. ASSUME NEW p \in puts, PutEnds(p) PROVE ShellFiles'
  <2>1. p.cache \in Version /\ p.file \in File /\ Kept(p.what)
    BY DEF ShellTypeOK, ShellFiles, Kept
  <2>2. \A g \in Version, f \in File : caches'[g][f] = caches[g][f] \/ caches'[g][f] = p.what
    BY <1>8, <2>1, StoresAre DEF PutEnds
  <2>3. UNCHANGED <<added, http>> /\ puts' \subseteq puts
    BY <1>8 DEF PutEnds, install
  <2> QED
    BY <2>1, <2>2, <2>3 DEF ShellFiles
<1>9. \A f : FileFails(f) => UNCHANGED <<caches, added, puts, http>>
  BY DEF FileFails, storage
<1>10. Deploy \/ Connection \/ Load \/ UNCHANGED shellVars => UNCHANGED <<caches, added, puts, http>>
  BY DEF Deploy, Connection, Load, shellVars, install, storage
<1> QED
  BY <1>1, <1>2, <1>3, <1>5, <1>6, <1>7, <1>8, <1>9, <1>10 DEF ShellNext

\* No cache is named after generation 0, which stands for none.
LEMMA Named ==
    ASSUME NEW s \in Seq(Version), NEW g \in ToSet(s)
    PROVE  g \in Version /\ g # 0
<1>1. g \in Version
  BY DEF ToSet
<1> QED
  BY <1>1, VersionAssumption DEF Version

\* A worker that explains answers with a file or an explanation; what it has
\* added stays in its cache.
LEMMA StepRules ==
    ASSUME ShellTypeOK, ShellOrder, ShellFiles, WorkerRules, [ShellNext]_shellVars
    PROVE  WorkerRules'
<1> DEFINE Bad == {"undefined", "network error"}
           Answered == \A f \in File : page[f].kind \notin Bad
           Added == \A f \in File : added[f] # Absent /\ installing \in ToSet(names) =>
                                        caches[installing][f] = added[f]
<1> SUFFICES ASSUME worker'.explains PROVE Answered' /\ Added'
  BY DEF WorkerRules
<1>0. worker' = worker
  <2>1. \A f : FileAdded(f) \/ FileFails(f) \/ Fetch(f) \/ PutEnds(f) => worker' = worker
    BY DEF FileAdded, FileFails, Fetch, PutEnds, server
  <2> QED
    BY <2>1 DEF ShellNext, Deploy, Connection, InstallBegins, Activate, SiblingActivates, Load,
       shellVars, server
<1>1. worker.fresh /\ ~worker.atomic /\ worker.explains
  BY <1>0, WorkerKinds DEF ShellTypeOK
<1>2. Answered /\ Added
  BY <1>1 DEF WorkerRules
<1>3. Answered'
  <2>1. CASE page' = page
    BY <1>2, <2>1
  <2>2. CASE Load
    <3>1. \A f \in File : page'[f].kind = "pending"
      BY <2>2, AnswerTypes DEF Load, Outcomes
    <3> QED
      BY <3>1
  <2>3. ASSUME NEW f \in File, Fetch(f) PROVE Answered'
    <3>1. ASSUME NEW answer \in Answers PROVE answer.kind \notin Bad
      BY AnswerTypes DEF Answers, Outcomes, ShellTypeOK
    <3>2. FromCacheOrExplain(f).kind \notin Bad
      <4>1. Match(f) = Absent \/ Match(f).kind = "file"
        BY MatchIs DEF ShellFiles, Kept, ShellTypeOK, ToSet
      <4>2. Other("explanation").kind = "explanation"
        BY AnswerTypes DEF Outcomes
      <4> QED
        BY <4>1, <4>2 DEF FromCacheOrExplain
    <3>3. Other("offline").kind = "offline"
      BY AnswerTypes DEF Outcomes
    <3>4. \E answer : Gets(f, answer) /\ answer.kind \notin Bad
      BY <1>1, <2>3, <3>1, <3>2, <3>3 DEF Fetch, Uncontrolled, AskNetwork, FallBack
    <3> QED
      BY <1>2, <3>4 DEF Gets, ShellTypeOK
  <2>4. Deploy \/ Connection \/ InstallBegins \/ Activate \/ SiblingActivates
            \/ UNCHANGED shellVars => page' = page
    BY DEF Deploy, Connection, InstallBegins, Activate, SiblingActivates, shellVars
  <2>5. \A f : FileAdded(f) \/ FileFails(f) \/ PutEnds(f) => page' = page
    BY DEF FileAdded, FileFails, PutEnds
  <2> QED
    BY <2>1, <2>2, <2>3, <2>4, <2>5 DEF ShellNext
<1>4. Added'
  <2>1. CASE UNCHANGED <<added, installing, names, caches>>
    BY <1>2, <2>1
  <2>2. CASE added' = Nothing
    BY <2>2 DEF Nothing
  <2>3. CASE names' = <<>>
    BY <2>3 DEF ToSet
  <2>4. ASSUME NEW f \in File, FileAdded(f) PROVE Added'
    <3>1. UNCHANGED <<installing, names>>
      BY <2>4 DEF FileAdded
    <3>2. PICK answer \in Answers :
              /\ \A g \in File : added'[g] = IF g = f THEN answer ELSE added[g]
              /\ installing \in ToSet(names) =>
                    \A g \in File : caches'[installing][g] = IF g = f THEN answer
                                                             ELSE caches[installing][g]
      BY <1>1, <2>4, FileAddedIs
    <3> QED
      BY <1>2, <3>1, <3>2
  <2>5. ASSUME NEW p \in puts, PutEnds(p) PROVE Added'
    <3>1. p.cache \in Version /\ p.file \in File /\ p.cache <= active
      BY DEF ShellTypeOK, ShellOrder
    <3>2. UNCHANGED <<added, installing>>
      BY <2>5 DEF PutEnds, install
    <3>3. SUFFICES ASSUME NEW f \in File, added[f] # Absent, installing \in ToSet(names')
                   PROVE  caches'[installing][f] = added[f]
      BY <3>2
    <3>4. names' \in Seq(Version) /\ installing # 0
      <4>1. names' \in Seq(Version)
        BY <2>5, <3>1 DEF PutEnds, Opened, ShellTypeOK
      <4> QED
        BY <3>3, <4>1, Named
    <3>5. installing # p.cache
      BY <3>1, <3>4 DEF ShellOrder, ShellTypeOK, Version
    <3>6. installing \in ToSet(names) /\ installing \in Version
      <4>1. names' = names \/ names' = Append(names, p.cache)
        BY <2>5 DEF PutEnds, Opened
      <4>2. installing \in ToSet(names)
        BY <3>1, <3>3, <3>5, <4>1, StoresAre DEF ToSet
      <4> QED
        BY <4>2 DEF ToSet, ShellTypeOK
    <3>7. caches'[installing] = caches[installing]
      BY <2>5, <3>1, <3>5, <3>6 DEF PutEnds, ShellTypeOK
    <3> QED
      BY <1>2, <3>3, <3>6, <3>7
  <2>6. Deploy \/ Connection \/ Load \/ UNCHANGED shellVars =>
            UNCHANGED <<added, installing, names, caches>>
    BY DEF Deploy, Connection, Load, shellVars, install, storage
  <2>7. \A f : FileFails(f) \/ Fetch(f) => UNCHANGED <<added, installing, names, caches>>
    BY DEF FileFails, Fetch, install, storage
  <2>8. InstallBegins \/ Activate => added' = Nothing
    BY DEF InstallBegins, Activate
  <2>9. SiblingActivates => names' = <<>>
    <3>1. 0 \notin ToSet(names)
      BY Named DEF ShellTypeOK
    <3> QED
      BY <3>1 DEF SiblingActivates, Sweep
  <2> QED
    BY <2>1, <2>2, <2>3, <2>4, <2>5, <2>6, <2>7, <2>8, <2>9 DEF ShellNext
<1> QED
  BY <1>3, <1>4

\* Not older than the deployment that brought generation g.
Recent(a, g) == a.kind = "file" => a.version >= born[g]

\* When the install of the worker in control missed no file, the HTTP cache
\* has what came with that generation or later, and so has every write under
\* way.  Nothing is kept for a generation that is still to come.
ShellAge ==
    /\ \A g \in Version : born[g] <= version
    /\ worker.reload =>
          /\ \A g \in Version, f \in File :
                /\ g \notin spoiled => Recent(caches[g][f], g)
                /\ g > generation => caches[g][f].kind # "file"
          /\ \A p \in puts : p.cache \notin spoiled => Recent(p.what, p.cache)
          /\ active # 0 /\ active \notin spoiled => \A f \in File : Recent(http[f], active)
          /\ installing # 0 =>
                /\ \A f \in File : Recent(added[f], installing)
                /\ installing \notin spoiled =>
                      \A f \in File \ toAdd : Recent(http[f], installing)

\* What a step of no concern leaves alone.
aged == <<worker, version, generation, active, installing, toAdd, added, caches, puts, http,
          born, spoiled>>

LEMMA StepAge ==
    ASSUME ShellTypeOK, ShellOrder, ShellFiles, ShellAge, [ShellNext]_shellVars
    PROVE  ShellAge'
<1>0. /\ version \in Version /\ generation \in Version /\ worker \in Workers
      /\ active \in 0 .. MaxVersion /\ installing \in 0 .. MaxVersion
      /\ \A g \in Version : g \in Nat /\ g # 0 /\ born[g] \in Nat
      /\ \A n \in 0 .. MaxVersion : n \in Nat /\ (n # 0 => n \in Version)
  BY VersionAssumption DEF ShellTypeOK, Version
<1>1. CASE UNCHANGED aged
  BY <1>1 DEF ShellAge, Recent, aged
<1>2. CASE Deploy
  <2>1. /\ version' = version + 1 /\ generation' >= generation
        /\ UNCHANGED <<worker, active, installing, toAdd, added, caches, puts, http, spoiled>>
    BY <1>0, <1>2 DEF Deploy, install, storage
  <2>2. /\ \A g \in Version : g <= generation => born'[g] = born[g]
        /\ \A g \in Version : born'[g] \in {born[g], version'}
    BY <1>0, <1>2 DEF Deploy, ShellTypeOK
  <2>3. \A g \in Version : born'[g] <= version'
    BY <1>0, <2>1, <2>2 DEF ShellAge
  <2>4. generation' \in Nat /\ version' \in Nat
    BY <1>0, <1>2, <2>1 DEF Deploy
  <2>5. \A p \in puts : p.cache \in Version /\ p.cache <= generation
    BY <1>0 DEF ShellOrder, ShellTypeOK
  <2> QED
    BY <1>0, <2>1, <2>2, <2>3, <2>4, <2>5 DEF ShellAge, ShellOrder, Recent
<1>3. CASE InstallBegins
  <2>1. /\ UNCHANGED <<worker, version, generation, active, caches, puts, http, born, spoiled>>
        /\ added' = Nothing /\ toAdd' = worker.shell
    BY <1>3 DEF InstallBegins, server, history
  <2>2. worker.reload => File \ toAdd' = {}
    BY <1>0, <2>1, WorkerKinds
  <2>3. \A f \in File : added'[f].kind # "file"
    BY <2>1, AnswerTypes DEF Nothing
  <2> QED
    BY <2>1, <2>2, <2>3 DEF ShellAge, Recent
<1>4. ASSUME NEW f \in File, FileAdded(f) PROVE ShellAge'
  <2>1. /\ UNCHANGED <<worker, version, generation, active, installing, puts, born, spoiled>>
        /\ toAdd' = toAdd \ {f} /\ installing # 0
    BY <1>4 DEF FileAdded, server, history
  <2>2. PICK answer \in Answers :
            /\ ShellRequested(f, answer)
            /\ \A g \in File : added'[g] = IF g = f THEN answer ELSE added[g]
            /\ \A h \in Version, g \in File :
                  \/ caches'[h][g] = caches[h][g]
                  \/ h = installing /\ caches'[h][g] = added'[g] /\ added'[g] # Absent
    BY <1>4, FileAddedIs
  <2>3. SUFFICES ASSUME worker.reload PROVE ShellAge'
    BY <2>1 DEF ShellAge
  <2>4. answer = TheFile(version) /\ \E stored \in {answer, Absent} : http' = [http EXCEPT ![f] = stored]
    BY <2>2, <2>3 DEF ShellRequested, FromServer
  <2>5. \A g \in Version : Recent(answer, g) /\ Recent(Absent, g)
    BY <1>0, <2>4, AnswerTypes DEF ShellAge, Recent
  <2>6. \A g \in File : http'[g] = IF g = f THEN http'[f] ELSE http[g]
    BY <2>4 DEF ShellTypeOK
  <2>7. http'[f] \in {answer, Absent}
    BY <2>4 DEF ShellTypeOK
  <2>8. \A g \in Version : Recent(http'[f], g)
    BY <2>5, <2>7
  <2>9. installing \in Version /\ active <= generation /\ installing <= generation
    BY <1>0, <2>1 DEF ShellOrder
  <2>10. \A g \in File : Recent(added'[g], installing)
    BY <2>1, <2>2, <2>3, <2>5, <2>9 DEF ShellAge
  <2>11. \A h \in Version, g \in File :
            /\ h \notin spoiled => Recent(caches'[h][g], h)
            /\ h > generation => caches'[h][g].kind # "file"
    BY <1>0, <2>2, <2>3, <2>9, <2>10 DEF ShellAge
  <2>12. active # 0 /\ active \notin spoiled => \A g \in File : Recent(http'[g], active)
    BY <1>0, <2>3, <2>6, <2>8 DEF ShellAge
  <2>13. installing \notin spoiled => \A g \in File \ toAdd' : Recent(http'[g], installing)
    BY <2>1, <2>3, <2>6, <2>8, <2>9 DEF ShellAge
  <2>14. /\ \A g \in Version : born[g] <= version
         /\ \A p \in puts : p.cache \notin spoiled => Recent(p.what, p.cache)
    BY <2>3 DEF ShellAge
  <2> QED
    BY <2>1, <2>10, <2>11, <2>12, <2>13, <2>14 DEF ShellAge, Recent
<1>5. ASSUME NEW f \in File, FileFails(f) PROVE ShellAge'
  <2>1. /\ UNCHANGED <<worker, version, generation, active, installing, added, caches, puts, http,
                       born>>
        /\ spoiled' = spoiled \cup {installing}
    BY <1>5 DEF FileFails, server, storage
  <2> QED
    BY <2>1 DEF ShellAge, Recent
<1>6. ASSUME NEW h, Sweep(h)
      PROVE  \A g \in Version, f \in File : \/ caches'[g][f] = caches[g][f]
                                           \/ caches'[g][f].kind # "file"
  <2>1. \A g \in Version : caches'[g] = caches[g] \/ caches'[g] = Nothing
    BY <1>6 DEF Sweep, ShellTypeOK
  <2> QED
    BY <2>1, AnswerTypes DEF Nothing
<1>7. CASE Activate
  <2>1. /\ UNCHANGED <<worker, version, generation, puts, http, born, spoiled>>
        /\ installing # 0 /\ toAdd = {} /\ active' = installing /\ installing' = 0
    BY <1>7 DEF Activate, server, history
  <2>2. \A g \in Version, f \in File : \/ caches'[g][f] = caches[g][f]
                                      \/ caches'[g][f].kind # "file"
    BY <1>6, <1>7 DEF Activate, storage
  <2> QED
    BY <2>1, <2>2 DEF ShellAge, Recent
<1>8. CASE SiblingActivates
  <2>1. UNCHANGED <<worker, version, generation, active, installing, toAdd, added, puts, http,
                    born, spoiled>>
    BY <1>8 DEF SiblingActivates, server, install, history
  <2>2. \A g \in Version, f \in File : \/ caches'[g][f] = caches[g][f]
                                      \/ caches'[g][f].kind # "file"
    BY <1>6, <1>8 DEF SiblingActivates
  <2> QED
    BY <2>1, <2>2 DEF ShellAge, Recent
<1>9. ASSUME NEW f \in File, Fetch(f) PROVE ShellAge'
  <2>1. UNCHANGED <<worker, version, generation, active, installing, toAdd, added, caches, born,
                    spoiled>>
    BY <1>9 DEF Fetch, server, install, storage, history
  <2>2. SUFFICES ASSUME worker.reload PROVE ShellAge'
    BY <2>1 DEF ShellAge
  <2>3. \A g \in Version : Recent(TheFile(version), g) /\ Recent(Absent, g)
    BY <1>0, AnswerTypes DEF ShellAge, Recent
  <2>4. \A g \in File : http'[g] \in {http[g], TheFile(version), Absent}
    <3>1. http' = http \/ \E answer \in Answers : Requested(f, answer)
      BY <1>9 DEF Fetch, Uncontrolled, AskNetwork, FallBack, CacheThenNetwork
    <3> QED
      BY <3>1, RequestIs
  <2>5. active # 0 /\ active \notin spoiled => \A g \in File : Recent(http'[g], active)
    BY <1>0, <2>2, <2>3, <2>4 DEF ShellAge
  <2>6. installing # 0 /\ installing \notin spoiled =>
            \A g \in File \ toAdd : Recent(http'[g], installing)
    BY <1>0, <2>2, <2>3, <2>4 DEF ShellAge
  <2>7. \A p \in puts' : p.cache \notin spoiled => Recent(p.what, p.cache)
    <3>1. CASE puts' = puts
      BY <2>2, <3>1 DEF ShellAge
    <3>2. CASE active # 0 /\ AskNetwork(f)
      <4>1. PICK answer \in Answers : Requested(f, answer) /\ Refresh(f, answer)
        BY <3>2 DEF AskNetwork
      <4>2. answer \in {http[f], TheFile(version), Other("http error")}
        BY <4>1, RequestIs
      <4>3. active \notin spoiled => Recent(answer, active)
        <5>1. Recent(Other("http error"), active)
          BY AnswerTypes DEF Recent, Outcomes
        <5>2. active \notin spoiled => Recent(http[f], active)
          BY <2>2, <3>2 DEF ShellAge
        <5>3. Recent(TheFile(version), active)
          BY <1>0, <2>3, <3>2
        <5> QED
          BY <4>2, <5>1, <5>2, <5>3
      <4> DEFINE q == [cache |-> active, file |-> f, what |-> answer]
      <4>4. q.cache = active /\ q.what = answer
        OBVIOUS
      <4>5. puts' \subseteq puts \cup {q}
        BY <4>1 DEF Refresh
      <4> QED
        BY <2>2, <4>3, <4>4, <4>5 DEF ShellAge
    <3> QED
      BY <1>9, <3>1, <3>2 DEF Fetch, Uncontrolled, FallBack, CacheThenNetwork
  <2> QED
    BY <2>1, <2>2, <2>5, <2>6, <2>7 DEF ShellAge, Recent
<1>10. ASSUME NEW p \in puts, PutEnds(p) PROVE ShellAge'
  <2>1. /\ UNCHANGED <<worker, version, generation, active, installing, toAdd, added, http, born,
                       spoiled>>
        /\ puts' \subseteq puts
    BY <1>10 DEF PutEnds, server, install, history
  <2>2. p.cache \in Version /\ p.file \in File /\ p.cache <= generation
    BY <1>0 DEF ShellTypeOK, ShellOrder
  <2>3. \A g \in Version, f \in File :
            \/ caches'[g][f] = caches[g][f]
            \/ (g = p.cache /\ caches'[g][f] = p.what)
    BY <1>10, <2>2, StoresAre DEF PutEnds
  <2> QED
    BY <1>0, <2>1, <2>2, <2>3 DEF ShellAge, Recent
<1>11. Connection \/ Load \/ UNCHANGED shellVars => UNCHANGED aged
  BY DEF Connection, Load, shellVars, server, install, storage, history, aged
<1> QED
  BY <1>1, <1>2, <1>3, <1>4, <1>5, <1>7, <1>8, <1>9, <1>10, <1>11 DEF ShellNext

\* What the workers keep to, whichever of them it is.
ShellInv == ShellTypeOK /\ ShellOrder /\ ShellFiles /\ WorkerRules /\ ShellAge

LEMMA ShellInvariant == ShellSpec => []ShellInv
<1>1. ShellInit => ShellInv
  <2> SUFFICES ASSUME ShellInit PROVE ShellInv
    OBVIOUS
  <2>1. /\ Nothing \in [File -> Answer]
        /\ \A f \in File : Nothing[f] = Absent /\ Absent.kind = "none"
    BY AnswerTypes DEF Nothing
  <2>2. 1 \in Version /\ 0 \in 0 .. MaxVersion
    BY VersionAssumption DEF Version
  <2>3. ShellTypeOK
    <3>1. worker \in Workers /\ online \in BOOLEAN
      BY Zenon DEF ShellInit
    <3>2. /\ {version, generation} \subseteq Version
          /\ {active, installing} \subseteq 0 .. MaxVersion
      BY <2>2 DEF ShellInit
    <3>3. caches \in [Version -> [File -> Answer]] /\ names \in Seq(Version)
      BY <2>1 DEF ShellInit
    <3>4. /\ toAdd \subseteq File /\ added \in [File -> Answer]
          /\ page \in [File -> Answer] /\ http \in [File -> Answer]
      BY <2>1 DEF ShellInit
    <3>6. born \in [Version -> 0 .. MaxVersion] /\ spoiled \subseteq Version
      BY VersionAssumption DEF ShellInit
    <3>5. puts \subseteq [cache : Version, file : File, what : Answer]
      BY DEF ShellInit
    <3> QED
      BY <3>1, <3>2, <3>3, <3>4, <3>5, <3>6 DEF ShellTypeOK
  <2>4. ShellOrder
    BY DEF ShellInit, ShellOrder
  <2>5. ShellFiles
    BY <2>1 DEF ShellInit, ShellFiles, Kept
  <2>6. WorkerRules
    BY <2>1 DEF ShellInit, WorkerRules
  <2>7. ShellAge
    BY <2>1, VersionAssumption DEF ShellInit, ShellAge, Recent, Version
  <2> QED
    BY <2>3, <2>4, <2>5, <2>6, <2>7 DEF ShellInv
<1>2. ShellInv /\ [ShellNext]_shellVars => ShellInv'
  BY StepShellTypes, StepOrder, StepFiles, StepRules, StepAge DEF ShellInv
<1> QED
  BY <1>1, <1>2, PTL DEF ShellSpec

\* Every variable of the workers keeps its type, for any number of deployments
\* and of writes under way: every cache, name and answer is one that exists
\* (sw.js of all prototypes).
THEOREM ShellTypeCorrect == ShellSpec => []ShellTypeOK
<1>1. ShellInv => ShellTypeOK
  BY DEF ShellInv
<1> QED
  BY <1>1, ShellInvariant, PTL

\* The worker of prototype-minimal-qt answers every fetch with something a page
\* can use and keeps each file that arrived during its install, for any number
\* of deployments, sweeps and late writes (prototype-minimal-qt/web/sw.js
\* 10-20).
THEOREM WorkerRulesHold == ShellSpec => []WorkerRules
<1>1. ShellInv => WorkerRules
  BY DEF ShellInv
<1> QED
  BY <1>1, ShellInvariant, PTL

\* A worker that fills its cache past the HTTP cache, and misses no file, has
\* nothing in it that is older than the deployment that named it, for any
\* number of deployments, late writes, sweeps and stale answers of the HTTP
\* cache (prototype-minimal/sw.js 22-24, prototype-qt/web/sw.js 25-27).
THEOREM NoStaleGenerationHolds == ShellSpec => []NoStaleGeneration
<1>1. ShellInv => NoStaleGeneration
  BY DEF ShellInv, ShellAge, NoStaleGeneration, Recent
<1> QED
  BY <1>1, ShellInvariant, PTL

\* The offline copy is complete just when some cache holds each file.
LEMMA CompleteIs ==
    ASSUME ShellTypeOK, ShellFiles
    PROVE  Complete <=> \A f \in File : \E g \in ToSet(names) : caches[g][f] # Absent
<1>1. ASSUME NEW f \in File
      PROVE  Match(f).kind = "file" <=> \E g \in ToSet(names) : caches[g][f] # Absent
  <2>1. Absent.kind = "none"
    BY AnswerTypes
  <2>2. \A g \in ToSet(names) : g \in Version
    BY Named DEF ShellTypeOK
  <2>3. \A g \in ToSet(names) : caches[g][f] # Absent => caches[g][f].kind = "file"
    BY <2>2 DEF ShellFiles, Kept
  <2> QED
    BY <2>1, <2>3, MatchIs
<1> QED
  BY <1>1 DEF Complete

\* Caches and what they hold of a file stay, or give way to something newer.
Accrues ==
    /\ ToSet(names) \subseteq ToSet(names')
    /\ \A g \in ToSet(names), f \in File : caches[g][f] # Absent => caches'[g][f] # Absent

LEMMA StepAccrues ==
    ASSUME ShellTypeOK, ShellFiles, [ShellNext]_shellVars, ~Activate, ~SiblingActivates
    PROVE  Accrues
<1>0. \A g \in ToSet(names) : g \in Version
  BY Named DEF ShellTypeOK
<1>1. CASE UNCHANGED <<names, caches>>
  BY <1>1 DEF Accrues
<1>2. ASSUME NEW g \in Version, names' = Opened(g)
      PROVE  ToSet(names) \subseteq ToSet(names')
  BY <1>2, StoresAre DEF Opened, ToSet
<1>3. CASE InstallBegins
  <2>1. names' = Opened(generation) /\ caches' = caches /\ generation \in Version
    BY <1>3 DEF InstallBegins, ShellTypeOK
  <2> QED
    BY <1>2, <2>1 DEF Accrues
<1>4. ASSUME NEW f \in File, FileAdded(f) PROVE Accrues
  <2>1. names' = names
    BY <1>4 DEF FileAdded
  <2>2. \A h \in Version, g \in File : \/ caches'[h][g] = caches[h][g]
                                      \/ caches'[h][g] # Absent
    BY <1>4, FileAddedIs
  <2> QED
    BY <1>0, <2>1, <2>2 DEF Accrues
<1>5. ASSUME NEW p \in puts, PutEnds(p) PROVE Accrues
  <2>1. p.cache \in Version /\ p.file \in File /\ p.what # Absent
    BY AnswerTypes DEF ShellTypeOK, ShellFiles
  <2>2. ToSet(names) \subseteq ToSet(names')
    BY <1>2, <1>5, <2>1 DEF PutEnds
  <2>3. \A h \in Version, g \in File : \/ caches'[h][g] = caches[h][g]
                                      \/ caches'[h][g] = p.what
    BY <1>5, <2>1, StoresAre DEF PutEnds
  <2> QED
    BY <1>0, <2>1, <2>2, <2>3 DEF Accrues
<1>6. Deploy \/ Connection \/ Load \/ UNCHANGED shellVars => UNCHANGED <<names, caches>>
  BY DEF Deploy, Connection, Load, shellVars, storage
<1>7. \A f : FileFails(f) \/ Fetch(f) => UNCHANGED <<names, caches>>
  BY DEF FileFails, Fetch, storage
<1> QED
  BY <1>1, <1>3, <1>4, <1>5, <1>6, <1>7 DEF ShellNext

\* A complete offline copy is lost only when a worker activates, for any number
\* of caches, failing servers, late writes and installs that fail half way
\* (prototype-minimal/sw.js 40-41 and the sweeps of activate).
THEOREM LossNeedsActivationHolds == ShellSpec => LossNeedsActivation
<1> DEFINE A == Complete /\ ~Complete' => Activate \/ SiblingActivates
<1>1. ShellInv /\ ShellInv' /\ [ShellNext]_shellVars => A
  <2> SUFFICES ASSUME ShellInv, ShellInv', [ShellNext]_shellVars, Complete,
                      ~Activate, ~SiblingActivates
               PROVE  Complete'
    OBVIOUS
  <2>1. Accrues
    BY StepAccrues DEF ShellInv
  <2>2. \A f \in File : \E g \in ToSet(names) : caches[g][f] # Absent
    BY CompleteIs DEF ShellInv
  <2>3. \A f \in File : \E g \in ToSet(names') : caches'[g][f] # Absent
    BY <2>1, <2>2 DEF Accrues
  <2>4. (ShellTypeOK /\ ShellFiles =>
            (Complete <=> \A f \in File : \E g \in ToSet(names) : caches[g][f] # Absent))'
    BY CompleteIs, PTL
  <2> QED
    BY <2>3, <2>4 DEF ShellInv
<1>2. ShellSpec => [][A]_shellVars
  BY <1>1, ShellInvariant, PTL DEF ShellSpec
<1> QED
  BY <1>2 DEF LossNeedsActivation

=============================================================================
