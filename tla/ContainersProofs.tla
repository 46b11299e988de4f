--------------------------- MODULE ContainersProofs ---------------------------
(***************************************************************************)
(* For any priorities, values and number of items, the prelude's heap is a  *)
(* bag that gives back one of the lowest, and its queue a line:             *)
(*                                                                         *)
(*   ContainersKeepTheirPromise   ImplementsContainers                      *)
(***************************************************************************)
EXTENDS Containers, TLAPS, FiniteSetTheorems, SequenceTheorems, WellFoundedInduction

\* Every nonempty set of natural numbers has a least member.
LEMMA LeastIndex ==
    ASSUME NEW S \in SUBSET Nat, S # {}
    PROVE  \E m \in S : \A k \in S : m <= k
<1> DEFINE T == {0 .. (k - 1) : k \in S}
<1>1. T \subseteq FiniteSubsetsOf(Nat) /\ T # {}
  <2>1. \A k \in S : IsFiniteSet(0 .. (k - 1))
      BY FS_Interval
  <2>2. PICK k \in S : TRUE
      OBVIOUS
  <2>3. 0 .. (k - 1) \in T
      OBVIOUS
  <2>4. \A j \in S : 0 .. (j - 1) \in FiniteSubsetsOf(Nat)
      BY <2>1 DEF FiniteSubsetsOf
  <2> QED
      BY <2>3, <2>4
<1>2. IsWellFoundedOn(StrictSubsetOrdering(Nat), FiniteSubsetsOf(Nat))
    BY FS_StrictSubsetOrderingWellFounded
<1>3. PICK x \in T : \A y \in T : ~(<<y, x>> \in StrictSubsetOrdering(Nat))
  <2> HIDE DEF T
  <2> QED
      BY <1>1, <1>2, WFMin
<1>4. PICK m \in S : x = 0 .. (m - 1)
    BY <1>3
<1>5. ASSUME NEW k \in S, k < m
      PROVE  FALSE
  <2>1. 0 .. (k - 1) \in T
      OBVIOUS
  <2>2. 0 .. (k - 1) \subseteq x /\ 0 .. (k - 1) # x
    <3>1. k \in x /\ k \notin 0 .. (k - 1)
        BY <1>4, <1>5
    <3> QED
        BY <1>4, <1>5, <3>1
  <2>3. x \in SUBSET Nat /\ 0 .. (k - 1) \in SUBSET Nat
      BY <1>4
  <2> HIDE DEF T
  <2>4. <<0 .. (k - 1), x>> \in StrictSubsetOrdering(Nat)
      BY <2>2, <2>3 DEF StrictSubsetOrdering
  <2> QED
      BY <1>3, <2>1, <2>4
<1> QED
    BY <1>5

-----------------------------------------------------------------------------
(* Loops.  D[s] is what a turn makes of s.                                   *)

Solves(D, c, n, f) == f = [k \in 0 .. n |-> IF k = 0 THEN c ELSE D[f[k - 1]]]

LEMMA LoopDefined ==
    ASSUME NEW D, NEW c, NEW n \in Nat
    PROVE  \E f : Solves(D, c, n, f)
<1> DEFINE Fails == {j \in Nat : ~ \E f : Solves(D, c, j, f)}
<1>1. SUFFICES ASSUME Fails # {} PROVE FALSE
    OBVIOUS
<1>2. PICK j \in Fails : \A i \in Fails : j <= i
    BY <1>1, LeastIndex
<1>3. CASE j = 0
  <2> DEFINE f == [k \in 0 .. 0 |-> c]
  <2>1. Solves(D, c, 0, f)
      BY DEF Solves
  <2> QED
      BY <1>2, <1>3, <2>1
<1>4. CASE j # 0
  <2>1. j - 1 \in Nat /\ j - 1 \notin Fails /\ j \in Nat
      BY <1>2, <1>4
  <2>2. PICK f : Solves(D, c, j - 1, f)
      BY <2>1
  <2> DEFINE g == [k \in 0 .. j |-> IF k < j THEN f[k] ELSE D[f[k - 1]]]
             h == [k \in 0 .. j |-> IF k = 0 THEN c ELSE D[g[k - 1]]]
  <2>3. \A k \in 0 .. j : g[k] = h[k]
    <3>1. SUFFICES ASSUME NEW k \in 0 .. j PROVE g[k] = h[k]
        OBVIOUS
    <3>2. CASE k = j
      <4>1. g[k - 1] = f[k - 1] /\ k # 0 /\ ~(k < j)
          BY <1>4, <2>1, <3>2
      <4> QED
          BY <3>1, <4>1
    <3>3. CASE k < j /\ k = 0
      <4>1. f[k] = c
          BY <2>1, <2>2, <3>3 DEF Solves
      <4> QED
          BY <3>1, <3>3, <4>1
    <3>4. CASE k < j /\ k # 0
      <4>1. k \in 0 .. j - 1 /\ k - 1 \in 0 .. j /\ k - 1 < j
          BY <2>1, <3>4
      <4>2. f[k] = D[f[k - 1]]
          BY <2>2, <3>4, <4>1 DEF Solves
      <4>3. g[k] = f[k] /\ g[k - 1] = f[k - 1]
          BY <3>4, <4>1
      <4> QED
          BY <3>4, <4>2, <4>3
    <3> QED
        BY <2>1, <3>2, <3>3, <3>4
  <2>4. g = h
      BY <2>3
  <2>5. Solves(D, c, j, g)
      BY <2>4 DEF Solves
  <2> QED
      BY <1>2, <2>5
<1> QED
    BY <1>3, <1>4

\* f follows the turns for as long as it is in S, where they are those of D.
Follows(f, S, D, c, n) == f[0] = c /\ \A k \in 1 .. n : f[k - 1] \in S => f[k] = D[f[k - 1]]

LEMMA SolutionFollows ==
    ASSUME NEW S, NEW D, NEW c, NEW n \in Nat, NEW f, Solves(D, c, n, f)
    PROVE  Follows(f, S, D, c, n)
<1>1. 0 \in 0 .. n /\ \A i \in 1 .. n : i \in 0 .. n /\ i # 0
    OBVIOUS
<1>2. \A i \in 0 .. n : f[i] = IF i = 0 THEN c ELSE D[f[i - 1]]
    BY Zenon DEF Solves
<1> QED
    BY <1>1, <1>2, Zenon DEF Follows

\* The turns keep to S, and each of them ends the loop, in F, or decreases the measure m.
Ending(S, D, c, n, F, m) ==
    /\ D \in [S -> S] /\ c \in S /\ F \subseteq S /\ m \in [S -> Nat] /\ m[c] <= n
    /\ \A s \in S : m[s] = 0 => s \in F
    /\ \A s \in F : D[s] \in F
    /\ \A s \in S : s \in F \/ D[s] \in F \/ m[D[s]] < m[s]

LEMMA LoopEnds ==
    ASSUME NEW S, NEW D, NEW c, NEW n \in Nat, NEW f, Follows(f, S, D, c, n),
           NEW F, NEW m, Ending(S, D, c, n, F, m)
    PROVE  f[n] \in F /\ \A k \in 0 .. n : f[k] \in S
<1> DEFINE Right(k) == f[k] \in S /\ (f[k] \in F \/ m[f[k]] <= m[c] - k)
           Fails == {k \in 0 .. n : ~Right(k)}
<1>1. f[0] = c /\ \A i \in 1 .. n : f[i - 1] \in S => f[i] = D[f[i - 1]]
    BY DEF Follows
<1>2. ASSUME Fails # {} PROVE FALSE
  <2> USE DEF Ending
  <2>1. PICK k \in Fails : \A i \in Fails : k <= i
    <3>1. Fails \in SUBSET Nat
        OBVIOUS
    <3> HIDE DEF Fails
    <3> QED
        BY <1>2, <3>1, LeastIndex
  <2>2. k # 0
      BY <1>1, <2>1
  <2>3. k \in 1 .. n /\ k - 1 \in 0 .. n /\ k - 1 \notin Fails
      BY <2>1, <2>2
  <2>4. PICK s \in S : s = f[k - 1]
      BY <2>3
  <2>5. s \in F \/ m[s] <= m[c] - (k - 1)
      BY <2>3, <2>4
  <2>6. f[k] = D[s] /\ D[s] \in S
      BY <1>1, <2>3, <2>4
  <2>7. D[s] \in F \/ m[D[s]] <= m[c] - k
      BY <2>3, <2>5, <2>6
  <2> QED
      BY <2>1, <2>6, <2>7
<1>3. \A k \in 0 .. n : Right(k)
    BY <1>2
<1>4. m[c] \in Nat /\ m[c] <= n
    BY DEF Ending
<1>5. f[n] \in S /\ (f[n] \in F \/ m[f[n]] <= m[c] - n)
    BY <1>3
<1>6. m[f[n]] \in Nat /\ (m[f[n]] = 0 => f[n] \in F)
    BY <1>5 DEF Ending
<1> QED
    BY <1>3, <1>4, <1>5, <1>6

-----------------------------------------------------------------------------
(* The order in a heap, of the ranks of its items alone.                     *)

LEMMA Halves ==
    ASSUME NEW i \in Nat, i > 1
    PROVE  /\ i \div 2 \in Nat /\ 1 <= i \div 2 /\ i \div 2 < i
           /\ i = 2 * (i \div 2) \/ i = 2 * (i \div 2) + 1
OBVIOUS

LEMMA HalfIs ==
    ASSUME NEW i \in Nat, NEW j \in Nat, j = 2 * i \/ j = 2 * i + 1
    PROVE  j \div 2 = i
OBVIOUS

InOrder(r, n) == \A j \in 2 .. n : r[j \div 2] <= r[j]

\* In order but for an item that may be before its parent.
OrderedBelow(r, n, at) ==
    /\ \A j \in 2 .. n : j # at => r[j \div 2] <= r[j]
    /\ \A j \in 2 .. n : at > 1 /\ j \div 2 = at => r[at \div 2] <= r[j]

\* In order but for an item that may be after its children.
OrderedAbove(r, n, at) ==
    /\ \A j \in 2 .. n : j \div 2 # at => r[j \div 2] <= r[j]
    /\ \A j \in 2 .. n : at > 1 /\ j \div 2 = at => r[at \div 2] <= r[j]

SwapOf(r2, r, n, i, j) ==
    \A k \in 1 .. n : r2[k] = IF k = j THEN r[i] ELSE IF k = i THEN r[j] ELSE r[k]

LEMMA RaisingKeepsOrder ==
    ASSUME NEW n \in Nat, NEW r \in [1 .. n -> Int], NEW r2 \in [1 .. n -> Int],
           NEW i \in 2 .. n, OrderedBelow(r, n, i), r[i] < r[i \div 2],
           SwapOf(r2, r, n, i, i \div 2)
    PROVE  OrderedBelow(r2, n, i \div 2)
<1>1. PICK p \in Nat : p = i \div 2 /\ p \in 1 .. n /\ p < i
    BY Halves
<1>2. r2[p] = r[i] /\ r2[i] = r[p] /\ \A k \in 1 .. n : k # i /\ k # p => r2[k] = r[k]
    BY <1>1 DEF SwapOf
<1>3. ASSUME NEW j \in 2 .. n, j # p
      PROVE  r2[j \div 2] <= r2[j]
  <2>1. PICK q \in Nat : q = j \div 2 /\ q \in 1 .. n /\ q < j
      BY Halves
  <2>2. CASE j = i
      BY <1>1, <1>2, <2>1, <2>2
  <2>3. CASE j # i
    <3>0. j \in 1 .. n /\ r[p] \in Int /\ r[i] \in Int /\ r[j] \in Int /\ r[i] < r[p]
        BY <1>1
    <3>1. r[q] <= r[j] /\ r2[j] = r[j]
      <4>1. r[q] <= r[j]
          BY <2>1, <2>3 DEF OrderedBelow
      <4> QED
          BY <1>2, <1>3, <2>3, <3>0, <4>1
    <3>2. CASE q = i
      <4>1. r[p] <= r[j]
          BY <1>1, <2>1, <3>2 DEF OrderedBelow
      <4> QED
          BY <1>2, <2>1, <3>1, <3>2, <4>1
    <3>3. CASE q = p
      <4>1. r2[q] = r[i] /\ r[p] <= r[j]
          BY <1>2, <3>1, <3>3
      <4>2. r2[q] <= r2[j]
          BY <3>0, <3>1, <4>1
      <4> QED
          BY <2>1, <4>2
    <3>4. CASE q # i /\ q # p
        BY <1>2, <2>1, <3>1, <3>4
    <3> QED
        BY <3>2, <3>3, <3>4
  <2> QED
      BY <2>2, <2>3
<1>4. ASSUME NEW j \in 2 .. n, p > 1, j \div 2 = p
      PROVE  r2[p \div 2] <= r2[j]
  <2>1. PICK g \in Nat : g = p \div 2 /\ g \in 1 .. n /\ g < p
      BY <1>1, <1>4, Halves
  <2>2. r[g] <= r[p] /\ r2[g] = r[g]
      BY <1>1, <1>2, <1>4, <2>1 DEF OrderedBelow
  <2>3. j # p
      BY <1>1, <1>4, Halves
  <2>4. CASE j = i
      BY <1>2, <2>1, <2>2, <2>4
  <2>5. CASE j # i
    <3>1. j \in 1 .. n /\ r[p] \in Int /\ r[g] \in Int /\ r[j] \in Int
        BY <1>1, <2>1
    <3>2. r2[j] = r[j]
        BY <1>2, <2>3, <2>5, <3>1
    <3>3. r[p] <= r[j]
        BY <1>4, <2>5 DEF OrderedBelow
    <3> QED
        BY <2>1, <2>2, <3>1, <3>2, <3>3
  <2> QED
      BY <2>4, <2>5
<1> QED
    BY <1>1, <1>3, <1>4 DEF OrderedBelow

\* m is the child of i that goes up: it is before i and not after the other child.
LEMMA LoweringKeepsOrder ==
    ASSUME NEW n \in Nat, NEW r \in [1 .. n -> Int], NEW r2 \in [1 .. n -> Int],
           NEW i \in 1 .. n, NEW m \in 2 .. n, OrderedAbove(r, n, i),
           m \div 2 = i, r[m] < r[i], \A j \in 2 .. n : j \div 2 = i => r[m] <= r[j],
           SwapOf(r2, r, n, i, m)
    PROVE  OrderedAbove(r2, n, m)
<1>1. i < m
    BY Halves
<1>2. r2[m] = r[i] /\ r2[i] = r[m] /\ \A k \in 1 .. n : k # i /\ k # m => r2[k] = r[k]
    BY <1>1 DEF SwapOf
<1>3. ASSUME NEW j \in 2 .. n, j \div 2 # m
      PROVE  r2[j \div 2] <= r2[j]
  <2>1. PICK q \in Nat : q = j \div 2 /\ q \in 1 .. n /\ q < j
      BY Halves
  <2>2. CASE j = m
    <3>1. q = i /\ r2[q] = r[m] /\ r2[j] = r[i]
        BY <1>2, <2>1, <2>2
    <3>2. r[m] \in Int /\ r[i] \in Int
        OBVIOUS
    <3> QED
        BY <2>1, <3>1, <3>2
  <2>3. CASE j # m /\ q = i
    <3>1. r[m] <= r[j] /\ r2[j] = r[j]
        BY <1>2, <2>1, <2>3
    <3> QED
        BY <1>2, <2>1, <2>3, <3>1
  <2>4. CASE j = i
    <3>1. r[q] <= r[m] /\ r2[q] = r[q]
        BY <1>2, <1>3, <2>1, <2>4 DEF OrderedAbove
    <3> QED
        BY <1>2, <2>1, <2>4, <3>1
  <2>5. CASE j # m /\ j # i /\ q # i
    <3>0. j \in 1 .. n /\ q # m
        BY <1>3, <2>1
    <3>1. r2[j] = r[j] /\ r2[q] = r[q]
        BY <1>2, <2>1, <2>5, <3>0
    <3>2. r[q] <= r[j]
        BY <2>1, <2>5 DEF OrderedAbove
    <3> QED
        BY <2>1, <3>1, <3>2
  <2> QED
      BY <2>2, <2>3, <2>4, <2>5
<1>4. ASSUME NEW j \in 2 .. n, j \div 2 = m
      PROVE  r2[m \div 2] <= r2[j]
  <2>1. m < j
      BY <1>4, Halves
  <2>2. r2[j] = r[j]
      BY <1>1, <1>2, <2>1
  <2>3. r[m] <= r[j]
      BY <1>1, <1>4 DEF OrderedAbove
  <2> QED
      BY <1>2, <2>2, <2>3
<1> QED
    BY <1>3, <1>4 DEF OrderedAbove

\* No item of a heap that is in order ranks before the first.
LEMMA FirstIsLowest ==
    ASSUME NEW n \in Nat, NEW r \in [1 .. n -> Int], InOrder(r, n)
    PROVE  \A j \in 1 .. n : r[1] <= r[j]
<1> DEFINE Fails == {j \in 1 .. n : ~ (r[1] <= r[j])}
<1>1. SUFFICES ASSUME Fails # {} PROVE FALSE
    OBVIOUS
<1>2. PICK j \in Fails : \A k \in Fails : j <= k
  <2>1. Fails \in SUBSET Nat
      OBVIOUS
  <2> HIDE DEF Fails
  <2> QED
      BY <1>1, <2>1, LeastIndex
<1>3. j # 1 /\ j \in 2 .. n
    BY <1>2
<1>4. PICK q \in Nat : q = j \div 2 /\ q \in 1 .. n /\ q < j
    BY <1>3, Halves
<1>5. r[q] <= r[j] /\ r[1] <= r[q]
    BY <1>2, <1>3, <1>4 DEF InOrder
<1> QED
    BY <1>2, <1>4, <1>5

-----------------------------------------------------------------------------
(* The array.                                                                *)

Item == Priorities \X Values

Ranks(h) == [i \in 1 .. Len(h) |-> h[i][1]]

HeapOrdered(h) == InOrder(Ranks(h), Len(h))

LEMMA RanksAre ==
    ASSUME NEW h \in Seq(Item)
    PROVE  /\ Ranks(h) \in [1 .. Len(h) -> Int]
           /\ \A i, j \in 1 .. Len(h) : Before(h, i, j) <=> Ranks(h)[i] < Ranks(h)[j]
<1>1. \A item \in Item : item[1] \in Int
    BY PrioritiesAssumption DEF Item
<1>2. \A i \in 1 .. Len(h) : h[i][1] \in Int
    BY <1>1
<1> QED
    BY <1>2 DEF Ranks, Before

LEMMA SwappedIs ==
    ASSUME NEW h \in Seq(Item), NEW i \in 1 .. Len(h), NEW j \in 1 .. Len(h)
    PROVE  /\ Swapped(h, i, j) \in Seq(Item)
           /\ Len(Swapped(h, i, j)) = Len(h)
           /\ SwapOf(Swapped(h, i, j), h, Len(h), i, j)
           /\ SwapOf(Ranks(Swapped(h, i, j)), Ranks(h), Len(h), i, j)
<1>1. PICK n \in Nat : n = Len(h)
    OBVIOUS
<1>2. h \in [1 .. n -> Item]
    BY <1>1
<1>3. PICK h2 : h2 = Swapped(h, i, j)
    OBVIOUS
<1>4. h2 \in [1 .. n -> Item]
    BY <1>1, <1>2, <1>3 DEF Swapped
<1>5. SwapOf(h2, h, n, i, j)
    BY <1>1, <1>2, <1>3 DEF Swapped, SwapOf
<1>6. h2 \in Seq(Item) /\ Len(h2) = n
    BY <1>4
<1>7. SwapOf(Ranks(h2), Ranks(h), n, i, j)
    BY <1>1, <1>5, <1>6 DEF SwapOf, Ranks
<1> QED
    BY <1>1, <1>3, <1>5, <1>6, <1>7

\* Where an item is in an array.
PlacesOf(h, item) == {k \in DOMAIN h : h[k] = item}

LEMMA PlacesAreFinite ==
    ASSUME NEW h \in Seq(Item), NEW item
    PROVE  IsFiniteSet(PlacesOf(h, item))
<1>1. PlacesOf(h, item) \in SUBSET (1 .. Len(h))
    BY DEF PlacesOf
<1> QED
    BY <1>1, FS_Interval, FS_Subset

LEMMA CopiesAre ==
    ASSUME NEW h \in Seq(Item)
    PROVE  /\ Copies(h) \in [Item -> Nat]
           /\ \A item \in Item : Copies(h)[item] = Cardinality(PlacesOf(h, item))
<1>1. \A item \in Item : Cardinality(PlacesOf(h, item)) \in Nat
    BY PlacesAreFinite, FS_CardinalityType
<1> QED
    BY <1>1 DEF Copies, PlacesOf, Item

LEMMA CopiesExist ==
    ASSUME NEW h \in Seq(Item), NEW item \in Item
    PROVE  Copies(h)[item] > 0 <=> \E k \in 1 .. Len(h) : h[k] = item
<1>1. Copies(h)[item] = Cardinality(PlacesOf(h, item)) /\ Copies(h)[item] \in Nat
    BY CopiesAre
<1>2. Copies(h)[item] = 0 <=> PlacesOf(h, item) = {}
    BY <1>1, PlacesAreFinite, FS_EmptySet
<1> QED
    BY <1>1, <1>2 DEF PlacesOf

LEMMA NoCopies == <<>> \in Seq(Item) /\ Copies(<<>>) = [item \in Item |-> 0]
<1>1. <<>> \in Seq(Item)
    BY EmptySeq
<1>2. Len(<<>>) = 0
    BY EmptySeq
<1>3. ASSUME NEW item \in Item
      PROVE  Copies(<<>>)[item] = 0
  <2>1. Copies(<<>>)[item] = Cardinality(PlacesOf(<<>>, item))
      BY <1>1, CopiesAre
  <2>2. PlacesOf(<<>>, item) = {}
      BY <1>2 DEF PlacesOf
  <2> QED
      BY <2>1, <2>2, FS_EmptySet
<1>4. Copies(<<>>) \in [Item -> Nat]
    BY <1>1, CopiesAre
<1> QED
    BY <1>1, <1>3, <1>4

LEMMA SwapKeepsCopies ==
    ASSUME NEW h \in Seq(Item), NEW i \in 1 .. Len(h), NEW j \in 1 .. Len(h)
    PROVE  Copies(Swapped(h, i, j)) = Copies(h)
<1>1. PICK h2 \in Seq(Item) : h2 = Swapped(h, i, j) /\ Len(h2) = Len(h)
    BY SwappedIs
<1>2. SwapOf(h2, h, Len(h), i, j)
    BY <1>1, SwappedIs
<1>3. ASSUME NEW item \in Item
      PROVE  Cardinality(PlacesOf(h2, item)) = Cardinality(PlacesOf(h, item))
  <2> DEFINE A == PlacesOf(h, item)
             B == PlacesOf(h2, item)
             Move(k) == IF k = i THEN j ELSE IF k = j THEN i ELSE k
             f == [k \in A |-> Move(k)]
  <2>1. \A k \in 1 .. Len(h) : Move(k) \in 1 .. Len(h) /\ h2[Move(k)] = h[k] /\ Move(Move(k)) = k
      BY <1>1, <1>2 DEF SwapOf
  <2>2. A \subseteq 1 .. Len(h) /\ B \subseteq 1 .. Len(h)
      BY <1>1 DEF PlacesOf
  <2>3. \A k \in A : Move(k) \in B
      BY <1>1, <2>1, <2>2 DEF PlacesOf
  <2>4. \A k \in B : Move(k) \in A
      BY <1>1, <2>1, <2>2 DEF PlacesOf
  <2> HIDE DEF A, B, Move
  <2>5. f \in [A -> B]
      BY <2>3
  <2>6. \A k, l \in A : f[k] = f[l] => k = l
      BY <2>1, <2>2
  <2>7. \A k \in B : \E l \in A : f[l] = k
      BY <2>1, <2>2, <2>4
  <2>8. ExistsBijection(A, B)
    <3> HIDE DEF f
    <3> QED
        BY <2>5, <2>6, <2>7 DEF IsInjective, ExistsBijection, Bijection, Injection, Surjection
  <2> QED
      BY <2>8, PlacesAreFinite, FS_Bijection DEF A, B
<1>4. \A item \in Item : Copies(h2)[item] = Copies(h)[item]
    BY <1>3, CopiesAre
<1>5. Copies(h2) \in [Item -> Nat] /\ Copies(h) \in [Item -> Nat]
    BY CopiesAre
<1> QED
    BY <1>1, <1>4, <1>5

\* There is one copy more of an item, and as many as before of the others.
OneMore(copies, before, item) == copies = [before EXCEPT ![item] = @ + 1]

LEMMA AppendCopies ==
    ASSUME NEW h \in Seq(Item), NEW item \in Item
    PROVE  OneMore(Copies(Append(h, item)), Copies(h), item)
<1>0. Append(h, item) \in Seq(Item)
    OBVIOUS
<1>1. PICK h2 \in Seq(Item) : h2 = Append(h, item)
    BY <1>0
<1>2. PICK n \in Nat : n = Len(h)
    OBVIOUS
<1>3. DOMAIN h = 1 .. n /\ DOMAIN h2 = 1 .. n + 1 /\ h2[n + 1] = item
      /\ \A k \in 1 .. n : h2[k] = h[k]
    BY <1>1, <1>2
<1>4. PlacesOf(h2, item) = PlacesOf(h, item) \union {n + 1} /\ n + 1 \notin PlacesOf(h, item)
    BY <1>3 DEF PlacesOf
<1>5. ASSUME NEW other \in Item, other # item
      PROVE  PlacesOf(h2, other) = PlacesOf(h, other)
    BY <1>3, <1>5 DEF PlacesOf
<1>6. Copies(h2)[item] = Copies(h)[item] + 1
    BY <1>4, CopiesAre, PlacesAreFinite, FS_AddElement
<1>7. \A other \in Item : other # item => Copies(h2)[other] = Copies(h)[other]
    BY <1>5, CopiesAre
<1>8. Copies(h2) \in [Item -> Nat] /\ Copies(h) \in [Item -> Nat]
    BY CopiesAre
<1> QED
    BY <1>1, <1>6, <1>7, <1>8 DEF OneMore

-----------------------------------------------------------------------------
(* The loops of __heap_push and __heap_pop.                                  *)

\* An array with the items of h, and the place of the one that moves.
SiftStates(h) ==
    {s \in [items : Seq(Item), at : Nat] :
        Len(s.items) = Len(h) /\ s.at \in 1 .. Len(h) /\ Copies(s.items) = Copies(h)}

RaisingStates(h) == {s \in SiftStates(h) : OrderedBelow(Ranks(s.items), Len(h), s.at)}
LoweringStates(h) == {s \in SiftStates(h) : OrderedAbove(Ranks(s.items), Len(h), s.at)}

LEMMA SwapInState ==
    ASSUME NEW h \in Seq(Item), NEW s \in SiftStates(h), NEW j \in 1 .. Len(h)
    PROVE  [items |-> Swapped(s.items, s.at, j), at |-> j] \in SiftStates(h)
<1>1. /\ s.items \in Seq(Item) /\ Len(s.items) = Len(h) /\ s.at \in 1 .. Len(s.items)
      /\ Copies(s.items) = Copies(h) /\ j \in 1 .. Len(s.items) /\ j \in Nat
    BY DEF SiftStates
<1>2. PICK h2 : h2 = Swapped(s.items, s.at, j)
    OBVIOUS
<1>3. h2 \in Seq(Item) /\ Len(h2) = Len(h) /\ Copies(h2) = Copies(h)
    BY <1>1, <1>2, SwappedIs, SwapKeepsCopies
<1> QED
    BY <1>1, <1>2, <1>3 DEF SiftStates

LEMMA RaisedIs ==
    ASSUME NEW h \in Seq(Item), NEW s \in RaisingStates(h)
    PROVE  /\ Raised(s) \in RaisingStates(h)
           /\ HeapOrdered(s.items) => Raised(s) = s
           /\ ~HeapOrdered(s.items) => s.at > 1 /\ Raised(s).at < s.at
<1>1. PICK items, at : items = s.items /\ at = s.at
    OBVIOUS
<1>2. PICK n \in Nat : n = Len(h)
    OBVIOUS
<1>3. PICK r : r = Ranks(items)
    OBVIOUS
<1>4. /\ s \in SiftStates(h) /\ items \in Seq(Item) /\ Len(items) = n
      /\ at \in 1 .. n /\ OrderedBelow(r, n, at)
    BY <1>1, <1>2, <1>3 DEF RaisingStates, SiftStates
<1>5. r \in [1 .. n -> Int] /\ \A i, j \in 1 .. n : Before(items, i, j) <=> r[i] < r[j]
    BY <1>3, <1>4, RanksAre
<1>6. CASE at > 1 /\ Before(items, at, at \div 2)
  <2>1. PICK p \in Nat : p = at \div 2 /\ p \in 1 .. n /\ p < at
      BY <1>4, <1>6, Halves
  <2>2. PICK h2 : h2 = Swapped(items, at, p)
      OBVIOUS
  <2>3. Raised(s) = [items |-> h2, at |-> p]
      BY <1>1, <1>6, <2>1, <2>2 DEF Raised
  <2>4. [items |-> h2, at |-> p] \in SiftStates(h)
      BY <1>1, <1>2, <1>4, <2>1, <2>2, SwapInState
  <2>5. h2 \in Seq(Item) /\ Len(h2) = n /\ SwapOf(Ranks(h2), r, n, at, p)
      BY <1>3, <1>4, <2>1, <2>2, SwappedIs
  <2>6. Ranks(h2) \in [1 .. n -> Int]
      BY <2>5, RanksAre
  <2>7. r[at] < r[at \div 2] /\ at \in 2 .. n
      BY <1>4, <1>5, <1>6, <2>1
  <2>8. OrderedBelow(Ranks(h2), n, p)
      BY <1>4, <1>5, <2>1, <2>5, <2>6, <2>7, RaisingKeepsOrder
  <2>9. ~HeapOrdered(items)
    <3>1. ~ (r[at \div 2] <= r[at])
        BY <1>5, <2>1, <2>7
    <3> QED
        BY <1>3, <1>4, <2>7, <3>1 DEF HeapOrdered, InOrder
  <2> QED
      BY <1>1, <1>2, <1>6, <2>1, <2>3, <2>4, <2>8, <2>9 DEF RaisingStates
<1>7. CASE ~ (at > 1 /\ Before(items, at, at \div 2))
  <2>1. Raised(s) = s
      BY <1>1, <1>7 DEF Raised
  <2>2. \A j \in 2 .. n : r[j \div 2] <= r[j]
    <3>1. SUFFICES ASSUME NEW j \in 2 .. n PROVE r[j \div 2] <= r[j]
        OBVIOUS
    <3>2. CASE j # at
        BY <1>4, <3>2 DEF OrderedBelow
    <3>3. CASE j = at
      <4>1. PICK p \in Nat : p = j \div 2 /\ p \in 1 .. n
          BY Halves
      <4>2. ~ (r[at] < r[p])
          BY <1>4, <1>5, <1>7, <3>3, <4>1
      <4> QED
          BY <1>4, <1>5, <3>3, <4>1, <4>2
    <3> QED
        BY <3>2, <3>3
  <2>3. HeapOrdered(items)
      BY <1>3, <1>4, <2>2 DEF HeapOrdered, InOrder
  <2> QED
      BY <1>1, <2>1, <2>3
<1> QED
    BY <1>6, <1>7

\* What is in order but for an item that may have to go up is in order after the loop.
LEMMA SiftUpIs ==
    ASSUME NEW h \in Seq(Item), NEW i \in 1 .. Len(h), OrderedBelow(Ranks(h), Len(h), i)
    PROVE  /\ SiftUp(h, i) \in Seq(Item) /\ Len(SiftUp(h, i)) = Len(h)
           /\ Copies(SiftUp(h, i)) = Copies(h)
           /\ HeapOrdered(SiftUp(h, i))
<1> DEFINE S == RaisingStates(h)
           D == [s \in S |-> Raised(s)]
           c == [items |-> h, at |-> i]
           F == {s \in S : HeapOrdered(s.items)}
           m == [s \in S |-> s.at - 1]
<1>1. PICK n \in Nat : n = Len(h)
    OBVIOUS
<1>2. c \in S
    BY DEF RaisingStates, SiftStates
<1>3. D \in [S -> S]
    BY RaisedIs
<1>4. \A s \in S : s.at \in 1 .. n
    BY <1>1 DEF RaisingStates, SiftStates
<1>5. m \in [S -> Nat] /\ m[c] <= n /\ F \subseteq S
    BY <1>1, <1>2, <1>4
<1>6. \A s \in S : m[s] = 0 => s \in F
    BY RaisedIs
<1>7. \A s \in F : D[s] \in F
    BY RaisedIs
<1>8. \A s \in S : s \in F \/ m[D[s]] < m[s]
  <2>1. SUFFICES ASSUME NEW s \in S, s \notin F PROVE m[D[s]] < m[s]
      OBVIOUS
  <2>2. D[s] = Raised(s) /\ Raised(s) \in S /\ Raised(s).at < s.at
      BY <2>1, RaisedIs
  <2> QED
      BY <1>4, <2>2
<1>9. Ending(S, D, c, n, F, m)
  <2> HIDE DEF S, D, c, F, m
  <2> QED
      BY <1>2, <1>3, <1>5, <1>6, <1>7, <1>8 DEF Ending
<1> DEFINE P(g) == g = [turn \in 0 .. Len(h) |->
                          IF turn = 0 THEN [items |-> h, at |-> i] ELSE Raised(g[turn - 1])]
<1>10. \E f : P(f)
  <2>1. PICK f : Solves(D, c, n, f)
      BY LoopDefined
  <2>2. \A k \in 0 .. n : f[k] \in S
    <3> HIDE DEF S, D, c, F, m
    <3> QED
        BY <1>9, <2>1, SolutionFollows, LoopEnds
  <2>3. \A s \in S : D[s] = Raised(s)
      OBVIOUS
  <2>4. \A k \in 0 .. n : k # 0 => D[f[k - 1]] = Raised(f[k - 1])
    <3>1. \A k \in 0 .. n : k # 0 => k - 1 \in 0 .. n
        OBVIOUS
    <3> HIDE DEF S, D
    <3> QED
        BY <2>2, <2>3, <3>1
  <2>5. [k \in 0 .. n |-> IF k = 0 THEN c ELSE D[f[k - 1]]]
            = [k \in 0 .. n |-> IF k = 0 THEN c ELSE Raised(f[k - 1])]
    <3> HIDE DEF c, D
    <3> QED
        BY <2>4
  <2>6. P(f)
      BY <1>1, <2>1, <2>5, Zenon DEF Solves
  <2> QED
      BY <2>6
<1>11. PICK g : P(g) /\ SiftUp(h, i) = g[n].items
  <2>1. SiftUp(h, i) = (CHOOSE g : P(g))[n].items
      BY <1>1, Zenon DEF SiftUp
  <2> HIDE DEF P
  <2> QED
      BY <1>10, <2>1
<1>12. Follows(g, S, D, c, n)
    BY <1>1, <1>11 DEF Follows
<1>13. g[n] \in F
  <2> HIDE DEF S, D, c, F, m, P
  <2> QED
      BY <1>9, <1>12, LoopEnds
<1> QED
    BY <1>11, <1>13 DEF RaisingStates, SiftStates

\* The item and its children: the one that none of them is before.
LEMMA SmallestIs ==
    ASSUME NEW h \in Seq(Item), NEW i \in 1 .. Len(h), NEW n \in Nat, n = Len(h),
           NEW r, r = Ranks(h)
    PROVE  /\ SmallestOf(h, i) \in 1 .. n
           /\ SmallestOf(h, i) # i =>
                 /\ SmallestOf(h, i) \in 2 .. n /\ SmallestOf(h, i) \div 2 = i
                 /\ r[SmallestOf(h, i)] < r[i]
           /\ \A j \in 2 .. n : j \div 2 = i => r[SmallestOf(h, i)] <= r[j]
<1>1. r \in [1 .. n -> Int] /\ \A k, l \in 1 .. n : Before(h, k, l) <=> r[k] < r[l]
    BY RanksAre
<1>2. PICK left \in Nat : left = 2 * i
    OBVIOUS
<1>3. PICK one : one = IF left <= n /\ Before(h, left, i) THEN left ELSE i
    OBVIOUS
<1>4. /\ one \in 1 .. n /\ r[one] <= r[i]
      /\ one # i => one = left /\ r[one] < r[i]
      /\ left <= n => r[one] <= r[left]
  <2>1. r[i] \in Int /\ i \in 1 .. n
      BY <1>1
  <2>2. CASE left <= n /\ Before(h, left, i)
    <3>1. left \in 1 .. n /\ one = left
        BY <1>2, <1>3, <2>2
    <3>2. r[left] < r[i] /\ r[left] \in Int
        BY <1>1, <2>1, <2>2, <3>1
    <3> QED
        BY <2>1, <3>1, <3>2
  <2>3. CASE left <= n /\ ~Before(h, left, i)
    <3>1. left \in 1 .. n /\ one = i
        BY <1>2, <1>3, <2>3
    <3>2. ~ (r[left] < r[i]) /\ r[left] \in Int
        BY <1>1, <2>1, <2>3, <3>1
    <3> QED
        BY <2>1, <3>1, <3>2
  <2>4. CASE ~ (left <= n)
      BY <1>3, <2>1, <2>4
  <2> QED
      BY <2>2, <2>3, <2>4
<1>5. PICK q : q = SmallestOf(h, i)
    OBVIOUS
<1>6. q = IF left + 1 <= n /\ Before(h, left + 1, one) THEN left + 1 ELSE one
    BY <1>2, <1>3, <1>5 DEF SmallestOf
<1>7. /\ q \in 1 .. n /\ r[q] <= r[one]
      /\ q # i => (q = left \/ q = left + 1) /\ r[q] < r[i]
      /\ left + 1 <= n => r[q] <= r[left + 1]
  <2>1. r[i] \in Int /\ r[one] \in Int /\ one \in 1 .. n /\ i \in 1 .. n
      BY <1>1, <1>4
  <2>2. CASE left + 1 <= n /\ Before(h, left + 1, one)
    <3>1. left + 1 \in 1 .. n /\ q = left + 1
        BY <1>2, <1>6, <2>2
    <3>2. r[left + 1] < r[one] /\ r[left + 1] \in Int
        BY <1>1, <2>1, <2>2, <3>1
    <3>3. r[q] < r[one] /\ r[q] \in Int /\ r[one] <= r[i]
        BY <1>4, <3>1, <3>2
    <3>4. r[q] < r[i]
        BY <2>1, <3>3
    <3> QED
        BY <2>1, <3>1, <3>3, <3>4
  <2>3. CASE left + 1 <= n /\ ~Before(h, left + 1, one)
    <3>1. left + 1 \in 1 .. n /\ q = one
        BY <1>2, <1>6, <2>3
    <3>2. ~ (r[left + 1] < r[one]) /\ r[left + 1] \in Int
        BY <1>1, <2>1, <2>3, <3>1
    <3> QED
        BY <1>4, <2>1, <3>1, <3>2
  <2>4. CASE ~ (left + 1 <= n)
    <3>1. q = one
        BY <1>6, <2>4
    <3> QED
        BY <1>4, <2>1, <2>4, <3>1
  <2> QED
      BY <2>2, <2>3, <2>4
<1>8. ASSUME NEW j \in 2 .. n, j \div 2 = i
      PROVE  r[q] <= r[j]
  <2>1. j = left \/ j = left + 1
      BY <1>2, <1>8, Halves
  <2>2. r[j] \in Int /\ r[one] \in Int /\ r[q] \in Int
    <3>1. one \in 1 .. n /\ q \in 1 .. n
        BY <1>4, <1>7
    <3>2. j \in 1 .. n
        BY <1>8
    <3> QED
        BY <1>1, <3>1, <3>2
  <2>3. CASE j = left
    <3>1. r[one] <= r[left] /\ r[q] <= r[one]
        BY <1>2, <1>4, <1>7, <1>8, <2>3
    <3> QED
        BY <2>2, <2>3, <3>1
  <2>4. CASE j = left + 1
      BY <1>7, <2>4
  <2> QED
      BY <2>1, <2>3, <2>4
<1>9. q # i => q \in 2 .. n /\ q \div 2 = i
    BY <1>2, <1>7, HalfIs
<1> QED
    BY <1>5, <1>7, <1>8, <1>9

LEMMA LoweredIs ==
    ASSUME NEW h \in Seq(Item), NEW s \in LoweringStates(h)
    PROVE  /\ Lowered(s) \in LoweringStates(h)
           /\ HeapOrdered(s.items) => HeapOrdered(Lowered(s).items)
           /\ ~HeapOrdered(s.items) => s.at < Len(h) /\ Lowered(s).at > s.at
<1>1. PICK items, at : items = s.items /\ at = s.at
    OBVIOUS
<1>2. PICK n \in Nat : n = Len(h)
    OBVIOUS
<1>3. PICK r : r = Ranks(items)
    OBVIOUS
<1>4. /\ s \in SiftStates(h) /\ items \in Seq(Item) /\ Len(items) = n
      /\ at \in 1 .. n /\ OrderedAbove(r, n, at)
    BY <1>1, <1>2, <1>3 DEF LoweringStates, SiftStates
<1>5. r \in [1 .. n -> Int]
    BY <1>3, <1>4, RanksAre
<1>6. PICK q : q = SmallestOf(items, at)
    OBVIOUS
<1>7. /\ q \in 1 .. n
      /\ q # at => q \in 2 .. n /\ q \div 2 = at /\ r[q] < r[at]
      /\ \A j \in 2 .. n : j \div 2 = at => r[q] <= r[j]
    BY <1>3, <1>4, <1>6, SmallestIs
<1>8. PICK h2 : h2 = Swapped(items, at, q)
    OBVIOUS
<1>9. Lowered(s) = [items |-> h2, at |-> q] /\ Lowered(s) \in SiftStates(h)
    BY <1>1, <1>2, <1>4, <1>6, <1>7, <1>8, SwapInState DEF Lowered
<1>10. h2 \in Seq(Item) /\ Len(h2) = n /\ SwapOf(Ranks(h2), r, n, at, q)
    BY <1>3, <1>4, <1>7, <1>8, SwappedIs
<1>11. Ranks(h2) \in [1 .. n -> Int]
    BY <1>10, RanksAre
<1>12. CASE q # at
  <2>1. OrderedAbove(Ranks(h2), n, q)
      BY <1>4, <1>5, <1>7, <1>10, <1>11, <1>12, LoweringKeepsOrder
  <2>2. ~HeapOrdered(items)
    <3>1. ~ (r[q \div 2] <= r[q])
        BY <1>4, <1>5, <1>7, <1>12
    <3> QED
        BY <1>3, <1>4, <1>7, <1>12, <3>1 DEF HeapOrdered, InOrder
  <2>3. at < q
      BY <1>7, <1>12, Halves
  <2> QED
      BY <1>1, <1>2, <1>7, <1>9, <2>1, <2>2, <2>3 DEF LoweringStates
<1>13. CASE q = at
  <2>1. \A k \in 1 .. n : Ranks(h2)[k] = r[k]
      BY <1>10, <1>13 DEF SwapOf
  <2>2. Ranks(h2) = r
      BY <1>5, <1>11, <2>1
  <2>3. \A j \in 2 .. n : r[j \div 2] <= r[j]
      BY <1>4, <1>7, <1>13 DEF OrderedAbove
  <2>4. HeapOrdered(items) /\ HeapOrdered(h2)
      BY <1>3, <1>4, <1>10, <2>2, <2>3 DEF HeapOrdered, InOrder
  <2> QED
      BY <1>1, <1>2, <1>4, <1>9, <1>13, <2>2, <2>4 DEF LoweringStates
<1> QED
    BY <1>12, <1>13

\* And so is what is in order but for an item that may have to go down.
LEMMA SiftDownIs ==
    ASSUME NEW h \in Seq(Item), NEW i \in 1 .. Len(h), OrderedAbove(Ranks(h), Len(h), i)
    PROVE  /\ SiftDown(h, i) \in Seq(Item) /\ Len(SiftDown(h, i)) = Len(h)
           /\ Copies(SiftDown(h, i)) = Copies(h)
           /\ HeapOrdered(SiftDown(h, i))
<1> DEFINE S == LoweringStates(h)
           D == [s \in S |-> Lowered(s)]
           c == [items |-> h, at |-> i]
           F == {s \in S : HeapOrdered(s.items)}
           m == [s \in S |-> Len(h) - s.at]
<1>1. PICK n \in Nat : n = Len(h)
    OBVIOUS
<1>2. c \in S
    BY DEF LoweringStates, SiftStates
<1>3. D \in [S -> S]
    BY LoweredIs
<1>4. \A s \in S : s.at \in 1 .. n
    BY <1>1 DEF LoweringStates, SiftStates
<1>5. m \in [S -> Nat] /\ m[c] <= n /\ F \subseteq S
    BY <1>1, <1>2, <1>4
<1>6. \A s \in S : m[s] = 0 => s \in F
  <2>1. SUFFICES ASSUME NEW s \in S, m[s] = 0 PROVE HeapOrdered(s.items)
      OBVIOUS
  <2>2. n - s.at = 0
      BY <1>1, <2>1
  <2>3. ~ (s.at < n)
      BY <1>4, <2>2
  <2> QED
      BY <1>1, <2>1, <2>3, LoweredIs
<1>7. \A s \in F : D[s] \in F
    BY LoweredIs
<1>8. \A s \in S : s \in F \/ m[D[s]] < m[s]
  <2>1. SUFFICES ASSUME NEW s \in S, s \notin F PROVE m[D[s]] < m[s]
      OBVIOUS
  <2>2. D[s] = Lowered(s) /\ Lowered(s) \in S /\ Lowered(s).at > s.at
      BY <2>1, LoweredIs
  <2> QED
      BY <1>1, <1>4, <2>2
<1>9. Ending(S, D, c, n, F, m)
  <2> HIDE DEF S, D, c, F, m
  <2> QED
      BY <1>2, <1>3, <1>5, <1>6, <1>7, <1>8 DEF Ending
<1> DEFINE P(g) == g = [turn \in 0 .. Len(h) |->
                          IF turn = 0 THEN [items |-> h, at |-> i] ELSE Lowered(g[turn - 1])]
<1>10. \E f : P(f)
  <2>1. PICK f : Solves(D, c, n, f)
      BY LoopDefined
  <2>2. \A k \in 0 .. n : f[k] \in S
    <3> HIDE DEF S, D, c, F, m
    <3> QED
        BY <1>9, <2>1, SolutionFollows, LoopEnds
  <2>3. \A s \in S : D[s] = Lowered(s)
      OBVIOUS
  <2>4. \A k \in 0 .. n : k # 0 => D[f[k - 1]] = Lowered(f[k - 1])
    <3>1. \A k \in 0 .. n : k # 0 => k - 1 \in 0 .. n
        OBVIOUS
    <3> HIDE DEF S, D
    <3> QED
        BY <2>2, <2>3, <3>1
  <2>5. [k \in 0 .. n |-> IF k = 0 THEN c ELSE D[f[k - 1]]]
            = [k \in 0 .. n |-> IF k = 0 THEN c ELSE Lowered(f[k - 1])]
    <3> HIDE DEF c, D
    <3> QED
        BY <2>4
  <2>6. P(f)
      BY <1>1, <2>1, <2>5, Zenon DEF Solves
  <2> QED
      BY <2>6
<1>11. PICK g : P(g) /\ SiftDown(h, i) = g[n].items
  <2>1. SiftDown(h, i) = (CHOOSE g : P(g))[n].items
      BY <1>1, Zenon DEF SiftDown
  <2> HIDE DEF P
  <2> QED
      BY <1>10, <2>1
<1>12. Follows(g, S, D, c, n)
    BY <1>1, <1>11 DEF Follows
<1>13. g[n] \in F
  <2> HIDE DEF S, D, c, F, m, P
  <2> QED
      BY <1>9, <1>12, LoopEnds
<1> QED
    BY <1>11, <1>13 DEF LoweringStates, SiftStates

-----------------------------------------------------------------------------
(* Pushing and popping.                                                      *)

LEMMA HeapPushIs ==
    ASSUME NEW h \in Seq(Item), HeapOrdered(h), NEW p \in Priorities, NEW x \in Values
    PROVE  /\ HeapPush(h, p, x) \in Seq(Item) /\ HeapOrdered(HeapPush(h, p, x))
           /\ OneMore(Copies(HeapPush(h, p, x)), Copies(h), <<p, x>>)
<1>1. PICK item \in Item : item = <<p, x>>
    BY DEF Item
<1>2. PICK n \in Nat : n = Len(h)
    OBVIOUS
<1>3. PICK h2 : h2 = Append(h, item)
    OBVIOUS
<1>4. h2 \in Seq(Item) /\ Len(h2) = n + 1 /\ \A k \in 1 .. n : h2[k] = h[k]
    BY <1>2, <1>3
<1>5. \A k \in 1 .. n : Ranks(h2)[k] = Ranks(h)[k]
    BY <1>2, <1>4 DEF Ranks
<1>6. OrderedBelow(Ranks(h2), n + 1, n + 1)
  <2>1. ASSUME NEW j \in 2 .. n + 1
        PROVE  j \div 2 \in 1 .. n /\ j \div 2 < j
      BY Halves
  <2>2. ASSUME NEW j \in 2 .. n + 1, j # n + 1
        PROVE  Ranks(h2)[j \div 2] <= Ranks(h2)[j]
    <3>1. j \in 2 .. n /\ j \in 1 .. n
        BY <2>2
    <3>2. Ranks(h)[j \div 2] <= Ranks(h)[j]
        BY <1>2, <3>1 DEF HeapOrdered, InOrder
    <3> QED
        BY <1>5, <2>1, <3>1, <3>2
  <2> QED
      BY <2>1, <2>2 DEF OrderedBelow
<1>7. HeapPush(h, p, x) = SiftUp(h2, n + 1)
    BY <1>1, <1>2, <1>3 DEF HeapPush
<1>8. n + 1 \in 1 .. Len(h2) /\ OrderedBelow(Ranks(h2), Len(h2), n + 1)
    BY <1>4, <1>6
<1>9. OneMore(Copies(h2), Copies(h), item)
    BY <1>3, AppendCopies
<1> QED
    BY <1>1, <1>4, <1>7, <1>8, <1>9, SiftUpIs

LEMMA HeapPopIs ==
    ASSUME NEW h \in Seq(Item), HeapOrdered(h), h # <<>>
    PROVE  /\ HeapPop(h) \in Seq(Item) /\ HeapOrdered(HeapPop(h))
           /\ OneMore(Copies(h), Copies(HeapPop(h)), h[1])
<1>1. PICK n \in Nat : n = Len(h) /\ n > 0
    OBVIOUS
<1>2. h[1] \in Item /\ h[n] \in Item
    BY <1>1
<1>3. CASE n = 1
  <2>1. <<>> \in Seq(Item) /\ Append(<<>>, h[1]) = h
    <3>1. PICK a : a = Append(<<>>, h[1])
        OBVIOUS
    <3>2. a \in Seq(Item) /\ Len(a) = n /\ a[1] = h[1]
        BY <1>2, <1>3, <3>1
    <3>3. \A k \in 1 .. n : a[k] = h[k]
        BY <1>3, <3>2
    <3>4. a = h
        BY <1>1, <3>2, <3>3
    <3> QED
        BY <3>1, <3>4
  <2>2. OneMore(Copies(h), Copies(<<>>), h[1])
    <3>1. PICK e \in Seq(Item) : e = <<>>
        BY <2>1
    <3>2. PICK item \in Item : item = h[1]
        BY <1>2
    <3>3. OneMore(Copies(Append(e, item)), Copies(e), item)
        BY AppendCopies
    <3> QED
        BY <2>1, <3>1, <3>2, <3>3
  <2>3. HeapOrdered(<<>>)
      BY DEF HeapOrdered, InOrder
  <2> QED
      BY <1>1, <1>3, <2>1, <2>2, <2>3 DEF HeapPop
<1>4. CASE n > 1
  <2>1. PICK g : g = [Front(h) EXCEPT ![1] = Last(h)]
      OBVIOUS
  <2>2. Front(h) \in Seq(Item) /\ Len(Front(h)) = n - 1 /\ Last(h) = h[n]
        /\ \A k \in 1 .. n - 1 : Front(h)[k] = h[k]
      BY <1>1, <1>4 DEF Front, Last
  <2>3. g \in Seq(Item) /\ Len(g) = n - 1 /\ g[1] = h[n] /\ \A k \in 2 .. n - 1 : g[k] = h[k]
      BY <1>2, <1>4, <2>1, <2>2
  <2>4. Append(g, h[1]) = Swapped(h, 1, n)
    <3>1. PICK a, b : a = Append(g, h[1]) /\ b = Swapped(h, 1, n)
        OBVIOUS
    <3>2. a \in Seq(Item) /\ Len(a) = n /\ a[n] = h[1] /\ \A k \in 1 .. n - 1 : a[k] = g[k]
        BY <1>1, <1>2, <2>3, <3>1
    <3>3. b \in Seq(Item) /\ Len(b) = n /\ SwapOf(b, h, n, 1, n)
        BY <1>1, <1>4, <3>1, SwappedIs
    <3>4. \A k \in 1 .. n : a[k] = b[k]
      <4>1. SUFFICES ASSUME NEW k \in 1 .. n PROVE a[k] = b[k]
          OBVIOUS
      <4>2. k = 1 \/ k = n \/ k \in 2 .. n - 1
          OBVIOUS
      <4> QED
          BY <1>4, <2>3, <3>2, <3>3, <4>2 DEF SwapOf
    <3>5. a = b
        BY <3>2, <3>3, <3>4
    <3> QED
        BY <3>1, <3>5
  <2>5. Copies(Swapped(h, 1, n)) = Copies(h)
      BY <1>1, <1>4, SwapKeepsCopies
  <2>6. OneMore(Copies(h), Copies(g), h[1])
      BY <1>2, <2>3, <2>4, <2>5, AppendCopies
  <2>7. OrderedAbove(Ranks(g), n - 1, 1)
    <3>1. ASSUME NEW j \in 2 .. n - 1, j \div 2 # 1
          PROVE  Ranks(g)[j \div 2] <= Ranks(g)[j]
      <4>1. j \div 2 \in 2 .. n - 1 /\ j \div 2 \in 1 .. n - 1 /\ j \in 1 .. n - 1
          BY <3>1, Halves
      <4>2. Ranks(g)[j \div 2] = Ranks(h)[j \div 2] /\ Ranks(g)[j] = Ranks(h)[j]
          BY <1>1, <2>3, <4>1 DEF Ranks
      <4>3. j \in 2 .. n
          BY <1>1
      <4> QED
          BY <1>1, <4>2, <4>3 DEF HeapOrdered, InOrder
    <3> QED
        BY <3>1 DEF OrderedAbove
  <2>8. HeapPop(h) = SiftDown(g, 1)
      BY <1>1, <1>4, <2>1 DEF HeapPop
  <2>9. 1 \in 1 .. Len(g) /\ OrderedAbove(Ranks(g), Len(g), 1)
      BY <1>4, <2>3, <2>7
  <2> QED
      BY <2>3, <2>6, <2>8, <2>9, SiftDownIs
<1> QED
    BY <1>1, <1>3, <1>4

-----------------------------------------------------------------------------
(* The queue.                                                                *)

QueueOK(q) ==
    /\ q = [cells |-> q.cells, head |-> q.head, tail |-> q.tail]
    /\ q.head \in Nat /\ q.head >= 1 /\ q.tail \in Nat /\ q.head <= q.tail + 1
    /\ q.cells \in [q.head .. q.tail -> Values]

LEMMA LineIs ==
    ASSUME NEW q, QueueOK(q)
    PROVE  /\ Line(q) \in Seq(Values) /\ Len(Line(q)) = q.tail + 1 - q.head
           /\ \A i \in 1 .. Len(Line(q)) : Line(q)[i] = q.cells[q.head + i - 1]
<1>1. PICK n \in Nat : n = q.tail + 1 - q.head
    BY DEF QueueOK
<1>2. \A i \in 1 .. n : q.cells[q.head + i - 1] \in Values
  <2>1. \A i \in 1 .. n : q.head + i - 1 \in q.head .. q.tail
      BY <1>1 DEF QueueOK
  <2> QED
      BY <2>1 DEF QueueOK
<1>3. Line(q) = [i \in 1 .. n |-> q.cells[q.head + i - 1]]
    BY <1>1 DEF Line, QueueSize
<1> QED
    BY <1>1, <1>2, <1>3

LEMMA NewQueueIs == QueueOK(NewQueue) /\ Line(NewQueue) = <<>>
<1>1. QueueOK(NewQueue)
    BY DEF QueueOK, NewQueue
<1>2. Line(NewQueue) \in Seq(Values) /\ Len(Line(NewQueue)) = 0
    BY <1>1, LineIs DEF NewQueue
<1> QED
    BY <1>1, <1>2

LEMMA QueuePushIs ==
    ASSUME NEW q, QueueOK(q), NEW x \in Values
    PROVE  QueueOK(QueuePush(q, x)) /\ Line(QueuePush(q, x)) = Append(Line(q), x)
<1>1. PICK cells, head, tail : cells = q.cells /\ head = q.head /\ tail = q.tail
    OBVIOUS
<1>2. /\ q = [cells |-> cells, head |-> head, tail |-> tail]
      /\ head \in Nat /\ head >= 1 /\ tail \in Nat /\ head <= tail + 1
      /\ cells \in [head .. tail -> Values]
    BY <1>1 DEF QueueOK
<1>3. PICK more : more = [i \in DOMAIN cells \union {tail + 1} |->
                            IF i = tail + 1 THEN x ELSE cells[i]]
    OBVIOUS
<1>4. /\ more \in [head .. tail + 1 -> Values] /\ more[tail + 1] = x
      /\ \A i \in head .. tail : more[i] = cells[i]
  <2>1. DOMAIN cells \union {tail + 1} = head .. tail + 1
      BY <1>2
  <2> QED
      BY <1>2, <1>3, <2>1
<1>5. PICK q2 : q2 = [cells |-> more, head |-> head, tail |-> tail + 1]
    OBVIOUS
<1>6. q2 = QueuePush(q, x)
    BY <1>1, <1>3, <1>5 DEF QueuePush
<1>7. QueueOK(q2)
    BY <1>2, <1>4, <1>5 DEF QueueOK
<1>8. PICK n \in Nat : n = tail + 1 - head
    BY <1>2
<1>9. /\ Line(q) \in Seq(Values) /\ Len(Line(q)) = n
      /\ \A i \in 1 .. n : Line(q)[i] = cells[head + i - 1]
    BY <1>1, <1>8, LineIs
<1>10. /\ Line(q2) \in Seq(Values) /\ Len(Line(q2)) = n + 1
       /\ \A i \in 1 .. n + 1 : Line(q2)[i] = more[head + i - 1]
    BY <1>2, <1>5, <1>7, <1>8, LineIs
<1>11. PICK a : a = Append(Line(q), x)
    OBVIOUS
<1>12. a \in Seq(Values) /\ Len(a) = n + 1 /\ a[n + 1] = x /\ \A i \in 1 .. n : a[i] = Line(q)[i]
    BY <1>9, <1>11
<1>13. \A i \in 1 .. n + 1 : Line(q2)[i] = a[i]
  <2>1. SUFFICES ASSUME NEW i \in 1 .. n + 1 PROVE Line(q2)[i] = a[i]
      OBVIOUS
  <2>2. CASE i = n + 1
    <3>1. head + i - 1 = tail + 1
        BY <1>2, <1>8, <2>2
    <3> QED
        BY <1>4, <1>10, <1>12, <2>2, <3>1
  <2>3. CASE i # n + 1
    <3>1. i \in 1 .. n /\ head + i - 1 \in head .. tail
        BY <1>2, <1>8, <2>3
    <3> QED
        BY <1>4, <1>9, <1>10, <1>12, <3>1
  <2> QED
      BY <2>2, <2>3
<1>14. Line(q2) = a
    BY <1>10, <1>12, <1>13
<1> QED
    BY <1>6, <1>7, <1>11, <1>14

LEMMA QueuePopIs ==
    ASSUME NEW q, QueueOK(q)
    PROVE  /\ QueueIsEmpty(q) <=> Line(q) = <<>>
           /\ ~QueueIsEmpty(q) =>
                 /\ QueueOK(QueuePop(q)) /\ Line(QueuePop(q)) = Tail(Line(q))
                 /\ Head(Line(q)) = q.cells[q.head]
<1>1. PICK cells, head, tail : cells = q.cells /\ head = q.head /\ tail = q.tail
    OBVIOUS
<1>2. /\ q = [cells |-> cells, head |-> head, tail |-> tail]
      /\ head \in Nat /\ head >= 1 /\ tail \in Nat /\ head <= tail + 1
      /\ cells \in [head .. tail -> Values]
    BY <1>1 DEF QueueOK
<1>3. PICK n \in Nat : n = tail + 1 - head
    BY <1>2
<1>4. PICK line : line = Line(q)
    OBVIOUS
<1>5. /\ line \in Seq(Values) /\ Len(line) = n
      /\ \A i \in 1 .. n : line[i] = cells[head + i - 1]
    BY <1>1, <1>3, <1>4, LineIs
<1>6. QueueIsEmpty(q) <=> line = <<>>
  <2>1. QueueIsEmpty(q) <=> n = 0
      BY <1>1, <1>2, <1>3 DEF QueueIsEmpty
  <2> QED
      BY <1>5, <2>1
<1>7. ASSUME ~QueueIsEmpty(q)
      PROVE  /\ QueueOK(QueuePop(q)) /\ Line(QueuePop(q)) = Tail(line)
             /\ Head(line) = cells[head]
  <2>1. n >= 1 /\ head <= tail
      BY <1>1, <1>2, <1>3, <1>7 DEF QueueIsEmpty
  <2>2. PICK less : less = [i \in DOMAIN cells \ {head} |-> cells[i]]
      OBVIOUS
  <2>3. DOMAIN cells \ {head} = head + 1 .. tail
      BY <1>2
  <2>4. less \in [head + 1 .. tail -> Values] /\ \A i \in head + 1 .. tail : less[i] = cells[i]
      BY <1>2, <2>2, <2>3
  <2>5. PICK q2 : q2 = [cells |-> less, head |-> head + 1, tail |-> tail]
      OBVIOUS
  <2>6. q2 = QueuePop(q)
      BY <1>1, <2>2, <2>5 DEF QueuePop
  <2>7. QueueOK(q2)
      BY <1>2, <2>1, <2>4, <2>5 DEF QueueOK
  <2>8. /\ Line(q2) \in Seq(Values) /\ Len(Line(q2)) = n - 1
        /\ \A i \in 1 .. n - 1 : Line(q2)[i] = less[head + i]
    <3>1. /\ Line(q2) \in Seq(Values) /\ Len(Line(q2)) = q2.tail + 1 - q2.head
          /\ \A i \in 1 .. Len(Line(q2)) : Line(q2)[i] = q2.cells[q2.head + i - 1]
        BY <2>7, LineIs
    <3>2. q2.tail + 1 - q2.head = n - 1
        BY <1>2, <1>3, <2>5
    <3>3. \A i \in 1 .. n - 1 : q2.head + i - 1 = head + i /\ q2.cells = less
        BY <1>2, <2>5
    <3> QED
        BY <3>1, <3>2, <3>3
  <2>9. PICK t : t = Tail(line)
      OBVIOUS
  <2>10. t \in Seq(Values) /\ Len(t) = n - 1 /\ \A i \in 1 .. n - 1 : t[i] = line[i + 1]
      BY <1>5, <2>1, <2>9
  <2>11. \A i \in 1 .. n - 1 : Line(q2)[i] = t[i]
    <3>1. SUFFICES ASSUME NEW i \in 1 .. n - 1 PROVE Line(q2)[i] = t[i]
        OBVIOUS
    <3>2. i + 1 \in 1 .. n /\ head + (i + 1) - 1 = head + i /\ head + i \in head + 1 .. tail
        BY <1>2, <1>3
    <3>3. t[i] = line[i + 1] /\ line[i + 1] = cells[head + i]
        BY <1>5, <2>10, <3>2
    <3>4. Line(q2)[i] = less[head + i] /\ less[head + i] = cells[head + i]
        BY <2>4, <2>8, <3>2
    <3> QED
        BY <3>3, <3>4
  <2>12. Line(q2) = t
      BY <2>1, <2>8, <2>10, <2>11
  <2>13. Head(line) = cells[head]
    <3>1. 1 \in 1 .. n /\ head + 1 - 1 = head
        BY <1>2, <2>1
    <3> QED
        BY <1>5, <3>1
  <2> QED
      BY <2>6, <2>7, <2>9, <2>12, <2>13
<1> QED
    BY <1>1, <1>4, <1>6, <1>7

-----------------------------------------------------------------------------
(* The containers and what they promise.                                     *)

\* The inductive invariant: the array is a heap, and the cells of the queue are those
\* between its two positions.
ContainersInv == heap \in Seq(Item) /\ HeapOrdered(heap) /\ QueueOK(queue)

LEMMA InitContainers == ContainersInit => ContainersInv /\ Promised!Init
<1> SUFFICES ASSUME ContainersInit
             PROVE  ContainersInv /\ Promised!Init
    OBVIOUS
<1>1. heap = <<>> /\ queue = NewQueue /\ returned = Nothing
    BY DEF ContainersInit, ContainersIdle
<1>2. heap \in Seq(Item) /\ HeapOrdered(heap)
    BY <1>1 DEF HeapOrdered, InOrder
<1>3. Copies(heap) = [item \in Item |-> 0]
    BY <1>1, NoCopies
<1> QED
    BY <1>1, <1>2, <1>3, NewQueueIs DEF ContainersInv, Promised!Init, Promised!Nothing, Nothing, Item

LEMMA PushHeapStep ==
    ASSUME ContainersInv, NEW p \in Priorities, NEW x \in Values, PushHeap(p, x)
    PROVE  ContainersInv' /\ Promised!AddWaiting(p, x)
<1>1. /\ heap' = HeapPush(heap, p, x) /\ returned' = Nothing /\ queue' = queue
    BY DEF PushHeap
<1>2. /\ HeapPush(heap, p, x) \in Seq(Item) /\ HeapOrdered(HeapPush(heap, p, x))
      /\ OneMore(Copies(HeapPush(heap, p, x)), Copies(heap), <<p, x>>)
    BY HeapPushIs DEF ContainersInv
<1>3. ContainersInv'
    BY <1>1, <1>2 DEF ContainersInv
<1>4. Copies(heap)' = [Copies(heap) EXCEPT ![<<p, x>>] = @ + 1]
    BY <1>1, <1>2 DEF OneMore
<1>5. Line(queue)' = Line(queue)
    BY <1>1
<1> QED
    BY <1>1, <1>3, <1>4, <1>5 DEF Promised!AddWaiting, Promised!Nothing, Nothing

LEMMA PopHeapStep ==
    ASSUME ContainersInv, PopHeap
    PROVE  ContainersInv' /\ Promised!TakeLowest
<1>1. /\ returned' = IF heap = <<>> THEN Nothing ELSE Result(heap[1])
      /\ heap' = HeapPop(heap) /\ queue' = queue
    BY DEF PopHeap
<1>2. heap \in Seq(Item) /\ HeapOrdered(heap) /\ QueueOK(queue) /\ Line(queue)' = Line(queue)
    BY <1>1 DEF ContainersInv
<1>3. Promised!InBag = {item \in Item : Copies(heap)[item] > 0}
    BY DEF Promised!InBag, Item
<1>4. CASE heap = <<>>
  <2>1. heap' = heap /\ returned' = Nothing
      BY <1>1, <1>4 DEF HeapPop
  <2>2. Promised!InBag = {}
      BY <1>3, <1>4, NoCopies
  <2> QED
      BY <1>1, <1>2, <2>1, <2>2 DEF ContainersInv, Promised!TakeLowest, Promised!Nothing, Nothing
<1>5. CASE heap # <<>>
  <2>1. PICK n \in Nat : n = Len(heap) /\ n > 0
      BY <1>2, <1>5
  <2>2. PICK top \in Item : top = heap[1]
      BY <1>2, <2>1
  <2>3. /\ HeapPop(heap) \in Seq(Item) /\ HeapOrdered(HeapPop(heap))
        /\ OneMore(Copies(heap), Copies(HeapPop(heap)), top)
      BY <1>2, <1>5, <2>2, HeapPopIs
  <2>4. ContainersInv'
      BY <1>1, <1>2, <2>3 DEF ContainersInv
  <2>5. top \in Promised!InBag
    <3>1. 1 \in 1 .. Len(heap)
        BY <2>1
    <3> QED
        BY <1>2, <1>3, <2>2, <3>1, CopiesExist
  <2>6. ASSUME NEW other \in Promised!InBag
        PROVE  top[1] <= other[1]
    <3>1. PICK k \in 1 .. n : heap[k] = other
        BY <1>2, <1>3, <2>1, CopiesExist
    <3>2. Ranks(heap) \in [1 .. n -> Int] /\ InOrder(Ranks(heap), n)
        BY <1>2, <2>1, RanksAre DEF HeapOrdered
    <3>3. Ranks(heap)[1] <= Ranks(heap)[k]
        BY <3>2, FirstIsLowest
    <3>4. Ranks(heap)[1] = top[1] /\ Ranks(heap)[k] = other[1]
        BY <2>1, <2>2, <3>1 DEF Ranks
    <3> QED
        BY <3>3, <3>4
  <2>7. Copies(heap)' = [Copies(heap) EXCEPT ![top] = @ - 1]
    <3>1. PICK c, d : c = Copies(heap) /\ d = Copies(HeapPop(heap))
        OBVIOUS
    <3>2. c \in [Item -> Nat] /\ d \in [Item -> Nat]
        BY <1>2, <2>3, <3>1, CopiesAre
    <3>3. c = [d EXCEPT ![top] = @ + 1]
        BY <2>3, <3>1 DEF OneMore
    <3>4. \A item \in Item : d[item] = [c EXCEPT ![top] = @ - 1][item]
        BY <3>2, <3>3
    <3>5. d = [c EXCEPT ![top] = @ - 1]
        BY <3>2, <3>4
    <3> QED
        BY <1>1, <3>1, <3>5
  <2>8. returned' = Promised!Given(top)
      BY <1>1, <1>5, <2>2 DEF Promised!Given, Result
  <2> QED
      BY <1>2, <2>4, <2>5, <2>6, <2>7, <2>8 DEF Promised!TakeLowest
<1> QED
    BY <1>4, <1>5

LEMMA PushQueueStep ==
    ASSUME ContainersInv, NEW x \in Values, PushQueue(x)
    PROVE  ContainersInv' /\ Promised!JoinLine(x)
<1>1. queue' = QueuePush(queue, x) /\ returned' = Nothing /\ heap' = heap
    BY DEF PushQueue
<1>2. QueueOK(QueuePush(queue, x)) /\ Line(QueuePush(queue, x)) = Append(Line(queue), x)
    BY QueuePushIs DEF ContainersInv
<1> QED
    BY <1>1, <1>2 DEF ContainersInv, Promised!JoinLine, Promised!Nothing, Nothing

LEMMA PopQueueStep ==
    ASSUME ContainersInv, PopQueue
    PROVE  ContainersInv' /\ Promised!LeaveLine
<1>1. /\ IF QueueIsEmpty(queue) THEN returned' = Nothing /\ queue' = queue
         ELSE returned' = Result(queue.cells[queue.head]) /\ queue' = QueuePop(queue)
      /\ heap' = heap
    BY DEF PopQueue
<1>2. /\ QueueIsEmpty(queue) <=> Line(queue) = <<>>
      /\ ~QueueIsEmpty(queue) =>
            /\ QueueOK(QueuePop(queue)) /\ Line(QueuePop(queue)) = Tail(Line(queue))
            /\ Head(Line(queue)) = queue.cells[queue.head]
    BY QueuePopIs DEF ContainersInv
<1>3. Copies(heap)' = Copies(heap)
    BY <1>1
<1>4. CASE QueueIsEmpty(queue)
    BY <1>1, <1>2, <1>3, <1>4 DEF ContainersInv, Promised!LeaveLine, Promised!Nothing, Nothing
<1>5. CASE ~QueueIsEmpty(queue)
  <2>1. /\ Line(queue)' = Tail(Line(queue)) /\ Line(queue) # <<>>
        /\ returned' = Promised!Given(Head(Line(queue)))
      BY <1>1, <1>2, <1>5 DEF Promised!Given, Result
  <2>2. ContainersInv'
      BY <1>1, <1>2, <1>5 DEF ContainersInv
  <2> QED
      BY <1>3, <2>1, <2>2 DEF Promised!LeaveLine
<1> QED
    BY <1>4, <1>5

LEMMA StepContainers ==
    ContainersInv /\ [ContainersNext]_containerVars =>
        ContainersInv' /\ [Promised!Next]_<<Copies(heap), Line(queue), returned>>
<1> SUFFICES ASSUME ContainersInv, [ContainersNext]_containerVars
             PROVE  ContainersInv' /\ [Promised!Next]_<<Copies(heap), Line(queue), returned>>
    OBVIOUS
<1>1. ASSUME NEW p \in Priorities, NEW x \in Values, PushHeap(p, x)
      PROVE  ContainersInv' /\ Promised!Next
    BY <1>1, PushHeapStep DEF Promised!Next
<1>2. CASE PopHeap
    BY <1>2, PopHeapStep DEF Promised!Next
<1>3. ASSUME NEW x \in Values, PushQueue(x)
      PROVE  ContainersInv' /\ Promised!Next
    BY <1>3, PushQueueStep DEF Promised!Next
<1>4. CASE PopQueue
    BY <1>4, PopQueueStep DEF Promised!Next
<1>5. CASE UNCHANGED containerVars
    BY <1>5 DEF containerVars, ContainersInv
<1> QED
    BY <1>1, <1>2, <1>3, <1>4, <1>5 DEF ContainersNext

(* However pushes and pops follow one another, the heap gives back an item of the
   lowest priority among those that are in it, each as often as it was pushed, and the
   queue what was pushed first (__heap_push, __heap_pop, __queue_push and __queue_pop
   of std/prelude.hern): the array and the table implement the bag and the line. *)
THEOREM ContainersKeepTheirPromise == ContainersSpec => ImplementsContainers
BY InitContainers, StepContainers, PTL DEF ContainersSpec, ImplementsContainers, Promised!Spec
=============================================================================
