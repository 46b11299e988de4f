---------------------------- MODULE PendingProofs ----------------------------
(***************************************************************************)
(* What the operations on the queue of validations do to its documents,    *)
(* for any number of them: the lemmas that MainLoopProofs and LspProofs    *)
(* rest on.  Where a definition is recursive the induction is an argument   *)
(* about the least index at which a fact would fail.                       *)
(***************************************************************************)
EXTENDS PendingValidations, TLAPS, FiniteSetTheorems, SequenceTheorems,
        WellFoundedInduction

\* Every nonempty set of natural numbers has a least member.
LEMMA LeastIndex ==
    ASSUME NEW S \in SUBSET Nat, S # {}
    PROVE  \E m \in S : \A k \in S : m <= k
<1> DEFINE T == {0 .. (k - 1) : k \in S}
<1>1. T \subseteq FiniteSubsetsOf(Nat) /\ T # {}
  <2>1. \A k \in S : IsFiniteSet(0 .. (k - 1))
      BY FS_Interval
  <2>2. PICK k \in S : TRUE
      OBVIOUS
  <2>3. 0 .. (k - 1) \in T
      OBVIOUS
  <2>4. \A j \in S : 0 .. (j - 1) \in FiniteSubsetsOf(Nat)
      BY <2>1 DEF FiniteSubsetsOf
  <2> QED
      BY <2>3, <2>4
<1>2. IsWellFoundedOn(StrictSubsetOrdering(Nat), FiniteSubsetsOf(Nat))
    BY FS_StrictSubsetOrderingWellFounded
<1>3. PICK x \in T : \A y \in T : ~(<<y, x>> \in StrictSubsetOrdering(Nat))
  <2> HIDE DEF T
  <2> QED
      BY <1>1, <1>2, WFMin
<1>4. PICK m \in S : x = 0 .. (m - 1)
    BY <1>3
<1>5. ASSUME NEW k \in S, k < m
      PROVE  FALSE
  <2>1. 0 .. (k - 1) \in T
      OBVIOUS
  <2>2. 0 .. (k - 1) \subseteq x /\ 0 .. (k - 1) # x
    <3>1. k \in x /\ k \notin 0 .. (k - 1)
        BY <1>4, <1>5
    <3> QED
        BY <1>4, <1>5, <3>1
  <2>3. x \in SUBSET Nat /\ 0 .. (k - 1) \in SUBSET Nat
      BY <1>4
  <2> HIDE DEF T
  <2>4. <<0 .. (k - 1), x>> \in StrictSubsetOrdering(Nat)
      BY <2>2, <2>3 DEF StrictSubsetOrdering
  <2> QED
      BY <1>3, <2>1, <2>4
<1> QED
    BY <1>5

-----------------------------------------------------------------------------
(* Kept and Without.                                                       *)

\* f answers the recursive equation of Kept on its first n members.
SolvesKept(seq, S, n, f) ==
    f = [k \in 0 .. n |->
            IF k = 0 THEN <<>>
            ELSE IF seq[k] \in S THEN f[k - 1]
            ELSE Append(f[k - 1], seq[k])]

LEMMA KeptDefined ==
    ASSUME NEW seq, NEW S, NEW n \in Nat
    PROVE  \E f : SolvesKept(seq, S, n, f)
<1> DEFINE Fails == {j \in Nat : ~ \E f : SolvesKept(seq, S, j, f)}
<1>1. SUFFICES ASSUME Fails # {} PROVE FALSE
    OBVIOUS
<1>2. PICK j \in Fails : \A i \in Fails : j <= i
    BY <1>1, LeastIndex
<1>3. CASE j = 0
  <2> DEFINE f == [k \in 0 .. 0 |-> <<>>]
  <2>1. SolvesKept(seq, S, 0, f)
      BY DEF SolvesKept
  <2> QED
      BY <1>2, <1>3, <2>1
<1>4. CASE j # 0
  <2>1. j - 1 \in Nat /\ j - 1 \notin Fails /\ j \in Nat
      BY <1>2, <1>4
  <2>2. PICK f : SolvesKept(seq, S, j - 1, f)
      BY <2>1
  <2> DEFINE g == [k \in 0 .. j |->
                     IF k < j THEN f[k]
                     ELSE IF seq[k] \in S THEN f[k - 1]
                     ELSE Append(f[k - 1], seq[k])]
  <2> DEFINE h == [k \in 0 .. j |->
                     IF k = 0 THEN <<>>
                     ELSE IF seq[k] \in S THEN g[k - 1]
                     ELSE Append(g[k - 1], seq[k])]
  <2>3. \A k \in 0 .. j : g[k] = h[k]
    <3>1. SUFFICES ASSUME NEW k \in 0 .. j PROVE g[k] = h[k]
        OBVIOUS
    <3>2. CASE k = j
      <4>1. g[k - 1] = f[k - 1] /\ k # 0 /\ ~(k < j)
          BY <1>4, <2>1, <3>2
      <4> QED
          BY <3>1, <4>1
    <3>3. CASE k < j /\ k = 0
      <4>1. f[k] = <<>>
          BY <2>1, <2>2, <3>3 DEF SolvesKept
      <4> QED
          BY <3>1, <3>3, <4>1
    <3>4. CASE k < j /\ k # 0
      <4>1. k \in 0 .. j - 1 /\ k - 1 \in 0 .. j /\ k - 1 < j
          BY <2>1, <3>4
      <4>2. f[k] = IF seq[k] \in S THEN f[k - 1] ELSE Append(f[k - 1], seq[k])
          BY <2>2, <3>4, <4>1 DEF SolvesKept
      <4>3. g[k] = f[k] /\ g[k - 1] = f[k - 1]
          BY <3>4, <4>1
      <4> QED
          BY <3>4, <4>2, <4>3
    <3> QED
        BY <2>1, <3>2, <3>3, <3>4
  <2>4. g = h
      BY <2>3
  <2>5. SolvesKept(seq, S, j, g)
      BY <2>4 DEF SolvesKept
  <2> QED
      BY <1>2, <2>5
<1> QED
    BY <1>3, <1>4

LEMMA KeptEquation ==
    ASSUME NEW seq \in Seq(Doc), NEW S
    PROVE  /\ Kept(seq, S)[0] = <<>>
           /\ \A k \in 1 .. Len(seq) :
                 Kept(seq, S)[k] = IF seq[k] \in S THEN Kept(seq, S)[k - 1]
                                   ELSE Append(Kept(seq, S)[k - 1], seq[k])
<1>1. PICK n \in Nat : n = Len(seq)
    OBVIOUS
<1>2. SolvesKept(seq, S, n, Kept(seq, S))
  <2> DEFINE P(f) == f = [k \in 0 .. Len(seq) |->
                            IF k = 0 THEN <<>>
                            ELSE IF seq[k] \in S THEN f[k - 1]
                            ELSE Append(f[k - 1], seq[k])]
  <2>0. PICK f : SolvesKept(seq, S, n, f)
      BY KeptDefined
  <2>1. \E g : P(g)
      BY <1>1, <2>0 DEF SolvesKept
  <2>2. Kept(seq, S) = CHOOSE g : P(g)
      BY Zenon DEF Kept
  <2>3. P(Kept(seq, S))
    <3> HIDE DEF P
    <3> QED
        BY <2>1, <2>2
  <2> QED
      BY <1>1, <2>3 DEF SolvesKept
<1>3. PICK f : f = Kept(seq, S)
    OBVIOUS
<1>4. \A k \in 0 .. n : f[k] = IF k = 0 THEN <<>>
                               ELSE IF seq[k] \in S THEN f[k - 1]
                               ELSE Append(f[k - 1], seq[k])
    BY <1>2, <1>3, Zenon DEF SolvesKept
<1>5. f[0] = <<>> /\ \A k \in 1 .. n : f[k] = IF seq[k] \in S THEN f[k - 1]
                                            ELSE Append(f[k - 1], seq[k])
  <2>1. 0 \in 0 .. n /\ \A k \in 1 .. n : k \in 0 .. n /\ k # 0
      OBVIOUS
  <2> QED
      BY <1>4, <2>1, Zenon
<1> QED
    BY <1>1, <1>3, <1>5

\* The first k members of seq.
Firsts(seq, k) == {seq[i] : i \in 1 .. k}

\* What a recursive step makes of the sequence before it.
MakesOf(before, after, seq, S, k) ==
    /\ k \in 1 .. Len(seq)
    /\ before \in Seq(Doc)
    /\ ToSet(before) = Firsts(seq, k - 1) \ S
    /\ after = IF seq[k] \in S THEN before ELSE Append(before, seq[k])

\* A recursive step: one more member is dropped or kept.
LEMMA KeptStep ==
    ASSUME NEW seq \in Seq(Doc), NEW S, NEW k, NEW before, NEW after,
           MakesOf(before, after, seq, S, k)
    PROVE  /\ after \in Seq(Doc)
           /\ ToSet(after) = Firsts(seq, k) \ S
           /\ Len(after) <= Len(before) + 1
           /\ IsInjective(seq) /\ IsInjective(before) => IsInjective(after)
<1> USE DEF MakesOf
<1>1. Firsts(seq, k) = Firsts(seq, k - 1) \union {seq[k]} /\ seq[k] \in Doc
  <2>1. 1 .. k = 1 .. (k - 1) \union {k}
      OBVIOUS
  <2> QED
      BY <2>1 DEF Firsts
<1>2. CASE seq[k] \in S
    BY <1>1, <1>2
<1>3. CASE seq[k] \notin S
  <2>1. PICK n \in Nat : n = Len(before) /\ DOMAIN before = 1 .. n
      OBVIOUS
  <2>2. /\ after \in Seq(Doc) /\ Len(after) = n + 1 /\ DOMAIN after = 1 .. (n + 1)
        /\ \A i \in 1 .. n : after[i] = before[i]
        /\ after[n + 1] = seq[k]
      BY <1>1, <1>3, <2>1
  <2>3. ToSet(after) = ToSet(before) \union {seq[k]}
    <3>1. 1 .. (n + 1) = 1 .. n \union {n + 1}
        BY <2>1
    <3> QED
        BY <2>1, <2>2, <3>1 DEF ToSet
  <2>4. ASSUME IsInjective(seq), IsInjective(before)
        PROVE  IsInjective(after)
    <3>1. \A i \in 1 .. n : before[i] # seq[k]
      <4>1. SUFFICES ASSUME NEW i \in 1 .. n, before[i] = seq[k]
                     PROVE  FALSE
          OBVIOUS
      <4>2. seq[k] \in Firsts(seq, k - 1)
          BY <2>1, <4>1 DEF ToSet
      <4>3. PICK j \in 1 .. (k - 1) : seq[j] = seq[k]
          BY <4>2 DEF Firsts
      <4>4. j \in DOMAIN seq /\ k \in DOMAIN seq /\ j # k
          OBVIOUS
      <4> QED
          BY <2>4, <4>3, <4>4 DEF IsInjective
    <3>2. SUFFICES ASSUME NEW i \in 1 .. (n + 1), NEW j \in 1 .. (n + 1), after[i] = after[j]
                   PROVE  i = j
        BY <2>2 DEF IsInjective
    <3>3. CASE i \in 1 .. n /\ j \in 1 .. n
        BY <2>1, <2>2, <2>4, <3>2, <3>3 DEF IsInjective
    <3>4. CASE i = n + 1 \/ j = n + 1
        BY <2>1, <2>2, <3>1, <3>2, <3>4
    <3> QED
        BY <2>1, <3>3, <3>4
  <2> QED
      BY <1>1, <1>3, <2>1, <2>2, <2>3, <2>4
<1> QED
    BY <1>2, <1>3

LEMMA KeptIs ==
    ASSUME NEW seq \in Seq(Doc), NEW S
    PROVE  \A k \in 0 .. Len(seq) :
               /\ Kept(seq, S)[k] \in Seq(Doc)
               /\ ToSet(Kept(seq, S)[k]) = Firsts(seq, k) \ S
               /\ IsInjective(seq) => IsInjective(Kept(seq, S)[k])
<1>0. PICK n \in Nat : n = Len(seq)
    OBVIOUS
<1>1. PICK f : n = Len(seq) /\ f = Kept(seq, S)
    BY <1>0
<1> DEFINE Right(k) == /\ f[k] \in Seq(Doc)
                       /\ ToSet(f[k]) = Firsts(seq, k) \ S
                       /\ IsInjective(seq) => IsInjective(f[k])
<1> DEFINE Fails == {k \in 0 .. n : ~Right(k)}
<1>2. SUFFICES ASSUME Fails # {} PROVE FALSE
    BY <1>1
<1>3. PICK k \in Fails : \A i \in Fails : k <= i
  <2>1. Fails \in SUBSET Nat
      OBVIOUS
  <2> QED
      BY <1>2, <2>1, LeastIndex
<1>4. CASE k = 0
  <2>1. f[0] = <<>>
      BY <1>1, KeptEquation
  <2>2. Right(0)
      BY <2>1 DEF ToSet, Firsts, IsInjective
  <2> QED
      BY <1>3, <1>4, <2>2
<1>5. CASE k # 0
  <2>1. k \in 1 .. n /\ k - 1 \in 0 .. n /\ Right(k - 1)
      BY <1>3, <1>5
  <2>2. f[k] = IF seq[k] \in S THEN f[k - 1] ELSE Append(f[k - 1], seq[k])
      BY <1>1, <2>1, KeptEquation
  <2>3. PICK before, after : before = f[k - 1] /\ after = f[k]
      OBVIOUS
  <2>6. before \in Seq(Doc) /\ ToSet(before) = Firsts(seq, k - 1) \ S /\ k \in 1 .. Len(seq)
      BY <1>1, <2>1, <2>3
  <2>7. after = IF seq[k] \in S THEN before ELSE Append(before, seq[k])
      BY <2>2, <2>3
  <2>4. /\ after \in Seq(Doc)
        /\ ToSet(after) = Firsts(seq, k) \ S
        /\ IsInjective(seq) /\ IsInjective(before) => IsInjective(after)
    <3> HIDE DEF Fails, Right
    <3>1. PICK j : j = k
        OBVIOUS
    <3>2. j \in 1 .. Len(seq) /\ before \in Seq(Doc) /\ ToSet(before) = Firsts(seq, j - 1) \ S
        BY <2>6, <3>1
    <3>3. after = IF seq[j] \in S THEN before ELSE Append(before, seq[j])
        BY <2>7, <3>1
    <3> HIDE DEF Firsts
    <3>4. MakesOf(before, after, seq, S, j)
        BY <3>2, <3>3, Zenon DEF MakesOf
    <3>5. /\ after \in Seq(Doc)
          /\ ToSet(after) = Firsts(seq, j) \ S
          /\ Len(after) <= Len(before) + 1
          /\ IsInjective(seq) /\ IsInjective(before) => IsInjective(after)
        BY <3>4, KeptStep, Zenon
    <3> QED
        BY <3>1, <3>5
  <2>5. Right(k)
      BY <2>1, <2>3, <2>4
  <2> QED
      BY <1>3, <2>5
<1> QED
    BY <1>4, <1>5

LEMMA KeptGrows ==
    ASSUME NEW seq \in Seq(Doc), NEW S, NEW k \in 1 .. Len(seq)
    PROVE  Len(Kept(seq, S)[k]) <= Len(Kept(seq, S)[k - 1]) + 1
<1>1. PICK before, after : before = Kept(seq, S)[k - 1] /\ after = Kept(seq, S)[k]
    OBVIOUS
<1>2. k - 1 \in 0 .. Len(seq)
    OBVIOUS
<1>3. before \in Seq(Doc) /\ ToSet(before) = Firsts(seq, k - 1) \ S
    BY <1>1, <1>2, KeptIs
<1>4. after = IF seq[k] \in S THEN before ELSE Append(before, seq[k])
    BY <1>1, KeptEquation
<1>5. MakesOf(before, after, seq, S, k)
    BY <1>3, <1>4, Zenon DEF MakesOf
<1> QED
    BY <1>1, <1>3, <1>5, KeptStep

LEMMA WithoutIs ==
    ASSUME NEW seq \in Seq(Doc), NEW S
    PROVE  /\ Without(seq, S) \in Seq(Doc)
           /\ ToSet(Without(seq, S)) = ToSet(seq) \ S
           /\ IsInjective(seq) => IsInjective(Without(seq, S))
<1>1. Len(seq) \in 0 .. Len(seq) /\ Firsts(seq, Len(seq)) = ToSet(seq)
    BY DEF Firsts, ToSet
<1>2. /\ Kept(seq, S)[Len(seq)] \in Seq(Doc)
      /\ ToSet(Kept(seq, S)[Len(seq)]) = Firsts(seq, Len(seq)) \ S
      /\ IsInjective(seq) => IsInjective(Kept(seq, S)[Len(seq)])
    BY <1>1, KeptIs
<1> QED
    BY <1>1, <1>2 DEF Without

-----------------------------------------------------------------------------
(* The order in which a set of documents is inserted.                      *)

LEMMA OrderIs ==
    ASSUME NEW S \in SUBSET Doc, NEW order \in SetToSeqs(S)
    PROVE  order \in Seq(Doc) /\ ToSet(order) = S /\ IsInjective(order)
<1>1. IsFiniteSet(S) /\ Cardinality(S) \in Nat
    BY DocAssumption, FS_Subset, FS_CardinalityType
<1>2. PICK n \in Nat : n = Cardinality(S)
    BY <1>1
<1>3. /\ order \in [1 .. n -> S]
      /\ \A i, j \in 1 .. n : i # j => order[i] # order[j]
    BY <1>2 DEF SetToSeqs
<1>4. IsInjective(order)
    BY <1>3 DEF IsInjective
<1>5. order \in Injection(1 .. n, S)
    BY <1>3, <1>4 DEF Injection
<1>6. IsFiniteSet(1 .. n) /\ Cardinality(1 .. n) = n
    BY FS_Interval
<1>7. order \in Surjection(1 .. n, S)
    BY <1>1, <1>2, <1>5, <1>6, FS_Injection
<1>8. ToSet(order) = S
    BY <1>3, <1>7 DEF Surjection, ToSet
<1>9. order \in Seq(Doc)
    BY <1>3
<1> QED
    BY <1>4, <1>8, <1>9

LEMMA ReverseIs ==
    ASSUME NEW seq \in Seq(Doc)
    PROVE  /\ Reverse(seq) \in Seq(Doc)
           /\ ToSet(Reverse(seq)) = ToSet(seq)
           /\ IsInjective(seq) => IsInjective(Reverse(seq))
<1>1. PICK n \in Nat : n = Len(seq) /\ DOMAIN seq = 1 .. n
    OBVIOUS
<1>2. PICK r : r = [i \in 1 .. n |-> seq[(n - i) + 1]]
    OBVIOUS
<1>3. Reverse(seq) = r
    BY <1>1, <1>2 DEF Reverse
<1>4. \A i \in 1 .. n : (n - i) + 1 \in 1 .. n /\ (n - ((n - i) + 1)) + 1 = i
    OBVIOUS
<1>5. r \in Seq(Doc) /\ DOMAIN r = 1 .. n /\ \A i \in 1 .. n : r[i] = seq[(n - i) + 1]
    BY <1>1, <1>2, <1>4
<1>6. ToSet(r) = ToSet(seq)
  <2>1. \A i \in 1 .. n : r[i] \in ToSet(seq)
      BY <1>1, <1>4, <1>5 DEF ToSet
  <2>2. \A i \in 1 .. n : r[(n - i) + 1] = seq[i] /\ (n - i) + 1 \in DOMAIN r
      BY <1>4, <1>5
  <2>3. \A i \in 1 .. n : seq[i] \in ToSet(r)
      BY <2>2 DEF ToSet
  <2> QED
      BY <1>1, <1>5, <2>1, <2>3 DEF ToSet
<1>7. ASSUME IsInjective(seq), NEW a \in 1 .. n, NEW b \in 1 .. n, r[a] = r[b]
      PROVE  a = b
  <2>1. seq[(n - a) + 1] = seq[(n - b) + 1]
      BY <1>5, <1>7
  <2>2. (n - a) + 1 = (n - b) + 1
      BY <1>1, <1>4, <1>7, <2>1 DEF IsInjective
  <2> QED
      BY <2>2
<1>8. IsInjective(seq) => IsInjective(r)
    BY <1>5, <1>7 DEF IsInjective
<1> QED
    BY <1>3, <1>5, <1>6, <1>8

LEMMA ConcatIs ==
    ASSUME NEW s \in Seq(Doc), NEW t \in Seq(Doc)
    PROVE  /\ s \o t \in Seq(Doc)
           /\ ToSet(s \o t) = ToSet(s) \union ToSet(t)
           /\ (IsInjective(s) /\ IsInjective(t) /\ ToSet(s) \intersect ToSet(t) = {})
                  => IsInjective(s \o t)
<1>1. PICK m \in Nat, n \in Nat : /\ m = Len(s) /\ DOMAIN s = 1 .. m
                                  /\ n = Len(t) /\ DOMAIN t = 1 .. n
    OBVIOUS
<1>2. PICK u : u = s \o t
    OBVIOUS
<1>3. /\ u \in Seq(Doc) /\ Len(u) = m + n /\ DOMAIN u = 1 .. (m + n)
      /\ \A i \in 1 .. m : u[i] = s[i]
      /\ \A i \in (m + 1) .. (m + n) : u[i] = t[i - m]
    BY <1>1, <1>2
<1>4. \A i \in 1 .. (m + n) : i \in 1 .. m \/ (i \in (m + 1) .. (m + n) /\ i - m \in 1 .. n)
    OBVIOUS
<1>5. ToSet(u) = ToSet(s) \union ToSet(t)
  <2>1. ToSet(u) \subseteq ToSet(s) \union ToSet(t)
    <3>1. \A i \in 1 .. m : u[i] \in ToSet(s)
        BY <1>1, <1>3 DEF ToSet
    <3>2. \A i \in 1 .. n : t[i] \in ToSet(t)
        BY <1>1 DEF ToSet
    <3>3. \A i \in 1 .. (m + n) : u[i] \in ToSet(s) \union ToSet(t)
        BY <1>3, <1>4, <3>1, <3>2
    <3> QED
        BY <1>3, <3>3 DEF ToSet
  <2>2. ToSet(s) \subseteq ToSet(u)
      BY <1>1, <1>3 DEF ToSet
  <2>3. \A i \in 1 .. n : i + m \in (m + 1) .. (m + n) /\ i + m \in 1 .. (m + n) /\ (i + m) - m = i
      OBVIOUS
  <2>4. ToSet(t) \subseteq ToSet(u)
    <3>1. \A i \in 1 .. n : u[i + m] = t[i] /\ i + m \in DOMAIN u
        BY <1>3, <2>3
    <3>2. \A i \in 1 .. n : t[i] \in ToSet(u)
        BY <3>1 DEF ToSet
    <3> QED
        BY <1>1, <3>2 DEF ToSet
  <2> QED
      BY <2>1, <2>2, <2>4
<1>6. ASSUME IsInjective(s), IsInjective(t), ToSet(s) \intersect ToSet(t) = {}
      PROVE  IsInjective(u)
  <2>1. SUFFICES ASSUME NEW i \in 1 .. (m + n), NEW j \in 1 .. (m + n), u[i] = u[j]
                 PROVE  i = j
      BY <1>3 DEF IsInjective
  <2>2. CASE i \in 1 .. m /\ j \in 1 .. m
      BY <1>1, <1>3, <1>6, <2>1, <2>2 DEF IsInjective
  <2>3. CASE i \in (m + 1) .. (m + n) /\ j \in (m + 1) .. (m + n)
    <3>1. t[i - m] = t[j - m] /\ i - m \in DOMAIN t /\ j - m \in DOMAIN t
        BY <1>1, <1>3, <2>1, <2>3
    <3>2. i - m = j - m
        BY <1>6, <3>1 DEF IsInjective
    <3> QED
        BY <3>2
  <2>4. \A k \in 1 .. m : s[k] \in ToSet(s)
      BY <1>1 DEF ToSet
  <2>5. \A k \in 1 .. n : t[k] \in ToSet(t)
      BY <1>1 DEF ToSet
  <2>6. CASE i \in 1 .. m /\ j \in (m + 1) .. (m + n)
      BY <1>3, <1>4, <1>6, <2>1, <2>4, <2>5, <2>6
  <2>7. CASE j \in 1 .. m /\ i \in (m + 1) .. (m + n)
      BY <1>3, <1>4, <1>6, <2>1, <2>4, <2>5, <2>7
  <2> QED
      BY <1>4, <2>1, <2>2, <2>3, <2>6, <2>7
<1> QED
    BY <1>2, <1>3, <1>5, <1>6

-----------------------------------------------------------------------------
(* The queue.                                                              *)

\* recent_first lists the entries, each once; the timer runs while there are some.
Consistent(queue) ==
    /\ queue \in Queue
    /\ IsInjective(queue.recent_first)
    /\ ToSet(queue.recent_first) = queue.entries
    /\ queue.first_queued = "none" <=> queue.entries = {}

LEMMA QueueFields ==
    ASSUME NEW queue \in Queue
    PROVE  /\ queue.entries \in SUBSET Doc
           /\ queue.recent_first \in Seq(Doc)
           /\ queue.first_queued \in Timer
BY DEF Queue

LEMMA EmptyIsConsistent == Consistent(EmptyQueue)
BY DEF Consistent, EmptyQueue, Queue, Timer, IsInjective, ToSet

\* insert, repeated: the documents of S join the queue and no other leaves it.
LEMMA ExtendedIs ==
    ASSUME NEW queue, Consistent(queue), NEW S \in SUBSET Doc,
           NEW queue2 \in Extended(queue, S)
    PROVE  /\ Consistent(queue2)
           /\ queue2.entries = queue.entries \union S
<1>1. PICK order \in SetToSeqs(S) : queue2 = ExtendedBy(queue, order)
    BY DEF Extended
<1>2. order \in Seq(Doc) /\ ToSet(order) = S /\ IsInjective(order)
    BY OrderIs
<1>3. /\ queue \in Queue /\ queue.recent_first \in Seq(Doc) /\ queue.entries \in SUBSET Doc
      /\ queue.first_queued \in Timer
    BY QueueFields DEF Consistent
<1>4. PICK rest : rest = Without(queue.recent_first, S)
    OBVIOUS
<1>5. rest \in Seq(Doc) /\ ToSet(rest) = queue.entries \ S /\ IsInjective(rest)
    BY <1>3, <1>4, WithoutIs DEF Consistent
<1>6. PICK front : front = Reverse(order)
    OBVIOUS
<1>7. front \in Seq(Doc) /\ ToSet(front) = S /\ IsInjective(front)
    BY <1>2, <1>6, ReverseIs
<1>8. /\ front \o rest \in Seq(Doc)
      /\ ToSet(front \o rest) = queue.entries \union S
      /\ IsInjective(front \o rest)
  <2>1. ToSet(front) \intersect ToSet(rest) = {}
      BY <1>5, <1>7
  <2> QED
      BY <1>5, <1>7, <2>1, ConcatIs
<1>9. PICK timer : timer = IF order = <<>> THEN queue.first_queued ELSE TimerAfterInsert(queue)
    OBVIOUS
<1>10. queue2 = [entries |-> queue.entries \union S, recent_first |-> front \o rest,
                 first_queued |-> timer]
    BY <1>1, <1>2, <1>4, <1>6, <1>9 DEF ExtendedBy
<1>11. timer \in Timer /\ (timer = "none" <=> queue.entries \union S = {})
  <2>1. CASE order = <<>>
    <3>1. S = {}
        BY <1>2, <2>1 DEF ToSet
    <3> QED
        BY <1>3, <1>9, <2>1, <3>1 DEF Consistent
  <2>2. CASE order # <<>>
    <3>1. S # {}
      <4>1. 1 \in DOMAIN order
          BY <1>2, <2>2
      <4> QED
          BY <1>2, <4>1 DEF ToSet
    <3>2. timer = TimerAfterInsert(queue)
        BY <1>9, <2>2
    <3> QED
        BY <1>3, <3>1, <3>2 DEF Consistent, TimerAfterInsert, Timer
  <2> QED
      BY <2>1, <2>2
<1>12. queue2 \in Queue
    BY <1>3, <1>8, <1>10, <1>11 DEF Queue
<1> QED
    BY <1>8, <1>10, <1>11, <1>12 DEF Consistent

LEMMA RemovedIs ==
    ASSUME NEW queue, Consistent(queue), NEW S
    PROVE  /\ Consistent(Removed(queue, S))
           /\ Removed(queue, S).entries = queue.entries \ S
<1>1. /\ queue \in Queue /\ queue.recent_first \in Seq(Doc) /\ queue.entries \in SUBSET Doc
      /\ queue.first_queued \in Timer
    BY QueueFields DEF Consistent
<1>2. PICK rest : rest = Without(queue.recent_first, S)
    OBVIOUS
<1>3. rest \in Seq(Doc) /\ ToSet(rest) = queue.entries \ S /\ IsInjective(rest)
    BY <1>1, <1>2, WithoutIs DEF Consistent
<1>4. PICK timer : timer = IF queue.entries \subseteq S THEN "none" ELSE queue.first_queued
    OBVIOUS
<1>5. timer \in Timer /\ (timer = "none" <=> queue.entries \ S = {})
    BY <1>1, <1>4 DEF Consistent, Timer
<1>6. Removed(queue, S) = [entries |-> queue.entries \ S, recent_first |-> rest,
                           first_queued |-> timer]
    BY <1>2, <1>4 DEF Removed
<1>7. PICK queue2 : queue2 = Removed(queue, S)
    OBVIOUS
<1>8. queue2 \in Queue
    BY <1>1, <1>3, <1>5, <1>6, <1>7 DEF Queue
<1> QED
    BY <1>3, <1>5, <1>6, <1>7, <1>8 DEF Consistent

\* The first number of pops after which the batch is full or nothing is left.
LEMMA PoppedIs ==
    ASSUME NEW queue, queue \in Queue
    PROVE  Popped(queue) \in 0 .. Len(queue.recent_first)
<1>0. PICK n \in Nat : n = Len(queue.recent_first)
    BY QueueFields
<1>1. PICK taken : n = Len(queue.recent_first) /\ taken = Taken(queue)
    BY <1>0
<1>2. /\ taken[0] = <<>>
      /\ \A k \in 0 .. n : Len(taken[k]) \in Nat
      /\ \A k \in 1 .. n : Len(taken[k]) <= Len(taken[k - 1]) + 1
  <2>1. queue.recent_first \in Seq(Doc)
      BY QueueFields
  <2>2. \A k \in 0 .. n : taken[k] \in Seq(Doc)
      BY <1>1, <2>1, KeptIs DEF Taken
  <2>3. taken[0] = <<>>
      BY <1>1, <2>1, KeptEquation DEF Taken
  <2>4. \A k \in 1 .. n : Len(taken[k]) <= Len(taken[k - 1]) + 1
      BY <1>1, <2>1, KeptGrows DEF Taken
  <2> QED
      BY <2>2, <2>3, <2>4
<1> DEFINE Stops == {k \in 0 .. n : k = n \/ Len(taken[k]) >= MaxBatch}
<1>3. PICK k \in Stops : \A i \in Stops : k <= i
  <2>1. Stops \in SUBSET Nat /\ n \in Stops
      OBVIOUS
  <2> QED
      BY <2>1, LeastIndex
<1>4. \A i \in 0 .. (k - 1) : Len(taken[i]) < MaxBatch
    BY <1>2, <1>3, MaxBatchAssumption
<1>5. k = n \/ Len(taken[k]) = MaxBatch
  <2>1. SUFFICES ASSUME k # n PROVE Len(taken[k]) = MaxBatch
      OBVIOUS
  <2>2. Len(taken[k]) >= MaxBatch /\ k \in 0 .. n
      BY <1>3, <2>1
  <2>3. k # 0
      BY <1>2, <2>2, MaxBatchAssumption
  <2>4. k - 1 \in 0 .. (k - 1) /\ k \in 1 .. n /\ k - 1 \in 0 .. n
      BY <2>2, <2>3
  <2>5. PICK a \in Nat, b \in Nat : a = Len(taken[k]) /\ b = Len(taken[k - 1])
      BY <1>2, <2>2, <2>4
  <2>6. a <= b + 1 /\ b < MaxBatch /\ a >= MaxBatch
      BY <1>2, <1>4, <2>2, <2>4, <2>5
  <2> QED
      BY <2>5, <2>6, MaxBatchAssumption
<1>6. \E m \in 0 .. n : /\ m = n \/ Len(taken[m]) = MaxBatch
                        /\ \A i \in 0 .. (m - 1) : Len(taken[i]) < MaxBatch
    BY <1>3, <1>4, <1>5
<1> HIDE DEF Stops
<1> QED
    BY <1>1, <1>6 DEF Popped

\* drain_next_batch: the batch leaves the queue and nothing else does.
LEMMA DrainedIs ==
    ASSUME NEW queue, Consistent(queue)
    PROVE  /\ Consistent(Drained(queue))
           /\ Drained(queue).entries = queue.entries \ ToSet(Batch(queue))
           /\ Batch(queue) \in Seq(Doc)
           /\ ToSet(Batch(queue)) \subseteq queue.entries
           /\ IsInjective(Batch(queue))
<1>1. /\ queue \in Queue /\ queue.recent_first \in Seq(Doc) /\ queue.entries \in SUBSET Doc
      /\ IsInjective(queue.recent_first) /\ ToSet(queue.recent_first) = queue.entries
    BY QueueFields DEF Consistent
<1>2. PICK n \in Nat, seq \in Seq(Doc) : seq = queue.recent_first /\ n = Len(seq)
    BY <1>1
<1>3. PICK p \in 0 .. n : p = Popped(queue)
    BY <1>1, <1>2, PoppedIs
<1>4. PICK batch : batch = Batch(queue)
    OBVIOUS
<1>5. batch = Kept(seq, Doc \ queue.entries)[p]
    BY <1>2, <1>3, <1>4 DEF Batch, Taken
<1>6. /\ batch \in Seq(Doc) /\ IsInjective(batch)
      /\ ToSet(batch) = Firsts(seq, p) \ (Doc \ queue.entries)
    BY <1>1, <1>2, <1>5, KeptIs
<1>7. Firsts(seq, p) \subseteq queue.entries /\ ToSet(batch) = Firsts(seq, p)
  <2>1. Firsts(seq, p) \subseteq ToSet(seq)
      BY <1>2, <1>3 DEF Firsts, ToSet
  <2> QED
      BY <1>1, <1>2, <1>6, <2>1
<1>8. PICK rest : rest = SubSeq(seq, p + 1, n)
    OBVIOUS
<1>9. /\ rest \in Seq(Doc) /\ DOMAIN rest = 1 .. (n - p)
      /\ \A i \in 1 .. (n - p) : rest[i] = seq[p + i] /\ p + i \in 1 .. n
  <2>1. /\ p + 1 \in Int /\ n \in Int /\ (n - (p + 1)) + 1 = n - p /\ n - p \in Nat
        /\ \A i \in 1 .. (n - p) : p + i \in 1 .. n /\ (p + 1) + i - 1 = p + i
    <3>1. p \in Int /\ p <= n /\ p >= 0
        BY <1>3
    <3>2. n - p \in Nat /\ p + 1 \in Int /\ (n - (p + 1)) + 1 = n - p
        BY <3>1
    <3>3. \A i \in 1 .. (n - p) : p + i \in 1 .. n /\ (p + 1) + i - 1 = p + i
        BY <3>1
    <3> QED
        BY <3>2, <3>3
  <2>2. rest = [i \in 1 .. (n - p) |-> seq[p + i]]
      BY <1>2, <1>8, <2>1
  <2> QED
      BY <1>2, <2>1, <2>2
<1>10. IsInjective(rest)
  <2>1. SUFFICES ASSUME NEW i \in 1 .. (n - p), NEW j \in 1 .. (n - p), rest[i] = rest[j]
                 PROVE  i = j
      BY <1>9 DEF IsInjective
  <2>2. seq[p + i] = seq[p + j] /\ p + i \in DOMAIN seq /\ p + j \in DOMAIN seq
      BY <1>2, <1>9, <2>1
  <2>3. p + i = p + j
      BY <1>1, <1>2, <2>2 DEF IsInjective
  <2> QED
      BY <2>3
<1>11. ToSet(rest) = queue.entries \ ToSet(batch)
  <2>1. \A i \in 1 .. (n - p) : rest[i] \in ToSet(seq) /\ rest[i] \notin Firsts(seq, p)
    <3>1. SUFFICES ASSUME NEW i \in 1 .. (n - p)
                   PROVE  rest[i] \in ToSet(seq) /\ rest[i] \notin Firsts(seq, p)
        OBVIOUS
    <3>2. rest[i] = seq[p + i] /\ p + i \in DOMAIN seq
        BY <1>2, <1>9
    <3>3. ASSUME NEW j \in 1 .. p, seq[j] = seq[p + i]
          PROVE  FALSE
      <4>1. j \in DOMAIN seq /\ j # p + i
          BY <1>2, <1>3
      <4> QED
          BY <1>1, <1>2, <3>2, <3>3, <4>1 DEF IsInjective
    <3> QED
        BY <3>2, <3>3 DEF ToSet, Firsts
  <2>2. \A d \in ToSet(seq) : d \in Firsts(seq, p) \/ d \in ToSet(rest)
    <3>1. SUFFICES ASSUME NEW k \in 1 .. n
                   PROVE  seq[k] \in Firsts(seq, p) \/ seq[k] \in ToSet(rest)
        BY <1>2 DEF ToSet
    <3>2. CASE k \in 1 .. p
        BY <3>2 DEF Firsts
    <3>3. CASE k \notin 1 .. p
      <4>1. k - p \in 1 .. (n - p) /\ p + (k - p) = k
          BY <1>3, <3>3
      <4>2. rest[k - p] = seq[k]
          BY <1>9, <4>1
      <4> QED
          BY <1>9, <4>1, <4>2 DEF ToSet
    <3> QED
        BY <3>2, <3>3
  <2>3. ToSet(rest) \subseteq ToSet(seq) \ Firsts(seq, p)
      BY <1>9, <2>1 DEF ToSet
  <2> QED
      BY <1>1, <1>2, <1>7, <2>2, <2>3
<1>12. PICK left : left = queue.entries \ ToSet(batch)
    OBVIOUS
<1>13. PICK timer : timer = IF left = {} THEN "none" ELSE "fresh"
    OBVIOUS
<1>14. Drained(queue) = [entries |-> left, recent_first |-> rest, first_queued |-> timer]
    BY <1>2, <1>3, <1>4, <1>8, <1>12, <1>13 DEF Drained
<1>15. timer \in Timer /\ (timer = "none" <=> left = {})
    BY <1>13 DEF Timer
<1>16. PICK queue2 : queue2 = Drained(queue)
    OBVIOUS
<1>17. queue2 \in Queue
    BY <1>1, <1>9, <1>12, <1>14, <1>15, <1>16 DEF Queue
<1>18. Consistent(queue2) /\ queue2.entries = left
    BY <1>9, <1>10, <1>11, <1>12, <1>14, <1>15, <1>16, <1>17 DEF Consistent
<1> QED
    BY <1>4, <1>6, <1>7, <1>12, <1>16, <1>18
=============================================================================
