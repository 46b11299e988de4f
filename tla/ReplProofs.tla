------------------------------ MODULE ReplProofs ------------------------------
(***************************************************************************)
(* For any files and any inputs, in any number and any order, the session  *)
(* that replays its source is the one the user has in mind:                *)
(*                                                                         *)
(*   ReplayAlwaysIsTheSession   ReplayIsTheSession                          *)
(***************************************************************************)
EXTENDS Repl, TLAPS, FiniteSetTheorems, SequenceTheorems, WellFoundedInduction

\* Every nonempty set of natural numbers has a least member.
LEMMA LeastIndex ==
    ASSUME NEW S \in SUBSET Nat, S # {}
    PROVE  \E m \in S : \A k \in S : m <= k
<1> DEFINE T == {0 .. (k - 1) : k \in S}
<1>1. T \subseteq FiniteSubsetsOf(Nat) /\ T # {}
  <2>1. \A k \in S : IsFiniteSet(0 .. (k - 1))
      BY FS_Interval
  <2>2. PICK k \in S : TRUE
      OBVIOUS
  <2>3. 0 .. (k - 1) \in T
      OBVIOUS
  <2>4. \A j \in S : 0 .. (j - 1) \in FiniteSubsetsOf(Nat)
      BY <2>1 DEF FiniteSubsetsOf
  <2> QED
      BY <2>3, <2>4
<1>2. IsWellFoundedOn(StrictSubsetOrdering(Nat), FiniteSubsetsOf(Nat))
    BY FS_StrictSubsetOrderingWellFounded
<1>3. PICK x \in T : \A y \in T : ~(<<y, x>> \in StrictSubsetOrdering(Nat))
  <2> HIDE DEF T
  <2> QED
      BY <1>1, <1>2, WFMin
<1>4. PICK m \in S : x = 0 .. (m - 1)
    BY <1>3
<1>5. ASSUME NEW k \in S, k < m
      PROVE  FALSE
  <2>1. 0 .. (k - 1) \in T
      OBVIOUS
  <2>2. 0 .. (k - 1) \subseteq x /\ 0 .. (k - 1) # x
    <3>1. k \in x /\ k \notin 0 .. (k - 1)
        BY <1>4, <1>5
    <3> QED
        BY <1>4, <1>5, <3>1
  <2>3. x \in SUBSET Nat /\ 0 .. (k - 1) \in SUBSET Nat
      BY <1>4
  <2> HIDE DEF T
  <2>4. <<0 .. (k - 1), x>> \in StrictSubsetOrdering(Nat)
      BY <2>2, <2>3 DEF StrictSubsetOrdering
  <2> QED
      BY <1>3, <2>1, <2>4
<1> QED
    BY <1>5

LEMMA Counting ==
    ASSUME NEW N \in Nat, NEW S, 0 \in S, \A n \in 1 .. N : n - 1 \in S => n \in S
    PROVE  N \in S
<1> DEFINE Left == (0 .. N) \ S
<1>1. SUFFICES ASSUME Left # {} PROVE FALSE
    OBVIOUS
<1>2. PICK n \in Left : \A i \in Left : n <= i
  <2>1. Left \in SUBSET Nat
      OBVIOUS
  <2> HIDE DEF Left
  <2> QED
      BY <1>1, <2>1, LeastIndex
<1>3. n \in 1 .. N /\ n - 1 \in 0 .. N /\ n - 1 \notin Left
    BY <1>2
<1> QED
    BY <1>3

-----------------------------------------------------------------------------
(* What is made of a text is made of it statement by statement: its         *)
(* analysis, its run, what persists of it and what it declares, all four    *)
(* at once.                                                                *)

Started(start) ==
    [env  |-> NoTypes,
     run  |-> [ok |-> start.ok, values |-> start.values, out |-> <<>>],
     kept |-> <<>>,
     decl |-> <<>>]

Kept(stmts, s) == IF IsTransient(s) THEN stmts ELSE Append(stmts, s)
Declared(stmts, s) == IF s.stmt # "let" THEN stmts ELSE Append(stmts, s)

Turned(x, s) ==
    [env  |-> Typed(x.env, s),
     run  |-> Ran(x.run, s),
     kept |-> Kept(x.kept, s),
     decl |-> Declared(x.decl, s)]

Results(start, stmts) ==
    [env  |-> AnalyzeSource(stmts),
     run  |-> Execute(start, stmts),
     kept |-> Persistent(stmts),
     decl |-> Declarations(stmts)]

\* f has what is made of the first n statements.
Solves(start, stmts, n, f) ==
    f = [k \in 0 .. n |-> IF k = 0 THEN Started(start) ELSE Turned(f[k - 1], stmts[k])]

LEMMA SolutionExists ==
    ASSUME NEW start, NEW stmts, NEW n \in Nat
    PROVE  \E f : Solves(start, stmts, n, f)
<1> DEFINE Fails0 == {j \in Nat : ~ \E f : Solves(start, stmts, j, f)}
<1>1. SUFFICES ASSUME Fails0 # {} PROVE FALSE
    OBVIOUS
<1>2. PICK j \in Fails0 : \A i \in Fails0 : j <= i
    BY <1>1, LeastIndex
<1>3. CASE j = 0
  <2> DEFINE f == [k \in 0 .. 0 |-> Started(start)]
  <2>1. Solves(start, stmts, 0, f)
      BY DEF Solves
  <2> QED
      BY <1>2, <1>3, <2>1
<1>4. CASE j # 0
  <2>1. j - 1 \in Nat /\ j - 1 \notin Fails0 /\ j \in Nat
      BY <1>2, <1>4
  <2>2. PICK f : Solves(start, stmts, j - 1, f)
      BY <2>1
  <2> DEFINE g == [k \in 0 .. j |-> IF k < j THEN f[k] ELSE Turned(f[k - 1], stmts[k])]
             h == [k \in 0 .. j |-> IF k = 0 THEN Started(start) ELSE Turned(g[k - 1], stmts[k])]
  <2>3. \A k \in 0 .. j : g[k] = h[k]
    <3>1. SUFFICES ASSUME NEW k \in 0 .. j PROVE g[k] = h[k]
        OBVIOUS
    <3>2. CASE k = j
      <4>1. g[k - 1] = f[k - 1] /\ k # 0 /\ ~(k < j)
          BY <1>4, <2>1, <3>2
      <4> QED
          BY <3>1, <4>1
    <3>3. CASE k < j /\ k = 0
      <4>1. f[k] = Started(start)
          BY <2>1, <2>2, <3>3 DEF Solves
      <4> QED
          BY <3>1, <3>3, <4>1
    <3>4. CASE k < j /\ k # 0
      <4>1. k \in 0 .. j - 1 /\ k - 1 \in 0 .. j /\ k - 1 < j
          BY <2>1, <3>4
      <4>2. f[k] = Turned(f[k - 1], stmts[k])
          BY <2>2, <3>4, <4>1 DEF Solves
      <4>3. g[k] = f[k] /\ g[k - 1] = f[k - 1]
          BY <3>4, <4>1
      <4> QED
          BY <3>4, <4>2, <4>3
    <3> QED
        BY <2>1, <3>2, <3>3, <3>4
  <2>4. g = h
      BY <2>3
  <2>5. Solves(start, stmts, j, g)
      BY <2>4 DEF Solves
  <2> QED
      BY <1>2, <2>5
<1> QED
    BY <1>3, <1>4

\* Two texts that begin alike have the same made of what they begin with.
LEMMA SolutionsAgree ==
    ASSUME NEW start, NEW stmts, NEW n \in Nat, NEW f, Solves(start, stmts, n, f),
           NEW others, NEW m \in Nat, NEW g, Solves(start, others, m, g),
           NEW c \in 0 .. n, c <= m, \A i \in 1 .. c : stmts[i] = others[i]
    PROVE  f[c] = g[c]
<1> DEFINE Differ == {k \in 0 .. c : f[k] # g[k]}
<1>1. SUFFICES ASSUME Differ # {} PROVE FALSE
    OBVIOUS
<1>2. PICK k \in Differ : \A i \in Differ : k <= i
  <2>1. Differ \in SUBSET Nat
      OBVIOUS
  <2> HIDE DEF Differ
  <2> QED
      BY <1>1, <2>1, LeastIndex
<1>3. k \in 0 .. n /\ k \in 0 .. m
    OBVIOUS
<1>4. f[k] = IF k = 0 THEN Started(start) ELSE Turned(f[k - 1], stmts[k])
    BY <1>3, Zenon DEF Solves
<1>5. g[k] = IF k = 0 THEN Started(start) ELSE Turned(g[k - 1], others[k])
    BY <1>3, Zenon DEF Solves
<1>6. k # 0
    BY <1>2, <1>4, <1>5
<1>7. k - 1 \in 0 .. c /\ k - 1 \notin Differ /\ k \in 1 .. c
    BY <1>2, <1>6
<1>8. f[k - 1] = g[k - 1] /\ stmts[k] = others[k]
    BY <1>7
<1> QED
    BY <1>2, <1>4, <1>5, <1>6, <1>8

LEMMA ResultsAreSolved ==
    ASSUME NEW start, NEW stmts, NEW n \in Nat, n = Len(stmts)
    PROVE  \E f : Solves(start, stmts, n, f) /\ f[n] = Results(start, stmts)
<1> DEFINE begun == [ok |-> start.ok, values |-> start.values, out |-> <<>>]
           PE(g) == g = [k \in 0 .. Len(stmts) |->
                           IF k = 0 THEN NoTypes ELSE Typed(g[k - 1], stmts[k])]
           PR(g) == g = [k \in 0 .. Len(stmts) |->
                           IF k = 0 THEN [ok |-> start.ok, values |-> start.values, out |-> <<>>]
                           ELSE Ran(g[k - 1], stmts[k])]
           PK(g) == g = [k \in 0 .. Len(stmts) |->
                           IF k = 0 THEN <<>>
                           ELSE IF IsTransient(stmts[k]) THEN g[k - 1] ELSE Append(g[k - 1], stmts[k])]
           PD(g) == g = [k \in 0 .. Len(stmts) |->
                           IF k = 0 THEN <<>>
                           ELSE IF stmts[k].stmt # "let" THEN g[k - 1] ELSE Append(g[k - 1], stmts[k])]
<1>1. PICK f : Solves(start, stmts, n, f)
    BY SolutionExists
<1>2. \A k \in 0 .. n : f[k] = IF k = 0 THEN Started(start) ELSE Turned(f[k - 1], stmts[k])
    BY <1>1, Zenon DEF Solves
<1>3. PICK ge : PE(ge) /\ AnalyzeSource(stmts) = ge[n]
  <2> DEFINE g == [k \in 0 .. n |-> f[k].env]
  <2>1. \A k \in 0 .. n : g[k] = IF k = 0 THEN NoTypes ELSE Typed(g[k - 1], stmts[k])
    <3>1. SUFFICES ASSUME NEW k \in 0 .. n
                   PROVE  g[k] = IF k = 0 THEN NoTypes ELSE Typed(g[k - 1], stmts[k])
        OBVIOUS
    <3>2. CASE k = 0
      <4>1. g[0] = Started(start).env
          BY <1>2, <3>2
      <4> QED
          BY <3>2, <4>1 DEF Started
    <3>3. CASE k # 0
      <4>1. k - 1 \in 0 .. n /\ g[k] = f[k].env /\ g[k - 1] = f[k - 1].env
          BY <3>3
      <4>2. f[k] = Turned(f[k - 1], stmts[k])
          BY <1>2, <3>3
      <4> QED
          BY <3>3, <4>1, <4>2 DEF Turned
    <3> QED
        BY <3>2, <3>3
  <2>2. PE(g)
    <3> DEFINE h == [k \in 0 .. n |-> IF k = 0 THEN NoTypes ELSE Typed(g[k - 1], stmts[k])]
    <3>1. g = h
      <4> HIDE DEF g
      <4>1. g = [k \in 0 .. n |-> g[k]]
          BY DEF g
      <4> QED
          BY <2>1, <4>1
    <3> QED
        BY <3>1
  <2>3. AnalyzeSource(stmts) = (CHOOSE x : PE(x))[n]
      BY Zenon DEF AnalyzeSource
  <2> HIDE DEF PE
  <2> QED
      BY <2>2, <2>3
<1>4. PICK gr : PR(gr) /\ Execute(start, stmts) = gr[n]
  <2> DEFINE g == [k \in 0 .. n |-> f[k].run]
  <2>1. \A k \in 0 .. n : g[k] = IF k = 0 THEN begun ELSE Ran(g[k - 1], stmts[k])
    <3>1. SUFFICES ASSUME NEW k \in 0 .. n
                   PROVE  g[k] = IF k = 0 THEN begun ELSE Ran(g[k - 1], stmts[k])
        OBVIOUS
    <3>2. CASE k = 0
      <4>1. g[0] = Started(start).run
          BY <1>2, <3>2
      <4> QED
          BY <3>2, <4>1 DEF Started
    <3>3. CASE k # 0
      <4>1. k - 1 \in 0 .. n /\ g[k] = f[k].run /\ g[k - 1] = f[k - 1].run
          BY <3>3
      <4>2. f[k] = Turned(f[k - 1], stmts[k])
          BY <1>2, <3>3
      <4> QED
          BY <3>3, <4>1, <4>2 DEF Turned
    <3> QED
        BY <3>2, <3>3
  <2>2. PR(g)
    <3> DEFINE h == [k \in 0 .. n |-> IF k = 0 THEN begun ELSE Ran(g[k - 1], stmts[k])]
    <3>1. g = h
      <4> HIDE DEF g
      <4>1. g = [k \in 0 .. n |-> g[k]]
          BY DEF g
      <4> QED
          BY <2>1, <4>1
    <3> QED
        BY <3>1
  <2>3. Execute(start, stmts) = (CHOOSE x : PR(x))[n]
      BY Zenon DEF Execute
  <2> HIDE DEF PR
  <2> QED
      BY <2>2, <2>3
<1>5. PICK gk : PK(gk) /\ Persistent(stmts) = gk[n]
  <2> DEFINE g == [k \in 0 .. n |-> f[k].kept]
  <2>1. \A k \in 0 .. n : g[k] = IF k = 0 THEN <<>>
                                 ELSE IF IsTransient(stmts[k]) THEN g[k - 1] ELSE Append(g[k - 1], stmts[k])
    <3>1. SUFFICES ASSUME NEW k \in 0 .. n
                   PROVE  g[k] = IF k = 0 THEN <<>>
                                 ELSE IF IsTransient(stmts[k]) THEN g[k - 1]
                                 ELSE Append(g[k - 1], stmts[k])
        OBVIOUS
    <3>2. CASE k = 0
      <4>1. g[0] = Started(start).kept
          BY <1>2, <3>2
      <4> QED
          BY <3>2, <4>1 DEF Started
    <3>3. CASE k # 0
      <4>1. k - 1 \in 0 .. n /\ g[k] = f[k].kept /\ g[k - 1] = f[k - 1].kept
          BY <3>3
      <4>2. f[k] = Turned(f[k - 1], stmts[k])
          BY <1>2, <3>3
      <4> QED
          BY <3>3, <4>1, <4>2 DEF Turned, Kept
    <3> QED
        BY <3>2, <3>3
  <2>2. PK(g)
    <3> DEFINE h == [k \in 0 .. n |-> IF k = 0 THEN <<>>
                                      ELSE IF IsTransient(stmts[k]) THEN g[k - 1]
                                      ELSE Append(g[k - 1], stmts[k])]
    <3>1. g = h
      <4> HIDE DEF g
      <4>1. g = [k \in 0 .. n |-> g[k]]
          BY DEF g
      <4> QED
          BY <2>1, <4>1
    <3> QED
        BY <3>1
  <2>3. Persistent(stmts) = (CHOOSE x : PK(x))[n]
      BY Zenon DEF Persistent
  <2> HIDE DEF PK
  <2> QED
      BY <2>2, <2>3
<1>6. PICK gd : PD(gd) /\ Declarations(stmts) = gd[n]
  <2> DEFINE g == [k \in 0 .. n |-> f[k].decl]
  <2>1. \A k \in 0 .. n : g[k] = IF k = 0 THEN <<>>
                                 ELSE IF stmts[k].stmt # "let" THEN g[k - 1] ELSE Append(g[k - 1], stmts[k])
    <3>1. SUFFICES ASSUME NEW k \in 0 .. n
                   PROVE  g[k] = IF k = 0 THEN <<>>
                                 ELSE IF stmts[k].stmt # "let" THEN g[k - 1]
                                 ELSE Append(g[k - 1], stmts[k])
        OBVIOUS
    <3>2. CASE k = 0
      <4>1. g[0] = Started(start).decl
          BY <1>2, <3>2
      <4> QED
          BY <3>2, <4>1 DEF Started
    <3>3. CASE k # 0
      <4>1. k - 1 \in 0 .. n /\ g[k] = f[k].decl /\ g[k - 1] = f[k - 1].decl
          BY <3>3
      <4>2. f[k] = Turned(f[k - 1], stmts[k])
          BY <1>2, <3>3
      <4> QED
          BY <3>3, <4>1, <4>2 DEF Turned, Declared
    <3> QED
        BY <3>2, <3>3
  <2>2. PD(g)
    <3> DEFINE h == [k \in 0 .. n |-> IF k = 0 THEN <<>>
                                      ELSE IF stmts[k].stmt # "let" THEN g[k - 1]
                                      ELSE Append(g[k - 1], stmts[k])]
    <3>1. g = h
      <4> HIDE DEF g
      <4>1. g = [k \in 0 .. n |-> g[k]]
          BY DEF g
      <4> QED
          BY <2>1, <4>1
    <3> QED
        BY <3>1
  <2>3. Declarations(stmts) = (CHOOSE x : PD(x))[n]
      BY Zenon DEF Declarations
  <2> HIDE DEF PD
  <2> QED
      BY <2>2, <2>3
<1> DEFINE joint == [k \in 0 .. n |-> [env |-> ge[k], run |-> gr[k], kept |-> gk[k], decl |-> gd[k]]]
<1>7. ASSUME NEW k \in 0 .. n
      PROVE  joint[k] = IF k = 0 THEN Started(start) ELSE Turned(joint[k - 1], stmts[k])
  <2>1. ge[k] = IF k = 0 THEN NoTypes ELSE Typed(ge[k - 1], stmts[k])
      BY <1>3, Zenon
  <2>2. gr[k] = IF k = 0 THEN begun ELSE Ran(gr[k - 1], stmts[k])
      BY <1>4, Zenon
  <2>3. gk[k] = IF k = 0 THEN <<>> ELSE IF IsTransient(stmts[k]) THEN gk[k - 1] ELSE Append(gk[k - 1], stmts[k])
      BY <1>5, Zenon
  <2>4. gd[k] = IF k = 0 THEN <<>> ELSE IF stmts[k].stmt # "let" THEN gd[k - 1] ELSE Append(gd[k - 1], stmts[k])
      BY <1>6, Zenon
  <2>5. CASE k = 0
      BY <2>1, <2>2, <2>3, <2>4, <2>5 DEF Started
  <2>6. CASE k # 0
    <3>1. k - 1 \in 0 .. n
        BY <2>6
    <3> QED
        BY <2>1, <2>2, <2>3, <2>4, <2>6, <3>1 DEF Turned, Kept, Declared
  <2> QED
      BY <2>5, <2>6
<1>8. Solves(start, stmts, n, joint)
  <2> DEFINE h == [k \in 0 .. n |-> IF k = 0 THEN Started(start) ELSE Turned(joint[k - 1], stmts[k])]
  <2>1. joint = h
    <3>1. joint = [k \in 0 .. n |-> joint[k]]
        OBVIOUS
    <3> HIDE DEF joint
    <3> QED
        BY <1>7, <3>1
  <2> QED
      BY <2>1 DEF Solves
<1>9. joint[n] = Results(start, stmts)
    BY <1>3, <1>4, <1>5, <1>6 DEF Results
<1> QED
    BY <1>8, <1>9

LEMMA NoStatement ==
    ASSUME NEW start
    PROVE  Results(start, <<>>) = Started(start)
<1>1. PICK f : Solves(start, <<>>, 0, f) /\ f[0] = Results(start, <<>>)
    BY ResultsAreSolved, EmptySeq
<1>2. f[0] = Started(start)
    BY <1>1 DEF Solves
<1> QED
    BY <1>1, <1>2

LEMMA OneStatementMore ==
    ASSUME NEW start, NEW T, NEW stmts \in Seq(T), NEW s \in T
    PROVE  Results(start, Append(stmts, s)) = Turned(Results(start, stmts), s)
<1>1. PICK n \in Nat : n = Len(stmts)
    OBVIOUS
<1>2. PICK longer : longer = Append(stmts, s)
    OBVIOUS
<1>3. Len(longer) = n + 1 /\ longer[n + 1] = s /\ \A i \in 1 .. n : stmts[i] = longer[i]
    BY <1>1, <1>2, AppendProperties
<1>4. PICK f : Solves(start, stmts, n, f) /\ f[n] = Results(start, stmts)
    BY <1>1, ResultsAreSolved
<1>5. PICK m \in Nat : m = n + 1 /\ m # 0 /\ m - 1 = n
    OBVIOUS
<1>6. PICK g : Solves(start, longer, m, g) /\ g[m] = Results(start, longer)
    BY <1>3, <1>5, ResultsAreSolved
<1>7. f[n] = g[n]
  <2>1. n \in 0 .. n /\ n <= m
      BY <1>5
  <2> QED
      BY <1>3, <1>4, <1>6, <2>1, SolutionsAgree
<1>8. g[m] = Turned(g[n], longer[m])
  <2>1. m \in 0 .. m
      BY <1>5
  <2>2. g[m] = IF m = 0 THEN Started(start) ELSE Turned(g[m - 1], longer[m])
      BY <1>6, <2>1, Zenon DEF Solves
  <2> QED
      BY <1>5, <2>2
<1> QED
    BY <1>2, <1>3, <1>4, <1>5, <1>6, <1>7, <1>8

\* The same, one by one.
LEMMA NothingYet ==
    /\ AnalyzeSource(<<>>) = NoTypes
    /\ \A start : Execute(start, <<>>) = [ok |-> start.ok, values |-> start.values, out |-> <<>>]
    /\ Persistent(<<>>) = <<>>
    /\ Declarations(<<>>) = <<>>
BY NoStatement DEF Results, Started

LEMMA OneMoreStatement ==
    ASSUME NEW T, NEW stmts \in Seq(T), NEW s \in T
    PROVE  /\ AnalyzeSource(Append(stmts, s)) = Typed(AnalyzeSource(stmts), s)
           /\ \A start : Execute(start, Append(stmts, s)) = Ran(Execute(start, stmts), s)
           /\ Persistent(Append(stmts, s)) = Kept(Persistent(stmts), s)
           /\ Declarations(Append(stmts, s)) = Declared(Declarations(stmts), s)
<1>1. ASSUME NEW start
      PROVE  /\ AnalyzeSource(Append(stmts, s)) = Typed(AnalyzeSource(stmts), s)
             /\ Execute(start, Append(stmts, s)) = Ran(Execute(start, stmts), s)
             /\ Persistent(Append(stmts, s)) = Kept(Persistent(stmts), s)
             /\ Declarations(Append(stmts, s)) = Declared(Declarations(stmts), s)
  <2>1. Results(start, Append(stmts, s)) = Turned(Results(start, stmts), s)
      BY OneStatementMore
  <2> QED
      BY <2>1 DEF Results, Turned
<1> QED
    BY <1>1

-----------------------------------------------------------------------------
(* Texts, from their first statement on.                                   *)

First(text, n) == SubSeq(text, 1, n)

LEMMA FirstIs ==
    ASSUME NEW T, NEW text \in Seq(T)
    PROVE  /\ First(text, 0) = <<>> /\ First(text, Len(text)) = text
           /\ \A n \in 0 .. Len(text) : First(text, n) \in Seq(T)
           /\ \A n \in 1 .. Len(text) :
                 /\ text[n] \in T
                 /\ First(text, n) = Append(First(text, n - 1), text[n])
<1>1. First(text, 0) = <<>> /\ First(text, Len(text)) = text
    BY SubSeqEmpty, SubSeqFull DEF First
<1>2. ASSUME NEW n \in 0 .. Len(text) PROVE First(text, n) \in Seq(T)
    BY SubSeqProperties DEF First
<1>3. ASSUME NEW n \in 1 .. Len(text)
      PROVE  text[n] \in T /\ First(text, n) = Append(First(text, n - 1), text[n])
  <2>1. n - 1 \in 0 .. Len(text) /\ text[n] \in T
      OBVIOUS
  <2>2. First(text, n - 1) \in Seq(T)
      BY <1>2, <2>1
  <2>3. First(text, n) = First(text, n - 1) \o <<text[n]>>
      BY SubSeqRecursiveSecond DEF First
  <2> QED
      BY <2>1, <2>2, <2>3, AppendIsConcat
<1> QED
    BY <1>1, <1>2, <1>3

LEMMA AppendToConcat ==
    ASSUME NEW T, NEW base \in Seq(T), NEW text \in Seq(T), NEW s \in T
    PROVE  base \o text \in Seq(T) /\ base \o Append(text, s) = Append(base \o text, s)
<1>1. <<s>> \in Seq(T) /\ base \o text \in Seq(T)
    BY ConcatProperties
<1>2. base \o Append(text, s) = base \o (text \o <<s>>)
    BY AppendIsConcat
<1>3. base \o (text \o <<s>>) = (base \o text) \o <<s>>
    BY <1>1, ConcatAssociative
<1>4. (base \o text) \o <<s>> = Append(base \o text, s)
    BY <1>1, AppendIsConcat
<1> QED
    BY <1>1, <1>2, <1>3, <1>4

\* Everything that is compiled.
Compiled == Statement \union {Printed(s) : s \in Statement}

\* Where the same names have the same types and values, a text means the same.
LEMMA SameRuns ==
    ASSUME NEW base \in Seq(Compiled), NEW lets \in Seq(Compiled), NEW state,
           AnalyzeSource(base) = AnalyzeSource(lets),
           Execute(NewLuaState, base) = [ok |-> state.ok, values |-> state.values, out |-> <<>>],
           NEW text \in Seq(Compiled)
    PROVE  /\ AnalyzeSource(base \o text) = AnalyzeSource(lets \o text)
           /\ Execute(NewLuaState, base \o text) = Execute(state, text)
<1> DEFINE Same(n) == /\ AnalyzeSource(base \o First(text, n)) = AnalyzeSource(lets \o First(text, n))
                      /\ Execute(NewLuaState, base \o First(text, n)) = Execute(state, First(text, n))
           Alike == {n \in 0 .. Len(text) : Same(n)}
<1>1. Same(0)
    BY FirstIs, NothingYet, ConcatEmptySeq
<1>2. ASSUME NEW n \in 1 .. Len(text), Same(n - 1)
      PROVE  Same(n)
  <2>1. PICK before \in Seq(Compiled), s \in Compiled :
            before = First(text, n - 1) /\ s = text[n] /\ First(text, n) = Append(before, s)
    <3>1. n - 1 \in 0 .. Len(text)
        OBVIOUS
    <3> QED
        BY <3>1, FirstIs
  <2>2. /\ AnalyzeSource(base \o before) = AnalyzeSource(lets \o before)
        /\ Execute(NewLuaState, base \o before) = Execute(state, before)
      BY <1>2, <2>1
  <2>3. /\ AnalyzeSource(base \o Append(before, s)) = Typed(AnalyzeSource(base \o before), s)
        /\ AnalyzeSource(lets \o Append(before, s)) = Typed(AnalyzeSource(lets \o before), s)
        /\ Execute(NewLuaState, base \o Append(before, s)) = Ran(Execute(NewLuaState, base \o before), s)
        /\ Execute(state, Append(before, s)) = Ran(Execute(state, before), s)
    <3>1. /\ base \o before \in Seq(Compiled)
          /\ base \o Append(before, s) = Append(base \o before, s)
        BY AppendToConcat
    <3>2. /\ lets \o before \in Seq(Compiled)
          /\ lets \o Append(before, s) = Append(lets \o before, s)
        BY AppendToConcat
    <3>3. /\ AnalyzeSource(Append(base \o before, s)) = Typed(AnalyzeSource(base \o before), s)
          /\ Execute(NewLuaState, Append(base \o before, s))
                = Ran(Execute(NewLuaState, base \o before), s)
        BY <3>1, OneMoreStatement
    <3>4. AnalyzeSource(Append(lets \o before, s)) = Typed(AnalyzeSource(lets \o before), s)
        BY <3>2, OneMoreStatement
    <3>5. Execute(state, Append(before, s)) = Ran(Execute(state, before), s)
        BY OneMoreStatement
    <3> QED
        BY <3>1, <3>2, <3>3, <3>4, <3>5
  <2> QED
      BY <2>1, <2>2, <2>3
<1>3. Len(text) \in Alike
  <2> HIDE DEF Same
  <2>1. 0 \in Alike /\ \A n \in 1 .. Len(text) : n - 1 \in Alike => n \in Alike
      BY <1>1, <1>2
  <2> HIDE DEF Alike
  <2> QED
      BY <2>1, Counting
<1>4. Same(Len(text))
    BY <1>3
<1> QED
    BY <1>4, FirstIs

-----------------------------------------------------------------------------
(* Replaying.                                                              *)

IsFunction(f) == f = [n \in DOMAIN f |-> f[n]]

LEMMA BindIs ==
    ASSUME NEW f, IsFunction(f), NEW name, NEW x
    PROVE  /\ DOMAIN Bind(f, name, x) = DOMAIN f \union {name}
           /\ IsFunction(Bind(f, name, x))
           /\ name \in DOMAIN f => Bind(f, name, f[name]) = f
<1>1. DOMAIN Bind(f, name, x) = DOMAIN f \union {name} /\ IsFunction(Bind(f, name, x))
    BY DEF Bind, IsFunction
<1>2. ASSUME name \in DOMAIN f
      PROVE  Bind(f, name, f[name]) = f
  <2>1. DOMAIN f \union {name} = DOMAIN f
      BY <1>2
  <2>2. \A n \in DOMAIN f : (IF n = name THEN f[name] ELSE f[n]) = f[n]
      OBVIOUS
  <2>3. [n \in DOMAIN f |-> IF n = name THEN f[name] ELSE f[n]] = [n \in DOMAIN f |-> f[n]]
      BY <2>2
  <2> QED
      BY <2>1, <2>3 DEF Bind, IsFunction
<1> QED
    BY <1>1, <1>2

\* Replaying base gives the values of the state and runs without a failure or a line
\* of output, and the declarations alone give the types.
Ready(base, lets, state) ==
    /\ base \in Seq(Statement) /\ lets \in Seq(Statement)
    /\ Persistent(base) = base
    /\ AnalyzeSource(base) = AnalyzeSource(lets)
    /\ AnalyzeSource(base) = [ok |-> TRUE, names |-> AnalyzeSource(base).names]
    /\ state.ok = TRUE
    /\ Execute(NewLuaState, base) = [ok |-> TRUE, values |-> state.values, out |-> <<>>]
    /\ IsFunction(state.values)
    /\ IsFunction(AnalyzeSource(base).names)
    /\ DOMAIN state.values = DOMAIN AnalyzeSource(base).names

LEMMA ReadyWith ==
    ASSUME NEW base \in Seq(Statement), NEW lets \in Seq(Statement), Persistent(base) = base,
           NEW names, IsFunction(names),
           AnalyzeSource(base) = [ok |-> TRUE, names |-> names],
           AnalyzeSource(lets) = [ok |-> TRUE, names |-> names],
           NEW values, IsFunction(values), DOMAIN values = DOMAIN names,
           Execute(NewLuaState, base) = [ok |-> TRUE, values |-> values, out |-> <<>>],
           NEW state, NEW out, state = [ok |-> TRUE, values |-> values, out |-> out]
    PROVE  Ready(base, lets, state)
BY DEF Ready

LEMMA ReadyAlike ==
    ASSUME NEW base, NEW lets, NEW state, Ready(base, lets, state),
           NEW out, NEW other, other = [ok |-> state.ok, values |-> state.values, out |-> out]
    PROVE  Ready(base, lets, other)
<1>1. other.ok = state.ok /\ other.values = state.values
    OBVIOUS
<1> QED
    BY <1>1, Zenon DEF Ready

\* What CanReplay asks of one statement.
Quiet(s) ==
    /\ s.stmt = "expr" => s.does # "bump"
    /\ s.stmt = "let" => ~s.prints

LEMMA NothingIsReady == Ready(<<>>, <<>>, NewLuaState)
<1>1. <<>> \in Seq(Statement)
    BY EmptySeq
<1>2. IsFunction(<<>>)
    BY DEF IsFunction
<1> QED
    BY <1>1, <1>2, NothingYet DEF Ready, NewLuaState, NoTypes

LEMMA TypedIs ==
    ASSUME NEW names, NEW env, env = [ok |-> TRUE, names |-> names],
           NEW s \in Statement, Typed(env, s).ok
    PROVE  /\ Typed(env, s) =
                 [ok |-> TRUE, names |-> IF s.stmt = "let" THEN Bind(names, s.name, s.type) ELSE names]
           /\ s.stmt # "let" => s.name \in DOMAIN names
<1>1. s.stmt \in {"let", "assign", "expr"}
    BY DEF Statement
<1>2. NameIn(s) = s.name
    BY <1>1 DEF NameIn
<1>3. CASE s.stmt = "let"
    BY <1>3 DEF Typed
<1>4. CASE s.stmt # "let"
  <2> DEFINE known == s.name \in DOMAIN names /\ (Increments(s) => names[s.name] = "int")
  <2>1. Typed(env, s) = [ok |-> known, names |-> names]
      BY <1>2, <1>4 DEF Typed
  <2>2. known
    <3> HIDE DEF known
    <3> QED
        BY <2>1
  <2>3. known = TRUE
      BY <2>2
  <2> QED
      BY <1>4, <2>1, <2>2, <2>3
<1> QED
    BY <1>3, <1>4

\* With these values the statement binds its name to v.
RunsTo(s, values, v) ==
    /\ \A st : st.ok = TRUE /\ st.values = values =>
                  Ran(st, s) = [ok |-> TRUE, values |-> Bind(values, s.name, v), out |-> st.out \o <<>>]
    /\ s.stmt = "expr" => v = values[s.name]

LEMMA RanIs ==
    ASSUME NEW values, NEW s \in Statement, Quiet(s),
           NEW state, state.ok = TRUE, state.values = values, Ran(state, s).ok
    PROVE  \E v : RunsTo(s, values, v)
<1>1. s.stmt \in {"let", "assign", "expr"} /\ (s.stmt = "let" => s.prints \in BOOLEAN)
    BY DEF Statement
<1>2. NameIn(s) = s.name
    BY <1>1 DEF NameIn
<1>3. ~Fails(s)
  <2>1. SUFFICES ASSUME Fails(s) PROVE FALSE
      OBVIOUS
  <2>2. Ran(state, s) = [ok |-> FALSE, values |-> state.values, out |-> state.out]
      BY <2>1 DEF Ran
  <2> QED
      BY <2>2
<1>4. PICK v : v = CASE s.stmt = "let" -> 0
                     [] Increments(s)  -> values[s.name] + 1
                     [] OTHER          -> values[s.name]
    OBVIOUS
<1>5. ASSUME NEW st, st.ok = TRUE, st.values = values
      PROVE  Ran(st, s) = [ok |-> TRUE, values |-> Bind(values, s.name, v), out |-> st.out \o <<>>]
    BY <1>1, <1>2, <1>3, <1>4, <1>5 DEF Ran, Quiet
<1>6. s.stmt = "expr" => v = values[s.name]
    BY <1>4 DEF Increments, Quiet
<1> QED
    BY <1>5, <1>6 DEF RunsTo

\* A statement that can be replayed, and that was typed and ran, keeps all of this.
LEMMA ReadyStep ==
    ASSUME NEW base, NEW lets, NEW state, Ready(base, lets, state),
           NEW s \in Statement, Quiet(s),
           Typed(AnalyzeSource(base), s).ok, Ran(state, s).ok
    PROVE  /\ Ready(Kept(base, s), Declared(lets, s), Ran(state, s))
           /\ AnalyzeSource(Kept(base, s)) = Typed(AnalyzeSource(base), s)
<1>0. /\ base \in Seq(Statement) /\ lets \in Seq(Statement)
      /\ Persistent(base) = base
      /\ AnalyzeSource(base) = AnalyzeSource(lets)
    BY DEF Ready
<1>1. PICK names, values, name :
          /\ AnalyzeSource(base) = [ok |-> TRUE, names |-> names] /\ IsFunction(names)
          /\ state.ok = TRUE /\ state.values = values
          /\ IsFunction(values) /\ DOMAIN values = DOMAIN names
          /\ Execute(NewLuaState, base) = [ok |-> TRUE, values |-> values, out |-> <<>>]
          /\ name = s.name
    BY DEF Ready
<1>2. /\ AnalyzeSource(Append(base, s)) = Typed(AnalyzeSource(base), s)
      /\ Execute(NewLuaState, Append(base, s)) = Ran(Execute(NewLuaState, base), s)
      /\ Persistent(Append(base, s)) = Kept(base, s)
      /\ AnalyzeSource(Append(lets, s)) = Typed(AnalyzeSource(lets), s)
      /\ Append(base, s) \in Seq(Statement) /\ Append(lets, s) \in Seq(Statement)
  <2>1. /\ AnalyzeSource(Append(base, s)) = Typed(AnalyzeSource(base), s)
        /\ Execute(NewLuaState, Append(base, s)) = Ran(Execute(NewLuaState, base), s)
        /\ Persistent(Append(base, s)) = Kept(Persistent(base), s)
      BY <1>0, OneMoreStatement
  <2>2. AnalyzeSource(Append(lets, s)) = Typed(AnalyzeSource(lets), s)
      BY <1>0, OneMoreStatement
  <2>3. Append(base, s) \in Seq(Statement) /\ Append(lets, s) \in Seq(Statement)
      BY <1>0
  <2> QED
      BY <1>0, <2>1, <2>2, <2>3
<1>3. /\ Typed(AnalyzeSource(base), s) =
              [ok |-> TRUE, names |-> IF s.stmt = "let" THEN Bind(names, name, s.type) ELSE names]
      /\ s.stmt # "let" => name \in DOMAIN names
    BY <1>1, TypedIs
<1>4. PICK v : RunsTo(s, values, v)
    BY <1>1, RanIs
<1>5. PICK later, out :
          /\ later = Bind(values, name, v)
          /\ Ran(state, s) = [ok |-> TRUE, values |-> later, out |-> out]
          /\ Ran(Execute(NewLuaState, base), s) = [ok |-> TRUE, values |-> later, out |-> <<>>]
  <2>1. Execute(NewLuaState, base).ok = TRUE /\ Execute(NewLuaState, base).values = values
        /\ Execute(NewLuaState, base).out = <<>>
      BY <1>1
  <2>2. <<>> \o <<>> = <<>>
      OBVIOUS
  <2>3. Ran(state, s) = [ok |-> TRUE, values |-> Bind(values, name, v), out |-> state.out \o <<>>]
      BY <1>1, <1>4 DEF RunsTo
  <2>4. Ran(Execute(NewLuaState, base), s) = [ok |-> TRUE, values |-> Bind(values, name, v), out |-> <<>>]
      BY <1>1, <1>4, <2>1, <2>2 DEF RunsTo
  <2> QED
      BY <2>3, <2>4
<1>6. CASE s.stmt = "let"
  <2>1. Kept(base, s) = Append(base, s) /\ Declared(lets, s) = Append(lets, s)
      BY <1>6 DEF Kept, IsTransient, Declared
  <2>2. PICK types : types = Bind(names, name, s.type)
      OBVIOUS
  <2>3. DOMAIN later = DOMAIN types /\ IsFunction(later) /\ IsFunction(types)
    <3>0. DOMAIN Bind(values, name, v) = DOMAIN values \union {name} /\ IsFunction(Bind(values, name, v))
      <4>1. IsFunction(values)
          BY <1>1
      <4> QED
          BY <4>1, BindIs
    <3>1. DOMAIN later = DOMAIN values \union {name} /\ IsFunction(later)
        BY <1>5, <3>0
    <3>2. DOMAIN types = DOMAIN names \union {name} /\ IsFunction(types)
        BY <1>1, <2>2, BindIs, Zenon
    <3> QED
        BY <1>1, <3>1, <3>2, Zenon
  <2>4. Typed(AnalyzeSource(base), s) = [ok |-> TRUE, names |-> types]
      BY <1>3, <1>6, <2>2
  <2>5. AnalyzeSource(Append(base, s)) = [ok |-> TRUE, names |-> types]
        /\ AnalyzeSource(Append(lets, s)) = [ok |-> TRUE, names |-> types]
      BY <1>0, <1>2, <2>4
  <2>6. Ready(Append(base, s), Append(lets, s), Ran(state, s))
      BY <1>2, <1>5, <2>1, <2>3, <2>5, ReadyWith
  <2> QED
      BY <1>2, <2>1, <2>6
<1>7. CASE s.stmt = "assign"
  <2>1. Kept(base, s) = Append(base, s) /\ Declared(lets, s) = lets
      BY <1>7 DEF Kept, IsTransient, Declared
  <2>2. DOMAIN later = DOMAIN names /\ IsFunction(later)
    <3>0. DOMAIN Bind(values, name, v) = DOMAIN values \union {name} /\ IsFunction(Bind(values, name, v))
      <4>1. IsFunction(values)
          BY <1>1
      <4> QED
          BY <4>1, BindIs
    <3>1. DOMAIN later = DOMAIN values \union {name} /\ IsFunction(later)
        BY <1>5, <3>0
    <3>2. name \in DOMAIN names
        BY <1>3, <1>7
    <3> QED
        BY <1>1, <3>1, <3>2
  <2>3. Typed(AnalyzeSource(base), s) = [ok |-> TRUE, names |-> names]
      BY <1>3, <1>7
  <2>4. AnalyzeSource(Append(base, s)) = [ok |-> TRUE, names |-> names]
        /\ AnalyzeSource(lets) = [ok |-> TRUE, names |-> names]
      BY <1>0, <1>1, <1>2, <2>3
  <2>5. Ready(Append(base, s), lets, Ran(state, s))
      BY <1>0, <1>1, <1>2, <1>5, <2>1, <2>2, <2>4, ReadyWith
  <2> QED
      BY <1>2, <2>1, <2>5
<1>8. CASE s.stmt = "expr"
  <2>1. Kept(base, s) = base /\ Declared(lets, s) = lets
      BY <1>8 DEF Kept, IsTransient, Declared
  <2>2. later = values
    <3>1. name \in DOMAIN values /\ v = values[name]
        BY <1>1, <1>3, <1>4, <1>8 DEF RunsTo
    <3> QED
        BY <1>1, <1>5, <3>1, BindIs, Zenon
  <2>3. Typed(AnalyzeSource(base), s) = AnalyzeSource(base)
      BY <1>1, <1>3, <1>8
  <2>4. Ready(base, lets, Ran(state, s))
      BY <1>0, <1>1, <1>5, <2>2, ReadyWith
  <2> QED
      BY <2>1, <2>3, <2>4
<1>9. s.stmt \in {"let", "assign", "expr"}
    BY DEF Statement
<1> QED
    BY <1>6, <1>7, <1>8, <1>9

LEMMA EarlierOk ==
    ASSUME NEW x, NEW s
    PROVE  /\ Typed(x, s).ok => x.ok
           /\ Ran(x, s).ok => x.ok
BY DEF Typed, Ran

\* So does a text of such statements.
LEMMA ReadyText ==
    ASSUME NEW base, NEW lets, NEW state, Ready(base, lets, state),
           NEW text \in Seq(Statement), \A i \in 1 .. Len(text) : Quiet(text[i]),
           AnalyzeSource(base \o text).ok, Execute(state, text).ok
    PROVE  Ready(Persistent(base \o text), lets \o Declarations(text), Execute(state, text))
<1> DEFINE Done(n) ==
             LET before == First(text, n)
             IN  /\ Ready(Persistent(base \o before), lets \o Declarations(before), Execute(state, before))
                 /\ AnalyzeSource(Persistent(base \o before)) = AnalyzeSource(base \o before)
                 /\ Declarations(before) \in Seq(Statement)
           Well(n) == AnalyzeSource(base \o First(text, n)).ok /\ Execute(state, First(text, n)).ok
           Right == {n \in 0 .. Len(text) : Well(n) => Done(n)}
<1>0. base \in Seq(Statement) /\ lets \in Seq(Statement) /\ Persistent(base) = base
    BY DEF Ready
<1>1. Done(0)
  <2>1. First(text, 0) = <<>> /\ base \o <<>> = base /\ lets \o <<>> = lets /\ <<>> \in Seq(Statement)
      BY <1>0, FirstIs, ConcatEmptySeq, EmptySeq
  <2>2. Execute(state, <<>>) = [ok |-> state.ok, values |-> state.values, out |-> <<>>]
      BY NothingYet
  <2>3. Ready(base, lets, Execute(state, <<>>))
      BY <2>2, ReadyAlike
  <2> QED
      BY <1>0, <2>1, <2>3, NothingYet
<1>2. ASSUME NEW n \in 1 .. Len(text), Well(n - 1) => Done(n - 1), Well(n)
      PROVE  Done(n)
  <2>1. PICK before \in Seq(Statement), s \in Statement :
            before = First(text, n - 1) /\ s = text[n] /\ First(text, n) = Append(before, s)
    <3>1. n - 1 \in 0 .. Len(text)
        OBVIOUS
    <3> QED
        BY <3>1, FirstIs
  <2>2. base \o before \in Seq(Statement) /\ base \o Append(before, s) = Append(base \o before, s)
      BY <1>0, AppendToConcat
  <2>3. /\ AnalyzeSource(Append(base \o before, s)) = Typed(AnalyzeSource(base \o before), s)
        /\ Persistent(Append(base \o before, s)) = Kept(Persistent(base \o before), s)
      BY <2>2, OneMoreStatement
  <2>4. /\ Execute(state, Append(before, s)) = Ran(Execute(state, before), s)
        /\ Declarations(Append(before, s)) = Declared(Declarations(before), s)
      BY OneMoreStatement
  <2>5. Typed(AnalyzeSource(base \o before), s).ok /\ Ran(Execute(state, before), s).ok
      BY <1>2, <2>1, <2>2, <2>3, <2>4
  <2>6. Well(n - 1)
      BY <2>1, <2>5, EarlierOk
  <2>7. PICK kept, decl, run :
            /\ kept = Persistent(base \o before) /\ decl = Declarations(before)
            /\ run = Execute(state, before)
            /\ Ready(kept, lets \o decl, run)
            /\ AnalyzeSource(kept) = AnalyzeSource(base \o before)
            /\ decl \in Seq(Statement)
      BY <1>2, <2>1, <2>6
  <2>8. Typed(AnalyzeSource(kept), s).ok /\ Ran(run, s).ok /\ Quiet(s)
      BY <2>1, <2>5, <2>7
  <2>9. /\ Ready(Kept(kept, s), Declared(lets \o decl, s), Ran(run, s))
        /\ AnalyzeSource(Kept(kept, s)) = Typed(AnalyzeSource(kept), s)
      BY <2>7, <2>8, ReadyStep
  <2>10. Declared(lets \o decl, s) = lets \o Declared(decl, s) /\ Declared(decl, s) \in Seq(Statement)
    <3>1. lets \o Append(decl, s) = Append(lets \o decl, s) /\ Append(decl, s) \in Seq(Statement)
        BY <1>0, <2>7, AppendToConcat, AppendProperties
    <3> QED
        BY <2>7, <3>1 DEF Declared
  <2> QED
      BY <2>1, <2>2, <2>3, <2>4, <2>7, <2>9, <2>10
<1>3. Len(text) \in Right
  <2> HIDE DEF Done, Well
  <2>1. 0 \in Right /\ \A n \in 1 .. Len(text) : n - 1 \in Right => n \in Right
      BY <1>1, <1>2
  <2> HIDE DEF Right
  <2> QED
      BY <2>1, Counting
<1>4. Well(Len(text))
    BY FirstIs
<1>5. Done(Len(text))
  <2> HIDE DEF Done, Well
  <2> QED
      BY <1>3, <1>4
<1> QED
    BY <1>5, FirstIs

\* A file of declarations that print nothing begins a session that can be replayed.
LEMMA ReadyFile ==
    ASSUME NEW file \in Seq(Statement), CanReplayFile(file)
    PROVE  Ready(Declarations(file), Declarations(file), Execute(NewLuaState, file))
<1> DEFINE Done(n) ==
             LET before == First(file, n)
             IN  Ready(Declarations(before), Declarations(before), Execute(NewLuaState, before))
           Right == {n \in 0 .. Len(file) : Done(n)}
<1>1. Done(0)
  <2>1. Execute(NewLuaState, <<>>) = NewLuaState
      BY NothingYet DEF NewLuaState
  <2> QED
      BY <2>1, FirstIs, NothingYet, NothingIsReady
<1>2. ASSUME NEW n \in 1 .. Len(file), Done(n - 1)
      PROVE  Done(n)
  <2>1. PICK before \in Seq(Statement), s \in Statement :
            before = First(file, n - 1) /\ s = file[n] /\ First(file, n) = Append(before, s)
    <3>1. n - 1 \in 0 .. Len(file)
        OBVIOUS
    <3> QED
        BY <3>1, FirstIs
  <2>2. s.stmt = "let" /\ ~s.prints
      BY <2>1 DEF CanReplayFile
  <2>3. PICK decl, run : /\ decl = Declarations(before) /\ run = Execute(NewLuaState, before)
                         /\ Ready(decl, decl, run)
      BY <1>2, <2>1
  <2>4. Typed(AnalyzeSource(decl), s).ok
    <3>1. AnalyzeSource(decl).ok
        BY <2>3 DEF Ready
    <3> QED
        BY <2>2, <3>1 DEF Typed
  <2>5. Ran(run, s).ok
    <3>1. run.ok
        BY <2>3 DEF Ready
    <3> QED
        BY <2>2, <3>1 DEF Ran, Fails
  <2>6. Quiet(s)
      BY <2>2 DEF Quiet
  <2>7. Ready(Kept(decl, s), Declared(decl, s), Ran(run, s))
      BY <2>3, <2>4, <2>5, <2>6, ReadyStep
  <2>8. Kept(decl, s) = Declared(decl, s)
      BY <2>2 DEF Kept, IsTransient, Declared
  <2>9. /\ Declarations(Append(before, s)) = Declared(decl, s)
        /\ Execute(NewLuaState, Append(before, s)) = Ran(run, s)
      BY <2>3, OneMoreStatement
  <2> QED
      BY <2>1, <2>7, <2>8, <2>9
<1>3. Len(file) \in Right
  <2> HIDE DEF Done
  <2>1. 0 \in Right /\ \A n \in 1 .. Len(file) : n - 1 \in Right => n \in Right
      BY <1>1, <1>2
  <2> HIDE DEF Right
  <2> QED
      BY <2>1, Counting
<1>4. Done(Len(file))
    BY <1>3
<1> QED
    BY <1>4, FirstIs

-----------------------------------------------------------------------------
(* The session.                                                            *)

\* What is typed, drafted or recalled is a text, and what was accepted so far can be
\* replayed as Ready says.
SessionInv ==
    /\ input \in Seq(Statement) /\ draft_before_history \in Seq(Statement)
    /\ history \in Seq(Seq(Statement)) /\ history_cursor \in 0 .. Len(history)
    /\ replayable => Ready(defs, world.lets, world.state) /\ last_output = expected

LEMMA InitSession == ReplInit => SessionInv
<1> SUFFICES ASSUME ReplInit PROVE SessionInv
    OBVIOUS
<1>1. PICK file \in ReplFiles :
          /\ defs = Declarations(file)
          /\ world = [state |-> Execute(NewLuaState, file), lets |-> Declarations(file)]
          /\ replayable = CanReplayFile(file)
    BY DEF ReplInit
<1>2. file \in Seq(Statement)
    BY TextsAssumption
<1>3. replayable => Ready(defs, world.lets, world.state)
    BY <1>1, <1>2, ReadyFile
<1>4. <<>> \in Seq(Statement) /\ <<>> \in Seq(Seq(Statement)) /\ 0 \in 0 .. Len(<<>>)
    BY EmptySeq
<1> QED
    BY <1>3, <1>4 DEF ReplInit, SessionInv, Blank, NotInHistory

\* An expression that is evaluated changes nothing that is replayed.
LEMMA ReadyExpression ==
    ASSUME NEW base, NEW lets, NEW state, Ready(base, lets, state),
           NEW s \in Statement, s.stmt = "expr", Quiet(s),
           AnalyzeSource(Append(base, Printed(s))).ok, Execute(state, <<Printed(s)>>).ok
    PROVE  Ready(base, lets, Execute(state, <<Printed(s)>>))
<1>1. PICK p \in Compiled : p = Printed(s) /\ p.stmt = "print" /\ p.expr = s
    BY DEF Compiled, Printed
<1>2. base \in Seq(Compiled) /\ <<>> \in Seq(Compiled)
  <2>1. Statement \subseteq Compiled
      BY DEF Compiled
  <2> QED
      BY <2>1, EmptySeq DEF Ready
<1>3. /\ AnalyzeSource(Append(base, p)) = Typed(AnalyzeSource(base), p)
      /\ Execute(state, Append(<<>>, p)) = Ran(Execute(state, <<>>), p)
    BY <1>2, OneMoreStatement
<1>4. Append(<<>>, p) = <<p>>
    OBVIOUS
<1>5. PICK names, values : /\ AnalyzeSource(base) = [ok |-> TRUE, names |-> names]
                           /\ values = state.values /\ state.ok = TRUE
                           /\ IsFunction(values) /\ DOMAIN values = DOMAIN names
    BY DEF Ready
<1>6. PICK begun : begun = Execute(state, <<>>) /\ begun.ok = TRUE /\ begun.values = values
    BY <1>5, NothingYet
<1>7. NameIn(p) = s.name /\ ~Increments(p)
    BY <1>1 DEF NameIn, Increments, Quiet
<1>8. s.name \in DOMAIN values
  <2>1. Typed(AnalyzeSource(base), p).ok
      BY <1>1, <1>3
  <2> DEFINE known == NameIn(p) \in DOMAIN names /\ (Increments(p) => names[NameIn(p)] = "int")
  <2>2. Typed(AnalyzeSource(base), p) = [ok |-> known, names |-> names]
      BY <1>1, <1>5 DEF Typed
  <2>3. known
    <3> HIDE DEF known
    <3> QED
        BY <2>1, <2>2
  <2>4. s.name \in DOMAIN names
      BY <1>7, <2>3
  <2> QED
      BY <1>5, <2>4
<1>9. ~Fails(p)
  <2>1. SUFFICES ASSUME Fails(p) PROVE FALSE
      OBVIOUS
  <2>2. Ran(begun, p) = [ok |-> FALSE, values |-> begun.values, out |-> begun.out]
      BY <1>6, <2>1 DEF Ran
  <2>3. Ran(begun, p).ok
      BY <1>1, <1>3, <1>4, <1>6
  <2> QED
      BY <2>2, <2>3
<1>10. PICK out : Ran(begun, p) = [ok |-> TRUE, values |-> Bind(values, s.name, values[s.name]), out |-> out]
    BY <1>1, <1>6, <1>7, <1>9 DEF Ran
<1>11. Bind(values, s.name, values[s.name]) = values
  <2>1. IsFunction(values)
      BY <1>5
  <2> QED
      BY <1>8, <2>1, BindIs
<1>12. Execute(state, <<p>>) = [ok |-> state.ok, values |-> state.values, out |-> out]
    BY <1>3, <1>4, <1>5, <1>6, <1>10, <1>11
<1> QED
    BY <1>1, <1>12, ReadyAlike

\* The text that is submitted gives the same in both, and what is kept of it can be
\* replayed.
LEMMA SubmitKeeps ==
    ASSUME NEW text \in Seq(Statement), text # <<>>, Ready(defs, world.lets, world.state)
    PROVE  /\ Evaluation(text).ok <=> InMind(text).ok
           /\ Evaluation(text).out = InMind(text).out
           /\ Evaluation(text).ok /\ CanReplay(text) =>
                 Ready(Evaluation(text).kept, InMind(text).world.lets, InMind(text).world.state)
<1>1. PICK base, lets, state :
          base = defs /\ lets = world.lets /\ state = world.state /\ Ready(base, lets, state)
    OBVIOUS
<1> DEFINE asked == ClassifyInput(text) = "Expression"
<1>2. PICK added \in Seq(Compiled) :
          /\ added = IF asked THEN <<Printed(text[1])>> ELSE text
          /\ AppendedSource(base, text) = base \o added
          /\ AppendedSource(lets, text) = lets \o added
          /\ AppendedSource(<<>>, text) = added
          /\ asked => base \o added = Append(base, Printed(text[1]))
  <2>0. Statement \subseteq Compiled /\ text[1] \in Statement
      BY DEF Compiled
  <2>1. base \in Seq(Statement) /\ lets \in Seq(Statement) /\ <<>> \in Seq(Compiled)
        /\ base \in Seq(Compiled) /\ lets \in Seq(Compiled) /\ text \in Seq(Compiled)
      BY <1>1, <2>0, EmptySeq DEF Ready
  <2>2. CASE asked
    <3>1. PICK p \in Compiled : p = Printed(text[1])
        BY <2>0 DEF Compiled
    <3>2. /\ Append(base, p) = base \o <<p>> /\ Append(lets, p) = lets \o <<p>>
          /\ Append(<<>>, p) = <<p>> /\ <<p>> \in Seq(Compiled)
        BY <2>1, AppendIsConcat
    <3> QED
        BY <2>2, <3>1, <3>2 DEF AppendedSource
  <2>3. CASE ~asked
    <3>1. <<>> \o text = text
        BY <2>1, ConcatEmptySeq
    <3> QED
        BY <2>1, <2>3, <3>1 DEF AppendedSource
  <2> QED
      BY <2>2, <2>3
<1>3. /\ AnalyzeSource(base \o added) = AnalyzeSource(lets \o added)
      /\ Execute(NewLuaState, base \o added) = Execute(state, added)
  <2>1. /\ AnalyzeSource(base) = AnalyzeSource(lets)
        /\ Execute(NewLuaState, base) = [ok |-> state.ok, values |-> state.values, out |-> <<>>]
      BY <1>1 DEF Ready
  <2>2. base \in Seq(Compiled) /\ lets \in Seq(Compiled)
    <3>1. Statement \subseteq Compiled
        BY DEF Compiled
    <3> QED
        BY <1>1, <3>1 DEF Ready
  <2> QED
      BY <2>1, <2>2, SameRuns
<1>4. PICK run : /\ run = Attempt(NewLuaState, base \o added, base \o added)
                 /\ run = Attempt(state, lets \o added, added)
    BY <1>3 DEF Attempt
<1>5. /\ Evaluation(text).ok = (IsProgram(text) /\ run.ok) /\ Evaluation(text).out = run.out
      /\ Evaluation(text).kept = IF asked THEN base ELSE Persistent(base \o added)
    BY <1>1, <1>2, <1>4 DEF Evaluation
<1>6. /\ InMind(text).ok = (IsProgram(text) /\ run.ok) /\ InMind(text).out = run.out
      /\ IsProgram(text) /\ run.ok =>
            InMind(text).world = [state |-> run, lets |-> lets \o Declarations(text)]
    BY <1>1, <1>2, <1>4 DEF InMind
<1>7. ASSUME IsProgram(text), run.ok, CanReplay(text)
      PROVE  Ready(Evaluation(text).kept, InMind(text).world.lets, InMind(text).world.state)
  <2>1. run = Execute(state, added) /\ AnalyzeSource(base \o added).ok
      BY <1>3, <1>4, <1>7 DEF Attempt, NewLuaState
  <2>2. \A i \in 1 .. Len(text) : Quiet(text[i])
      BY <1>7 DEF CanReplay, Quiet
  <2>3. InMind(text).world.lets = lets \o Declarations(text) /\ InMind(text).world.state = run
    <3>1. InMind(text).world = [state |-> run, lets |-> lets \o Declarations(text)]
        BY <1>6, <1>7, Zenon
    <3> QED
        BY <3>1
  <2>4. CASE ~asked
    <3>1. Ready(Persistent(base \o text), lets \o Declarations(text), Execute(state, text))
        BY <1>1, <1>2, <1>7, <2>1, <2>2, <2>4, ReadyText
    <3> QED
        BY <1>2, <1>5, <2>1, <2>3, <2>4, <3>1
  <2>5. CASE asked
    <3>1. Len(text) = 1 /\ text[1] \in Statement /\ text[1].stmt = "expr"
        BY <1>7, <2>5 DEF IsProgram, ClassifyInput
    <3>2. Declarations(text) = <<>>
      <4>1. text = Append(<<>>, text[1]) /\ <<>> \in Seq(Statement)
          BY <3>1, EmptySeq
      <4>2. Declarations(text) = Declared(<<>>, text[1])
          BY <3>1, <4>1, OneMoreStatement, NothingYet
      <4> QED
          BY <3>1, <4>2 DEF Declared
    <3>3. lets \o <<>> = lets
        BY <1>1, ConcatEmptySeq DEF Ready
    <3>4. Ready(base, lets, Execute(state, <<Printed(text[1])>>))
      <4>1. Quiet(text[1])
          BY <2>2, <3>1
      <4>2. AnalyzeSource(Append(base, Printed(text[1]))).ok
          BY <1>2, <2>1, <2>5
      <4>3. Execute(state, <<Printed(text[1])>>).ok
          BY <1>2, <1>7, <2>1, <2>5
      <4> QED
          BY <1>1, <3>1, <4>1, <4>2, <4>3, ReadyExpression
    <3> QED
        BY <1>2, <1>5, <2>1, <2>3, <2>5, <3>2, <3>3, <3>4
  <2> QED
      BY <2>4, <2>5
<1> QED
    BY <1>5, <1>6, <1>7

LEMMA StepSession == SessionInv /\ [ReplNext]_replVars => SessionInv'
<1> SUFFICES ASSUME SessionInv, [ReplNext]_replVars
             PROVE  SessionInv'
    OBVIOUS
<1> USE DEF SessionInv
<1>1. CASE UpdateHints
    BY <1>1 DEF UpdateHints, UnchangedSession
<1>2. ASSUME NEW text \in Inputs, Edit(text)
      PROVE  SessionInv'
  <2>1. text \in Seq(Statement)
      BY TextsAssumption
  <2> QED
      BY <1>2, <2>1 DEF Edit, UnchangedSession, NotInHistory
<1>3. CASE RecallOlder
  <2>1. PICK i \in 1 .. Len(history) : ApplyHistoryIndex(i)
    <3>1. Len(history) \in Nat /\ Len(history) # 0
        BY <1>3 DEF RecallOlder
    <3>2. PICK i : i = CASE history_cursor = NotInHistory -> Len(history)
                         [] history_cursor = 1 -> 1
                         [] OTHER -> history_cursor - 1
        OBVIOUS
    <3>3. i \in 1 .. Len(history)
      <4>1. i = Len(history) \/ i = 1 \/ (history_cursor # 0 /\ history_cursor # 1 /\ i = history_cursor - 1)
          BY <3>2 DEF NotInHistory
      <4> QED
          BY <3>1, <4>1
    <3>4. ApplyHistoryIndex(i)
        BY <1>3, <3>2, Zenon DEF RecallOlder
    <3> QED
        BY <3>3, <3>4
  <2>2. history[i] \in Seq(Statement)
      OBVIOUS
  <2> QED
      BY <1>3, <2>1, <2>2 DEF RecallOlder, ApplyHistoryIndex, UnchangedSession
<1>4. CASE RecallNewer
  <2>1. CASE history_cursor' = NotInHistory /\ input' = draft_before_history
      BY <1>4, <2>1 DEF RecallNewer, UnchangedSession, NotInHistory
  <2>2. CASE history_cursor < Len(history) /\ ApplyHistoryIndex(history_cursor + 1)
    <3>1. history_cursor + 1 \in 1 .. Len(history)
        BY <2>2
    <3>2. history[history_cursor + 1] \in Seq(Statement)
        BY <3>1
    <3> QED
        BY <1>4, <2>2, <3>1, <3>2 DEF RecallNewer, ApplyHistoryIndex, UnchangedSession
  <2> QED
      BY <1>4, <2>1, <2>2 DEF RecallNewer
<1>5. CASE Submit
  <2>1. /\ input' = <<>> /\ draft_before_history' = <<>> /\ history_cursor' = 0
        /\ history' = Append(history, input) /\ <<>> \in Seq(Statement)
      BY <1>5, EmptySeq DEF Submit, NotInHistory, Blank
  <2>2. history' \in Seq(Seq(Statement)) /\ 0 \in 0 .. Len(history')
      BY <2>1, AppendProperties
  <2>3. ASSUME replayable'
        PROVE  Ready(defs', world'.lets, world'.state) /\ last_output' = expected'
    <3>1. PICK run, mind :
              /\ run = Evaluation(input) /\ mind = InMind(input)
              /\ defs' = IF run.ok THEN run.kept ELSE defs
              /\ last_output' = IF run.ok THEN run.out ELSE ErrorText
              /\ world' = mind.world
              /\ expected' = IF mind.ok THEN mind.out ELSE ErrorText
              /\ replayable /\ (run.ok => CanReplay(input))
        BY <1>5, <2>3 DEF Submit
    <3>2. input # <<>> /\ Ready(defs, world.lets, world.state)
        BY <1>5, <3>1 DEF Submit, Blank
    <3>3. /\ run.ok <=> mind.ok
          /\ run.out = mind.out
          /\ run.ok /\ CanReplay(input) => Ready(run.kept, mind.world.lets, mind.world.state)
        BY <3>1, <3>2, SubmitKeeps
    <3>4. ~mind.ok => mind.world = world
        BY <3>1 DEF InMind
    <3>5. CASE run.ok
        BY <3>1, <3>3, <3>5
    <3>6. CASE ~run.ok
        BY <3>1, <3>2, <3>3, <3>4, <3>6
    <3> QED
        BY <3>5, <3>6
  <2> QED
      BY <2>1, <2>2, <2>3
<1>6. CASE UNCHANGED replVars
    BY <1>6 DEF replVars
<1> QED
    BY <1>1, <1>2, <1>3, <1>4, <1>5, <1>6 DEF ReplNext

(* However inputs are typed, recalled and submitted, and whatever they declare, assign,
   read or fail at, replaying the kept source gives what a session that keeps its state
   would give (ReplSession::eval and source_without_transient_repl_exprs in
   hern-repl/src/session.rs, App::submit in hern-repl/src/app.rs). *)
THEOREM ReplayAlwaysIsTheSession == ReplSpec => []ReplayIsTheSession
<1>1. SessionInv => ReplayIsTheSession
  <2> SUFFICES ASSUME SessionInv, replayable
               PROVE  last_output = expected /\ Execute(NewLuaState, defs).values = world.state.values
      BY DEF ReplayIsTheSession
  <2>1. Ready(defs, world.lets, world.state)
      BY DEF SessionInv
  <2>2. Execute(NewLuaState, defs) = [ok |-> TRUE, values |-> world.state.values, out |-> <<>>]
      BY <2>1 DEF Ready
  <2> QED
      BY <2>2 DEF SessionInv
<1> QED
    BY InitSession, StepSession, <1>1, PTL DEF ReplSpec
=============================================================================
