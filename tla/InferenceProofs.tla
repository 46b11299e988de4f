--------------------------- MODULE InferenceProofs ---------------------------
(***************************************************************************)
(* What two parts of inference guarantee, for every size of their input.   *)
(*                                                                         *)
(* Let-generalization by levels, for every number of variables and every   *)
(* nesting of scopes:                                                      *)
(*                                                                         *)
(*   GeneralizationSound   QuantifiedNotInEnv, for programs that bind no   *)
(*                         lambda's type as infer_lambda_expr leaves it    *)
(*                                                                         *)
(* The level of a variable says how far out it can be reached: what two    *)
(* scopes share, when a scope between them may be generalized, lies at the *)
(* ambient level of that scope or below (Separated).  So a variable above  *)
(* the ambient level is reached from nowhere else, and once it is          *)
(* quantified from nowhere at all.                                         *)
(*                                                                         *)
(* Error recovery, for programs of any length over any finite set of names:*)
(*                                                                         *)
(*   CascadeOnlyThroughOperators   a diagnostic is of a faulty statement   *)
(*                     or of one that mentions an operator                 *)
(*   NoCascadeHolds    NoCascade, for programs without operators           *)
(*   EnvIsExactHolds   EnvIsExact, for all programs                        *)
(*   FaultsReportedHolds   FaultsReported, for all programs                *)
(***************************************************************************)
EXTENDS LetPolymorphism, Recovery, TLAPS, FiniteSetTheorems, SequenceTheorems

-----------------------------------------------------------------------------
(* Levels: the inductive invariant.  Its parts are operators on levels and *)
(* scopes, since a unification of rows changes both twice.                 *)

ScopeKind == {"module", "fn", "lambda", "let", "let_pattern"}

Scope == [kind : ScopeKind, env : Ty, temps : Ty, before : Ty]

\* The scopes whose type may be generalized when they are left.
Generalizing(scope) == scope.kind \in {"fn", "let"}

Reachable(scope) == scope.env \union scope.temps

Typed ==
    /\ levels \in [TyVar -> Level]
    /\ next_var \in 0 .. NumVars
    /\ scopes \in Seq(Scope)
    /\ Len(scopes) >= 1
    /\ Len(scopes) <= MaxLevel + 1
    /\ scopes[1].kind = "module"
    /\ \A v \in quantified : v \in TyVar /\ v < next_var

\* The variables in use exist, those of the first scope's environment are at
\* level 0, those of the second's at 1 or below, and so on.
Bounded(lv, sc, n) ==
    \A i \in 1 .. Len(sc) :
        /\ \A v \in sc[i].env : v < n /\ lv[v] <= i - 1
        /\ \A v \in sc[i].temps : v < n
        /\ \A v \in sc[i].before : v < n /\ lv[v] <= i - 2

\* What scopes i and k share is not above the ambient level of a scope between them.
Separated(lv, sc) ==
    \A i, j, k \in 1 .. Len(sc) :
        (i < j /\ j <= k /\ Generalizing(sc[j])) =>
            \A v \in Reachable(sc[i]) \intersect Reachable(sc[k]) : lv[v] <= j - 2

Gone(vs, sc) == \A i \in 1 .. Len(sc) : vs \intersect Reachable(sc[i]) = {}

LetInv ==
    /\ Typed
    /\ Bounded(levels, scopes, next_var)
    /\ Separated(levels, scopes)
    /\ Gone(quantified, scopes)

-----------------------------------------------------------------------------
(* What the operations on scopes keep.                                     *)

\* A variable that is not in use may get any level.
LEMMA FreshKeeps ==
    ASSUME NEW lv \in [TyVar -> Level], NEW sc \in Seq(Scope), NEW n \in TyVar, NEW level \in Level,
           Bounded(lv, sc, n), Separated(lv, sc)
    PROVE  /\ Bounded([lv EXCEPT ![n] = level], sc, n + 1)
           /\ Separated([lv EXCEPT ![n] = level], sc)
<1> DEFINE lv2 == [lv EXCEPT ![n] = level]
<1>1. \A v \in TyVar : v < n => lv2[v] = lv[v]
    BY DEF TyVar
<1>2. \A i \in 1 .. Len(sc) : sc[i] \in Scope
    OBVIOUS
<1>3. \A i \in 1 .. Len(sc) :
        sc[i].env \subseteq TyVar /\ sc[i].temps \subseteq TyVar /\ sc[i].before \subseteq TyVar
    BY <1>2 DEF Scope, Ty
<1> HIDE DEF lv2
<1>4. Bounded(lv2, sc, n + 1)
  <2>1. SUFFICES ASSUME NEW i \in 1 .. Len(sc)
                 PROVE  /\ \A v \in sc[i].env : v < n + 1 /\ lv2[v] <= i - 1
                        /\ \A v \in sc[i].temps : v < n + 1
                        /\ \A v \in sc[i].before : v < n + 1 /\ lv2[v] <= i - 2
      BY DEF Bounded
  <2>2. /\ \A v \in sc[i].env : v \in TyVar /\ v < n /\ lv[v] <= i - 1
        /\ \A v \in sc[i].temps : v \in TyVar /\ v < n
        /\ \A v \in sc[i].before : v \in TyVar /\ v < n /\ lv[v] <= i - 2
      BY <1>3 DEF Bounded
  <2>3. \A v \in TyVar : v < n => v < n + 1
      BY DEF TyVar
  <2> QED
      BY <1>1, <2>2, <2>3
<1>5. Separated(lv2, sc)
  <2>1. SUFFICES ASSUME NEW i \in 1 .. Len(sc), NEW j \in 1 .. Len(sc), NEW k \in 1 .. Len(sc),
                        i < j, j <= k, Generalizing(sc[j]),
                        NEW v \in Reachable(sc[i]) \intersect Reachable(sc[k])
                 PROVE  lv2[v] <= j - 2
      BY DEF Separated
  <2>2. lv[v] <= j - 2
      BY <2>1 DEF Separated
  <2>3. v \in TyVar /\ v < n
      BY <1>3 DEF Bounded, Reachable
  <2> QED
      BY <1>1, <2>2, <2>3
<1> QED
    BY <1>4, <1>5 DEF lv2

LEMMA SolveScope ==
    ASSUME NEW s \in Scope, NEW v \in TyVar, NEW ty \in Ty
    PROVE  /\ SolveInScope(s, v, ty) \in Scope
           /\ SolveInScope(s, v, ty).kind = s.kind
           /\ SolveInScope(s, v, ty).before = s.before
           /\ SolveInScope(s, v, ty).env = Solve(s.env, v, ty)
           /\ SolveInScope(s, v, ty).temps = Solve(s.temps, v, ty)
           /\ Reachable(SolveInScope(s, v, ty)) = Solve(Reachable(s), v, ty)
<1>1. \A S \in Ty : Solve(S, v, ty) \in Ty
    BY DEF Solve, Ty
<1>2. /\ SolveInScope(s, v, ty) \in Scope
      /\ SolveInScope(s, v, ty).kind = s.kind
      /\ SolveInScope(s, v, ty).before = s.before
      /\ SolveInScope(s, v, ty).env = Solve(s.env, v, ty)
      /\ SolveInScope(s, v, ty).temps = Solve(s.temps, v, ty)
    BY <1>1 DEF SolveInScope, Scope
<1>3. Solve(s.env, v, ty) \union Solve(s.temps, v, ty) = Solve(s.env \union s.temps, v, ty)
    BY DEF Solve
<1> QED
    BY <1>2, <1>3 DEF Reachable

\* v may be bound to ty: it is in reach, and each variable of ty is in reach or
\* at the root level.
MaySolve(lv, sc, n, h, vs, v, ty, target) ==
    /\ v \in TyVar /\ v \in Reachable(sc[h])
    /\ ty \in Ty /\ vs \intersect ty = {}
    /\ \A w \in ty : w < n /\ (w \in Reachable(sc[h]) \/ lv[w] = RootLevel)
    /\ target \in Level /\ IsMinLevel(lv, ty \union {v}, target)

SolvedAs(lv, sc, h, v, ty, target, lv2, sc2) ==
    /\ lv2 = BindLevels(lv, v, ty, target)
    /\ sc2 = [i \in 1 .. h |-> SolveInScope(sc[i], v, ty)]

LEMMA SolveKeeps ==
    ASSUME NEW lv \in [TyVar -> Level], NEW sc \in Seq(Scope), NEW n \in Nat,
           NEW h \in Nat, h = Len(sc), h >= 1, NEW vs,
           Bounded(lv, sc, n), Separated(lv, sc), Gone(vs, sc),
           NEW v, NEW ty, NEW target, MaySolve(lv, sc, n, h, vs, v, ty, target),
           NEW lv2, NEW sc2, SolvedAs(lv, sc, h, v, ty, target, lv2, sc2)
    PROVE  /\ lv2 \in [TyVar -> Level]
           /\ sc2 \in Seq(Scope)
           /\ Len(sc2) = h
           /\ \A i \in 1 .. h : sc2[i].kind = sc[i].kind
           /\ Reachable(sc2[h]) = Solve(Reachable(sc[h]), v, ty)
           /\ Bounded(lv2, sc2, n)
           /\ Separated(lv2, sc2)
           /\ Gone(vs, sc2)
<1>1. /\ v \in TyVar /\ v \in Reachable(sc[h]) /\ ty \in Ty /\ vs \intersect ty = {}
      /\ \A w \in ty : w < n /\ (w \in Reachable(sc[h]) \/ lv[w] = RootLevel)
      /\ target \in Level /\ IsMinLevel(lv, ty \union {v}, target)
      /\ h \in 1 .. h
    BY DEF MaySolve
<1>2. lv2 = BindLevels(lv, v, ty, target) /\ lv2 \in [TyVar -> Level]
    BY <1>1 DEF SolvedAs, BindLevels, LowerLevels
<1>3. sc2 = [i \in 1 .. h |-> SolveInScope(sc[i], v, ty)]
    BY DEF SolvedAs
<1>4. \A i \in 1 .. h : sc[i] \in Scope /\ sc[i].env \in Ty /\ sc[i].temps \in Ty /\ sc[i].before \in Ty
  <2>1. \A i \in 1 .. h : sc[i] \in Scope
      BY <1>1
  <2>2. \A s \in Scope : s.env \in Ty /\ s.temps \in Ty /\ s.before \in Ty
      BY DEF Scope
  <2> QED
      BY <2>1, <2>2
<1>5. \A i \in 1 .. h :
        /\ sc2[i] \in Scope
        /\ sc2[i].kind = sc[i].kind
        /\ sc2[i].before = sc[i].before
        /\ sc2[i].env = Solve(sc[i].env, v, ty)
        /\ sc2[i].temps = Solve(sc[i].temps, v, ty)
        /\ Reachable(sc2[i]) = Solve(Reachable(sc[i]), v, ty)
    BY <1>1, <1>3, <1>4, SolveScope
<1>6. sc2 \in Seq(Scope) /\ Len(sc2) = h
    BY <1>3, <1>5
\* Levels only go down, and those of ty end no higher than that of v.
<1>7. \A w \in TyVar : lv[w] \in Nat /\ lv2[w] \in Nat /\ target \in Nat
    BY <1>1, <1>2, MaxLevelAssumption DEF Level
<1>8. /\ \A w \in TyVar : lv2[w] <= lv[w]
      /\ \A w \in ty : lv2[w] <= lv[v]
    BY <1>1, <1>2, <1>7 DEF BindLevels, LowerLevels, LoweredVars, IsMinLevel, Ty
<1>9. v < n
    BY <1>1 DEF Bounded, Reachable
<1>10. Bounded(lv2, sc2, n)
  <2>1. SUFFICES ASSUME NEW i \in 1 .. h
                 PROVE  /\ \A w \in sc2[i].env : w < n /\ lv2[w] <= i - 1
                        /\ \A w \in sc2[i].temps : w < n
                        /\ \A w \in sc2[i].before : w < n /\ lv2[w] <= i - 2
      BY <1>6 DEF Bounded
  <2>2. /\ \A w \in sc[i].env : w < n /\ lv[w] <= i - 1
        /\ \A w \in sc[i].temps : w < n
        /\ \A w \in sc[i].before : w < n /\ lv[w] <= i - 2
      BY <1>1 DEF Bounded
  <2>3. \A w \in TyVar : \A b \in Int : lv[w] <= b => lv2[w] <= b
      BY <1>7, <1>8
  <2>4. ASSUME NEW w \in sc2[i].env
        PROVE  w < n /\ lv2[w] <= i - 1
    <3>1. CASE w \in sc[i].env
        BY <1>4, <2>2, <2>3, <3>1 DEF Ty
    <3>2. CASE w \in ty /\ v \in sc[i].env
      <4>1. lv[v] <= i - 1 /\ lv2[w] <= lv[v] /\ w \in TyVar
          BY <1>1, <1>8, <2>2, <3>2 DEF Ty
      <4> QED
          BY <1>1, <1>7, <3>2, <4>1
    <3> QED
        BY <1>5, <3>1, <3>2 DEF Solve
  <2>5. ASSUME NEW w \in sc2[i].temps
        PROVE  w < n
      BY <1>1, <1>5, <2>2 DEF Solve
  <2>6. ASSUME NEW w \in sc2[i].before
        PROVE  w < n /\ lv2[w] <= i - 2
      BY <1>4, <1>5, <2>2, <2>3 DEF Ty
  <2> QED
      BY <2>4, <2>5, <2>6
<1>11. Separated(lv2, sc2)
  <2>1. SUFFICES ASSUME NEW i \in 1 .. h, NEW j \in 1 .. h, NEW k \in 1 .. h,
                        i < j, j <= k, Generalizing(sc2[j]),
                        NEW w \in Reachable(sc2[i]) \intersect Reachable(sc2[k])
                 PROVE  lv2[w] <= j - 2
      BY <1>6 DEF Separated
  <2>2. Generalizing(sc[j]) /\ h \in 1 .. Len(sc) /\ j <= h
      BY <1>1, <1>5, <2>1 DEF Generalizing
  <2>3. \A x : x \in Reachable(sc[i]) /\ (x \in Reachable(sc[k]) \/ x \in Reachable(sc[h]))
                  => lv[x] <= j - 2
      BY <1>1, <2>1, <2>2 DEF Separated
  <2>4. w \in TyVar
      BY <1>5, <2>1 DEF Scope, Reachable, Ty
  <2>5. CASE w \in ty /\ v \in Reachable(sc[i])
    <3>1. lv[v] <= j - 2 /\ lv2[w] <= lv[v]
        BY <1>1, <1>8, <2>3, <2>5
    <3> QED
        BY <1>1, <1>7, <2>4, <3>1
  <2>6. CASE w \in Reachable(sc[i]) /\ w \in ty
    <3>1. CASE w \in Reachable(sc[h])
      <4>1. lv[w] <= j - 2 /\ lv2[w] <= lv[w]
          BY <1>8, <2>3, <2>4, <2>6, <3>1
      <4> QED
          BY <1>7, <2>4, <4>1
    <3>2. CASE lv[w] = RootLevel
      <4>1. lv2[w] <= 0
          BY <1>8, <2>4, <3>2 DEF RootLevel
      <4> QED
          BY <1>7, <2>1, <2>4, <4>1
    <3> QED
        BY <1>1, <2>6, <3>1, <3>2
  <2>7. CASE w \in Reachable(sc[i]) /\ w \in Reachable(sc[k])
    <3>1. lv[w] <= j - 2 /\ lv2[w] <= lv[w]
        BY <1>8, <2>3, <2>4, <2>7
    <3> QED
        BY <1>7, <2>4, <3>1
  <2> QED
      BY <1>5, <2>1, <2>5, <2>6, <2>7 DEF Solve
<1>12. Gone(vs, sc2)
  <2>1. ASSUME NEW i \in 1 .. h
        PROVE  vs \intersect Reachable(sc2[i]) = {}
      BY <1>1, <1>5 DEF Gone, Solve
  <2> QED
      BY <1>6, <2>1 DEF Gone
<1> QED
    BY <1>1, <1>2, <1>3, <1>5, <1>6, <1>10, <1>11, <1>12

\* E and T may join the last of h scopes: they hold nothing quantified, and
\* nothing that a scope further out holds above the ambient level of a scope
\* between them.
MayJoin(lv, sc, n, h, vs, E, T) ==
    /\ E \in Ty /\ T \in Ty /\ (E \union T) \intersect vs = {}
    /\ \A w \in E : w < n /\ lv[w] <= h - 1
    /\ \A w \in T : w < n
    /\ \A i, j \in 1 .. h :
          (i < j /\ Generalizing(sc[j])) =>
              \A w \in (E \union T) \intersect Reachable(sc[i]) : lv[w] <= j - 2

Joined(sc, sc2, h, E, T) ==
    /\ sc2 \in Seq(Scope) /\ Len(sc2) = h
    /\ \A i \in 1 .. h : i < h => sc2[i] = sc[i]
    /\ sc2[h].kind = sc[h].kind /\ sc2[h].before = sc[h].before
    /\ sc2[h].env = sc[h].env \union E /\ sc2[h].temps = sc[h].temps \union T

LEMMA GrowKeeps ==
    ASSUME NEW lv, NEW sc, NEW n, NEW h \in Nat, h = Len(sc), h >= 1, NEW vs,
           Bounded(lv, sc, n), Separated(lv, sc), Gone(vs, sc),
           NEW E, NEW T, MayJoin(lv, sc, n, h, vs, E, T),
           NEW sc2, Joined(sc, sc2, h, E, T)
    PROVE  Bounded(lv, sc2, n) /\ Separated(lv, sc2) /\ Gone(vs, sc2)
<1> USE DEF MayJoin, Joined
<1>1. h \in 1 .. h
    OBVIOUS
<1>2. \A i \in 1 .. h : i = h \/ sc2[i] = sc[i]
    OBVIOUS
<1>3. \A i \in 1 .. h :
        Generalizing(sc2[i]) = Generalizing(sc[i])
    BY <1>2 DEF Generalizing
<1>4. Reachable(sc2[h]) = Reachable(sc[h]) \union E \union T
    BY DEF Reachable
<1>5. Bounded(lv, sc2, n)
  <2>1. ASSUME NEW i \in 1 .. h
        PROVE  /\ \A w \in sc2[i].env : w < n /\ lv[w] <= i - 1
               /\ \A w \in sc2[i].temps : w < n
               /\ \A w \in sc2[i].before : w < n /\ lv[w] <= i - 2
    <3>1. /\ \A w \in sc[i].env : w < n /\ lv[w] <= i - 1
          /\ \A w \in sc[i].temps : w < n
          /\ \A w \in sc[i].before : w < n /\ lv[w] <= i - 2
        BY <2>1 DEF Bounded
    <3>2. CASE i = h
        BY <3>1, <3>2
    <3>3. CASE sc2[i] = sc[i]
        BY <3>1, <3>3
    <3> QED
        BY <1>2, <3>2, <3>3
  <2> QED
      BY <2>1 DEF Bounded
<1>6. Separated(lv, sc2)
  <2>1. SUFFICES ASSUME NEW i \in 1 .. h, NEW j \in 1 .. h, NEW k \in 1 .. h,
                        i < j, j <= k, Generalizing(sc2[j]),
                        NEW w \in Reachable(sc2[i]) \intersect Reachable(sc2[k])
                 PROVE  lv[w] <= j - 2
      BY DEF Separated
  <2>2. Generalizing(sc[j]) /\ w \in Reachable(sc[i])
      BY <1>2, <1>3, <2>1
  <2>3. CASE w \in Reachable(sc[k])
      BY <2>1, <2>2, <2>3 DEF Separated
  <2>4. CASE w \in E \union T
      BY <2>1, <2>2, <2>4
  <2> QED
      BY <1>2, <1>4, <2>1, <2>3, <2>4
<1>7. Gone(vs, sc2)
  <2>1. \A i \in 1 .. h : vs \intersect Reachable(sc[i]) = {}
      BY DEF Gone
  <2>2. ASSUME NEW i \in 1 .. h
        PROVE  vs \intersect Reachable(sc2[i]) = {}
      BY <1>1, <1>2, <1>4, <2>1
  <2> QED
      BY <2>2 DEF Gone
<1> QED
    BY <1>5, <1>6, <1>7

Unreached(sc, h, w) == \A i \in 1 .. h : w \notin Reachable(sc[i])

\* A child scope holds what its parent does, and what no other scope does.
MayEnter(lv, sc, n, h, vs, s) ==
    /\ s \in Scope
    /\ \A w \in s.env : w < n /\ lv[w] <= h
    /\ \A w \in s.temps : w < n
    /\ \A w \in s.before : w < n /\ lv[w] <= h - 1
    /\ \A w \in Reachable(s) : w \in Reachable(sc[h]) \/ Unreached(sc, h, w)
    /\ Generalizing(s) => \A w \in Reachable(s) : lv[w] <= h - 1 \/ Unreached(sc, h, w)
    /\ Reachable(s) \intersect vs = {}

LEMMA EnterKeeps ==
    ASSUME NEW lv, NEW sc \in Seq(Scope), NEW n, NEW h \in Nat,
           h = Len(sc), h >= 1, NEW vs,
           Bounded(lv, sc, n), Separated(lv, sc), Gone(vs, sc),
           NEW s, MayEnter(lv, sc, n, h, vs, s)
    PROVE  /\ Append(sc, s) \in Seq(Scope)
           /\ Len(Append(sc, s)) = h + 1
           /\ Append(sc, s)[1] = sc[1]
           /\ Bounded(lv, Append(sc, s), n)
           /\ Separated(lv, Append(sc, s))
           /\ Gone(vs, Append(sc, s))
<1> USE DEF MayEnter, Unreached
<1>1. PICK sc2 : sc2 = Append(sc, s)
    OBVIOUS
<1>2. /\ sc2 \in Seq(Scope) /\ Len(sc2) = h + 1
      /\ \A i \in 1 .. h : sc2[i] = sc[i]
      /\ sc2[h + 1] = s
    BY <1>1
<1>3. \A i \in 1 .. h + 1 : i = h + 1 \/ i \in 1 .. h
    OBVIOUS
<1>4. Bounded(lv, sc2, n)
  <2>1. ASSUME NEW i \in 1 .. h + 1
        PROVE  /\ \A w \in sc2[i].env : w < n /\ lv[w] <= i - 1
               /\ \A w \in sc2[i].temps : w < n
               /\ \A w \in sc2[i].before : w < n /\ lv[w] <= i - 2
    <3>1. CASE i = h + 1
        BY <1>2, <3>1
    <3>2. CASE i \in 1 .. h
        BY <1>2, <3>2 DEF Bounded
    <3> QED
        BY <1>3, <3>1, <3>2
  <2> QED
      BY <1>2, <2>1 DEF Bounded
<1>5. Separated(lv, sc2)
  <2>1. SUFFICES ASSUME NEW i \in 1 .. h + 1, NEW j \in 1 .. h + 1, NEW k \in 1 .. h + 1,
                        i < j, j <= k, Generalizing(sc2[j]),
                        NEW w \in Reachable(sc2[i]) \intersect Reachable(sc2[k])
                 PROVE  lv[w] <= j - 2
      BY <1>2 DEF Separated
  <2>2. i \in 1 .. h /\ w \in Reachable(sc[i])
      BY <1>2, <2>1
  <2>3. CASE k \in 1 .. h
    <3>1. j \in 1 .. h
        BY <2>1, <2>3
    <3> QED
        BY <1>2, <2>1, <2>2, <2>3, <3>1 DEF Separated
  <2>4. CASE k = h + 1 /\ j \in 1 .. h
    <3>1. w \in Reachable(sc[h]) /\ h \in 1 .. h /\ j <= h
        BY <1>2, <2>1, <2>2, <2>4
    <3> QED
        BY <1>2, <2>1, <2>2, <2>4, <3>1 DEF Separated
  <2>5. CASE k = h + 1 /\ j = h + 1
    <3>1. lv[w] <= h - 1
        BY <1>2, <2>1, <2>2, <2>5
    <3> QED
        BY <2>5, <3>1
  <2> QED
      BY <1>3, <2>1, <2>3, <2>4, <2>5
<1>6. Gone(vs, sc2)
  <2>1. \A i \in 1 .. h : vs \intersect Reachable(sc[i]) = {}
      BY DEF Gone
  <2>2. ASSUME NEW i \in 1 .. h + 1
        PROVE  vs \intersect Reachable(sc2[i]) = {}
      BY <1>2, <1>3, <2>1
  <2> QED
      BY <1>2, <2>2 DEF Gone
<1> QED
    BY <1>1, <1>2, <1>4, <1>5, <1>6

-----------------------------------------------------------------------------
(* Every step keeps the invariant.                                         *)

LEMMA InReachFacts ==
    ASSUME LetInv
    PROVE  /\ Len(scopes) \in Nat /\ Len(scopes) \in 1 .. Len(scopes)
           /\ \A i \in 1 .. Len(scopes) :
                scopes[i].env \in Ty /\ scopes[i].temps \in Ty /\ scopes[i].before \in Ty
           /\ InReach = Reachable(scopes[Len(scopes)])
           /\ \A w \in InReach : w \in TyVar /\ w < next_var /\ w \notin quantified
<1>1. Len(scopes) \in Nat /\ Len(scopes) \in 1 .. Len(scopes)
    BY DEF LetInv, Typed
<1>2. \A i \in 1 .. Len(scopes) : scopes[i] \in Scope
    BY DEF LetInv, Typed
<1>3. \A s \in Scope : s.env \in Ty /\ s.temps \in Ty /\ s.before \in Ty
    BY DEF Scope
<1>4. InReach = Reachable(scopes[Len(scopes)])
    BY DEF InReach, Top, Reachable
<1>5. \A w \in InReach : w \in TyVar
    BY <1>1, <1>2, <1>3, <1>4 DEF Reachable, Ty
<1>6. \A w \in InReach : w < next_var
    BY <1>1, <1>4 DEF LetInv, Bounded, Reachable
<1>7. \A w \in InReach : w \notin quantified
    BY <1>1, <1>4 DEF LetInv, Gone
<1> QED
    BY <1>1, <1>2, <1>3, <1>4, <1>5, <1>6, <1>7

LEMMA FreshTyKeeps ==
    ASSUME LetInv, FreshTy
    PROVE  LetInv'
<1>1. PICK h \in Nat : h = Len(scopes) /\ h >= 1
    BY InReachFacts
<1>2. PICK n : n = next_var /\ n \in TyVar /\ n \in Nat /\ n + 1 \in 0 .. NumVars
    BY NumVarsAssumption DEF LetInv, Typed, FreshTy, TyVar
<1>3. h - 1 \in Level
    BY <1>1, MaxLevelAssumption DEF LetInv, Typed, Level
<1>4. PICK lv \in [TyVar -> Level] : lv = [levels EXCEPT ![n] = h - 1]
    BY <1>3 DEF LetInv, Typed
<1>5. PICK top : top = [scopes[h] EXCEPT !.temps = @ \union {n}]
    OBVIOUS
<1> DEFINE sc2 == [scopes EXCEPT ![h] = top]
<1>6. levels' = lv /\ scopes' = sc2 /\ next_var' = n + 1 /\ quantified' = quantified
    BY <1>1, <1>2, <1>4, <1>5 DEF FreshTy, current_level
<1>7. scopes \in Seq(Scope) /\ scopes[h] \in Scope /\ {n} \in Ty /\ {} \in Ty
    BY <1>1, <1>2 DEF LetInv, Typed, Ty
<1>8. top \in Scope
    BY <1>5, <1>7 DEF Scope, Ty
<1>9. /\ sc2 \in Seq(Scope) /\ Len(sc2) = h
      /\ \A i \in 1 .. h : i < h => sc2[i] = scopes[i]
      /\ sc2[h] = top
    BY <1>1, <1>7, <1>8
<1> HIDE DEF sc2
<1>10. /\ sc2[h].kind = scopes[h].kind /\ sc2[h].before = scopes[h].before
       /\ sc2[h].env = scopes[h].env \union {}
       /\ sc2[h].temps = scopes[h].temps \union {n}
    BY <1>5, <1>7, <1>9 DEF Scope
<1>11. Bounded(lv, scopes, n + 1) /\ Separated(lv, scopes)
    BY <1>2, <1>3, <1>4, <1>7, FreshKeeps DEF LetInv, Typed
<1>12. \A i \in 1 .. h : n \notin Reachable(scopes[i])
    BY <1>1, <1>2 DEF LetInv, Bounded, Reachable
<1>13. n \notin quantified
    BY <1>2 DEF LetInv, Typed
<1>14. Bounded(lv, sc2, n + 1) /\ Separated(lv, sc2) /\ Gone(quantified, sc2)
  <2>1. Gone(quantified, scopes)
      BY DEF LetInv
  <2>2. MayJoin(lv, scopes, n + 1, h, quantified, {}, {n})
      BY <1>2, <1>7, <1>12, <1>13 DEF MayJoin
  <2>3. Joined(scopes, sc2, h, {}, {n})
      BY <1>9, <1>10 DEF Joined
  <2> QED
      BY <1>1, <1>11, <2>1, <2>2, <2>3, GrowKeeps
<1>15. Typed'
  <2>1. sc2[1].kind = "module"
      BY <1>1, <1>9, <1>10 DEF LetInv, Typed
  <2>2. \A v \in quantified : v \in TyVar /\ v < n + 1
      BY <1>2 DEF LetInv, Typed, TyVar
  <2>3. Len(sc2) >= 1 /\ Len(sc2) <= MaxLevel + 1
      BY <1>1, <1>9 DEF LetInv, Typed
  <2> QED
      BY <1>2, <1>6, <1>9, <2>1, <2>2, <2>3 DEF Typed
<1> QED
    BY <1>6, <1>14, <1>15 DEF LetInv

LEMMA UnifyKeeps ==
    ASSUME LetInv, NEW v \in InReach, NEW ty \in SUBSET (InReach \ {v}), Unify(v, ty)
    PROVE  LetInv'
<1>1. PICK h \in Nat : h = Len(scopes) /\ h >= 1
    BY InReachFacts
<1>2. PICK target \in Level : /\ IsMinLevel(levels, ty \union {v}, target)
                              /\ levels' = BindLevels(levels, v, ty, target)
    BY DEF Unify
<1>3. /\ scopes' = [i \in 1 .. Len(scopes) |-> SolveInScope(scopes[i], v, ty)]
      /\ next_var' = next_var /\ quantified' = quantified
    BY DEF Unify
<1>4. MaySolve(levels, scopes, next_var, h, quantified, v, ty, target)
    BY <1>1, <1>2, InReachFacts DEF MaySolve, Ty
<1>5. SolvedAs(levels, scopes, h, v, ty, target, levels', scopes')
    BY <1>1, <1>2, <1>3 DEF SolvedAs
<1>6. /\ levels \in [TyVar -> Level] /\ scopes \in Seq(Scope) /\ next_var \in Nat
      /\ Bounded(levels, scopes, next_var) /\ Separated(levels, scopes) /\ Gone(quantified, scopes)
    BY DEF LetInv, Typed
<1>7. /\ levels' \in [TyVar -> Level]
      /\ scopes' \in Seq(Scope)
      /\ Len(scopes') = h
      /\ \A i \in 1 .. h : scopes'[i].kind = scopes[i].kind
      /\ Bounded(levels', scopes', next_var)
      /\ Separated(levels', scopes')
      /\ Gone(quantified, scopes')
    BY <1>1, <1>4, <1>5, <1>6, SolveKeeps
<1>8. Typed'
  <2>1. scopes'[1].kind = "module" /\ Len(scopes') >= 1 /\ Len(scopes') <= MaxLevel + 1
      BY <1>1, <1>7 DEF LetInv, Typed
  <2> QED
      BY <1>3, <1>7, <2>1 DEF LetInv, Typed
<1> QED
    BY <1>3, <1>7, <1>8 DEF LetInv

LEMMA UnifyOpenRowsKeeps ==
    ASSUME LetInv, NEW tail1 \in InReach, NEW tail2 \in InReach,
           NEW extras1 \in SUBSET InReach, NEW extras2 \in SUBSET InReach,
           UnifyOpenRows(tail1, tail2, extras1, extras2)
    PROVE  LetInv'
<1>1. PICK h \in Nat : h = Len(scopes) /\ h >= 1
    BY InReachFacts
<1>2. PICK n : n = next_var /\ n \in TyVar /\ n \in Nat /\ n + 1 \in 0 .. NumVars
    BY NumVarsAssumption DEF LetInv, Typed, UnifyOpenRows, TyVar
<1>3. PICK row2 : row2 = extras2 \union {n}
    OBVIOUS
<1>4. PICK row1 : row1 = Solve(extras1, tail1, row2) \union {n}
    OBVIOUS
<1>5. RootLevel \in Level
    BY MaxLevelAssumption DEF RootLevel, Level
<1>6. PICK lv0 \in [TyVar -> Level] : lv0 = [levels EXCEPT ![n] = RootLevel]
    BY <1>5 DEF LetInv, Typed
<1>7. PICK target1 \in Level, target2 \in Level :
         /\ IsMinLevel(lv0, row2 \union {tail1}, target1)
         /\ IsMinLevel(BindLevels(lv0, tail1, row2, target1), row1 \union {tail2}, target2)
         /\ levels' = BindLevels(BindLevels(lv0, tail1, row2, target1), tail2, row1, target2)
    BY <1>2, <1>3, <1>4, <1>6 DEF UnifyOpenRows
<1>8. PICK lv1 : lv1 = BindLevels(lv0, tail1, row2, target1)
    OBVIOUS
<1>9. PICK sc1 : sc1 = [i \in 1 .. h |-> SolveInScope(scopes[i], tail1, row2)]
    OBVIOUS
<1>10. /\ tail1 # tail2
       /\ scopes' = [i \in 1 .. Len(scopes) |->
                        SolveInScope(SolveInScope(scopes[i], tail1, row2), tail2, row1)]
       /\ next_var' = n + 1 /\ quantified' = quantified
    BY <1>2, <1>3, <1>4 DEF UnifyOpenRows
<1>11. scopes' = [i \in 1 .. h |-> SolveInScope(sc1[i], tail2, row1)]
    BY <1>1, <1>9, <1>10
<1>12. /\ InReach = Reachable(scopes[h])
       /\ \A w \in InReach : w \in TyVar /\ w < n /\ w < n + 1 /\ w \notin quantified
    BY <1>1, <1>2, InReachFacts DEF TyVar
<1>13. n \notin quantified /\ n < n + 1
    BY <1>2 DEF LetInv, Typed
\* Both tails are bound: first tail1, to the fields it lacks and the new tail.
<1>14. /\ lv1 \in [TyVar -> Level]
       /\ sc1 \in Seq(Scope)
       /\ Len(sc1) = h
       /\ \A i \in 1 .. h : sc1[i].kind = scopes[i].kind
       /\ Reachable(sc1[h]) = Solve(Reachable(scopes[h]), tail1, row2)
       /\ Bounded(lv1, sc1, n + 1)
       /\ Separated(lv1, sc1)
       /\ Gone(quantified, sc1)
  <2>1. scopes \in Seq(Scope) /\ Gone(quantified, scopes)
      BY DEF LetInv, Typed
  <2>2. Bounded(lv0, scopes, n + 1) /\ Separated(lv0, scopes)
      BY <1>2, <1>5, <1>6, <2>1, FreshKeeps DEF LetInv, Typed
  <2>3. lv0[n] = RootLevel
      BY <1>2, <1>6 DEF LetInv, Typed
  <2>4. MaySolve(lv0, scopes, n + 1, h, quantified, tail1, row2, target1)
    <3>1. row2 \in Ty /\ quantified \intersect row2 = {}
        BY <1>2, <1>3, <1>12, <1>13 DEF Ty
    <3>2. \A w \in row2 : w < n + 1 /\ (w \in Reachable(scopes[h]) \/ lv0[w] = RootLevel)
        BY <1>3, <1>12, <1>13, <2>3
    <3>3. tail1 \in TyVar /\ tail1 \in Reachable(scopes[h])
        BY <1>12
    <3> QED
        BY <1>7, <3>1, <3>2, <3>3 DEF MaySolve
  <2>5. SolvedAs(lv0, scopes, h, tail1, row2, target1, lv1, sc1)
      BY <1>8, <1>9 DEF SolvedAs
  <2> QED
      BY <1>1, <1>2, <2>1, <2>2, <2>4, <2>5, SolveKeeps
\* Then tail2, to its own missing fields, in which tail1 is solved already.
<1>15. /\ levels' \in [TyVar -> Level]
       /\ scopes' \in Seq(Scope)
       /\ Len(scopes') = h
       /\ \A i \in 1 .. h : scopes'[i].kind = sc1[i].kind
       /\ Bounded(levels', scopes', n + 1)
       /\ Separated(levels', scopes')
       /\ Gone(quantified, scopes')
  <2>1. /\ row1 \subseteq (extras1 \ {tail1}) \union row2
        /\ Reachable(sc1[h]) = (InReach \ {tail1}) \union row2
      BY <1>3, <1>4, <1>12, <1>14 DEF Solve
  <2>2. row1 \subseteq Reachable(sc1[h]) /\ tail2 \in Reachable(sc1[h])
      BY <1>10, <2>1
  <2>3. \A w \in row2 : w \in TyVar /\ w < n + 1 /\ w \notin quantified
      BY <1>2, <1>3, <1>12, <1>13
  <2>4. \A w \in row1 : w \in TyVar /\ w < n + 1 /\ w \notin quantified
      BY <1>12, <2>1, <2>3
  <2>5. MaySolve(lv1, sc1, n + 1, h, quantified, tail2, row1, target2)
    <3>1. row1 \in Ty /\ quantified \intersect row1 = {}
        BY <2>4 DEF Ty
    <3>2. \A w \in row1 : w < n + 1 /\ (w \in Reachable(sc1[h]) \/ lv1[w] = RootLevel)
        BY <2>2, <2>4
    <3>3. tail2 \in TyVar /\ tail2 \in Reachable(sc1[h])
        BY <1>12, <2>2
    <3> QED
        BY <1>7, <1>8, <3>1, <3>2, <3>3 DEF MaySolve
  <2>6. SolvedAs(lv1, sc1, h, tail2, row1, target2, levels', scopes')
      BY <1>7, <1>8, <1>11 DEF SolvedAs
  <2> QED
      BY <1>1, <1>2, <1>14, <2>5, <2>6, SolveKeeps
<1>16. Typed'
  <2>1. scopes'[1].kind = "module" /\ Len(scopes') >= 1 /\ Len(scopes') <= MaxLevel + 1
      BY <1>1, <1>14, <1>15 DEF LetInv, Typed
  <2>2. \A v \in quantified : v \in TyVar /\ v < n + 1
      BY <1>2 DEF LetInv, Typed, TyVar
  <2> QED
      BY <1>2, <1>10, <1>15, <2>1, <2>2 DEF Typed
<1> QED
    BY <1>10, <1>15, <1>16 DEF LetInv

LEMMA BindMonoKeeps ==
    ASSUME LetInv, ~UnloweredLambdas, NEW ty \in SUBSET InReach, BindMono(ty)
    PROVE  LetInv'
<1>1. PICK h \in Nat : h = Len(scopes) /\ h >= 1
    BY InReachFacts
<1>2. PICK top : top = [scopes[h] EXCEPT !.env = @ \union ty]
    OBVIOUS
<1> DEFINE sc2 == [scopes EXCEPT ![h] = top]
<1>3. /\ scopes' = sc2
      /\ levels' = levels /\ next_var' = next_var /\ quantified' = quantified
    BY <1>1, <1>2 DEF BindMono
<1>4. scopes \in Seq(Scope) /\ scopes[h] \in Scope /\ ty \in Ty /\ {} \in Ty
    BY <1>1, InReachFacts DEF LetInv, Typed, Ty
<1>5. top \in Scope
    BY <1>2, <1>4 DEF Scope, Ty
<1>6. /\ sc2 \in Seq(Scope) /\ Len(sc2) = h
      /\ \A i \in 1 .. h : i < h => sc2[i] = scopes[i]
      /\ sc2[h] = top
    BY <1>1, <1>4, <1>5
<1> HIDE DEF sc2
<1>7. /\ sc2[h].kind = scopes[h].kind /\ sc2[h].before = scopes[h].before
      /\ sc2[h].env = scopes[h].env \union ty
      /\ sc2[h].temps = scopes[h].temps \union {}
    BY <1>2, <1>4, <1>6 DEF Scope
<1>8. MayJoin(levels, scopes, next_var, h, quantified, ty, {})
  <2>1. \A w \in ty : w < next_var /\ levels[w] <= h - 1
      BY <1>1, InReachFacts DEF BindMono, LoweredTo, current_level
  <2>2. ty \intersect quantified = {} /\ ty \subseteq Reachable(scopes[h])
      BY <1>1, InReachFacts
  <2>3. \A i, j \in 1 .. h :
            (i < j /\ Generalizing(scopes[j])) =>
                \A w \in Reachable(scopes[i]) \intersect Reachable(scopes[h]) : levels[w] <= j - 2
      BY <1>1 DEF LetInv, Separated
  <2> QED
      BY <1>4, <2>1, <2>2, <2>3 DEF MayJoin
<1>9. Bounded(levels, sc2, next_var) /\ Separated(levels, sc2) /\ Gone(quantified, sc2)
  <2>1. Joined(scopes, sc2, h, ty, {})
      BY <1>6, <1>7 DEF Joined
  <2> QED
      BY <1>1, <1>8, <2>1, GrowKeeps DEF LetInv
<1>10. Typed'
  <2>1. sc2[1].kind = "module" /\ Len(sc2) >= 1 /\ Len(sc2) <= MaxLevel + 1
      BY <1>1, <1>6, <1>7 DEF LetInv, Typed
  <2> QED
      BY <1>3, <1>6, <2>1 DEF LetInv, Typed
<1> QED
    BY <1>3, <1>9, <1>10 DEF LetInv

LEMMA EnterStep ==
    ASSUME LetInv, NEW h \in Nat, h = Len(scopes), h >= 1, h <= MaxLevel,
           NEW lv \in [TyVar -> Level], NEW n \in 0 .. NumVars, next_var <= n,
           Bounded(lv, scopes, n), Separated(lv, scopes),
           NEW s, MayEnter(lv, scopes, n, h, quantified, s),
           levels' = lv, next_var' = n, quantified' = quantified,
           scopes' = Append(scopes, s)
    PROVE  LetInv'
<1>1. scopes \in Seq(Scope) /\ Gone(quantified, scopes) /\ h \in Nat /\ n \in Nat
    BY NumVarsAssumption DEF LetInv, Typed
<1>2. PICK sc2 : sc2 = Append(scopes, s)
    OBVIOUS
<1>3. /\ sc2 \in Seq(Scope) /\ Len(sc2) = h + 1 /\ sc2[1] = scopes[1]
      /\ Bounded(lv, sc2, n) /\ Separated(lv, sc2) /\ Gone(quantified, sc2)
    BY <1>1, <1>2, EnterKeeps
<1>4. Typed'
  <2>1. \A v \in quantified : v \in TyVar /\ v < n
      BY <1>1 DEF LetInv, Typed, TyVar
  <2>2. Len(sc2) >= 1 /\ Len(sc2) <= MaxLevel + 1 /\ sc2[1].kind = "module"
      BY <1>3, MaxLevelAssumption DEF LetInv, Typed
  <2> QED
      BY <1>2, <1>3, <2>1, <2>2 DEF Typed
<1> QED
    BY <1>2, <1>3, <1>4 DEF LetInv

LEMMA EnterFnKeeps ==
    ASSUME LetInv, NEW kind \in {"fn", "lambda"}, EnterFn(kind)
    PROVE  LetInv'
<1>1. PICK h \in Nat : h = Len(scopes) /\ h >= 1
    BY InReachFacts
<1>2. PICK n : n = next_var /\ n \in TyVar /\ n \in Nat /\ n + 1 \in 0 .. NumVars
    BY NumVarsAssumption DEF LetInv, Typed, EnterFn, TyVar
<1>3. h \in Level /\ h <= MaxLevel
    BY <1>1, MaxLevelAssumption DEF EnterFn, Enter, Level
<1>4. PICK lv \in [TyVar -> Level] : lv = [levels EXCEPT ![n] = h]
    BY <1>3 DEF LetInv, Typed
<1>5. PICK s : s = [kind |-> kind, env |-> Top.env \union {n}, temps |-> {}, before |-> {}]
    OBVIOUS
<1>6. /\ levels' = lv /\ next_var' = n + 1 /\ quantified' = quantified
      /\ scopes' = Append(scopes, s)
  <2>1. current_level + 1 = h
      BY <1>1 DEF current_level
  <2> QED
      BY <1>2, <1>4, <1>5, <2>1 DEF EnterFn, Enter
<1>7. Bounded(lv, scopes, n + 1) /\ Separated(lv, scopes)
    BY <1>2, <1>3, <1>4, FreshKeeps DEF LetInv, Typed
<1>8. MayEnter(lv, scopes, n + 1, h, quantified, s)
  <2>1. /\ Top.env \subseteq Reachable(scopes[h])
        /\ \A w \in Top.env : w \in TyVar /\ w < n /\ w \notin quantified /\ levels[w] <= h - 1
    <3>1. \A w \in Top.env : w \in InReach /\ levels[w] <= h - 1
        BY <1>1 DEF LetInv, Bounded, InReach, Top
    <3> QED
        BY <1>1, <1>2, <3>1, InReachFacts
  <2>2. \A i \in 1 .. h : n \notin Reachable(scopes[i])
      BY <1>1, <1>2 DEF LetInv, Bounded, Reachable
  <2>3. n \notin quantified
      BY <1>2 DEF LetInv, Typed
  <2>4. /\ \A w \in Top.env : lv[w] <= h - 1 /\ lv[w] <= h /\ w < n + 1
        /\ lv[n] <= h /\ n < n + 1
    <3>1. \A w \in TyVar : w < n => lv[w] = levels[w] /\ levels[w] \in Nat
      <4>1. levels \in [TyVar -> Level] /\ Level \subseteq Nat /\ n \in Nat
          BY <1>2, MaxLevelAssumption DEF LetInv, Typed, Level, TyVar
      <4>2. \A w \in TyVar : w < n => lv[w] = levels[w]
          BY <1>2, <1>4, <4>1 DEF TyVar
      <4> QED
          BY <4>1, <4>2
    <3>2. lv[n] = h
        BY <1>2, <1>4 DEF LetInv, Typed
    <3> QED
        BY <1>2, <2>1, <3>1, <3>2 DEF TyVar
  <2>5. s \in Scope
      BY <1>2, <1>5, <2>1 DEF Scope, ScopeKind, Ty
  <2>6. /\ s.env = Top.env \union {n} /\ s.temps = {} /\ s.before = {}
        /\ Reachable(s) = Top.env \union {n}
      BY <1>5 DEF Reachable
  <2> QED
      BY <2>1, <2>2, <2>3, <2>4, <2>5, <2>6 DEF MayEnter, Unreached
<1>9. next_var <= n + 1
    BY <1>2
<1> QED
    BY <1>1, <1>2, <1>3, <1>6, <1>7, <1>8, <1>9, EnterStep

LEMMA EnterExpectedLambdaKeeps ==
    ASSUME LetInv, ~UnloweredLambdas,
           NEW param_ty \in SUBSET InReach, NEW ret_ty \in SUBSET InReach,
           EnterExpectedLambda(param_ty, ret_ty)
    PROVE  LetInv'
<1>1. PICK h \in Nat : h = Len(scopes) /\ h >= 1
    BY InReachFacts
<1>2. PICK s : s = [kind |-> "lambda", env |-> Top.env \union param_ty,
                    temps |-> ret_ty, before |-> {}]
    OBVIOUS
<1>3. /\ h <= MaxLevel /\ scopes' = Append(scopes, s)
      /\ levels' = levels /\ next_var' = next_var /\ quantified' = quantified
    BY <1>1, <1>2 DEF EnterExpectedLambda, Enter
<1>4. MayEnter(levels, scopes, next_var, h, quantified, s)
  <2>1. /\ Top.env \subseteq InReach
        /\ \A w \in Top.env : levels[w] <= h - 1
      BY <1>1 DEF LetInv, Bounded, InReach, Top
  <2>2. \A w \in param_ty : levels[w] <= h
      BY <1>1 DEF EnterExpectedLambda, LoweredTo, current_level
  <2>3. \A w \in TyVar : levels[w] \in Nat
      BY MaxLevelAssumption DEF LetInv, Typed, Level
  <2>4. \A w \in InReach : w \in TyVar /\ w < next_var /\ w \notin quantified
                           /\ w \in Reachable(scopes[h])
      BY <1>1, InReachFacts
  <2>5. s \in Scope
      BY <1>2, <2>1, <2>4 DEF Scope, ScopeKind, Ty
  <2>6. /\ s.env = Top.env \union param_ty /\ s.temps = ret_ty /\ s.before = {}
        /\ Reachable(s) = Top.env \union param_ty \union ret_ty
        /\ ~Generalizing(s)
      BY <1>2 DEF Reachable, Generalizing
  <2>7. \A w \in Top.env \union param_ty : levels[w] <= h
      BY <2>1, <2>2, <2>3, <2>4
  <2>8. Top.env \union param_ty \union ret_ty \subseteq InReach
      BY <2>1
  <2> QED
      BY <2>4, <2>5, <2>6, <2>7, <2>8 DEF MayEnter
<1>5. levels \in [TyVar -> Level] /\ next_var \in 0 .. NumVars /\ next_var <= next_var
    BY NumVarsAssumption DEF LetInv, Typed
<1>6. Bounded(levels, scopes, next_var) /\ Separated(levels, scopes)
    BY DEF LetInv
<1> QED
    BY <1>1, <1>3, <1>4, <1>5, <1>6, EnterStep

LEMMA EnterLetKeeps ==
    ASSUME LetInv, EnterLet \/ EnterLetPattern
    PROVE  LetInv'
<1>1. PICK h \in Nat : h = Len(scopes) /\ h >= 1
    BY InReachFacts
<1>2. PICK kind \in ScopeKind, before \in SUBSET Top.env :
         /\ Enter(kind, Top.env, {}, before)
         /\ levels' = levels /\ next_var' = next_var /\ quantified' = quantified
    BY DEF EnterLet, EnterLetPattern, ScopeKind
<1> DEFINE s == [kind |-> kind, env |-> Top.env, temps |-> {}, before |-> before]
<1>3. h <= MaxLevel /\ scopes' = Append(scopes, s)
    BY <1>1, <1>2 DEF Enter
<1>4. MayEnter(levels, scopes, next_var, h, quantified, s)
  <2>1. /\ Top.env \subseteq InReach
        /\ \A w \in Top.env : levels[w] <= h - 1
      BY <1>1 DEF LetInv, Bounded, InReach, Top
  <2>2. \A w \in TyVar : levels[w] \in Nat
      BY MaxLevelAssumption DEF LetInv, Typed, Level
  <2>3. \A w \in InReach : w \in TyVar /\ w < next_var /\ w \notin quantified
                           /\ w \in Reachable(scopes[h])
      BY <1>1, InReachFacts
  <2>4. s \in Scope
      BY <2>1, <2>3 DEF Scope, Ty
  <2>5. /\ s.env = Top.env /\ s.temps = {} /\ s.before \subseteq Top.env
        /\ Reachable(s) = Top.env
      BY DEF Reachable
  <2> HIDE DEF s
  <2>6. \A w \in Top.env : levels[w] <= h
      BY <2>1, <2>2, <2>3
  <2> QED
      BY <2>1, <2>3, <2>4, <2>5, <2>6 DEF MayEnter
<1> HIDE DEF s
<1>5. levels \in [TyVar -> Level] /\ next_var \in 0 .. NumVars /\ next_var <= next_var
    BY NumVarsAssumption DEF LetInv, Typed
<1>6. Bounded(levels, scopes, next_var) /\ Separated(levels, scopes)
    BY DEF LetInv
<1> QED
    BY <1>1, <1>2, <1>3, <1>4, <1>5, <1>6, EnterStep

\* Back in the scope outside the last one, when the variables vs that are
\* quantified on the way are reached from no other scope.
LEMMA LeaveStep ==
    ASSUME LetInv, NEW h \in Nat, h = Len(scopes), h >= 2,
           NEW E \in SUBSET InReach, NEW T \in SUBSET InReach, NEW vs \in SUBSET InReach,
           \A w \in E : levels[w] <= h - 2,
           (E \union T) \intersect vs = {},
           \A i \in 1 .. h - 1 : vs \intersect Reachable(scopes[i]) = {},
           Leave(E, T),
           levels' = levels, next_var' = next_var, quantified' = quantified \union vs
    PROVE  LetInv'
<1> DEFINE m == h - 1
<1>1. m \in Nat /\ m = h - 1 /\ m >= 1 /\ m < h
    OBVIOUS
<1> HIDE DEF m
<1>2. PICK out : out = SubSeq(scopes, 1, m)
    OBVIOUS
<1>3. /\ out \in Seq(Scope) /\ Len(out) = m
      /\ \A i \in 1 .. m : out[i] = scopes[i]
    BY <1>1, <1>2 DEF LetInv, Typed
<1>4. PICK top : top = [out[m] EXCEPT !.env = @ \union E, !.temps = @ \union T]
    OBVIOUS
<1> DEFINE sc2 == [out EXCEPT ![m] = top]
<1>5. scopes' = sc2
    BY <1>1, <1>2, <1>3, <1>4 DEF Leave
<1>6. /\ E \in Ty /\ T \in Ty /\ E \union T \subseteq Reachable(scopes[h])
      /\ \A w \in E \union T : w < next_var /\ w \notin quantified
      /\ \A w \in vs : w \in TyVar /\ w < next_var
    BY InReachFacts DEF Ty
<1>7. top \in Scope /\ out[m] \in Scope
  <2>1. PICK s \in Scope : s = out[m]
      BY <1>1, <1>3
  <2>2. top = [s EXCEPT !.env = @ \union E, !.temps = @ \union T]
      BY <1>4, <2>1
  <2>3. top \in Scope
      BY <1>6, <2>2 DEF Scope, Ty
  <2> QED
      BY <2>1, <2>3
<1>8. /\ sc2 \in Seq(Scope) /\ Len(sc2) = m
      /\ \A i \in 1 .. m : i < m => sc2[i] = out[i]
      /\ sc2[m] = top
    BY <1>1, <1>3, <1>7
<1> HIDE DEF sc2
<1>9. /\ top.kind = out[m].kind /\ top.before = out[m].before
      /\ top.env = out[m].env \union E
      /\ top.temps = out[m].temps \union T
    BY <1>4, <1>7 DEF Scope
<1>10. \A i \in 1 .. m : i \in 1 .. h
    BY <1>1
<1>11. /\ Bounded(levels, out, next_var) /\ Separated(levels, out)
       /\ Gone(quantified \union vs, out)
  <2>1. Bounded(levels, out, next_var)
      BY <1>3, <1>10 DEF LetInv, Bounded
  <2>2. Separated(levels, out)
      BY <1>3, <1>10 DEF LetInv, Separated
  <2>3. Gone(quantified \union vs, out)
    <3>1. \A i \in 1 .. m : quantified \intersect Reachable(scopes[i]) = {}
        BY <1>10 DEF LetInv, Gone
    <3> QED
        BY <1>1, <1>3, <3>1 DEF Gone
  <2> QED
      BY <2>1, <2>2, <2>3
<1>12. MayJoin(levels, out, next_var, m, quantified \union vs, E, T)
  <2>1. \A i, j \in 1 .. m :
            (i < j /\ Generalizing(out[j])) =>
                \A w \in (E \union T) \intersect Reachable(out[i]) : levels[w] <= j - 2
    <3>1. SUFFICES ASSUME NEW i \in 1 .. m, NEW j \in 1 .. m, i < j, Generalizing(out[j]),
                          NEW w \in (E \union T) \intersect Reachable(out[i])
                   PROVE  levels[w] <= j - 2
        OBVIOUS
    <3>2. w \in Reachable(scopes[i]) \intersect Reachable(scopes[h])
        BY <1>3, <1>6
    <3>3. i \in 1 .. Len(scopes) /\ j \in 1 .. Len(scopes) /\ h \in 1 .. Len(scopes) /\ j <= h
        BY <1>1
    <3>4. Generalizing(scopes[j])
        BY <1>3, <3>1
    <3> QED
        BY <3>1, <3>2, <3>3, <3>4 DEF LetInv, Separated
  <2>2. (E \union T) \intersect (quantified \union vs) = {}
      BY <1>6
  <2>3. \A w \in E : levels[w] <= m - 1
      BY <1>1
  <2> QED
      BY <1>6, <2>1, <2>2, <2>3 DEF MayJoin
<1>13. /\ Bounded(levels, sc2, next_var) /\ Separated(levels, sc2)
       /\ Gone(quantified \union vs, sc2)
  <2>1. Joined(out, sc2, m, E, T)
      BY <1>8, <1>9 DEF Joined
  <2> QED
      BY <1>1, <1>3, <1>11, <1>12, <2>1, GrowKeeps
<1>14. Typed'
  <2>1. sc2[1].kind = "module" /\ Len(sc2) >= 1 /\ Len(sc2) <= MaxLevel + 1
    <3>1. sc2[1].kind = out[1].kind
        BY <1>1, <1>8, <1>9
    <3> QED
        BY <1>1, <1>3, <1>8, <3>1, MaxLevelAssumption DEF LetInv, Typed
  <2>2. \A v \in quantified \union vs : v \in TyVar /\ v < next_var
      BY <1>6 DEF LetInv, Typed
  <2> QED
      BY <1>5, <1>8, <2>1, <2>2 DEF LetInv, Typed
<1> QED
    BY <1>5, <1>13, <1>14 DEF LetInv

\* A scope of another kind is not the first one.
LEMMA NotTheModule ==
    ASSUME LetInv, Top.kind # "module"
    PROVE  Len(scopes) \in Nat /\ Len(scopes) >= 2
    BY InReachFacts DEF LetInv, Typed, Top

LEMMA LeaveGeneralizedKeeps ==
    ASSUME LetInv, NEW ty \in SUBSET InReach, LeaveGeneralized(ty)
    PROVE  LetInv'
<1>1. PICK h \in Nat : h = Len(scopes) /\ h >= 2
    BY NotTheModule DEF LeaveGeneralized
<1>2. PICK vs : vs = LevelGeneralizable(ty, h - 2)
    OBVIOUS
<1>3. /\ Leave(ty \ vs, {})
      /\ levels' = levels /\ next_var' = next_var /\ quantified' = quantified \union vs
  <2>1. current_level - 1 = h - 2
      BY <1>1 DEF current_level
  <2> QED
      BY <1>2, <2>1 DEF LeaveGeneralized, LeaveWithScheme
<1>4. \A w \in TyVar : levels[w] \in Nat
    BY MaxLevelAssumption DEF LetInv, Typed, Level
<1>5. /\ vs \in SUBSET InReach /\ ty \ vs \in SUBSET InReach
      /\ \A w \in vs : levels[w] > h - 2
      /\ \A w \in ty \ vs : levels[w] <= h - 2
    BY <1>1, <1>2, <1>4, InReachFacts DEF LevelGeneralizable
<1>6. \A i \in 1 .. h - 1 : vs \intersect Reachable(scopes[i]) = {}
  <2>1. SUFFICES ASSUME NEW i \in 1 .. h - 1, NEW w \in vs, w \in Reachable(scopes[i])
                 PROVE  FALSE
      OBVIOUS
  <2>2. w \in Reachable(scopes[h]) /\ w \in TyVar /\ levels[w] > h - 2
      BY <1>1, <1>5, InReachFacts
  <2>3. Generalizing(scopes[h])
      BY <1>1 DEF LeaveGeneralized, Generalizing, Top
  <2>4. levels[w] <= h - 2
      BY <1>1, <2>1, <2>2, <2>3 DEF LetInv, Separated
  <2> QED
      BY <1>1, <1>4, <2>2, <2>4
<1>7. ((ty \ vs) \union {}) \intersect vs = {} /\ {} \in SUBSET InReach
    OBVIOUS
<1> QED
    BY <1>1, <1>3, <1>5, <1>6, <1>7, LeaveStep

LEMMA LeaveLetPatternKeeps ==
    ASSUME LetInv, NEW ty \in SUBSET InReach, LeaveLetPattern(ty)
    PROVE  LetInv'
<1>1. PICK h \in Nat : h = Len(scopes) /\ h >= 2
    BY NotTheModule DEF LeaveLetPattern
<1>2. PICK E : E = ty \ (ty \ Top.before)
    OBVIOUS
<1>3. /\ Leave(E, {})
      /\ levels' = levels /\ next_var' = next_var /\ quantified' = quantified \union {}
    BY <1>2 DEF LeaveLetPattern, LeaveWithScheme
<1>4. E \in SUBSET InReach /\ \A w \in E : levels[w] <= h - 2
    BY <1>1, <1>2 DEF LetInv, Bounded, Top
<1>5. (E \union {}) \intersect {} = {} /\ {} \in SUBSET InReach
      /\ \A i \in 1 .. h - 1 : {} \intersect Reachable(scopes[i]) = {}
    OBVIOUS
<1> QED
    BY <1>1, <1>3, <1>4, <1>5, LeaveStep

LEMMA LeaveLambdaKeeps ==
    ASSUME LetInv, NEW ty \in SUBSET InReach, LeaveLambda(ty)
    PROVE  LetInv'
<1>1. PICK h \in Nat : h = Len(scopes) /\ h >= 2
    BY NotTheModule DEF LeaveLambda
<1>2. /\ Leave({}, ty)
      /\ levels' = levels /\ next_var' = next_var /\ quantified' = quantified \union {}
    BY DEF LeaveLambda
<1>3. /\ \A w \in {} : levels[w] <= h - 2
      /\ ({} \union ty) \intersect {} = {} /\ {} \in SUBSET InReach
      /\ \A i \in 1 .. h - 1 : {} \intersect Reachable(scopes[i]) = {}
    OBVIOUS
<1> QED
    BY <1>1, <1>2, <1>3, LeaveStep

-----------------------------------------------------------------------------

LEMMA InitLetInv == Init => LetInv
<1> SUFFICES ASSUME Init PROVE LetInv
    OBVIOUS
<1>1. PICK s : s = [kind |-> "module", env |-> {}, temps |-> {}, before |-> {}]
    OBVIOUS
<1>2. scopes = <<s>> /\ s \in Scope /\ Reachable(s) = {}
      /\ s.env = {} /\ s.temps = {} /\ s.before = {} /\ s.kind = "module"
    BY <1>1 DEF Init, Scope, ScopeKind, Ty, Reachable
<1>3. Len(scopes) = 1 /\ scopes[1] = s /\ scopes \in Seq(Scope)
    BY <1>2
<1>4. Typed
    BY <1>2, <1>3, NumVarsAssumption, MaxLevelAssumption DEF Init, Typed, Level, RootLevel
<1>5. Bounded(levels, scopes, next_var)
    BY <1>2, <1>3 DEF Bounded
<1>6. Separated(levels, scopes)
    BY <1>2, <1>3 DEF Separated
<1>7. Gone(quantified, scopes)
    BY <1>2, <1>3 DEF Gone
<1> QED
    BY <1>4, <1>5, <1>6, <1>7 DEF LetInv

LEMMA StepLetInv ==
    ~UnloweredLambdas /\ LetInv /\ [Next]_vars => LetInv'
<1> SUFFICES ASSUME ~UnloweredLambdas, LetInv, [Next]_vars PROVE LetInv'
    OBVIOUS
<1>1. CASE FreshTy
    BY <1>1, FreshTyKeeps
<1>2. CASE \E v \in InReach : \E ty \in SUBSET (InReach \ {v}) : Unify(v, ty)
    BY <1>2, UnifyKeeps
<1>3. CASE \E tail1, tail2 \in InReach, extras1, extras2 \in SUBSET InReach :
               UnifyOpenRows(tail1, tail2, extras1, extras2)
    BY <1>3, UnifyOpenRowsKeeps
<1>4. CASE \E ty \in SUBSET InReach : BindMono(ty)
    BY <1>4, BindMonoKeeps
<1>5. CASE \E kind \in {"fn", "lambda"} : EnterFn(kind)
    BY <1>5, EnterFnKeeps
<1>6. CASE \E param_ty, ret_ty \in SUBSET InReach : EnterExpectedLambda(param_ty, ret_ty)
    BY <1>6, EnterExpectedLambdaKeeps
<1>7. CASE EnterLet \/ EnterLetPattern
    BY <1>7, EnterLetKeeps
<1>8. CASE \E ty \in SUBSET InReach : LeaveGeneralized(ty)
    BY <1>8, LeaveGeneralizedKeeps
<1>9. CASE \E ty \in SUBSET InReach : LeaveLetPattern(ty)
    BY <1>9, LeaveLetPatternKeeps
<1>10. CASE \E ty \in SUBSET InReach : LeaveLambda(ty)
    BY <1>10, LeaveLambdaKeeps
<1>11. CASE UNCHANGED vars
    BY <1>11 DEF vars, LetInv, Typed, Bounded, Separated, Gone
<1> QED
    BY <1>1, <1>2, <1>3, <1>4, <1>5, <1>6, <1>7, <1>8, <1>9, <1>10, <1>11 DEF Next

LEMMA LetInvHolds ==
    ASSUME ~UnloweredLambdas
    PROVE  Spec => []LetInv
<1>1. LetInv /\ [Next]_vars => LetInv'
    BY StepLetInv
<1> QED
    BY InitLetInv, <1>1, PTL DEF Spec

(* A variable that generalize_at quantifies over is free in no environment in
   scope, for any number of variables and any depth of scopes: comparing a
   variable's level with the ambient level decides what scanning the environment
   would, as long as no lambda's type is bound with its variables at the
   lambda's own level (LetUnloweredLambda shows what happens when one is). *)
THEOREM GeneralizationSound ==
    ASSUME ~UnloweredLambdas
    PROVE  Spec => []QuantifiedNotInEnv
<1>1. LetInv => QuantifiedNotInEnv
    BY DEF LetInv, Gone, QuantifiedNotInEnv, NotInEnv, Reachable
<1> QED
    BY LetInvHolds, <1>1, PTL

-----------------------------------------------------------------------------
(* Recovery: the inductive invariant.                                      *)

Statement == Simple \union TestBlock

\* Where the loops can be.
Control ==
    /\ program \in Seq(Statement) /\ WellFormed
    /\ phase \in {"externs", "statements", "done"}
    /\ at \in 1 .. (Len(program) + 1)
    /\ phase = "done" => at > Len(program)
    /\ inside \in Nat
    /\ inside > 0 =>
         /\ phase = "statements" /\ at <= Len(program)
         /\ program[at].kind = "test"
         /\ inside <= Len(program[at].body) + 1
    /\ snapshot # <<>> =>
         /\ phase = "statements" /\ at <= Len(program)
         /\ inside > 0 => inside <= Len(program[at].body)
         /\ Current.kind # "test"
         /\ ~ExternUnavailable(Current)

\* A place that the loops have passed.
Passed(p) == p[1] < at \/ (p[1] = at /\ 0 < p[2] /\ p[2] < inside)

\* Everything declared so far is bound or unavailable; a test block is entered
\* with all it mentions available and keeps what it was entered with.
NamesKnown ==
    /\ \A i \in 1 .. Len(program) :
         (IF program[i].kind = "extern" THEN phase # "externs" \/ i < at
                                       ELSE phase # "externs" /\ i < at)
              => program[i].binds \subseteq DOMAIN env \union unavailable
    /\ inside > 0 =>
         /\ unavailable \intersect Refs(program[at]) = {}
         /\ DOMAIN env \subseteq DOMAIN test.env
         /\ \A k \in 1 .. (inside - 1) :
              program[at].body[k].binds \subseteq DOMAIN test.env \union test.unavailable

\* The snapshot lacks nothing but what the statement itself binds, and a
\* statement without operators found every name it mentions.
SnapshotHolds ==
    snapshot # <<>> =>
        /\ DOMAIN CurrentEnv \subseteq
             DOMAIN snapshot[1] \union (IF Current.kind = "extern" THEN {} ELSE Current.binds)
        /\ Current.kind # "extern" => Current.binds \subseteq DOMAIN CurrentEnv
        /\ inside > 0 => DOMAIN env \subseteq DOMAIN snapshot[1]
        /\ (Current.kind # "extern" /\ Mentioned(Current) \intersect Operator = {})
              => DOMAIN resolved[Here] = Mentioned(Current)

OnlyFaultsOrOperators ==
    \A p \in diagnostics : At(p).fault \/ Mentioned(At(p)) \intersect Operator # {}

CascadeInv == Control /\ NamesKnown /\ SnapshotHolds /\ OnlyFaultsOrOperators

\* Before all externs are declared, those behind the loop are.
Declared(p) == phase # "externs" \/ p[1] < at

\* e binds what has taken effect so far, each name to its last definition.
Exact(e) ==
    /\ \A n \in DOMAIN e : e[n] \in Survivors(n)
    /\ \A n \in Name : \A p \in Survivors(n) :
           Declared(p) => n \in DOMAIN e /\ Prevails(e[n], p)

\* A statement of the module is being inferred, and its names are bound already.
Inferring == snapshot # <<>> /\ inside = 0

EnvHolds ==
    /\ Exact(IF Inferring THEN snapshot[1] ELSE env)
    /\ Inferring =>
         env = IF Current.kind = "extern" THEN snapshot[1] ELSE BindNames(snapshot[1], Here)

\* A name whose definition is behind the loops and took no effect.
BadDefinition(q, name) ==
    LET d == Definition(q, name)
    IN  /\ d \in Positions
        /\ At(d).kind = "extern" \/ Passed(d)
        /\ ~Sound(d)

\* An unavailable name stands for a definition that took no effect.
UnavailableIsBad ==
    /\ phase = "externs" =>
         \A n \in unavailable : \E i \in 1 .. Len(program) :
             program[i].kind = "extern" /\ program[i].fault /\ n \in program[i].binds
    /\ phase = "statements" => \A n \in unavailable : BadDefinition(<<at, 0>>, n)
    /\ inside > 0 => \A n \in test.unavailable : BadDefinition(Here, n)

SucceededPassed ==
    /\ phase = "externs" => succeeded = {}
    /\ \A p \in succeeded : p \in Positions /\ Passed(p)

\* A fault that was passed in silence belongs to a statement that depends on
\* something that took no effect.
FaultsAccounted ==
    /\ \A i \in 1 .. Len(program) :
         (program[i].kind = "extern" /\ program[i].fault /\ (phase # "externs" \/ i < at))
            => <<i, 0>> \in diagnostics
    /\ phase # "externs" =>
         \A p \in Positions :
             (Passed(p) /\ At(p).fault /\ At(p).kind # "extern") =>
                 \/ p \in diagnostics
                 \/ \E q \in {p, <<p[1], 0>>} : \E n \in Mentioned(At(q)) : BadDefinition(q, n)

FaultInv == Control /\ SucceededPassed /\ UnavailableIsBad /\ FaultsAccounted

-----------------------------------------------------------------------------
(* Statements, positions and what is at them.                              *)

LEMMA StatementFields ==
    ASSUME NEW s \in Statement
    PROVE  /\ s.kind \in {"let", "fn", "op", "extern", "test"}
           /\ s.binds \in SUBSET Name /\ s.refs \in SUBSET Name
           /\ s.body \in Seq(Simple)
           /\ s.kind = "extern" => /\ s.binds # {} /\ s.refs = {}
                                  /\ Cardinality(s.binds) <= 1
           /\ s.kind # "test" => s.body = <<>>
           /\ s.kind = "test" =>
                /\ s.binds = {} /\ ~s.fault
                /\ \A k \in 1 .. Len(s.body) : s.body[k].kind = "let"
<1>1. CASE s \in Simple
  <2>1. /\ s.kind \in {"let", "fn", "op", "extern"}
        /\ s.binds \in AtMostOne /\ s.refs \in SUBSET Name /\ s.body = <<>>
        /\ s.kind # "let" => s.binds # {}
        /\ s.kind = "extern" => s.refs = {}
    BY <1>1 DEF Simple
  <2>2. s.binds \in SUBSET Name /\ Cardinality(s.binds) <= 1
    BY <2>1 DEF AtMostOne
  <2>3. <<>> \in Seq(Simple)
    BY EmptySeq
  <2> QED
    BY <2>1, <2>2, <2>3
<1>2. CASE s \in TestBlock
  <2> DEFINE lets == {t \in Simple : t.kind = "let"}
  <2>1. PICK n \in 1 .. MaxBody : s.body \in [1 .. n -> lets]
    BY <1>2 DEF TestBlock
  <2>2. s.body \in Seq(lets)
    BY <2>1, RecoveryAssumption
  <2>3. s.body \in Seq(Simple) /\ \A k \in 1 .. Len(s.body) : s.body[k].kind = "let"
    BY <2>2
  <2> QED
    BY <1>2, <2>3 DEF TestBlock
<1> QED
    BY <1>1, <1>2 DEF Statement

LEMMA PositionFields ==
    ASSUME program \in Seq(Statement), NEW p \in Positions
    PROVE  /\ p[1] \in 1 .. Len(program)
           /\ p[2] \in 0 .. Len(program[p[1]].body)
           /\ p = <<p[1], p[2]>>
           /\ At(p) \in Statement
           /\ p[2] = 0 => At(p) = program[p[1]]
           /\ p[2] > 0 => program[p[1]].kind = "test" /\ At(p).kind = "let"
<1>1. PICK i \in 1 .. Len(program) :
        \E k \in 0 .. Len(program[i].body) : p = <<i, k>>
    BY DEF Positions
<1>0. PICK k \in 0 .. Len(program[i].body) : p = <<i, k>>
    BY <1>1
<1>2. program[i] \in Statement
    OBVIOUS
<1>3. /\ program[i].body \in Seq(Simple)
      /\ program[i].kind # "test" => program[i].body = <<>>
      /\ program[i].kind = "test" =>
           \A j \in 1 .. Len(program[i].body) : program[i].body[j].kind = "let"
    BY <1>2, StatementFields
<1>4. ASSUME k > 0
      PROVE  /\ program[i].kind = "test" /\ At(p).kind = "let"
             /\ At(p) \in Statement
  <2>1. program[i].kind = "test"
    BY <1>3, <1>4
  <2> QED
    BY <1>0, <1>3, <1>4, <2>1 DEF At, Statement
<1>5. k = 0 => At(p) = program[i]
    BY <1>0 DEF At
<1> QED
    BY <1>0, <1>2, <1>4, <1>5

LEMMA PositionIn ==
    ASSUME program \in Seq(Statement),
           NEW i \in 1 .. Len(program), NEW k \in 0 .. Len(program[i].body)
    PROVE  <<i, k>> \in Positions
BY DEF Positions

LEMMA SameProgram ==
    ASSUME UNCHANGED program
    PROVE  /\ Positions' = Positions
           /\ \A p : At(p)' = At(p)
           /\ \A p, n : Definition(p, n)' = Definition(p, n)
           /\ WellFormed' = WellFormed
<1>1. Positions' = Positions
    BY DEF Positions
<1>2. \A p : At(p)' = At(p)
    BY DEF At
<1>3. \A p, n : Definition(p, n)' = Definition(p, n)
    BY <1>1, <1>2 DEF Definition, Positions, At
<1>4. WellFormed' = WellFormed
    BY <1>1, <1>2, <1>3 DEF WellFormed, Positions, At, Definition
<1> QED
    BY <1>1, <1>2, <1>3, <1>4

\* The statement that the loops look at.
LEMMA CurrentFields ==
    ASSUME Control, at <= Len(program), inside > 0 => inside <= Len(program[at].body)
    PROVE  /\ Here \in Positions /\ Current = At(Here) /\ Current \in Statement
           /\ inside = 0 => Current = program[at]
           /\ inside > 0 => Current = program[at].body[inside] /\ Current.kind = "let"
<1>1. program[at] \in Statement /\ program[at].body \in Seq(Simple)
    BY StatementFields DEF Control
<1>2. inside \in 0 .. Len(program[at].body)
    BY <1>1 DEF Control
<1>3. Here \in Positions
    BY <1>2, PositionIn DEF Control, Here
<1>4. inside > 0 => Current.kind = "let"
    BY <1>3, PositionFields DEF Control, Current, Here
<1> QED
    BY <1>3, <1>4, PositionFields DEF Control, Current, Here, At

-----------------------------------------------------------------------------
(* Where the loops go.                                                     *)

LEMMA ControlInit == RecoveryInit => Control
<1> SUFFICES ASSUME RecoveryInit
             PROVE  Control
    OBVIOUS
<1>1. program \in Seq(Statement)
  <2>1. ASSUME NEW n \in 1 .. MaxStatements, program \in [1 .. n -> Simple]
        PROVE  program \in Seq(Statement)
    <3>1. program \in [1 .. n -> Statement] /\ n \in Nat
        BY <2>1, RecoveryAssumption DEF Statement
    <3> QED
        BY <3>1
  <2>2. ASSUME NEW n \in 1 .. MaxWithTest, NEW i \in 1 .. n, NEW block \in TestBlock,
               NEW others \in [(1 .. n) \ {i} -> Simple],
               program = [j \in 1 .. n |-> IF j = i THEN block ELSE others[j]]
        PROVE  program \in Seq(Statement)
    <3>1. program \in [1 .. n -> Statement] /\ n \in Nat
        BY <2>2, RecoveryAssumption DEF Statement
    <3> QED
        BY <3>1
  <2> QED
    BY <2>1, <2>2 DEF RecoveryInit
<1>2. Len(program) \in Nat
    BY <1>1
<1> QED
    BY <1>1, <1>2 DEF RecoveryInit, Control

\* The next statement that the loops come to.
LEMMA ControlToNext ==
    ASSUME Control, phase = "statements", at <= Len(program),
           inside > 0 => inside <= Len(program[at].body),
           ToNextStatement, UNCHANGED <<program, phase>>, snapshot' = <<>>
    PROVE  Control'
<1>1. WellFormed'
    BY SameProgram DEF Control
<1>2. CASE inside > 0
  <2>1. program[at].body \in Seq(Simple)
    BY StatementFields DEF Control
  <2> QED
    BY <1>1, <1>2, <2>1 DEF Control, ToNextStatement
<1>3. CASE inside = 0
    BY <1>1, <1>3 DEF Control, ToNextStatement
<1> QED
    BY <1>2, <1>3 DEF Control

LEMMA ControlNext ==
    ASSUME Control, [RecoveryNext]_recoveryVars
    PROVE  Control'
<1>1. UNCHANGED program
    BY DEF RecoveryNext, recoveryVars, AddExtern, EndExterns, SkipUnavailableExtern, Skip,
           EnterTestBlock, LeaveTestBlock, Infer, Succeed, Fail, Finish
<1>2. WellFormed' /\ program' \in Seq(Statement)
    BY <1>1, SameProgram DEF Control
<1>3. CASE UNCHANGED recoveryVars
    BY <1>2, <1>3 DEF recoveryVars, Control, Current, Here, At, ExternUnavailable
<1>4. CASE AddExtern \/ EndExterns \/ Finish
  <2>1. /\ UNCHANGED <<inside, snapshot>> /\ inside = 0 /\ snapshot = <<>>
        /\ phase' \in {"externs", "statements", "done"}
        /\ at' \in 1 .. (Len(program) + 1)
        /\ phase' = "done" => at' > Len(program)
    BY <1>4 DEF AddExtern, EndExterns, Finish, Control
  <2> QED
    BY <1>1, <1>2, <2>1 DEF Control
<1>5. CASE SkipUnavailableExtern
    BY <1>2, <1>5 DEF SkipUnavailableExtern, Control
<1>6. CASE Skip
    BY <1>6, ControlToNext DEF Skip, Starts
<1>7. CASE EnterTestBlock
  <2>1. inside = 0
    BY <1>7, CurrentFields DEF EnterTestBlock, Starts, Control
  <2>2. program[at].kind = "test" /\ Len(program[at].body) \in Nat
    BY <1>7, <2>1, CurrentFields, StatementFields DEF EnterTestBlock, Starts, Control
  <2> QED
    BY <1>2, <1>7, <2>2 DEF EnterTestBlock, Starts, Control
<1>8. CASE LeaveTestBlock
    BY <1>2, <1>8 DEF LeaveTestBlock, Control
<1>9. CASE Infer
  <2>1. UNCHANGED unavailable /\ UNCHANGED Current
    BY <1>9 DEF Infer, SetCurrent, CurrentUnavailable, Current, Here, At
  <2>2. ExternUnavailable(Current)' = ExternUnavailable(Current)
    BY <2>1 DEF ExternUnavailable
  <2> QED
    BY <1>2, <1>9, <2>1, <2>2 DEF Infer, Starts, Control
<1>10. CASE Succeed
    BY <1>10, ControlToNext DEF Succeed, Control
<1>11. CASE Fail
    BY <1>11, ControlToNext DEF Fail, Control
<1> QED
    BY <1>3, <1>4, <1>5, <1>6, <1>7, <1>8, <1>9, <1>10, <1>11 DEF RecoveryNext

-----------------------------------------------------------------------------
(* No cascade: a statement that is not skipped finds what it mentions.     *)

LEMMA DefinitionExists ==
    ASSUME NEW p, NEW n, Definition(p, n) # <<0, 0>>
    PROVE  \E q \in Positions :
             /\ n \in At(q).binds
             /\ \/ q[1] = p[1] /\ 0 < q[2] /\ q[2] < p[2]
                \/ q[1] < p[1] /\ q[2] = 0 /\ At(q).kind # "extern"
                \/ At(q).kind = "extern"
BY DEF Definition

\* What the module declares before the statement at hand, and every extern.
LEMMA DeclaredKnown ==
    ASSUME Control, NamesKnown, phase = "statements",
           NEW q \in Positions, NEW n \in At(q).binds,
           At(q).kind = "extern" \/ (q[1] < at /\ q[2] = 0)
    PROVE  n \in DOMAIN env \union unavailable
<1>1. /\ q[1] \in 1 .. Len(program)
      /\ q[2] \in 0 .. Len(program[q[1]].body)
      /\ q[2] = 0 => At(q) = program[q[1]]
      /\ q[2] > 0 => At(q).kind = "let"
    BY PositionFields DEF Control
<1>2. q[2] = 0 /\ At(q) = program[q[1]]
  <2>1. program[q[1]].body \in Seq(Simple)
    BY <1>1, StatementFields DEF Control
  <2> QED
    BY <1>1, <2>1
<1>3. program[q[1]].binds \subseteq DOMAIN env \union unavailable
    BY <1>1, <1>2 DEF NamesKnown
<1> QED
    BY <1>2, <1>3

LEMMA NamesFound ==
    ASSUME Control, NamesKnown, Starts, ~Skips(Current), Current.kind # "test",
           NEW n \in Mentioned(Current), n \notin Operator
    PROVE  n \in DOMAIN CurrentEnv
<1>1. /\ Here \in Positions /\ Current = At(Here) /\ Current \in Statement
      /\ inside = 0 => Current = program[at]
      /\ inside > 0 => Current = program[at].body[inside] /\ Current.kind = "let"
    BY CurrentFields DEF Starts
<1>2. Definition(Here, n) # <<0, 0>>
    BY <1>1 DEF Control, WellFormed
<1>3. n \notin CurrentUnavailable
    BY DEF Skips, Refs
<1>4. PICK q \in Positions :
        /\ n \in At(q).binds
        /\ \/ q[1] = Here[1] /\ 0 < q[2] /\ q[2] < Here[2]
           \/ q[1] < Here[1] /\ q[2] = 0 /\ At(q).kind # "extern"
           \/ At(q).kind = "extern"
    BY <1>2, DefinitionExists
<1>5. Here[1] = at /\ Here[2] = inside
    BY DEF Here
<1>6. inside \in Nat /\ q[2] \in Nat /\ (q[2] > 0 => At(q) = program[q[1]].body[q[2]])
  <2>1. program[q[1]].body \in Seq(Simple)
    BY PositionFields, StatementFields DEF Control
  <2> QED
    BY <2>1, PositionFields DEF Control, At
<1>7. CASE inside = 0
  <2>1. At(q).kind = "extern" \/ (q[1] < at /\ q[2] = 0)
    BY <1>4, <1>5, <1>6, <1>7
  <2>2. n \in DOMAIN env \union unavailable
    BY <1>4, <2>1, DeclaredKnown DEF Starts
  <2> QED
    BY <1>3, <1>7, <2>2 DEF CurrentEnv, CurrentUnavailable
<1>8. CASE inside > 0
  <2>1. CASE \E j \in 1 .. (inside - 1) : n \in program[at].body[j].binds
    BY <1>3, <1>8, <2>1 DEF NamesKnown, CurrentEnv, CurrentUnavailable
  <2>2. CASE ~ \E j \in 1 .. (inside - 1) : n \in program[at].body[j].binds
    <3>1. n \in Mentioned(program[at])
      <4>1. program[at].kind = "test" /\ inside \in DOMAIN program[at].body
        <5>1. program[at].body \in Seq(Simple)
          BY StatementFields DEF Control, Starts
        <5> QED
          BY <1>8, <5>1 DEF Control, Starts
      <4>2. n \in program[at].body[inside].refs
        BY <1>1, <1>8 DEF Mentioned
      <4> QED
        BY <2>2, <4>1, <4>2 DEF Mentioned
    <3>2. n \notin unavailable
      BY <1>8, <3>1 DEF NamesKnown, Refs
    <3>3. At(q).kind = "extern" \/ (q[1] < at /\ q[2] = 0)
      BY <1>4, <1>5, <1>6, <2>2
    <3>4. n \in DOMAIN env
      BY <1>4, <3>2, <3>3, DeclaredKnown DEF Starts
    <3> QED
      BY <1>8, <3>4 DEF NamesKnown, CurrentEnv
  <2> QED
    BY <2>1, <2>2
<1> QED
    BY <1>6, <1>7, <1>8

LEMMA CascadeInit == RecoveryInit => CascadeInv
<1>1. RecoveryInit => NamesKnown /\ SnapshotHolds /\ OnlyFaultsOrOperators
    BY DEF RecoveryInit, NamesKnown, SnapshotHolds, OnlyFaultsOrOperators
<1> QED
    BY <1>1, ControlInit DEF CascadeInv

LEMMA NamesKnownExterns ==
    ASSUME Control, NamesKnown, AddExtern \/ EndExterns \/ SkipUnavailableExtern \/ Finish
    PROVE  NamesKnown'
<1>1. inside = 0 /\ inside' = 0 /\ Len(program') = Len(program)
    BY DEF Control, AddExtern, EndExterns, SkipUnavailableExtern, Finish
<1>2. CASE AddExtern
  <2>1. program[at].kind = "extern" =>
            program[at].binds \subseteq DOMAIN env' \union unavailable'
    BY <1>2 DEF AddExtern, BindNames, At
  <2>2. DOMAIN env \union unavailable \subseteq DOMAIN env' \union unavailable'
    BY <1>2 DEF AddExtern, BindNames, At
  <2> QED
    BY <1>1, <1>2, <2>1, <2>2 DEF AddExtern, NamesKnown, Control
<1>3. CASE EndExterns
    BY <1>1, <1>3 DEF EndExterns, NamesKnown, Control
<1>4. CASE SkipUnavailableExtern
    BY <1>1, <1>4 DEF SkipUnavailableExtern, ExternUnavailable, NamesKnown, Control
<1>5. CASE Finish
    BY <1>1, <1>5 DEF Finish, NamesKnown, Control
<1> QED
    BY <1>2, <1>3, <1>4, <1>5

\* A statement is passed and nothing that was known is lost.
LEMMA NamesKnownToNext ==
    ASSUME Control, NamesKnown, phase = "statements", at <= Len(program),
           inside > 0 => inside <= Len(program[at].body),
           ToNextStatement, UNCHANGED <<program, phase>>,
           NEW e, NEW names, SetCurrent(e, names),
           DOMAIN CurrentEnv \union CurrentUnavailable \subseteq DOMAIN e \union names,
           Current.kind # "extern" => Current.binds \subseteq DOMAIN e \union names,
           inside > 0 => DOMAIN env \subseteq DOMAIN e
    PROVE  NamesKnown'
<1>1. /\ Current \in Statement
      /\ inside = 0 => Current = program[at]
      /\ inside > 0 => Current = program[at].body[inside] /\ Current.kind = "let"
    BY CurrentFields
<1>2. CASE inside > 0
  <2>1. /\ inside' = inside + 1 /\ UNCHANGED <<at, env, unavailable>>
        /\ test' = [env |-> e, unavailable |-> names]
    BY <1>2 DEF ToNextStatement, SetCurrent
  <2>2. \A k \in 1 .. inside : program[at].body[k].binds \subseteq DOMAIN e \union names
    BY <1>1, <1>2 DEF NamesKnown, CurrentEnv, CurrentUnavailable, Control
  <2> QED
    BY <1>2, <2>1, <2>2 DEF NamesKnown, Refs, Mentioned, Control
<1>3. CASE inside = 0
  <2>1. at' = at + 1 /\ inside' = 0 /\ env' = e /\ unavailable' = names
    BY <1>3 DEF ToNextStatement, SetCurrent
  <2> QED
    BY <1>1, <1>3, <2>1 DEF NamesKnown, CurrentEnv, CurrentUnavailable, Control
<1> QED
    BY <1>2, <1>3 DEF Control

LEMMA NamesKnownNext ==
    ASSUME Control, NamesKnown, SnapshotHolds, [RecoveryNext]_recoveryVars
    PROVE  NamesKnown'
<1>1. CASE UNCHANGED recoveryVars
    BY <1>1 DEF recoveryVars, NamesKnown, Refs, Mentioned
<1>2. CASE AddExtern \/ EndExterns \/ SkipUnavailableExtern \/ Finish
    BY <1>2, NamesKnownExterns
<1>3. CASE Skip
  <2>1. inside > 0 => DOMAIN env \subseteq DOMAIN CurrentEnv
    BY DEF NamesKnown, CurrentEnv
  <2> QED
    BY <1>3, <2>1, NamesKnownToNext DEF Skip, Starts
<1>4. CASE EnterTestBlock
  <2>1. inside = 0 /\ Current = program[at]
    BY <1>4, CurrentFields DEF EnterTestBlock, Starts, Control
  <2>2. unavailable \intersect Refs(program[at]) = {}
    BY <1>4, <2>1 DEF EnterTestBlock, Skips, CurrentUnavailable
  <2>3. Refs(program[at])' = Refs(program[at])
    BY <1>4 DEF EnterTestBlock, Refs, Mentioned
  <2> QED
    BY <1>4, <2>2, <2>3 DEF EnterTestBlock, NamesKnown
<1>5. CASE LeaveTestBlock
  <2>1. program[at].binds = {} /\ at <= Len(program) /\ phase = "statements"
    BY <1>5, StatementFields DEF LeaveTestBlock, Control
  <2> QED
    BY <1>5, <2>1 DEF LeaveTestBlock, NamesKnown, Control
<1>6. CASE Infer
  <2>1. Refs(program[at])' = Refs(program[at])
    BY <1>6 DEF Infer, Refs, Mentioned
  <2>2. CASE inside > 0
    <3>1. /\ UNCHANGED <<program, phase, at, inside, env, unavailable>>
          /\ test'.unavailable = test.unavailable
          /\ DOMAIN test.env \subseteq DOMAIN test'.env
      BY <1>6, <2>2 DEF Infer, SetCurrent, CurrentEnv, CurrentUnavailable, BindNames
    <3> QED
      BY <2>1, <2>2, <3>1 DEF NamesKnown
  <2>3. CASE inside = 0
    <3>1. /\ UNCHANGED <<program, phase, at, inside, unavailable>>
          /\ DOMAIN env \subseteq DOMAIN env'
      BY <1>6, <2>3 DEF Infer, SetCurrent, CurrentEnv, CurrentUnavailable, BindNames
    <3> QED
      BY <2>3, <3>1 DEF NamesKnown
  <2> QED
    BY <2>2, <2>3 DEF Control
<1>7. CASE Succeed
  <2>1. CurrentUnavailable \subseteq DOMAIN CurrentEnv \union (CurrentUnavailable \ Current.binds)
    <3>1. CASE Current.kind = "extern"
      <4>1. inside = 0
        BY <1>7, <3>1, CurrentFields DEF Succeed, Control
      <4> QED
        BY <1>7, <3>1, <4>1 DEF Succeed, Control, ExternUnavailable, CurrentUnavailable
    <3>2. CASE Current.kind # "extern"
      BY <1>7, <3>2 DEF Succeed, SnapshotHolds
    <3> QED
      BY <3>1, <3>2
  <2>2. inside > 0 => DOMAIN env \subseteq DOMAIN CurrentEnv
    BY DEF NamesKnown, CurrentEnv
  <2>3. Current.kind # "extern" => Current.binds \subseteq DOMAIN CurrentEnv
    BY <1>7 DEF Succeed, SnapshotHolds
  <2> QED
    BY <1>7, <2>1, <2>2, <2>3, NamesKnownToNext DEF Succeed, Control
<1>8. CASE Fail
  <2>1. /\ DOMAIN CurrentEnv \subseteq DOMAIN snapshot[1] \union Current.binds
        /\ inside > 0 => DOMAIN env \subseteq DOMAIN snapshot[1]
    BY <1>8 DEF Fail, Fails, SnapshotHolds
  <2> QED
    BY <1>8, <2>1, NamesKnownToNext DEF Fail, Control
<1> QED
    BY <1>1, <1>2, <1>3, <1>4, <1>5, <1>6, <1>7, <1>8 DEF RecoveryNext

LEMMA SnapshotNext ==
    ASSUME Control, NamesKnown, SnapshotHolds, [RecoveryNext]_recoveryVars
    PROVE  SnapshotHolds'
<1>1. CASE UNCHANGED recoveryVars
  <2>1. UNCHANGED <<snapshot, inside, env, resolved, Here, Current, CurrentEnv>>
    BY <1>1 DEF recoveryVars, Current, CurrentEnv, Here, At
  <2>2. Mentioned(Current)' = Mentioned(Current)
    BY <2>1 DEF Mentioned
  <2> QED
    BY <2>1, <2>2 DEF SnapshotHolds
<1>2. CASE Infer
  <2>1. UNCHANGED <<program, Current, Here, Mentioned(Current)>> /\ inside' = inside
    BY <1>2 DEF Infer, Current, Here, At, Mentioned
  <2>2. /\ snapshot'[1] = CurrentEnv
        /\ DOMAIN resolved'[Here] = Mentioned(Current) \intersect DOMAIN CurrentEnv
    BY <1>2 DEF Infer
  <2>3. DOMAIN CurrentEnv' =
           DOMAIN CurrentEnv \union (IF Current.kind = "extern" THEN {} ELSE Current.binds)
    BY <1>2 DEF Infer, SetCurrent, CurrentEnv, BindNames, Current
  <2>4. inside > 0 => DOMAIN env' \subseteq DOMAIN CurrentEnv
    BY <1>2 DEF Infer, SetCurrent, NamesKnown, CurrentEnv
  <2>5. Mentioned(Current) \intersect Operator = {} =>
            Mentioned(Current) \subseteq DOMAIN CurrentEnv
    BY <1>2, NamesFound DEF Infer
  <2>6. (Current.kind # "extern" /\ Mentioned(Current) \intersect Operator = {}) =>
            DOMAIN resolved'[Here] = Mentioned(Current)
    BY <2>2, <2>5
  <2> QED
    BY <2>1, <2>2, <2>3, <2>4, <2>6 DEF SnapshotHolds
<1>3. CASE AddExtern \/ EndExterns \/ SkipUnavailableExtern \/ Finish
  <2>1. snapshot = <<>> /\ UNCHANGED snapshot
    BY <1>3 DEF Control, AddExtern, EndExterns, SkipUnavailableExtern, Finish
  <2> QED
    BY <2>1 DEF SnapshotHolds
<1>4. CASE Skip \/ EnterTestBlock \/ LeaveTestBlock
    BY <1>4 DEF Skip, EnterTestBlock, LeaveTestBlock, Starts, SnapshotHolds
<1>5. CASE Succeed \/ Fail
    BY <1>5 DEF Succeed, Fail, SnapshotHolds
<1> QED
    BY <1>1, <1>2, <1>3, <1>4, <1>5 DEF RecoveryNext

LEMMA CascadeNext ==
    CascadeInv /\ [RecoveryNext]_recoveryVars => CascadeInv'
<1> SUFFICES ASSUME CascadeInv, [RecoveryNext]_recoveryVars
             PROVE  CascadeInv'
    OBVIOUS
<1> USE DEF CascadeInv
<1>1. UNCHANGED program
    BY DEF RecoveryNext, recoveryVars, AddExtern, EndExterns, SkipUnavailableExtern, Skip,
           EnterTestBlock, LeaveTestBlock, Infer, Succeed, Fail, Finish
<1>2. \A p : At(p)' = At(p) /\ Mentioned(At(p))' = Mentioned(At(p))
    BY <1>1 DEF At, Mentioned
<1>3. ASSUME NEW p \in diagnostics', p \notin diagnostics
      PROVE  At(p).fault \/ Mentioned(At(p)) \intersect Operator # {}
  <2>1. AddExtern \/ Fail
    BY <1>3 DEF RecoveryNext, recoveryVars, EndExterns, SkipUnavailableExtern, Skip,
           EnterTestBlock, LeaveTestBlock, Infer, Succeed, Finish
  <2>2. CASE AddExtern
    BY <1>3, <2>2 DEF AddExtern, At
  <2>3. CASE Fail
    <3>1. p = Here /\ At(p) = Current
      BY <1>3, <2>3 DEF Fail, Current
    <3> QED
      BY <2>3, <3>1 DEF Fail, Fails, SnapshotHolds
  <2> QED
    BY <2>1, <2>2, <2>3
<1>4. OnlyFaultsOrOperators'
    BY <1>2, <1>3 DEF OnlyFaultsOrOperators
<1> QED
    BY <1>4, ControlNext, NamesKnownNext, SnapshotNext

LEMMA CascadeInvHolds == RecoverySpec => []CascadeInv
BY CascadeInit, CascadeNext, PTL DEF RecoverySpec

(* A diagnostic is of a statement with a fault of its own, or of one that mentions an
   operator: the names that infer.rs looks up in `unavailable` leave out infix
   operators, and that is the only way in which one error can be reported twice. *)
THEOREM CascadeOnlyThroughOperators == RecoverySpec => []OnlyFaultsOrOperators
<1>1. CascadeInv => OnlyFaultsOrOperators
    BY DEF CascadeInv
<1> QED
    BY <1>1, CascadeInvHolds, PTL

(* In a program whose names are never used as operators, one root cause gives one
   diagnostic: whatever fails, the statements that depend on it stay silent. *)
THEOREM NoCascadeHolds ==
    ASSUME Operator = {}
    PROVE  RecoverySpec => []NoCascade
<1>1. OnlyFaultsOrOperators => NoCascade
    BY DEF OnlyFaultsOrOperators, NoCascade
<1> QED
    BY <1>1, CascadeOnlyThroughOperators, PTL

-----------------------------------------------------------------------------
(* What takes effect.                                                      *)

\* What Sound says after a step.
SoundNext(p) == IF At(p).kind = "extern" THEN ~At(p).fault ELSE p \in succeeded'

LEMMA SoundStays ==
    ASSUME [RecoveryNext]_recoveryVars
    PROVE  /\ UNCHANGED program
           /\ succeeded \subseteq succeeded'
           /\ \A p : Sound(p)' <=> SoundNext(p)
           /\ \A p : Sound(p) => SoundNext(p)
<1>1. UNCHANGED program /\ succeeded \subseteq succeeded'
    BY DEF RecoveryNext, recoveryVars, AddExtern, EndExterns, SkipUnavailableExtern, Skip,
           EnterTestBlock, LeaveTestBlock, Infer, Succeed, Fail, Finish
<1> QED
    BY <1>1 DEF Sound, SoundNext, At

-----------------------------------------------------------------------------
(* What a name stands for from one statement to the next.                  *)

LEMMA ExternIsOne ==
    ASSUME Control, NEW p \in Positions, NEW q \in Positions,
           At(p).kind = "extern", At(q).kind = "extern",
           NEW n \in At(p).binds, n \in At(q).binds
    PROVE  p = q
<1>1. /\ p[1] \in 1 .. Len(program) /\ q[1] \in 1 .. Len(program)
      /\ p[2] = 0 /\ q[2] = 0 /\ p = <<p[1], p[2]>> /\ q = <<q[1], q[2]>>
      /\ At(p) = program[p[1]] /\ At(q) = program[q[1]]
      /\ At(p) \in Statement /\ At(q) \in Statement
  <2>1. program[p[1]].body \in Seq(Simple) /\ program[q[1]].body \in Seq(Simple)
    BY PositionFields, StatementFields DEF Control
  <2> QED
    BY <2>1, PositionFields DEF Control
<1>2. ASSUME NEW s \in Statement, s.kind = "extern", n \in s.binds
      PROVE  s.binds = {n}
  <2>1. s.binds \in SUBSET Name /\ Cardinality(s.binds) <= 1
    BY <1>2, StatementFields
  <2>2. IsFiniteSet(s.binds) /\ IsFiniteSet(s.binds \ {n})
    BY <2>1, FS_Subset, RecoveryAssumption
  <2>3. Cardinality(s.binds \ {n}) = Cardinality(s.binds) - 1
    BY <1>2, <2>2, FS_RemoveElement
  <2>4. Cardinality(s.binds \ {n}) = 0
    BY <2>1, <2>2, <2>3, FS_CardinalityType
  <2>5. s.binds \ {n} = {}
    BY <2>2, <2>4, FS_EmptySet
  <2> QED
    BY <1>2, <2>5
<1>3. program[p[1]].binds = program[q[1]].binds
    BY <1>1, <1>2
<1> QED
    BY <1>1, <1>3 DEF Control, WellFormed

Binding(n)       == {p \in Positions : n \in At(p).binds}
InBlock(i, k, n) == {p \in Binding(n) : p[1] = i /\ 0 < p[2] /\ p[2] < k}
Earlier(i, n)    == {p \in Binding(n) : p[1] < i /\ p[2] = 0 /\ At(p).kind # "extern"}
Externs(n)       == {p \in Binding(n) : At(p).kind = "extern"}
Latest(S) == CHOOSE p \in S : \A q \in S : q[1] < p[1] \/ (q[1] = p[1] /\ q[2] <= p[2])

LEMMA DefinitionUnfolded ==
    ASSUME NEW i, NEW k, NEW n
    PROVE  Definition(<<i, k>>, n) =
             IF InBlock(i, k, n) # {} THEN Latest(InBlock(i, k, n))
             ELSE IF Earlier(i, n) # {} THEN Latest(Earlier(i, n))
             ELSE IF Externs(n) # {} THEN Latest(Externs(n))
             ELSE <<0, 0>>
<1>1. <<i, k>>[1] = i /\ <<i, k>>[2] = k
    OBVIOUS
<1> QED
    BY <1>1 DEF Definition, Latest, InBlock, Earlier, Externs, Binding

\* A position after all others of a set is the one that is meant.
LEMMA LatestIs ==
    ASSUME Control, NEW S \in SUBSET Positions, NEW p \in S,
           \A q \in S : q = p \/ q[1] < p[1] \/ (q[1] = p[1] /\ q[2] < p[2])
    PROVE  Latest(S) = p
<1> DEFINE Last(x) == \A q \in S : q[1] < x[1] \/ (q[1] = x[1] /\ q[2] <= x[2])
<1>1. \A q \in S : q[1] \in Int /\ q[2] \in Int
  <2>1. \A q \in S : program[q[1]].body \in Seq(Simple)
    BY PositionFields, StatementFields DEF Control
  <2> QED
    BY <2>1, PositionFields DEF Control
<1>2. Last(p)
    BY <1>1
<1>3. \A x \in S : Last(x) => x = p
    BY <1>1
<1>4. (CHOOSE x \in S : Last(x)) = p
  <2> HIDE DEF Last
  <2> QED
    BY <1>2, <1>3
<1> QED
    BY <1>4 DEF Latest

LEMMA NothingInBlock ==
    ASSUME Control, NEW i, NEW n
    PROVE  InBlock(i, 0, n) = {}
<1>1. \A p \in Positions : p[2] \in Nat
  <2>1. \A p \in Positions : program[p[1]].body \in Seq(Simple)
    BY PositionFields, StatementFields DEF Control
  <2> QED
    BY <2>1, PositionFields DEF Control
<1> QED
    BY <1>1 DEF InBlock, Binding

\* A definition is the module's from the next statement on.
LEMMA DefinitionNew ==
    ASSUME Control, NEW i \in 1 .. Len(program), NEW n \in program[i].binds,
           program[i].kind # "extern"
    PROVE  Definition(<<i + 1, 0>>, n) = <<i, 0>>
<1>1. \A p \in Earlier(i + 1, n) :
        /\ p \in Positions /\ p[2] = 0
        /\ p[1] \in 1 .. Len(program) /\ p[1] < i + 1 /\ p = <<p[1], p[2]>>
    BY PositionFields DEF Control, Earlier, Binding
<1>2. <<i, 0>> \in Earlier(i + 1, n)
  <2>1. program[i].body \in Seq(Simple)
    BY StatementFields DEF Control
  <2>2. <<i, 0>> \in Positions
    BY <2>1, PositionIn DEF Control
  <2> QED
    BY <2>2 DEF At, Earlier, Binding
<1>3. Earlier(i + 1, n) \in SUBSET Positions
    BY <1>1
<1>4. Latest(Earlier(i + 1, n)) = <<i, 0>>
    BY <1>1, <1>2, <1>3, LatestIs
<1> QED
    BY <1>2, <1>4, NothingInBlock, DefinitionUnfolded

LEMMA DefinitionSame ==
    ASSUME Control, NEW i \in 1 .. Len(program), NEW n,
           program[i].kind = "extern" \/ n \notin program[i].binds
    PROVE  Definition(<<i + 1, 0>>, n) = Definition(<<i, 0>>, n)
<1>1. \A p \in Positions : /\ p[1] \in 1 .. Len(program)
                           /\ p[1] = i /\ p[2] = 0 => At(p) = program[i]
    BY PositionFields DEF Control
<1>2. Earlier(i + 1, n) = Earlier(i, n)
    BY <1>1 DEF Control, Earlier, Binding
<1> QED
    BY <1>2, NothingInBlock, DefinitionUnfolded

\* The same within a test block.
LEMMA DefinitionNewInBlock ==
    ASSUME Control, NEW i \in 1 .. Len(program), NEW k \in 1 .. Len(program[i].body),
           NEW n \in program[i].body[k].binds
    PROVE  Definition(<<i, k + 1>>, n) = <<i, k>>
<1>0. program[i].body \in Seq(Simple)
    BY StatementFields DEF Control
<1>1. \A p \in InBlock(i, k + 1, n) :
        /\ p \in Positions /\ p[1] = i
        /\ p[2] \in 1 .. k /\ p = <<p[1], p[2]>>
    BY <1>0, PositionFields DEF Control, InBlock, Binding
<1>2. <<i, k>> \in InBlock(i, k + 1, n)
  <2>1. <<i, k>> \in Positions
    <3>1. k \in 0 .. Len(program[i].body)
      BY <1>0
    <3> QED
      BY <3>1, PositionIn DEF Control
  <2>2. At(<<i, k>>) = program[i].body[k]
    BY <1>0 DEF At
  <2> QED
    BY <1>0, <2>1, <2>2 DEF InBlock, Binding
<1>3. InBlock(i, k + 1, n) \in SUBSET Positions
    BY <1>1
<1>4. Latest(InBlock(i, k + 1, n)) = <<i, k>>
    BY <1>0, <1>1, <1>2, <1>3, LatestIs
<1> QED
    BY <1>2, <1>4, DefinitionUnfolded

LEMMA DefinitionSameInBlock ==
    ASSUME Control, NEW i \in 1 .. Len(program), NEW k \in 1 .. Len(program[i].body),
           NEW n, n \notin program[i].body[k].binds
    PROVE  Definition(<<i, k + 1>>, n) = Definition(<<i, k>>, n)
<1>1. program[i].body \in Seq(Simple)
    BY StatementFields DEF Control
<1>2. \A p \in Positions : p[1] = i => p[2] \in Int
    BY <1>1, PositionFields DEF Control
<1>3. \A p \in Positions : p[1] = i /\ p[2] = k => At(p) = program[i].body[k]
    BY <1>1 DEF At
<1>4. \A p \in Binding(n) : p[1] = i => p[2] # k /\ p[2] \in Int
    BY <1>2, <1>3 DEF Binding
<1>5. InBlock(i, k + 1, n) = InBlock(i, k, n)
    BY <1>1, <1>4 DEF InBlock
<1> QED
    BY <1>5, DefinitionUnfolded

\* Before the first statement only externs are declared.
LEMMA DefinitionFirst ==
    ASSUME Control, NEW i \in 1 .. Len(program), program[i].kind = "extern",
           NEW n \in program[i].binds
    PROVE  <<i, 0>> \in Positions /\ Definition(<<1, 0>>, n) = <<i, 0>>
<1>1. program[i].body \in Seq(Simple)
    BY StatementFields DEF Control
<1>2. <<i, 0>> \in Positions /\ At(<<i, 0>>) = program[i]
    BY <1>1, PositionIn DEF Control, At
<1>3. Externs(n) = {<<i, 0>>}
    BY <1>2, ExternIsOne DEF Externs, Binding
<1>4. Earlier(1, n) = {}
    BY PositionFields DEF Control, Earlier, Binding
<1>5. Latest(Externs(n)) = <<i, 0>>
    BY <1>3 DEF Latest
<1> QED
    BY <1>2, <1>3, <1>4, <1>5, NothingInBlock, DefinitionUnfolded

-----------------------------------------------------------------------------
(* What a step passes.                                                     *)

\* Passed and BadDefinition after a step.
PassedNext(p) == p[1] < at' \/ (p[1] = at' /\ 0 < p[2] /\ p[2] < inside')

BadNext(q, name) ==
    LET d == Definition(q, name)
    IN  /\ d \in Positions
        /\ At(d).kind = "extern" \/ PassedNext(d)
        /\ ~SoundNext(d)

LEMMA AfterStep ==
    ASSUME [RecoveryNext]_recoveryVars
    PROVE  /\ \A q, n : BadDefinition(q, n)' <=> BadNext(q, n)
           /\ \A p : Passed(p)' <=> PassedNext(p)
           /\ \A p : At(p)' = At(p) /\ Mentioned(At(p))' = Mentioned(At(p))
           /\ Positions' = Positions /\ UNCHANGED program
<1>1. UNCHANGED program
    BY SoundStays
<1>2. \A p : Passed(p)' <=> PassedNext(p)
    BY DEF Passed, PassedNext
<1>3. Positions' = Positions /\ \A p : At(p)' = At(p)
    BY <1>1, SameProgram
<1>4. \A p : Mentioned(At(p))' = Mentioned(At(p))
    BY <1>1 DEF Mentioned, At
<1>5. ASSUME NEW q, NEW n
      PROVE  BadDefinition(q, n)' <=> BadNext(q, n)
  <2>1. Definition(q, n)' = Definition(q, n)
    BY <1>1, SameProgram
  <2>2. \A d : Sound(d)' <=> SoundNext(d)
    BY SoundStays
  <2> QED
    BY <1>2, <1>3, <2>1, <2>2 DEF BadDefinition, BadNext
<1> QED
    BY <1>1, <1>2, <1>3, <1>4, <1>5

\* The places that a step passes, and the one that it may make a success of.
LEMMA StepPasses ==
    ASSUME Control, [RecoveryNext]_recoveryVars, phase # "externs"
    PROVE  /\ phase' # "externs"
           /\ \A p \in Positions : Passed(p) => PassedNext(p)
           /\ \A p \in succeeded' \ succeeded :
                p \in Positions /\ ~Passed(p) /\ PassedNext(p)
<1>1. inside \in Nat /\ at \in Nat /\ (phase = "statements" \/ inside = 0)
    BY DEF Control
<1>2. \A p \in Positions : p[1] \in Nat /\ p[2] \in Nat
  <2>1. \A p \in Positions : program[p[1]].body \in Seq(Simple)
    BY PositionFields, StatementFields DEF Control
  <2> QED
    BY <2>1, PositionFields DEF Control
<1>3. CASE UNCHANGED <<at, inside, succeeded, phase>>
    BY <1>3 DEF Passed, PassedNext
<1>4. CASE \/ UNCHANGED recoveryVars
           \/ Infer \/ Finish
    BY <1>3, <1>4 DEF recoveryVars, Infer, Finish, Passed, PassedNext
<1>5. CASE SkipUnavailableExtern
    BY <1>1, <1>2, <1>5 DEF SkipUnavailableExtern, Passed, PassedNext
<1>6. CASE EnterTestBlock
  <2>1. inside = 0 /\ UNCHANGED <<at, succeeded, phase>>
    BY <1>6, CurrentFields DEF EnterTestBlock, Starts, Control
  <2> QED
    BY <1>1, <1>2, <2>1 DEF Passed, PassedNext
<1>7. CASE LeaveTestBlock
  <2>1. <<at, 0>> \in Positions
    <3>1. program[at].body \in Seq(Simple)
      BY <1>7, StatementFields DEF LeaveTestBlock, Control
    <3> QED
      BY <1>7, <3>1, PositionIn DEF LeaveTestBlock, Control
  <2>2. \A p \in succeeded' \ succeeded : p = <<at, 0>>
    BY <1>7 DEF LeaveTestBlock
  <2>3. at' = at + 1 /\ inside' = 0 /\ phase' = phase
    BY <1>7 DEF LeaveTestBlock
  <2>4. ~Passed(<<at, 0>>) /\ PassedNext(<<at, 0>>)
    BY <1>1, <2>3 DEF Passed, PassedNext
  <2> QED
    BY <1>1, <1>2, <2>1, <2>2, <2>3, <2>4 DEF Passed, PassedNext
<1>8. CASE Skip \/ Succeed \/ Fail
  <2>1. /\ at <= Len(program) /\ (inside > 0 => inside <= Len(program[at].body))
        /\ ToNextStatement /\ phase' = phase
        /\ \A p \in succeeded' \ succeeded : p = Here
    BY <1>8 DEF Skip, Succeed, Fail, Starts, Control
  <2>2. Here \in Positions
    BY <2>1, CurrentFields
  <2>3. ~Passed(Here) /\ PassedNext(Here)
    BY <1>1, <2>1 DEF Here, Passed, PassedNext, ToNextStatement
  <2>4. \A p \in Positions : Passed(p) => PassedNext(p)
    BY <1>1, <1>2, <2>1 DEF Passed, PassedNext, ToNextStatement
  <2> QED
    BY <2>1, <2>2, <2>3, <2>4
<1>9. ~AddExtern /\ ~EndExterns
    BY DEF AddExtern, EndExterns
<1> QED
    BY <1>4, <1>5, <1>6, <1>7, <1>8, <1>9 DEF RecoveryNext

\* What took no effect never does later.
LEMMA BadStays ==
    ASSUME Control, [RecoveryNext]_recoveryVars, phase # "externs",
           NEW q, NEW n, BadDefinition(q, n)
    PROVE  BadNext(q, n)
BY StepPasses DEF BadDefinition, BadNext, Sound, SoundNext

LEMMA SucceededNext ==
    ASSUME Control, SucceededPassed, [RecoveryNext]_recoveryVars
    PROVE  SucceededPassed'
<1>1. CASE phase = "externs"
  <2>1. succeeded' = {}
    BY <1>1 DEF RecoveryNext, recoveryVars, Control, SucceededPassed,
           AddExtern, EndExterns, SkipUnavailableExtern, Skip, Starts, EnterTestBlock,
           LeaveTestBlock, Infer, Succeed, Fail, Finish
  <2> QED
    BY <2>1 DEF SucceededPassed
<1>2. CASE phase # "externs"
    BY <1>2, StepPasses, AfterStep DEF SucceededPassed
<1> QED
    BY <1>1, <1>2

-----------------------------------------------------------------------------
(* The exported environment is exactly what took effect.                   *)

LEMMA PlaceNumbers ==
    ASSUME Control, NEW p \in Positions
    PROVE  p[1] \in Nat /\ p[2] \in Nat
<1>1. program[p[1]].body \in Seq(Simple)
    BY PositionFields, StatementFields DEF Control
<1> QED
    BY <1>1, PositionFields DEF Control

LEMMA EnvInit == RecoveryInit => EnvHolds
<1> SUFFICES ASSUME RecoveryInit
             PROVE  EnvHolds
    OBVIOUS
<1>1. ~Inferring /\ DOMAIN env = {} /\ phase = "externs" /\ at = 1
    BY DEF RecoveryInit, Inferring
<1>2. \A n : \A p \in Survivors(n) : ~Declared(p)
    BY <1>1, PlaceNumbers, PositionFields, ControlInit DEF Control, Survivors, Declared
<1> QED
    BY <1>1, <1>2 DEF EnvHolds, Exact

\* Survivors, Declared and Exact after a step.
SurvivorsNext(n) == {p \in Positions : p[2] = 0 /\ n \in At(p).binds /\ SoundNext(p)}

DeclaredNext(p) == phase' # "externs" \/ p[1] < at'

ExactNext(e) ==
    /\ \A n \in DOMAIN e : e[n] \in SurvivorsNext(n)
    /\ \A n \in Name : \A p \in SurvivorsNext(n) :
           DeclaredNext(p) => n \in DOMAIN e /\ Prevails(e[n], p)

LEMMA ExactAfter ==
    ASSUME [RecoveryNext]_recoveryVars
    PROVE  /\ ~Inferring' /\ ExactNext(env') => EnvHolds'
           /\ (/\ Inferring' /\ ExactNext(snapshot'[1])
               /\ env' = IF Current'.kind = "extern" THEN snapshot'[1]
                         ELSE BindNames(snapshot'[1], Here'))
                 => EnvHolds'
           /\ \A n : Survivors(n) \subseteq SurvivorsNext(n)
<1>1. /\ UNCHANGED program
      /\ Positions' = Positions
      /\ \A p : At(p)' = At(p)
      /\ \A p : Sound(p)' <=> SoundNext(p)
    BY SoundStays, SameProgram
<1>2. \A n : Survivors(n)' = SurvivorsNext(n)
    BY <1>1 DEF Survivors, SurvivorsNext
<1>3. \A p, q : Prevails(p, q)' <=> Prevails(p, q)
    BY <1>1 DEF Prevails, At
<1>4. \A n : Survivors(n) \subseteq SurvivorsNext(n)
    BY SoundStays DEF Survivors, SurvivorsNext
<1>5. ExactNext(env') <=> Exact(env)'
    BY <1>2, <1>3 DEF Exact, ExactNext, Declared, DeclaredNext
<1> QED
    BY <1>1, <1>2, <1>3, <1>4, <1>5 DEF EnvHolds, Exact, ExactNext, Declared, DeclaredNext, BindNames, At

\* Nothing more survives: what was exact stays so.
LEMMA ExactStays ==
    ASSUME [RecoveryNext]_recoveryVars, NEW e, Exact(e),
           \A n : SurvivorsNext(n) \subseteq Survivors(n),
           \A n \in Name : \A p \in Survivors(n) : DeclaredNext(p) => Declared(p)
    PROVE  ExactNext(e)
<1>1. \A n : SurvivorsNext(n) = Survivors(n)
  <2>1. \A n : Survivors(n) \subseteq SurvivorsNext(n)
    BY ExactAfter
  <2> QED
    BY <2>1
<1> QED
    BY <1>1 DEF Exact, ExactNext

\* One more survives, prevails over the others and is bound.
LEMMA ExactBinds ==
    ASSUME [RecoveryNext]_recoveryVars, NEW e, Exact(e),
           NEW q \in Positions, q[2] = 0, SoundNext(q),
           \A n : SurvivorsNext(n) \subseteq Survivors(n) \union {q},
           \A n \in Name : \A p \in Survivors(n) : DeclaredNext(p) => Declared(p) \/ p = q,
           \A n \in At(q).binds : \A p \in SurvivorsNext(n) : Prevails(q, p)
    PROVE  ExactNext(BindNames(e, q))
<1> DEFINE f == BindNames(e, q)
<1>1. /\ DOMAIN f = DOMAIN e \union At(q).binds
      /\ \A n \in DOMAIN f : f[n] = IF n \in At(q).binds THEN q ELSE e[n]
    BY DEF BindNames
<1> HIDE DEF f
<1>2. ASSUME NEW n \in DOMAIN f
      PROVE  f[n] \in SurvivorsNext(n)
  <2>1. CASE n \in At(q).binds
    BY <1>1, <2>1 DEF SurvivorsNext
  <2>2. CASE n \notin At(q).binds
    BY <1>1, <2>2, ExactAfter DEF Exact
  <2> QED
    BY <2>1, <2>2
<1>3. ASSUME NEW n \in Name, NEW p \in SurvivorsNext(n), DeclaredNext(p)
      PROVE  n \in DOMAIN f /\ Prevails(f[n], p)
  <2>1. CASE n \in At(q).binds
    BY <1>1, <2>1
  <2>2. CASE n \notin At(q).binds
    <3>1. p # q /\ p \in Survivors(n)
      BY <2>2 DEF SurvivorsNext
    <3>2. Declared(p)
      BY <1>3, <3>1
    <3> QED
      BY <1>1, <2>2, <3>1, <3>2 DEF Exact
  <2> QED
    BY <2>1, <2>2
<1> QED
    BY <1>2, <1>3 DEF ExactNext, f

LEMMA EnvNext ==
    ASSUME Control, SucceededPassed, EnvHolds, [RecoveryNext]_recoveryVars
    PROVE  EnvHolds'
<1> DEFINE Kept   == \A n : SurvivorsNext(n) \subseteq Survivors(n)
           Seen   == \A n \in Name : \A p \in Survivors(n) : DeclaredNext(p) => Declared(p)
<1>1. ~Inferring => Exact(env)
    BY DEF EnvHolds
<1>2. Inferring => /\ Exact(snapshot[1])
                   /\ env = IF Current.kind = "extern" THEN snapshot[1]
                            ELSE BindNames(snapshot[1], Here)
    BY DEF EnvHolds
<1>3. succeeded' = succeeded => Kept
    BY DEF Survivors, SurvivorsNext, Sound, SoundNext
<1>4. phase # "externs" => Seen
    BY DEF Declared
<1>5. ASSUME ~Inferring, ~Inferring', env' = env, Kept, Seen
      PROVE  EnvHolds'
    BY <1>1, <1>5, ExactStays, ExactAfter
<1>6. CASE UNCHANGED recoveryVars
  <2>1. /\ UNCHANGED <<snapshot, inside, env, Current, Here>>
        /\ Inferring' = Inferring /\ Kept /\ Seen
    BY <1>3, <1>6 DEF recoveryVars, Current, Here, At, Inferring, Declared, DeclaredNext
  <2>2. CASE Inferring
    <3>1. ExactNext(snapshot[1])
      BY <1>2, <2>1, <2>2, ExactStays
    <3> QED
      BY <1>2, <2>1, <2>2, <3>1, ExactAfter DEF BindNames, At
  <2>3. CASE ~Inferring
    BY <1>5, <2>1, <2>3
  <2> QED
    BY <2>2, <2>3
<1>7. CASE AddExtern
  <2>1. /\ phase = "externs" /\ phase' = "externs" /\ at' = at + 1 /\ succeeded' = succeeded
        /\ at \in 1 .. Len(program) /\ succeeded = {}
        /\ ~Inferring /\ ~Inferring'
    BY <1>7 DEF AddExtern, Control, SucceededPassed, Inferring
  <2>2. \A n : \A p \in Survivors(n) :
          /\ p \in Positions /\ p[1] \in Nat
          /\ p = <<p[1], 0>>
          /\ At(p) = program[p[1]] /\ At(p).kind = "extern" /\ ~At(p).fault
    BY <2>1, PlaceNumbers, PositionFields DEF Control, Survivors, Sound
  <2>3. \A n : \A p \in Survivors(n) : DeclaredNext(p) => Declared(p) \/ p = <<at, 0>>
    BY <2>1, <2>2 DEF Declared, DeclaredNext
  <2>4. At(<<at, 0>>) = program[at]
    BY DEF At
  <2>5. CASE program[at].kind = "extern" /\ ~program[at].fault
    <3>1. env' = BindNames(env, <<at, 0>>)
      BY <1>7, <2>5 DEF AddExtern
    <3>2. <<at, 0>> \in Positions
      <4>1. program[at].body \in Seq(Simple)
        BY <2>1, StatementFields DEF Control
      <4>2. 0 \in 0 .. Len(program[at].body)
        BY <4>1
      <4> QED
        BY <2>1, <4>2, PositionIn DEF Control
    <3>3. SoundNext(<<at, 0>>)
      BY <2>4, <2>5 DEF SoundNext
    <3>4. \A n : \A p \in SurvivorsNext(n) : Prevails(<<at, 0>>, p)
      BY <1>3, <2>1, <2>2 DEF Prevails
    <3> QED
      BY <1>1, <1>3, <2>1, <2>3, <3>1, <3>2, <3>3, <3>4, ExactBinds, ExactAfter
  <2>6. CASE ~(program[at].kind = "extern" /\ ~program[at].fault)
    <3>1. env' = env
      BY <1>7, <2>6 DEF AddExtern
    <3>2. \A n : \A p \in Survivors(n) : p # <<at, 0>>
      BY <2>2, <2>4, <2>6
    <3> QED
      BY <1>3, <1>5, <2>1, <2>3, <3>1, <3>2
  <2> QED
    BY <2>5, <2>6
<1>8. CASE EndExterns
  <2>1. Seen
    BY <1>8, PositionFields, PlaceNumbers DEF EndExterns, Control, Survivors, Declared
  <2> QED
    BY <1>3, <1>5, <1>8, <2>1 DEF EndExterns, Control, Inferring
<1>9. CASE SkipUnavailableExtern \/ Finish \/ EnterTestBlock \/ Skip
  <2>1. /\ phase # "externs" /\ succeeded' = succeeded /\ env' = env
        /\ ~Inferring /\ ~Inferring'
    BY <1>9 DEF SkipUnavailableExtern, Finish, EnterTestBlock, Skip, Starts, Control, Inferring,
                SetCurrent, CurrentEnv
  <2> QED
    BY <1>3, <1>4, <1>5, <2>1
<1>10. CASE LeaveTestBlock
  <2>1. /\ phase # "externs" /\ env' = env /\ ~Inferring /\ ~Inferring'
        /\ succeeded' \subseteq succeeded \union {<<at, 0>>}
        /\ program[at].binds = {}
    BY <1>10, StatementFields DEF LeaveTestBlock, Control, Inferring
  <2>2. At(<<at, 0>>).binds = {}
    BY <2>1 DEF At
  <2>3. Kept
    BY <2>1, <2>2 DEF Survivors, SurvivorsNext, Sound, SoundNext
  <2> QED
    BY <1>4, <1>5, <2>1, <2>3
<1>11. CASE Infer
  <2>1. /\ UNCHANGED <<Here, Current, inside, succeeded>> /\ phase # "externs"
        /\ snapshot = <<>> /\ snapshot' = <<CurrentEnv>> /\ ~Inferring
    BY <1>11 DEF Infer, Starts, Here, Current, At, Inferring
  <2>2. CASE inside > 0
    <3>1. env' = env /\ ~Inferring'
      BY <1>11, <2>1, <2>2 DEF Infer, SetCurrent, Inferring
    <3> QED
      BY <1>3, <1>4, <1>5, <2>1, <3>1
  <2>3. CASE inside = 0
    <3>1. /\ Inferring' /\ snapshot'[1] = env
          /\ env' = IF Current.kind = "extern" THEN env ELSE BindNames(env, Here)
      BY <1>11, <2>1, <2>3 DEF Infer, SetCurrent, CurrentEnv, Inferring
    <3>2. ExactNext(env)
      BY <1>1, <1>3, <1>4, <2>1, ExactStays
    <3> QED
      BY <2>1, <3>1, <3>2, ExactAfter
  <2> QED
    BY <2>2, <2>3 DEF Control
<1>12. CASE Succeed
  <2>1. /\ env' = env /\ snapshot' = <<>> /\ ~Inferring' /\ snapshot # <<>>
        /\ succeeded' = succeeded \union {Here}
        /\ phase = "statements" /\ at <= Len(program)
        /\ inside > 0 => inside <= Len(program[at].body)
    BY <1>12 DEF Succeed, SetCurrent, CurrentEnv, Inferring, Control
  <2>2. Here \in Positions /\ Current = At(Here) /\ Here[1] = at /\ Here[2] = inside
    BY <2>1, CurrentFields DEF Here
  <2>3. Seen
    BY <1>4, <2>1
  <2>4. CASE inside > 0
    <3>1. Kept /\ ~Inferring
      BY <2>1, <2>2, <2>4 DEF Survivors, SurvivorsNext, Sound, SoundNext, Inferring
    <3> QED
      BY <1>5, <2>1, <2>3, <3>1
  <2>5. CASE inside = 0 /\ Current.kind = "extern"
    <3>1. Kept /\ Inferring /\ env = snapshot[1]
      BY <1>2, <2>1, <2>2, <2>5 DEF Survivors, SurvivorsNext, Sound, SoundNext, Inferring
    <3> QED
      BY <1>2, <2>1, <2>3, <3>1, ExactStays, ExactAfter
  <2>6. CASE inside = 0 /\ Current.kind # "extern"
    <3>1. Inferring /\ env = BindNames(snapshot[1], Here) /\ Exact(snapshot[1])
      BY <1>2, <2>1, <2>6 DEF Inferring
    <3>2. SoundNext(Here)
      BY <2>1, <2>2, <2>6 DEF SoundNext
    <3>3. \A n : SurvivorsNext(n) \subseteq Survivors(n) \union {Here}
      BY <2>1 DEF Survivors, SurvivorsNext, Sound, SoundNext
    <3>4. \A n : \A p \in SurvivorsNext(n) : Prevails(Here, p)
      <4>1. ASSUME NEW n, NEW p \in SurvivorsNext(n), At(p).kind # "extern"
            PROVE  p[1] <= at
        <5>1. p = Here \/ (p \in succeeded /\ p[2] = 0)
          BY <2>1, <4>1 DEF SurvivorsNext, SoundNext
        <5>2. p[1] \in Nat /\ at \in Nat
          BY <4>1, PlaceNumbers DEF SurvivorsNext, Control
        <5> QED
          BY <2>2, <5>1, <5>2 DEF SucceededPassed, Passed
      <4> QED
        BY <2>2, <2>6, <4>1 DEF Prevails
    <3>5. ExactNext(env)
      BY <2>2, <2>3, <2>6, <3>1, <3>2, <3>3, <3>4, ExactBinds
    <3> QED
      BY <2>1, <3>5, ExactAfter
  <2> QED
    BY <2>4, <2>5, <2>6 DEF Control
<1>13. CASE Fail
  <2>1. /\ snapshot # <<>> /\ ~Inferring' /\ succeeded' = succeeded /\ phase # "externs"
        /\ env' = IF inside > 0 THEN env ELSE snapshot[1]
    BY <1>13 DEF Fail, SetCurrent, Inferring, Control
  <2>2. Kept /\ Seen
    BY <1>3, <1>4, <2>1
  <2>3. CASE inside > 0
    BY <1>5, <2>1, <2>2, <2>3 DEF Inferring
  <2>4. CASE inside = 0
    BY <1>2, <2>1, <2>2, <2>4, ExactStays, ExactAfter DEF Inferring
  <2> QED
    BY <2>3, <2>4 DEF Control
<1> QED
    BY <1>6, <1>7, <1>8, <1>9, <1>10, <1>11, <1>12, <1>13 DEF RecoveryNext

LEMMA SucceededInit == RecoveryInit => SucceededPassed
BY DEF RecoveryInit, SucceededPassed

LEMMA EnvInvHolds == RecoverySpec => [](Control /\ SucceededPassed /\ EnvHolds)
BY ControlInit, ControlNext, SucceededInit, SucceededNext, EnvInit, EnvNext, PTL DEF RecoverySpec

(* In a program of any length, the environment that a module exports after recovery
   binds the names that a statement which took effect defines, each to the last such
   definition, and nothing else: no failure, skipped statement or test block loses a
   definition, uncovers an earlier one or leaves one of its own. *)
THEOREM EnvIsExactHolds == RecoverySpec => []EnvIsExact
<1>1. Control /\ EnvHolds => EnvIsExact
  <2> SUFFICES ASSUME Control, EnvHolds, Done
               PROVE  /\ \A n \in DOMAIN env : env[n] \in Survivors(n)
                      /\ \A n \in Name : \A p \in Survivors(n) :
                             n \in DOMAIN env /\ Prevails(env[n], p)
    BY DEF EnvIsExact
  <2>1. ~Inferring /\ \A p : Declared(p)
    BY DEF Control, Inferring, Declared, Done
  <2> QED
    BY <2>1 DEF EnvHolds, Exact
<1> QED
    BY <1>1, EnvInvHolds, PTL

-----------------------------------------------------------------------------
(* No fault is swallowed.                                                  *)
LEMMA UnavailableExterns ==
    ASSUME Control, SucceededPassed, UnavailableIsBad, phase = "externs",
           [RecoveryNext]_recoveryVars
    PROVE  UnavailableIsBad'
<1> DEFINE Faulty(n) == \E i \in 1 .. Len(program) :
             program[i].kind = "extern" /\ program[i].fault /\ n \in program[i].binds
<1>1. \A n \in unavailable : Faulty(n)
    BY DEF UnavailableIsBad
<1>2. AddExtern \/ EndExterns \/ UNCHANGED recoveryVars
    BY DEF RecoveryNext, Control, SkipUnavailableExtern, Skip, Starts, EnterTestBlock,
           LeaveTestBlock, Infer, Succeed, Fail, Finish
<1>3. inside = 0 /\ inside' = 0 /\ UNCHANGED program
    BY <1>2 DEF Control, AddExtern, EndExterns, recoveryVars
<1>4. CASE AddExtern
  <2>1. phase' = "externs"
    BY <1>4 DEF AddExtern
  <2>2. \A n \in unavailable' : Faulty(n)
    BY <1>1, <1>4 DEF AddExtern, Control
  <2> QED
    BY <1>3, <2>1, <2>2 DEF UnavailableIsBad
<1>5. CASE UNCHANGED recoveryVars
    BY <1>1, <1>3, <1>5 DEF recoveryVars, UnavailableIsBad
<1>6. CASE EndExterns
  <2>1. /\ phase' = "statements" /\ at' = 1 /\ inside' = 0
        /\ unavailable' = unavailable /\ succeeded' = {}
    BY <1>3, <1>6 DEF EndExterns, SucceededPassed
  <2>2. ASSUME NEW n \in unavailable
        PROVE  BadNext(<<1, 0>>, n)
    <3>1. PICK i \in 1 .. Len(program) :
            program[i].kind = "extern" /\ program[i].fault /\ n \in program[i].binds
      BY <1>1
    <3>2. <<i, 0>> \in Positions /\ Definition(<<1, 0>>, n) = <<i, 0>>
      BY <3>1, DefinitionFirst
    <3>3. At(<<i, 0>>) = program[i]
      BY DEF At
    <3> QED
      BY <3>1, <3>2, <3>3 DEF BadNext, SoundNext
  <2> QED
    BY <2>1, <2>2, AfterStep DEF UnavailableIsBad
<1> QED
    BY <1>2, <1>4, <1>5, <1>6

\* A statement that is passed without taking effect makes its names bad ones, and
\* the other names stand for what they stood for.
LEMMA UnavailableToNext ==
    ASSUME Control, SucceededPassed, UnavailableIsBad, [RecoveryNext]_recoveryVars,
           phase = "statements", at <= Len(program),
           inside > 0 => inside <= Len(program[at].body),
           ToNextStatement, phase' = phase,
           NEW e, NEW names, SetCurrent(e, names),
           names \subseteq CurrentUnavailable \union Current.binds,
           \/ names \intersect Current.binds = {}
           \/ succeeded' = succeeded /\ Current.kind # "extern"
    PROVE  UnavailableIsBad'
<1>1. /\ Here \in Positions /\ Current = At(Here)
      /\ inside = 0 => Current = program[at]
      /\ inside > 0 => Current = program[at].body[inside] /\ Current.kind = "let"
    BY CurrentFields
<1>2. ASSUME NEW n \in names, n \in Current.binds
      PROVE  Current.kind # "extern" /\ ~SoundNext(Here) /\ PassedNext(Here)
  <2>1. ~Passed(Here) /\ PassedNext(Here)
    BY DEF Control, Here, Passed, PassedNext, ToNextStatement
  <2> QED
    BY <1>1, <1>2, <2>1 DEF SucceededPassed, SoundNext
<1>3. CASE inside = 0
  <2>1. ASSUME NEW n \in names
        PROVE  BadNext(<<at + 1, 0>>, n)
    <3>1. CASE n \in Current.binds
      <4>1. at \in 1 .. Len(program) /\ n \in program[at].binds /\ Here = <<at, 0>>
        BY <1>1, <1>3, <3>1 DEF Here, Control
      <4>2. program[at].kind # "extern"
        BY <1>1, <1>2, <1>3, <3>1
      <4>3. Definition(<<at + 1, 0>>, n) = Here
        BY <4>1, <4>2, DefinitionNew
      <4> QED
        BY <1>1, <1>2, <3>1, <4>3 DEF BadNext
    <3>2. CASE n \notin Current.binds
      <4>1. n \in unavailable
        BY <1>3, <3>2 DEF CurrentUnavailable
      <4>2. BadNext(<<at, 0>>, n)
        BY <4>1, BadStays DEF UnavailableIsBad
      <4>3. Definition(<<at + 1, 0>>, n) = Definition(<<at, 0>>, n)
        BY <1>1, <1>3, <3>2, DefinitionSame DEF Control
      <4> QED
        BY <4>2, <4>3 DEF BadNext
    <3> QED
      BY <3>1, <3>2
  <2>2. at' = at + 1 /\ inside' = 0 /\ unavailable' = names
    BY <1>3 DEF ToNextStatement, SetCurrent
  <2> QED
    BY <2>1, <2>2, AfterStep DEF UnavailableIsBad
<1>4. CASE inside > 0
  <2>0. inside \in 1 .. Len(program[at].body) /\ at \in 1 .. Len(program)
    <3>1. program[at].body \in Seq(Simple)
      BY StatementFields DEF Control
    <3> QED
      BY <1>4, <3>1 DEF Control
  <2>1. ASSUME NEW n \in names
        PROVE  BadNext(<<at, inside + 1>>, n)
    <3>1. CASE n \in Current.binds
      <4>1. Definition(<<at, inside + 1>>, n) = Here
        BY <1>1, <1>4, <2>0, <3>1, DefinitionNewInBlock DEF Here
      <4> QED
        BY <1>1, <1>2, <3>1, <4>1 DEF BadNext
    <3>2. CASE n \notin Current.binds
      <4>1. n \in test.unavailable
        BY <1>4, <3>2 DEF CurrentUnavailable
      <4>2. BadNext(<<at, inside>>, n)
        BY <1>4, <4>1, BadStays DEF UnavailableIsBad, Here
      <4>3. Definition(<<at, inside + 1>>, n) = Definition(<<at, inside>>, n)
        BY <1>1, <1>4, <2>0, <3>2, DefinitionSameInBlock
      <4> QED
        BY <4>2, <4>3 DEF BadNext
    <3> QED
      BY <3>1, <3>2
  <2>2. /\ at' = at /\ inside' = inside + 1 /\ unavailable' = unavailable
        /\ test'.unavailable = names
    BY <1>4 DEF ToNextStatement, SetCurrent
  <2>3. \A n \in unavailable : BadNext(<<at, 0>>, n)
    BY BadStays DEF UnavailableIsBad
  <2> QED
    BY <1>4, <2>1, <2>2, <2>3, AfterStep DEF UnavailableIsBad, Here
<1> QED
    BY <1>3, <1>4 DEF Control

\* An extern mentions nothing, so it is never skipped for what it mentions.
LEMMA ExternsNeverSkip ==
    ASSUME Control, Starts, Skips(Current)
    PROVE  Current.kind # "extern"
<1>1. Current \in Statement
    BY CurrentFields DEF Starts
<1> QED
    BY <1>1, StatementFields DEF Skips, Refs, Mentioned

LEMMA UnavailableNext ==
    ASSUME Control, SucceededPassed, UnavailableIsBad, [RecoveryNext]_recoveryVars
    PROVE  UnavailableIsBad'
<1>1. CASE phase = "externs"
    BY <1>1, UnavailableExterns
<1>2. CASE phase = "done"
  <2>1. UNCHANGED recoveryVars
    BY <1>2 DEF RecoveryNext, Control, AddExtern, EndExterns, SkipUnavailableExtern, Skip,
           Starts, EnterTestBlock, LeaveTestBlock, Infer, Succeed, Fail, Finish
  <2>2. phase' = "done" /\ inside' = 0
    BY <1>2, <2>1 DEF recoveryVars, Control
  <2> QED
    BY <2>2 DEF UnavailableIsBad
<1>3. CASE phase = "statements"
  <2>1. \A n \in unavailable : BadNext(<<at, 0>>, n)
    BY <1>3, BadStays DEF UnavailableIsBad
  <2>2. inside > 0 => \A n \in test.unavailable : BadNext(<<at, inside>>, n)
    BY <1>3, BadStays DEF UnavailableIsBad, Here
  <2>3. CASE UNCHANGED recoveryVars \/ Infer
    <3>1. /\ UNCHANGED <<phase, at, inside, unavailable>>
          /\ test'.unavailable = test.unavailable
      BY <2>3 DEF recoveryVars, Infer, SetCurrent, CurrentUnavailable
    <3> QED
      BY <1>3, <2>1, <2>2, <3>1, AfterStep DEF UnavailableIsBad, Here
  <2>4. CASE SkipUnavailableExtern \/ LeaveTestBlock
    <3>1. /\ at' = at + 1 /\ inside' = 0 /\ unavailable' = unavailable /\ phase' = phase
          /\ at \in 1 .. Len(program)
          /\ program[at].kind = "extern" \/ program[at].binds = {}
      BY <2>4, StatementFields DEF SkipUnavailableExtern, ExternUnavailable, LeaveTestBlock,
                                   Control
    <3>2. \A n \in unavailable : BadNext(<<at + 1, 0>>, n)
      BY <2>1, <3>1, DefinitionSame DEF BadNext
    <3> QED
      BY <1>3, <3>1, <3>2, AfterStep DEF UnavailableIsBad
  <2>5. CASE EnterTestBlock
    <3>1. UNCHANGED <<phase, at, unavailable>> /\ test'.unavailable = {}
      BY <2>5 DEF EnterTestBlock
    <3> QED
      BY <1>3, <2>1, <3>1, AfterStep DEF UnavailableIsBad
  <2>6. CASE Skip
    <3>1. succeeded' = succeeded /\ Current.kind # "extern"
      BY <2>6, ExternsNeverSkip DEF Skip
    <3> QED
      BY <2>6, <3>1, UnavailableToNext DEF Skip, Starts
  <2>7. CASE Succeed
    BY <1>3, <2>7, UnavailableToNext DEF Succeed, Control
  <2>8. CASE Fail
    BY <1>3, <2>8, UnavailableToNext DEF Fail, Fails, Control
  <2>9. CASE Finish
    <3>1. phase' = "done" /\ inside' = 0
      BY <2>9 DEF Finish, Control
    <3> QED
      BY <3>1 DEF UnavailableIsBad
  <2>10. ~AddExtern /\ ~EndExterns
    BY <1>3 DEF AddExtern, EndExterns
  <2> QED
    BY <2>3, <2>4, <2>5, <2>6, <2>7, <2>8, <2>9, <2>10 DEF RecoveryNext
<1> QED
    BY <1>1, <1>2, <1>3 DEF Control

\* The places that a step passes for the first time.
LEMMA NewlyPassed ==
    ASSUME Control, [RecoveryNext]_recoveryVars, phase # "externs",
           NEW p \in Positions, PassedNext(p), ~Passed(p)
    PROVE  \/ SkipUnavailableExtern /\ p = <<at, 0>>
           \/ LeaveTestBlock /\ p = <<at, 0>>
           \/ Skip /\ (p = Here \/ (inside = 0 /\ p[1] = at))
           \/ Succeed /\ p = Here
           \/ Fail /\ p = Here
<1>1. inside \in Nat /\ at \in Nat
    BY DEF Control
<1>2. /\ p[1] \in 1 .. Len(program) /\ p = <<p[1], p[2]>>
      /\ p[2] \in 0 .. Len(program[p[1]].body) /\ Len(program[p[1]].body) \in Nat
      /\ p[2] > 0 => program[p[1]].kind = "test"
    BY PositionFields, StatementFields DEF Control
<1>3. CASE UNCHANGED <<at, inside>>
    BY <1>3 DEF Passed, PassedNext
<1>4. CASE UNCHANGED recoveryVars \/ Infer \/ Finish
    BY <1>3, <1>4 DEF recoveryVars, Infer, Finish
<1>5. CASE EnterTestBlock
  <2>1. inside = 0 /\ at' = at /\ inside' = 1
    BY <1>5, CurrentFields DEF EnterTestBlock, Starts, Control
  <2> QED
    BY <1>1, <1>2, <2>1 DEF Passed, PassedNext
<1>6. CASE SkipUnavailableExtern
    BY <1>1, <1>2, <1>6 DEF SkipUnavailableExtern, ExternUnavailable, Passed, PassedNext
<1>7. CASE LeaveTestBlock
  <2>1. at' = at + 1 /\ inside' = 0 /\ inside > Len(program[at].body)
    BY <1>7 DEF LeaveTestBlock
  <2>2. p[1] = at
    BY <1>1, <1>2, <2>1 DEF Passed, PassedNext
  <2>3. p[2] = 0
    BY <1>1, <1>2, <2>1, <2>2 DEF Passed
  <2> QED
    BY <1>2, <1>7, <2>2, <2>3
<1>8. ASSUME ToNextStatement
      PROVE  p = Here \/ (inside = 0 /\ p[1] = at)
    BY <1>1, <1>2, <1>8 DEF ToNextStatement, Passed, PassedNext, Here
<1>9. CASE Skip
    BY <1>8, <1>9 DEF Skip
<1>10. CASE Succeed \/ Fail
  <2>1. ToNextStatement /\ at <= Len(program) /\ Current.kind # "test"
        /\ (inside > 0 => inside <= Len(program[at].body))
    BY <1>10 DEF Succeed, Fail, Control
  <2>2. (inside = 0 /\ p[1] = at) => p[2] = 0
    BY <1>2, <2>1, CurrentFields
  <2> QED
    BY <1>2, <1>8, <1>10, <2>1, <2>2 DEF Here
<1>11. ~AddExtern /\ ~EndExterns
    BY DEF AddExtern, EndExterns
<1> QED
    BY <1>4, <1>5, <1>6, <1>7, <1>9, <1>10, <1>11 DEF RecoveryNext

LEMMA FaultyExternsReported ==
    ASSUME Control, FaultsAccounted, [RecoveryNext]_recoveryVars,
           NEW i \in 1 .. Len(program), program[i].kind = "extern", program[i].fault,
           phase' # "externs" \/ i < at'
    PROVE  <<i, 0>> \in diagnostics'
<1>1. diagnostics \subseteq diagnostics'
    BY DEF RecoveryNext, recoveryVars, AddExtern, EndExterns, SkipUnavailableExtern, Skip,
           EnterTestBlock, LeaveTestBlock, Infer, Succeed, Fail, Finish
<1>2. CASE phase # "externs" \/ i < at
    BY <1>1, <1>2 DEF FaultsAccounted
<1>3. CASE phase = "externs" /\ i >= at
  <2>1. AddExtern /\ i = at
    BY <1>3 DEF RecoveryNext, recoveryVars, Control, AddExtern, EndExterns,
           SkipUnavailableExtern, Skip, Starts, EnterTestBlock, LeaveTestBlock, Infer,
           Succeed, Fail, Finish
  <2> QED
    BY <2>1 DEF AddExtern
<1> QED
    BY <1>2, <1>3 DEF Control

LEMMA FaultsNext ==
    ASSUME Control, SucceededPassed, UnavailableIsBad, FaultsAccounted,
           [RecoveryNext]_recoveryVars
    PROVE  FaultsAccounted'
<1> DEFINE Excused(p) ==
        \E q \in {p, <<p[1], 0>>} : \E n \in Mentioned(At(q)) : BadDefinition(q, n)
           ExcusedNext(p) ==
        \E q \in {p, <<p[1], 0>>} : \E n \in Mentioned(At(q)) : BadNext(q, n)
<1>1. \A i \in 1 .. Len(program) :
         (program[i].kind = "extern" /\ program[i].fault /\ (phase' # "externs" \/ i < at'))
            => <<i, 0>> \in diagnostics'
    BY FaultyExternsReported
<1>2. ASSUME phase' # "externs", NEW p \in Positions,
             PassedNext(p), At(p).fault, At(p).kind # "extern"
      PROVE  p \in diagnostics' \/ ExcusedNext(p)
  <2>1. CASE phase = "externs"
    <3>1. at' = 1 /\ inside' = 0
      BY <1>2, <2>1 DEF RecoveryNext, recoveryVars, Control, AddExtern, EndExterns,
           SkipUnavailableExtern, Skip, Starts, EnterTestBlock, LeaveTestBlock, Infer,
           Succeed, Fail, Finish
    <3>2. p[1] \in 1 .. Len(program) /\ p[2] \in Int
      <4>1. program[p[1]].body \in Seq(Simple)
        BY PositionFields, StatementFields DEF Control
      <4> QED
        BY <4>1, PositionFields DEF Control
    <3> QED
      BY <1>2, <3>1, <3>2 DEF PassedNext
  <2>2. CASE phase # "externs" /\ Passed(p)
    <3>1. p \in diagnostics \/ Excused(p)
      BY <1>2, <2>2 DEF FaultsAccounted
    <3>2. diagnostics \subseteq diagnostics'
      BY DEF RecoveryNext, recoveryVars, AddExtern, EndExterns, SkipUnavailableExtern, Skip,
           EnterTestBlock, LeaveTestBlock, Infer, Succeed, Fail, Finish
    <3> QED
      BY <2>2, <3>1, <3>2, BadStays
  <2>3. CASE phase # "externs" /\ ~Passed(p)
    <3>0. /\ \/ SkipUnavailableExtern /\ p = <<at, 0>>
             \/ LeaveTestBlock /\ p = <<at, 0>>
             \/ Skip /\ (p = Here \/ (inside = 0 /\ p[1] = at))
             \/ Succeed /\ p = Here
             \/ Fail /\ p = Here
      BY <1>2, <2>3, NewlyPassed
    <3>1. CASE (SkipUnavailableExtern \/ LeaveTestBlock) /\ p = <<at, 0>>
      <4>1. At(p) = program[at]
        BY <3>1 DEF At
      <4>2. program[at].kind = "extern" \/ ~program[at].fault
        BY <3>1, StatementFields DEF SkipUnavailableExtern, ExternUnavailable,
                                     LeaveTestBlock, Control
      <4> QED
        BY <1>2, <4>1, <4>2
    <3>2. CASE Skip /\ (p = Here \/ (inside = 0 /\ p[1] = at))
      <4>1. PICK n \in Mentioned(Current) : n \in CurrentUnavailable
        BY <3>2 DEF Skip, Skips, Refs
      <4>2. BadDefinition(Here, n)
        <5>1. CASE inside > 0
          BY <4>1, <5>1 DEF UnavailableIsBad, CurrentUnavailable
        <5>2. CASE inside = 0
          <6>1. phase = "statements" /\ Here = <<at, 0>> /\ n \in unavailable
            BY <3>2, <4>1, <5>2 DEF Skip, Starts, Here, CurrentUnavailable
          <6> QED
            BY <6>1 DEF UnavailableIsBad
        <5> QED
          BY <5>1, <5>2 DEF Control
      <4>3. BadNext(Here, n)
        BY <2>3, <4>2, BadStays
      <4>4. Here \in {p, <<p[1], 0>>}
        BY <3>2 DEF Here
      <4> QED
        BY <4>1, <4>3, <4>4 DEF Current
    <3>3. CASE Succeed /\ p = Here
      BY <1>2, <3>3 DEF Succeed, Fails, Current
    <3>4. CASE Fail /\ p = Here
      BY <3>4 DEF Fail
    <3> QED
      BY <3>0, <3>1, <3>2, <3>3, <3>4
  <2> QED
    BY <2>1, <2>2, <2>3
<1> QED
    BY <1>1, <1>2, AfterStep DEF FaultsAccounted

LEMMA FaultInit == RecoveryInit => FaultInv
<1>1. RecoveryInit => SucceededPassed /\ UnavailableIsBad
    BY DEF RecoveryInit, SucceededPassed, UnavailableIsBad
<1>2. RecoveryInit => FaultsAccounted
    BY DEF RecoveryInit, FaultsAccounted
<1> QED
    BY <1>1, <1>2, ControlInit DEF FaultInv

LEMMA FaultInvHolds == RecoverySpec => []FaultInv
<1>1. FaultInv /\ [RecoveryNext]_recoveryVars => FaultInv'
    BY ControlNext, SucceededNext, UnavailableNext, FaultsNext DEF FaultInv
<1> QED
    BY <1>1, FaultInit, PTL DEF RecoverySpec

(* No fault is swallowed: when inference is over, a statement with a fault of its own
   has a diagnostic unless something that it depends on took no effect. *)
THEOREM FaultsReportedHolds == RecoverySpec => []FaultsReported
<1>1. ASSUME FaultInv
      PROVE  FaultsReported
  <2> SUFFICES ASSUME Done, NEW p \in Positions, At(p).fault,
                      At(p).kind = "extern" \/ DependsOnSound(p)
               PROVE  p \in diagnostics
    BY DEF FaultsReported
  <2>1. phase = "done" /\ at > Len(program) /\ at \in Int
    BY <1>1 DEF Done, FaultInv, Control
  <2>2. /\ p[1] \in 1 .. Len(program) /\ p = <<p[1], p[2]>>
        /\ p[2] = 0 => At(p) = program[p[1]]
        /\ p[2] > 0 => At(p).kind = "let"
        /\ p[2] \in 0 .. Len(program[p[1]].body) /\ Len(program[p[1]].body) \in Nat
    BY <1>1, PositionFields, StatementFields DEF FaultInv, Control
  <2>3. CASE At(p).kind = "extern"
    BY <1>1, <2>1, <2>2, <2>3 DEF FaultInv, FaultsAccounted
  <2>4. CASE At(p).kind # "extern"
    <3>1. Passed(p)
      BY <2>1, <2>2 DEF Passed
    <3>2. \/ p \in diagnostics
          \/ \E q \in {p, <<p[1], 0>>} : \E n \in Mentioned(At(q)) : BadDefinition(q, n)
      BY <1>1, <2>1, <2>4, <3>1 DEF FaultInv, FaultsAccounted
    <3> QED
      BY <2>4, <3>2 DEF DependsOnSound, BadDefinition
  <2> QED
    BY <2>3, <2>4
<1> QED
    BY <1>1, FaultInvHolds, PTL

==============================================================================
