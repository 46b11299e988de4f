---------------------------- MODULE Unification ----------------------------
(***************************************************************************)
(* Unification of types with extensible records (types/mod.rs): apply,      *)
(* bind_ty, unify and unify_rows over whole types, where Subst and          *)
(* LetPolymorphism look only at the variables of a type.  A substitution is *)
(* a record of its map and of the number of the next variable; ok is FALSE  *)
(* once a call has returned an error.                                       *)
(*                                                                         *)
(* A field of a record is a pair of its name and its type, and names are    *)
(* numbers so that they have an order.  Levels and the undo journal, which  *)
(* change nothing in what is bound, are those of Subst.                     *)
(***************************************************************************)
EXTENDS Naturals, SequencesExt

CONSTANTS
    Equations,     \* sequences of pairs of types that a program makes equal in turn
    RowVars,       \* the variables that stand for the tail of a record
    GroundTypes,   \* the closed types a variable may stand for
    GroundRows     \* those that are records: what a tail may stand for

ASSUME EquationsAreSequences == \A eqs \in Equations : eqs \in Seq(Range(eqs))
ASSUME RowsAreTypes == GroundRows \subseteq GroundTypes

VARIABLES
    pending,      \* the pairs of types that are still to be unified
    unified,      \* the pairs that went through unify, in order
    subst         \* the substitution of all these calls

unificationVars == <<pending, unified, subst>>

-----------------------------------------------------------------------------
(* Types.                                                                    *)

TVar(v)           == [ty |-> "var", var |-> v]
TCon(name)        == [ty |-> "con", name |-> name]
TTuple(items)     == [ty |-> "tuple", items |-> items]
TApp(con, args)   == [ty |-> "app", con |-> con, args |-> args]
TRecord(fs, tail) == [ty |-> "record", fields |-> fs, tail |-> tail]

\* capabilities: whether each parameter is a mutable place, and the result a fresh one
TFunc(params, capabilities, ret) ==
    [ty |-> "func", params |-> params, capabilities |-> capabilities, ret |-> ret]

Closed == TCon("unit")
TInt   == TCon("int")
TBool  == TCon("bool")
TOption(t) == TApp(TCon("Option"), <<t>>)

\* The types directly inside one.
Children(t) ==
    CASE t.ty = "tuple"  -> t.items
      [] t.ty = "app"    -> <<t.con>> \o t.args
      [] t.ty = "func"   -> Append(t.params, t.ret)
      [] t.ty = "record" -> Append([i \in DOMAIN t.fields |-> t.fields[i][2]], t.tail)
      [] OTHER -> <<>>

RECURSIVE FreeTypeVars(_)
FreeTypeVars(t) ==
    IF t.ty = "var" THEN {t.var} ELSE UNION {FreeTypeVars(c) : c \in Range(Children(t))}

ContainsVar(t, v) == v \in FreeTypeVars(t)

\* A stable sort by name.
SortedFields(fs) == SortSeq(fs, LAMBDA f, g : f[1] < g[1])

RECURSIVE ApplySubst(_, _)
ApplySubst(map, t) ==
    LET Applied(ts) == [i \in DOMAIN ts |-> ApplySubst(map, ts[i])]
    IN  CASE t.ty = "var" ->
               IF t.var \in DOMAIN map THEN ApplySubst(map, map[t.var]) ELSE t
          [] t.ty = "tuple" -> TTuple(Applied(t.items))
          [] t.ty = "app" -> TApp(ApplySubst(map, t.con), Applied(t.args))
          [] t.ty = "func" -> TFunc(Applied(t.params), t.capabilities, ApplySubst(map, t.ret))
          [] t.ty = "record" ->
               LET fs   == [i \in DOMAIN t.fields |->
                               <<t.fields[i][1], ApplySubst(map, t.fields[i][2])>>]
                   tail == ApplySubst(map, t.tail)
               IN  IF tail.ty = "record"
                   THEN TRecord(SortedFields(fs \o tail.fields), tail.tail)
                   ELSE TRecord(SortedFields(fs), tail)
          [] OTHER -> t

-----------------------------------------------------------------------------
(* Unification.                                                              *)

NewSubst(next) == [map |-> << >>, next |-> next, ok |-> TRUE]
Failed(s) == [s EXCEPT !.ok = FALSE]

BindVar(s, v, ty) ==
    LET t == ApplySubst(s.map, ty)
    IN  IF t = TVar(v) THEN s
        ELSE IF ContainsVar(t, v) THEN Failed(s)
        ELSE [s EXCEPT !.map = (v :> t) @@ @]

\* The merge of two sorted lists of fields: the types of common names, and what
\* each side has alone.
RECURSIVE MatchFields(_, _)
MatchFields(fs, gs) ==
    IF fs = <<>> \/ gs = <<>> THEN [common |-> <<>>, extras1 |-> fs, extras2 |-> gs]
    ELSE LET f == Head(fs)  g == Head(gs)
         IN  IF f[1] = g[1] THEN
                 LET m == MatchFields(Tail(fs), Tail(gs))
                 IN  [m EXCEPT !.common = <<<<f[2], g[2]>>>> \o @]
             ELSE IF f[1] < g[1] THEN
                 LET m == MatchFields(Tail(fs), gs) IN [m EXCEPT !.extras1 = <<f>> \o @]
             ELSE
                 LET m == MatchFields(fs, Tail(gs)) IN [m EXCEPT !.extras2 = <<g>> \o @]

\* The second tail stands for the rest, instead of a new variable.
ShareTail_WithoutFresh(s, v1, v2, extras1, extras2) ==
    LET bound1 == BindVar(s, v1, TRecord(extras2, TVar(v2)))
    IN  IF bound1.ok THEN BindVar(bound1, v2, TRecord(extras1, TVar(v2))) ELSE bound1

\* Each record gets the fields that only the other one has, and both one new tail.
ShareTail(s, v1, v2, extras1, extras2) ==
    LET rest   == TVar(s.next)
        bound1 == BindVar([s EXCEPT !.next = @ + 1], v1, TRecord(extras2, rest))
    IN  IF bound1.ok THEN BindVar(bound1, v2, TRecord(extras1, rest)) ELSE bound1

RECURSIVE UnifyTypes(_, _, _), UnifyRows(_, _, _)

UnifyEach(s, pairs) ==
    FoldLeft(LAMBDA acc, p : IF acc.ok THEN UnifyTypes(acc, p[1], p[2]) ELSE acc, s, pairs)

UnifyTypes(s, type1, type2) ==
    LET t1 == ApplySubst(s.map, type1)
        t2 == ApplySubst(s.map, type2)
        Paired(ts, us) == [i \in DOMAIN ts |-> <<ts[i], us[i]>>]
    IN  CASE t1.ty = "var" -> BindVar(s, t1.var, t2)
          [] t2.ty = "var" /\ t1.ty # "var" -> BindVar(s, t2.var, t1)
          [] t1.ty = "con" /\ t2 = t1 -> s
          [] t1.ty = "func" /\ t2.ty = "func" /\ t1.capabilities = t2.capabilities ->
               UnifyEach(s, Append(Paired(t1.params, t2.params), <<t1.ret, t2.ret>>))
          [] t1.ty = "tuple" /\ t2.ty = "tuple" /\ Len(t1.items) = Len(t2.items) ->
               UnifyEach(s, Paired(t1.items, t2.items))
          [] t1.ty = "app" /\ t2.ty = "app" /\ Len(t1.args) = Len(t2.args) ->
               UnifyEach(s, <<<<t1.con, t2.con>>>> \o Paired(t1.args, t2.args))
          [] t1.ty = "record" /\ t2.ty = "record" -> UnifyRows(s, t1, t2)
          [] OTHER -> Failed(s)

UnifyRows(s, r1, r2) ==
    LET match   == MatchFields(r1.fields, r2.fields)
        extras1 == match.extras1
        extras2 == match.extras2
        after   == UnifyEach(s, match.common)
        tail1   == ApplySubst(after.map, r1.tail)
        tail2   == ApplySubst(after.map, r2.tail)
        Fails(cond) == IF cond THEN Failed(after) ELSE after
    IN  CASE ~after.ok -> after
          [] tail1 = Closed /\ tail2 = Closed -> Fails(extras1 # <<>> \/ extras2 # <<>>)
          [] tail1.ty = "var" /\ tail2 = Closed ->
               IF extras1 # <<>> THEN Failed(after)
               ELSE BindVar(after, tail1.var, TRecord(extras2, Closed))
          [] tail1 = Closed /\ tail2.ty = "var" ->
               IF extras2 # <<>> THEN Failed(after)
               ELSE BindVar(after, tail2.var, TRecord(extras1, Closed))
          [] tail1.ty = "var" /\ tail2.ty = "var" ->
               IF tail1 = tail2 THEN Fails(extras1 # <<>> \/ extras2 # <<>>)
               ELSE ShareTail(after, tail1.var, tail2.var, extras1, extras2)
          [] tail1.ty = "record" ->
               UnifyRows(after, TRecord(SortedFields(tail1.fields \o extras1), tail1.tail),
                         TRecord(extras2, tail2))
          [] tail1.ty # "record" /\ tail2.ty = "record" ->
               UnifyRows(after, TRecord(extras1, tail1),
                         TRecord(SortedFields(tail2.fields \o extras2), tail2.tail))
          [] OTHER -> Failed(after)

-----------------------------------------------------------------------------
(* A program that unifies one pair of types after another.                   *)

VarsOf(eqs) == UNION {FreeTypeVars(eq[1]) \union FreeTypeVars(eq[2]) : eq \in Range(eqs)}

FirstFresh == 1 + Max(UNION {VarsOf(eqs) : eqs \in Equations} \union {0})

UnificationIdle == pending = <<>> /\ unified = <<>> /\ subst = NewSubst(0)

UnificationInit == pending \in Equations /\ unified = <<>> /\ subst = NewSubst(FirstFresh)

UnifyNext ==
    /\ pending # <<>> /\ subst.ok
    /\ subst' = UnifyTypes(subst, Head(pending)[1], Head(pending)[2])
    /\ unified' = Append(unified, Head(pending))
    /\ pending' = Tail(pending)

UnificationNext == UnifyNext

-----------------------------------------------------------------------------
(* What unification means: the closed types that its variables may stand     *)
(* for.  A record never has two fields of one name, so putting a tail behind *)
(* fields that it repeats stands for no type.                                *)

IllFormed == TCon("ill-formed")

RECURSIVE InstanceOf(_, _)
InstanceOf(ground, t) ==
    LET cs == [i \in DOMAIN Children(t) |-> InstanceOf(ground, Children(t)[i])]
    IN  CASE t.ty = "var" -> ground[t.var]
          [] IllFormed \in Range(cs) -> IllFormed
          [] t.ty = "tuple" -> TTuple(cs)
          [] t.ty = "app" -> TApp(Head(cs), Tail(cs))
          [] t.ty = "func" -> TFunc(Front(cs), t.capabilities, Last(cs))
          [] t.ty = "record" ->
               LET own   == [i \in DOMAIN t.fields |-> <<t.fields[i][1], cs[i]>>]
                   whole == own \o (IF t.tail = Closed THEN <<>> ELSE Last(cs).fields)
               IN  IF \E i, j \in DOMAIN whole : i # j /\ whole[i][1] = whole[j][1]
                   THEN IllFormed ELSE TRecord(SortedFields(whole), Closed)
          [] OTHER -> t

\* The ways to choose a closed type for each of the variables.
Groundings(vs) ==
    {g @@ h : g \in [vs \ RowVars -> GroundTypes], h \in [vs \intersect RowVars -> GroundRows]}

Equal(ground, eq) ==
    LET t == InstanceOf(ground, eq[1]) IN t # IllFormed /\ t = InstanceOf(ground, eq[2])

Solves(ground, eqs) == \A eq \in Range(eqs) : Equal(ground, eq)

\* No record of the pairs gets a field twice.
MakesRecords(ground, eqs) ==
    \A eq \in Range(eqs) : \A i \in 1..2 : InstanceOf(ground, eq[i]) # IllFormed

\* A choice agrees with the map when every bound variable stands for what it is
\* bound to, for some choice of the variables that unification made up.
AgreesWith(ground, map) ==
    LET made == FirstFresh..(subst.next - 1)
    IN  \E tails \in [made -> GroundRows] :
           LET g == ground @@ tails
           IN  \A v \in DOMAIN map : v \in DOMAIN g => g[v] = InstanceOf(g, map[v])

\* A program accepts exactly the solutions of all it has unified, no more and no
\* fewer: when unification succeeds, the types that agree with the substitution are
\* those that make every pair equal, in whatever order the pairs came and whatever
\* record they extended in between; when it fails, no types do.
UnifyIsMostGeneral ==
    LET choices == Groundings(VarsOf(unified))
    IN  IF subst.ok
        THEN \A g \in choices :
                MakesRecords(g, unified) => (Solves(g, unified) <=> AgreesWith(g, subst.map))
        ELSE \A g \in choices : ~Solves(g, unified)
=============================================================================
