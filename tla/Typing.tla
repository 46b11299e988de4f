------------------------------- MODULE Typing -------------------------------
(***************************************************************************)
(* Type inference of expressions and statements (types/infer/): what         *)
(* infer_expr, infer_expr_expected and infer_stmt do to the substitution,    *)
(* the environment, the levels and the stacks of loops and functions, with   *)
(* the tracking of mutable bindings and places.  Unify is Unification's.     *)
(*                                                                         *)
(* Traits, and with them receivers, operators and dictionaries, are those of *)
(* Dictionaries; a `for` whose collection is not yet known is refused here.  *)
(*                                                                         *)
(* The state of Infer is a substitution with more fields: env maps a name to *)
(* its scheme and to whether the name may be assigned and what it holds may  *)
(* be changed; level is the current one and levels has the level at which    *)
(* each variable was made; breaks and returns are the types that the         *)
(* enclosing loops and functions expect; fresh are the calls that return a   *)
(* fresh mutable place; ty is the type of the last expression.               *)
(***************************************************************************)
EXTENDS Unification

TNever == TCon("never")
TUnit  == Closed
TArray(t) == TApp(TCon("Array"), <<t>>)
TRange    == TApp(TCon("Range"), <<TInt>>)

NoTy   == [ty |-> "none"]       \* no annotation
NoName == ""                    \* neither a name nor an expression
NoExpr == [e |-> "none"]

Mono(t) == [vars |-> {}, ty |-> t]
Info(scheme, binding, place) == [scheme |-> scheme, binding |-> binding, place |-> place]
Immutable(scheme) == Info(scheme, FALSE, FALSE)

\* The constructors of the prelude's Option, for the one variable numbered 1.
Constructors ==
    ("Some" :> Immutable([vars |-> {1}, ty |-> TFunc(<<TVar(1)>>, <<FALSE, FALSE>>, TOption(TVar(1)))]))
    @@ ("None" :> Immutable([vars |-> {1}, ty |-> TOption(TVar(1))]))

NewInfer ==
    [map |-> <<>>, next |-> 2, ok |-> TRUE, env |-> Constructors, level |-> 0, levels |-> <<>>,
     breaks |-> <<>>, returns |-> <<>>, fresh |-> {}, ty |-> TUnit]

Typed(st, t) == [st EXCEPT !.ty = t]
AndThen(st, Op(_)) == IF st.ok THEN Op(st) ELSE st
Require(st, cond) == IF cond THEN st ELSE Failed(st)
Applied(st, t) == ApplySubst(st.map, t)

-----------------------------------------------------------------------------
(* Variables, levels and schemes.                                            *)

FreshVars(st, n) ==
    [st EXCEPT !.next = @ + n, !.levels = [v \in st.next .. (st.next + n - 1) |-> st.level] @@ @]

\* A variable keeps the level at which it was made.
LevelOf_NeverLowered(st, v) == IF v \in DOMAIN st.levels THEN st.levels[v] ELSE 0

\* bind_ty lowers the variables of what it binds: a variable has the lowest level
\* of those that were solved with it.  A tail that unify_rows makes is at the root.
LevelOf(st, v) ==
    IF v \notin DOMAIN st.levels THEN 0
    ELSE Min({st.levels[u] : u \in {w \in DOMAIN st.levels : v \in FreeTypeVars(Applied(st, TVar(w)))}})

GeneralizeAt(st, t, ambient) ==
    LET applied == Applied(st, t)
    IN  [vars |-> {v \in FreeTypeVars(applied) : LevelOf(st, v) > ambient}, ty |-> applied]

InstantiateScheme(st, scheme) ==
    LET vs == SetToSortSeq(scheme.vars, <)
        renaming == [v \in scheme.vars |-> TVar(st.next + (CHOOSE i \in DOMAIN vs : vs[i] = v) - 1)]
    IN  Typed(FreshVars(st, Len(vs)), ApplySubst(renaming, scheme.ty))

EnvFreeVars(st) ==
    UNION {UNION {FreeTypeVars(Applied(st, TVar(v))) : v \in FreeTypeVars(i.scheme.ty) \ i.scheme.vars}
              : i \in Range(st.env)}

BindName(st, name, info) == [st EXCEPT !.env = (name :> info) @@ @]

\* An expression that leaves has no type of its own.
UnifyExprResult(st, actual, expected) ==
    IF Applied(st, actual) = TNever THEN st ELSE UnifyTypes(st, actual, expected)

CombineBranches(st, left, right) ==
    LET l == Applied(st, left)  r == Applied(st, right)
    IN  IF l = TNever THEN Typed(st, r)
        ELSE IF r = TNever THEN Typed(st, l)
        ELSE LET s == UnifyTypes(st, l, r) IN Typed(s, Applied(s, l))

-----------------------------------------------------------------------------
(* What the syntax alone says of an expression.                              *)

RECURSIVE IsValue(_)
IsValue(e) ==
    \/ e.e \in {"int", "bool", "unit", "var", "lambda"}
    \/ e.e = "tuple" /\ \A i \in DOMAIN e.items : IsValue(e.items[i])
    \/ e.e \in {"array", "record"} /\ \A i \in DOMAIN e.entries : IsValue(e.entries[i].of)

\* A literal all the way down: a record must not hold what a name refers to, an
\* array may, since what is taken out of it is not a mutable place.
RECURSIVE FreshComponent_NamedFields(_)
FreshComponent_NamedFields(e) ==
    \/ e.e \in {"int", "bool", "unit", "lambda", "var"}
    \/ e.e = "tuple" /\ \A i \in DOMAIN e.items : FreshComponent_NamedFields(e.items[i])
    \/ e.e \in {"record", "array"} /\ \A i \in DOMAIN e.entries : FreshComponent_NamedFields(e.entries[i].of)

RECURSIVE FreshComponent(_)
FreshElement(e) == e.e = "var" \/ FreshComponent(e)
FreshComponent(e) ==
    \/ e.e \in {"int", "bool", "unit", "lambda"}
    \/ e.e = "tuple" /\ \A i \in DOMAIN e.items : FreshComponent(e.items[i])
    \/ e.e = "record" /\ \A i \in DOMAIN e.entries : FreshComponent(e.entries[i].of)
    \/ e.e = "array" /\ \A i \in DOMAIN e.entries : FreshElement(e.entries[i].of)

RECURSIVE FreshPlace(_, _)
FreshPlace(e, calls) ==
    \/ e \in calls
    \/ e.e \in {"array", "record"} /\ FreshComponent(e)
    \/ e.e = "tuple" /\ \A i \in DOMAIN e.items : FreshPlace(e.items[i], calls)
    \/ e.e = "record" /\ \A i \in DOMAIN e.entries : FreshPlace(e.entries[i].of, calls)
    \/ e.e = "array" /\ \A i \in DOMAIN e.entries :
                           e.entries[i].of.e = "var" \/ FreshPlace(e.entries[i].of, calls)
    \/ e.e = "if" /\ FreshPlace(e.then, calls) /\ FreshPlace(e.else, calls)
    \/ e.e = "match" /\ \A i \in DOMAIN e.arms : FreshPlace(e.arms[i].body, calls)
    \/ e.e = "block" /\ e.final # NoExpr /\ FreshPlace(e.final, calls)

\* The name at the base of a chain of fields.
RECURSIVE AssignmentBase(_)
AssignmentBase(e) ==
    IF e.e = "var" THEN e.name ELSE IF e.e = "field" THEN AssignmentBase(e.of) ELSE NoName

MutablePlace(st, e) ==
    \/ FreshPlace(e, st.fresh)
    \/ AssignmentBase(e) \in DOMAIN st.env /\ st.env[AssignmentBase(e)].place

\* A loop counts as leaving when its body returns; jumps: whether break and continue do.
RECURSIVE AlwaysExits(_, _)
StmtAlwaysExits(s, jumps) == s.s \in {"expr", "let"} /\ AlwaysExits(s.value, jumps)
AlwaysExits(e, jumps) ==
    LET Exits(x) == AlwaysExits(x, jumps)
    IN  CASE e.e = "return" -> TRUE
          [] e.e \in {"break", "continue"} -> jumps
          [] e.e \in {"not", "field"} -> Exits(e.of)
          [] e.e = "pipe" -> Exits(e.left) \/ Exits(e.right)
          [] e.e = "assign" -> Exits(e.target) \/ Exits(e.value)
          [] e.e = "call" -> Exits(e.callee) \/ \E i \in DOMAIN e.args : Exits(e.args[i])
          [] e.e = "tuple" -> \E i \in DOMAIN e.items : Exits(e.items[i])
          [] e.e \in {"array", "record"} -> \E i \in DOMAIN e.entries : Exits(e.entries[i].of)
          [] e.e = "if" -> Exits(e.cond) \/ (Exits(e.then) /\ Exits(e.else))
          [] e.e = "match" -> Exits(e.of) \/ (e.arms # <<>> /\ \A i \in DOMAIN e.arms : Exits(e.arms[i].body))
          [] e.e = "block" -> \/ \E i \in DOMAIN e.stmts : StmtAlwaysExits(e.stmts[i], jumps)
                              \/ e.final # NoExpr /\ Exits(e.final)
          [] e.e = "loop" -> AlwaysExits(e.body, FALSE)
          [] e.e = "for" -> Exits(e.of)
          [] OTHER -> FALSE

-----------------------------------------------------------------------------
(* Patterns.                                                                 *)

RECURSIVE Irrefutable(_)
Irrefutable(p) ==
    \/ p.p \in {"wild", "bind", "record"}
    \/ p.p = "tuple" /\ \A i \in DOMAIN p.pats : Irrefutable(p.pats[i])

\* Patterns decides this for every type; here the arms distinguish one constructor.
Exhaustive(arms) ==
    LET pats == {arms[i].pat : i \in DOMAIN arms}
        Some(p) == p.p = "some" /\ Irrefutable(p.of)
    IN  \/ \E p \in pats : Irrefutable(p)
        \/ [p |-> "none"] \in pats /\ \E p \in pats : Some(p)
        \/ {[p |-> "bool", b |-> TRUE], [p |-> "bool", b |-> FALSE]} \subseteq pats

RECURSIVE CheckPattern(_, _, _, _)
CheckEach(st, pats, ts, mutable) ==
    FoldLeft(LAMBDA s, i : AndThen(s, LAMBDA o : CheckPattern(o, pats[i], Applied(o, ts[i]), mutable)),
             st, [i \in DOMAIN pats |-> i])

CheckPattern(st, p, t, mutable) ==
    LET Named(s, name, u) == BindName(s, name, Info(Mono(u), mutable, FALSE))
        Var(i) == TVar(st.next + i)
    IN  CASE p.p = "wild" -> st
          [] p.p = "bool" -> UnifyTypes(st, t, TBool)
          [] p.p = "bind" -> Named(st, p.name, t)
          [] p.p = "none" -> UnifyTypes(FreshVars(st, 1), t, TOption(Var(0)))
          [] p.p = "some" -> AndThen(UnifyTypes(FreshVars(st, 1), t, TOption(Var(0))),
                                  LAMBDA s : CheckPattern(s, p.of, Var(0), mutable))
          [] p.p = "tuple" ->
               LET ts == [i \in DOMAIN p.pats |-> Var(i - 1)]
               IN  AndThen(UnifyTypes(FreshVars(st, Len(ts)), t, TTuple(ts)),
                        LAMBDA s : CheckEach(s, p.pats, ts, mutable))
          [] p.p = "list" ->
               AndThen(UnifyTypes(FreshVars(st, 1), t, TArray(Var(0))), LAMBDA s :
                 AndThen(CheckEach(s, p.pats, [i \in DOMAIN p.pats |-> Var(0)], mutable), LAMBDA o :
                   IF p.rest \in {NoName, "_"} THEN o ELSE Named(o, p.rest, TArray(Var(0)))))
          [] p.p = "record" ->
               LET fs   == [i \in DOMAIN p.fields |-> <<p.fields[i][1], Var(i)>>]
                   tail == IF p.rest = NoName THEN Closed ELSE Var(0)
                   st1  == UnifyTypes(FreshVars(st, 1 + Len(fs)), t, TRecord(SortedFields(fs), tail))
                   named == FoldLeft(LAMBDA s, i : Named(s, p.fields[i][2], Applied(s, fs[i][2])),
                                     st1, [i \in DOMAIN fs |-> i])
               IN  IF p.rest \in {NoName, "_"} \/ ~st1.ok THEN named
                   ELSE Named(named, p.rest, Applied(named, Var(0)))

CheckParamPattern(st, param, t) ==
    IF ~param.mut THEN CheckPattern(st, param.pat, t, FALSE)
    ELSE IF param.pat.p # "bind" THEN Failed(st)
    ELSE BindName(st, param.pat.name, Info(Mono(t), FALSE, TRUE))

RECURSIVE PatternNames(_)
PatternNames(p) ==
    CASE p.p = "bind" -> {p.name}
      [] p.p = "some" -> PatternNames(p.of)
      [] p.p = "tuple" -> UNION {PatternNames(q) : q \in Range(p.pats)}
      [] p.p = "list" -> UNION {PatternNames(q) : q \in Range(p.pats)} \union ({p.rest} \ {NoName, "_"})
      [] p.p = "record" -> {p.fields[i][2] : i \in DOMAIN p.fields} \union ({p.rest} \ {NoName, "_"})
      [] OTHER -> {}

-----------------------------------------------------------------------------
(* Expressions.                                                              *)

RECURSIVE Infer(_, _), InferExpected(_, _, _), InferStmt(_, _), InferStmts(_, _)

\* Each expression in turn: the state after them and the types they had.
InferAll(es, st, Each(_, _, _)) ==
    FoldLeft(LAMBDA acc, i :
                 IF ~acc.st.ok THEN acc
                 ELSE LET s == Each(es[i], acc.st, i) IN [st |-> s, tys |-> Append(acc.tys, s.ty)],
             [st |-> st, tys |-> <<>>], [i \in DOMAIN es |-> i])

\* expected: the type the surroundings ask for, or NoTy.
InferArray(entries, st, expected) ==
    LET known   == expected.ty = "app" /\ expected.con = TCon("Array")
        started == IF known THEN st ELSE FreshVars(st, 1)
        element == IF known THEN expected.args[1] ELSE TVar(st.next)
        Entry(s, entry) ==
            LET wanted == IF entry.spread THEN TArray(element) ELSE element
                after  == IF known THEN InferExpected(entry.of, s, wanted) ELSE Infer(entry.of, s)
            IN  AndThen(after, LAMBDA o : UnifyTypes(o, wanted, o.ty))
        all == FoldLeft(LAMBDA s, entry : AndThen(s, LAMBDA o : Entry(o, entry)), started, entries)
        fit == IF expected = NoTy THEN all ELSE AndThen(all, LAMBDA o : UnifyTypes(o, TArray(element), expected))
    IN  Typed(fit, Applied(fit, TArray(element)))

\* fs and tail: the fields and the tail so far.  Only known fields can be repeated.
InferRecord(entries, st) ==
    LET Merge(acc, s, fs) ==
            IF ~s.ok \/ \E f \in Range(fs), g \in Range(acc.fs) : f[1] = g[1]
            THEN [acc EXCEPT !.st = Failed(s)]
            ELSE [acc EXCEPT !.st = s, !.fs = @ \o fs]
        Tails(acc, tail) ==
            LET old == Applied(acc.st, acc.tail)  new == Applied(acc.st, tail)
            IN  IF old = Closed THEN [acc EXCEPT !.tail = new]
                ELSE IF new \in {Closed, old} THEN acc
                ELSE LET s == UnifyTypes(acc.st, old, new)
                     IN  [acc EXCEPT !.st = s, !.tail = Applied(s, old)]
        Entry(acc, entry) ==
            LET s == Infer(entry.of, acc.st)
                spread == UnifyTypes(FreshVars(s, 1), s.ty, TRecord(<<>>, TVar(s.next)))
                row == Applied(spread, s.ty)
                merged == Merge(acc, spread, row.fields)
            IN  IF ~s.ok THEN [acc EXCEPT !.st = s]
                ELSE IF ~entry.spread THEN Merge(acc, s, <<<<entry.name, s.ty>>>>)
                ELSE IF ~spread.ok THEN [acc EXCEPT !.st = spread]
                ELSE IF ~merged.st.ok THEN merged
                ELSE Tails(merged, row.tail)
        done == FoldLeft(LAMBDA acc, entry : IF acc.st.ok THEN Entry(acc, entry) ELSE acc,
                         [st |-> st, fs |-> <<>>, tail |-> Closed], entries)
    IN  Typed(done.st, TRecord(SortedFields(done.fs), done.tail))

\* The checks that a function's parameters go through, in its child level; expected
\* is the function type asked for, or NoTy.
InferParams(params, st, expected) ==
    FoldLeft(LAMBDA acc, i :
        LET param  == params[i]
            wanted == IF expected = NoTy THEN NoTy ELSE expected.params[i]
            asked  == CASE param.ty # NoTy /\ wanted # NoTy -> Typed(UnifyTypes(acc.st, param.ty, wanted), param.ty)
                        [] param.ty # NoTy /\ wanted = NoTy -> Typed(acc.st, param.ty)
                        [] param.ty = NoTy /\ wanted # NoTy -> Typed(acc.st, wanted)
                        [] OTHER -> Typed(FreshVars(acc.st, 1), TVar(acc.st.next))
            refused == \/ ~Irrefutable(param.pat)
                       \/ expected # NoTy /\ expected.capabilities[i] # param.mut
        IN  IF ~acc.st.ok \/ refused THEN [acc EXCEPT !.st = Failed(@)]
            ELSE [st |-> AndThen(asked, LAMBDA s : CheckParamPattern(s, param, s.ty)),
                  tys |-> Append(acc.tys, asked.ty)],
        [st |-> st, tys |-> <<>>], [i \in DOMAIN params |-> i])

\* The body against the result type, in the scope of its own return.
InferBody(body, st, ret, fresh, expecting) ==
    LET inside == [st EXCEPT !.returns = Append(@, [ty |-> ret, fresh |-> fresh])]
        after  == IF expecting THEN InferExpected(body, inside, ret) ELSE Infer(body, inside)
        fit    == AndThen(after, LAMBDA s : UnifyExprResult(s, s.ty, ret))
        leaves == Applied(fit, after.ty) = TNever
    IN  [Require(fit, ~fresh \/ leaves \/ FreshPlace(body, fit.fresh)) EXCEPT !.returns = st.returns]

Capabilities(params, fresh) == Append([i \in DOMAIN params |-> params[i].mut], fresh)

InferLambda(e, st, expected) ==
    LET child  == [st EXCEPT !.level = @ + 1]
        params == InferParams(e.params, child, expected)
        fresh  == expected # NoTy /\ Last(expected.capabilities)
        asked  == CASE e.ret # NoTy /\ expected # NoTy ->
                         Typed(UnifyTypes(params.st, e.ret, expected.ret), e.ret)
                    [] e.ret # NoTy /\ expected = NoTy -> Typed(params.st, e.ret)
                    [] e.ret = NoTy /\ expected # NoTy -> Typed(params.st, expected.ret)
                    [] OTHER -> Typed(FreshVars(params.st, 1), TVar(params.st.next))
        done == AndThen(asked, LAMBDA s : InferBody(e.body, s, asked.ty, fresh, expected # NoTy))
    IN  IF expected # NoTy /\ Len(expected.params) # Len(e.params) THEN Failed(st)
        ELSE Typed([done EXCEPT !.env = st.env, !.level = st.level],
                   Applied(done, TFunc(params.tys, Capabilities(e.params, fresh), asked.ty)))

\* A lambda among the arguments is inferred against its parameter; an argument must
\* not hide that it changes what it is given.
InferArgs(args, st, callable) ==
    InferAll(args, st, LAMBDA arg, s, i :
        LET known == callable.ty = "func" /\ i \in DOMAIN callable.params
            after == IF known /\ arg.e = "lambda" THEN InferExpected(arg, s, callable.params[i]) ELSE Infer(arg, s)
            t     == Applied(after, after.ty)
        IN  Require(Typed(after, t), ~(t.ty = "func" /\ TRUE \in Range(Front(t.capabilities)))))

InferCall(e, st) ==
    LET callee   == Infer(e.callee, st)
        callable == Applied(callee, callee.ty)
        known    == callable.ty = "func"
        args     == InferArgs(e.args, callee, callable)
        placed   == ~known \/ \A i \in DOMAIN e.args :
                                 i \in DOMAIN callable.params /\ callable.capabilities[i]
                                     => MutablePlace(args.st, e.args[i])
        fits     == ~known \/ Len(callable.params) = Len(e.args)
        caps     == IF known THEN callable.capabilities ELSE [i \in 1 .. (Len(e.args) + 1) |-> FALSE]
        ready    == FreshVars(args.st, 1)
        ret      == TVar(args.st.next)
        called   == UnifyTypes(ready, callable, TFunc(args.tys, caps, ret))
        marked   == IF known /\ Last(caps) THEN [called EXCEPT !.fresh = @ \union {e}] ELSE called
    IN  IF ~callee.ok THEN callee
        ELSE IF ~args.st.ok \/ ~placed \/ ~fits THEN Failed(args.st)
        ELSE Typed(marked, Applied(marked, ret))

InferPipe(e, st) ==
    LET left  == Infer(e.left, st)
        right == AndThen(left, LAMBDA s : Infer(e.right, s))
        ready == FreshVars(right, 1)
        ret   == TVar(right.next)
        done  == UnifyTypes(ready, right.ty, TFunc(<<left.ty>>, <<FALSE, FALSE>>, ret))
    IN  IF right.ok THEN Typed(done, Applied(done, ret)) ELSE right

\* What an assignment changes: a name declared mutable, or a field of a mutable place.
AssignmentTarget(target, st) ==
    IF AssignmentBase(target) \notin DOMAIN st.env THEN Failed(st)
    ELSE IF target.e = "var" THEN
        IF st.env[target.name].binding THEN InstantiateScheme(st, st.env[target.name].scheme) ELSE Failed(st)
    ELSE IF st.env[AssignmentBase(target)].place THEN Infer(target, st) ELSE Failed(st)

InferAssign(e, st) ==
    LET target == AssignmentTarget(e.target, st)
        value  == AndThen(target, LAMBDA s : Infer(e.value, s))
    IN  Typed(AndThen(value, LAMBDA s : UnifyTypes(s, target.ty, s.ty)), TUnit)

\* The body of a branch, of which a type may be expected: at most one in `wanted`.
InferBranch(e, st, wanted) ==
    IF wanted = <<>> THEN Infer(e, st) ELSE InferExpected(e, st, Head(wanted))

InferMatch(e, st, wanted) ==
    LET of == Infer(e.of, st)
        Combined(acc, i) ==
            LET inside == CheckPattern(acc.st, e.arms[i].pat, Applied(acc.st, of.ty), FALSE)
                body   == AndThen(inside, LAMBDA s : InferBranch(e.arms[i].body, s, wanted))
                whole  == IF i = 1 \/ ~body.ok THEN body ELSE CombineBranches(body, acc.ty, body.ty)
            IN  [st |-> [whole EXCEPT !.env = of.env], ty |-> whole.ty]
        arms == FoldLeft(LAMBDA acc, i : IF acc.st.ok THEN Combined(acc, i) ELSE acc,
                         [st |-> of, ty |-> TNever], [i \in DOMAIN e.arms |-> i])
    IN  Typed(Require(arms.st, Exhaustive(e.arms)), arms.ty)

InferIf(e, st, wanted) ==
    LET cond == AndThen(Infer(e.cond, st), LAMBDA s : UnifyTypes(s, s.ty, TBool))
        then == AndThen(cond, LAMBDA s : InferBranch(e.then, s, wanted))
        else == AndThen(then, LAMBDA s : InferBranch(e.else, s, wanted))
    IN  IF else.ok THEN CombineBranches(else, then.ty, else.ty) ELSE else

InLoop(st, t, body) ==
    [Infer(body, [st EXCEPT !.breaks = Append(@, t)]) EXCEPT !.breaks = st.breaks]

\* The collection must be an application of a known type that implements Iterable.
InferFor(e, st) ==
    LET of     == Infer(e.of, st)
        target == TVar(of.next)
        elem   == TVar(of.next + 1)
        iter   == UnifyTypes(FreshVars(of, 2), of.ty, TApp(target, <<elem>>))
        known  == Require(iter, Applied(iter, target) \in {TCon("Array"), TCon("Range")})
        inside == AndThen(known, LAMBDA s : CheckPattern(s, e.pat, Applied(s, elem), FALSE))
        done   == AndThen(inside, LAMBDA s : InLoop(s, TUnit, e.body))
    IN  IF of.ok THEN Typed([done EXCEPT !.env = st.env], TUnit) ELSE of

\* break and return: the value against what the loop or the function expects.
InferLeave(e, st, expected) ==
    Typed(IF e.value = NoExpr THEN UnifyTypes(st, expected, TUnit)
          ELSE AndThen(Infer(e.value, st), LAMBDA s : UnifyExprResult(s, s.ty, expected)), TNever)

InferReturn(e, st) ==
    LET ret  == Last(st.returns)
        done == InferLeave(e, st, ret.ty)
    IN  Require(done, ret.fresh /\ e.value # NoExpr => FreshPlace(e.value, done.fresh))

\* After a statement that always leaves, nothing more is looked at.
InferStmts(e, st) ==
    LET leaving == {i \in DOMAIN e.stmts : StmtAlwaysExits(e.stmts[i], TRUE)}
        seen    == IF leaving = {} THEN e.stmts ELSE SubSeq(e.stmts, 1, Min(leaving))
        after   == FoldLeft(LAMBDA s, x : AndThen(s, LAMBDA o : InferStmt(x, o)), st, seen)
    IN  CASE ~after.ok -> after
          [] after.ok /\ leaving # {} -> Typed(FreshVars(after, 1), TVar(after.next))
          [] OTHER -> IF e.final = NoExpr THEN Typed(after, TUnit) ELSE Infer(e.final, after)

Infer(e, st) ==
    CASE e.e = "int" -> Typed(st, TInt)
      [] e.e = "bool" -> Typed(st, TBool)
      [] e.e = "unit" -> Typed(st, TUnit)
      [] e.e = "var" -> IF e.name \in DOMAIN st.env THEN InstantiateScheme(st, st.env[e.name].scheme) ELSE Failed(st)
      [] e.e = "not" -> Typed(AndThen(Infer(e.of, st), LAMBDA s : UnifyTypes(s, s.ty, TBool)), TBool)
      [] e.e = "tuple" -> LET all == InferAll(e.items, st, LAMBDA x, s, i : Infer(x, s))
                          IN  Typed(all.st, TTuple(all.tys))
      [] e.e = "array" -> InferArray(e.entries, st, NoTy)
      [] e.e = "record" -> InferRecord(e.entries, st)
      [] e.e = "field" -> AndThen(Infer(e.of, st), LAMBDA s :
             Typed(UnifyTypes(FreshVars(s, 2), s.ty, TRecord(<<<<e.name, TVar(s.next)>>>>, TVar(s.next + 1))),
                   TVar(s.next)))
      [] e.e = "range" -> Typed(AndThen(AndThen(Infer(e.from, st), LAMBDA s : UnifyTypes(s, s.ty, TInt)), LAMBDA s :
             AndThen(Infer(e.until, s), LAMBDA o : UnifyTypes(o, o.ty, TInt))), TRange)
      [] e.e = "lambda" -> InferLambda(e, st, NoTy)
      [] e.e = "call" -> InferCall(e, st)
      [] e.e = "pipe" -> InferPipe(e, st)
      [] e.e = "assign" -> InferAssign(e, st)
      [] e.e = "if" -> InferIf(e, st, <<>>)
      [] e.e = "match" -> InferMatch(e, st, <<>>)
      [] e.e = "loop" -> Typed(InLoop(FreshVars(st, 1), TVar(st.next), e.body), TVar(st.next))
      [] e.e = "for" -> InferFor(e, st)
      [] e.e = "break" -> IF st.breaks = <<>> THEN Failed(st) ELSE InferLeave(e, st, Last(st.breaks))
      [] e.e = "continue" -> Typed(Require(st, st.breaks # <<>>), TNever)
      [] e.e = "return" -> IF st.returns = <<>> THEN Failed(st) ELSE InferReturn(e, st)
      [] e.e = "block" -> [InferStmts(e, st) EXCEPT !.env = st.env]

InferExpected(e, st, wanted) ==
    LET expected == Applied(st, wanted)
        Fit(s) == Typed(UnifyTypes(s, s.ty, expected), Applied(UnifyTypes(s, s.ty, expected), expected))
    IN  CASE e.e = "array" -> InferArray(e.entries, st, expected)
          [] e.e = "if" -> AndThen(InferIf(e, st, <<expected>>), Fit)
          [] e.e = "match" -> AndThen(InferMatch(e, st, <<expected>>), Fit)
          [] e.e = "lambda" /\ expected.ty = "func" -> InferLambda(e, st, expected)
          [] OTHER -> AndThen(Infer(e, st), LAMBDA s :
                 LET fit == UnifyExprResult(s, s.ty, expected) IN Typed(fit, Applied(fit, expected)))

-----------------------------------------------------------------------------
(* Statements.                                                               *)

\* Inferred before the function is bound, in a child level, with the function's own
\* name for its recursive calls.
InferFn(s, st) ==
    LET params == InferParams(s.params, [st EXCEPT !.level = @ + 1], NoTy)
        asked  == IF s.ret # NoTy THEN Typed(params.st, s.ret)
                  ELSE Typed(FreshVars(params.st, 1), TVar(params.st.next))
        fnTy   == TFunc(params.tys, Capabilities(s.params, s.fresh), asked.ty)
        done   == AndThen(BindName(asked, s.name, Immutable(Mono(fnTy))), LAMBDA o :
                      InferBody(s.body, o, asked.ty, s.fresh, s.ret # NoTy))
        left   == [done EXCEPT !.env = st.env, !.level = st.level]
    IN  IF done.ok THEN BindName(left, s.name, Immutable(GeneralizeAt(left, fnTy, st.level))) ELSE left

\* A destructuring let generalizes its names against the environment as it was.
GeneralizeNames(st, pat, envVars) ==
    FoldSet(LAMBDA name, s :
                LET t == Applied(s, s.env[name].scheme.ty)
                IN  BindName(s, name, [s.env[name] EXCEPT !.scheme = [vars |-> FreeTypeVars(t) \ envVars, ty |-> t]]),
            st, PatternNames(pat))

InferLet(s, st) ==
    LET generalizable == ~s.mut /\ IsValue(s.value)
        child == IF generalizable THEN [st EXCEPT !.level = @ + 1] ELSE st
        value == IF s.ty = NoTy THEN Infer(s.value, child)
                 ELSE AndThen(InferExpected(s.value, child, s.ty), LAMBDA o :
                          Typed(UnifyExprResult(o, o.ty, s.ty), s.ty))
        after == [value EXCEPT !.level = st.level]
        scheme == IF generalizable THEN GeneralizeAt(after, after.ty, st.level) ELSE Mono(after.ty)
        bound == CheckPattern(after, s.pat, after.ty, s.mut)
    IN  IF ~after.ok \/ ~Irrefutable(s.pat) THEN Failed(after)
        ELSE IF s.pat.p = "bind"
             THEN BindName(after, s.pat.name, Info(scheme, s.mut, s.mut /\ FreshPlace(s.value, after.fresh)))
        ELSE IF generalizable /\ bound.ok THEN GeneralizeNames(bound, s.pat, EnvFreeVars(st))
        ELSE bound

InferStmt(s, st) ==
    CASE s.s = "let" -> Typed(InferLet(s, st), TUnit)
      [] s.s = "fn" -> Typed(InferFn(s, st), TUnit)
      [] s.s = "expr" -> Infer(s.value, st)
=============================================================================
