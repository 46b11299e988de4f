---------------------------- MODULE Dictionaries ----------------------------
(***************************************************************************)
(* How a trait constraint becomes a dictionary (types/infer: dicts.rs,      *)
(* funcs.rs, rec_blocks.rs, walkers.rs, schemes.rs, calls; codegen/lua.rs). *)
(* A function takes one dictionary parameter for every constraint it owns,  *)
(* before its own parameters, and every call passes the dictionaries that   *)
(* the instantiated constraints ask for.  What is not known yet stays       *)
(* pending at the use and is resolved when the function, or at last the     *)
(* program, is complete.                                                   *)
(*                                                                         *)
(* Programs are groups of functions and then statements.  A body is the     *)
(* sequence of its uses of trait methods, ==, calls and nested functions:   *)
(* its result does not matter.  Traits have one parameter; impls are for a  *)
(* constructor, perhaps under conditions on its argument.                   *)
(***************************************************************************)
EXTENDS Unification

CONSTANTS
    DictPrograms,   \* the programs: [groups, main]
    Impls,          \* <<trait, constructor>> |-> the traits asked of the argument
    MaxCallDepth,   \* bound on nested calls at run time: deeper ones are not followed
    Definitions(_, _, _), Uses(_, _, _)   \* the inference of groups and of uses: InferGroup, InferUses

VARIABLES
    untyped,        \* what is still to be inferred: [groups, main]
    infer,          \* the state of inference: a substitution with the pending constraints
    schemes,        \* the environment: name |-> [vars, constraints, type]
    emitted,        \* the groups and statements with their dictionaries: [groups, main]
    outcome         \* "none", then "rejected", or "right" or "wrong" after the run

dictionaryVars == <<untyped, infer, schemes, emitted, outcome>>

-----------------------------------------------------------------------------
(* Programs.                                                                 *)

Param(x)         == [arg |-> "param", name |-> x]
Literal(t)       == [arg |-> "literal", type |-> t]
SomeOf(e)        == [arg |-> "some", of |-> e]
PairOf(e1, e2)   == [arg |-> "pair", of |-> <<e1, e2>>]
FnValue(f)       == [arg |-> "fn", name |-> f]

MethodUse(trait, e) == [use |-> "method", trait |-> trait, of |-> e]
EqualUse(e1, e2)    == [use |-> "equal", left |-> e1, right |-> e2]
CallUse(f, args)    == [use |-> "call", callee |-> f, args |-> args]
FnUse(fn)           == [use |-> "fn", fn |-> fn]

\* params: <<name, annotation>>; bounds: <<trait, variable>>.  The variables that a
\* program writes in annotations are below zero; a parameter without an annotation
\* has one of its own.
Fn(name, params, bounds, body) ==
    [name |-> name, params |-> params, bounds |-> bounds, body |-> body]

Constraint(var, trait, arg) == [var |-> var, trait |-> trait, arg |-> arg]
Mono(t) == [vars |-> {}, constraints |-> <<>>, type |-> t]
ValueFunc(params, ret) == TFunc(params, [i \in 1..(Len(params) + 1) |-> FALSE], ret)

-----------------------------------------------------------------------------
(* Dictionaries: a parameter of an enclosing function, that of an impl with  *)
(* those it is applied to, or the structural equality of a tuple.            *)

DictParam(c)       == [dict |-> "param", name |-> <<c.trait, c.var, c.arg>>]
ImplDict(key, ds)  == [dict |-> "impl", impl |-> key, args |-> ds]
TupleDict(ds)      == [dict |-> "tuple", args |-> ds]
NoDict             == [dict |-> "none"]

Head_Of(t) ==
    CASE t.ty = "con" -> t.name
      [] t.ty = "app" /\ t.con.ty = "con" -> t.con.name
      [] OTHER -> "none"

AllOrNone(ds, dict) == IF NoDict \in Range(ds) THEN NoDict ELSE dict

\* resolve_concrete_multi_dict_ref: the conditions of an impl are answered by impls only.
RECURSIVE ResolveImpl(_, _)
ResolveImpl(trait, t) ==
    LET key == <<trait, Head_Of(t)>>
        ds  == [i \in DOMAIN Impls[key] |->
                   IF FreeTypeVars(t.args[1]) # {} THEN NoDict ELSE ResolveImpl(Impls[key][i], t.args[1])]
    IN  IF key \in DOMAIN Impls THEN AllOrNone(ds, ImplDict(key, ds)) ELSE NoDict

\* resolve_concrete_dict_ref: the equality of a tuple is that of its parts.
RECURSIVE ResolveConcrete(_, _)
ResolveConcrete(trait, t) ==
    LET ds == [i \in DOMAIN t.items |-> ResolveConcrete("Eq", t.items[i])]
    IN  IF trait = "Eq" /\ t.ty = "tuple" THEN AllOrNone(ds, TupleDict(ds)) ELSE ResolveImpl(trait, t)

Concrete(map, c) == ResolveConcrete(c.trait, ApplySubst(map, c.arg))

Normalized(map, c) ==
    LET t == ApplySubst(map, TVar(c.var))
    IN  Constraint(IF t.ty = "var" THEN t.var ELSE c.var, c.trait, ApplySubst(map, c.arg))

\* A pending use takes a dictionary parameter of its function, or a concrete one.
LocalOrConcrete(map, owned, p) ==
    LET same == SelectSeq(owned, LAMBDA c : c.trait = p.trait
                                            /\ ApplySubst(map, c.arg) = ApplySubst(map, p.arg))
    IN  IF ApplySubst(map, TVar(p.var)).ty = "var" /\ same # <<>> THEN DictParam(Head(same))
        ELSE Concrete(map, p)

-----------------------------------------------------------------------------
(* Inference of uses.  s is a substitution with the constraints collected so *)
(* far; an argument gives its type and the constraints of its Qualified.     *)

Require(s, c) == [s EXCEPT !.constraints = Append(@, c)]

WithFreshVars(s, scheme) ==
    LET fresh == [v \in scheme.vars |-> TVar(s.next + Cardinality({u \in scheme.vars : u < v}))]
        Inst(c) == IF c.var \in scheme.vars
                   THEN Constraint(fresh[c.var].var, c.trait, ApplySubst(fresh, c.arg)) ELSE c
    IN  [s |-> [s EXCEPT !.next = @ + Cardinality(scheme.vars)],
         type |-> ApplySubst(fresh, scheme.type),
         constraints |-> [i \in DOMAIN scheme.constraints |-> Inst(scheme.constraints[i])]]

NoDicts == [dict_args |-> <<>>, pending |-> <<>>, mixed |-> FALSE]

\* attach_dict_args: concrete dictionaries go to the arguments at once, the others
\* wait.  mixed: a concrete one overtook one that waits.
AttachDictArgs(s, constraints) ==
    FoldLeft(LAMBDA acc, c :
        LET t == ApplySubst(acc.s.map, TVar(c.var))
            d == Concrete(acc.s.map, c)
            p == Constraint(t.var, c.trait, ApplySubst(acc.s.map, c.arg))
        IN  IF ~acc.s.ok THEN acc
            ELSE IF t.ty = "var"
            THEN [acc EXCEPT !.s = Require(@, p), !.pending = Append(@, p)]
            ELSE IF d = NoDict THEN [acc EXCEPT !.s = Failed(@)]
            ELSE [acc EXCEPT !.dict_args = Append(@, d),
                             !.mixed = @ \/ acc.pending # <<>>],
        [s |-> s] @@ NoDicts, constraints)

DictsOf(acc) == [dict_args |-> acc.dict_args, pending |-> acc.pending, mixed |-> acc.mixed]

RECURSIVE InferArg(_, _, _)
InferArg(s, env, e) ==
    LET Plain(s1, t) == [s |-> s1, type |-> t, constraints |-> <<>>]
    IN  CASE e.arg = "literal" -> Plain(s, e.type)
          [] e.arg = "some" ->
               LET r == InferArg(s, env, e.of) IN Plain(r.s, TOption(r.type))
          [] e.arg = "pair" ->
               LET r1 == InferArg(s, env, e.of[1])
                   r2 == InferArg(r1.s, env, e.of[2])
               IN  Plain(r2.s, TTuple(<<r1.type, r2.type>>))
          [] OTHER -> WithFreshVars(s, env[e.name])

\* The arguments of a call, with the dictionaries each is wrapped in.
InferArgs(s, env, args) ==
    FoldLeft(LAMBDA acc, e :
        LET r == InferArg(acc.s, env, e)
            d == AttachDictArgs(r.s, r.constraints)
        IN  [s |-> d.s, types |-> Append(acc.types, r.type),
             wrappers |-> Append(acc.wrappers, DictsOf(d))],
        [s |-> s, types |-> <<>>, wrappers |-> <<>>], args)

\* The dictionary of a method whose target has type t; of a tuple's equality, part by part.
RECURSIVE EqualityOf(_, _)
EqualityOf(s, t) ==
    LET c == Constraint(t.var, "Eq", t)
        d == ResolveConcrete("Eq", t)
    IN  CASE t.ty = "tuple" ->
               LET acc == FoldLeft(LAMBDA a, item :
                             LET r == EqualityOf(a.s, ApplySubst(a.s.map, item))
                             IN  [s |-> r.s, ds |-> Append(a.ds, r.dict)],
                             [s |-> s, ds |-> <<>>], t.items)
               IN  [s |-> acc.s, dict |-> TupleDict(acc.ds)]
          [] t.ty = "var" -> [s |-> Require(s, c), dict |-> DictParam(c)]
          [] OTHER -> [s |-> IF d = NoDict THEN Failed(s) ELSE s, dict |-> d]

Dispatch(s, trait, type) ==
    LET t == ApplySubst(s.map, type)
        p == Constraint(t.var, trait, t)
        d == ResolveConcrete(trait, t)
    IN  CASE t.ty = "var" -> [s |-> Require(s, p), lowered |-> [dict |-> NoDict, target |-> <<p>>]]
          [] trait = "Eq" /\ t.ty = "tuple" ->
               LET r == EqualityOf(s, t)
               IN  [s |-> r.s, lowered |-> [dict |-> r.dict, target |-> <<>>]]
          [] OTHER -> [s |-> IF d = NoDict THEN Failed(s) ELSE s,
                       lowered |-> [dict |-> d, target |-> <<>>]]

-----------------------------------------------------------------------------
(* Functions.  finalize_constraints: the constraints on variables that a     *)
(* function generalizes become its own, once each, in the order they came;   *)
(* those on other variables go to the function around it.                    *)

EnvVars(map, env) ==
    UNION {FreeTypeVars(ApplySubst(map, env[x].type)) \ env[x].vars : x \in DOMAIN env}

WithoutRepeats(seq) ==
    FoldLeft(LAMBDA acc, c : IF c \in Range(acc) THEN acc ELSE Append(acc, c), <<>>, seq)

Finalize(map, env, type, constraints) ==
    LET t        == ApplySubst(map, type)
        vars     == FreeTypeVars(t) \ EnvVars(map, env)
        all      == WithoutRepeats([i \in DOMAIN constraints |-> Normalized(map, constraints[i])])
        Relevant(c) == FreeTypeVars(ApplySubst(map, TVar(c.var))) \union FreeTypeVars(c.arg)
        owned    == SelectSeq(all, LAMBDA c : Relevant(c) # {} /\ Relevant(c) \subseteq vars)
        bubbled  == SelectSeq(all, LAMBDA c : ~(Relevant(c) \subseteq vars))
    IN  [scheme |-> [vars |-> vars, constraints |-> owned, type |-> t], bubbled |-> bubbled]

\* What every function of a group may have to pass on to those it calls.
CallTargets(group, fn) ==
    {j \in DOMAIN group : \E use \in Range(fn.body) : use.use = "call" /\ use.callee = group[j].name}

RECURSIVE Propagated(_, _)
Propagated(group, constraints) ==
    LET Grown(i, cs) ==
            FoldLeft(LAMBDA acc, j : WithoutRepeats(acc \o cs[j]), cs[i],
                     SetToSortSeq(CallTargets(group, group[i]), LAMBDA m, n : m < n))
        once == FoldLeft(LAMBDA cs, i : [cs EXCEPT ![i] = cs[i] \o
                            SelectSeq(Grown(i, cs), LAMBDA c : c \notin Range(cs[i]))],
                         constraints, [i \in DOMAIN group |-> i])
    IN  IF once = constraints THEN once ELSE Propagated(group, once)

\* A call of a function of the group, which was monomorphic while bodies were
\* inferred, passes on the dictionary parameters of the caller.  Nested functions
\* are not looked into.
AttachOwned(body, name, owned) ==
    [i \in DOMAIN body |->
        IF body[i].use = "call" /\ body[i].callee = name
           /\ body[i].dicts.dict_args = <<>> /\ body[i].dicts.pending = <<>>
        THEN [body[i] EXCEPT !.dicts.dict_args = [k \in DOMAIN owned |-> DictParam(owned[k])]]
        ELSE body[i]]

\* drain_pending: what was pending comes behind what was known at once.
Drained_First(map, owned, d) ==
    [d EXCEPT !.dict_args = [i \in DOMAIN d.pending |-> LocalOrConcrete(map, owned, d.pending[i])] \o @,
              !.pending = <<>>]

Drained(map, owned, d) ==
    [d EXCEPT !.dict_args = @ \o [i \in DOMAIN d.pending |-> LocalOrConcrete(map, owned, d.pending[i])],
              !.pending = <<>>]

\* drain_pending_lenient: what cannot be resolved stays pending.
DrainedLenient(map, owned, d) ==
    LET Known(p) == LocalOrConcrete(map, owned, p) # NoDict
        known    == SelectSeq(d.pending, Known)
    IN  [d EXCEPT !.dict_args = @ \o [i \in DOMAIN known |-> LocalOrConcrete(map, owned, known[i])],
                  !.pending = SelectSeq(@, LAMBDA p : ~Known(p))]

\* resolve_dict_uses_expr.  nested: whether the functions inside are resolved too.
RECURSIVE ResolveUses(_, _, _, _)
ResolveUses(s, owned, uses, nested) ==
    LET Resolved(use) ==
            CASE use.use \in {"method", "equal"} /\ use.target # <<>> ->
                   [use EXCEPT !.dict = LocalOrConcrete(s.map, owned, use.target[1]), !.target = <<>>]
              [] use.use = "call" ->
                   [use EXCEPT !.dicts = Drained(s.map, owned, @),
                               !.wrappers = [i \in DOMAIN @ |-> DrainedLenient(s.map, owned, @[i])]]
              [] use.use = "fn" /\ nested ->
                   [use EXCEPT !.fn.body = ResolveUses(s, owned, @, nested).uses]
              [] OTHER -> use
        Unresolved(use) ==
            CASE use.use \in {"method", "equal"} -> use.dict = NoDict
              [] use.use = "call" -> NoDict \in Range(use.dicts.dict_args)
              [] OTHER -> FALSE
        resolved == [i \in DOMAIN uses |-> Resolved(uses[i])]
    IN  [uses |-> resolved,
         s |-> IF \E i \in DOMAIN resolved : Unresolved(resolved[i]) THEN Failed(s) ELSE s]

RECURSIVE InferUses(_, _, _)

\* prepare_rec_fn_info, with one fresh variable for each name of the annotations.
Prepared(s, fn) ==
    LET names  == SetToSeq(UNION {FreeTypeVars(p[2]) : p \in Range(fn.params)}
                           \union {b[2] : b \in Range(fn.bounds)})
        number == [x \in Range(names) |-> s.next - 1 + (CHOOSE i \in DOMAIN names : names[i] = x)]
        map    == [x \in DOMAIN number |-> TVar(number[x])]
        types  == [i \in DOMAIN fn.params |-> ApplySubst(map, fn.params[i][2])]
    IN  [s |-> [s EXCEPT !.next = @ + Len(names)],
         type |-> ValueFunc(types, TInt),
         env |-> [x \in {p[1] : p \in Range(fn.params)} |->
                    Mono(types[CHOOSE i \in DOMAIN fn.params : fn.params[i][1] = x])],
         bounds |-> [i \in DOMAIN fn.bounds |->
                       Constraint(number[fn.bounds[i][2]], fn.bounds[i][1], map[fn.bounds[i][2]])]]

\* infer_fn_like for one function, infer_rec_block for several: all are monomorphic
\* in the bodies, then each is generalized, and its pending uses are resolved.
InferGroup(s, env, group) ==
    LET prepared == FoldLeft(LAMBDA acc, fn :
                        LET p == Prepared(acc.s, fn) IN [s |-> p.s, infos |-> Append(acc.infos, p)],
                        [s |-> s, infos |-> <<>>], group)
        infos  == prepared.infos
        recEnv == [f \in {group[i].name : i \in DOMAIN group} |->
                      Mono(infos[CHOOSE i \in DOMAIN group : group[i].name = f].type)] @@ env
        bodies == FoldLeft(LAMBDA acc, i :
                      LET r == InferUses([acc.s EXCEPT !.constraints = infos[i].bounds],
                                         infos[i].env @@ recEnv, group[i].body)
                      IN  [s |-> [r.s EXCEPT !.constraints = acc.s.constraints],
                           uses |-> Append(acc.uses, r.uses),
                           constraints |-> Append(acc.constraints, r.s.constraints)],
                      [s |-> prepared.s, uses |-> <<>>, constraints |-> <<>>],
                      [i \in DOMAIN group |-> i])
        all    == Propagated(group, bodies.constraints)
        final  == [i \in DOMAIN group |-> Finalize(bodies.s.map, env, infos[i].type, all[i])]
        owned(i) == final[i].scheme.constraints
        after  == [bodies.s EXCEPT !.constraints = @ \o FlattenSeq([i \in DOMAIN group |-> final[i].bubbled])]
        Attached(body) == FoldLeft(LAMBDA b, i : AttachOwned(b, group[i].name, owned(i)), body,
                                   [i \in DOMAIN group |-> i])
        done   == FoldLeft(LAMBDA acc, i :
                      LET r == ResolveUses(acc.s, owned(i), Attached(bodies.uses[i]), FALSE)
                      IN  [s |-> r.s, fns |-> Append(acc.fns,
                             [name |-> group[i].name,
                              params |-> [k \in DOMAIN group[i].params |-> group[i].params[k][1]],
                              dict_params |-> [k \in DOMAIN owned(i) |-> DictParam(owned(i)[k]).name],
                              body |-> r.uses])],
                      [s |-> after, fns |-> <<>>], [i \in DOMAIN group |-> i])
    IN  IF ~bodies.s.ok THEN [s |-> bodies.s, env |-> env, fns |-> <<>>]
        ELSE [s |-> done.s, fns |-> done.fns,
              env |-> [f \in DOMAIN recEnv \ DOMAIN env |->
                         final[CHOOSE i \in DOMAIN group : group[i].name = f].scheme] @@ env]

InferUse(s, env, use) ==
    CASE use.use = "method" ->
           LET r == InferArg(s, env, use.of)
               d == Dispatch(r.s, use.trait, r.type)
           IN  [s |-> d.s, env |-> env, use |-> use @@ d.lowered]
      [] use.use = "equal" ->
           LET l == InferArg(s, env, use.left)
               r == InferArg(l.s, env, use.right)
               u == UnifyTypes(r.s, r.type, l.type)
               d == Dispatch(u, "Eq", l.type)
           IN  [s |-> IF u.ok THEN d.s ELSE u, env |-> env, use |-> use @@ d.lowered]
      [] use.use = "call" ->
           LET callee == WithFreshVars(s, env[use.callee])
               args   == InferArgs(callee.s, env, use.args)
               u      == UnifyTypes(args.s, callee.type, ValueFunc(args.types, TInt))
               d      == AttachDictArgs(u, callee.constraints)
           IN  [s |-> d.s, env |-> env,
                use |-> use @@ [dicts |-> DictsOf(d), wrappers |-> args.wrappers]]
      [] OTHER ->
           LET g == InferGroup(s, env, <<use.fn>>)
           IN  [s |-> g.s, env |-> g.env,
                use |-> IF g.s.ok THEN FnUse(g.fns[1]) ELSE use]

InferUses(s, env, uses) ==
    FoldLeft(LAMBDA acc, use :
        LET r == InferUse(acc.s, acc.env, use)
        IN  IF acc.s.ok THEN [s |-> r.s, env |-> r.env, uses |-> Append(acc.uses, r.use)] ELSE acc,
        [s |-> s, env |-> env, uses |-> <<>>], uses)

-----------------------------------------------------------------------------
(* The inference of a program, and what its Lua does.                        *)

DictionariesIdle ==
    /\ untyped = [groups |-> <<>>, main |-> <<>>]
    /\ infer = NewSubst(1) @@ [constraints |-> <<>>]
    /\ schemes = << >>
    /\ emitted = [groups |-> <<>>, main |-> <<>>]
    /\ outcome = "none"

DictionariesInit ==
    /\ untyped \in DictPrograms
    /\ infer = NewSubst(1) @@ [constraints |-> <<>>]
    /\ schemes = << >>
    /\ emitted = [groups |-> <<>>, main |-> <<>>]
    /\ outcome = "none"

\* One group of functions.
InferFunctions ==
    /\ outcome = "none" /\ infer.ok /\ untyped.groups # <<>>
    /\ \E g \in {Definitions(infer, schemes, Head(untyped.groups))} :
           /\ infer' = g.s
           /\ schemes' = g.env
           /\ emitted' = [emitted EXCEPT !.groups = Append(@, g.fns)]
    /\ untyped' = [untyped EXCEPT !.groups = Tail(@)]
    /\ UNCHANGED outcome

\* The statements of the program, then the final pass over all of it.
InferStatements ==
    /\ outcome = "none" /\ infer.ok /\ untyped.groups = <<>> /\ untyped.main # <<>>
    /\ \E r \in {Uses(infer, schemes, untyped.main)} :
       \E final \in {IF r.s.ok THEN ResolveUses(r.s, <<>>, r.uses, TRUE) ELSE [s |-> r.s, uses |-> <<>>]} :
           /\ infer' = final.s
           /\ emitted' = [emitted EXCEPT !.main = final.uses]
    /\ untyped' = [untyped EXCEPT !.main = <<>>]
    /\ UNCHANGED <<schemes, outcome>>

Reject ==
    /\ outcome = "none" /\ ~infer.ok
    /\ outcome' = "rejected"
    /\ UNCHANGED <<untyped, infer, schemes, emitted>>

\* Values: those of a type, which is all that matters of them; functions with the
\* variables around them and the dictionaries they are already applied to;
\* dictionaries; and nil.
AbsentValue == [value |-> "nil"]
DataOf(t) == [value |-> "data", type |-> t]
Closure(fn, group, scope) ==
    [value |-> "fn", fn |-> fn, group |-> group, scope |-> scope, bound |-> <<>>]
DictValue(key, ds) == [value |-> "dict", of |-> key, args |-> ds]

ValueName(x) == <<x>>
ValueOf(scope, name) == IF name \in DOMAIN scope THEN scope[name] ELSE AbsentValue

WithFunctions(scope, group) ==
    [x \in {ValueName(group[i].name) : i \in DOMAIN group} |->
        Closure(CHOOSE fn \in Range(group) : ValueName(fn.name) = x, group, scope)] @@ scope

RECURSIVE RunDict(_, _)
RunDict(scope, d) ==
    CASE d.dict = "param" -> ValueOf(scope, d.name)
      [] d.dict = "impl"  -> DictValue(d.impl, [i \in DOMAIN d.args |-> RunDict(scope, d.args[i])])
      [] d.dict = "tuple" -> DictValue(<<"Eq", "tuple">>, [i \in DOMAIN d.args |-> RunDict(scope, d.args[i])])

RECURSIVE RunArg(_, _)
RunArg(scope, e) ==
    CASE e.arg = "literal" -> DataOf(e.type)
      [] e.arg = "some" ->
           LET v == RunArg(scope, e.of)
           IN  IF v.value = "data" THEN DataOf(TOption(v.type)) ELSE AbsentValue
      [] e.arg = "pair" ->
           LET v == RunArg(scope, e.of[1])  w == RunArg(scope, e.of[2])
           IN  IF v.value = "data" /\ w.value = "data" THEN DataOf(TTuple(<<v.type, w.type>>)) ELSE AbsentValue
      [] OTHER -> ValueOf(scope, ValueName(e.name))

\* wrap_call_argument: a function that is passed on with its dictionaries.
RunArgument(scope, e, wrapper) ==
    LET v == RunArg(scope, e)
    IN  IF wrapper.dict_args = <<>> \/ v.value # "fn" THEN v
        ELSE [v EXCEPT !.bound = @ \o [i \in DOMAIN wrapper.dict_args |-> RunDict(scope, wrapper.dict_args[i])]]

\* The dictionary that the methods of a value of type t belong to.
RECURSIVE DictionaryFor(_, _)
DictionaryFor(trait, t) ==
    IF trait = "Eq" /\ t.ty = "tuple"
    THEN DictValue(<<"Eq", "tuple">>, [i \in DOMAIN t.items |-> DictionaryFor("Eq", t.items[i])])
    ELSE LET key == <<trait, Head_Of(t)>>
         IN  DictValue(key, [i \in DOMAIN Impls[key] |-> DictionaryFor(Impls[key][i], t.args[1])])

RightDict(scope, use, e) ==
    LET v == RunArg(scope, e)
    IN  v.value = "data" /\ RunDict(scope, use.dict) = DictionaryFor(use.trait, v.type)

\* Whether every method that runs is the one of its value.  A call gives the
\* parameters of the function, dictionaries first, what it passes in that order.
RECURSIVE RunsRight(_, _, _)
RunsRight(scope, uses, depth) ==
    uses = <<>> \/
    LET use == Head(uses)
        callee == ValueOf(scope, ValueName(use.callee))
        passed == callee.bound
                  \o [i \in DOMAIN use.dicts.dict_args |-> RunDict(scope, use.dicts.dict_args[i])]
                  \o [i \in DOMAIN use.args |-> RunArgument(scope, use.args[i], use.wrappers[i])]
        formals == callee.fn.dict_params
                   \o [i \in DOMAIN callee.fn.params |-> ValueName(callee.fn.params[i])]
        inner == [x \in Range(formals) |->
                    LET i == CHOOSE k \in DOMAIN formals : formals[k] = x
                    IN  IF i \in DOMAIN passed THEN passed[i] ELSE AbsentValue]
                 @@ WithFunctions(callee.scope, callee.group)
    IN  CASE use.use = "method" -> RightDict(scope, use, use.of) /\ RunsRight(scope, Tail(uses), depth)
          [] use.use = "equal" ->
               RightDict(scope, [use EXCEPT !.use = "method"] @@ [trait |-> "Eq"], use.left)
               /\ RunsRight(scope, Tail(uses), depth)
          [] use.use = "call" ->
               /\ callee.value = "fn"
               /\ depth < MaxCallDepth => RunsRight(inner, callee.fn.body, depth + 1)
               /\ RunsRight(scope, Tail(uses), depth)
          [] OTHER -> RunsRight(WithFunctions(scope, <<use.fn>>), Tail(uses), depth)

RunProgram ==
    /\ outcome = "none" /\ infer.ok /\ untyped = [groups |-> <<>>, main |-> <<>>]
    /\ emitted.main # <<>>
    /\ LET scope == FoldLeft(WithFunctions, << >>, emitted.groups)
       IN  outcome' = IF RunsRight(scope, emitted.main, 0) THEN "right" ELSE "wrong"
    /\ UNCHANGED <<untyped, infer, schemes, emitted>>

DictionariesNext == InferFunctions \/ InferStatements \/ Reject \/ RunProgram

-----------------------------------------------------------------------------
(* Properties.                                                               *)

\* Three ways in which the code is known to miss: a concrete dictionary that overtook
\* a pending one; the equality of a tuple over a variable, which names a dictionary
\* parameter before the variable is known; and a nested function that calls one
\* around it.
RECURSIVE OpenTuple(_)
OpenTuple(d) ==
    d.dict = "tuple" /\ \E i \in DOMAIN d.args : d.args[i].dict = "param" \/ OpenTuple(d.args[i])

RECURSIVE KnownToMiss(_, _)
KnownToMiss(around, uses) ==
    \E use \in Range(uses) :
        CASE use.use = "call"  -> use.dicts.mixed
          [] use.use = "equal" -> OpenTuple(use.dict)
          [] use.use = "fn"    -> \/ KnownToMiss(around, use.fn.body)
                                  \/ \E inner \in Range(use.fn.body) : inner.use = "call" /\ inner.callee \in around
          [] OTHER -> FALSE

MissesSomewhere ==
    \/ KnownToMiss({}, emitted.main)
    \/ \E g \in Range(emitted.groups) : \E fn \in Range(g) :
          KnownToMiss({f.name : f \in Range(g)}, fn.body)

\* Every trait method that an accepted program runs is that of the impl for the type
\* of the value it is given, through all the functions that hand dictionaries on:
\* generic, recursive in groups, nested, or passed as values.
DictionariesFitTheirValues == outcome = "wrong" => MissesSomewhere

=============================================================================
