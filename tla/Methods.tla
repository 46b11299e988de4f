------------------------------- MODULE Methods -------------------------------
(***************************************************************************)
(* Which method a call means: impls of traits and of types as they are       *)
(* declared (types/infer/impls.rs), the three forms of a call, x.m(..),       *)
(* Trait::m(..) and Type::m(..) (types/infer/calls), and the dictionary that   *)
(* each gets (types/infer/dicts.rs).                                         *)
(*                                                                         *)
(* Bodies are left out: an argument is its type, and an impl has the types    *)
(* that its trait, or its annotations, give it.  Methods are numbers in the   *)
(* order of their names.                                                    *)
(***************************************************************************)
EXTENDS TypeSyntax

CONSTANTS
    Programs,       \* bound: the programs, [types, stmts]
    OwnVars,        \* the variables that the arguments of calls bring along: 1..OwnVars
    ImplSchemeOf(_, _, _), OwnMethodsOf(_, _, _),   \* what an impl adds: ImplScheme, AddOwnMethods
    CalleeOf(_, _, _), DictOf(_, _, _)          \* what a call means, what is found at last: Resolve, Settled

ASSUME OwnVarsIsNatural == OwnVars \in Nat

VARIABLES
    program,        \* what is inferred
    reached,        \* how many of its statements have been
    known,          \* what is in scope: names, active_dicts, the dictionaries in env, inherent.methods
    solution,       \* self.subst
    choices,        \* the callee of each call, in order
    failure         \* the error that ended it, or "none"

methodsVars == <<program, reached, known, solution, choices, failure>>

-----------------------------------------------------------------------------
(* Statements.  A bound is a trait and the types it is asked of; a call has    *)
(* the types of its receiver and arguments.                                   *)

NoStmt == [stmt |-> "none", name |-> "", head |-> <<>>, arrow |-> 0, bounds |-> <<>>, methods |-> <<>>, own |-> <<>>,
           member |-> 0, args |-> <<>>]
ImplOf(trait, head, arrow, bounds, methods) ==
    [NoStmt EXCEPT !.stmt = "impl", !.name = trait, !.head = head, !.arrow = arrow, !.bounds = bounds, !.methods = methods]
InherentImpl(target, bounds, methods) ==
    [NoStmt EXCEPT !.stmt = "inherent", !.head = <<target>>, !.bounds = bounds, !.own = methods]
FunctionOf(member, params, ret) ==
    [NoStmt EXCEPT !.stmt = "function", !.member = member, !.own = <<MethodDecl(member, params, ret, FALSE)>>]
DotCall(member, args)  == [NoStmt EXCEPT !.stmt = "dot", !.member = member, !.args = args]
PathCall(target, member, args) ==
    [NoStmt EXCEPT !.stmt = "path", !.head = <<target>>, !.member = member, !.args = args]

\* A method of an inherent impl that takes self has Self as its first parameter.
OwnMethod(name, receiver, params, ret) == [name |-> name, receiver |-> receiver, params |-> params, ret |-> ret]

MethodNamed(methods, name) == SelectSeq(methods, LAMBDA m : m.name = name)
ValueFunc(params, ret) == TFunc(params, [k \in 1..(Len(params) + 1) |-> FALSE], ret)

-----------------------------------------------------------------------------
(* Schemes.                                                                  *)

SchemeOf(vars, constraints, ty) == [vars |-> vars, constraints |-> constraints, ty |-> ty]

\* instantiate_scheme: new variables for the quantified ones
Instantiate(s, scheme) ==
    LET fresh == [v \in Range(scheme.vars) |-> TVar(s.next + PositionOf(scheme.vars, v) - 1)]
    IN  [s |-> [s EXCEPT !.next = @ + Len(scheme.vars)],
         ty |-> ApplySubst(fresh, scheme.ty),
         constraints |-> [k \in DOMAIN scheme.constraints |->
                             [scheme.constraints[k] EXCEPT
                                !.var = ApplySubst(fresh, TVar(@)).var,
                                !.args = [j \in DOMAIN @ |-> ApplySubst(fresh, @[j])]]]]

AppliedAll(s, ts) == [k \in DOMAIN ts |-> ApplySubst(s.map, ts[k])]
Fresh(s)          == [s EXCEPT !.next = @ + 1]

RECURSIVE FirstVars(_)                         \* first_ty_var, as a sequence of at most one
FirstVars(t) ==
    IF t.ty = "var" THEN <<t.var>>
    ELSE FoldLeft(LAMBDA acc, c : IF acc = <<>> THEN FirstVars(c) ELSE acc, <<>>, Children(t))

\* primary_trait_var
PrimaryVars(trait, args) ==
    LET Of(ts) == FoldLeft(LAMBDA acc, t : IF acc = <<>> THEN FirstVars(t) ELSE acc, <<>>, ts)
        first  == Of([k \in Determinants(trait) |-> args[k]])
    IN  IF first = <<>> THEN Of(args) ELSE first

-----------------------------------------------------------------------------
(* Dictionaries.                                                             *)

Dict(name, args)     == [dict |-> name, args |-> args]
NoDict               == Dict(<<>>, <<>>)
DictName(trait, key) == <<trait>> \o key
TupleEq(items)       == Dict(<<"Eq", "structural">>, items)
\* dict_ref_concrete_name has no name for it.
Structural(dict)     == dict.dict = TupleEq(<<>>).dict

\* env, then known_impl_dicts, which has the names of all impls of the program from the start
HasImpl(k, name) == name \in DOMAIN k.schemes \/ name \in k.active

\* bind_ty_vars_to_actual
SameHead(p, a) ==
    /\ p.ty = a.ty /\ Len(Children(p)) = Len(Children(a))
    /\ p.ty = "con" => p = a
    /\ p.ty = "func" => p.capabilities = a.capabilities
    /\ p.ty = "record" => \A k \in DOMAIN p.fields : p.fields[k][1] = a.fields[k][1]

RECURSIVE BindVars(_, _, _)
BindVars(b, pattern, actual) ==
    IF ~b.ok THEN b
    ELSE IF pattern.ty = "var"
      THEN IF pattern.var \in DOMAIN b.map THEN [b EXCEPT !.ok = b.map[pattern.var] = actual]
           ELSE [b EXCEPT !.map = (pattern.var :> actual) @@ @]
    ELSE IF ~SameHead(pattern, actual) THEN [b EXCEPT !.ok = FALSE]
    ELSE FoldLeftDomain(LAMBDA acc, k : BindVars(acc, Children(pattern)[k], Children(actual)[k]),
                        b, Children(pattern))

\* The places of a method that stand for the arguments of its trait: parameters, then the result.
Prefix(method, args) ==
    LET places == Append(method.params, method.ret)
    IN  [k \in 1..Min({Len(places), Len(args)}) |-> <<places[k], args[k]>>]

\* bind_scheme_target_vars
BindTarget(scheme, args) ==
    LET asked == {scheme.constraints[k].var : k \in DOMAIN scheme.constraints}
        Bind(b, field) ==
            LET tried == FoldLeft(LAMBDA acc, p : BindVars(acc, p[1], p[2]), b, Prefix(field[2], args))
            IN  IF asked \subseteq DOMAIN b.map \/ ~tried.ok THEN b ELSE tried
        bound == FoldLeft(Bind, [map |-> [v \in {} |-> Closed], ok |-> TRUE], scheme.ty.fields)
    IN  [bound EXCEPT !.ok = asked \subseteq DOMAIN bound.map]

\* find_cartesian_key_match: every row of keys, the last of them changing fastest
KeyRows(candidates) ==
    FoldLeft(LAMBDA rows, keys : FlattenSeq([r \in DOMAIN rows |-> [j \in DOMAIN keys |-> rows[r] \o keys[j]]]),
             <<<<>>>>, candidates)

RECURSIVE ConcreteDict(_, _, _), MultiDict(_, _, _), AppliedDict(_, _, _)

\* dict_ref_args_for_scheme_args: an impl with conditions gets a dictionary for each
AppliedDict(k, name, args) ==
    LET scheme == k.schemes[name]
        bound  == BindTarget(scheme, args)
        DictFor(c) ==
            IF /\ \A v \in UNION {FreeTypeVars(c.args[j]) : j \in DOMAIN c.args} :
                     v \in DOMAIN bound.map /\ FreeTypeVars(bound.map[v]) = {}
              THEN MultiDict(k, c.trait, AppliedAll(bound, c.args)) ELSE NoDict
        dicts  == [j \in DOMAIN scheme.constraints |-> DictFor(scheme.constraints[j])]
    IN  IF name \notin DOMAIN k.schemes \/ scheme.constraints = <<>> THEN Dict(name, <<>>)
        ELSE IF ~bound.ok \/ NoDict \in Range(dicts) THEN NoDict
        ELSE Dict(name, dicts)

\* resolve_concrete_dict_ref: the first key that has an impl decides
ConcreteDict(k, trait, t) ==
    LET named == SelectSeq(KeysOfType(t), LAMBDA key : HasImpl(k, DictName(trait, key)))
        items == [j \in DOMAIN t.items |-> ConcreteDict(k, trait, t.items[j])]
    IN  IF trait = "Eq" /\ t.ty = "tuple"
          THEN IF NoDict \in Range(items) THEN NoDict ELSE TupleEq(items)
        ELSE IF named = <<>> THEN NoDict
        ELSE AppliedDict(k, DictName(trait, Head(named)), <<t>>)

CandidateNames(k, trait, args) ==
    LET rows == KeyRows([j \in Determinants(k.names.traits[trait]) |-> KeyCandidates(args[j])])
    IN  [r \in DOMAIN rows |-> DictName(trait, rows[r])]

\* resolve_concrete_multi_dict_ref
MultiDict(k, trait, args) ==
    LET dicts == [n \in Range(CandidateNames(k, trait, args)) |->
                     IF HasImpl(k, n) THEN AppliedDict(k, n, args) ELSE NoDict]
        found == SelectSeq(CandidateNames(k, trait, args), LAMBDA n : dicts[n] # NoDict)
    IN  IF found = <<>> THEN NoDict ELSE dicts[Head(found)]

RECURSIVE HasConcreteShape(_)
HasConcreteShape(t) == t.ty = "con" \/ \E c \in Range(Children(t)) : HasConcreteShape(c)

\* unify_scheme_method_actuals: with the variables of the scheme itself
UnifyHead(s, scheme, args) ==
    LET Tried(field) == IF Len(field[2].params) > Len(args) THEN Failed(s) ELSE UnifyEach(s, Prefix(field[2], args))
        fits == SelectSeq(scheme.ty.fields, LAMBDA field : Tried(field).ok)
    IN  IF fits = <<>> THEN Failed(s) ELSE Tried(Head(fits))

\* What an impl gives for these arguments: nothing, or its dictionary and the substitution after it.
Trial(k, s, name, args) ==
    LET head == UnifyHead(s, k.schemes[name], args)
    IN  IF name \notin DOMAIN k.schemes
          THEN [dict |-> IF name \in k.active THEN Dict(name, <<>>) ELSE NoDict, s |-> s]
        ELSE IF ~head.ok THEN [dict |-> NoDict, s |-> s]
        ELSE [dict |-> AppliedDict(k, name, AppliedAll(head, args)), s |-> head]

\* resolve_concrete_from_args_unifying, and resolve_concrete_from_impl_schemes_unifying after it
UnifyingDict(k, s, trait, args) ==
    LET Fits(n)  == Trial(k, s, n, args).dict # NoDict
        keyed    == SelectSeq(CandidateNames(k, trait, args), Fits)
        searched == IF \E j \in DOMAIN args : HasConcreteShape(ApplySubst(s.map, args[j]))
                      THEN {n \in DOMAIN k.schemes : n[1] = trait /\ Fits(n)} ELSE {}
        Found(n) == [dict |-> Trial(k, s, n, args).dict, s |-> Trial(k, s, n, args).s, ambiguous |-> FALSE]
        None     == [dict |-> NoDict, s |-> s, ambiguous |-> Cardinality(searched) > 1]
    IN  IF Len(args) = 1 THEN [None EXCEPT !.dict = ConcreteDict(k, trait, args[1]), !.ambiguous = FALSE]
        ELSE IF keyed # <<>> THEN Found(Head(keyed))
        ELSE IF Cardinality(searched) = 1 THEN Found(CHOOSE n \in searched : TRUE)
        ELSE None

-----------------------------------------------------------------------------
(* Impls as declared.                                                        *)

RECURSIVE ConstructorVars(_), HoleInside(_)
ConstructorVars(ast) ==                        \* type_uses_var_as_constructor
    (IF ast.kind = "app" /\ AppCon(ast).kind = "var" THEN {AppCon(ast).name} ELSE {})
        \union UNION {ConstructorVars(part) : part \in Range(ast.parts)}
HoleInside(ast) == ast.kind = "hole" \/ \E part \in Range(ast.parts) : HoleInside(part)

Places(m) == Append(m.params, m.ret)

ImplError(k, d) ==
    LET trait == k.names.traits[d.name]
        dets  == Determinants(trait)
        VarsAt(places) == UNION {AstVars(d.head[j]) : j \in places}
        constructors_ == UNION {ConstructorVars(ast) : ast \in UNION {Range(Places(m)) : m \in Range(trait.methods)}}
    IN  CASE d.name \notin DOMAIN k.names.traits -> "unknown trait"
          [] Len(d.head) # Len(trait.params) -> "trait arity"
          [] d.arrow # (IF trait.dependents = 0 THEN 0 ELSE Cardinality(dets)) -> "arrow"
          [] ~(VarsAt(DOMAIN trait.params \ dets) \subseteq VarsAt(dets)) -> "not determined"
          [] \E j \in dets : ImplArgKey(d.head[j]) = NoKey -> "head without key"
          [] Len(trait.params) = 1 /\ trait.params[1] \in constructors_
               /\ d.head[1].kind = "app" /\ ~HoleInside(d.head[1]) -> "constructor expected"
          [] {m.name : m \in Range(trait.methods)} # Range(d.methods) -> "missing or extra method"
          [] OTHER -> "none"

\* collect_type_bound_constraints
Constraints(k, c, bounds) ==
    LET Add(acc, bound) ==
            LET conv == ConvertAll(k.names, acc.conv, bound.args)
                vars == PrimaryVars(k.names.traits[bound.trait], conv.tys)
                own  == IF vars = <<>> THEN conv.next ELSE vars[1]
            IN  [conv |-> IF Len(bound.args) # Len(k.names.traits[bound.trait].params) THEN Refused(conv, "trait arity")
                          ELSE [conv EXCEPT !.next = IF vars = <<>> THEN @ + 1 ELSE @],
                 found |-> Append(acc.found, [var |-> own, trait |-> bound.trait, args |-> conv.tys])]
    IN  FoldLeft(Add, [conv |-> c, found |-> <<>>], bounds)

\* finalize_constraints_at: all variables are of the impl itself; a bound that the type does not reach is not kept
Generalized(ty, constraints) ==
    LET vars == FreeTypeVars(ty)
    IN  SchemeOf(SetToSortSeq(vars, <),
                 SelectSeq(constraints, LAMBDA c : {c.var} \union UNION {FreeTypeVars(c.args[j]) : j \in DOMAIN c.args} \subseteq vars),
                 ty)

\* infer_impl: each method has the type that its trait gives it for the types of the head
ImplScheme(k, s, d) ==
    LET trait  == k.names.traits[d.name]
        bounds == Constraints(k, ConvertAll(k.names, Conversion(<<>>, s.next), d.head), d.bounds)
        Add(acc, m) ==
            LET places == [j \in DOMAIN Places(m) |-> SubstParams(Places(m)[j], trait.params, d.head)]
                conv   == ConvertAll(k.names, [acc.conv EXCEPT !.vars = bounds.conv.vars], places)
            IN  [conv |-> conv, fields |-> Append(acc.fields, <<m.name, ValueFunc(Front(conv.tys), Last(conv.tys))>>)]
        all    == FoldLeft(Add, [conv |-> bounds.conv, fields |-> <<>>], trait.methods)
    IN  [error |-> all.conv.error, next |-> all.conv.next,
         scheme |-> Generalized(TRecord(all.fields, Closed), bounds.found)]

ImplName(k, d) ==
    DictName(d.name, FlattenSeq([j \in Determinants(k.names.traits[d.name]) |-> ImplArgKey(d.head[j])]))

\* register_impl_dict_names: with a key for every argument, those that depend on others too
RegisteredNames(stmts) ==
    {DictName(d.name, FlattenSeq([j \in DOMAIN d.head |-> ImplArgKey(d.head[j])])) :
        d \in {e \in Range(stmts) : e.stmt = "impl" /\ \A j \in DOMAIN e.head : ImplArgKey(e.head[j]) # NoKey}}

\* prepare_inherent_method
OwnScheme(k, next, d, m) ==
    LET target == ConvertAll(k.names, Conversion(<<>>, next), d.head)
        bounds == Constraints(k, target, d.bounds)
        places == [j \in DOMAIN Places(m) |-> SubstituteSelf(Places(m)[j], d.head[1])]
        conv   == ConvertAll(k.names, bounds.conv, places)
    IN  [error |-> conv.error, next |-> conv.next,
         scheme |-> Generalized(ValueFunc((IF m.receiver THEN target.tys ELSE <<>>) \o Front(conv.tys), Last(conv.tys)),
                                bounds.found)]

OwnMethods(k, key) == IF key \in DOMAIN k.inherent THEN k.inherent[key] ELSE [m \in {} |-> NoStmt]

\* infer_inherent_impl
InherentError(k, d) ==
    LET key   == InherentTargetKey(d.head[1], k.names.declared)
        named == [j \in DOMAIN d.own |-> d.own[j].name]
    IN  CASE key = NoKey -> "inherent target"
          [] ~IsInjective(named) \/ Range(named) \intersect DOMAIN OwnMethods(k, key) # {} -> "duplicate method"
          [] OTHER -> "none"

AddOwnMethods(k, s, d) ==
    LET key == InherentTargetKey(d.head[1], k.names.declared)
        Add(acc, m) ==
            LET own == OwnScheme(k, acc.next, d, m)
            IN  [error |-> IF acc.error = "none" THEN own.error ELSE acc.error, next |-> own.next,
                 new |-> (m.name :> [scheme |-> own.scheme, receiver |-> m.receiver]) @@ acc.new]
        all == FoldLeft(Add, [error |-> "none", next |-> s.next, new |-> OwnMethods(k, key)], d.own)
    IN  [error |-> all.error, next |-> all.next, inherent |-> (key :> all.new) @@ k.inherent]

-----------------------------------------------------------------------------
(* Calls.  What a call comes to: an error, or the kind of its callee, the       *)
(* dictionary or the key of its target, and the type of its result.             *)

Callee(kind, s, ret) ==
    [kind |-> kind, error |-> "none", s |-> s, ret |-> ret, dict |-> NoDict, trait |-> "", targs |-> <<>>,
     key |-> NoKey, dicts |-> <<>>]
NoCallee(error, s) == [Callee("none", s, Closed) EXCEPT !.error = error]

\* attach_dict_args: a variable that is still open leaves the dictionary for later
AttachDicts(k, s, constraints) ==
    LET Attach(acc, c) ==
            LET args  == AppliedAll(acc.s, c.args)
                found == UnifyingDict(k, acc.s, c.trait, args)
            IN  IF acc.error # "none" \/ ApplySubst(acc.s.map, TVar(c.var)).ty = "var" THEN acc
                ELSE IF found.ambiguous THEN [acc EXCEPT !.error = "ambiguous impl"]
                ELSE IF found.dict = NoDict THEN [acc EXCEPT !.error = "missing impl"]
                ELSE [acc EXCEPT !.s = found.s, !.dicts = Append(@, found.dict)]
    IN  FoldLeft(Attach, [s |-> s, error |-> "none", dicts |-> <<>>], constraints)

\* apply_callable_type
ApplyCallable(k, s, kind, ty, constraints, args) ==
    LET ret      == TVar(s.next)
        unified_ == UnifyTypes(Fresh(s), ty, TFunc(args, ty.capabilities, ret))
        attached == AttachDicts(k, unified_, constraints)
    IN  IF Len(ty.params) # Len(args) THEN NoCallee("arity", s)
        ELSE IF ~unified_.ok THEN NoCallee("mismatch", s)
        ELSE IF attached.error # "none" THEN NoCallee(attached.error, s)
        ELSE [Callee(kind, attached.s, ApplySubst(attached.s.map, ret)) EXCEPT !.dicts = attached.dicts]

\* apply_scheme_callable
ApplyScheme(k, s, kind, scheme, args) ==
    LET new == Instantiate(s, scheme)
    IN  ApplyCallable(k, new.s, kind, new.ty, new.constraints, args)

\* The types of a method of a trait, with a variable for each parameter of the trait.
Signature(k, s, trait, m) ==
    LET params == ParamVars(trait.params, s.next)
        conv   == ConvertAll(k.names, Conversion(params.vars, params.next), Places(m))
    IN  [s |-> [s EXCEPT !.next = conv.next], places |-> conv.tys,
         targs |-> [j \in DOMAIN trait.params |-> TVar(params.vars[trait.params[j]])]]

UnifyParams(sig, args) == UnifyEach(sig.s, [j \in DOMAIN args |-> <<sig.places[j], args[j]>>])

\* The method of a dictionary, checked against the call; the dictionary is expected to have a name.
CheckAgainstDict(k, s, dict, trait, m, args, ret, targs) ==
    LET new     == Instantiate(s, k.schemes[dict.dict])
        field   == MethodNamed([j \in DOMAIN new.ty.fields |-> [name |-> new.ty.fields[j][1], ty |-> new.ty.fields[j][2]]], m.name)[1]
        checked == TVar(new.s.next)
        after   == UnifyEach(Fresh(new.s), <<<<field.ty, ValueFunc(args, checked)>>, <<ret, checked>>>>)
        last    == IF dict.dict \in DOMAIN k.schemes THEN after ELSE s
    IN  IF Structural(dict) THEN NoCallee("panic", s)
        ELSE IF ~last.ok THEN NoCallee("mismatch", s)
        ELSE [Callee("dict", last, ApplySubst(last.map, ret)) EXCEPT !.dict = dict, !.trait = trait.name, !.targs = targs]

Pending(s, trait, m, targs, ret) ==
    [Callee("pending", s, ApplySubst(s.map, ret)) EXCEPT !.trait = trait.name, !.targs = targs]

\* try_receiver_trait_method
TryReceiver(k, s, trait, m, args) ==
    LET sig   == Signature(k, s, trait, m)
        given == UnifyParams(sig, args)
        targs == AppliedAll(given, sig.targs)
        found == UnifyingDict(k, given, trait.name, targs)
    IN  IF Len(m.params) # Len(args) THEN NoCallee("arity", s)
        ELSE IF ~given.ok THEN NoCallee("mismatch", s)
        ELSE IF found.ambiguous THEN NoCallee("ambiguous impl", s)
        ELSE IF found.dict = NoDict THEN NoCallee("missing impl", s)
        ELSE CheckAgainstDict(k, found.s, found.dict, trait, m, args, Last(sig.places), targs)

\* receiver_trait_method_matches_receiver
MatchesReceiver(k, s, trait, m, receiver) ==
    LET sig   == Signature(k, s, trait, m)
        given == UnifyParams(sig, <<receiver>>)
        found == UnifyingDict(k, given, trait.name, AppliedAll(given, sig.targs))
    IN  m.params # <<>> /\ given.ok /\ ~found.ambiguous /\ found.dict # NoDict

\* resolve_receiver_trait_call; NoCallee("none", s) where traits have no say
ReceiverTraitCall(k, s, member, args) ==
    LET having  == {t \in DOMAIN k.names.traits : MethodNamed(k.names.traits[t].methods, member) # <<>>}
        Method(t) == MethodNamed(k.names.traits[t].methods, member)[1]
        Try(t)  == TryReceiver(k, s, k.names.traits[t], Method(t), args)
        matches == {t \in having : Try(t).error = "none"}
        nearly  == {t \in having : t \in matches \/ MatchesReceiver(k, s, k.names.traits[t], Method(t), args[1])}
    IN  IF \E t \in having : Try(t).error = "panic" THEN NoCallee("panic", s)
        ELSE IF Cardinality(matches) > 1 THEN NoCallee("ambiguous method", s)
        ELSE IF matches # {} THEN Try(CHOOSE t \in matches : TRUE)
        ELSE IF Cardinality(nearly) = 1 THEN Try(CHOOSE t \in nearly : TRUE)
        ELSE NoCallee("none", s)

\* resolve_receiver_call: a field, a method of the type, one of a trait, a function
ReceiverCall(k, s, member, args) ==
    LET receiver == ApplySubst(s.map, args[1])
        fields   == IF receiver.ty = "record" THEN SelectSeq(receiver.fields, LAMBDA f : f[1] = member) ELSE <<>>
        row      == TRecord(<<<<member, ValueFunc(Tail(args), TVar(s.next))>>>>, TVar(s.next + 1))
        opened   == UnifyTypes([s EXCEPT !.next = @ + 2], receiver, row)
        keys     == SelectSeq(KeysOfType(receiver), LAMBDA key : member \in DOMAIN OwnMethods(k, key))
        own      == k.inherent[keys[1]][member]
        by_trait == ReceiverTraitCall(k, s, member, <<receiver>> \o Tail(args))
    IN  IF fields # <<>>
          THEN LET field == fields[1][2]
                   ret   == TVar(s.next)
                   after == UnifyTypes(Fresh(s), field, ValueFunc(Tail(args), ret))
               IN  IF after.ok THEN Callee("field", after, ApplySubst(after.map, ret)) ELSE NoCallee("mismatch", s)
        ELSE IF receiver.ty = "var"
          THEN IF opened.ok THEN Callee("field", opened, TVar(s.next)) ELSE NoCallee("mismatch", s)
        ELSE IF keys # <<>>
          THEN IF ~own.receiver THEN NoCallee("associated function", s)
               ELSE [ApplyScheme(k, s, "own", own.scheme, <<receiver>> \o Tail(args)) EXCEPT !.key = keys[1]]
        ELSE IF by_trait.error # "none" \/ by_trait.kind # "none" THEN by_trait
        ELSE IF member \in DOMAIN k.functions
          THEN ApplyScheme(k, s, "function", k.functions[member], <<receiver>> \o Tail(args))
        ELSE NoCallee("unknown method", s)

-----------------------------------------------------------------------------
(* Paths.                                                                    *)

TargetVars(t) ==                               \* variable_trait_target
    IF t.ty = "var" THEN <<t.var>> ELSE IF t.ty = "app" /\ t.con.ty = "var" THEN <<t.con.var>> ELSE <<>>

\* resolve_trait_method_call, where the first argument shows the target
CallByFirst(k, s, trait, m, args) ==
    LET target == ApplySubst(s.map, args[1])
        sig    == Signature(k, s, trait, m)
        given  == UnifyParams(sig, args)
        param  == ApplySubst(given.map, sig.targs[1])
        dict   == ConcreteDict(k, trait.name, target)
        own    == IF param.ty = "var" THEN param ELSE TVar(TargetVars(target)[1])
    IN  IF KeysOfType(target) = <<>>
          THEN IF TargetVars(target) = <<>> THEN NoCallee("unresolved trait", s)
               ELSE IF ~given.ok THEN NoCallee("mismatch", s)
               ELSE IF param.ty # "var" /\ KeysOfType(param) = <<>> THEN NoCallee("unresolved trait", s)
               ELSE Pending(given, trait, m, <<own>>, Last(sig.places))
        ELSE IF dict = NoDict THEN NoCallee("missing impl", s)
        ELSE IF Structural(dict) \/ dict.dict \in DOMAIN k.schemes
          THEN CheckAgainstDict(k, Fresh(s), dict, trait, m, args, TVar(s.next), <<target>>)
        ELSE IF ~given.ok THEN NoCallee("mismatch", s)
        ELSE CheckAgainstDict(k, given, dict, trait, m, args, Last(sig.places), <<target>>)

\* the same, where only the context knows the target
CallFromContext(k, s, trait, m, args) ==
    LET sig    == Signature(k, s, trait, m)
        given  == UnifyParams(sig, args)
        target == ApplySubst(given.map, sig.targs[1])
        dict   == ConcreteDict(k, trait.name, target)
    IN  IF ~given.ok THEN NoCallee("mismatch", s)
        ELSE IF target.ty = "var" THEN Pending(given, trait, m, <<target>>, Last(sig.places))
        ELSE IF KeysOfType(target) = <<>> \/ dict = NoDict THEN NoCallee("missing impl", s)
        ELSE [Callee("dict", given, ApplySubst(given.map, Last(sig.places)))
                 EXCEPT !.dict = dict, !.trait = trait.name, !.targs = <<target>>]

\* resolve_multi_param_trait_method_call and resolve_multi_param_trait_dispatch; x[k] is Index::index(x, k)
CallByMany(k, s, trait, m, args) ==
    LET sig   == Signature(k, s, trait, m)
        given == UnifyParams(sig, args)
        targs == AppliedAll(given, sig.targs)
        found == UnifyingDict(k, given, trait.name, targs)
    IN  IF ~given.ok THEN NoCallee("mismatch", s)
        ELSE IF found.ambiguous THEN NoCallee("ambiguous impl", s)
        ELSE IF found.dict # NoDict
          THEN CheckAgainstDict(k, found.s, found.dict, trait, m, args, Last(sig.places), targs)
        ELSE IF PrimaryVars(trait, targs) # <<>> THEN Pending(given, trait, m, targs, Last(sig.places))
        ELSE NoCallee("unresolved trait", s)

TraitCall(k, s, trait, m, args) ==
    IF Len(m.params) # Len(args) THEN NoCallee("arity", s)
    ELSE IF Len(trait.params) > 1 \/ trait.dependents > 0 THEN CallByMany(k, s, trait, m, args)
    ELSE IF m.params # <<>> /\ trait.params[1] \in AstVars(m.params[1]) THEN CallByFirst(k, s, trait, m, args)
    ELSE CallFromContext(k, s, trait, m, args)

\* instantiate_associated_trait_method: Trait(types)::m
ExplicitCall(k, s, trait, m, asts, args) ==
    LET Bind(conv, j) ==
            LET one == AstToTy(k.names, conv, asts[j])
            IN  [one EXCEPT !.tys = Append(conv.tys, one.ty),
                            !.vars = IF one.ty.ty = "var" THEN (trait.params[j] :> one.ty.var) @@ @ ELSE @]
        targs  == FoldLeftDomain(Bind, Conversion(<<>>, s.next), trait.params)
        places == ConvertAll(k.names, targs, [j \in DOMAIN Places(m) |-> SubstParams(Places(m)[j], trait.params, asts)])
        found  == UnifyingDict(k, [s EXCEPT !.next = places.next], trait.name, targs.tys)
    IN  IF Len(asts) # Len(trait.params) THEN NoCallee("trait arity", s)
        ELSE IF places.error # "none" THEN NoCallee(places.error, s)
        ELSE IF found.ambiguous THEN NoCallee("ambiguous impl", s)
        ELSE IF found.dict = NoDict THEN NoCallee("missing impl", s)
        ELSE [ApplyCallable(k, found.s, "dict", ValueFunc(Front(places.tys), Last(places.tys)), <<>>, args)
                 EXCEPT !.dict = found.dict, !.trait = trait.name, !.targs = targs.tys]

\* associated_inherent_method, instantiate_associated_inherent_method and resolve_associated_call
InherentCall(k, s, target, member, args) ==
    LET named == InherentTargetKeys(target, k.names.declared)
        keys  == SelectSeq(named, LAMBDA key : member \in DOMAIN OwnMethods(k, key))
        own   == k.inherent[keys[1]][member]
        new   == Instantiate(s, own.scheme)
        self  == AstToTy(k.names, Conversion(<<>>, new.s.next), target)
        fixed == IF own.receiver /\ target.kind = "app"
                   THEN UnifyTypes([new.s EXCEPT !.next = self.next], new.ty.params[1], self.ty) ELSE new.s
    IN  IF named = <<>> THEN NoCallee("inherent target", s)
        ELSE IF keys = <<>> THEN NoCallee("unknown associated function", s)
        ELSE IF own.receiver /\ self.error # "none" THEN NoCallee(self.error, s)
        ELSE IF ~fixed.ok THEN NoCallee("mismatch", s)
        ELSE [ApplyCallable(k, fixed, "own", ApplySubst(fixed.map, new.ty), new.constraints, args) EXCEPT !.key = keys[1]]

\* infer_call, for a callee that is a path
AssociatedCall(k, s, target, member, args) ==
    LET con     == IF target.kind = "app" THEN AppCon(target) ELSE target
        trait   == k.names.traits[con.name]
        methods == MethodNamed(trait.methods, member)
        own     == InherentCall(k, s, target, member, args)
    IN  IF con.kind # "ident" \/ con.name \notin DOMAIN k.names.traits THEN own
        ELSE IF methods = <<>>
          THEN IF own.error \in {"unknown associated function", "inherent target"}
                 THEN NoCallee("unknown trait method", s) ELSE own
        ELSE IF target.kind = "app" THEN ExplicitCall(k, s, trait, methods[1], AppArgs(target), args)
        ELSE TraitCall(k, s, trait, methods[1], args)

\* infer_call: the callee is a field access or a path
Resolve(k, s, call) ==
    IF call.stmt = "dot" THEN ReceiverCall(k, s, call.member, call.args)
    ELSE AssociatedCall(k, s, call.head[1], call.member, call.args)

\* resolve_dict_uses: a dictionary that was left open, with the types that are known now
Settled(k, s, callee) ==
    LET targs == AppliedAll(s, callee.targs)
    IN  IF Len(targs) = 1 THEN ConcreteDict(k, callee.trait, targs[1]) ELSE MultiDict(k, callee.trait, targs)

-----------------------------------------------------------------------------
(* A program, statement after statement.                                      *)

NothingKnown ==
    [names |-> EmptyScope, active |-> {}, schemes |-> [n \in {} |-> NoStmt], inherent |-> [n \in {} |-> NoStmt],
     functions |-> [n \in {} |-> NoStmt]]

MethodsInit ==
    /\ program \in Programs
    /\ reached = 0
    /\ known = NothingKnown
    /\ solution = NewSubst(OwnVars + 1)
    /\ choices = <<>>
    /\ failure = "none"

Good     == failure = "none"
Stmt     == program.stmts[reached]
AtKind(kinds) == Good /\ reached \in DOMAIN program.stmts /\ Stmt.stmt \in kinds

\* The passes over the declarations, which TypeSyntax looks at, and register_impl_dict_names.
Declare ==
    /\ Good /\ reached = 0
    /\ known' = [known EXCEPT !.names = FoldLeft(LAMBDA names, d : IF d.stmt = "trait" THEN InsertTrait(names, d)
                                                                   ELSE RegisterType(names, d), @, program.types),
                              !.active = RegisteredNames(program.stmts)]
    /\ reached' = 1
    /\ UNCHANGED <<program, solution, choices, failure>>

InferImpl ==
    /\ AtKind({"impl"})
    /\ LET refused == ImplError(known, Stmt)
           scheme  == ImplSchemeOf(known, solution, Stmt)
       IN  /\ failure' = IF refused # "none" THEN refused ELSE scheme.error
           /\ IF failure' # "none" THEN UNCHANGED <<known, solution>>
              ELSE /\ known' = [known EXCEPT !.schemes = (ImplName(known, Stmt) :> scheme.scheme) @@ @]
                   /\ solution' = [solution EXCEPT !.next = scheme.next]
    /\ reached' = reached + 1
    /\ UNCHANGED <<program, choices>>

InferInherentImpl ==
    /\ AtKind({"inherent"})
    /\ LET refused == InherentError(known, Stmt)
           added   == OwnMethodsOf(known, solution, Stmt)
       IN  /\ failure' = IF refused # "none" THEN refused ELSE added.error
           /\ IF failure' # "none" THEN UNCHANGED <<known, solution>>
              ELSE /\ known' = [known EXCEPT !.inherent = added.inherent]
                   /\ solution' = [solution EXCEPT !.next = added.next]
    /\ reached' = reached + 1
    /\ UNCHANGED <<program, choices>>

\* A function whose parameters and result are annotated.
InferFunction ==
    /\ AtKind({"function"})
    /\ LET conv == ConvertAll(known.names, Conversion(<<>>, solution.next), Places(Stmt.own[1]))
           ty   == ValueFunc(Front(conv.tys), Last(conv.tys))
       IN  /\ failure' = conv.error
           /\ solution' = [solution EXCEPT !.next = conv.next]
           /\ known' = IF conv.error # "none" THEN known
                       ELSE [known EXCEPT !.functions = (Stmt.member :> Generalized(ty, <<>>)) @@ @]
    /\ reached' = reached + 1
    /\ UNCHANGED <<program, choices>>

\* infer_call
InferCall ==
    /\ AtKind({"dot", "path"})
    /\ LET callee == CalleeOf(known, solution, Stmt)
       IN  /\ choices' = Append(choices, [at |-> reached, callee |-> callee])
           /\ failure' = callee.error
           /\ solution' = callee.s
    /\ reached' = reached + 1
    /\ UNCHANGED <<program, known>>

\* final_pass_stmt: what was left open is looked up with the types that are known now
FinishPending ==
    /\ Good /\ reached = Len(program.stmts) + 1
    /\ LET Answered(choice) ==
               IF choice.callee.kind # "pending" THEN choice
               ELSE [choice EXCEPT !.callee.kind = "dict", !.callee.dict = DictOf(known, solution, choice.callee)]
           settled == [j \in DOMAIN choices |-> Answered(choices[j])]
           left    == {j \in DOMAIN settled : settled[j].callee.kind = "dict" /\ settled[j].callee.dict = NoDict}
       IN  /\ choices' = settled
           /\ failure' = IF left # {} THEN "unresolved" ELSE "none"
    /\ reached' = reached + 1
    /\ UNCHANGED <<program, known, solution>>

MethodsNext == Declare \/ InferImpl \/ InferInherentImpl \/ InferFunction \/ InferCall \/ FinishPending

MethodsIdle ==
    /\ program = [types |-> <<>>, stmts |-> <<>>] /\ reached = 2 /\ known = NothingKnown
    /\ solution = NewSubst(0) /\ choices = <<>> /\ failure = "none"

-----------------------------------------------------------------------------
(* What a call may mean: an impl fits when its head, put for the parameters of  *)
(* its trait, makes the method take the arguments and give the result.           *)

Unmatched == [map |-> [name \in {} |-> Closed], ok |-> TRUE]

RECURSIVE Matched(_, _, _)                     \* a type read as an annotation, variables bound by name
Matched(b, ast, t) ==
    LET parts == Children(t)
    IN  CASE ast.kind = "hole" \/ ~b.ok -> b
          [] ast.kind = "var" ->
               IF ast.name \in DOMAIN b.map THEN [b EXCEPT !.ok = b.map[ast.name] = t]
               ELSE [b EXCEPT !.map = (ast.name :> t) @@ @]
          [] ast.kind = "ident" -> [b EXCEPT !.ok = t = NamedTy(ast.name)]
          [] ast.kind = "unit" -> [b EXCEPT !.ok = t = Closed]
          [] OTHER ->
               IF t.ty # ast.kind \/ Len(parts) # Len(ast.parts) THEN [b EXCEPT !.ok = FALSE]
               ELSE FoldLeftDomain(LAMBDA acc, k : Matched(acc, ast.parts[k], parts[k]), b, parts)

MatchedAll(asts, ts) ==
    IF Len(asts) # Len(ts) THEN [Unmatched EXCEPT !.ok = FALSE]
    ELSE FoldLeftDomain(LAMBDA acc, k : Matched(acc, asts[k], ts[k]), Unmatched, asts)

RECURSIVE Instance(_, _)
Instance(map, ast) ==
    LET parts == [k \in DOMAIN ast.parts |-> Instance(map, ast.parts[k])]
    IN  CASE ast.kind = "var" -> IF ast.name \in DOMAIN map THEN map[ast.name] ELSE Closed
          [] ast.kind = "ident" -> NamedTy(ast.name)
          [] ast.kind = "tuple" -> TTuple(parts)
          [] ast.kind = "app" -> TApp(Head(parts), Tail(parts))
          [] OTHER -> Closed

Impls(trait)   == {d \in Range(program.stmts) : d.stmt = "impl" /\ d.name = trait}
OwnImpls       == {d \in Range(program.stmts) : d.stmt = "inherent"}
HeadOf(d)      == LET params == known.names.traits[d.name].params IN [p \in Range(params) |-> d.head[PositionOf(params, p)]]
PlacesOf(d, m) == [k \in DOMAIN Places(m) |-> Replaced(Places(m)[k], HeadOf(d))]
PlacesOfOwn(d, m) ==
    LET places == [k \in DOMAIN Places(m) |-> SubstituteSelf(Places(m)[k], d.head[1])]
    IN  IF m.receiver THEN d.head \o places ELSE places

\* Of two impls that fit, the one for a single type is meant.
General(d) == UNION {AstVars(d.head[j]) : j \in DOMAIN d.head} # {} \/ \E j \in DOMAIN d.head : HasHole(d.head[j])

RECURSIVE Holds(_, _), DictFor(_, _, _)
\* Some impl, or the structure of a tuple, answers a bound.
Holds(trait, ts) ==
    \/ trait = "Eq" /\ ts[1].ty = "tuple" /\ \A t \in Range(ts[1].items) : Holds(trait, <<t>>)
    \/ \E d \in Impls(trait) :
          LET b == MatchedAll(d.head, ts)
          IN  b.ok /\ \A bound \in Range(d.bounds) : Holds(bound.trait, [k \in DOMAIN bound.args |-> Instance(b.map, bound.args[k])])

\* A dictionary answers a bound, and what it holds answers the bounds of its impl.
DictFor(dict, trait, ts) ==
    IF Structural(dict)
      THEN /\ trait = "Eq" /\ ts[1].ty = "tuple" /\ Len(dict.args) = Len(ts[1].items)
           /\ \A k \in DOMAIN dict.args : DictFor(dict.args[k], "Eq", <<ts[1].items[k]>>)
      ELSE \E d \in Impls(trait) :
              LET b == MatchedAll(d.head, ts)
              IN  /\ ImplName(known, d) = dict.dict /\ b.ok /\ Len(dict.args) = Len(d.bounds)
                  /\ \A k \in DOMAIN dict.args :
                         DictFor(dict.args[k], d.bounds[k].trait,
                                 [j \in DOMAIN d.bounds[k].args |-> Instance(b.map, d.bounds[k].args[j])])

BoundsHold(b, d) ==
    \A bound \in Range(d.bounds) : Holds(bound.trait, [k \in DOMAIN bound.args |-> Instance(b.map, bound.args[k])])
DictsFor(b, d, dicts) ==
    /\ Len(dicts) = Len(d.bounds)
    /\ \A k \in DOMAIN dicts : DictFor(dicts[k], d.bounds[k].trait,
                                       [j \in DOMAIN d.bounds[k].args |-> Instance(b.map, d.bounds[k].args[j])])

TraitMethod(d, member) == MethodNamed(known.names.traits[d.name].methods, member)[1]

\* The impls of a trait, and those of types, that fit the first types of a method.
Fitting(trait, member, ts) ==
    {d \in Impls(trait) : LET b == MatchedAll(SubSeq(PlacesOf(d, TraitMethod(d, member)), 1, Len(ts)), ts)
                          IN  b.ok /\ BoundsHold(b, d)}
HavingOwn(member, ts) ==
    {d \in OwnImpls : \E m \in Range(MethodNamed(d.own, member)) :
        m.receiver /\ Matched(Unmatched, d.head[1], ts[1]).ok}
WithMethod(member) ==
    {t \in DOMAIN known.names.traits : MethodNamed(known.names.traits[t].methods, member) # <<>>}
FittingTraits(member, ts) ==
    {t \in WithMethod(member) : Fitting(t, member, ts) # {}}

\* The dictionary of a call is of an impl that fits it, and of none for more types than another that fits.
DictMethodFits(call, c, args, ret) ==
    \E d \in Impls(c.trait) :
        LET ts == Append(args, ret)
            b  == MatchedAll(PlacesOf(d, TraitMethod(d, call.member)), ts)
        IN  /\ c.dict.dict = ImplName(known, d)
            /\ b.ok /\ DictsFor(b, d, c.dict.args)
            /\ General(d) => \A other \in Fitting(c.trait, call.member, ts) : General(other)
            /\ call.stmt = "dot" => HavingOwn(call.member, ts) = {}

OwnMethodFits(call, c, args, ret) ==
    \E d \in OwnImpls : \E m \in Range(MethodNamed(d.own, call.member)) :
        LET b == MatchedAll(PlacesOfOwn(d, m), Append(args, ret))
        IN  /\ c.key = InherentTargetKey(d.head[1], known.names.declared)
            /\ b.ok /\ DictsFor(b, d, c.dicts)
            /\ General(d) /\ call.stmt = "dot" => \A other \in HavingOwn(call.member, args) : General(other)
            /\ m.receiver /\ call.stmt = "path" => Matched(Unmatched, call.head[1], args[1]).ok \/ call.head[1].kind = "ident"

FunctionFits(call, args, ret) ==
    /\ HavingOwn(call.member, args) = {} /\ FittingTraits(call.member, args) = {}
    /\ \E d \in Range(program.stmts) : /\ d.stmt = "function" /\ d.member = call.member
                                       /\ MatchedAll(Places(d.own[1]), Append(args, ret)).ok

FieldFits(call, args, ret) ==
    /\ args[1].ty = "record"
    /\ \E k \in DOMAIN args[1].fields : args[1].fields[k] = <<call.member, ValueFunc(Tail(args), ret)>>

\* A refused call whose types are all known: there is nothing that fits, or too much.
RefusalIsRight(call, c, args) ==
    LET trait == IF call.stmt = "path" THEN (IF call.head[1].kind = "app" THEN AppCon(call.head[1]) ELSE call.head[1]).name ELSE ""
        several == FittingTraits(call.member, args)
    IN  CASE call.stmt = "path" /\ trait \in DOMAIN known.names.traits /\ call.head[1].kind = "ident" ->
               trait \in WithMethod(call.member) => Fitting(trait, call.member, args) = {}
          [] call.stmt = "dot" /\ HavingOwn(call.member, args) # {} ->
               \E d \in HavingOwn(call.member, args) :
                   LET m == MethodNamed(d.own, call.member)[1]
                       b == MatchedAll(SubSeq(PlacesOfOwn(d, m), 1, Len(args)), args)
                   IN  ~b.ok \/ Len(m.params) + 1 # Len(args) \/ ~BoundsHold(b, d)
          [] call.stmt = "dot" /\ HavingOwn(call.member, args) = {} ->
               /\ Cardinality(several) # 1
               /\ several = {} => \A d \in Range(program.stmts) :
                      d.stmt = "function" /\ d.member = call.member => ~MatchedAll(Front(Places(d.own[1])), args).ok
          [] OTHER -> TRUE

(* Every call of an accepted program runs the method its types ask for: that of   *)
(* the type before those of traits before functions, that of the impl for just     *)
(* this type before one for many, with the result the impl gives and, for each of    *)
(* its bounds, a dictionary that answers it; and a call is refused only if nothing   *)
(* fits or several traits do (receiver.rs, dispatch.rs, associated.rs, dicts.rs).   *)
(* The dictionary of a tuple has no name and only operators, which no call names: it  *)
(* may answer a bound and is never the one of a call, at which inference panics.     *)
MethodsFit ==
    LET Final(ts) == AppliedAll(solution, ts)
    IN  /\ Good /\ reached = Len(program.stmts) + 2 => \A choice \in Range(choices) :
              LET call == program.stmts[choice.at]
                  c    == choice.callee
                  args == Final(call.args)
                  ret  == ApplySubst(solution.map, c.ret)
              IN  CASE c.kind = "dict"     -> DictMethodFits(call, c, args, ret)
                    [] c.kind = "own"      -> OwnMethodFits(call, c, args, ret)
                    [] c.kind = "function" -> FunctionFits(call, args, ret)
                    [] c.kind = "field"    -> FieldFits(call, args, ret)
                    [] OTHER -> FALSE
        /\ ~Good /\ choices # <<>> /\ Last(choices).at = reached - 1 =>
              LET call == program.stmts[Last(choices).at]
                  args == Final(call.args)
              IN  (\A t \in Range(args) : FreeTypeVars(t) = {}) => RefusalIsRight(call, Last(choices).callee, args)
=============================================================================
