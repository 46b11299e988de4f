------------------------------- MODULE Derives -------------------------------
(***************************************************************************)
(* The expansion of #[derive(...)] (hern-core/src/derive.rs): behind each    *)
(* type of a program an impl for every trait it derives, whose methods are    *)
(* syntax trees, made before anything is known of types.                     *)
(*                                                                         *)
(* What the trees do is given by running them on the values of the type.     *)
(* Names stand for strings, and the text of to_string is the sequence of its  *)
(* parts.                                                                  *)
(***************************************************************************)
EXTENDS Integers, Sequences, SequencesExt, FiniteSets, FiniteSetsExt

CONSTANTS
    DerivingPrograms,   \* bound: the programs, sequences of statements
    SelfNesting              \* bound: how often a value holds a value of its own type

VARIABLES
    declared,           \* program.stmts
    drained,            \* how many of its statements were taken
    expanded            \* expanded

derivesVars == <<declared, drained, expanded>>

-----------------------------------------------------------------------------
(* Types as written, patterns and expressions.                              *)

NameT(name)       == [t |-> "name", name |-> name, args |-> <<>>]
VarT(name)        == [t |-> "var", name |-> name, args |-> <<>>]
AppT(name, args)  == [t |-> "app", name |-> name, args |-> args]
TupleT(items)     == [t |-> "tuple", name |-> "", args |-> items]

NoPayload == [t |-> "none", name |-> "", args |-> <<>>]

WildP           == [p |-> "wildcard"]
VarP(name)      == [p |-> "variable", name |-> name]
TupleP(names)   == [p |-> "tuple", names |-> names]
CtorP(name, payload) == [p |-> "constructor", name |-> name, payload |-> payload]
BareP(name)     == CtorP(name, <<>>)

IdentE(name)            == [e |-> "ident", name |-> name]
BoolE(value)            == [e |-> "bool", value |-> value]
TextE(text)             == [e |-> "text", text |-> text]
BinaryE(lhs, op, rhs)   == [e |-> "binary", op |-> op, lhs |-> lhs, rhs |-> rhs]
MatchE(scrutinee, arms) == [e |-> "match", scrutinee |-> scrutinee, arms |-> arms]
ArmE(pattern, body)     == [pattern |-> pattern, body |-> body]
TraitE(trait, member, args) == [e |-> "trait", trait |-> trait, member |-> member, args |-> args]
ConstructE(name, payload)   == [e |-> "construct", name |-> name, payload |-> payload]

\* compare_call, default_call, to_string_call and concat
CompareE(l, r)   == TraitE("Ord", "compare", <<l, r>>)
DefaultE         == TraitE("Default", "default", <<>>)
ToStringE(value) == TraitE("ToString", "to_string", <<value>>)
ConcatE(l, r)    == BinaryE(l, "<>", r)

LHS == IdentE("lhs")
RHS == IdentE("rhs")
LeftNames  == <<"__l0", "__l1", "__l2">>
RightNames == <<"__r0", "__r1", "__r2">>
ValueNames == <<"__value0", "__value1", "__value2">>
FirstNames(names, n) == SubSeq(names, 1, n)       \* tuple_payload_names

HasPayload(variant) == variant.payload # NoPayload
IsTuple(payload)    == payload.t = "tuple"

-----------------------------------------------------------------------------
(* Eq: equal variants compare their payload as a whole.                      *)

EqualityBody(variants, op) ==
    MatchE(LHS,
        [k \in DOMAIN variants |->
            LET variant == variants[k]
                holding(name) == CtorP(variant.name, IF HasPayload(variant) THEN <<VarP(name)>> ELSE <<>>)
            IN  ArmE(holding("__l0"),
                     MatchE(RHS,
                         << ArmE(holding("__r0"),
                                 IF HasPayload(variant)
                                   THEN BinaryE(IdentE("__l0"), op, IdentE("__r0"))
                                   ELSE BoolE(op = "==")),
                            ArmE(WildP, BoolE(op = "!=")) >>))])

EqMethods(variants) ==
    [method \in {"==", "!="} |-> EqualityBody(variants, method)]

(* ToString: the name, and a payload in parentheses.                         *)

ConcatFields(names) ==
    FoldLeft(ConcatE, ToStringE(IdentE(names[1])),
        FlattenSeq([k \in 1..Len(names) - 1 |-> <<TextE(", "), ToStringE(IdentE(names[k + 1]))>>]))

ToStringArm(variant) ==
    LET width   == Len(variant.payload.args)
        pattern == IF IsTuple(variant.payload) THEN TupleP(FirstNames(ValueNames, width)) ELSE VarP("__value")
        inner   == IF IsTuple(variant.payload)
                     THEN ConcatFields(FirstNames(ValueNames, width))
                     ELSE ToStringE(IdentE("__value"))
    IN  IF HasPayload(variant)
          THEN ArmE(CtorP(variant.name, <<pattern>>),
                    ConcatE(ConcatE(ConcatE(TextE(variant.name), TextE("(")), inner), TextE(")")))
          ELSE ArmE(BareP(variant.name), TextE(variant.name))

ToStringMethods(variants) ==
    [method \in {"to_string"} |->
        MatchE(IdentE("self"), [k \in DOMAIN variants |-> ToStringArm(variants[k])])]

(* Default: the marked variant, or the first empty one, or the first.        *)

DefaultVariant(variants) ==
    LET marked == SelectInSeq(variants, LAMBDA variant : variant.default)
        empty  == SelectInSeq(variants, LAMBDA variant : ~HasPayload(variant))
    IN  IF marked > 0 THEN variants[marked]
        ELSE IF empty > 0 THEN variants[empty] ELSE variants[1]

DefaultMethods(variants) ==
    LET variant == DefaultVariant(variants)
        payload == IF IsTuple(variant.payload)
                     THEN [e |-> "tuple", items |-> [k \in DOMAIN variant.payload.args |-> DefaultE]]
                     ELSE DefaultE
    IN  [method \in {"default"} |->
            IF HasPayload(variant) THEN ConstructE(variant.name, payload) ELSE IdentE(variant.name)]

(* Ord: compare by the order of the variants, then field by field; the       *)
(* operators by compare.                                                    *)

\* mutant: only the first field
CompareFields_FirstOnly(ls, rs, k) == CompareE(IdentE(ls[k]), IdentE(rs[k]))

RECURSIVE CompareFields(_, _, _)
CompareFields(ls, rs, k) ==
    IF k > Len(ls) THEN IdentE("EQ")
    ELSE MatchE(CompareE(IdentE(ls[k]), IdentE(rs[k])),
                << ArmE(BareP("LT"), IdentE("LT")),
                   ArmE(BareP("GT"), IdentE("GT")),
                   ArmE(BareP("EQ"), CompareFields(ls, rs, k + 1)) >>)

\* ord_payload_compare: the patterns that take the two payloads apart, and the comparison
PayloadCompare(payload) ==
    LET ls == FirstNames(LeftNames, Len(payload.args))
        rs == FirstNames(RightNames, Len(payload.args))
    IN  CASE payload = NoPayload -> [lhs |-> <<>>, rhs |-> <<>>, compare |-> IdentE("EQ")]
          [] IsTuple(payload) ->
               [lhs |-> <<TupleP(ls)>>, rhs |-> <<TupleP(rs)>>, compare |-> CompareFields(ls, rs, 1)]
          [] OTHER ->
               [lhs |-> <<VarP("__l0")>>, rhs |-> <<VarP("__r0")>>,
                compare |-> CompareE(IdentE("__l0"), IdentE("__r0"))]

CompareBody(variants) ==
    MatchE(LHS,
        [i \in DOMAIN variants |->
            LET taken == PayloadCompare(variants[i].payload)
            IN  ArmE(CtorP(variants[i].name, taken.lhs),
                     MatchE(RHS,
                         [j \in DOMAIN variants |->
                             IF i = j THEN ArmE(CtorP(variants[j].name, taken.rhs), taken.compare)
                             ELSE ArmE(CtorP(variants[j].name, IF HasPayload(variants[j]) THEN <<WildP>> ELSE <<>>),
                                       IdentE(IF i < j THEN "LT" ELSE "GT"))]))])

OrdMethods(variants) ==
    LET against(op, ordering) == BinaryE(CompareE(LHS, RHS), op, IdentE(ordering))
    IN  [method \in {"<", ">", "<=", ">=", "compare"} |->
            CASE method = "<"  -> against("==", "LT")
              [] method = ">"  -> against("==", "GT")
              [] method = "<=" -> against("!=", "GT")
              [] method = ">=" -> against("!=", "LT")
              [] OTHER -> CompareBody(variants)]

-----------------------------------------------------------------------------
(* The impl of a trait: its target, the bounds on the type's parameters and   *)
(* its methods.                                                            *)

RECURSIVE UsedParams(_)                       \* collect_used_type_params
UsedParams(ty) ==
    (IF ty.t = "var" THEN {ty.name} ELSE {})
        \union UNION {UsedParams(ty.args[k]) : k \in DOMAIN ty.args}

BoundsFor(types, params) ==
    LET used == UNION {UsedParams(ty) : ty \in types}
    IN  SelectSeq(params, LAMBDA param : param \in used)

ImplTarget(def) ==
    IF def.params = <<>> THEN NameT(def.name)
    ELSE AppT(def.name, [k \in DOMAIN def.params |-> VarT(def.params[k])])

PayloadTypes(variants) == {variants[k].payload : k \in DOMAIN variants}

DerivedImpl(def, trait) ==
    [stmt    |-> "impl",
     trait   |-> trait,
     target  |-> ImplTarget(def),
     bounds  |-> BoundsFor(IF trait = "Default" THEN {DefaultVariant(def.variants).payload}
                           ELSE PayloadTypes(def.variants),
                           def.params),
     methods |-> CASE trait = "Eq"       -> EqMethods(def.variants)
                   [] trait = "Ord"      -> OrdMethods(def.variants)
                   [] trait = "Default"  -> DefaultMethods(def.variants)
                   [] trait = "ToString" -> ToStringMethods(def.variants)]

\* lower_type_derives: the impls, and the type without its derives
LowerTypeDerives(def) ==
    [type  |-> [def EXCEPT !.derives = <<>>],
     impls |-> LET traits == FlattenSeq(def.derives)
               IN  [k \in DOMAIN traits |-> DerivedImpl(def, traits[k])]]

DerivesInit ==
    /\ declared \in DerivingPrograms
    /\ drained = 0
    /\ expanded = <<>>

ExpandStatement ==
    /\ drained < Len(declared)
    /\ LET stmt  == declared[drained + 1]
           lowered == LowerTypeDerives(stmt)
       IN  expanded' = expanded \o (IF stmt.stmt = "type"
                                      THEN <<lowered.type>> \o lowered.impls
                                      ELSE <<stmt>>)
    /\ drained' = drained + 1
    /\ UNCHANGED declared

DerivesIdle == declared = <<>> /\ drained = 0 /\ expanded = <<>>

-----------------------------------------------------------------------------
(* Running the generated methods.  A value is a number, a tuple, or a variant *)
(* of the type with its payload; a number that stands for a type parameter    *)
(* has the methods of a trait only under a bound on that parameter.          *)

NoResult == [v |-> "stuck"]
Num(n)              == [v |-> "num", n |-> n, param |-> ""]
Abstract(n, param)  == [v |-> "num", n |-> n, param |-> param]
Tup(items)          == [v |-> "tuple", items |-> items]
Tagged(name, payload) == [v |-> "variant", name |-> name, payload |-> payload]
Truth(b)            == [v |-> "bool", b |-> b]
Shown(parts)        == [v |-> "text", parts |-> parts]
Constant(name)      == Tagged(name, <<>>)

NumberName(n) == IF n = 0 THEN "0" ELSE "1"
OrderOf(a, b) == IF a < b THEN "LT" ELSE IF a > b THEN "GT" ELSE "EQ"

\* The names a pattern binds, for a value it matches.
Matches(pattern, value) ==
    CASE pattern.p = "constructor" -> value.v = "variant" /\ value.name = pattern.name
      [] pattern.p = "tuple" -> value.v = "tuple" /\ Len(value.items) = Len(pattern.names)
      [] OTHER -> TRUE

RECURSIVE Binds(_, _)
Binds(pattern, value) ==
    CASE pattern.p = "variable" -> <<[name |-> pattern.name, value |-> value]>>
      [] pattern.p = "tuple" ->
           [k \in DOMAIN pattern.names |-> [name |-> pattern.names[k], value |-> value.items[k]]]
      [] pattern.p = "constructor" /\ pattern.payload # <<>> -> Binds(pattern.payload[1], value.payload[1])
      [] OTHER -> <<>>

\* A method of impl on the values of env; a trait's method on a value of the type itself
\* is the impl's, on a number the builtin one, and tuples have none but equality.
RECURSIVE Run(_, _, _), RunEqual(_, _, _)
RunEqual(impl, a, b) ==
    CASE a.v = "tuple" ->
           LET each == {RunEqual(impl, a.items[k], b.items[k]) : k \in DOMAIN a.items}
           IN  IF NoResult \in each THEN NoResult ELSE Truth(\A one \in each : one.b)
      [] a.v = "num" -> IF a.param \in {""} \union ToSet(impl.bounds) THEN Truth(a.n = b.n) ELSE NoResult
      [] a.v = "variant" /\ impl.trait = "Eq" ->
           Run(impl, impl.methods["=="], <<[name |-> "lhs", value |-> a], [name |-> "rhs", value |-> b]>>)
      [] a.v = "variant" /\ impl.trait = "Ord" -> Truth(a = b)     \* two Orderings
      [] OTHER -> NoResult

Run(impl, expr, env) ==
    CASE expr.e = "ident" ->
           LET at == SelectLastInSeq(env, LAMBDA bound : bound.name = expr.name)
           IN  IF at > 0 THEN env[at].value ELSE Constant(expr.name)
      [] expr.e = "bool" -> Truth(expr.value)
      [] expr.e = "text" -> Shown(<<expr.text>>)
      [] expr.e = "tuple" -> Tup([k \in DOMAIN expr.items |-> Run(impl, expr.items[k], env)])
      [] expr.e = "binary" ->
           LET a == Run(impl, expr.lhs, env)
               b == Run(impl, expr.rhs, env)
               equal == RunEqual(impl, a, b)
           IN  IF NoResult \in {a, b} THEN NoResult
               ELSE IF expr.op = "<>" THEN Shown(a.parts \o b.parts)
               ELSE IF equal = NoResult THEN NoResult
               ELSE Truth(equal.b = (expr.op = "=="))
      [] expr.e = "match" ->
           LET value == Run(impl, expr.scrutinee, env)
               chosen == SelectInSeq(expr.arms, LAMBDA arm : Matches(arm.pattern, value))
           IN  IF value = NoResult \/ chosen = 0 THEN NoResult
               ELSE Run(impl, expr.arms[chosen].body, env \o Binds(expr.arms[chosen].pattern, value))
      [] expr.e = "trait" /\ expr.args # <<>> ->
           LET values == [k \in DOMAIN expr.args |-> Run(impl, expr.args[k], env)]
               first  == values[1]
           IN  CASE first.v = "num" /\ first.param \in {""} \union ToSet(impl.bounds) ->
                      IF expr.member = "compare" THEN Constant(OrderOf(first.n, values[2].n))
                      ELSE Shown(<<NumberName(first.n)>>)
                 [] first.v = "variant" ->
                      Run(impl, impl.methods[expr.member],
                          IF expr.member = "compare"
                            THEN <<[name |-> "lhs", value |-> first], [name |-> "rhs", value |-> values[2]]>>
                            ELSE <<[name |-> "self", value |-> first]>>)
                 [] OTHER -> NoResult
      [] OTHER -> NoResult

-----------------------------------------------------------------------------
(* What the traits promise, said of values.                                 *)

RECURSIVE ValuesOf(_, _, _)
ValuesOf(def, ty, depth) ==
    CASE ty.t = "var" -> {Abstract(n, ty.name) : n \in 0..1}
      [] ty.t = "tuple" ->
           IF Len(ty.args) = 2
             THEN {Tup(<<a, b>>) : a \in ValuesOf(def, ty.args[1], depth), b \in ValuesOf(def, ty.args[2], depth)}
             ELSE {Tup(<<a, b, c>>) : a \in ValuesOf(def, ty.args[1], depth),
                                      b \in ValuesOf(def, ty.args[2], depth),
                                      c \in ValuesOf(def, ty.args[3], depth)}
      [] ty.name = def.name ->
           UNION {LET payload == def.variants[k].payload
                  IN  IF payload = NoPayload THEN {Constant(def.variants[k].name)}
                      ELSE IF depth = 0 THEN {}
                      ELSE {Tagged(def.variants[k].name, <<v>>) : v \in ValuesOf(def, payload, depth - 1)}
                    : k \in DOMAIN def.variants}
      [] OTHER -> {Num(n) : n \in 0..1}

Ordinal(def, name) == CHOOSE k \in DOMAIN def.variants : def.variants[k].name = name

\* Before: by variant, then by payload from the left.
RECURSIVE Precedes(_, _, _)
Precedes(def, a, b) ==
    CASE a.v = "num" -> a.n < b.n
      [] a.v = "tuple" ->
           \E k \in DOMAIN a.items : /\ Precedes(def, a.items[k], b.items[k])
                                     /\ \A j \in 1..(k - 1) : a.items[j] = b.items[j]
      [] OTHER -> \/ Ordinal(def, a.name) < Ordinal(def, b.name)
                  \/ a.name = b.name /\ a.payload # <<>> /\ Precedes(def, a.payload[1], b.payload[1])

RECURSIVE Rendered(_)
Rendered(value) ==
    CASE value.v = "num" -> <<NumberName(value.n)>>
      [] value.payload = <<>> -> <<value.name>>
      [] value.payload[1].v = "tuple" ->
           <<value.name, "(">>
              \o FoldLeft(LAMBDA text, item : text \o (IF text = <<>> THEN <<>> ELSE <<", ">>) \o Rendered(item),
                          <<>>, value.payload[1].items)
              \o <<")">>
      [] OTHER -> <<value.name, "(">> \o Rendered(value.payload[1]) \o <<")">>

\* The least value with a default: the parts of a payload have theirs.
RECURSIVE DefaultOf(_, _)
DefaultOf(ty, bounds) ==
    CASE ty.t = "tuple" -> Tup([k \in DOMAIN ty.args |-> DefaultOf(ty.args[k], bounds)])
      [] ty.t = "var" -> IF ty.name \in ToSet(bounds) THEN Abstract(0, ty.name) ELSE NoResult
      [] OTHER -> Num(0)

\* default() stands where the payload's type is known, item by item.
RunDefault(impl, expr, payload) ==
    CASE expr.e = "ident" -> Constant(expr.name)
      [] expr.e = "construct" /\ expr.payload.e = "tuple" ->
           Tagged(expr.name, <<Tup([k \in DOMAIN expr.payload.items |-> DefaultOf(payload.args[k], impl.bounds)])>>)
      [] OTHER -> Tagged(expr.name, <<DefaultOf(payload, impl.bounds)>>)

Pairing(a, b) == <<[name |-> "lhs", value |-> a], [name |-> "rhs", value |-> b]>>

LawfulEq(def, impl, values) ==
    \A a, b \in values : /\ Run(impl, impl.methods["=="], Pairing(a, b)) = Truth(a = b)
                         /\ Run(impl, impl.methods["!="], Pairing(a, b)) = Truth(a # b)

LawfulOrd(def, impl, values) ==
    \A a, b \in values :
        LET does(method) == Run(impl, impl.methods[method], Pairing(a, b))
            before == Precedes(def, a, b)
            after  == Precedes(def, b, a)
        IN  /\ does("compare") = Constant(IF before THEN "LT" ELSE IF after THEN "GT" ELSE "EQ")
            /\ (~before /\ ~after) <=> a = b
            /\ does("<") = Truth(before) /\ does(">") = Truth(after)
            /\ does("<=") = Truth(~after) /\ does(">=") = Truth(~before)

LawfulToString(def, impl, values) ==
    \A a \in values :
        Run(impl, impl.methods["to_string"], <<[name |-> "self", value |-> a]>>) = Shown(Rendered(a))

\* The default is a value of the type: of the marked variant, otherwise without payload if any is.
LawfulDefault(def, impl, values) ==
    LET chosen  == DefaultVariant(def.variants)
        value   == RunDefault(impl, impl.methods["default"], chosen.payload)
    IN  /\ value \in values
        /\ \A k \in DOMAIN def.variants : def.variants[k].default => value.name = def.variants[k].name
        /\ \/ value.payload = <<>>
           \/ \E k \in DOMAIN def.variants : def.variants[k].default
           \/ \A k \in DOMAIN def.variants : HasPayload(def.variants[k])

\* A bound is on a parameter that a payload mentions, once, in the order of the parameters.
BoundsAreNeeded(def, impl) ==
    /\ IsInjective(impl.bounds)
    /\ \A k \in DOMAIN impl.bounds : \E i \in DOMAIN def.variants : impl.bounds[k] \in UsedParams(def.variants[i].payload)

\* The statement that declares the type which an expanded impl stands behind.
DeclarationOf(k) == Max({j \in 1..k : expanded[j].stmt = "type"})

(* The impls that derive puts behind a type keep the promises of their traits:  *)
(* == and != decide equality, compare and the four operators one total order -   *)
(* the variants as declared, then payloads from the left -, to_string gives each  *)
(* value its text, default is a value of the right variant; with no method of a   *)
(* type parameter but under the bounds that the impl states, and each derive of   *)
(* each type of the program has its impl and is gone (derive.rs).              *)
DerivedMethodsAreLawful ==
    \A k \in DOMAIN expanded :
        expanded[k].stmt = "impl" /\ expanded[k].trait # "Hand" =>
            LET def    == expanded[DeclarationOf(k)]
                impl   == expanded[k]
                values == ValuesOf(def, ImplTarget(def), SelfNesting)
            IN  /\ def.derives = <<>>
                /\ impl.target.name = def.name
                /\ BoundsAreNeeded(def, impl)
                /\ CASE impl.trait = "Eq"       -> LawfulEq(def, impl, values)
                     [] impl.trait = "Ord"      -> LawfulOrd(def, impl, values)
                     [] impl.trait = "ToString" -> LawfulToString(def, impl, values)
                     [] impl.trait = "Default"  -> LawfulDefault(def, impl, values)
=============================================================================
