------------------------------ MODULE TypeSyntax ------------------------------
(***************************************************************************)
(* Types as written: what a program declares (types/infer/decls.rs, state.rs, *)
(* env.rs), how an annotation becomes a type (types/infer/type_convert.rs),    *)
(* and the keys under which impls are kept and looked up                      *)
(* (types/type_syntax.rs).                                                  *)
(*                                                                         *)
(* A key is the sequence of the names that the code joins with underscores.    *)
(* Fields are numbers in the order of their names.                            *)
(***************************************************************************)
EXTENDS Unification

CONSTANTS
    Declarations,   \* bound: the programs, sequences of declarations
    Annotations     \* bound: the types that are written under each of them

VARIABLES
    declarations,   \* program.stmts
    phase,          \* the pass over the declarations that runs
    passed,         \* how many declarations that pass has seen
    scope,          \* types and traits: TypeScope and TraitScope
    constructors,   \* the environment: constructor |-> [vars, payload, of]
    refusal,        \* the first error, or "none"
    annotation,     \* what is converted
    converted       \* its conversion

typeSyntaxVars ==
    <<declarations, phase, passed, scope, constructors, refusal, annotation, converted>>

-----------------------------------------------------------------------------
(* Types as the parser gives them: a kind, a name, the types inside, and, for  *)
(* a record, the names of its fields, for a function, which places are mutable.  *)

TypeAst(kind, name, parts, marks) == [kind |-> kind, name |-> name, parts |-> parts, marks |-> marks]
IdentA(name)      == TypeAst("ident", name, <<>>, <<>>)
VarA(name)        == TypeAst("var", name, <<>>, <<>>)
HoleA             == TypeAst("hole", "", <<>>, <<>>)
UnitA             == TypeAst("unit", "", <<>>, <<>>)
AppA(con, args)   == TypeAst("app", "", <<con>> \o args, <<>>)
TupleA(items)     == TypeAst("tuple", "", items, <<>>)
FuncA(params, ret, places) == TypeAst("func", "", Append(params, ret), places)
RecordA(fields, types, open) == TypeAst("record", IF open THEN "open" ELSE "closed", types, fields)
NoneA             == TypeAst("none", "", <<>>, <<>>)

IsVar(ast, name) == ast.kind = "var" /\ ast.name = name
AppArgs(ast)     == Tail(ast.parts)
AppCon(ast)      == ast.parts[1]

RECURSIVE AstVars(_), HasHole(_)
AstVars(ast) ==
    (IF ast.kind = "var" THEN {ast.name} ELSE {}) \union UNION {AstVars(part) : part \in Range(ast.parts)}
HasHole(ast) ==
    ast.kind = "hole" \/ (ast.kind = "app" /\ \E part \in Range(ast.parts) : HasHole(part))

RECURSIVE SubstituteHole(_, _), SubstHktParam(_, _, _), SubstituteSelf(_, _)
SubstituteHole(ast, arg) ==
    CASE ast.kind = "hole" -> arg
      [] ast.kind = "app" -> [ast EXCEPT !.parts = [k \in DOMAIN @ |-> SubstituteHole(@[k], arg)]]
      [] OTHER -> ast

ApplyHole(target, arg) == IF HasHole(target) THEN SubstituteHole(target, arg) ELSE AppA(target, <<arg>>)

SubstHktParam(ast, param, target) ==
    CASE ast.kind = "app" /\ IsVar(AppCon(ast), param) ->
           IF Len(AppArgs(ast)) = 1
             THEN ApplyHole(target, SubstHktParam(AppArgs(ast)[1], param, target))
             ELSE ast
      [] IsVar(ast, param) -> target
      [] OTHER -> [ast EXCEPT !.parts = [k \in DOMAIN @ |-> SubstHktParam(@[k], param, target)]]

\* One parameter after the other.
SubstParams(ast, params, args) ==
    FoldLeftDomain(LAMBDA acc, k : SubstHktParam(acc, params[k], args[k]), ast, params)

SubstituteSelf(ast, target) ==
    IF ast.kind = "ident" /\ ast.name = "Self" THEN target
    ELSE [ast EXCEPT !.parts = [k \in DOMAIN @ |-> SubstituteSelf(@[k], target)]]

-----------------------------------------------------------------------------
(* Keys.  A type that has no key has the empty one.                           *)

NoKey == <<>>
AppMark(n)   == CASE n = 1 -> "app1" [] n = 2 -> "app2" [] OTHER -> "app"
TupleMark(n) == CASE n = 2 -> "tuple2" [] n = 3 -> "tuple3" [] OTHER -> "tuple"

\* Unit and () are one type.
NamedTy(name) == IF name = "Unit" THEN Closed ELSE TCon(name)

\* The keys of all parts in a row, unless one has none.
JoinKeys(mark, keys) == IF NoKey \in Range(keys) THEN NoKey ELSE mark \o FlattenSeq(keys)

RECURSIVE ExactKey(_)                          \* exact_impl_target_key_from_ast
ExactKey(ast) ==
    LET keys == [k \in DOMAIN ast.parts |-> ExactKey(ast.parts[k])]
    IN  CASE ast.kind = "ident" -> <<ast.name>>
          [] ast.kind = "app" ->
               JoinKeys(<<>>, <<keys[1], <<AppMark(Len(keys) - 1)>>>> \o Tail(keys))
          [] ast.kind = "tuple" -> JoinKeys(<<TupleMark(Len(keys))>>, keys)
          [] OTHER -> NoKey

\* generic_trait_impl_args: different variables, at most one argument left open
GenericArgs(args) ==
    /\ \A k \in DOMAIN args : args[k].kind \in {"var", "hole"}
    /\ Cardinality({k \in DOMAIN args : args[k].kind = "hole"}) <= 1
    /\ \A j, k \in DOMAIN args : j # k => args[j] # args[k]

RECURSIVE TraitTargetKey(_)                    \* trait_impl_target_key_from_ast
TraitTargetKey(ast) ==
    CASE ast.kind \in {"ident", "tuple"} -> ExactKey(ast)
      [] ast.kind = "app" ->
           IF ExactKey(ast) # NoKey THEN ExactKey(ast)
           ELSE IF GenericArgs(AppArgs(ast)) THEN TraitTargetKey(AppCon(ast))
           ELSE NoKey
      [] OTHER -> NoKey

\* impl_arg_pattern_key_from_ast
ImplArgKey(ast) == IF ast.kind \in {"var", "hole"} THEN <<"_">> ELSE TraitTargetKey(ast)

NamedTarget(ast, declared) ==
    ast.kind = "ident" /\ ast.name \in declared \union {"string", "int", "float", "bool"}

InherentTargetKey(ast, declared) ==
    CASE ast.kind = "ident" -> IF NamedTarget(ast, declared) THEN <<ast.name>> ELSE NoKey
      [] ast.kind = "app" ->
           IF ~NamedTarget(AppCon(ast), declared) THEN NoKey
           ELSE IF \A arg \in Range(AppArgs(ast)) : arg.kind = "var"
             THEN IF IsInjective(AppArgs(ast)) THEN <<AppCon(ast).name>> ELSE NoKey
             ELSE ExactKey(ast)
      [] OTHER -> NoKey

\* Where a path Type::member looks: the type as written, then its constructor.
InherentTargetKeys(ast, declared) ==
    LET primary == InherentTargetKey(ast, declared)
    IN  IF primary = NoKey THEN <<>>
        ELSE IF ast.kind = "app" /\ primary # <<AppCon(ast).name>>
               THEN <<primary, <<AppCon(ast).name>>>> ELSE <<primary>>

RECURSIVE ExactKeyOfType(_)                    \* exact_impl_target_key_from_ty
ExactKeyOfType(t) ==
    LET parts == Children(t)
        keys  == [k \in DOMAIN parts |-> ExactKeyOfType(parts[k])]
    IN  CASE t.ty = "con" -> <<IF t = Closed THEN "Unit" ELSE t.name>>
          [] t.ty = "app" -> JoinKeys(<<>>, <<keys[1], <<AppMark(Len(keys) - 1)>>>> \o Tail(keys))
          [] t.ty = "tuple" -> JoinKeys(<<TupleMark(Len(keys))>>, keys)
          [] OTHER -> NoKey

KeysOfType_GenericFirst(t) ==
    SelectSeq(IF t.ty = "app" THEN <<ExactKeyOfType(t.con), ExactKeyOfType(t)>> ELSE <<ExactKeyOfType(t)>>,
              LAMBDA key : key # NoKey)

\* trait_impl_target_keys_from_ty, which inherent_impl_target_keys_from_ty is too
KeysOfType(t) ==
    SelectSeq(IF t.ty = "app" THEN <<ExactKeyOfType(t), ExactKeyOfType(t.con)>> ELSE <<ExactKeyOfType(t)>>,
              LAMBDA key : key # NoKey)

\* trait_impl_arg_key_candidates_from_ty
KeyCandidates(t) == Append(KeysOfType(t), <<"_">>)

-----------------------------------------------------------------------------
(* Annotations.  An error stays; otherwise ty is the type of what was converted *)
(* last, vars has the variables of the names met so far and next the next one.   *)

Conversion(vars, next) == [error |-> "none", vars |-> vars, next |-> next, stack |-> <<>>, ty |-> Closed, tys |-> <<>>]
Refused(c, error) == IF c.error = "none" THEN [c EXCEPT !.error = error] ELSE c
Become(c, t)      == IF c.error = "none" THEN [c EXCEPT !.ty = t] ELSE c
NewVar(c)         == [c EXCEPT !.ty = TVar(c.next), !.next = @ + 1]

RECURSIVE AstToTy(_, _, _), ExpandAlias(_, _, _, _)
ConvertAll(names, c, asts) ==                 \* the types one after the other, in tys
    FoldLeft(LAMBDA acc, ast : LET one == AstToTy(names, acc, ast)
                               IN  [one EXCEPT !.tys = Append(acc.tys, one.ty)],
             [c EXCEPT !.tys = <<>>], asts)

\* expand_type_alias: an alias inside itself has no expansion
ExpandAlias_KeptOnStack(names, c, name, body) ==
    IF name \in Range(c.stack) THEN Refused(c, "recursive alias")
    ELSE AstToTy(names, [c EXCEPT !.stack = Append(@, name)], body)

ExpandAlias(names, c, name, body) ==
    IF name \in Range(c.stack) THEN Refused(c, "recursive alias")
    ELSE [AstToTy(names, [c EXCEPT !.stack = Append(@, name)], body) EXCEPT !.stack = c.stack]

ConvertIdent(names, c, name) ==
    IF name \in DOMAIN names.aliases
      THEN IF names.aliases[name].params # <<>> THEN Refused(c, "alias arity")
           ELSE ExpandAlias(names, c, name, names.aliases[name].body)
    ELSE IF name \in {"int", "float", "Unit"} \union names.declared THEN Become(c, NamedTy(name))
    ELSE Refused(c, "unknown type")

ConvertApp(names, c, con, args) ==
    LET named == con.kind = "ident"
        all   == ConvertAll(names, c, <<con>> \o args)
    IN  IF named /\ con.name \in DOMAIN names.aliases
          THEN LET alias == names.aliases[con.name]
               IN  IF Len(alias.params) # Len(args) THEN Refused(c, "alias arity")
                   ELSE ExpandAlias(names, c, con.name, SubstParams(alias.body, alias.params, args))
        ELSE IF named /\ con.name \in DOMAIN names.arities /\ names.arities[con.name] # Len(args)
          THEN Refused(c, "constructor arity")
        ELSE Become(all, TApp(Head(all.tys), Tail(all.tys)))

ConvertRecord(names, c, ast) ==
    LET all    == ConvertAll(names, c, ast.parts)
        fields == SortedFields([k \in DOMAIN all.tys |-> <<ast.marks[k], all.tys[k]>>])
        tail   == IF ast.name = "open" THEN NewVar(all) ELSE Become(all, Closed)
    IN  IF all.error # "none" THEN all
        ELSE IF ~IsInjective(ast.marks) THEN Refused(all, "duplicate field")
        ELSE Become(tail, TRecord(fields, tail.ty))

AstToTy(names, c, ast) ==                     \* ast_to_ty_with_vars_inner
    LET all == ConvertAll(names, c, ast.parts)
    IN  CASE c.error # "none" -> c
          [] ast.kind = "ident" -> ConvertIdent(names, c, ast.name)
          [] ast.kind = "unit" -> Become(c, Closed)
          [] ast.kind = "hole" -> NewVar(c)
          [] ast.kind = "var" ->
               IF ast.name \in DOMAIN c.vars THEN Become(c, TVar(c.vars[ast.name]))
               ELSE [NewVar(c) EXCEPT !.vars = (ast.name :> c.next) @@ @]
          [] ast.kind = "tuple" -> Become(all, TTuple(all.tys))
          [] ast.kind = "func" -> Become(all, TFunc(Front(all.tys), ast.marks, Last(all.tys)))
          [] ast.kind = "app" -> ConvertApp(names, c, AppCon(ast), AppArgs(ast))
          [] ast.kind = "record" -> ConvertRecord(names, c, ast)

PositionOf(seq, e) == SelectInSeq(seq, LAMBDA x : x = e)

\* Variables for the parameters of a type, in their order, and the next free one.
ParamVars(params, next) ==
    [vars |-> [p \in Range(params) |-> next + PositionOf(params, p) - 1], next |-> next + Len(params)]

-----------------------------------------------------------------------------
(* Declarations.                                                            *)

Declaration(kind, name, params) ==
    [stmt |-> kind, name |-> name, params |-> params, body |-> NoneA, variants |-> <<>>,
     methods |-> <<>>, dependents |-> 0]
TypeDecl(name, params, variants) == [Declaration("type", name, params) EXCEPT !.variants = variants]
AliasDecl(name, params, body)    == [Declaration("alias", name, params) EXCEPT !.body = body]
TraitDecl(name, params, dependents, methods) ==
    [Declaration("trait", name, params) EXCEPT !.dependents = dependents, !.methods = methods]
VariantDecl(name, payload) == [name |-> name, payload |-> payload]
MethodDecl(name, params, ret, operator) == [name |-> name, params |-> params, ret |-> ret, operator |-> operator]

\* What the prelude declares of it.
EmptyScope ==
    [declared |-> {"string", "bool"}, arities |-> [name \in {"string", "bool"} |-> 0],
     aliases |-> [name \in {} |-> NoneA], traits |-> [name \in {} |-> NoneA],
     operators |-> [op \in {} |-> ""], variants |-> [name \in {} |-> NoneA], next |-> 1]

\* trait_dict_indexes: the parameters that select the impl
Determinants(trait) == 1..(Len(trait.params) - trait.dependents)

\* validate_type_trait_name_collisions
NamesCollide(stmts, names) ==
    LET types  == names.declared \union {d.name : d \in {e \in Range(stmts) : e.stmt \in {"type", "alias"}}}
        traits == DOMAIN names.traits \union {d.name : d \in {e \in Range(stmts) : e.stmt = "trait"}}
    IN  types \intersect traits # {}

\* register_type_declarations, for one statement
RegisterType(names, d) ==
    LET named == [names EXCEPT !.declared = @ \union {d.name}, !.arities = (d.name :> Len(d.params)) @@ @]
    IN  CASE d.stmt = "type" -> named
          [] d.stmt = "alias" -> [named EXCEPT !.aliases = (d.name :> [params |-> d.params, body |-> d.body]) @@ @]
          [] OTHER -> names

\* build_variant_env_from_stmts and resolve_variant_payload_types: the payload that a pattern takes apart
PatternPayload_ForgetsParams(names, params, payload) == AstToTy(names, Conversion(<<>>, params.next), payload)
PatternPayload(names, params, payload) == AstToTy(names, Conversion(params.vars, params.next), payload)

ResolvePayloads(names, stmts) ==
    LET Resolve(acc, type, variant) ==
            LET params  == ParamVars(type.params, acc.next)
                payload == PatternPayload(acc, params, variant.payload)
                given   == variant.payload.kind # "none" /\ payload.error = "none"
            IN  [acc EXCEPT !.next = IF given THEN payload.next ELSE params.next,
                            !.variants = (variant.name :> [of |-> type.name,
                                                           vars |-> [k \in DOMAIN type.params |-> params.vars[type.params[k]]],
                                                           payload |-> IF given THEN <<payload.ty>> ELSE <<>>]) @@ @]
    IN  FoldLeft(LAMBDA acc, d : FoldLeft(LAMBDA acc2, v : Resolve(acc2, d, v), acc, d.variants), names,
                 SelectSeq(stmts, LAMBDA d : d.stmt = "type"))

\* validate_trait_methods_have_target and insert_trait
TraitError(names, d) ==
    LET reached == UNION {UNION {AstVars(ast) : ast \in Range(m.params) \union {m.ret}} : m \in Range(d.methods)}
    IN  IF \E m \in Range(d.methods) :
              Range(d.params) \intersect UNION {AstVars(ast) : ast \in Range(m.params) \union {m.ret}} = {}
          THEN "method without target"
        ELSE IF \E k \in DOMAIN d.params \ Determinants(d) : d.params[k] \notin reached
          THEN "dependent not reached"
        ELSE IF \E m \in Range(d.methods) : m.operator /\ Len(m.params) # 2 THEN "operator arity"
        ELSE IF \E m \in Range(d.methods) : /\ m.operator /\ m.name \in DOMAIN names.operators
                                            /\ names.operators[m.name] # d.name
          THEN "duplicate operator"
        ELSE "none"

InsertTrait(names, d) ==
    [names EXCEPT !.traits = (d.name :> d) @@ @,
                  !.operators = [op \in {m.name : m \in {n \in Range(d.methods) : n.operator}} |-> d.name] @@ @]

\* add_constructors_to_env: the constructors of a type, quantified over its parameters
AddConstructors(names, d) ==
    LET params == ParamVars(d.params, names.next)
        ordered == [k \in DOMAIN d.params |-> params.vars[d.params[k]]]
        Add(acc, v) ==
            LET payload == AstToTy(names, Conversion(params.vars, acc.next), v.payload)
                given   == v.payload.kind # "none"
            IN  IF acc.error # "none" THEN acc
                ELSE IF ~given THEN [acc EXCEPT !.new = (v.name :> [of |-> d.name, vars |-> ordered, payload |-> <<>>]) @@ @]
                ELSE [acc EXCEPT !.error = payload.error, !.next = payload.next,
                                 !.new = (v.name :> [of |-> d.name, vars |-> ordered, payload |-> <<payload.ty>>]) @@ @]
    IN  FoldLeft(Add, [error |-> "none", next |-> params.next, new |-> [name \in {} |-> NoneA]], d.variants)

-----------------------------------------------------------------------------
(* One pass after the other, as infer_program_with_seed_and_types.             *)

TypeSyntaxInit ==
    /\ declarations \in Declarations
    /\ phase = "names" /\ passed = 0
    /\ scope = EmptyScope
    /\ constructors = [name \in {} |-> NoneA]
    /\ refusal = "none"
    /\ annotation = NoneA /\ converted = Conversion(<<>>, 1)

Accepted == refusal = "none"
Next1 == declarations[passed + 1]
Ahead == passed < Len(declarations)

CheckNames ==
    /\ phase = "names"
    /\ refusal' = IF NamesCollide(declarations, scope) THEN "type and trait" ELSE "none"
    /\ phase' = "types"
    /\ UNCHANGED <<declarations, passed, scope, constructors, annotation, converted>>

RegisterTypeDeclaration ==
    /\ Accepted /\ phase = "types" /\ Ahead
    /\ IF Next1.stmt \in {"type", "alias"} /\ ~IsInjective(Next1.params)
         THEN refusal' = "duplicate parameter" /\ UNCHANGED scope
         ELSE scope' = RegisterType(scope, Next1) /\ UNCHANGED refusal
    /\ passed' = passed + 1
    /\ UNCHANGED <<declarations, phase, constructors, annotation, converted>>

ResolveVariantPayloads ==
    /\ Accepted /\ phase = "types" /\ ~Ahead
    /\ scope' = ResolvePayloads(scope, declarations)
    /\ phase' = "traits" /\ passed' = 0
    /\ UNCHANGED <<declarations, constructors, refusal, annotation, converted>>

RegisterTrait ==
    /\ Accepted /\ phase = "traits" /\ Ahead
    /\ IF Next1.stmt # "trait" THEN UNCHANGED <<scope, refusal>>
       ELSE /\ refusal' = TraitError(scope, Next1)
            /\ scope' = IF refusal' = "none" THEN InsertTrait(scope, Next1) ELSE scope
    /\ passed' = passed + 1
    /\ UNCHANGED <<declarations, phase, constructors, annotation, converted>>

StartConstructors ==
    /\ Accepted /\ phase = "traits" /\ ~Ahead
    /\ phase' = "constructors" /\ passed' = 0
    /\ UNCHANGED <<declarations, scope, constructors, refusal, annotation, converted>>

AddTypeConstructors ==
    /\ Accepted /\ phase = "constructors" /\ Ahead
    /\ LET added == AddConstructors(scope, Next1)
       IN  IF Next1.stmt # "type" THEN UNCHANGED <<scope, constructors, refusal>>
           ELSE /\ refusal' = added.error
                /\ scope' = [scope EXCEPT !.next = added.next]
                /\ constructors' = IF added.error = "none" THEN added.new @@ constructors ELSE constructors
    /\ passed' = passed + 1
    /\ UNCHANGED <<declarations, phase, annotation, converted>>

\* ast_to_ty_with_vars
ConvertAnnotation ==
    /\ Accepted /\ phase = "constructors" /\ ~Ahead
    /\ annotation' \in Annotations
    /\ converted' = AstToTy(scope, Conversion(<<>>, scope.next), annotation')
    /\ phase' = "done"
    /\ UNCHANGED <<declarations, passed, scope, constructors, refusal>>

TypeSyntaxNext ==
    \/ CheckNames \/ RegisterTypeDeclaration \/ ResolveVariantPayloads
    \/ RegisterTrait \/ StartConstructors \/ AddTypeConstructors \/ ConvertAnnotation

TypeSyntaxIdle ==
    /\ declarations = <<>> /\ phase = "idle" /\ passed = 0 /\ scope = EmptyScope
    /\ constructors = [name \in {} |-> NoneA] /\ refusal = "none"
    /\ annotation = NoneA /\ converted = Conversion(<<>>, 1)

-----------------------------------------------------------------------------
(* What an annotation says: the type that is left when every alias is replaced  *)
(* by its body, with all of its parameters replaced at once.                    *)

BadA == TypeAst("bad", "", <<>>, <<>>)

RECURSIVE Replaced(_, _)
Replaced(ast, by) ==
    CASE ast.kind = "var" -> IF ast.name \in DOMAIN by THEN by[ast.name] ELSE ast
      [] ast.kind = "app" /\ AppCon(ast).kind = "var" /\ AppCon(ast).name \in DOMAIN by ->
           ApplyHole(by[AppCon(ast).name], Replaced(ast.parts[2], by))
      [] OTHER -> [ast EXCEPT !.parts = [k \in DOMAIN @ |-> Replaced(@[k], by)]]

\* depth: how far an alias may still reach into others; one that reaches itself never ends
RECURSIVE Expanded(_, _, _)
Expanded(names, ast, depth) ==
    LET con   == IF ast.kind = "app" THEN AppCon(ast) ELSE ast
        args  == IF ast.kind = "app" THEN AppArgs(ast) ELSE <<>>
        alias == names.aliases[con.name]
        of    == [k \in DOMAIN args |-> Expanded(names, args[k], depth)]
    IN  IF con.kind = "ident" /\ con.name \in DOMAIN names.aliases
          THEN IF depth = 0 \/ Len(args) # Len(alias.params) THEN BadA
               ELSE Replaced(Expanded(names, alias.body, depth - 1),
                             [p \in Range(alias.params) |-> of[PositionOf(alias.params, p)]])
          ELSE [ast EXCEPT !.parts = [k \in DOMAIN @ |-> Expanded(names, @[k], depth)]]

RECURSIVE WellFormed(_, _)
WellFormed(names, tree) ==
    /\ tree.kind # "bad"
    /\ tree.kind = "ident" => tree.name \in {"int", "float", "Unit"} \union names.declared
    /\ tree.kind = "record" => IsInjective(tree.marks)
    /\ tree.kind = "app" /\ AppCon(tree).kind = "ident" /\ AppCon(tree).name \in DOMAIN names.arities =>
           names.arities[AppCon(tree).name] = Len(AppArgs(tree))
    /\ \A part \in Range(tree.parts) : WellFormed(names, part)

\* A type reads as tree: the same shape, the same variable wherever the same name stands.
RECURSIVE ReadsAs(_, _, _)
ReadsAs(t, tree, vars) ==
    LET parts == Children(t)
    IN  CASE tree.kind = "var" -> tree.name \in DOMAIN vars /\ t = TVar(vars[tree.name])
          [] tree.kind = "hole" -> t.ty = "var" /\ \A name \in DOMAIN vars : t # TVar(vars[name])
          [] tree.kind = "ident" -> t = NamedTy(tree.name)
          [] tree.kind = "unit" -> t = Closed
          [] tree.kind = "record" ->
               /\ t.ty = "record" /\ (t.tail = Closed <=> tree.name = "closed")
               /\ {t.fields[k][1] : k \in DOMAIN t.fields} = Range(tree.marks)
               /\ \A k \in DOMAIN t.fields : \E j \in DOMAIN tree.marks :
                      t.fields[k][1] = tree.marks[j] /\ ReadsAs(t.fields[k][2], tree.parts[j], vars)
          [] OTHER ->
               /\ t.ty = tree.kind /\ Len(parts) = Len(tree.parts)
               /\ tree.kind = "func" => t.capabilities = tree.marks
               /\ \A k \in DOMAIN parts : ReadsAs(parts[k], tree.parts[k], vars)

RECURSIVE Unnamed(_)                           \* the holes and open ends of a tree
Unnamed(tree) ==
    (IF tree.kind = "hole" \/ (tree.kind = "record" /\ tree.name = "open") THEN 1 ELSE 0)
        + FoldLeft(LAMBDA n, part : n + Unnamed(part), 0, tree.parts)

(* An annotation becomes the type it says, with every alias expanded, one        *)
(* variable to a name and one to each thing left open, and is refused exactly if   *)
(* that is no type: an unknown name, a wrong number of arguments, a field twice,     *)
(* an alias that reaches itself (type_convert.rs).                             *)
AnnotationsMeanWhatTheySay ==
    phase = "done" =>
        LET tree == Expanded(scope, annotation, Cardinality(DOMAIN scope.aliases))
            vars == converted.vars
        IN  IF WellFormed(scope, tree)
              THEN /\ converted.error = "none"
                   /\ IsInjective(vars)
                   /\ ReadsAs(converted.ty, tree, vars)
                   /\ Cardinality(FreeTypeVars(converted.ty) \ Range(vars)) = Unnamed(tree)
              ELSE converted.error # "none"

\* A type says what is written: one variable to each name and to each thing left open, params' their own.
Says(t, tree, params) ==
    LET others == FreeTypeVars(t) \ Range(params)
    IN  \E own \in [AstVars(tree) \ DOMAIN params -> others] :
            /\ IsInjective(own)
            /\ ReadsAs(t, tree, own @@ params)
            /\ Cardinality(others \ Range(own)) = Unnamed(tree)

(* What a pattern finds in a variant is what its constructor put there: for      *)
(* every variant of an accepted program both know the payload that is written,     *)
(* aliases expanded, with the parameters of the type in their places (decls.rs      *)
(* converts the payload twice, once for patterns and once for the constructor).      *)
(* A name that is no parameter and a hole are not refused: constructor and pattern    *)
(* each have a variable of their own for it, which neither quantifies.             *)
PatternsTakeWhatConstructorsGive ==
    Accepted /\ phase = "constructors" /\ ~Ahead =>
        /\ DOMAIN scope.variants = DOMAIN constructors
        /\ \A d \in {e \in Range(declarations) : e.stmt = "type"} : \A v \in Range(d.variants) :
               LET tree == Expanded(scope, v.payload, Cardinality(DOMAIN scope.aliases))
               IN  \A known \in {constructors[v.name], scope.variants[v.name]} :
                       /\ known.of = d.name
                       /\ IF v.payload.kind = "none" THEN known.payload = <<>>
                          ELSE /\ Len(known.payload) = 1
                               /\ Says(known.payload[1], tree,
                                       [p \in Range(d.params) |-> known.vars[PositionOf(d.params, p)]])
=============================================================================
