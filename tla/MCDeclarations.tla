---------------------------- MODULE MCDeclarations ----------------------------
(***************************************************************************)
(* What a program declares, on small programs: types, aliases and traits and   *)
(* annotations that use them; types with derives; impls and the calls that    *)
(* choose between them; and, of what the prelude declares, its containers.     *)
(***************************************************************************)
EXTENDS Methods, Derives, Containers

VARIABLE stage

declarationVars == <<stage, typeSyntaxVars, unificationVars, methodsVars, derivesVars, containerVars>>

intA == IdentA("int")
strA == IdentA("string")
pp == VarA("'p")
qq == VarA("'q")
UseA(name, args) == AppA(IdentA(name), args)
BoxA(t) == UseA("Box", <<t>>)

-----------------------------------------------------------------------------
(* Types, aliases and a trait, all of them or all but one, and annotations.    *)
(* Swapped arguments and an alias in its own argument are in AliasArguments.   *)

BoxDecl  == TypeDecl("Box", <<"'p">>, <<VariantDecl("Full", pp), VariantDecl("Empty", NoneA)>>)
TreeDecl == TypeDecl("Tree", <<"'p", "'q">>, <<VariantDecl("Node", TupleA(<<BoxA(qq), UseA("Tree", <<pp, qq>>)>>)),
                                                VariantDecl("Leaf", UseA("Double", <<pp>>))>>)
AliasDecls ==
    << AliasDecl("Pair", <<"'p", "'q">>, TupleA(<<pp, qq>>)), AliasDecl("Swap", <<"'p", "'q">>, UseA("Pair", <<qq, pp>>)),
       AliasDecl("Double", <<"'p">>, UseA("Pair", <<pp, pp>>)), AliasDecl("Const", <<"'p", "'q">>, pp),
       AliasDecl("At", <<"'p">>, AppA(pp, <<intA>>)), AliasDecl("N", <<>>, intA),
       AliasDecl("R", <<"'p">>, RecordA(<<2, 1>>, <<pp, IdentA("N")>>, TRUE)),
       AliasDecl("Ping", <<>>, TupleA(<<IdentA("Pong"), intA>>)), AliasDecl("Pong", <<>>, IdentA("Ping")) >>
ShowTrait == TraitDecl("Show", <<"'s">>, 0, <<MethodDecl(1, <<VarA("'s")>>, strA, FALSE)>>)
World == <<BoxDecl, TreeDecl, ShowTrait>> \o AliasDecls
\* Payloads with a name that is no parameter, in the same type twice, a hole and an open record.
StrayDecl == TypeDecl("V", <<"'p">>, <<VariantDecl("D", TupleA(<<VarA("'z"), BoxA(VarA("'z")), pp>>)), VariantDecl("H", TupleA(<<HoleA, HoleA>>)),
                                        VariantDecl("O", UseA("R", <<VarA("'z")>>))>>)
\* What is refused: a name of a type and of a trait, a parameter twice, an operator of two traits and one of
\* three operands, a method that does not mention its trait's type, a result that no method reaches.
OperatorTrait(name, params) == TraitDecl(name, <<"'s">>, 0, <<MethodDecl(2, params, VarA("'s"), TRUE)>>)
Refusable == {TypeDecl("Show", <<>>, <<>>), TypeDecl("T", <<"'p", "'p">>, <<>>), OperatorTrait("Plus", <<VarA("'s"), VarA("'s")>>),
              OperatorTrait("Times", <<VarA("'s"), VarA("'s"), intA>>), TraitDecl("Lost", <<"'s">>, 0, <<MethodDecl(1, <<intA>>, intA, FALSE)>>),
              TraitDecl("Apart", <<"'s", "'t">>, 1, <<MethodDecl(1, <<VarA("'s")>>, intA, FALSE)>>),
              TypeDecl("U", <<"'p">>, <<VariantDecl("C", UseA("Box", <<pp, pp>>))>>)}
MCDeclared ==
    {World, Append(World, StrayDecl)} \union {SelectSeq(World, LAMBDA d : d # one) : one \in Range(World)}
        \union {World \o <<one, OperatorTrait("Minus", <<VarA("'s"), VarA("'s")>>)>> : one \in Refusable}

SimpleA == {VarA("'a"), VarA("'b"), HoleA, IdentA("Nope"), IdentA("Box"), IdentA("N"), intA, UnitA, IdentA("Ping"),
            BoxA(VarA("'a")), TupleA(<<HoleA, VarA("'a")>>)}
UsesOf(args) ==
    {UseA(name, <<a, b>>) : name \in {"Pair", "Swap", "Const"}, a, b \in args}
        \union {UseA(name, <<a>>) : name \in {"Double", "R", "N", "Swap", "Box"}, a \in args}
        \union {UseA("At", <<IdentA("Box")>>), UseA("At", <<UseA("Tree", <<HoleA, VarA("'a")>>)>>)}
OuterA(us) ==
    {RecordA(<<2, f>>, <<u, VarA("'a")>>, open) : u \in us, f \in 1..2, open \in BOOLEAN}
        \union {FuncA(<<u>>, VarA("'a"), <<TRUE, FALSE>>) : u \in us} \union {UseA("Tree", <<VarA("'b"), u>>) : u \in us}
MCAnnotations == SimpleA \union UsesOf(SimpleA) \union OuterA(UsesOf({VarA("'a"), VarA("'b"), HoleA, IdentA("Nope")}))

\* AliasArguments: an argument named like a later parameter, and an alias in its own argument.
MCWorlds     == {World}
MCArguments  == {UseA("Pair", <<a, b>>) : a, b \in {VarA("'p"), VarA("'q"), intA, UseA("Pair", <<intA, VarA("'a")>>)}}

-----------------------------------------------------------------------------
(* Impls of seven traits and of types, and a call, or several that share a        *)
(* variable.  The impl of Index for arrays is used at most once.                 *)

ArrayA(t) == UseA("Array", <<t>>)
EitherA(t, u) == UseA("Either", <<t, u>>)
MethodTypes ==
    << TypeDecl("Array", <<"'p">>, <<>>), TypeDecl("Box", <<"'p">>, <<>>), TypeDecl("Either", <<"'p", "'q">>, <<>>),
       TypeDecl("Bare", <<>>, <<>>), ShowTrait,
       TraitDecl("Loud", <<"'l">>, 0, <<MethodDecl(1, <<VarA("'l")>>, intA, FALSE), MethodDecl(3, <<VarA("'l"), intA>>, VarA("'l"), FALSE)>>),
       TraitDecl("Conv", <<"'c", "'d">>, 0, <<MethodDecl(4, <<VarA("'c"), VarA("'d")>>, UnitA, FALSE)>>),
       TraitDecl("Index", <<"'r", "'k", "'o">>, 1, <<MethodDecl(5, <<VarA("'r"), VarA("'k")>>, VarA("'o"), FALSE)>>),
       TraitDecl("Functor", <<"'f">>, 0,
           <<MethodDecl(6, <<AppA(VarA("'f"), <<VarA("'x")>>), VarA("'y")>>, AppA(VarA("'f"), <<VarA("'y")>>), FALSE)>>),
       TraitDecl("Make", <<"'m">>, 0, <<MethodDecl(7, <<intA>>, VarA("'m"), FALSE)>>),
       TraitDecl("Eq", <<"'e">>, 0, <<MethodDecl(11, <<VarA("'e"), VarA("'e")>>, IdentA("bool"), FALSE)>>) >>
Bound(trait, ast) == [trait |-> trait, args |-> <<ast>>]
PlainImpl(trait, head, bounds, methods) == ImplOf(trait, head, 0, bounds, methods)
MethodImpls ==
    << PlainImpl("Show", <<intA>>, <<>>, <<1>>), PlainImpl("Show", <<strA>>, <<>>, <<1>>),
       PlainImpl("Show", <<BoxA(intA)>>, <<>>, <<1>>), PlainImpl("Show", <<BoxA(pp)>>, <<Bound("Show", pp)>>, <<1>>),
       PlainImpl("Show", <<EitherA(pp, qq)>>, <<Bound("Show", pp), Bound("Show", qq)>>, <<1>>),
       PlainImpl("Show", <<TupleA(<<intA, strA>>)>>, <<>>, <<1>>),
       PlainImpl("Loud", <<strA>>, <<>>, <<1, 3>>), PlainImpl("Loud", <<ArrayA(pp)>>, <<Bound("Show", pp)>>, <<1, 3>>),
       PlainImpl("Conv", <<intA, strA>>, <<>>, <<4>>), PlainImpl("Conv", <<BoxA(pp), pp>>, <<Bound("Show", pp)>>, <<4>>),
       PlainImpl("Conv", <<BoxA(intA), strA>>, <<>>, <<4>>),
       ImplOf("Index", <<ArrayA(pp), intA, pp>>, 2, <<>>, <<5>>), ImplOf("Index", <<BoxA(strA), strA, intA>>, 2, <<>>, <<5>>),
       PlainImpl("Functor", <<IdentA("Box")>>, <<>>, <<6>>), PlainImpl("Functor", <<EitherA(HoleA, qq)>>, <<>>, <<6>>),
       PlainImpl("Eq", <<intA>>, <<>>, <<11>>), PlainImpl("Eq", <<BoxA(pp)>>, <<Bound("Eq", pp)>>, <<11>>),
       PlainImpl("Make", <<intA>>, <<>>, <<7>>), PlainImpl("Make", <<BoxA(pp)>>, <<Bound("Make", pp)>>, <<7>>),
       InherentImpl(BoxA(pp), <<>>, <<OwnMethod(8, TRUE, <<>>, pp), OwnMethod(9, TRUE, <<IdentA("Self")>>, IdentA("Self")),
                                      OwnMethod(10, FALSE, <<pp>>, IdentA("Self"))>>),
       InherentImpl(BoxA(strA), <<>>, <<OwnMethod(8, TRUE, <<>>, intA)>>),
       InherentImpl(strA, <<>>, <<OwnMethod(3, TRUE, <<intA>>, UnitA)>>),
       InherentImpl(ArrayA(pp), <<Bound("Show", pp)>>, <<OwnMethod(8, TRUE, <<>>, strA)>>),
       InherentImpl(EitherA(pp, qq), <<Bound("Eq", pp)>>, <<OwnMethod(12, TRUE, <<>>, pp)>>),
       FunctionOf(8, <<intA>>, strA), FunctionOf(1, <<TupleA(<<pp, pp>>)>>, pp) >>

TString == TCon("string")
TBox(t) == TApp(TCon("Box"), <<t>>)
TArray(t) == TApp(TCon("Array"), <<t>>)
TEither(t, u) == TApp(TCon("Either"), <<t, u>>)
Receivers ==
    {TInt, TString, TBox(TInt), TBox(TString), TBox(TBox(TString)), TEither(TInt, TBox(TString)), TEither(TInt, TBool),
     TTuple(<<TInt, TString>>), TTuple(<<TInt, TInt>>), TArray(TInt), TArray(TBool), TCon("Bare"), TBox(TCon("Bare")),
     TRecord(<<<<8, ValueFunc(<<>>, TInt)>>>>, Closed)}
Seconds == {TInt, TString, TBox(TInt)}
DotCalls ==
    {DotCall(m, <<t>>) : m \in {1, 8}, t \in Receivers}
        \union {DotCall(m, <<t, u>>) : m \in {3, 4, 5, 9}, t \in Receivers, u \in Seconds}
        \union {DotCall(6, <<TBox(t), u>>) : t \in {TInt, TString}, u \in Seconds}
PathCalls ==
    {PathCall(IdentA(name), 1, <<t>>) : name \in {"Show", "Loud"}, t \in Receivers}
        \union {PathCall(IdentA(named[1]), named[2], <<t, u>>) : t \in Receivers, u \in Seconds,
                   named \in {<<"Conv", 4>>, <<"Index", 5>>, <<"Functor", 6>>, <<"Loud", 3>>, <<"Show", 3>>}}
        \union {PathCall(ast, 8, <<t>>) : ast \in {IdentA("Box"), BoxA(strA), BoxA(HoleA), BoxA(intA), strA}, t \in Receivers}
        \union {PathCall(ast, 10, <<t>>) : ast \in {IdentA("Box"), BoxA(strA)}, t \in Receivers}
        \union {PathCall(UseA("Conv", <<a, b>>), 4, <<TBox(TString), u>>) :
                   a, b \in {BoxA(strA), BoxA(HoleA), strA}, u \in {TString, TInt}}
\* Tuples are compared by structure, which answers a bound and makes a call panic.
Pair(t, u) == TTuple(<<t, u>>)
Compared == {TInt, TString, TBox(TInt), TBox(TString), TBox(TBox(TInt)), Pair(TInt, TBox(TInt)), Pair(TInt, TString),
             Pair(TInt, Pair(TInt, TInt))}
EqCalls ==
    {DotCall(12, <<TEither(t, TString)>>) : t \in Compared} \union {PathCall(IdentA("Either"), 12, <<TEither(t, TInt)>>) : t \in Compared}
        \union {PathCall(IdentA("Eq"), 11, <<t, u>>) : t, u \in Compared} \union {DotCall(11, <<t, u>>) : t, u \in Compared}
v1 == TVar(1)
LaterKnown ==
    {<<PathCall(IdentA("Show"), 1, <<t>>), PathCall(IdentA("Box"), 9, <<v1, u>>)>> :
        t \in {v1, TBox(v1)}, u \in {TBox(v1), TBox(TString), TBox(TCon("Bare"))}}
    \union {<<PathCall(IdentA("Functor"), 6, <<v1, TBool>>), PathCall(IdentA("Box"), 8, <<v1>>)>>,
            <<PathCall(IdentA("Index"), 5, <<v1, TInt>>), PathCall(IdentA("Box"), 9, <<v1, TBox(TString)>>)>>,
            <<PathCall(IdentA("Make"), 7, <<TInt>>), PathCall(IdentA("Loud"), 3, <<v1, TInt>>)>>, <<DotCall(8, <<v1>>)>>}
WithCalls(calls) == [types |-> MethodTypes, stmts |-> MethodImpls \o calls]
MCPrograms == {WithCalls(<<call>>) : call \in DotCalls \union PathCalls \union EqCalls} \union {WithCalls(calls) : calls \in LaterKnown}

-----------------------------------------------------------------------------
(* A type of three variants that derives every trait, beside a second one and   *)
(* an impl written by hand.  A default that holds its own type has no value.     *)

VariantOf(name, payload, marked) == [name |-> name, payload |-> payload, default |-> marked]
Payloads == {NoPayload, NameT("int"), VarT("'b"), TupleT(<<VarT("'a"), NameT("int")>>), AppT("T", <<VarT("'a"), VarT("'b")>>)}
Enums == {<<VariantOf("A", a, mark = 1), VariantOf("B", b, mark = 2), VariantOf("C", c, mark = 3)>> :
             a \in Payloads, b \in Payloads, c \in Payloads \ {VarT("'b")}, mark \in 0..3}
DerivedType(name, variants, derives) ==
    [stmt |-> "type", name |-> name, params |-> <<"'a", "'b">>, variants |-> variants, derives |-> derives]
HandImpl == [stmt |-> "impl", trait |-> "Hand", target |-> NameT("int"), bounds |-> <<>>, methods |-> <<>>]
MCDerivingPrograms ==
    {<<DerivedType("U", <<VariantOf("D", VarT("'a"), FALSE)>>, <<<<"Ord">>>>), HandImpl,
       DerivedType("T", variants, <<<<"Eq", "Ord">>, <<"Default", "ToString">>>>)>> :
        variants \in {e \in Enums : DefaultVariant(e).payload.t # "app"}}

-----------------------------------------------------------------------------
DeclarationsInit ==
    \/ stage = "types" /\ TypeSyntaxInit /\ MethodsIdle /\ DerivesIdle /\ ContainersIdle /\ UnificationIdle
    \/ stage = "methods" /\ MethodsInit /\ TypeSyntaxIdle /\ DerivesIdle /\ ContainersIdle /\ UnificationIdle
    \/ stage = "derives" /\ DerivesInit /\ TypeSyntaxIdle /\ MethodsIdle /\ ContainersIdle /\ UnificationIdle
    \/ stage = "containers" /\ ContainersInit /\ TypeSyntaxIdle /\ MethodsIdle /\ DerivesIdle /\ UnificationIdle

DeclarationsNext ==
    /\ \/ stage = "types" /\ TypeSyntaxNext /\ UNCHANGED <<methodsVars, derivesVars, containerVars>>
       \/ stage = "methods" /\ MethodsNext /\ UNCHANGED <<typeSyntaxVars, derivesVars, containerVars>>
       \/ stage = "derives" /\ ExpandStatement /\ UNCHANGED <<typeSyntaxVars, methodsVars, containerVars>>
       \/ stage = "containers" /\ ContainersNext /\ UNCHANGED <<typeSyntaxVars, methodsVars, derivesVars>>
    /\ UNCHANGED <<stage, unificationVars>>

DeclarationsSpec == DeclarationsInit /\ [][DeclarationsNext]_declarationVars

-----------------------------------------------------------------------------
(* What the constants that are operators stand for.  Each is a LET, which the    *)
(* cost statistics of TLC do not unfold at every call.                          *)

MCImplSchemeOf(k, s, d) == LET scheme == ImplScheme(k, s, d) IN scheme
MCOwnMethodsOf(k, s, d) == LET added == AddOwnMethods(k, s, d) IN added
MCCalleeOf(k, s, call)  == LET callee == Resolve(k, s, call) IN callee
MCDictOf(k, s, callee)  == LET dict == Settled(k, s, callee) IN dict
=============================================================================
