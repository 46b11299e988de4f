------------------------------ MODULE MCStages ------------------------------
(***************************************************************************)
(* The stages of the compiler that share no state while they run, checked   *)
(* together: a behaviour is a behaviour of one stage while the others stay  *)
(* idle.  Each stage is a module of its own; this one chooses their         *)
(* instances.                                                              *)
(***************************************************************************)
EXTENDS LetPolymorphism, Recovery, Dictionaries, Operators, Patterns, LuaMeaning

CONSTANT Running   \* the stages that a run looks at

VARIABLE stage     \* the one that runs

-----------------------------------------------------------------------------
(* Unification: every pair of types over two variables and two tails, alone  *)
(* and followed by a second pair that meets what the first has bound.        *)

A == TVar(1)
B == TVar(2)
RowR == TVar(3)
RowS == TVar(4)
Open(name, t, tail) == TRecord(<<<<name, t>>>>, tail)

Sides ==
    {A, B, TInt, TTuple(<<A, B>>), TTuple(<<B, TInt>>), TOption(A), TOption(TInt),
     TFunc(<<A>>, <<FALSE, FALSE>>, B), TFunc(<<TInt>>, <<FALSE, FALSE>>, A),
     TFunc(<<TInt>>, <<TRUE, FALSE>>, A),
     TRecord(<<>>, RowR), Open(1, A, RowR), Open(2, TInt, RowR), Open(1, A, RowS), Open(2, B, RowS),
     TRecord(<<<<1, TInt>>, <<2, B>>>>, Closed),
     Open(1, Open(2, TInt, RowR), RowR), Open(1, TRecord(<<>>, RowR), RowS)}

SecondPairs ==
    {<<A, B>>, <<A, TInt>>, <<Open(1, TBool, RowR), Open(2, TInt, RowS)>>,
     <<TRecord(<<>>, RowS), Open(2, TInt, Closed)>>, <<Open(1, B, Closed), A>>,
     <<Open(1, TBool, Closed), TRecord(<<>>, RowR)>>}

MCEquations ==
    {<<<<a, b>>>> : a \in Sides, b \in Sides}
    \union {<<<<a, b>>, second>> : a \in Sides, b \in Sides, second \in SecondPairs}

MCGroundRows ==
    {TRecord(fs, Closed) :
        fs \in {<<>>, <<<<1, TInt>>>>, <<<<1, TBool>>>>, <<<<2, TInt>>>>,
                <<<<1, TInt>>, <<2, TInt>>>>, <<<<1, TBool>>, <<2, TInt>>>>}}

MCGroundTypes ==
    MCGroundRows \union {TInt, TBool, TTuple(<<TInt, TInt>>), TOption(TInt)}

-----------------------------------------------------------------------------
(* Operators: every row of the chosen operators, under the prelude's         *)
(* declarations and under three programs that declare some of them again.    *)

MCOperatorToken == {"|>", "&&", "==", "<>", "+", "*", "**"}

MCPreludeOnly == {<<>>}

MCDeclarations ==
    {<<>>, "<>" :> Fix("left", 7), "+" :> Fix("right", 3),
     ("==" :> Fix("left", 5)) @@ ("*" :> Fix("non", 5))}

-----------------------------------------------------------------------------
(* Patterns: a parameterised variant type, a recursive one and one with a    *)
(* sole variant; scrutinees of every kind of type, with up to four arms.     *)

MCVariants ==
    [option |-> <<Bare("None"), Carrying("Some", ParamTy)>>,
     list   |-> <<Carrying("Cons", TupleTy(<<IntTy, Named("list")>>)), Bare("Nil")>>,
     wrap   |-> <<Carrying("Wrap", BoolTy)>>]

MCMaxArms ==
    (BoolTy :> 2) @@ (IntTy :> 3)
    @@ (TupleTy(<<BoolTy, BoolTy>>) :> 4) @@ (TupleTy(<<BoolTy, BoolTy, BoolTy>>) :> 3)
    @@ (ArrayTy(BoolTy) :> 3) @@ (TupleTy(<<ArrayTy(IntTy), RecordTy>>) :> 3)
    @@ (App("option", BoolTy) :> 4) @@ (Named("list") :> 3) @@ (Named("wrap") :> 2)
    @@ (App("option", Named("wrap")) :> 4)
    @@ (App("option", TupleTy(<<BoolTy, BoolTy, BoolTy>>)) :> 3)
    @@ (TupleTy(<<Named("wrap"), App("option", IntTy)>>) :> 3)

-----------------------------------------------------------------------------
(* LuaMeaning: bodies over x and c in which every construct that gen_expr    *)
(* hoists into statements meets every place an operand can stand in.         *)

Seen(e) == Call(<<e>>)
OtherVar == <<"y", 0>>
PairVar  == <<"w", 0>>

Operands ==
    {Num(1), Var(X), Seen(Var(X)),
     If(Var(C), Num(0), Seen(Num(4))),
     If(Var(C), Return(Seen(Var(X))), Num(2)),
     Block(<<Let(Bind(X), Num(5)), Do(Seen(Var(X)))>>, Var(X)),
     Block(<<Do(Assign(X, Num(3)))>>, Var(X)),
     Loop(Block(<<Do(If(Var(C), Break(Num(6)), Unit))>>, Break(Seen(Num(8))))),
     Match(Var(X), <<Arm(Lit(7), Var(C)), Arm(Bind(OtherVar), Var(OtherVar))>>),
     Match(Seen(Var(C)), <<Arm(Lit(0), Seen(Num(9))), Arm(Bind(OtherVar), Var(OtherVar))>>),
     Div(Var(X), Var(C))}

Effects ==
    {Assign(X, Num(2)), Seen(Var(X)), If(Var(C), Assign(X, Num(2)), Unit),
     If(Var(C), Return(Var(X)), Unit), For(X, Tuple(<<Num(1), Num(2)>>), Seen(Var(X)))}

Exits ==
    {If(Var(C), Break(None), Unit), If(Var(C), Continue, Seen(Var(C))), Break(None),
     Return(Var(X)), Return(None), Assign(C, Num(1)),
     Block(<<Do(Assign(C, Num(1)))>>, Continue)}

MCPrograms ==
    Operands
    \union UNION {{
        Call(<<a, b>>),
        Div(a, b),
        If(a, b, Block(<<Let(Bind(OtherVar), b)>>, Var(OtherVar))),
        Block(<<Let(Bind(X), a), Let(Wildcard, b), Do(Seen(Var(X)))>>, None),
        Block(<<Let(Bind(X), a), Let(Wildcard, Seen(b)), Do(Seen(Var(X)))>>, None),
        Block(<<Let(TuplePat(<<Bind(X), Bind(OtherVar)>>), Tuple(<<a, b>>))>>,
              Call(<<Var(OtherVar), Var(X)>>)),
        Block(<<Let(Bind(PairVar), Tuple(<<a, b>>)),
                Do(Match(Var(PairVar),
                         <<Arm(TuplePat(<<Lit(1), Bind(PairVar)>>), Seen(Var(PairVar))),
                           Arm(TuplePat(<<Bind(PairVar), Bind(OtherVar)>>),
                               Call(<<Var(PairVar), Var(OtherVar)>>))>>))>>,
              Var(PairVar))} : a \in Operands, b \in Operands}
    \union {Block(<<Do(u), Let(Bind(OtherVar), a)>>, Call(<<Var(OtherVar), Var(X)>>)) :
               u \in Effects, a \in Operands}
    \union {Block(<<Let(Bind(OtherVar), Loop(Block(<<Do(e1), Do(u)>>, e2)))>>,
                  Call(<<Var(X), Var(C)>>)) : e1 \in Exits, e2 \in Exits, u \in Effects}
    \union {Block(<<Do(For(OtherVar, Tuple(<<a, Num(4)>>),
                           Block(<<Do(e1), Do(Seen(Var(OtherVar)))>>, e2)))>>, Var(C)) :
               a \in Operands, e1 \in Exits, e2 \in Exits}
    \union {Block(<<Do(Loop(Block(<<Do(For(OtherVar, Tuple(<<Num(3), Num(4)>>), e1)),
                                    Do(Seen(Var(C)))>>, e2)))>>, Var(C)) :
               e1 \in Exits, e2 \in Exits}

-----------------------------------------------------------------------------
(* Dictionaries: one function or two that need dictionaries, a group that     *)
(* hands them on in every way, and a call at types with and without impls.   *)

MCImpls ==
    (<<"Show", "int">> :> <<>>) @@ (<<"Show", "bool">> :> <<>>)
    @@ (<<"Show", "Option">> :> <<"Show">>)
    @@ (<<"Tag", "int">> :> <<>>) @@ (<<"Tag", "Option">> :> <<>>)
    @@ (<<"Eq", "int">> :> <<>>) @@ (<<"Eq", "Option">> :> <<"Eq">>)

NameA == TVar(-1)
NameB == TVar(-2)
PX == Param("x")
PY == Param("y")
One == Literal(TInt)
True == Literal(TBool)
Show(e) == MethodUse("Show", e)
Tag(e)  == MethodUse("Tag", e)

\* A function of one parameter, one of two, one that is given a function.
Single == {Fn("p", <<<<"x", NameA>>>>, <<>>, uses) : uses \in {<<Show(PX)>>, <<Tag(PX), Show(PX)>>}}
          \union {Fn("p", <<<<"x", NameA>>>>, <<<<"Tag", -1>>>>, <<Show(PX)>>)}
Both   == Fn("both", <<<<"x", NameA>>, <<"y", NameB>>>>, <<<<"Tag", -2>>>>, <<Show(PX), Tag(PY)>>)
Given  == Fn("given", <<<<"f", ValueFunc(<<NameA>>, TInt)>>, <<"x", NameA>>>>, <<>>,
             <<CallUse("f", <<PX>>)>>)

Handing ==
    {Show(PX), Tag(PY), Show(SomeOf(PY)), EqualUse(PX, PY), EqualUse(PX, One),
     EqualUse(PairOf(PX, One), PairOf(PY, One)),
     CallUse("p", <<PX>>), CallUse("p", <<PY>>), CallUse("p", <<SomeOf(One)>>), CallUse("p", <<SomeOf(PX)>>),
     CallUse("both", <<PX, PY>>), CallUse("both", <<PY, PX>>),
     CallUse("both", <<One, PX>>), CallUse("both", <<PX, One>>),
     CallUse("given", <<FnValue("p"), PY>>), CallUse("given", <<FnValue("p"), One>>),
     CallUse("q", <<PY, PX>>), CallUse("q", <<PX, PY>>),
     FnUse(Fn("r", <<<<"z", NameA>>>>, <<>>, <<Show(Param("z")), Show(PX)>>)),
     FnUse(Fn("r", <<<<"z", NameA>>>>, <<>>, <<CallUse("p", <<Param("z")>>), Tag(Param("z"))>>)),
     FnUse(Fn("r", <<>>, <<>>, <<CallUse("q", <<PY, PX>>)>>)),
     CallUse("r", <<PX>>), CallUse("r", <<One>>), CallUse("r", <<>>)}

Q(uses, bounds) == Fn("q", <<<<"x", NameA>>, <<"y", NameB>>>>, bounds, uses)

\* What a uses mentions is declared before it, or in it.
Declared(uses) ==
    \A k \in DOMAIN uses : uses[k].use = "call" /\ uses[k].callee = "r" =>
        \E j \in 1..(k - 1) : uses[j].use = "fn"

Mains == {<<CallUse("q", <<One, One>>)>>,
          <<CallUse("q", <<True, One>>), CallUse("q", <<SomeOf(One), One>>)>>,
          <<CallUse("q", <<SomeOf(True), SomeOf(SomeOf(One))>>)>>,
          <<FnUse(Fn("r", <<<<"z", NameB>>>>, <<>>, <<CallUse("q", <<Param("z"), SomeOf(Param("z"))>>)>>)),
            CallUse("r", <<One>>)>>}

Bodies ==
    {uses \in SeqOf(Handing, 2) \ {<<>>} : Declared(uses)}
    \union {<<first, FnUse(Fn("r", <<>>, <<>>, <<CallUse("q", <<PX, PY>>)>>)), CallUse("r", <<>>)>> :
               first \in {u \in Handing : Declared(<<u>>)}}

TagOrNot == {<<>>, <<<<"Tag", -1>>>>}

LastGroups ==
    {<<Q(uses, bounds)>> : uses \in Bodies, bounds \in TagOrNot}
    \union
    {<<Q(<<first>>, <<>>),
       Fn("r", <<<<"z", NameA>>>>, bounds, <<CallUse("q", <<Param("z"), e>>), second>>)>> :
        bounds \in TagOrNot, e \in {Param("z"), One},
        first \in {u \in Handing : u.use # "fn" /\ (u.use = "call" /\ u.callee = "r" => u.args # <<>>)},
        second \in {Show(Param("z")), CallUse("p", <<Param("z")>>), CallUse("r", <<Param("z")>>)}}

MCDictPrograms ==
    {[groups |-> <<<<p>>, <<Both>>, <<Given>>, group>>,
      main |-> main \o (IF Len(group) = 2 THEN <<CallUse("r", <<One>>)>> ELSE <<>>)] :
        p \in Single, group \in LastGroups, main \in Mains}

-----------------------------------------------------------------------------
(* One stage runs.                                                           *)

TypesIdle == Init

StagesInit ==
    /\ stage \in Running
    /\ IF stage = "let polymorphism" THEN Init ELSE TypesIdle
    /\ IF stage = "recovery" THEN RecoveryInit ELSE RecoveryIdle
    /\ IF stage = "unification" THEN UnificationInit ELSE UnificationIdle
    /\ IF stage = "dictionaries" THEN DictionariesInit ELSE DictionariesIdle
    /\ IF stage = "operators" THEN OperatorsInit ELSE OperatorsIdle
    /\ IF stage = "patterns" THEN PatternsInit ELSE PatternsIdle
    /\ IF stage = "code generation" THEN CodegenInit ELSE CodegenIdle

OthersIdle ==
    /\ IF stage = "let polymorphism" THEN TRUE ELSE UNCHANGED vars
    /\ IF stage = "recovery" THEN TRUE ELSE UNCHANGED recoveryVars
    /\ IF stage = "unification" THEN TRUE ELSE UNCHANGED unificationVars
    /\ IF stage = "dictionaries" THEN TRUE ELSE UNCHANGED dictionaryVars
    /\ IF stage = "operators" THEN TRUE ELSE UNCHANGED operatorVars
    /\ IF stage = "patterns" THEN TRUE ELSE UNCHANGED patternVars
    /\ IF stage = "code generation" THEN TRUE ELSE UNCHANGED codegenVars

StagesNext ==
    /\ UNCHANGED stage
    /\ \/ stage = "let polymorphism" /\ Next /\ OthersIdle
       \/ stage = "recovery" /\ RecoveryNext /\ OthersIdle
       \/ stage = "unification" /\ UnificationNext /\ OthersIdle
       \/ stage = "dictionaries" /\ DictionariesNext /\ OthersIdle
       \/ stage = "operators" /\ OperatorsNext /\ OthersIdle
       \/ stage = "patterns" /\ PatternsNext /\ OthersIdle
       \/ stage = "code generation" /\ CodegenNext /\ OthersIdle

-----------------------------------------------------------------------------
(* What the constants that are operators stand for.  Each is a LET, which the    *)
(* cost statistics of TLC do not unfold at every call.                          *)

MCDefinitions(s, known, fns) == LET group == InferGroup(s, known, fns) IN group
MCUses(s, known, uses)       == LET after == InferUses(s, known, uses) IN after
MCExprCode(e)              == LET gen == GenExpr(e, Fresh0) IN gen
MCTailCode(e, to)          == LET gen == GenTail(e, to, Fresh0) IN gen
=============================================================================
