------------------------------ MODULE MCTyping ------------------------------
(***************************************************************************)
(* Small programs for Typing: functions that are generalized and used at two  *)
(* types, the ways out of loops and functions, records and arrays that are    *)
(* spread and taken apart, and places that are changed through names, fields, *)
(* parameters and the results of functions.                                  *)
(***************************************************************************)
EXTENDS Soundness

\* Expressions and patterns by their names.
EInt == [e |-> "int"]
EBool(b) == [e |-> "bool", b |-> b]
EUnit == [e |-> "unit"]
EVar(name) == [e |-> "var", name |-> name]
ENot(e) == [e |-> "not", of |-> e]
ETuple(items) == [e |-> "tuple", items |-> items]
Own(name, e) == [spread |-> FALSE, of |-> e, name |-> name]
Spreading(e) == [spread |-> TRUE, of |-> e, name |-> 0]
EArray(entries) == [e |-> "array", entries |-> entries]
ERecord(entries) == [e |-> "record", entries |-> entries]
EField(e, name) == [e |-> "field", of |-> e, name |-> name]
Param(pat) == [pat |-> pat, mut |-> FALSE, ty |-> NoTy]
MutParam(name) == [pat |-> [p |-> "bind", name |-> name], mut |-> TRUE, ty |-> NoTy]
PBind(name) == [p |-> "bind", name |-> name]
PWild == [p |-> "wild"]
ELambda(params, body) == [e |-> "lambda", params |-> params, ret |-> NoTy, body |-> body]
Fun(name, body) == ELambda(<<Param(PBind(name))>>, body)
Call(f, args) == [e |-> "call", callee |-> f, args |-> args]
Call1(f, e) == Call(EVar(f), <<e>>)
EIf(cc, tt, f) == [e |-> "if", cond |-> cc, then |-> tt, else |-> f]
Arm(pat, body) == [pat |-> pat, body |-> body]
EMatch(e, arms) == [e |-> "match", of |-> e, arms |-> arms]
EBlock(stmts, final) == [e |-> "block", stmts |-> stmts, final |-> final]
ELoop(body) == [e |-> "loop", body |-> body]
EFor(pat, of, body) == [e |-> "for", pat |-> pat, of |-> of, body |-> body]
EBreak(value) == [e |-> "break", value |-> value]
EReturn(value) == [e |-> "return", value |-> value]
EContinue == [e |-> "continue"]
EAssign(target, value) == [e |-> "assign", target |-> target, value |-> value]

SLet(pat, mut, value) == [s |-> "let", pat |-> pat, mut |-> mut, ty |-> NoTy, value |-> value]
Let1(name, value) == SLet(PBind(name), FALSE, value)
LetMut(name, value) == SLet(PBind(name), TRUE, value)
SFn(name, params, ret, fresh, body) ==
    [s |-> "fn", name |-> name, params |-> params, ret |-> ret, fresh |-> fresh, body |-> body]
Fn1(name, xx, body) == SFn(name, <<Param(PBind(xx))>>, NoTy, FALSE, body)
SExpr(e) == [s |-> "expr", value |-> e]

xx == EVar("x")
yy == EVar("y")

-----------------------------------------------------------------------------
(* A function, what is made of it, and two uses at what may be different      *)
(* types.                                                                    *)

Bodies == {xx, ENot(xx), ETuple(<<xx, xx>>), EArray(<<Own(0, xx)>>), Fun("y", xx), Fun("y", yy), Call1("x", EInt),
           Call1("Some", xx), EField(xx, 1), ERecord(<<Own(1, xx)>>), EIf(xx, EInt, xx),
           EMatch(xx, <<Arm([p |-> "some", of |-> PBind("y")], yy), Arm([p |-> "none"], EInt)>>),
           EBlock(<<Fn1("h", "y", ETuple(<<xx, yy>>))>>, Call1("h", xx)),
           EBlock(<<Fn1("h", "y", EArray(<<Own(0, xx), Own(0, yy)>>))>>, ETuple(<<Call1("h", EInt), Call1("h", EBool(TRUE))>>)),
           EBlock(<<Let1("h", EArray(<<Own(0, xx)>>))>>, EVar("h"))}
Made(f) == {EVar(f), Fun("z", Call1(f, EVar("z"))), Call1(f, Fun("z", EVar("z"))), Call1(f, EVar("Some")),
            ETuple(<<EVar(f), EVar(f)>>)}
Uses(g) == {Call1(g, EInt), Call1(g, EBool(TRUE)), Call1(g, ERecord(<<Own(1, EInt)>>)), ENot(Call1(g, EBool(FALSE))),
            Call1(g, Fun("x", ENot(xx)))}

Generalizing ==
    {<<SFn("f", <<Param(PBind("x"))>>, NoTy, FALSE, body), Let1("g", made), Let1("a", u), Let1("b", v)>> :
        body \in Bodies, made \in Made("f"), u \in Uses("g"), v \in Uses("g") \union {Call(Call1("g", EInt), <<EInt>>)}}
    \union
    {<<Let1("f", Fun("x", body)), Fn1("g", "y", made), Let1("a", u), Let1("b", v)>> :
        body \in Bodies, made \in {EVar("f"), Call1("f", yy), Call1("y", EVar("f"))}, u \in Uses("g"), v \in Uses("g")}

\* The same name at two types, from a value, from a call and from a mutable name.
Rebinding ==
    {<<SLet(PBind("f"), mut, value), SExpr(first), Let1("b", second)>> :
        mut \in BOOLEAN, value \in {Fun("x", b) : b \in Bodies} \union {EVar("None"), EArray(<<>>),
            EArray(<<Own(0, EVar("None"))>>), Call1("Some", EVar("None")), ERecord(<<Own(1, Fun("x", xx))>>)},
        first \in Uses("f") \union {EAssign(EVar("f"), v) : v \in {Fun("x", ENot(xx)), EArray(<<Own(0, EInt)>>),
            Call1("Some", EInt), EArray(<<Own(0, Call1("Some", EInt))>>)}},
        second \in Uses("f") \union {EVar("f"), EArray(<<Spreading(EVar("f")), Own(0, EBool(TRUE))>>),
            EIf(EMatch(EVar("f"), <<Arm([p |-> "some", of |-> PBind("y")], yy), Arm(PWild, EBool(TRUE))>>), EInt, EInt)}}

-----------------------------------------------------------------------------
(* The ways out: what a function of one truth value does before its last      *)
(* expression, with and without a result type, called with both.  No loop can *)
(* be left both by break and by return.                                      *)

cc == EVar("c")
Leaving == {EReturn(EInt), EReturn(EBool(TRUE)), EReturn(NoExpr), EIf(cc, EReturn(EInt), EInt), EIf(cc, EReturn(EInt), EReturn(EInt)),
            EIf(cc, EReturn(EInt), EUnit), EMatch(cc, <<Arm([p |-> "bool", b |-> TRUE], EReturn(EInt)), Arm(PWild, EBool(TRUE))>>)}
Breaking == {EBreak(EInt), EBreak(NoExpr), EBreak(EBool(TRUE)), EIf(cc, EBreak(EInt), EContinue), EIf(cc, EBreak(EInt), EBreak(EBool(TRUE))),
             EIf(cc, EContinue, EBreak(EInt)), EIf(cc, EBreak(NoExpr), EUnit), EAssign(cc, ENot(cc))}
Looping(bodies) == {ELoop(EBlock(<<SExpr(b)>>, d)) : b \in bodies, d \in bodies \union {NoExpr}}
Iterating(bodies) == {EFor(PBind("i"), of, EBlock(<<SExpr(b)>>, NoExpr)) :
                        b \in bodies, of \in {EArray(<<Own(0, cc)>>), EArray(<<>>), [e |-> "range", from |-> EInt, until |-> EInt], EInt}}
Ways == Leaving \union Looping(Breaking) \union Looping({EReturn(EInt), EIf(cc, EReturn(EInt), EContinue)})
           \union Iterating(Leaving \union Breaking)
Ends == {NoExpr, EInt, EBool(TRUE), cc}

Function(ret, way, end) ==
    SFn("f", <<Param(PBind("c"))>>, ret, FALSE,
        IF way.s = "last" THEN EBlock(<<LetMut("c", cc)>>, way.value) ELSE EBlock(<<LetMut("c", cc), way>>, end))
Leavings ==
    {<<Function(ret, way, end), Let1("a", Call1("f", EBool(TRUE))), Let1("b", Call1("f", EBool(FALSE)))>> :
        ret \in {NoTy, TInt, TUnit}, end \in Ends,
        way \in {SExpr(v) : v \in Ways} \union {Let1("d", v) : v \in Ways}
                \union {[s |-> "last", value |-> v] : v \in Ways}}

-----------------------------------------------------------------------------
(* Records and arrays: what is made, what is spread into another, and what is *)
(* taken out of it again.  A record that is spread beside fields of its own is *)
(* one whose fields are known.                                               *)

Pair(a, b) == ERecord(<<Own(1, a), Own(2, b)>>)
Records == {Pair(EInt, EBool(TRUE)), Pair(EVar("None"), Fun("x", xx)), ERecord(<<Own(1, Pair(EInt, EInt))>>)}
Arrays  == {EArray(<<>>), EArray(<<Own(0, EInt), Own(0, EInt)>>), EArray(<<Own(0, Fun("x", xx))>>), EArray(<<Own(0, Pair(EInt, EBool(TRUE)))>>)}
Wholes  == Records \union Arrays \union {Call1("Some", Pair(EInt, EInt)), ETuple(<<EInt, EArray(<<Own(0, EBool(TRUE))>>)>>)}
ww == EVar("w")
FromRecord == {ERecord(<<Spreading(ww), Own(3, ww)>>), ERecord(<<Own(3, EInt), Spreading(ww)>>), ERecord(<<Own(1, EInt), Spreading(ww)>>),
    Call(Fun("x", ERecord(<<Spreading(xx), Own(3, EField(xx, 2))>>)), <<ww>>), Call(Fun("x", EField(EField(xx, 1), 2)), <<ww>>),
    [e |-> "pipe", left |-> ww, right |-> Fun("x", ETuple(<<EField(xx, 1), xx>>))]}
FromArray == {EArray(<<Spreading(ww), Own(0, EInt)>>), EArray(<<Own(0, Pair(EInt, EBool(FALSE))), Spreading(ww)>>), EArray(<<Own(0, ww), Spreading(EArray(<<>>))>>)}
FromAny == {ww, ERecord(<<Own(1, ww)>>), ETuple(<<ww, ww>>)}
Record(fields, rest) == [p |-> "record", fields |-> fields, rest |-> rest]
List(pats, rest) == [p |-> "list", pats |-> pats, rest |-> rest]
Tuple2(p, q) == [p |-> "tuple", pats |-> <<p, q>>]
Taken == {PBind("t"), Tuple2(PBind("t"), PWild), Record(<<<<1, "t">>>>, "_"), Record(<<<<2, "u">>>>, "t"),
          Record(<<<<1, "u">>, <<2, "t">>>>, "o"), Tuple2(Record(<<<<2, "t">>>>, "u"), PBind("o")), Tuple2(PBind("u"), Tuple2(PWild, PBind("t")))}
Parts == {List(<<PBind("t")>>, NoName), List(<<PWild>>, "t"), List(<<Record(<<<<2, "t">>>>, "_")>>, "u"), [p |-> "some", of |-> PBind("t")],
          [p |-> "some", of |-> Record(<<<<1, "t">>>>, "_")], Tuple2([p |-> "none"], PBind("t"))}
tt == EVar("t")
Afterwards == {tt, EField(tt, 1), ENot(tt), Call(tt, <<EInt>>), EField(EField(tt, 3), 2), EArray(<<Spreading(tt)>>), EField(ERecord(<<Spreading(tt), Own(4, tt)>>), 4),
               EFor(Record(<<<<1, "a">>>>, "_"), tt, EVar("a")), EFor(PBind("a"), tt, ENot(EVar("a")))}

Making == (Records \X FromRecord) \union (Arrays \X FromArray) \union (Wholes \X FromAny)

Taking ==
    {<<Let1("w", made[1]), SLet(pat, FALSE, made[2]), Let1("z", use)>> : made \in Making, pat \in Taken, use \in Afterwards}
    \union
    {<<Let1("w", made[1]), Let1("z", EMatch(made[2], <<Arm(pat, use), Arm(PWild, els)>>))>> :
        made \in Making, pat \in Parts, use \in Afterwards, els \in {EInt, ww}}

-----------------------------------------------------------------------------
(* Places: what a mutable name starts as, and what is changed through it.     *)
(* No change puts a record that has an owner into another place.              *)

mm == EVar("m")
nn == EVar("n")
Inner == ERecord(<<Own(1, EInt)>>)
FreshFn == SFn("make", <<Param(PBind("c"))>>, NoTy, TRUE, EIf(cc, Inner, EBlock(<<SExpr(EReturn(Inner))>>, Inner)))
ShareFn == SFn("share", <<Param(PBind("c"))>>, NoTy, FALSE, cc)
ChangeFn == SFn("change", <<MutParam("p"), Param(PBind("q"))>>, NoTy, FALSE,
                EBlock(<<SExpr(EAssign(EField(EVar("p"), 1), EVar("q")))>>, EUnit))
Make == Call1("make", EBool(TRUE))
Fillings(name) == {Inner, ERecord(<<Own(1, Inner)>>), Make, ERecord(<<Own(1, Make)>>), EArray(<<Own(0, Inner)>>), EIf(EBool(TRUE), Inner, Make),
    EBlock(<<Let1("k", Inner)>>, EVar("k")), EIf(EBool(TRUE), Make, EVar(name)), ETuple(<<EVar(name), Inner>>),
    EVar(name), EField(EVar(name), 1), Call1("share", EVar(name)), ERecord(<<Own(1, EVar(name))>>), ERecord(<<Spreading(EVar(name))>>),
    ERecord(<<Own(1, EArray(<<Own(0, EVar(name))>>))>>), EArray(<<Own(0, EVar(name))>>), Call(Fun("x", xx), <<EVar(name)>>),
    EMatch(EVar(name), <<Arm(PBind("k"), EVar("k"))>>), EMatch(EArray(<<Own(0, EVar(name))>>), <<Arm(List(<<PBind("k")>>, NoName), EVar("k")), Arm(PWild, Inner)>>)}
Changes == {EAssign(EField(nn, 1), EInt), EAssign(EField(EField(nn, 1), 1), EInt), EAssign(EField(mm, 1), EInt), EAssign(nn, Inner), EAssign(nn, Make),
            EAssign(EField(nn, 1), Inner), EAssign(EField(mm, 1), Make),
            Call(EVar("change"), <<nn, EInt>>), Call(EVar("change"), <<EField(nn, 1), EInt>>), Call(EVar("change"), <<mm, Inner>>),
            Call(EVar("change"), <<Make, EInt>>), Call(EVar("change"), <<Call1("share", nn), EInt>>), Call1("share", EVar("change"))}
Placing(changes) ==
    {<<FreshFn, ShareFn, ChangeFn, LetMut("m", start), SLet(PBind("n"), mut, next), SExpr(change)>> :
        start \in {Inner, ERecord(<<Own(1, Inner)>>), ERecord(<<Own(1, Make)>>), Call1("share", Inner)},
        mut \in BOOLEAN, next \in Fillings("m"), change \in changes}
FreshFns ==
    {<<ShareFn, LetMut("m", Inner), SFn("make", <<Param(PBind("c"))>>, NoTy, TRUE, body), LetMut("n", Call1("make", mm)), SExpr(EAssign(EField(nn, 1), EInt))>> :
        body \in Fillings("c") \union Fillings("m") \union {EBlock(<<SExpr(EReturn(s))>>, Inner) : s \in Fillings("m")}}

MCTypedPrograms == Generalizing \union Rebinding \union Leavings \union Taking \union Placing(Changes) \union FreshFns

-----------------------------------------------------------------------------
(* Typing on its own; Unification's programs of equations are those of        *)
(* MCStages.                                                                 *)

typingOnlyVars == <<typingVars, unificationVars>>

TypingOnlyInit == TypingInit /\ UnificationIdle
TypingOnlyNext == TypingNext /\ UNCHANGED unificationVars

-----------------------------------------------------------------------------
(* What the constants that are operators stand for.  Each is a LET, which the    *)
(* cost statistics of TLC do not unfold at every call.                          *)

MCChecked(s, st) == LET after == InferStmt(s, st) IN after
=============================================================================
