------------------------------ MODULE LuaCodegen ------------------------------
(***************************************************************************)
(* Lua generation (hern-core/src/codegen/lua.rs).  Hern is a language of   *)
(* expressions and Lua one of statements: what a Lua expression cannot say *)
(* is hoisted into statements before it (`pre`), and in tail position an   *)
(* expression becomes statements that return, discard or assign its value. *)
(*                                                                         *)
(* A call stands for every operation that evaluates its operands in line:  *)
(* calls, operators and fields become the same Lua.  An integer            *)
(* division stands for the templates that mention an operand twice.        *)
(* Booleans are 1 and 0, as in Lua.                                        *)
(***************************************************************************)
EXTENDS Integers, Sequences, SequencesExt, FiniteSets

-----------------------------------------------------------------------------
(* The syntax of Hern: expressions, patterns and statements.               *)

None        == [kind |-> "none"]
Num(n)      == [kind |-> "num", n |-> n]
Unit        == [kind |-> "unit"]
Var(x)      == [kind |-> "var", name |-> x]
Call(args)  == [kind |-> "call", args |-> args]
Div(a, b)   == [kind |-> "div", args |-> <<a, b>>]
Tuple(args) == [kind |-> "tuple", args |-> args]
Assign(x, e) == [kind |-> "assign", name |-> x, value |-> e]
If(c, a, b) == [kind |-> "if", cond |-> c, then |-> a, else |-> b]
Match(e, arms) == [kind |-> "match", scrutinee |-> e, arms |-> arms]
Block(stmts, final) == [kind |-> "block", stmts |-> stmts, final |-> final]
Loop(body)  == [kind |-> "loop", body |-> body]
For(x, e, body) == [kind |-> "for", name |-> x, iterable |-> e, body |-> body]
Break(e)    == [kind |-> "break", value |-> e]
Continue    == [kind |-> "continue"]
Return(e)   == [kind |-> "return", value |-> e]

Wildcard    == [kind |-> "wildcard"]
Bind(x)     == [kind |-> "bind", name |-> x]
Lit(n)      == [kind |-> "lit", n |-> n]
TuplePat(ps) == [kind |-> "tuple", pats |-> ps]

Arm(p, e)   == [pat |-> p, body |-> e]
Let(p, e)   == [kind |-> "let", pat |-> p, value |-> e]
Do(e)       == [kind |-> "expr", value |-> e]

(* The syntax of Lua.  Num, Var, Call, Div and Tuple are expressions of Lua too. *)
Nil         == [kind |-> "nil"]
Index(x, i) == [kind |-> "index", name |-> x, i |-> i]
IndexVar(x, i) == [kind |-> "indexvar", name |-> x, i |-> i]
Local(x, e) == [kind |-> "local", name |-> x, value |-> e]
Set(x, e)   == [kind |-> "set", name |-> x, value |-> e]
DoEnd(body) == [kind |-> "do", body |-> body]
While(body) == [kind |-> "while", body |-> body]
ForIndex(i, array, body) == [kind |-> "forindex", name |-> i, array |-> array, body |-> body]
\* A condition holds when none of `nonzero` is 0 and every test finds its number.
IfElse(cond, a, b) == [kind |-> "ifelse", cond |-> cond, then |-> a, else |-> b]
Label(l)    == [kind |-> "label", label |-> l]
Goto(l)     == [kind |-> "goto", label |-> l]
ReturnLua(e) == [kind |-> "return", value |-> e]

Test(place, n) == [place |-> place, n |-> n]

-----------------------------------------------------------------------------
(* Control-flow analysis.                                                  *)

Seqd(a, b) == IF "exits" \in {a, b} THEN "exits" ELSE IF "may" \in {a, b} THEN "may" ELSE "falls"
Branch(a, b) == IF a = b THEN a ELSE "may"

\* expr_flow and stmt_flow; `bc` says whether a break or continue leaves.
RECURSIVE Flow(_, _), FlowAll(_, _), FlowArms(_, _)

FlowAll(es, bc) ==
    IF es = <<>> THEN "falls" ELSE Seqd(Flow(Head(es), bc), FlowAll(Tail(es), bc))

FlowArms(arms, bc) ==
    IF Len(arms) = 1 THEN Flow(arms[1].body, bc)
    ELSE Branch(FlowArms(Front(arms), bc), Flow(Last(arms).body, bc))

Flow(e, bc) ==
    CASE e.kind = "return" -> "exits"
      [] e.kind \in {"break", "continue"} -> IF bc THEN "exits" ELSE "falls"
      [] e.kind = "loop" -> Flow(e.body, FALSE)
      [] e.kind = "for" -> Seqd(Flow(e.iterable, bc),
                                IF Flow(e.body, FALSE) = "falls" THEN "falls" ELSE "may")
      [] e.kind = "if" -> Seqd(Flow(e.cond, bc), Branch(Flow(e.then, bc), Flow(e.else, bc)))
      [] e.kind = "match" -> Seqd(Flow(e.scrutinee, bc), FlowArms(e.arms, bc))
      [] e.kind = "block" -> FlowAll([i \in DOMAIN e.stmts |-> e.stmts[i].value]
                                        \o (IF e.final = None THEN <<>> ELSE <<e.final>>), bc)
      [] e.kind \in {"call", "div", "tuple"} -> FlowAll(e.args, bc)
      [] e.kind = "assign" -> Flow(e.value, bc)
      [] OTHER -> "falls"

AlwaysExits(e) == Flow(e, TRUE) = "exits"

-----------------------------------------------------------------------------
(* Generation.  g is the state of LuaCodegen: the counters of temporaries   *)
(* and loops and the loop that break and continue refer to.                 *)

Underscore == <<"_", 0>>
Fresh0 == [tmps |-> 0, loops |-> 0, loop |-> 0, loop_tmp |-> Underscore]

Tmp(n)           == <<"_t", n>>
FreshTmp(g)      == [g EXCEPT !.tmps = @ + 1]
BreakLabel(n)    == <<"_break", n>>
ContinueLabel(n) == <<"_continue", n>>
Scrutinee        == <<"_s", 0>>
Place(x)         == [base |-> x, path |-> <<>>]
Field(p, i)      == [p EXCEPT !.path = Append(@, i)]

\* gen_pattern_cond_for: what must be tested for the pattern to match.
RECURSIVE Tests(_, _)
Tests(p, place) ==
    CASE p.kind = "lit" -> <<Test(place, p.n)>>
      [] p.kind = "tuple" ->
            FlattenSeq([i \in DOMAIN p.pats |-> Tests(p.pats[i], Field(place, i))])
      [] OTHER -> <<>>

\* gen_for_pattern_bindings and gen_indexed_pattern_bindings: one local after
\* another, each reading `x`.
RECURSIVE Bindings(_, _, _), IndexedBindings(_, _, _, _)

IndexedBindings(pats, i, x, g) ==
    IF i > Len(pats) THEN [code |-> <<>>, g |-> g]
    ELSE LET p    == pats[i]
             here == CASE p.kind = "bind" -> [code |-> <<Local(p.name, Index(x, i))>>, g |-> g]
                       [] p.kind = "wildcard" -> [code |-> <<>>, g |-> g]
                       [] OTHER ->
                            LET t == Tmp(g.tmps + 1)
                                b == Bindings(p, t, FreshTmp(g))
                            IN  [code |-> <<Local(t, Index(x, i))>> \o b.code, g |-> b.g]
             rest == IndexedBindings(pats, i + 1, x, here.g)
         IN  [code |-> here.code \o rest.code, g |-> rest.g]

Bindings(p, x, g) ==
    CASE p.kind = "bind" -> [code |-> <<Local(p.name, Var(x))>>, g |-> g]
      [] p.kind = "tuple" -> IndexedBindings(p.pats, 1, x, g)
      [] OTHER -> [code |-> <<>>, g |-> g]

RECURSIVE GenExpr(_, _), GenArgs(_, _), GenTail(_, _, _), GenStmt(_, _), GenStmts(_, _),
          GenMatchArms(_, _, _, _)

ReturnIt == [kind |-> "return"]
Discard == [kind |-> "discard"]
AssignTo(x) == [kind |-> "assign", name |-> x]

\* Operands from left to right, all hoisting into the same `pre`.
GenArgs(args, g) ==
    IF args = <<>> THEN [pre |-> <<>>, vals |-> <<>>, g |-> g]
    ELSE LET first == GenExpr(Head(args), g)
             rest  == GenArgs(Tail(args), first.g)
         IN  [pre |-> first.pre \o rest.pre, vals |-> <<first.val>> \o rest.vals, g |-> rest.g]

\* gen_loop_expr and gen_for_expr: the body in a loop of Lua with its two labels.
InLoop(g, id, tmp) == [g EXCEPT !.loops = id, !.loop = id, !.loop_tmp = tmp]
OutOfLoop(inner, g) == [inner EXCEPT !.loop = g.loop, !.loop_tmp = g.loop_tmp]

GenLoop(e, g) ==
    LET id   == g.loops + 1
        tmp  == Tmp(g.tmps + 1)
        body == GenTail(e.body, Discard, InLoop(FreshTmp(g), id, tmp))
    IN  [pre |-> <<Local(tmp, Nil), While(Append(body.code, Label(ContinueLabel(id)))),
                   Label(BreakLabel(id))>>,
         val |-> Var(tmp), g |-> OutOfLoop(body.g, g)]

GenFor(e, g) ==
    LET id    == g.loops + 1
        tmp   == Tmp(g.tmps + 1)
        iter  == GenExpr(e.iterable, InLoop(FreshTmp(g), id, tmp))
        array == Tmp(iter.g.tmps + 1)
        idx   == Tmp(iter.g.tmps + 2)
        body  == GenTail(e.body, Discard, FreshTmp(FreshTmp(iter.g)))
    IN  [pre |-> iter.pre \o
                 <<Local(tmp, Nil), Local(array, iter.val),
                   ForIndex(idx, array, <<Local(e.name, IndexVar(array, idx))>> \o body.code
                                            \o <<Label(ContinueLabel(id))>>),
                   Label(BreakLabel(id))>>,
         val |-> Var(tmp), g |-> OutOfLoop(body.g, g)]

\* Mutant: the values of the branches are dropped.
GenIf_DiscardsElse(e, g) ==
    LET cond == GenExpr(e.cond, g)
        tmp  == Tmp(cond.g.tmps + 1)
        then == GenTail(e.then, AssignTo(tmp), FreshTmp(cond.g))
        else == GenTail(e.else, Discard, then.g)
    IN  [pre |-> cond.pre \o <<Local(tmp, Nil), IfElse(cond.val, then.code, else.code)>>,
         val |-> Var(tmp), g |-> else.g]

GenIf(e, g) ==
    LET cond == GenExpr(e.cond, g)
        tmp  == Tmp(cond.g.tmps + 1)
        then == GenTail(e.then, AssignTo(tmp), FreshTmp(cond.g))
        else == GenTail(e.else, AssignTo(tmp), then.g)
    IN  [pre |-> cond.pre \o <<Local(tmp, Nil), IfElse(cond.val, then.code, else.code)>>,
         val |-> Var(tmp), g |-> else.g]

\* The scrutinee is bound to `_s` unless it is a name already.
InMatch(e, tail, scrutinee) ==
    LET named == e.scrutinee.kind = "var"
        x     == IF named THEN e.scrutinee.name ELSE Scrutinee
        arms  == GenMatchArms(e.arms, tail, x, scrutinee.g)
    IN  [code |-> <<DoEnd((IF named THEN <<>> ELSE <<Local(x, scrutinee.val)>>) \o arms.code)>>,
         g |-> arms.g]

GenMatch(e, g) ==
    LET scrutinee == GenExpr(e.scrutinee, g)
        tmp       == Tmp(scrutinee.g.tmps + 1)
        body      == InMatch(e, AssignTo(tmp), [scrutinee EXCEPT !.g = FreshTmp(@)])
    IN  [pre |-> scrutinee.pre \o <<Local(tmp, Nil)>> \o body.code, val |-> Var(tmp), g |-> body.g]

\* gen_match_arms: an if/elseif chain that the first pattern without a test closes.
GenMatchArms(arms, tail, x, g) ==
    IF arms = <<>> THEN [code |-> <<>>, g |-> g]
    ELSE LET tests == Tests(Head(arms).pat, Place(x))
             binds == Bindings(Head(arms).pat, x, g)
             body  == GenTail(Head(arms).body, tail, binds.g)
             rest  == GenMatchArms(Tail(arms), tail, x, body.g)
         IN  IF tests = <<>> THEN [code |-> binds.code \o body.code, g |-> body.g]
             ELSE [code |-> <<IfElse([kind |-> "tests", tests |-> tests],
                                     binds.code \o body.code, rest.code)>>,
                   g |-> rest.g]

\* gen_block_expr
GenBlock(e, g) ==
    LET tmp   == Tmp(g.tmps + 1)
        stmts == GenStmts(e.stmts, FreshTmp(g))
        final == IF ~stmts.reachable THEN [code |-> <<>>, g |-> stmts.g]
                 ELSE IF e.final = None THEN [code |-> <<Set(tmp, Unit)>>, g |-> stmts.g]
                 ELSE GenTail(e.final, AssignTo(tmp), stmts.g)
    IN  [pre |-> <<Local(tmp, Nil), DoEnd(stmts.code \o final.code)>>,
         val |-> Var(tmp), g |-> final.g]

\* gen_break_expr, gen_continue_expr and gen_return_expr; in tail position the
\* same statements are the whole code.
GenJump(e, g) ==
    LET value == IF e.kind = "continue" \/ e.value = None
                   THEN [pre |-> <<>>, val |-> Unit, g |-> g] ELSE GenExpr(e.value, g)
        jump  == CASE e.kind = "continue" -> <<Goto(ContinueLabel(g.loop))>>
                   [] e.kind = "return" -> <<ReturnLua(value.val)>>
                   [] e.kind = "break" -> (IF e.value = None THEN <<>> ELSE <<Set(g.loop_tmp, value.val)>>)
                                            \o <<Goto(BreakLabel(g.loop))>>
    IN  [pre |-> value.pre \o jump, val |-> Nil, g |-> value.g]

GenExpr(e, g) ==
    CASE e.kind \in {"call", "div", "tuple"} ->
            LET args == GenArgs(e.args, g)
            IN  [pre |-> args.pre, val |-> [e EXCEPT !.args = args.vals], g |-> args.g]
      [] e.kind = "assign" ->
            LET value == GenExpr(e.value, g)
            IN  [pre |-> value.pre \o (IF AlwaysExits(e.value) THEN <<>> ELSE <<Set(e.name, value.val)>>),
                 val |-> Unit, g |-> value.g]
      [] e.kind = "if" -> GenIf(e, g)
      [] e.kind = "match" -> GenMatch(e, g)
      [] e.kind = "block" -> GenBlock(e, g)
      [] e.kind = "loop" -> GenLoop(e, g)
      [] e.kind = "for" -> GenFor(e, g)
      [] e.kind \in {"break", "continue", "return"} -> GenJump(e, g)
      [] OTHER -> [pre |-> <<>>, val |-> e, g |-> g]

GenTail(e, tail, g) ==
    CASE e.kind = "block" ->
            LET stmts == GenStmts(e.stmts, g)
                final == IF stmts.reachable /\ e.final # None THEN GenTail(e.final, tail, stmts.g)
                         ELSE [code |-> <<>>, g |-> stmts.g]
            IN  [code |-> stmts.code \o final.code, g |-> final.g]
      [] e.kind = "if" ->
            LET cond == GenExpr(e.cond, g)
                then == GenTail(e.then, tail, cond.g)
                else == GenTail(e.else, tail, then.g)
            IN  [code |-> Append(cond.pre, IfElse(cond.val, then.code, else.code)), g |-> else.g]
      [] e.kind = "match" ->
            LET scrutinee == GenExpr(e.scrutinee, g)
                body      == InMatch(e, tail, scrutinee)
            IN  [code |-> scrutinee.pre \o body.code, g |-> body.g]
      [] e.kind \in {"break", "continue", "return", "for"} ->
            [code |-> GenExpr(e, g).pre, g |-> GenExpr(e, g).g]
      [] OTHER ->
            LET value == GenExpr(e, g)
                use   == CASE AlwaysExits(e) -> <<>>
                           [] tail.kind = "return" -> <<ReturnLua(value.val)>>
                           [] tail.kind = "assign" -> <<Set(tail.name, value.val)>>
                           [] e.kind = "assign" -> <<>>
                           [] OTHER -> <<Local(Underscore, value.val)>>
            IN  [code |-> value.pre \o use, g |-> value.g]

\* gen_stmt, for lets and expression statements.
GenStmt(s, g) ==
    LET value == GenExpr(s.value, g)
    IN  CASE s.kind = "expr" -> GenTail(s.value, Discard, g)
          [] s.pat.kind = "bind" ->
                [code |-> IF value.pre = <<>> THEN <<Local(s.pat.name, value.val)>>
                          ELSE <<Local(s.pat.name, Nil)>> \o value.pre
                                 \o (IF AlwaysExits(s.value) THEN <<>>
                                     ELSE <<Set(s.pat.name, value.val)>>),
                 g |-> value.g]
          [] s.pat.kind = "wildcard" ->
                [code |-> IF value.pre = <<>> THEN <<Local(Underscore, value.val)>> ELSE value.pre,
                 g |-> value.g]
          [] OTHER ->
                LET tmp   == Tmp(value.g.tmps + 1)
                    binds == Bindings(s.pat, tmp, FreshTmp(value.g))
                IN  [code |-> IF AlwaysExits(s.value) THEN <<Local(tmp, Nil)>> \o value.pre
                              ELSE <<Local(tmp, Nil)>> \o value.pre \o <<Set(tmp, value.val)>>
                                     \o binds.code,
                     g |-> binds.g]

\* Statements up to the first that always exits.
GenStmts(stmts, g) ==
    IF stmts = <<>> THEN [code |-> <<>>, g |-> g, reachable |-> TRUE]
    ELSE LET first == GenStmt(Head(stmts), g)
             rest  == GenStmts(Tail(stmts), first.g)
         IN  IF AlwaysExits(Head(stmts).value) THEN [code |-> first.code, g |-> first.g, reachable |-> FALSE]
             ELSE [rest EXCEPT !.code = first.code \o @]
=============================================================================
