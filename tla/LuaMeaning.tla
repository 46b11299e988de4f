------------------------------ MODULE LuaMeaning ------------------------------
(***************************************************************************)
(* What a Hern function body means, what the Lua generated for it means,   *)
(* and that the two are the same.  An evaluation gives the calls that were *)
(* made with their arguments, in order, and how it ended.                  *)
(*                                                                         *)
(* A value is a sequence of numbers: <<n>> is a number, Unit and Nil have  *)
(* one number of their own, and a tuple begins with its tag.  A call       *)
(* returns its first argument.                                             *)
(***************************************************************************)
EXTENDS LuaCodegen, TLC

CONSTANTS
    Programs,       \* function bodies over the parameters x and c
    MaxTurns,       \* bound: turns of loops before an evaluation is cut off
    ExprCode(_), TailCode(_, _)   \* the generator, started afresh: GenExpr and GenTail

VARIABLES
    body,           \* the function body
    lua,            \* the Lua generated for it, as a sequence of statements
    meant,          \* what the body does, for each value of c
    done            \* what the Lua does

codegenVars == <<body, lua, meant, done>>

UnitValue == <<-1>>
NilValue  == <<-2>>
TupleTag  == <<-3>>
Elements(v) == Tail(v)      \* tuples of numbers only

X == <<"x", 0>>
C == <<"c", 0>>

-----------------------------------------------------------------------------
(* Scopes: a sequence of functions from names to values, the innermost last. *)

Declare(scopes, x, v) ==
    [scopes EXCEPT ![Len(scopes)] =
        [n \in DOMAIN @ \union {x} |-> IF n = x THEN v ELSE @[n]]]

ScopeOf(scopes, x) == {i \in DOMAIN scopes : x \in DOMAIN scopes[i]}
Innermost(S) == CHOOSE i \in S : \A j \in S : j <= i

Lookup(scopes, x) ==
    IF ScopeOf(scopes, x) = {} THEN NilValue ELSE scopes[Innermost(ScopeOf(scopes, x))][x]

Update(scopes, x, v) ==
    IF ScopeOf(scopes, x) = {} THEN scopes
    ELSE [scopes EXCEPT ![Innermost(ScopeOf(scopes, x))][x] = v]

EnterScope(st) == [st EXCEPT !.scopes = Append(@, <<>>)]
LeaveTo(st, outer) == [st EXCEPT !.scopes = SubSeq(@, 1, Len(outer.scopes))]

\* st: the scopes, the calls so far, the turns left, and how control leaves:
\* "next", "break", "continue", "return", "cut", "error" or a label.
Start(c) == [scopes |-> <<(X :> <<7>>) @@ (C :> <<c>>)>>, calls |-> <<>>, turns |-> MaxTurns,
             to |-> "next", label |-> <<"", 0>>, value |-> UnitValue]

Leaves(st) == st.to # "next"
With(st, v) == [st EXCEPT !.value = v]
JumpTo(st, how) == [st EXCEPT !.to = how]
Turn(st) == IF st.turns = 0 THEN JumpTo(st, "cut") ELSE [st EXCEPT !.turns = @ - 1]

Applied(kind, vals, st) ==
    CASE kind = "call" -> With([st EXCEPT !.calls = Append(@, vals)], vals[1])
      [] kind = "div" -> With(st, vals[1])
      [] kind = "tuple" -> With(st, TupleTag \o FlattenSeq(vals))

-----------------------------------------------------------------------------
(* Hern: operands are evaluated once each and from left to right.          *)

Matches(p, v) ==
    CASE p.kind = "lit" -> v = <<p.n>>
      [] p.kind = "tuple" -> \A i \in DOMAIN p.pats :
                                p.pats[i].kind = "lit" => Elements(v)[i] = p.pats[i].n
      [] OTHER -> TRUE

RECURSIVE BindPattern(_, _, _)
BindPattern(p, v, st) ==
    CASE p.kind = "bind" -> [st EXCEPT !.scopes = Declare(@, p.name, v)]
      [] p.kind = "tuple" ->
            FoldLeft(LAMBDA s, i : BindPattern(p.pats[i], <<Elements(v)[i]>>, s), st,
                     [i \in DOMAIN p.pats |-> i])
      [] OTHER -> st

RECURSIVE Run(_, _), RunArgs(_, _), RunStmts(_, _), RunLoop(_, _), RunFor(_, _, _)

RunArgs(args, st) ==
    IF args = <<>> THEN [st |-> st, vals |-> <<>>]
    ELSE LET first == Run(Head(args), st)
             rest  == RunArgs(Tail(args), first)
         IN  IF Leaves(first) THEN [st |-> first, vals |-> <<>>]
             ELSE [st |-> rest.st, vals |-> <<first.value>> \o rest.vals]

RunStmts(stmts, st) ==
    IF stmts = <<>> \/ Leaves(st) THEN st
    ELSE LET s     == Head(stmts)
             after == Run(s.value, st)
         IN  IF Leaves(after) THEN after
             ELSE RunStmts(Tail(stmts),
                           IF s.kind = "let" THEN BindPattern(s.pat, after.value, after) ELSE after)

RunLoop(e, st) ==
    LET turn  == Turn(st)
        after == LeaveTo(Run(e.body, turn), st)
    IN  CASE turn.to = "cut" -> turn
          [] after.to \in {"next", "continue"} -> RunLoop(e, JumpTo(after, "next"))
          [] after.to = "break" -> JumpTo(after, "next")
          [] OTHER -> after

RunFor(e, items, st) ==
    IF items = <<>> THEN With(st, UnitValue)
    ELSE LET turn  == BindPattern(Bind(e.name), <<Head(items)>>, EnterScope(st))
             after == LeaveTo(Run(e.body, turn), st)
         IN  CASE after.to \in {"next", "continue"} -> RunFor(e, Tail(items), JumpTo(after, "next"))
               [] after.to = "break" -> With(JumpTo(after, "next"), UnitValue)
               [] OTHER -> after

Run(e, st) ==
    CASE e.kind = "num" -> With(st, <<e.n>>)
      [] e.kind = "unit" -> With(st, UnitValue)
      [] e.kind = "var" -> With(st, Lookup(st.scopes, e.name))
      [] e.kind \in {"call", "div", "tuple"} ->
            LET args == RunArgs(e.args, st)
            IN  IF Leaves(args.st) THEN args.st ELSE Applied(e.kind, args.vals, args.st)
      [] e.kind = "assign" ->
            LET after == Run(e.value, st)
            IN  IF Leaves(after) THEN after
                ELSE With([after EXCEPT !.scopes = Update(@, e.name, after.value)], UnitValue)
      [] e.kind = "if" ->
            LET cond == Run(e.cond, st)
            IN  IF Leaves(cond) THEN cond
                ELSE Run(IF cond.value # <<0>> THEN e.then ELSE e.else, cond)
      [] e.kind = "match" ->
            LET value == Run(e.scrutinee, st)
                arm   == e.arms[CHOOSE i \in DOMAIN e.arms :
                                    /\ Matches(e.arms[i].pat, value.value)
                                    /\ \A j \in 1 .. (i - 1) : ~Matches(e.arms[j].pat, value.value)]
            IN  IF Leaves(value) THEN value
                ELSE LeaveTo(Run(arm.body, BindPattern(arm.pat, value.value, EnterScope(value))), st)
      [] e.kind = "block" ->
            LET after == RunStmts(e.stmts, EnterScope(st))
            IN  LeaveTo(IF Leaves(after) THEN after
                        ELSE IF e.final = None THEN With(after, UnitValue) ELSE Run(e.final, after), st)
      [] e.kind = "loop" -> RunLoop(e, st)
      [] e.kind = "for" ->
            LET items == Run(e.iterable, st)
            IN  IF Leaves(items) THEN items ELSE RunFor(e, Elements(items.value), items)
      [] e.kind = "continue" -> JumpTo(st, "continue")
      [] e.kind \in {"break", "return"} ->
            LET after == IF e.value = None THEN With(st, UnitValue) ELSE Run(e.value, st)
            IN  IF Leaves(after) THEN after ELSE JumpTo(after, e.kind)

-----------------------------------------------------------------------------
(* Lua 5.1 with goto, as LuaJIT has it.                                    *)

\* A return is the last statement of its block, or the chunk does not compile.
RECURSIVE Compiles(_)
Compiles(code) ==
    \A i \in DOMAIN code :
        LET s == code[i]
        IN  CASE s.kind = "return" -> i = Len(code)
              [] s.kind \in {"do", "while", "forindex"} -> Compiles(s.body)
              [] s.kind = "ifelse" -> Compiles(s.then) /\ Compiles(s.else)
              [] OTHER -> TRUE

RECURSIVE Eval(_, _), EvalArgs(_, _), Exec(_, _, _), ExecStmt(_, _), ExecWhile(_, _), ExecFor(_, _, _)

EvalArgs(args, st) ==
    IF args = <<>> THEN [st |-> st, vals |-> <<>>]
    ELSE LET first == Eval(Head(args), st)
             rest  == EvalArgs(Tail(args), first)
         IN  [st |-> rest.st, vals |-> <<first.value>> \o rest.vals]

ElementAt(v, i) == IF v[1] = TupleTag[1] /\ i < Len(v) THEN <<v[i + 1]>> ELSE NilValue

\* The template of integer division has its second operand twice, the first time
\* in front of the first.
Eval(e, st) ==
    CASE e.kind = "num" -> With(st, <<e.n>>)
      [] e.kind = "unit" -> With(st, UnitValue)
      [] e.kind = "nil" -> With(st, NilValue)
      [] e.kind = "var" -> With(st, Lookup(st.scopes, e.name))
      [] e.kind = "index" -> With(st, ElementAt(Lookup(st.scopes, e.name), e.i))
      [] e.kind = "indexvar" ->
            With(st, ElementAt(Lookup(st.scopes, e.name), Lookup(st.scopes, e.i)[1]))
      [] e.kind \in {"call", "tuple"} ->
            LET args == EvalArgs(e.args, st) IN Applied(e.kind, args.vals, args.st)
      [] e.kind = "div" -> 
            LET args == EvalArgs(<<e.args[2], e.args[1], e.args[2]>>, st)
            IN  Applied(e.kind, Tail(args.vals), args.st)

RECURSIVE ValueAt(_, _)
ValueAt(place, scopes) ==
    IF place.path = <<>> THEN Lookup(scopes, place.base)
    ELSE ElementAt(ValueAt([place EXCEPT !.path = Front(@)], scopes), Last(place.path))

\* A nested block; it gives its locals up.
InBlock(code, st) == LeaveTo(Exec(code, 1, EnterScope(st)), st)

ExecWhile(s, st) ==
    LET turn  == Turn(st)
        after == InBlock(s.body, turn)
    IN  CASE turn.to = "cut" -> turn
          [] after.to = "next" -> ExecWhile(s, after)
          [] OTHER -> after

ExecFor(s, i, st) ==
    LET item  == ElementAt(Lookup(st.scopes, s.array), i)
        after == LeaveTo(Exec(s.body, 1, [EnterScope(st) EXCEPT !.scopes = Declare(@, s.name, <<i>>)]), st)
    IN  IF item = NilValue THEN st
        ELSE IF after.to = "next" THEN ExecFor(s, i + 1, after) ELSE after

ExecStmt(s, st) ==
    CASE s.kind = "local" ->
            LET v == Eval(s.value, st) IN [v EXCEPT !.scopes = Declare(@, s.name, v.value)]
      [] s.kind = "set" ->
            LET v == Eval(s.value, st) IN [v EXCEPT !.scopes = Update(@, s.name, v.value)]
      [] s.kind = "do" -> InBlock(s.body, st)
      [] s.kind = "ifelse" /\ s.cond.kind = "tests" ->
            IF \A i \in DOMAIN s.cond.tests :
                   ValueAt(s.cond.tests[i].place, st.scopes) = <<s.cond.tests[i].n>>
              THEN InBlock(s.then, st) ELSE InBlock(s.else, st)
      [] s.kind = "ifelse" /\ s.cond.kind # "tests" ->
            LET cond == Eval(s.cond, st)
            IN  IF cond.value # <<0>> THEN InBlock(s.then, cond) ELSE InBlock(s.else, cond)
      [] s.kind = "while" -> ExecWhile(s, st)
      [] s.kind = "forindex" -> ExecFor(s, 1, st)
      [] s.kind = "label" -> st
      [] s.kind = "goto" -> [JumpTo(st, "goto") EXCEPT !.label = s.label]
      [] s.kind = "return" -> JumpTo(Eval(s.value, st), "return")

\* The statements of a block from the i-th on; a goto finds its label in the
\* innermost block that has it.
Exec(code, i, st) ==
    IF i > Len(code) THEN st
    ELSE LET after == ExecStmt(code[i], st)
             here  == {j \in DOMAIN code : after.to = "goto" /\ code[j] = Label(after.label)}
         IN  IF ~Leaves(after) THEN Exec(code, i + 1, after)
             ELSE IF here # {} THEN Exec(code, Innermost(here) + 1, JumpTo(after, "next"))
             ELSE after

-----------------------------------------------------------------------------
(* Outcomes.                                                               *)

\* Unit is {} or nil in Lua, and a function that ends without return gives nil.
Result(v) == IF v = NilValue THEN UnitValue ELSE v

Outcome(st) ==
    [calls |-> [i \in DOMAIN st.calls |-> [j \in DOMAIN st.calls[i] |-> Result(st.calls[i][j])]],
     cut   |-> st.to = "cut",
     value |-> IF st.to = "cut" THEN UnitValue ELSE Result(st.value)]

DoesNotCompile == [calls |-> <<>>, cut |-> FALSE, value |-> <<-9>>]

MeaningOf(e) == [c \in {0, 1} |-> Outcome(Run(e, Start(c)))]

\* Falling off the end of a Lua function gives nil.
LuaResult(st) == IF st.to = "next" THEN With(st, NilValue) ELSE st

LuaMeaningOf(code) ==
    IF Compiles(code) THEN [c \in {0, 1} |-> Outcome(LuaResult(Exec(code, 1, Start(c))))]
    ELSE [c \in {0, 1} |-> DoesNotCompile]

-----------------------------------------------------------------------------
(* Where the generated Lua departs from the program, as conditions on the   *)
(* program: `Faithful` excludes them.                                       *)

RECURSIVE Sub(_)
Parts(e) ==
    CASE e.kind \in {"call", "div", "tuple"} -> Range(e.args)
      [] e.kind = "if" -> {e.cond, e.then, e.else}
      [] e.kind = "match" -> {e.scrutinee} \union {e.arms[i].body : i \in DOMAIN e.arms}
      [] e.kind = "block" -> {e.stmts[i].value : i \in DOMAIN e.stmts} \union ({e.final} \ {None})
      [] e.kind = "loop" -> {e.body}
      [] e.kind = "for" -> {e.iterable, e.body}
      [] e.kind \in {"assign", "break", "return"} -> {e.value} \ {None}
      [] OTHER -> {}
Sub(e) == {e} \union UNION {Sub(p) : p \in Parts(e)}

Hoists(e) == ExprCode(e).pre # <<>>
Inline(e) == ExprCode(e).val
Calls(e) == \E s \in Sub(e) : s.kind = "call"
Temporary(x) == x[1] = "_t"
\* What is left in line can change when later operands are hoisted in front of it.
CanChange(e) == \E s \in Sub(Inline(e)) : s.kind = "call" \/ (s.kind = "var" /\ ~Temporary(s.name))
Mentions(e, x) == \E s \in Sub(e) : s.kind \in {"var", "assign"} /\ s.name = x

OperandsKeepOrder(args) ==
    \A i, j \in DOMAIN args : i < j /\ Hoists(args[j]) => ~CanChange(args[i])

LetKeepsMeaning(s) ==
    s.kind = "let" /\ Hoists(s.value) =>
        CASE s.pat.kind = "wildcard" -> ~Calls(Inline(s.value))
          [] s.pat.kind = "bind" -> ~Mentions(s.value, s.pat.name)
          [] OTHER -> TRUE

\* A break of this loop and not of one inside it.
RECURSIVE Breaks(_)
Breaks(e) == \/ e.kind = "break"
             \/ e.kind \notin {"loop", "for"} /\ \E p \in Parts(e) : Breaks(p)

\* The last statement generated for the body is a return, with a label after it.
EndsInReturn(loopBody) ==
    LET code == TailCode(loopBody, Discard).code
    IN  code # <<>> /\ Last(code).kind = "return"

RebindsScrutinee(e) ==
    \E i \in DOMAIN e.arms : e.arms[i].pat.kind = "tuple"
        /\ \E k \in DOMAIN Front(e.arms[i].pat.pats) : e.arms[i].pat.pats[k] = Bind(e.scrutinee.name)

KeepsMeaning(e) ==
    CASE e.kind = "tuple" -> OperandsKeepOrder(e.args)
      [] e.kind = "call" -> OperandsKeepOrder(e.args)
      [] e.kind = "div" -> OperandsKeepOrder(e.args) /\ ~\E a \in Range(e.args) : Calls(Inline(a))
      [] e.kind = "block" -> \A i \in DOMAIN e.stmts : LetKeepsMeaning(e.stmts[i])
      [] e.kind = "loop" -> ~EndsInReturn(e.body) /\ (Flow(e.body, FALSE) = "exits" => ~Breaks(e.body))
      [] e.kind = "for" -> ~EndsInReturn(e.body)
      [] e.kind = "match" -> e.scrutinee.kind = "var" => ~RebindsScrutinee(e)
      [] OTHER -> TRUE

Faithful(e) == \A s \in Sub(e) : KeepsMeaning(s)

-----------------------------------------------------------------------------

NoBody == None

CodegenIdle == body = NoBody /\ lua = <<>> /\ meant = <<>> /\ done = <<>>

CodegenInit ==
    /\ body \in Programs
    /\ lua = <<>>
    /\ meant = <<>>
    /\ done = <<>>

\* gen_expr_as_body
Generate ==
    /\ body # NoBody
    /\ lua = <<>>
    /\ lua' = TailCode(body, ReturnIt).code
    /\ meant' = MeaningOf(body)
    /\ UNCHANGED <<body, done>>

RunLua ==
    /\ lua # <<>>
    /\ done = <<>>
    /\ done' = LuaMeaningOf(lua)
    /\ UNCHANGED <<body, lua, meant>>

CodegenNext == Generate \/ RunLua
-----------------------------------------------------------------------------
(* The Lua of a function body makes the calls of the body with the same
   arguments and in the same order, and ends the same way: what is hoisted, what
   is dropped as unreachable (Flow) and where break, continue and return lead
   does not change the program.  Bodies with one of the constructs listed at
   KeepsMeaning are excepted. *)
LuaMeansTheSame == done # <<>> /\ Faithful(body) => done = meant

=============================================================================
