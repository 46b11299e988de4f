------------------------------ MODULE Soundness ------------------------------
(***************************************************************************)
(* What the programs that Typing accepts do when they run.  A value is a     *)
(* number, a truth value, unit, a tuple, an option, a function with its       *)
(* scope, or a table: records and arrays are tables of a store, shared by     *)
(* whoever holds them.  A program is inferred statement by statement and,    *)
(* when all of it is accepted, run.                                         *)
(***************************************************************************)
EXTENDS Typing

CONSTANTS
    TypedPrograms,   \* sequences of top-level statements
    RunTurns,        \* bound: calls and turns of loops before a run is cut off
    Checked(_, _)    \* the checker: InferStmt

VARIABLES
    program,         \* the statements
    inferred,        \* how many of them are inferred
    checker,         \* the state of Infer after them
    executed,        \* how many of them have run
    machine          \* the store after them

typingVars == <<program, inferred, checker, executed, machine>>

-----------------------------------------------------------------------------
(* Values and the store.                                                     *)

VInt    == [v |-> "int"]
VUnit   == [v |-> "unit"]
VBool(b) == [v |-> "bool", b |-> b]
VTuple(items) == [v |-> "tuple", items |-> items]
VSome(x) == [v |-> "some", of |-> x]
VNone   == [v |-> "none"]
VTable(at) == [v |-> "table", at |-> at]
VFn(params, body, scope) == [v |-> "fn", params |-> params, body |-> body, scope |-> scope]
VPrimitive(name) == [v |-> "primitive", name |-> name]
VRange  == [v |-> "range"]

\* tables: functions from names to values, and sequences; cells: what the names hold;
\* to: how control leaves, "next", "break", "continue", "return", "stuck" or "cut".
NewMachine ==
    [tables |-> <<>>, cells |-> <<VPrimitive("Some"), VNone>>, scope |-> ("Some" :> 1) @@ ("None" :> 2),
     to |-> "next", value |-> VUnit, turns |-> RunTurns]

Leaves(rt) == rt.to # "next"
With(rt, x) == [rt EXCEPT !.value = x]
Leave(rt, how) == [rt EXCEPT !.to = how]
Stuck(rt) == Leave(rt, "stuck")
Turn(rt) == IF rt.turns = 0 THEN Leave(rt, "cut") ELSE [rt EXCEPT !.turns = @ - 1]
After(rt, Op(_)) == IF Leaves(rt) THEN rt ELSE Op(rt)

Hold(rt, name, x) ==
    [rt EXCEPT !.cells = Append(@, x), !.scope = (name :> (Len(rt.cells) + 1)) @@ @]
Back(rt, outer) == [rt EXCEPT !.scope = outer.scope]
Store(rt, table) == With([rt EXCEPT !.tables = Append(@, table)], VTable(Len(rt.tables) + 1))

IsRecord(rt, x) == x.v = "table" /\ "fields" \in DOMAIN rt.tables[x.at]
IsArray(rt, x)  == x.v = "table" /\ "items" \in DOMAIN rt.tables[x.at]
FieldsOf(rt, x) == rt.tables[x.at].fields
ItemsOf(rt, x)  == rt.tables[x.at].items

-----------------------------------------------------------------------------
(* Patterns: whether one matches, and the names it binds.                     *)

RECURSIVE PatMatches(_, _, _)
PatMatches(rt, p, x) ==
    CASE p.p = "bool" -> x = VBool(p.b)
      [] p.p = "none" -> x = VNone
      [] p.p = "some" -> x.v = "some" /\ PatMatches(rt, p.of, x.of)
      [] p.p = "tuple" -> /\ x.v = "tuple" /\ Len(x.items) = Len(p.pats)
                          /\ \A i \in DOMAIN p.pats : PatMatches(rt, p.pats[i], x.items[i])
      [] p.p = "list" -> /\ IsArray(rt, x)
                         /\ IF p.rest = NoName THEN Len(ItemsOf(rt, x)) = Len(p.pats)
                                               ELSE Len(ItemsOf(rt, x)) >= Len(p.pats)
                         /\ \A i \in DOMAIN p.pats : PatMatches(rt, p.pats[i], ItemsOf(rt, x)[i])
      [] p.p = "record" -> IsRecord(rt, x) /\ \A i \in DOMAIN p.fields : p.fields[i][1] \in DOMAIN FieldsOf(rt, x)
      [] OTHER -> TRUE

RECURSIVE PatBind(_, _, _)
PatBind(rt, p, x) ==
    LET Each(pats, xs) == FoldLeft(LAMBDA o, i : PatBind(o, pats[i], xs[i]), rt, [i \in DOMAIN pats |-> i])
        Rest(o, table) == IF p.rest \in {NoName, "_"} THEN o
                          ELSE LET s == Store(o, table) IN Hold(s, p.rest, s.value)
    IN  CASE p.p = "bind" -> Hold(rt, p.name, x)
          [] p.p = "some" -> PatBind(rt, p.of, x.of)
          [] p.p = "tuple" -> Each(p.pats, x.items)
          [] p.p = "list" -> Rest(Each(p.pats, ItemsOf(rt, x)),
                 [items |-> SubSeq(ItemsOf(rt, x), Len(p.pats) + 1, Len(ItemsOf(rt, x)))])
          [] p.p = "record" ->
                 LET named == FoldLeft(LAMBDA o, f : Hold(o, f[2], FieldsOf(rt, x)[f[1]]), rt, p.fields)
                     own   == {p.fields[i][1] : i \in DOMAIN p.fields}
                 IN  Rest(named, [fields |-> [f \in DOMAIN FieldsOf(rt, x) \ own |-> FieldsOf(rt, x)[f]]])
          [] OTHER -> rt

-----------------------------------------------------------------------------
(* Expressions, from left to right.                                          *)

RECURSIVE Exec(_, _), ExecStmt(_, _), ExecLoop(_, _), ExecFor(_, _, _)

ExecAll(es, rt) ==
    FoldLeft(LAMBDA acc, e : IF Leaves(acc.rt) THEN acc
                             ELSE LET o == Exec(e, acc.rt) IN [rt |-> o, xs |-> Append(acc.xs, o.value)],
             [rt |-> rt, xs |-> <<>>], es)

\* A call has a scope of its own; break and continue do not cross it.
Apply(f, xs, rt) ==
    IF f.v = "primitive" THEN (IF Len(xs) = 1 THEN With(rt, VSome(xs[1])) ELSE Stuck(rt))
    ELSE IF f.v # "fn" THEN Stuck(rt)
    ELSE IF Len(f.params) # Len(xs) THEN Stuck(rt)
    ELSE LET inside == FoldLeft(LAMBDA o, i : PatBind(o, f.params[i].pat, xs[i]),
                                [Turn(rt) EXCEPT !.scope = f.scope], [i \in DOMAIN xs |-> i])
             after  == IF \E i \in DOMAIN xs : ~PatMatches(rt, f.params[i].pat, xs[i]) THEN Stuck(rt)
                       ELSE IF Leaves(Turn(rt)) THEN Turn(rt) ELSE Exec(f.body, inside)
         IN  Back(CASE after.to = "return" -> Leave(after, "next")
                    [] after.to \in {"break", "continue"} -> Stuck(after)
                    [] OTHER -> after, rt)

ExecLoop(e, rt) ==
    LET turn  == Turn(rt)
        after == Back(Exec(e.body, turn), rt)
    IN  CASE Leaves(turn) -> turn
          [] after.to \in {"next", "continue"} -> ExecLoop(e, Leave(after, "next"))
          [] after.to = "break" -> Leave(after, "next")
          [] OTHER -> after

ExecFor(e, xs, rt) ==
    LET after == Back(Exec(e.body, PatBind(Turn(rt), e.pat, Head(xs))), rt)
    IN  IF xs = <<>> THEN With(rt, VUnit)
        ELSE IF Leaves(Turn(rt)) THEN Turn(rt)
        ELSE IF ~PatMatches(rt, e.pat, Head(xs)) THEN Stuck(rt)
        ELSE CASE after.to \in {"next", "continue"} -> ExecFor(e, Tail(xs), Leave(after, "next"))
               [] after.to = "break" -> With(Leave(after, "next"), VUnit)
               [] OTHER -> after

\* The entries of a literal: fields or elements of its own, and those of what it spreads.
ExecRecord(e, rt) ==
    LET all == ExecAll([i \in DOMAIN e.entries |-> e.entries[i].of], rt)
        Own(i) == IF e.entries[i].spread THEN FieldsOf(all.rt, all.xs[i]) ELSE (e.entries[i].name :> all.xs[i])
    IN  IF Leaves(all.rt) THEN all.rt
        ELSE IF \E i \in DOMAIN e.entries : e.entries[i].spread /\ ~IsRecord(all.rt, all.xs[i]) THEN Stuck(all.rt)
        ELSE Store(all.rt, [fields |-> FoldLeft(LAMBDA fs, i : Own(i) @@ fs, <<>>, [i \in DOMAIN e.entries |-> i])])

ExecArray(e, rt) ==
    LET all == ExecAll([i \in DOMAIN e.entries |-> e.entries[i].of], rt)
        Own(i) == IF e.entries[i].spread THEN ItemsOf(all.rt, all.xs[i]) ELSE <<all.xs[i]>>
    IN  IF Leaves(all.rt) THEN all.rt
        ELSE IF \E i \in DOMAIN e.entries : e.entries[i].spread /\ ~IsArray(all.rt, all.xs[i]) THEN Stuck(all.rt)
        ELSE Store(all.rt, [items |-> FlattenSeq([i \in DOMAIN e.entries |-> Own(i)])])

ExecAssign(e, rt) ==
    IF e.target.e = "var" THEN
        After(Exec(e.value, rt), LAMBDA o :
            With([o EXCEPT !.cells[o.scope[e.target.name]] = o.value], VUnit))
    ELSE After(Exec(e.target.of, rt), LAMBDA base :
            After(Exec(e.value, base), LAMBDA o :
                IF ~IsRecord(o, base.value) THEN Stuck(o)
                ELSE With([o EXCEPT !.tables[base.value.at].fields = (e.target.name :> o.value) @@ @], VUnit)))

ExecMatch(e, of) ==
    LET hits == {i \in DOMAIN e.arms : PatMatches(of, e.arms[i].pat, of.value)}
        arm  == e.arms[Min(hits)]
    IN  IF hits = {} THEN Stuck(of) ELSE Back(Exec(arm.body, PatBind(of, arm.pat, of.value)), of)

ExecBlock(e, rt) ==
    LET after == FoldLeft(LAMBDA o, s : After(o, LAMBDA x : ExecStmt(s, x)), rt, e.stmts)
        Final(o) == IF e.final = NoExpr THEN With(o, VUnit) ELSE Exec(e.final, o)
    IN  Back(After(after, Final), rt)

Exec(e, rt) ==
    CASE e.e = "int" -> With(rt, VInt)
      [] e.e = "bool" -> With(rt, VBool(e.b))
      [] e.e = "unit" -> With(rt, VUnit)
      [] e.e = "var" -> With(rt, rt.cells[rt.scope[e.name]])
      [] e.e = "lambda" -> With(rt, VFn(e.params, e.body, rt.scope))
      [] e.e = "not" -> After(Exec(e.of, rt), LAMBDA o :
             IF o.value.v = "bool" THEN With(o, VBool(~o.value.b)) ELSE Stuck(o))
      [] e.e = "tuple" -> LET all == ExecAll(e.items, rt)
                          IN  IF Leaves(all.rt) THEN all.rt ELSE With(all.rt, VTuple(all.xs))
      [] e.e = "array" -> ExecArray(e, rt)
      [] e.e = "record" -> ExecRecord(e, rt)
      [] e.e = "field" -> After(Exec(e.of, rt), LAMBDA o :
             IF IsRecord(o, o.value) /\ e.name \in DOMAIN FieldsOf(o, o.value)
             THEN With(o, FieldsOf(o, o.value)[e.name]) ELSE Stuck(o))
      [] e.e = "range" -> LET all == ExecAll(<<e.from, e.until>>, rt)
                          IN  IF Leaves(all.rt) THEN all.rt
                              ELSE IF all.xs = <<VInt, VInt>> THEN With(all.rt, VRange) ELSE Stuck(all.rt)
      [] e.e = "call" -> LET all == ExecAll(<<e.callee>> \o e.args, rt)
                         IN  IF Leaves(all.rt) THEN all.rt ELSE Apply(Head(all.xs), Tail(all.xs), all.rt)
      [] e.e = "pipe" -> LET all == ExecAll(<<e.left, e.right>>, rt)
                         IN  IF Leaves(all.rt) THEN all.rt ELSE Apply(all.xs[2], <<all.xs[1]>>, all.rt)
      [] e.e = "assign" -> ExecAssign(e, rt)
      [] e.e = "if" -> After(Exec(e.cond, rt), LAMBDA o :
             IF o.value.v # "bool" THEN Stuck(o) ELSE Exec(IF o.value.b THEN e.then ELSE e.else, o))
      [] e.e = "match" -> After(Exec(e.of, rt), LAMBDA o : ExecMatch(e, o))
      [] e.e = "loop" -> ExecLoop(e, rt)
      [] e.e = "for" -> After(Exec(e.of, rt), LAMBDA o :
             IF o.value = VRange THEN ExecFor(e, <<VInt, VInt>>, o)
             ELSE IF IsArray(o, o.value) THEN ExecFor(e, ItemsOf(o, o.value), o) ELSE Stuck(o))
      [] e.e = "continue" -> Leave(rt, "continue")
      [] e.e \in {"break", "return"} ->
             After(IF e.value = NoExpr THEN With(rt, VUnit) ELSE Exec(e.value, rt), LAMBDA o : Leave(o, e.e))
      [] e.e = "block" -> ExecBlock(e, rt)

\* A function sees its own name.
ExecStmt(s, rt) ==
    CASE s.s = "let" -> After(Exec(s.value, rt), LAMBDA o :
             IF PatMatches(o, s.pat, o.value) THEN With(PatBind(o, s.pat, o.value), VUnit) ELSE Stuck(o))
      [] s.s = "fn" ->
             LET scope == (s.name :> (Len(rt.cells) + 1)) @@ rt.scope
             IN  With(Hold(rt, s.name, VFn(s.params, s.body, scope)), VUnit)
      [] s.s = "expr" -> Exec(s.value, rt)

-----------------------------------------------------------------------------
(* Inference, then the run.                                                  *)

TypingInit ==
    /\ program \in TypedPrograms /\ inferred = 0 /\ checker = NewInfer
    /\ executed = 0 /\ machine = NewMachine

InferNext ==
    /\ inferred < Len(program) /\ checker.ok
    /\ checker' = Checked(program[inferred + 1], checker)
    /\ inferred' = inferred + 1
    /\ UNCHANGED <<program, executed, machine>>

RunNext ==
    /\ inferred = Len(program) /\ checker.ok
    /\ executed < Len(program) /\ ~Leaves(machine)
    /\ machine' = ExecStmt(program[executed + 1], machine)
    /\ executed' = executed + 1
    /\ UNCHANGED <<program, inferred, checker>>

TypingNext == InferNext \/ RunNext

-----------------------------------------------------------------------------
(* What acceptance promises.                                                 *)

RECURSIVE HasType(_, _, _)
HasType(rt, x, t) ==
    CASE t.ty = "var" -> TRUE
      [] t = TInt -> x = VInt
      [] t = TBool -> x.v = "bool"
      [] t = TUnit -> x = VUnit
      [] t = TRange -> x = VRange
      [] t.ty = "func" -> x.v = "primitive" \/ (x.v = "fn" /\ Len(x.params) = Len(t.params))
      [] t.ty = "tuple" -> /\ x.v = "tuple" /\ Len(x.items) = Len(t.items)
                           /\ \A i \in DOMAIN t.items : HasType(rt, x.items[i], t.items[i])
      [] t.ty = "app" /\ t.con = TCon("Array") ->
            IsArray(rt, x) /\ \A y \in Range(ItemsOf(rt, x)) : HasType(rt, y, t.args[1])
      [] t.ty = "app" /\ t.con = TCon("Option") ->
            x = VNone \/ (x.v = "some" /\ HasType(rt, x.of, t.args[1]))
      [] t.ty = "record" ->
            /\ IsRecord(rt, x)
            /\ \A f \in Range(t.fields) : f[1] \in DOMAIN FieldsOf(rt, x) /\ HasType(rt, FieldsOf(rt, x)[f[1]], f[2])
            /\ t.tail = Closed => \A f \in DOMAIN FieldsOf(rt, x) : \E g \in Range(t.fields) : g[1] = f
      [] OTHER -> FALSE

\* A program that is accepted never calls what is no function, tests what is no truth
\* value, reads a field that is not there or leaves a loop it is not in; and after each
\* of its statements every top-level name holds a value of the type it was given,
\* whatever functions, loops, early returns and assignments came between.
AcceptedProgramsRun ==
    /\ machine.to \notin {"stuck", "break", "continue", "return"}
    /\ executed > 0 /\ ~Leaves(machine) =>
          \A name \in DOMAIN machine.scope \ {"Some", "None"} :
              LET scheme == checker.env[name].scheme
              IN  HasType(machine, machine.cells[machine.scope[name]], Applied(checker, scheme.ty))

\* The tables that a name reaches through fields: those an assignment through it can change.
RECURSIVE Owned(_, _)
Owned(rt, x) ==
    IF ~IsRecord(rt, x) THEN {}
    ELSE {x.at} \union UNION {Owned(rt, y) : y \in Range(FieldsOf(rt, x))}

\* No table is changed through two names: of two top-level names whose places are
\* mutable, neither reaches a table that the other reaches, although they may have been
\* filled from one another, from arrays and from the results of functions.
OneMutableOwner ==
    LET places == {name \in DOMAIN machine.scope : name \in DOMAIN checker.env /\ checker.env[name].place}
        Of(name) == Owned(machine, machine.cells[machine.scope[name]])
    IN  inferred = Len(program) /\ checker.ok
            => \A a, b \in places : a # b => Of(a) \intersect Of(b) = {}
=============================================================================
