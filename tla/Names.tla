------------------------------- MODULE Names -------------------------------
(* The index of a document's names (hern-core/src/source_index.rs) and the   *)
(* rename of the language server (hern-lsp/src/analysis/rename.rs), which    *)
(* answers from it.  The index resolves names by a walk of its own over the  *)
(* syntax tree; what a name really refers to is decided by inference.        *)
(* NameBindings is that decision, and the property compares the two.         *)
(*                                                                           *)
(* A program is a tree whose binders and uses are SITES; how each site is    *)
(* spelled is kept apart, so that a rename changes only the spelling.        *)
EXTENDS Naturals, Sequences, FiniteSets, SequencesExt, TLC

CONSTANTS
    Documents,   \* the documents: records [stmts, spelled]
    NewNames   \* the names renamed to, in turn: a sequence of fresh names

VARIABLES
    source,    \* the statements of the open document
    spelled,   \* the spelling of each site, which renames change
    opened,    \* the spelling when the document was opened
    renames    \* how many renames were made (at most Len(NewNames))

nameVars == <<source, spelled, opened, renames>>

-----------------------------------------------------------------------------
(* Syntax.  A pattern is the sequence of the sites it binds.                 *)

IdentExpr(s)       == [node |-> "Ident", site |-> s]
AssociatedExpr(s)  == [node |-> "Associated", site |-> s]           \* Type::name
InfixExpr(s, l, r) == [node |-> "Infix", site |-> s, parts |-> <<l, r>>]
EachExpr(es)       == [node |-> "Each", parts |-> es]   \* calls, tuples, ifs, loops, ...
BlockExpr(ss, e)   == [node |-> "Block", stmts |-> ss, final |-> e]
Scoped(p, e)       == [node |-> "Arm", pat |-> p, body |-> e]
LambdaExpr(p, e)   == [node |-> "Scopes", kind |-> "Parameter", before |-> EachExpr(<<>>),
                       arms |-> <<Scoped(p, e)>>]
MatchExpr(e, as)   == [node |-> "Scopes", kind |-> "Let", before |-> e, arms |-> as]
ForExpr(p, i, e)   == [node |-> "Scopes", kind |-> "Let", before |-> i, arms |-> <<Scoped(p, e)>>]

LetStmt(p, e)   == [node |-> "Let", pat |-> p, value |-> e]
FnStmt(s, p, e) == [node |-> "Fn", site |-> s, pat |-> p, body |-> e]
OpStmt(s, p, e) == [node |-> "Op", site |-> s, pat |-> p, body |-> e]
GroupStmt(fs)   == [node |-> "Group", stmts |-> fs]        \* fn .. and fn ..
TestStmt(ss)    == [node |-> "Tests", stmts |-> ss]
ImplStmt(ms)    == [node |-> "Impl", methods |-> ms]
ExprStmt(e)     == [node |-> "Expr", value |-> e]

-----------------------------------------------------------------------------
(* The index.  Its builder keeps the definitions in the order they were met  *)
(* (a symbol is a position in it), the references, and a stack of scopes.    *)

Builder == [defs |-> <<>>, refs |-> {}, scopes |-> <<<<>>>>]

Push(b) == [b EXCEPT !.scopes = Append(@, <<>>)]
PopScope(b)  == [b EXCEPT !.scopes = Front(@)]

Define(b, s, kind, name) ==
    LET symbol == Len(b.defs) + 1
    IN  [b EXCEPT !.defs = Append(@, [site |-> s, kind |-> kind]),
                  !.scopes[Len(b.scopes)] = (name[s] :> symbol) @@ @]

DefineAll(b, sites, kind, name) ==
    FoldLeft(LAMBDA acc, s : Define(acc, s, kind, name), b, sites)

Reference(b, s, name) ==
    LET having == {k \in DOMAIN b.scopes : name[s] \in DOMAIN b.scopes[k]}
        inner  == CHOOSE k \in having : \A j \in having : j <= k
    IN  IF having = {} THEN b
        ELSE [b EXCEPT !.refs = @ \cup {<<s, b.scopes[inner][name[s]]>>}]

\* Everything a list of statements defines is in scope from its first one on.
RECURSIVE DefineTopLevel(_, _, _)
DefineTopLevel(b, stmt, name) ==
    CASE stmt.node = "Let"         -> DefineAll(b, stmt.pat, "Let", name)
      [] stmt.node \in {"Fn","Op"} -> Define(b, stmt.site, "Function", name)
      [] stmt.node = "Impl"        ->
            FoldLeft(LAMBDA acc, m : Define(acc, m.site, "ImplMethod", name), b, stmt.methods)
      [] stmt.node = "Group"       ->
            FoldLeft(LAMBDA acc, f : DefineTopLevel(acc, f, name), b, stmt.stmts)
      [] OTHER                     -> b

RECURSIVE IndexExpr(_, _, _), IndexStmt(_, _, _), IndexTopLevelStmt(_, _, _)

IndexCallable(b, params, kind, body, name) ==
    PopScope(IndexExpr(DefineAll(Push(b), params, kind, name), body, name))

IndexScopedTopLevel(b, stmts, name) ==
    LET defined == FoldLeft(LAMBDA acc, s : DefineTopLevel(acc, s, name), Push(b), stmts)
    IN  PopScope(FoldLeft(LAMBDA acc, s : IndexTopLevelStmt(acc, s, name), defined, stmts))

IndexTopLevelStmt(b, stmt, name) ==
    CASE stmt.node \in {"Fn", "Op"} -> IndexCallable(b, stmt.pat, "Parameter", stmt.body, name)
      [] stmt.node = "Impl" ->
            FoldLeft(LAMBDA acc, m : IndexCallable(acc, m.pat, "Parameter", m.body, name),
                     b, stmt.methods)
      [] stmt.node \in {"Group", "Tests"} -> IndexScopedTopLevel(b, stmt.stmts, name)
      [] OTHER -> IndexExpr(b, stmt.value, name)

\* A bug: the name is in scope of its own initializer.
IndexLet_VisibleInItself(b, stmt, name) ==
    IndexExpr(DefineAll(b, stmt.pat, "Let", name), stmt.value, name)

IndexLet(b, stmt, name) ==
    DefineAll(IndexExpr(b, stmt.value, name), stmt.pat, "Let", name)

IndexStmt(b, stmt, name) ==
    CASE stmt.node = "Let"          -> IndexLet(b, stmt, name)
      [] stmt.node \in {"Fn", "Op"} ->
            IndexTopLevelStmt(Define(b, stmt.site, "Function", name), stmt, name)
      [] OTHER                      -> IndexTopLevelStmt(b, stmt, name)

\* An operator's use is not a name: only its operands are visited.
IndexExpr(b, e, name) ==
    CASE e.node \in {"Ident", "Associated"} -> Reference(b, e.site, name)
      [] e.node \in {"Each", "Infix"} ->
            FoldLeft(LAMBDA acc, x : IndexExpr(acc, x, name), b, e.parts)
      [] e.node = "Block" ->
            PopScope(IndexExpr(FoldLeft(LAMBDA acc, s : IndexStmt(acc, s, name), Push(b), e.stmts),
                          e.final, name))
      [] OTHER ->
            FoldLeft(LAMBDA acc, a : IndexCallable(acc, a.pat, e.kind, a.body, name),
                     IndexExpr(b, e.before, name), e.arms)

IndexProgram(stmts, name) ==
    LET defined == FoldLeft(LAMBDA acc, s : DefineTopLevel(acc, s, name), Builder, stmts)
    IN  FoldLeft(LAMBDA acc, s : IndexTopLevelStmt(acc, s, name), defined, stmts)

-----------------------------------------------------------------------------
(* Queries.  The cursor is on a site; a site that is defined twice stands    *)
(* for the first of its definitions.                                         *)

DefinedAt(index, s)    == {k \in DOMAIN index.defs : index.defs[k].site = s}
ReferencedBy(index, s) == {r[2] : r \in {q \in index.refs : q[1] = s}}
First(symbols)         == CHOOSE k \in symbols : \A j \in symbols : k <= j

\* The symbols at the cursor: none, or one.
SymbolAt(index, s) ==
    IF ReferencedBy(index, s) # {} THEN ReferencedBy(index, s)
    ELSE IF DefinedAt(index, s) # {} THEN {First(DefinedAt(index, s))}
    ELSE {}

ReferencesForSymbolAt(index, s) ==
    UNION {{index.defs[k].site} \cup {r[1] : r \in {q \in index.refs : q[2] = k}} :
              k \in SymbolAt(index, s)}

RenameableDefinitionKind(kind) == kind \in {"Function", "Let"}

RenameTargetAt(index, s) ==
    IF \E k \in SymbolAt(index, s) : RenameableDefinitionKind(index.defs[k].kind)
    THEN ReferencesForSymbolAt(index, s)
    ELSE {}

-----------------------------------------------------------------------------
(* What the names refer to, as inference scopes them: a name is in scope     *)
(* after its definition, a function also in its own body, the functions of a *)
(* group in each other's, and methods are reached through their type only.   *)
(* Uses are sets of pairs <<use, binder>>; <<>> stands for no binder.         *)

BindSites(env, sites, name) == FoldLeft(LAMBDA acc, s : (name[s] :> s) @@ acc, env, sites)

Look(env, s, name) ==
    IF name[s] \in DOMAIN env THEN {<<s, env[name[s]]>>} ELSE {<<s, <<>>>>}

RECURSIVE ExprUses(_, _, _), StmtUses(_, _, _)

Sequentially(start, stmts, name) ==
    FoldLeft(LAMBDA acc, s : LET after == StmtUses(acc.env, s, name)
                             IN  [env |-> after.env, uses |-> acc.uses \cup after.uses],
             start, stmts)

FunctionUses(env, f, name) == ExprUses(BindSites(env, f.pat, name), f.body, name)

StmtUses(env, stmt, name) ==
    CASE stmt.node = "Let" ->
            [env |-> BindSites(env, stmt.pat, name), uses |-> ExprUses(env, stmt.value, name)]
      [] stmt.node \in {"Fn", "Op"} ->
            LET inside == BindSites(env, <<stmt.site>>, name)
            IN  [env |-> inside, uses |-> FunctionUses(inside, stmt, name)]
      [] stmt.node = "Group" ->
            LET inside == BindSites(env, [k \in DOMAIN stmt.stmts |-> stmt.stmts[k].site], name)
            IN  [env |-> inside,
                 uses |-> UNION {FunctionUses(inside, f, name) : f \in Range(stmt.stmts)}]
      [] stmt.node = "Impl" ->
            [env |-> env, uses |-> UNION {FunctionUses(env, m, name) : m \in Range(stmt.methods)}]
      [] stmt.node = "Tests" ->
            [env |-> env,
             uses |-> Sequentially([env |-> env, uses |-> {}], stmt.stmts, name).uses]
      [] OTHER -> [env |-> env, uses |-> ExprUses(env, stmt.value, name)]

ExprUses(env, e, name) ==
    CASE e.node = "Ident"      -> Look(env, e.site, name)
      [] e.node = "Associated" -> {}
      [] e.node = "Each"       -> UNION {ExprUses(env, x, name) : x \in Range(e.parts)}
      [] e.node = "Infix"      ->
            Look(env, e.site, name) \cup UNION {ExprUses(env, x, name) : x \in Range(e.parts)}
      [] e.node = "Block"      ->
            LET inside == Sequentially([env |-> env, uses |-> {}], e.stmts, name)
            IN  inside.uses \cup ExprUses(inside.env, e.final, name)
      [] OTHER                 ->
            ExprUses(env, e.before, name)
                \cup UNION {ExprUses(BindSites(env, a.pat, name), a.body, name) : a \in Range(e.arms)}

MethodsOf(stmts) ==
    UNION {IF s.node = "Impl" THEN {m.site : m \in Range(s.methods)} ELSE {} : s \in Range(stmts)}

RECURSIVE AssociatedIn(_)
AssociatedIn(tree) ==
    IF tree.node = "Associated" THEN {tree.site}
    ELSE UNION ({AssociatedIn(tree[f]) : f \in DOMAIN tree \cap {"value", "body", "final", "before"}}
           \cup {AssociatedIn(x) : x \in UNION {Range(tree[f]) :
                    f \in DOMAIN tree \cap {"parts", "stmts", "methods", "arms"}}})

AssociatedSites(stmts) == UNION {AssociatedIn(s) : s \in Range(stmts)}

AssociatedUses(stmts, name) ==
    LET named(s) == {m \in MethodsOf(stmts) : name[m] = name[s]}
    IN  {<<s, IF named(s) = {} THEN <<>> ELSE CHOOSE m \in named(s) : TRUE>> :
            s \in AssociatedSites(stmts)}

NameBindings(stmts, name) ==
    Sequentially([env |-> <<>>, uses |-> {}], stmts, name).uses \cup AssociatedUses(stmts, name)

\* The program has a meaning: every use has a binder, and no type has two
\* methods of a name.
Resolves(stmts, name) ==
    /\ \A u \in NameBindings(stmts, name) : u[2] # <<>>
    /\ \A m, n \in MethodsOf(stmts) : name[m] = name[n] => m = n

-----------------------------------------------------------------------------
NamesIdle ==
    source = <<>> /\ spelled = <<>> /\ opened = <<>> /\ renames = 0

NamesInit ==
    /\ \E d \in Documents :
          /\ Resolves(d.stmts, d.spelled)
          /\ source = d.stmts
          /\ spelled = d.spelled
    /\ opened = spelled
    /\ renames = 0

\* A rename, accepted by the server and applied by the client.
Rename(cursor) ==
    LET target == RenameTargetAt(IndexProgram(source, spelled), cursor)
    IN  /\ renames < Len(NewNames)
        /\ target # {}
        /\ spelled' = [s \in DOMAIN spelled |->
                          IF s \in target THEN NewNames[renames + 1] ELSE spelled[s]]
        /\ renames' = renames + 1
        /\ UNCHANGED <<source, opened>>

NamesNext == \E cursor \in DOMAIN spelled : Rename(cursor)

-----------------------------------------------------------------------------
(* The sites that the statements at the top and in test blocks define.       *)
RECURSIVE StatementSites(_)
StatementSites(stmt) ==
    CASE stmt.node = "Let"         -> Range(stmt.pat)
      [] stmt.node \in {"Fn","Op"} -> {stmt.site}
      [] stmt.node = "Impl"        -> {m.site : m \in Range(stmt.methods)}
      [] stmt.node \in {"Group", "Tests"} -> UNION {StatementSites(s) : s \in Range(stmt.stmts)}
      [] OTHER                     -> {}

TopSites == UNION {StatementSites(s) : s \in Range(source)}

\* The functions of a group have two definitions each, the uses of an operator are
\* not indexed.
OddlyIndexed ==
    UNION {StatementSites(s) : s \in {q \in Range(source) : q.node \in {"Group", "Op"}}}

Methods == MethodsOf(source)

\* The programs whose names the index resolves as inference does: statements
\* define every name once, methods included, `Type::name` is only written with
\* names that nothing but methods have, and neither an operator nor a function of
\* a group was renamed.  The departures are in the README.
IndexedAsMeant ==
    /\ \A s, t \in TopSites : opened[s] = opened[t] => s = t
    /\ \A s \in AssociatedSites(source), t \in DOMAIN opened \ Methods :
          opened[s] = opened[t] => t \in AssociatedSites(source)
    /\ \A s \in OddlyIndexed : spelled[s] = opened[s]

(* Renaming, once or several times, leaves every use with the binder it had  *)
(* when the document was opened (rename.rs rewrites what the index finds).   *)
(* This is about the index's walk over nested scopes, initializers, patterns *)
(* and recursive functions.                                                  *)
RenameKeepsBindings ==
    IndexedAsMeant => NameBindings(source, spelled) = NameBindings(source, opened)

=============================================================================
