------------------------------- MODULE MCTools -------------------------------
(***************************************************************************)
(* The tools around the compiler, checked together: the language server's   *)
(* state, the loading of a graph of modules, which is how its analyses read *)
(* a workspace, sessions of the REPL, and the index of names.  They share   *)
(* no state: a behaviour is one of a single tool while the others are idle. *)
(***************************************************************************)
EXTENDS LspServer, ModuleLoading, Repl, Names

CONSTANTS
    main, lib, dep,    \* the modules of the server's workspace
    Running            \* the tools that a run looks at

VARIABLE tool          \* the one that runs

-----------------------------------------------------------------------------
(* LspServer: a chain.  main imports lib, or nothing, and lib imports dep.    *)

Text(imports, fault, body) == [imports |-> imports, fault |-> fault, body |-> body]

MCDoc == {main, lib, dep}

\* main: with and without its import, and in the middle of an edit.
\* lib: mistyped, and as it is on disk.  dep: without errors and mistyped.
MCOverlays(d) ==
    CASE d = main -> {Text(<<lib>>, "none", 1), Text(<<>>, "type", 1), Text(<<lib>>, "parse", 1)}
      [] d = lib  -> {Text(<<dep>>, "none", 1), Text(<<dep>>, "type", 1)}
      [] d = dep  -> {Text(<<>>, "none", 1), Text(<<>>, "type", 1)}

\* main and lib stay as they are on disk; dep has two programs without errors and
\* one that half parses.
MCFiles(d) ==
    CASE d = main -> {Text(<<lib>>, "none", 1)}
      [] d = lib  -> {Text(<<dep>>, "none", 1)}
      [] d = dep  -> {Text(<<>>, "none", 1), Text(<<>>, "none", 2), Text(<<>>, "parse", 1)}

\* Files of dep that leave it without a program.
MCBrokenFiles(d) ==
    CASE d = main -> {Text(<<lib>>, "none", 1)}
      [] d = lib  -> {Text(<<dep>>, "none", 1)}
      [] d = dep  -> {Text(<<>>, "none", 1), Text(<<>>, "lex", 1), Text(<<>>, "missing", 1)}

-----------------------------------------------------------------------------
(* Repl: sessions with and without a file, and inputs that declare, shadow,  *)
(* mutate, read, print and fail.                                             *)

LetX == LetMut("x", "int", FALSE)

MCReplFiles == {<<>>, <<LetX>>, <<LetX, Increment("x")>>}

MCInputs ==
    {<<LetX>>, <<LetMut("x", "string", FALSE), LetMut("y", "int", TRUE)>>,
     <<Increment("x")>>, <<Read("x")>>, <<BumpAndRead("x")>>, <<FailAtRun("x")>>,
     <<Increment("x"), FailAtRun("x")>>, <<LetMut("y", "int", FALSE), Read("y")>>}

-----------------------------------------------------------------------------
(* Names: every document of two statements of the templates, and of a let    *)
(* and two smaller ones, spelled with two names in every way.                *)

Template(sites, stmt) == [sites |-> sites, stmt |-> stmt]
Nowhere == EachExpr(<<>>)

OperatorSites == {<<1, 4>>, <<2, 4>>}

Templates(i) ==
    LET s == <<i, 1>>  t == <<i, 2>>  u == <<i, 3>>  plus == <<i, 4>>
    IN  {Template({s}, LetStmt(<<s>>, Nowhere)),
         Template({s, t}, LetStmt(<<s>>, IdentExpr(t))),
         Template({s, t}, LetStmt(<<s, t>>, Nowhere)),
         Template({s, t}, FnStmt(s, <<t>>, Nowhere)),
         Template({s, t, u}, FnStmt(s, <<t>>, IdentExpr(u))),
         Template({s, t, u}, LetStmt(<<s>>, LambdaExpr(<<t>>, IdentExpr(u)))),
         Template({s, t, u}, ExprStmt(BlockExpr(<<LetStmt(<<s>>, IdentExpr(t))>>, IdentExpr(u)))),
         Template({s, t, u}, ExprStmt(MatchExpr(IdentExpr(s), <<Scoped(<<t>>, IdentExpr(u))>>))),
         Template({s, t, u}, ExprStmt(BlockExpr(<<FnStmt(s, <<>>, IdentExpr(t))>>, IdentExpr(u)))),
         Template({s, t}, TestStmt(<<LetStmt(<<s>>, Nowhere), ExprStmt(IdentExpr(t))>>)),
         Template({s, t}, ImplStmt(<<FnStmt(s, <<>>, IdentExpr(t))>>)),
         Template({s, t}, ExprStmt(MatchExpr(Nowhere, <<Scoped(<<s>>, AssociatedExpr(t))>>))),
         Template({s, t, u}, GroupStmt(<<FnStmt(s, <<>>, IdentExpr(t)), FnStmt(u, <<>>, Nowhere)>>)),
         Template({s, t, plus}, OpStmt(plus, <<s>>, IdentExpr(t))),
         Template({s, plus}, ExprStmt(InfixExpr(plus, IdentExpr(s), Nowhere))),
         Template({s}, ImplStmt(<<FnStmt(s, <<>>, Nowhere)>>)),
         Template({s, t}, ExprStmt(EachExpr(<<AssociatedExpr(s), IdentExpr(t)>>))),
         Template({s, t}, ExprStmt(EachExpr(<<IdentExpr(s), IdentExpr(t)>>)))}

Smaller(i) ==
    LET s == <<i, 1>>  t == <<i, 2>>  u == <<i, 3>>
    IN  {Template({s, t}, LetStmt(<<s>>, IdentExpr(t))),
         Template({s, t}, FnStmt(s, <<>>, IdentExpr(t))),
         Template({s}, ImplStmt(<<FnStmt(s, <<>>, Nowhere)>>)),
         Template({s, t}, ExprStmt(EachExpr(<<AssociatedExpr(s), IdentExpr(t)>>))),
         Template({s, t, u}, ExprStmt(ForExpr(<<s>>, IdentExpr(t), IdentExpr(u))))}

\* The first site of a document is spelled "a": the two names are alike.  There is
\* one operator.
Spelled(ts) ==
    LET sites == UNION {ts[k].sites : k \in DOMAIN ts}
    IN  {[stmts |-> [k \in DOMAIN ts |-> ts[k].stmt], spelled |-> f] :
            f \in {g \in [sites -> {"a", "b", "+"}] :
                          /\ g[<<1, 1>>] = "a"
                          /\ \A s \in sites : g[s] = "+" <=> s \in OperatorSites}}

MCDocuments ==
    UNION {Spelled(<<first, second>>) : first \in Templates(1), second \in Templates(2)}
    \union UNION {Spelled(<<Template({<<1, 1>>}, LetStmt(<<<<1, 1>>>>, Nowhere)), second, third>>) :
                     second \in Smaller(2), third \in Smaller(3)}

MCNewNames == <<"c", "d">>

-----------------------------------------------------------------------------
(* One tool runs.                                                            *)

\* The modules of the loader that are not the entry are alike.
Symmetry == Permutations(Module \ {Entry})

ServerIdle ==
    Init /\ \A d \in Doc : disk[d].source.fault = "none" /\ disk[d].source.body = 1

ToolsInit ==
    /\ tool \in Running
    /\ IF tool = "server" THEN Init ELSE ServerIdle
    /\ IF tool = "loading" THEN LoadingInit ELSE LoadingIdle
    /\ IF tool = "session" THEN ReplInit ELSE ReplIdle
    /\ IF tool = "names" THEN NamesInit ELSE NamesIdle

OthersIdle ==
    /\ IF tool = "server" THEN TRUE ELSE UNCHANGED vars
    /\ IF tool = "loading" THEN TRUE ELSE UNCHANGED loadingVars
    /\ IF tool = "session" THEN TRUE ELSE UNCHANGED replVars
    /\ IF tool = "names" THEN TRUE ELSE UNCHANGED nameVars

ToolsNext ==
    /\ UNCHANGED tool
    /\ \/ tool = "server" /\ Next /\ OthersIdle
       \/ tool = "loading" /\ LoadingNext /\ OthersIdle
       \/ tool = "session" /\ ReplNext /\ OthersIdle
       \/ tool = "names" /\ NamesNext /\ OthersIdle

=============================================================================
