------------------------------- MODULE Parser -------------------------------
(***************************************************************************)
(* Reading a program with parse errors (hern-core/src/parse/mod.rs,          *)
(* parse_program_recovering): statement after statement, and past a broken   *)
(* one to where the next may begin.  The language server reads every buffer   *)
(* like this while it is edited; the compiler reads with parse_program, which *)
(* stops at the first error.                                                *)
(*                                                                         *)
(* The text is one that was right (Texts), of which one token may be missing.*)
(***************************************************************************)
EXTENDS Syntax

CONSTANTS Texts,   \* texts: sequences of statements, a statement a sequence of words
          Trees,   \* expressions to write and to read back
          StatementAt(_, _)   \* the reader of one statement at a position: ParseStmt

NoTree == Leaf("none", "")

VARIABLES text,    \* the statements as they were meant
          cut,     \* <<s, w>>: word w of statement s is missing; <<0, 0>>: none is
          toks,    \* what the lexer made of it
          at,      \* how far it was read
          stmts,   \* the statements read
          broken,  \* the diagnostics: where
          meant    \* the tree the text was written from, or NoTree

parserVars == <<text, cut, toks, at, stmts, broken, meant>>

-----------------------------------------------------------------------------
Tokens(statements) ==
    FlattenSeq([s \in DOMAIN statements |-> [w \in DOMAIN statements[s] |-> <<statements[s][w], s>>]])
       \o << <<"eof", Len(statements) + 1>> >>

Shortened(statements, place) ==
    [s \in DOMAIN statements |->
        IF s = place[1] THEN RemoveAt(statements[s], place[2]) ELSE statements[s]]

Recovering(tokens) == [toks |-> tokens, recovering |-> TRUE]
Strict(tokens) == [toks |-> tokens, recovering |-> FALSE]

\* parse_program, from position p on.
RECURSIVE ParseProgram(_, _)
ParseProgram(c, p) ==
    IF Text(c, p) = "eof" THEN Read(p, <<>>)
    ELSE Then(StatementAt(c, p), LAMBDA q : ParseProgram(c, q))

-----------------------------------------------------------------------------
(* How a tree is written: with parentheses only where what is around would   *)
(* otherwise take an operand away.  The signs are ranked here from the         *)
(* loosest to the tightest, without the powers the reader compares: an edge     *)
(* is even at its rank and odd just above.                                     *)

Minimum(a, b) == IF a < b THEN a ELSE b
Tightest == 20
Ranking ==
    << {"="}, {"..", "..=", "|>"}, {"||"}, {"==", "!="}, {"&&"}, {"<>", ">>=", "<-"}, {"+", "-"}, {"*", "."},
       {"**", "(", "["} >>
RightAssociative == {"=", "**"}
At(t)    == 2 * SelectInSeq(Ranking, LAMBDA signs : t \in signs)
JustAfter(t) == IF t \in RightAssociative THEN At(t) ELSE At(t) + 1
Postfix(e) == e.kind \in {"call", "field access", "index"}
OpensLeft(e) == e.kind \in {"binary", "range", "assign"} \/ Postfix(e)

LeftSign(e) ==
    CASE e.kind \in {"binary", "range"} -> e.name
      [] e.kind = "assign" -> "="
      [] e.kind = "call" -> "("
      [] e.kind = "index" -> "["
      [] OTHER -> "."

\* Where the operand to the right of e's last operator begins to need parentheses.
OwnRightEdge(e) ==
    CASE e.kind \in {"binary", "range"} -> JustAfter(e.name)
      [] e.kind = "neg" -> At("*")
      [] e.kind = "not" -> At("+")
      [] e.kind = "assign" -> JustAfter("=")
      [] e.kind = "if" -> 0
      [] OTHER -> Tightest

RECURSIVE LeftEdge(_), RightEdge(_)
NeedsLeft(e, operand) ==
    \/ RightEdge(operand) <= At(LeftSign(e))
    \/ e.kind = "range" /\ operand.kind = "range"
NeedsRight(e, operand) == LeftEdge(operand) < OwnRightEdge(e)

LeftEdge(e) ==
    IF ~OpensLeft(e) THEN Tightest
    ELSE Minimum(At(LeftSign(e)), IF NeedsLeft(e, e.kids[1]) THEN Tightest ELSE LeftEdge(e.kids[1]))

RightEdge(e) ==
    IF e.kind = "range" /\ Len(e.kids) = 1 THEN 0
    ELSE IF OwnRightEdge(e) = Tightest THEN Tightest
    ELSE Minimum(OwnRightEdge(e), IF NeedsRight(e, Last(e.kids)) THEN Tightest ELSE RightEdge(Last(e.kids)))

RECURSIVE Written(_)
Written(e) ==
    LET Enclosed(needs, operand) == IF needs THEN <<"(">> \o Written(operand) \o <<")">> ELSE Written(operand)
        Left  == Enclosed(NeedsLeft(e, e.kids[1]), e.kids[1])
        Right == Enclosed(NeedsRight(e, Last(e.kids)), Last(e.kids))
        Plain(k) == Written(e.kids[k])
    IN  CASE e.kind = "binary" \/ (e.kind = "range" /\ Len(e.kids) = 2) -> Left \o <<e.name>> \o Right
          [] e.kind = "range" /\ Len(e.kids) = 1 -> Left \o <<e.name>>
          [] e.kind = "assign" -> Left \o <<"=">> \o Right
          [] e.kind = "call" -> Left \o <<"(">> \o Plain(2) \o <<")">>
          [] e.kind = "index" -> Left \o <<"[">> \o Plain(2) \o <<"]">>
          [] e.kind = "field access" -> Left \o <<".", e.kids[2].name>>
          [] e.kind = "neg" -> <<"-">> \o Right
          [] e.kind = "not" -> <<"!">> \o Right
          [] e.kind = "block" -> <<"{">> \o FlattenSeq([k \in DOMAIN e.kids |-> Plain(k)]) \o <<"}">>
          [] e.kind = "expr" -> Plain(1) \o (IF e.kids[1].kind \in BlockLike THEN <<>> ELSE <<";">>)
          [] e.kind = "if" -> <<"if">> \o Plain(1) \o Plain(2) \o <<"else">> \o Right
          [] OTHER -> <<e.name>>

RECURSIVE WithoutGroups(_)
WithoutGroups(e) ==
    IF e.kind = "grouped" THEN WithoutGroups(e.kids[1])
    ELSE [e EXCEPT !.kids = [k \in DOMAIN @ |-> WithoutGroups(@[k])]]

-----------------------------------------------------------------------------
StartsRecovery == {"let", "fn", "trait", "impl", "type", "extern", "test"}

\* recover_stmt_tokens: where to go on after a broken statement at p; open counts the
\* brackets of each kind that were opened since.
Opens  == [p \in {"(", "{", "["} |-> CASE p = "(" -> ")" [] p = "{" -> "}" [] OTHER -> "]"]
NoneOpen == [p \in {"(", "{", "["} |-> 0]

RECURSIVE RecoverStmtTokens_KeepsBrackets(_, _, _)
RecoverStmtTokens_KeepsBrackets(c, p, open) ==
    LET t == Text(c, p)
        Next(opens) == RecoverStmtTokens_KeepsBrackets(c, p + 1, opens)
    IN  CASE t = "eof" -> p
          [] open = NoneOpen /\ t \in {";", "}"} -> p + 1
          [] open = NoneOpen /\ t \in StartsRecovery -> p
          [] t \in DOMAIN Opens -> Next([open EXCEPT ![t] = @ + 1])
          [] t = ")" -> Next([open EXCEPT !["("] = IF @ > 0 THEN @ - 1 ELSE 0])
          [] t = "}" -> Next([open EXCEPT !["{"] = IF @ > 0 THEN @ - 1 ELSE 0])
          [] OTHER -> Next(open)

RECURSIVE RecoverStmtTokens(_, _, _)
RecoverStmtTokens(c, p, open) ==
    LET t == Text(c, p)
        opener == {o \in DOMAIN Opens : Opens[o] = t}
    IN  CASE t = "eof" -> p
          [] open = NoneOpen /\ t \in {";", "}"} -> p + 1
          [] open = NoneOpen /\ t \in StartsRecovery -> p
          [] t \in DOMAIN Opens -> RecoverStmtTokens(c, p + 1, [open EXCEPT ![t] = @ + 1])
          [] opener # {} ->
               RecoverStmtTokens(c, p + 1,
                   [o \in DOMAIN open |-> IF o \in opener /\ open[o] > 0 THEN open[o] - 1 ELSE open[o]])
          [] OTHER -> RecoverStmtTokens(c, p + 1, open)

ParserInit ==
    /\ at = 1 /\ stmts = <<>> /\ broken = <<>>
    /\ \/ /\ text \in Texts /\ meant = NoTree
          /\ cut \in {<<0, 0>>} \union UNION {{s} \X DOMAIN text[s] : s \in DOMAIN text}
          /\ toks = Tokens(Shortened(text, cut))
       \/ /\ meant \in Trees /\ cut = <<0, 0>>
          /\ text = << Written(meant) >>
          /\ toks = Tokens(text)

ReadStatement_DropsMissing ==
    LET r == StatementAt(Recovering(toks), at)
    IN  /\ Text(Recovering(toks), at) # "eof" /\ r.ok
        /\ stmts' = stmts \o r.trees
        /\ at' = r.at
        /\ UNCHANGED <<text, cut, toks, meant, broken>>

\* A statement is read.  Inside its blocks a missed semicolon is only a diagnostic.
ReadStatement ==
    LET c == Recovering(toks)
        r == StatementAt(c, at)
    IN  /\ Text(c, at) # "eof" /\ r.ok
        /\ stmts' = stmts \o r.trees
        /\ broken' = broken \o r.missing
        /\ at' = r.at
        /\ UNCHANGED <<text, cut, toks, meant>>

\* A statement cannot be read, and what belongs to it is skipped.
SkipBroken ==
    LET c == Recovering(toks)
        r == StatementAt(c, at)
    IN  /\ Text(c, at) # "eof" /\ ~r.ok
        /\ broken' = Append(broken, r.at) \o r.missing
        /\ at' = RecoverStmtTokens(c, at + 1, NoneOpen)
        /\ UNCHANGED <<text, cut, toks, stmts, meant>>

ParserDone == Text(Recovering(toks), at) = "eof"

-----------------------------------------------------------------------------
\* An expression that is written with only the parentheses it needs is read as it was meant
\* (parse_expr: the binding powers, the operands of prefix operators, ranges and assignments,
\* and the operators after an operand).
ReadsWhatIsWritten ==
    ParserDone /\ meant # NoTree => /\ broken = <<>>
                                    /\ [k \in DOMAIN stmts |-> WithoutGroups(stmts[k])]
                                         = << Node("expr", "", <<meant>>) >>

\* The language server and the compiler accept the same programs and read the same statements in
\* them: no diagnostic goes missing where a recovering parse carries on inside a block
\* (parse_block, inner_diagnostics), and none is made up.
RecoveringAgreesWithStrict ==
    ParserDone =>
        LET strict == ParseProgram(Strict(toks), 1)
        IN  /\ (broken = <<>>) = strict.ok
            /\ strict.ok => stmts = strict.trees

\* A missing token costs the statement it is missing from and no other declaration of the file
\* (recover_stmt_tokens), as long as it is not a closing bracket and what is left of the statement
\* does not continue the one before.
Declares(statement) == statement[1] \in StartsRecovery \ {"test"}
Alone(statement) == ParseProgram(Strict(Tokens(<<statement>>)), 1).trees

Contained(statement, word) ==
    /\ statement[word] \notin Range(Opens)
    /\ word = 1 /\ Len(statement) > 1 => LeftPower(statement[2]) < 0

NeighboursSurvive ==
    ParserDone /\ cut[1] # 0 /\ Contained(text[cut[1]], cut[2]) =>
        \A s \in DOMAIN text \ {cut[1]} : Declares(text[s]) => Range(Alone(text[s])) \subseteq Range(stmts)

\* In what a do block stands for, no return, break or continue leaves one of the functions that
\* were made of its rest (check_do_control_flow, desugar_do).
RECURSIVE Jumps(_)
Jumps(e) ==
    LET inner == UNION {Jumps(e.kids[k]) : k \in DOMAIN e.kids}
    IN  CASE e.kind \in {"return", "break", "continue"} -> inner \union {e.kind}
          [] e.kind \in {"lambda", "hidden lambda", "fn", "op", "method"} -> {}
          [] e.kind = "loop" -> inner \ {"break", "continue"}
          [] e.kind = "for" -> Jumps(e.kids[2]) \union (Jumps(e.kids[3]) \ {"break", "continue"})
          [] OTHER -> inner

RECURSIVE KeepsJumps(_)
KeepsJumps(e) ==
    /\ e.kind = "hidden lambda" => Jumps(Last(e.kids)) = {}
    /\ \A k \in DOMAIN e.kids : KeepsJumps(e.kids[k])

DoBlocksKeepJumps == \A k \in DOMAIN stmts : KeepsJumps(stmts[k])
=============================================================================
