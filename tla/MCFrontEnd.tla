----------------------------- MODULE MCFrontEnd -----------------------------
(***************************************************************************)
(* The front end on small programs: the texts are statements of every kind,   *)
(* the trees every expression of two operators, the sources every short text  *)
(* of the lexer's characters and the typed programs those of MCTyping.        *)
(***************************************************************************)
EXTENDS Parser, Lexer, MCTyping

X == Leaf("ident", "x")
One == Leaf("literal", "1")

Operations == {"-", "*", "**", "<>", "|>", "&&", "||", "=="}
Binaries(L, R) == {Node("binary", op, <<l, r>>) : op \in Operations, l \in L, r \in R}
Unaries(S) ==
    UNION {{Node("neg", "", <<e>>), Node("not", "", <<e>>), Node("call", "", <<e, One>>),
            Node("index", "", <<e, One>>), Node("field access", "", <<e, Leaf("name", "y")>>),
            Node("range", "..", <<e>>),
            Node("assign", "", <<X, e>>),
            Node("if", "", <<X, Node("block", "", <<One>>), e>>)} : e \in S}
Ranges(L, R) == {Node("range", "..=", <<l, r>>) : l \in L, r \in R}

Flat == {X} \union Binaries({X}, {One}) \union Unaries({X}) \union Ranges({X}, {One})
Twice == Binaries(Flat, Flat) \union Unaries(Flat) \union Ranges(Flat, Flat)
\* Blocks of a statement and an expression; the statement may do without a semicolon.
IfStatement == Node("if", "", <<X, Node("block", "", <<X>>), Node("block", "", <<One>>)>>)
Blocks(L, R) == {Node("block", "", <<Node("expr", "", <<l>>), r>>) : l \in L, r \in R}

MCTrees == Twice \union Binaries(Unaries(Flat), {X}) \union Binaries(Binaries(Flat, Flat), {X})
              \union Blocks(Flat \union {IfStatement}, {X, IfStatement})

LetText   == <<"let", "x", "=", "f", "(", "1", ")", ";">>
FnText    == <<"fn", "f", "(", "x", ":", "A", ")", "->", "B", "{", "let", "y", "=", "x", ";", "f", "(", "y", ")", ";", "y", "}">>
IfText    == <<"fn", "f", "(", ")", "{", "if", "x", "{", "y", ";", "}", "f", "(", ")", "}">>
OpText    == <<"fn", "infixl", "2", "<>", "(", "x", ",", "y", ")", "x">>
GroupText == <<"fn", "f", "(", ")", "{", "1", "}", "and", "fn", "x", "(", ")", "where", "'a", ":", "Eq", "f", "(", ")">>
TypeText  == <<"#", "[", "derive", "(", "Eq", ",", "Default", ")", "]", "type", "T", "(", "'a", ")", "=", "#", "[", "default", "]", "A", "|", "B", "(", "'a", ")">>
AliasText == <<"type", "alias", "T", "=", "#", "{", "x", ":", "A", ",", "..", "}">>
TraitText == <<"trait", "T", "A", "->", "B", "{", "fn", "f", "(", "x", ":", "A", ")", "->", "B", "#", "[", "inline", "]", "fn", "y", "(", ")", "->", "A", "}">>
ImplText  == <<"impl", "T", "for", "A", "->", "[", "B", "]", "where", "'a", ":", "Ord", "{", "fn", "f", "(", "x", ")", "x", "}">>
InherentText == <<"impl", "A", "{", "fn", "f", "(", "mut", "x", ")", "x", "}">>
ExternText == <<"extern", "f", ":", "fn", "(", "mut", "A", ")", "->", "(", "B", ",", "*", ")", "=", "#", "[", "template", "]", "text", ";">>
TestText  == <<"test", "{", "#", "[", "test", "]", "fn", "f", "(", ")", "1", "}">>
MatchText == <<"let", "x", "=", "match", "y", "{", "A", "(", "#", "{", "x", ",", "..", "}", ")", "->", "1", ",",
               "[", "_", ",", "..", "y", "]", "->", "fn", "(", "x", ")", "{", "x", "}", ",", "-", "1", "..=", "2", "->", "return", "}", ";">>
LoopText  == <<"let", "x", "=", "loop", "{", "for", "(", "x", ",", "y", ")", "in", "[", "1", ",", "..", "y", "]", "{", "continue", ";", "}", "break", "#", "{", "x", ":", "1", "}", "}", ";">>
DoText    == <<"let", "x", "=", "do", "{", "let", "x", "<-", "f", ";", "let", "y", "=", "loop", "{", "break", "1", ";", "}", ";", "f", "(", ")", ";",
               "fn", "(", ")", "{", "return", "x", ";", "}", "}", ";">>
JumpText  == <<"let", "x", "=", "loop", "{", "do", "{", "let", "x", "<-", "f", ";", "match", "x", "{", "_", "->", "break", "}", "}", ";", "}", ";">>
ReturnText == <<"let", "x", "=", "do", "{", "f", "(", ")", ";", "loop", "{", "return", "x", "}", "}", ";">>
CallText  == <<"f", "(", "x", ")", ";">>

MCStatements == {LetText, FnText, IfText, OpText, GroupText, TypeText, AliasText, TraitText, ImplText, InherentText,
                 ExternText, TestText, MatchText, LoopText, DoText, JumpText, ReturnText, CallText}
MCTexts == {<<s>> : s \in MCStatements}
              \union {<<a, b, c>> : a \in {FnText}, b \in MCStatements \ {JumpText, ReturnText}, c \in {LetText, TypeText, FnText, TestText}}

-----------------------------------------------------------------------------
(* Sources: everything short, and everything short in a hole, with the       *)
(* character that follows it in its string.                                  *)

Upto(n, set) == UNION {[1..k -> set] : k \in 0..n}
Plain == Upto(4, {".", "=", "1", "a", "\"", "\n", "/"}) \union Upto(3, {"#", "!", "[", "]", "\\", "é", "\"", "a", ":", " "})
Holed == {<<"\n", "a", "$", "\"", "i", "$", "{">> \o hole \o <<"}", "\"", "a">> :
             hole \in Upto(4, {"a", "{", "}", "\"", "$", "/", "\n", "\\", "+"})}
Nested == {<<"$", "\"", "é", "$", "{", "a", "$", "\"", "i", "\n", "$", "{">> \o hole \o <<"}", "\"", "}", "}", "\"">> :
             hole \in Upto(3, {"a", "{", "}", "\"", "$", "\n", " ", "é"})}
MCSources == Plain \union Holed \union Nested

MCStatementAt(c, p) == LET read == ParseStmt(c, p, FALSE) IN read

-----------------------------------------------------------------------------
VARIABLE stage

frontEndVars == <<stage, parserVars, lexerVars, typingOnlyVars>>

IdleParser ==
    /\ text = <<>> /\ cut = <<0, 0>> /\ toks = Tokens(<<>>) /\ at = 1 /\ stmts = <<>>
    /\ broken = <<>> /\ meant = NoTree
IdleLexer == source = <<>> /\ cursor = CursorAt(<<>>) /\ lexed = <<>> /\ failed = FALSE
IdleTyping ==
    /\ program = <<>> /\ inferred = 0 /\ checker = NewInfer /\ executed = 0 /\ machine = NewMachine
    /\ UnificationIdle

FrontEndInit ==
    \/ stage = "parser" /\ ParserInit /\ IdleLexer /\ IdleTyping
    \/ stage = "lexer" /\ LexerInit /\ IdleParser /\ IdleTyping
    \/ stage = "typing" /\ TypingOnlyInit /\ IdleParser /\ IdleLexer

FrontEndNext ==
    /\ \/ stage = "parser" /\ (ReadStatement \/ SkipBroken) /\ UNCHANGED <<lexerVars, typingOnlyVars>>
       \/ stage = "lexer" /\ ReadToken /\ UNCHANGED <<parserVars, typingOnlyVars>>
       \/ stage = "typing" /\ TypingOnlyNext /\ UNCHANGED <<parserVars, lexerVars>>
    /\ UNCHANGED stage

FrontEndSpec == FrontEndInit /\ [][FrontEndNext]_frontEndVars
=============================================================================
