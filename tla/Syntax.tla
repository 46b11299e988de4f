------------------------------- MODULE Syntax -------------------------------
(***************************************************************************)
(* The grammar of Hern as the parser reads it (hern-core/src/parse/mod.rs): *)
(* recursive descent over a sequence of tokens, with binding powers for     *)
(* expressions.  A token is a pair of its text and its line; c is what the   *)
(* parser holds, [toks, recovering].  Numbers are integers; spans, node ids,  *)
(* the texts of errors and interpolated strings are left out.               *)
(*                                                                         *)
(* A result is the position after what was read, the trees that stand for   *)
(* it and the places where a semicolon was missed.                          *)
(***************************************************************************)
EXTENDS Integers, SequencesExt

Names     == {"x", "y", "f", "T", "A", "B", "'a", "'b", "_", "_x"}
Contextual == {"alias", "test", "and", "infixl", "infixr", "infix", "inline", "template",
               "derive", "default", "Default", "Eq", "Ord", "ToString"}
Idents    == Names \union Contextual
Lower     == {"x", "y", "f", "test", "and"}
TypeVars  == {"'a", "'b"}
Numbers   == {"1", "2"}
Strings   == {"text"}
CustomOps == {"<>", ">>=", "**", "<-"}

Node(kind, name, kids) == [kind |-> kind, name |-> name, kids |-> kids]
Leaf(kind, name) == Node(kind, name, <<>>)

Text(c, p) == IF p \in DOMAIN c.toks THEN c.toks[p][1] ELSE "none"
Line(c, p) == IF p \in DOMAIN c.toks THEN c.toks[p][2] ELSE 0

Read(p, trees) == [ok |-> TRUE, at |-> p, trees |-> trees, missing |-> <<>>]
Unread(p)      == [ok |-> FALSE, at |-> p, trees |-> <<>>, missing |-> <<>>]

\* What F reads after r.
Then(r, F(_)) ==
    LET q == F(r.at)
    IN  IF r.ok THEN [q EXCEPT !.trees = r.trees \o @, !.missing = r.missing \o @] ELSE r

As(kind, r) == IF r.ok THEN [r EXCEPT !.trees = <<Node(kind, "", @)>>] ELSE r

Unless(wrong, r) == IF r.ok /\ wrong THEN [r EXCEPT !.ok = FALSE] ELSE r

\* One symbol: a token itself, or a part of the grammar.
RECURSIVE Symbol(_, _, _), Items(_, _, _, _, _), SomeItems(_, _, _, _, _)

\* Where `..` is the rest of what is matched, nothing follows it.
EndsWithRest(item) == item \in {"FIELD PATTERN", "ELEMENT PATTERN", "FIELD TYPE"}

Sequence(c, p, symbols) ==
    FoldLeft(LAMBDA r, symbol : Then(r, LAMBDA q : Symbol(c, symbol, q)), Read(p, <<>>), symbols)

\* Items up to the closing token, which stays.  sep: "strict" and "trailing" put commas
\* between them, and the second allows one after the last; "none" puts nothing.
Items(c, item, p, close, sep) ==
    IF Text(c, p) = close THEN Read(p, <<>>) ELSE SomeItems(c, item, p, close, sep)

SomeItems(c, item, p, close, sep) ==
    Then(Symbol(c, item, p), LAMBDA q :
        CASE sep = "none" -> Items(c, item, q, close, sep)
          [] sep # "none" /\ Text(c, q) = "," /\ (Text(c, p) = ".." => ~EndsWithRest(item)) ->
               IF sep = "trailing" THEN Items(c, item, q + 1, close, sep)
               ELSE SomeItems(c, item, q + 1, close, sep)
          [] OTHER -> Read(q, <<>>))

Listed(c, p, open, item, close, sep) ==
    Then(Then(Sequence(c, p, open), LAMBDA q : Items(c, item, q, close, sep)),
         LAMBDA q : Symbol(c, close, q))

NonEmpty(c, p, open, item, close, sep) ==
    Then(Then(Sequence(c, p, open), LAMBDA q : SomeItems(c, item, q, close, sep)),
         LAMBDA q : Symbol(c, close, q))

-----------------------------------------------------------------------------
(* Patterns.                                                                 *)

NumberPattern(c, p, literal) ==
    LET sign == IF Text(c, p + 1) = "-" THEN 1 ELSE 0
        end  == p + 1 + sign
    IN  IF Text(c, p) \notin {"..", "..="} THEN Read(p, <<literal>>)
        ELSE IF Text(c, end) \notin Numbers THEN Unread(end)
        ELSE Read(end + 1, <<Node("range pattern", Text(c, p),
                                  <<literal, Node("number", Text(c, end),
                                                  IF sign = 1 THEN <<Leaf("minus", "")>> ELSE <<>>)>>)>>)

\* ..name or .. alone ends a record or an array pattern.
Rest(c, p) ==
    IF Text(c, p + 1) \in Idents
    THEN Read(p + 2, <<Leaf("rest", Text(c, p + 1))>>) ELSE Read(p + 1, <<Leaf("rest", "")>>)

FieldPattern(c, p) ==
    IF Text(c, p) = ".." THEN Rest(c, p)
    ELSE IF Text(c, p + 1) = ":" THEN As("field", Sequence(c, p, <<"IDENT", ":", "IDENT">>))
    ELSE As("field", Then(Symbol(c, "IDENT", p), LAMBDA q : Read(q, <<Leaf("name", Text(c, p))>>)))

Pattern(c, p) ==
    LET t == Text(c, p)
    IN  CASE t = "_" -> Read(p + 1, <<Leaf("wildcard", "")>>)
          [] t \in Strings \union {"true", "false"} -> Read(p + 1, <<Leaf("literal", t)>>)
          [] t \in Numbers -> NumberPattern(c, p + 1, Leaf("number", t))
          [] t = "-" ->
               IF Text(c, p + 1) \notin Numbers THEN Unread(p)
               ELSE NumberPattern(c, p + 2, Node("number", Text(c, p + 1), <<Leaf("minus", "")>>))
          [] t \in Idents \ {"_"} ->
               IF Text(c, p + 1) = "(" THEN As("constructor", Sequence(c, p, <<"IDENT", "(", "BINDER", ")">>))
               ELSE Read(p + 1, <<Node("constructor", "", <<Leaf("name", t)>>)>>)
          [] t = "#" -> As("record pattern", Listed(c, p, <<"#", "{">>, "FIELD PATTERN", "}", "trailing"))
          [] t = "(" ->
               LET r == Listed(c, p, <<"(">>, "BINDER", ")", "trailing")
               IN  IF Len(r.trees) = 1 THEN r ELSE As("tuple pattern", r)
          [] t = "[" -> As("array pattern", Listed(c, p, <<"[">>, "ELEMENT PATTERN", "]", "trailing"))
          [] OTHER -> Unread(p)

\* parse_for_pattern: a lower-case name alone is a variable.
Binder(c, p) ==
    IF Text(c, p) \in Lower /\ Text(c, p + 1) # "("
    THEN Read(p + 1, <<Leaf("variable", Text(c, p))>>) ELSE Pattern(c, p)

-----------------------------------------------------------------------------
(* Types.                                                                    *)

FieldType(c, p) ==
    IF Text(c, p) = ".." THEN Read(p + 1, <<Leaf("rest", "")>>)
    ELSE As("field", Sequence(c, p, <<"IDENT", ":", "TYPE">>))

BaseType(c, p) ==
    LET t == Text(c, p)
    IN  CASE t = "*" -> Read(p + 1, <<Leaf("hole", "")>>)
          [] t = "!" -> Read(p + 1, <<Leaf("never", "")>>)
          [] t \in Idents -> Read(p + 1, <<Leaf("type", t)>>)
          [] t = "fn" ->
               As("fn type", Then(Listed(c, p, <<"fn", "(">>, "TYPE PARAM", ")", "strict"),
                                  LAMBDA q : Sequence(c, q, <<"->", "MUT", "TYPE">>)))
          [] t = "(" ->
               IF Text(c, p + 1) = ")" THEN Read(p + 2, <<Leaf("unit type", "")>>)
               ELSE LET r == NonEmpty(c, p, <<"(">>, "TYPE", ")", "trailing")
                    IN  IF Len(r.trees) = 1 THEN r ELSE As("tuple type", r)
          [] t = "[" -> As("array type", Sequence(c, p, <<"[", "TYPE", "]">>))
          [] t = "#" -> As("record type", Listed(c, p, <<"#", "{">>, "FIELD TYPE", "}", "trailing"))
          [] OTHER -> Unread(p)

ParseType(c, p) ==
    LET base == BaseType(c, p)
    IN  IF base.ok /\ Text(c, base.at) = "("
        THEN As("applied type", Then(base, LAMBDA q : NonEmpty(c, q, <<"(">>, "TYPE", ")", "strict")))
        ELSE base

\* The arguments of a bound, with at most one arrow, between two of them.
RECURSIVE BoundArgs(_, _, _)
BoundArgs(c, p, args) ==
    LET t == Text(c, p)
    IN  CASE t = ":" ->
               IF args = <<>> \/ Last(args).kind = "arrow" THEN Unread(p) ELSE Read(p, args)
          [] t = "->" ->
               IF args = <<>> \/ Leaf("arrow", "") \in Range(args) THEN Unread(p)
               ELSE BoundArgs(c, p + 1, Append(args, Leaf("arrow", "")))
          [] t \in {",", "{", "eof"} -> Unread(p)
          [] OTHER ->
               LET r == ParseType(c, p)
               IN  IF r.ok THEN BoundArgs(c, r.at, args \o r.trees) ELSE r

RECURSIVE Joined(_, _, _, _)
\* Items with a token between any two of them.
Joined(c, item, p, between) ==
    Then(Symbol(c, item, p), LAMBDA q :
        IF Text(c, q) = between THEN Joined(c, item, q + 1, between) ELSE Read(q, <<>>))

Bound(c, p) ==
    As("bound", Then(Then(BoundArgs(c, p, <<>>), LAMBDA q : Symbol(c, ":", q)),
                     LAMBDA q : As("traits", Joined(c, "IDENT", q, "+"))))

Where(c, p) ==
    IF Text(c, p) = "where" THEN As("where", Joined(c, "BOUND", p + 1, ",")) ELSE Read(p, <<>>)

Returns(c, p, symbols) ==
    IF Text(c, p) = "->" THEN As("returns", Sequence(c, p + 1, symbols)) ELSE Read(p, <<>>)

-----------------------------------------------------------------------------
(* Expressions.                                                              *)

RECURSIVE ParseExpr(_, _, _)

\* infix_binary_op and the other tokens that may follow an operand.
LeftPower(t) ==
    CASE t \in {"(", "["} -> 13
      [] t = "**" -> 13
      [] t \in {".", "::", "*"} -> 11
      [] t \in {"+", "-"} -> 9
      [] t \in {"..", "..=", "|>"} -> 2
      [] t = "||" -> 3
      [] t = "&&" -> 5
      [] t \in {"==", "!="} -> 4
      [] t = "=" -> 1
      [] t \in CustomOps -> 6
      [] OTHER -> -1

InfixTokens == CustomOps \union {"*", "+", "-", "|>", "||", "&&", "==", "!="}
RightPower_AsLeft(t) == LeftPower(t)
RightPower(t) == IF t = "**" THEN 13 ELSE LeftPower(t) + 1

CanEndRange(t) == t \in {"none", "eof", ";", ",", ")", "]", "}"}

\* The end of a range, after its operator at p.
RangeEnd(c, p) ==
    IF ~CanEndRange(Text(c, p + 1)) THEN ParseExpr(c, p + 1, 3)
    ELSE IF Text(c, p) = "..=" THEN Unread(p) ELSE Read(p + 1, <<>>)

ParseBlock(c, p) == As("block", Sequence(c, p, <<"{", "STATEMENTS", "}">>))

\* A break or a return, which may have a value.
Jump(c, p) ==
    IF Text(c, p + 1) \in {";", "}", ",", ")", "]"} THEN Read(p + 1, <<Leaf(Text(c, p), "")>>)
    ELSE As(Text(c, p), ParseExpr(c, p + 1, 0))

TupleOrParen(c, p) ==
    LET r == NonEmpty(c, p, <<"(">>, "EXPR", ")", "trailing")
    IN  IF Text(c, p + 1) = ")" THEN Read(p + 2, <<Leaf("unit", "")>>)
        ELSE IF Len(r.trees) = 1 /\ Text(c, r.at - 2) # "," THEN As("grouped", r)
        ELSE As("tuple", r)

Spread(c, p) == As("spread", ParseExpr(c, p + 1, 0))

FieldExpr(c, p) ==
    IF Text(c, p) = ".." THEN Spread(c, p)
    ELSE IF Text(c, p + 1) = ":" THEN As("field", Sequence(c, p, <<"IDENT", ":", "EXPR">>))
    ELSE As("field", Then(Symbol(c, "IDENT", p), LAMBDA q : Read(q, <<Leaf("ident", Text(c, p))>>)))

IfExpr(c, p) ==
    As("if", Then(Sequence(c, p, <<"if", "EXPR", "EXPR">>), LAMBDA q :
        IF Text(c, q) = "else" THEN ParseExpr(c, q + 1, 0) ELSE Read(q, <<Leaf("unit", "")>>)))

Lambda(c, p) ==
    LET head == Then(Listed(c, p, <<"fn", "(">>, "PARAM", ")", "strict"),
                     LAMBDA q : Returns(c, q, <<"TYPE">>))
    IN  As("lambda", Then(head, LAMBDA q : ParseBlock(c, q)))

\* check_do_control_flow: what may not cross the functions that a do block is made of.
RECURSIVE Crosses_LoopsKeepAll(_, _)
Crosses_LoopsKeepAll(e, in_loop) ==
    \/ e.kind \in {"return", "break", "continue"}
    \/ /\ e.kind \notin {"lambda", "hidden lambda", "fn", "op", "group", "loop", "for"}
       /\ \E k \in DOMAIN e.kids : Crosses_LoopsKeepAll(e.kids[k], in_loop)

RECURSIVE Crosses(_, _)
Crosses(e, in_loop) ==
    CASE e.kind = "return" -> TRUE
      [] e.kind \in {"break", "continue"} -> ~in_loop \/ \E k \in DOMAIN e.kids : Crosses(e.kids[k], in_loop)
      [] e.kind \in {"lambda", "hidden lambda", "fn", "op", "group"} -> FALSE
      [] e.kind = "loop" -> Crosses(e.kids[1], TRUE)
      [] e.kind = "for" -> Crosses(e.kids[2], in_loop) \/ Crosses(e.kids[3], TRUE)
      [] OTHER -> \E k \in DOMAIN e.kids : Crosses(e.kids[k], in_loop)

\* One statement of a do block, or its last expression.
DoStatement(c, p) ==
    LET head == Sequence(c, p, <<"let", "MUT", "BINDER", "ANNOTATION">>)
        expr == ParseExpr(c, p, 0)
        Uncrossed(r) == Unless(Crosses(Last(r.trees), FALSE), r)
        Bound_(kind) == As(kind, Then(Uncrossed(Then(head, LAMBDA q : ParseExpr(c, q + 1, 0))),
                                      LAMBDA q : Symbol(c, ";", q)))
    IN  CASE Text(c, p) = "let" /\ Text(c, head.at) = "=" -> Bound_("let")
          [] Text(c, p) = "let" /\ Text(c, head.at) = "<-" -> Bound_("bind")
          [] Text(c, p) = "let" /\ Text(c, head.at) \notin {"=", "<-"} -> Unread(head.at)
          [] OTHER -> LET e == Uncrossed(expr)
                      IN  IF Text(c, e.at) = ";" THEN As("bare", Then(e, LAMBDA q : Read(q + 1, <<>>))) ELSE e

RECURSIVE DoStatements(_, _)
DoStatements(c, p) ==
    IF Text(c, p) = "}" THEN Read(p, <<>>)
    ELSE LET r == DoStatement(c, p)
         IN  IF r.ok /\ r.trees[1].kind \in {"let", "bind", "bare"}
             THEN Then(r, LAMBDA q : DoStatements(c, q)) ELSE r

\* desugar_do, from the last statement to the first.
Chain(e, pattern, rest) ==
    Node("binary", ">>=", <<e, Node("hidden lambda", "", pattern \o <<rest>>)>>)

DesugarDo(stmts, last) ==
    FoldRight(LAMBDA s, rest :
        CASE s.kind = "bind" -> Chain(Last(s.kids), Front(s.kids), rest)
          [] s.kind = "bare" -> Chain(s.kids[1], <<Leaf("wildcard", "")>>, rest)
          [] OTHER -> Node("block", "", <<s, rest>>),
        stmts, last)

DoExpr(c, p) ==
    LET r == Then(Then(Sequence(c, p, <<"do", "{">>), LAMBDA q : DoStatements(c, q)),
                  LAMBDA q : Symbol(c, "}", q))
        n == Len(r.trees)
    IN  IF ~r.ok THEN r
        ELSE IF n = 0 \/ r.trees[n].kind \in {"let", "bind", "bare"} THEN Unread(p)
        ELSE [r EXCEPT !.trees = <<DesugarDo(Front(r.trees), r.trees[n])>>]

\* The operand that an expression begins with.
Prefix(c, p) ==
    LET t == Text(c, p)
    IN  CASE t \in Numbers \union Strings \union {"true", "false"} -> Read(p + 1, <<Leaf("literal", t)>>)
          [] t \in Idents -> Read(p + 1, <<Leaf("ident", t)>>)
          [] t = "continue" -> Read(p + 1, <<Leaf("continue", "")>>)
          [] t = "!" -> As("not", ParseExpr(c, p + 1, 8))
          [] t = "-" -> As("neg", ParseExpr(c, p + 1, 11))
          [] t = "{" -> ParseBlock(c, p)
          [] t = "(" -> TupleOrParen(c, p)
          [] t = "[" -> As("array", Listed(c, p, <<"[">>, "ELEMENT", "]", "trailing"))
          [] t = "#" -> As("record", Listed(c, p, <<"#", "{">>, "FIELD EXPR", "}", "trailing"))
          [] t = "if" -> IfExpr(c, p)
          [] t = "match" -> As("match", Listed(c, p, <<"match", "EXPR", "{">>, "ARM", "}", "trailing"))
          [] t = "for" -> As("for", Sequence(c, p, <<"for", "BINDER", "in", "EXPR", "BLOCK">>))
          [] t = "loop" -> As("loop", Sequence(c, p, <<"loop", "BLOCK">>))
          [] t \in {"break", "return"} -> Jump(c, p)
          [] t = "import" -> As("import", Sequence(c, p, <<"import", "STRING">>))
          [] t = "fn" -> Lambda(c, p)
          [] t \in {"..", "..="} -> As("range to", RangeEnd(c, p))
          [] t = "do" -> DoExpr(c, p)
          [] OTHER -> Unread(p)

\* associated_target_from_expr: a name, or one applied to names and holes.
RECURSIVE IsTarget(_, _)
IsTarget(e, hole) ==
    \/ e.kind = "ident" /\ (e.name = "_" => hole)
    \/ e.kind = "call" /\ IsTarget(e.kids[1], FALSE) /\ \A k \in 2..Len(e.kids) : IsTarget(e.kids[k], TRUE)

\* What follows the operand lhs, as long as it binds at least as tight as min_bp.
RECURSIVE Operators(_, _, _, _)
Operators(c, lhs, p, min_bp) ==
    LET t == Text(c, p)
        With(r) == IF r.ok THEN [Operators(c, r.trees[1], r.at, min_bp)
                                    EXCEPT !.missing = r.missing \o @] ELSE r
        Under(kind, name, r) == With(IF r.ok THEN [r EXCEPT !.trees = <<Node(kind, name, <<lhs>> \o @)>>] ELSE r)
        After(kind, r) == Under(kind, "", r)
    IN  CASE LeftPower(t) < min_bp \/ LeftPower(t) < 0 -> Read(p, <<lhs>>)
          [] t = "(" -> After("call", Listed(c, p, <<"(">>, "EXPR", ")", "strict"))
          [] t = "." -> After("field access", Sequence(c, p, <<".", "IDENT">>))
          [] t = "[" -> After("index", Sequence(c, p, <<"[", "EXPR", "]">>))
          [] t = "::" ->
               IF IsTarget(lhs, FALSE) THEN After("associated", Sequence(c, p, <<"::", "IDENT">>)) ELSE Unread(p)
          [] t \in {"..", "..="} ->
               IF lhs.kind \in {"range", "range to"} THEN Unread(p) ELSE Under("range", t, RangeEnd(c, p))
          [] t \in InfixTokens -> Under("binary", t, ParseExpr(c, p + 1, RightPower(t)))
          [] t = "=" ->
               IF lhs.kind \in {"ident", "field access"} THEN After("assign", ParseExpr(c, p + 1, 1)) ELSE Unread(p)

ParseExpr(c, p, min_bp) ==
    LET lhs == Prefix(c, p)
    IN  IF lhs.ok THEN [Operators(c, lhs.trees[1], lhs.at, min_bp) EXCEPT !.missing = lhs.missing \o @]
        ELSE lhs

-----------------------------------------------------------------------------
(* Statements.                                                               *)

StartsStatement(t) ==
    t \in {"let", "fn", "trait", "impl", "type", "extern", "import", "do", "return", "break",
           "continue", "if", "match", "loop", "test"}

\* reject_missing_rhs_before_next_statement, for the `=` before p.
Rhs(c, p) ==
    IF Text(c, p) = "eof" \/ (Line(c, p) > Line(c, p - 1) /\ StartsStatement(Text(c, p)))
    THEN Unread(p) ELSE Read(p, <<>>)

LetStmt(c, p) ==
    As("let", Sequence(c, p, <<"let", "MUT", "BINDER", "ANNOTATION", "=", "RHS", "EXPR", ";">>))

\* parse_param; the methods of a trait impl take no mutable places.
Parameter(c, p, mut_allowed) ==
    LET r == Sequence(c, p, <<"MUT", "BINDER", "ANNOTATION">>)
        is_mut == Text(c, p) = "mut"
    IN  As("param", Unless(is_mut /\ (~mut_allowed \/ r.trees[2].kind # "variable"), r))

FnTail(c, p) ==
    Then(Listed(c, p, <<"(">>, "PARAM", ")", "strict"), LAMBDA q : Sequence(c, q, <<"RETURNS", "WHERE", "EXPR">>))

FixityOf(c, p) ==
    IF Text(c, p) \notin {"infixl", "infixr", "infix"} THEN Read(p, <<>>)
    ELSE IF Text(c, p + 1) \notin Numbers THEN Unread(p + 1)
    ELSE Read(p + 2, <<Leaf(Text(c, p), Text(c, p + 1))>>)

FnStmt(c, p, attrs) ==
    IF Text(c, p) = "fn" /\ Text(c, p + 1) \in {"infixl", "infixr", "infix"}
    THEN IF attrs # <<>> THEN Unread(p) ELSE As("op", Sequence(c, p, <<"fn", "FIXITY", "NAME", "FN TAIL">>))
    ELSE As("fn", Then(Read(p, attrs), LAMBDA q : Sequence(c, q, <<"fn", "IDENT", "FN TAIL">>)))

RECURSIVE FnGroupTail(_, _)
FnGroupTail(c, p) ==
    IF Text(c, p) = "and" /\ Text(c, p + 1) = "fn"
    THEN LET r == FnStmt(c, p + 1, <<>>)
         IN  Then(Unless(r.trees[1].kind = "op", r), LAMBDA q : FnGroupTail(c, q))
    ELSE Read(p, <<>>)

FnGroup(c, p, attrs) ==
    LET r == Then(FnStmt(c, p, attrs), LAMBDA q : FnGroupTail(c, q))
    IN  IF Len(r.trees) = 1 THEN r ELSE As("group", r)

\* Attributes before a statement or a variant: #[name] or #[name(arguments)].
RECURSIVE OuterAttrs(_, _)
OuterAttrs(c, p) ==
    LET args == NonEmpty(c, p + 3, <<"(">>, "IDENT", ")", "strict")
        name == Text(c, p + 2)
        attr == IF Text(c, p + 3) = "(" THEN args ELSE Read(p + 3, <<>>)
    IN  IF Text(c, p) # "#" \/ Text(c, p + 1) # "[" THEN Read(p, <<>>)
        ELSE IF name \notin Idents THEN Unread(p + 2)
        ELSE Then(Then([attr EXCEPT !.trees = <<Node("attr", name, @)>>], LAMBDA q : Symbol(c, "]", q)),
                  LAMBDA q : OuterAttrs(c, q))

\* Those before a method: only inline, without arguments.
RECURSIVE InlineAttrs(_, _)
InlineAttrs(c, p) ==
    IF Text(c, p) # "#" \/ Text(c, p + 1) # "[" THEN Read(p, <<>>)
    ELSE IF Text(c, p + 2) # "inline" THEN Unread(p + 2)
    ELSE Then(Symbol(c, "]", p + 3), LAMBDA q : InlineAttrs(c, q))

Derivable == {"Default", "Eq", "Ord", "ToString"}

\* parse_derive_attrs: every argument is derivable, and none comes twice.
DeriveArgs(attrs) == FlattenSeq([k \in DOMAIN attrs |-> attrs[k].kids])

WellDerived(attrs) ==
    /\ \A a \in Range(attrs) : a.name = "derive" /\ a.kids # <<>>
    /\ LET args == DeriveArgs(attrs)
       IN  /\ \A a \in Range(args) : a.name \in Derivable
           /\ \A i, j \in DOMAIN args : args[i] = args[j] => i = j

Variant(c, p) ==
    LET attrs == OuterAttrs(c, p)
        named == Then(attrs, LAMBDA q : Symbol(c, "IDENT", q))
        whole == Then(named, LAMBDA q : IF Text(c, q) = "(" THEN Sequence(c, q, <<"(", "TYPE", ")">>) ELSE Read(q, <<>>))
        n     == Len(attrs.trees)
        wrong == \/ n > 1 \/ \E a \in Range(attrs.trees) : a.name # "default" \/ a.kids # <<>>
                 \/ n = 1 /\ Len(whole.trees) > 2
    IN  As("variant", Unless(wrong, whole))

IsDefault(variant) == variant.kids[1].kind = "attr"

Variants(c, p, derives) ==
    LET r == Joined(c, "VARIANT", p, "|")
        defaults == {k \in DOMAIN r.trees : IsDefault(r.trees[k])}
    IN  Unless(\/ \E j, k \in defaults : j # k
               \/ defaults # {} /\ Leaf("name", "Default") \notin Range(DeriveArgs(derives)), r)

\* What can only be the type of an alias.
AliasShaped(c, p) ==
    \/ Text(c, p) \in {"(", "fn", "["} \union TypeVars
    \/ Text(c, p) = "#" /\ Text(c, p + 1) # "["

TypeStmt(c, p, attrs) ==
    LET head == Then(Read(p, attrs), LAMBDA q : Sequence(c, q, <<"type", "IDENT", "TYPE PARAMS", "=", "RHS">>))
        Body(q) == IF Text(c, q) = "*"
                   THEN IF attrs = <<>> THEN Read(q + 1, <<Leaf("opaque", "")>>) ELSE Unread(q)
                   ELSE IF AliasShaped(c, q) THEN Unread(q) ELSE Variants(c, q, attrs)
    IN  IF ~WellDerived(attrs) THEN Unread(p)
        ELSE IF Text(c, p + 1) = "alias"
        THEN IF attrs # <<>> THEN Unread(p)
             ELSE As("alias", Sequence(c, p, <<"type", "alias", "IDENT", "TYPE PARAMS", "=", "RHS", "TYPE">>))
        ELSE As("type def", Then(head, Body))

RECURSIVE TraitParams(_, _, _)
TraitParams(c, p, params) ==
    CASE Text(c, p) = "{" ->
           IF params = <<>> \/ Last(params).kind = "arrow" THEN Unread(p) ELSE Read(p, params)
      [] Text(c, p) = "->" ->
           IF params = <<>> \/ Leaf("arrow", "") \in Range(params) THEN Unread(p)
           ELSE TraitParams(c, p + 1, Append(params, Leaf("arrow", "")))
      [] OTHER ->
           IF Text(c, p) \notin Idents \/ Leaf("name", Text(c, p)) \in Range(params) THEN Unread(p)
           ELSE TraitParams(c, p + 1, Append(params, Leaf("name", Text(c, p))))

TraitStmt(c, p) ==
    As("trait", Then(Then(Sequence(c, p, <<"trait", "IDENT">>), LAMBDA q : TraitParams(c, q, <<>>)),
                     LAMBDA q : Listed(c, q, <<"{">>, "TRAIT METHOD", "}", "none")))

TraitMethod(c, p) ==
    As("trait method", Then(Listed(c, p, <<"INLINE", "fn", "FIXITY", "NAME", "(">>, "SIGNATURE PARAM", ")", "strict"),
                            LAMBDA q : Sequence(c, q, <<"->", "TYPE">>)))

\* The types an impl is for, with commas, or one arrow, between them.
RECURSIVE ImplArgs(_, _, _)
ImplArgs(c, p, arrow) ==
    Then(ParseType(c, p), LAMBDA q :
        CASE Text(c, q) = "," -> ImplArgs(c, q + 1, arrow)
          [] Text(c, q) = "->" ->
               IF arrow THEN Unread(q) ELSE Then(Read(q + 1, <<Leaf("arrow", "")>>), LAMBDA s : ImplArgs(c, s, TRUE))
          [] OTHER -> Read(q, <<>>))

ImplMethod(c, p) ==
    As("impl method", Then(Then(Listed(c, p, <<"INLINE", "fn", "NAME", "(">>, "IMPL PARAM", ")", "strict"),
                                LAMBDA q : Returns(c, q, <<"TYPE">>)),
                           LAMBDA q : ParseExpr(c, q, 0)))

ImplStmt(c, p) ==
    LET head == Sequence(c, p, <<"impl", "TYPE">>)
        tail == Then(Then(head, LAMBDA q : ImplArgs(c, q + 1, FALSE)), LAMBDA q : Where(c, q))
    IN  IF Text(c, head.at) # "for"
        THEN As("inherent impl", Then(Then(head, LAMBDA q : Where(c, q)),
                                      LAMBDA q : Listed(c, q, <<"{">>, "INHERENT METHOD", "}", "none")))
        ELSE As("impl", Then(Unless(head.trees[1].kind # "type" \/ head.trees[1].name \in TypeVars, tail),
                             LAMBDA q : Listed(c, q, <<"{">>, "IMPL METHOD", "}", "none")))

ExternStmt(c, p) ==
    As("extern", Sequence(c, p, <<"extern", "IDENT", ":", "TYPE", "=", "MARKER", "STRING", ";">>))

Marker(c, p) ==
    IF Text(c, p) # "#" THEN Read(p, <<>>)
    ELSE IF Text(c, p + 2) = "template" THEN Sequence(c, p, <<"#", "[", "IDENT", "]">>) ELSE Unread(p)

RECURSIVE ParseStmt(_, _, _), TestStatements(_, _), BlockStatements(_, _)

TestStatements(c, p) ==
    CASE Text(c, p) = "}" -> Read(p, <<>>)
      [] Text(c, p) \in {"fn", "#", "let"} ->
           Then(ParseStmt(c, p, TRUE), LAMBDA q : TestStatements(c, q))
      [] OTHER -> Unread(p)

TestStmt(c, p) == As("test block", Then(Then(Sequence(c, p, <<"test", "{">>), LAMBDA q : TestStatements(c, q)),
                                        LAMBDA q : Symbol(c, "}", q)))

\* parse_stmt_in_context.
ParseStmt(c, p, in_test_block) ==
    LET attrs == OuterAttrs(c, p)
        t     == Text(c, attrs.at)
        names == {a.name : a \in Range(attrs.trees)}
    IN  CASE ~attrs.ok -> attrs
          [] attrs.ok /\ attrs.trees # <<>> ->
               IF t = "type"
               THEN IF in_test_block \/ names # {"derive"} THEN Unread(p) ELSE TypeStmt(c, attrs.at, attrs.trees)
               ELSE IF names # {"test"} \/ DeriveArgs(attrs.trees) # <<>> \/ ~in_test_block \/ t # "fn" THEN Unread(p)
               ELSE FnGroup(c, attrs.at, attrs.trees)
          [] t = "let" -> LetStmt(c, p)
          [] t = "fn" -> FnGroup(c, p, <<>>)
          [] t = "test" /\ Text(c, p + 1) = "{" -> TestStmt(c, p)
          [] t = "trait" -> TraitStmt(c, p)
          [] t = "impl" -> ImplStmt(c, p)
          [] t = "type" -> TypeStmt(c, p, <<>>)
          [] t = "extern" -> ExternStmt(c, p)
          [] OTHER ->
               As("expr", Then(ParseExpr(c, p, 0), LAMBDA q : Read(IF Text(c, q) = ";" THEN q + 1 ELSE q, <<>>)))

BlockLike == {"if", "loop", "match", "block", "for"}

\* The loop of parse_block.  A statement is wrapped in "expr"; the last expression is not.
BlockStatements(c, p) ==
    LET expr == ParseExpr(c, p, 0)
        next == Text(c, expr.at)
        Discarded(r, q) == Then([As("expr", r) EXCEPT !.at = q], LAMBDA s : BlockStatements(c, s))
    IN  CASE Text(c, p) \in {"}", "none"} -> Read(p, <<>>)
          [] Text(c, p) = "let" \/ (Text(c, p) = "fn" /\ Text(c, p + 1) \in Idents) ->
               Then(ParseStmt(c, p, FALSE), LAMBDA q : BlockStatements(c, q))
          [] ~expr.ok -> expr
          [] expr.ok /\ next = ";" -> Discarded(expr, expr.at + 1)
          [] expr.ok /\ expr.trees[1].kind \in BlockLike /\ next \notin {";", "}"} -> Discarded(expr, expr.at)
          [] c.recovering /\ next \notin {"}", "none"} ->
               Discarded([expr EXCEPT !.missing = Append(@, expr.at)], expr.at)
          [] OTHER -> expr

-----------------------------------------------------------------------------
Choose(c, p, set, kind) == IF Text(c, p) \in set THEN Read(p + 1, <<Leaf(kind, Text(c, p))>>) ELSE Unread(p)

Symbol(c, s, p) ==
    CASE s = "EXPR" -> ParseExpr(c, p, 0)
      [] s = "TYPE" -> ParseType(c, p)
      [] s = "BINDER" -> Binder(c, p)
      [] s = "BLOCK" -> ParseBlock(c, p)
      [] s = "STATEMENTS" -> BlockStatements(c, p)
      [] s = "IDENT" -> Choose(c, p, Idents, "name")
      [] s = "NAME" -> Choose(c, p, Idents \union InfixTokens \union {"..", "in"}, "name")
      [] s = "STRING" -> Choose(c, p, Strings, "string")
      [] s = "MUT" -> IF Text(c, p) = "mut" THEN Read(p + 1, <<Leaf("mut", "")>>) ELSE Read(p, <<>>)
      [] s = "ANNOTATION" ->
           IF Text(c, p) = ":" THEN As("annotation", ParseType(c, p + 1)) ELSE Read(p, <<>>)
      [] s = "RHS" -> Rhs(c, p)
      [] s = "ELEMENT" -> IF Text(c, p) = ".." THEN Spread(c, p) ELSE ParseExpr(c, p, 0)
      [] s = "FIELD EXPR" -> FieldExpr(c, p)
      [] s = "ARM" -> As("arm", Sequence(c, p, <<"BINDER", "->", "EXPR">>))
      [] s = "FIELD PATTERN" -> FieldPattern(c, p)
      [] s = "ELEMENT PATTERN" -> IF Text(c, p) = ".." THEN Rest(c, p) ELSE Binder(c, p)
      [] s = "FIELD TYPE" -> FieldType(c, p)
      [] s = "TYPE PARAM" -> As("param", Sequence(c, p, <<"MUT", "TYPE">>))
      [] s = "TYPE PARAMS" ->
           IF Text(c, p) = "(" THEN As("params", NonEmpty(c, p, <<"(">>, "IDENT", ")", "strict")) ELSE Read(p, <<>>)
      [] s = "BOUND" -> Bound(c, p)
      [] s = "WHERE" -> Where(c, p)
      [] s = "RETURNS" -> Returns(c, p, <<"MUT", "TYPE">>)
      [] s = "PARAM" -> Parameter(c, p, TRUE)
      [] s = "IMPL PARAM" -> Parameter(c, p, FALSE)
      [] s = "SIGNATURE PARAM" -> As("param", Sequence(c, p, <<"IDENT", ":", "TYPE">>))
      [] s = "FN TAIL" -> FnTail(c, p)
      [] s = "FIXITY" -> FixityOf(c, p)
      [] s = "VARIANT" -> Variant(c, p)
      [] s = "INLINE" -> InlineAttrs(c, p)
      [] s = "TRAIT METHOD" -> TraitMethod(c, p)
      [] s = "IMPL METHOD" -> ImplMethod(c, p)
      [] s = "INHERENT METHOD" -> As("method", Sequence(c, p, <<"fn", "IDENT", "FN TAIL">>))
      [] s = "MARKER" -> Marker(c, p)
      [] OTHER -> IF Text(c, p) = s THEN Read(p + 1, <<>>) ELSE Unread(p)
=============================================================================
