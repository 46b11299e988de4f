------------------------------- MODULE Lexer --------------------------------
(***************************************************************************)
(* From characters to tokens (hern-core/src/lex/mod.rs), and the tokens that  *)
(* the parser makes of the holes of interpolated strings (parse/mod.rs): a    *)
(* hole is cut out of its string unread, read by a lexer of its own, which    *)
(* counts lines and columns from its start, and moved to where it stands.     *)
(*                                                                         *)
(* A source is a sequence of characters.  Keywords are names, and the many    *)
(* operators are not told apart.                                            *)
(***************************************************************************)
EXTENDS Integers, SequencesExt

CONSTANT Sources   \* the sources to read

VARIABLES source,   \* the source
          cursor,   \* where the lexer is: [src, at, line, col]
          lexed,    \* its tokens so far
          failed    \* it met an error

lexerVars == <<source, cursor, lexed, failed>>

Letters    == {"a", "i", "_", "'"}
Digits     == {"1"}
White      == {" ", "\n"}
OpChars    == {"+", "-", "*", "!", "&", "|", ".", "<", ">", "~", "@", "?", "$", "^", "/", "%", "="}
Brackets   == {"(", ")", "{", "}", "[", "]", ";", ","}

\* The bytes of a character.
Width(ch) == IF ch = "é" THEN 2 ELSE 1

-----------------------------------------------------------------------------
CursorAt(src) == [src |-> src, at |-> 1, line |-> 1, col |-> 1]

Peek(c, k) == IF c.at + k \in DOMAIN c.src THEN c.src[c.at + k] ELSE "end"

\* advance and advance_char, for the k next characters.
RECURSIVE Advance(_, _)
Advance(c, k) ==
    IF k = 0 THEN c
    ELSE Advance(IF Peek(c, 0) = "\n" THEN [c EXCEPT !.at = @ + 1, !.line = @ + 1, !.col = 1]
                 ELSE [c EXCEPT !.at = @ + 1, !.col = @ + 1], k - 1)

RECURSIVE AdvanceWhile(_, _)
AdvanceWhile(c, set) == IF Peek(c, 0) \in set THEN AdvanceWhile(Advance(c, 1), set) ELSE c

Passed(c, d) == SubSeq(c.src, c.at, d.at - 1)

\* A comment is passed byte by byte, and so is the column.
RECURSIVE SkipLine(_)
SkipLine(c) ==
    IF Peek(c, 0) \in {"\n", "end"} THEN c
    ELSE SkipLine([c EXCEPT !.at = @ + 1, !.col = @ + Width(Peek(c, 0))])

IsComment(c) == Peek(c, 0) = "/" /\ Peek(c, 1) = "/"
IsShebang(c) == c.at = 1 /\ Peek(c, 0) = "#" /\ Peek(c, 1) = "!" /\ Peek(c, 2) # "["

RECURSIVE SkipBlanks(_)
SkipBlanks(c) ==
    LET d == AdvanceWhile(c, White)
    IN  IF IsShebang(c) THEN SkipBlanks(SkipLine(c))
        ELSE IF IsComment(d) THEN SkipBlanks(SkipLine(d)) ELSE d

-----------------------------------------------------------------------------
(* What may be found: where it ends and, for strings, its parts; a part is a  *)
(* text or a hole.                                                          *)

Found(c, parts) == [ok |-> TRUE, c |-> c, parts |-> parts]
NotFound(c)     == [ok |-> FALSE, c |-> c, parts |-> <<>>]

Part(text)    == [hole |-> FALSE, chars |-> text, line |-> 0, col |-> 0]
Hole(text, c) == [hole |-> TRUE, chars |-> text, line |-> c.line, col |-> c.col]

\* lex_number: a dot belongs to the number unless another one follows.
RECURSIVE LexNumber(_)
LexNumber(c) ==
    IF Peek(c, 0) \in Digits \/ (Peek(c, 0) = "." /\ Peek(c, 1) # ".") THEN LexNumber(Advance(c, 1)) ELSE c

\* lex_op takes what it can, and of a range operator next_token gives the rest back.
LexOp(c) ==
    LET d  == AdvanceWhile(c, OpChars)
        op == Passed(c, d)
    IN  IF Len(op) > 3 /\ SubSeq(op, 1, 3) = <<".", ".", "=">> THEN Advance(c, 3)
        ELSE IF Len(op) > 2 /\ SubSeq(op, 1, 2) = <<".", ".">> /\ op[3] # "=" THEN Advance(c, 2) ELSE d

\* After a backslash: one character, whatever it is.
PastEscape(c) == Advance(c, IF Peek(c, 1) = "end" THEN 1 ELSE 2)

\* lex_string_escape_into: what the escape stands for.
Escaped(c, dollar) ==
    LET ch == Peek(c, 1)
    IN  CASE ch = "end" -> <<>>
          [] ch \in {"\"", "\\"} \/ (ch = "$" /\ dollar) -> <<ch>>
          [] ch = "n" -> <<"\n">>
          [] OTHER -> <<"\\", ch>>

RECURSIVE LexString(_, _)
LexString(c, text) ==
    LET ch == Peek(c, 0)
    IN  CASE ch = "end" -> NotFound(c)
          [] ch = "\"" -> Found(Advance(c, 1), <<Part(text)>>)
          [] ch = "\\" -> LexString(PastEscape(c), text \o Escaped(c, FALSE))
          [] OTHER -> LexString(Advance(c, 1), Append(text, ch))

\* lex_raw_string_into, from the opening quote on: the end of a string in a hole.
RECURSIVE RawString(_)
RawString(c) ==
    CASE Peek(c, 0) = "end" -> NotFound(c)
      [] Peek(c, 0) = "\"" -> Found(Advance(c, 1), <<>>)
      [] Peek(c, 0) = "\\" -> RawString(PastEscape(c))
      [] OTHER -> RawString(Advance(c, 1))

\* lex_interpolated_expr: the end of a hole, past its closing brace; depth counts the braces
\* that are open.  lex_nested_interpolated_string_into: the end of a string with holes.
HoleEnd_FirstBrace(c, depth) ==
    LET d == AdvanceWhile(c, Range(c.src) \ {"}"})
    IN  IF Peek(d, 0) = "}" THEN Found(Advance(d, 1), <<>>) ELSE NotFound(d)

RECURSIVE HoleEnd(_, _), NestedString(_)
HoleEnd(c, depth) ==
    LET ch == Peek(c, 0)
        After(r) == IF r.ok THEN HoleEnd(r.c, depth) ELSE r
    IN  CASE ch = "end" -> NotFound(c)
          [] ch = "$" /\ Peek(c, 1) = "\"" -> After(NestedString(Advance(c, 2)))
          [] ch = "\"" -> After(RawString(Advance(c, 1)))
          [] IsComment(c) -> HoleEnd(AdvanceWhile(c, Range(c.src) \ {"\n"}), depth)
          [] ch = "{" -> HoleEnd(Advance(c, 1), depth + 1)
          [] ch = "}" -> IF depth = 1 THEN Found(Advance(c, 1), <<>>) ELSE HoleEnd(Advance(c, 1), depth - 1)
          [] OTHER -> HoleEnd(Advance(c, 1), depth)

NestedString(c) ==
    LET ch == Peek(c, 0)
        hole == HoleEnd(Advance(c, 2), 1)
    IN  CASE ch = "end" -> NotFound(c)
          [] ch = "\"" -> Found(Advance(c, 1), <<>>)
          [] ch = "\\" -> NestedString(PastEscape(c))
          [] ch = "$" /\ Peek(c, 1) = "{" -> IF hole.ok THEN NestedString(hole.c) ELSE hole
          [] OTHER -> NestedString(Advance(c, 1))

\* lex_interpolated_string, after the opening quote.
RECURSIVE LexInterpolated(_, _, _)
LexInterpolated(c, parts, text) ==
    LET ch    == Peek(c, 0)
        start == Advance(c, 2)
        end   == HoleEnd(start, 1)
        \* the source of the hole: the closing brace left out
        hole  == Hole(SubSeq(c.src, start.at, end.c.at - 2), start)
        Flushed == IF text = <<>> THEN parts ELSE Append(parts, Part(text))
    IN  CASE ch = "end" -> NotFound(c)
          [] ch = "\"" -> Found(Advance(c, 1), Flushed)
          [] ch = "\\" -> LexInterpolated(PastEscape(c), parts, text \o Escaped(c, TRUE))
          [] ch = "$" /\ Peek(c, 1) = "{" ->
               IF end.ok THEN LexInterpolated(end.c, Append(Flushed, hole), <<>>) ELSE end
          [] OTHER -> LexInterpolated(Advance(c, 1), parts, Append(text, ch))

\* #![name]
LexHash(c) ==
    LET d == AdvanceWhile(Advance(c, 3), Letters \union Digits)
    IN  IF Peek(c, 1) # "!" \/ Peek(c, 2) # "[" THEN Found(Advance(c, 1), <<>>)
        ELSE IF Peek(d, 0) = "]" THEN Found(Advance(d, 1), <<>>) ELSE NotFound(d)

LexColon(c) == Advance(c, IF Peek(c, 1) = ":" THEN 2 ELSE 1)

NextToken(c) ==
    LET ch == Peek(c, 0)
    IN  CASE ch = "end" -> Found(c, <<>>)
          [] ch \in Brackets -> Found(Advance(c, 1), <<>>)
          [] ch = "#" -> LexHash(c)
          [] ch = ":" -> Found(LexColon(c), <<>>)
          [] ch = "\"" -> LexString(Advance(c, 1), <<>>)
          [] ch = "$" /\ Peek(c, 1) = "\"" -> LexInterpolated(Advance(c, 2), <<>>, <<>>)
          [] ch \in Digits -> Found(LexNumber(c), <<>>)
          [] ch \in Letters -> Found(AdvanceWhile(Advance(c, 1), (Letters \ {"'"}) \union Digits), <<>>)
          [] ch \in OpChars /\ ~(ch = "$" /\ Peek(c, 1) = "\"") -> Found(LexOp(c), <<>>)
          [] OTHER -> NotFound(c)

TokenAt(c, r) == [text |-> Passed(c, r.c), parts |-> r.parts, line |-> c.line, col |-> c.col]

-----------------------------------------------------------------------------
LexerInit ==
    /\ source \in Sources
    /\ cursor = CursorAt(source)
    /\ lexed = <<>>
    /\ failed = FALSE

\* tokenize: one token, or the end at the first error.
LexerDone == failed \/ (lexed # <<>> /\ Last(lexed).text = <<>>)

ReadToken ==
    LET c == SkipBlanks(cursor)
        r == NextToken(c)
    IN  /\ ~LexerDone
        /\ failed' = ~r.ok
        /\ lexed' = IF r.ok THEN Append(lexed, TokenAt(c, r)) ELSE lexed
        /\ cursor' = r.c
        /\ UNCHANGED source

-----------------------------------------------------------------------------
(* The tokens of a hole (parse_interpolated_hole).                           *)

RECURSIVE Tokenized(_, _), TokenizedFrom(_, _, _)
Tokenized(cur, tokens) ==
    LET c == SkipBlanks(cur) IN TokenizedFrom(c, NextToken(c), tokens)
TokenizedFrom(c, r, tokens) ==
    LET all == Append(tokens, TokenAt(c, r))
    IN  IF ~r.ok THEN [ok |-> FALSE, tokens |-> tokens]
        ELSE IF Peek(c, 0) = "end" THEN [ok |-> TRUE, tokens |-> all]
        ELSE Tokenized(r.c, all)

TokensOf(chars) == Tokenized(CursorAt(chars), <<>>)

\* rebase_interpolated_span: only what stands on the first line of a hole is moved right.
RebasedSpan_EveryLine(t, base) == [t EXCEPT !.line = @ + base.line - 1, !.col = @ + base.col - 1]
RebasedSpan(t, base) ==
    [t EXCEPT !.line = @ + base.line - 1, !.col = IF t.line = 1 THEN @ + base.col - 1 ELSE @]

\* rebase_interpolated_tokens: with the holes of the strings among them.
RebasedToken(t, base) ==
    [RebasedSpan(t, base) EXCEPT !.parts = [k \in DOMAIN @ |-> IF @[k].hole THEN RebasedSpan(@[k], base) ELSE @[k]]]

HoleTokens(hole) ==
    LET r == TokensOf(hole.chars)
    IN  [k \in DOMAIN r.tokens |-> RebasedToken(r.tokens[k], hole)]

Holes(t) == SelectSeq(t.parts, LAMBDA part : part.hole)

RECURSIVE AllTokens(_)
\* The tokens and, at any depth, those of their holes.
AllTokens(tokens) ==
    Range(tokens) \union
        UNION {AllTokens(HoleTokens(hole)) : hole \in UNION {Range(Holes(t)) : t \in Range(tokens)}}

-----------------------------------------------------------------------------
\* Where the source is at a line and a column.
LineStart(src, line) ==
    IF line = 1 THEN 0 ELSE CHOOSE k \in DOMAIN src : src[k] = "\n" /\
                              Cardinality({j \in 1..k : src[j] = "\n"}) = line - 1

\* A token, also one of a hole in a hole, is where its line and its column say: at that place the
\* source has its text.  Every diagnostic, hover and rename in an interpolated string rests on it
\* (rebase_interpolated_tokens, lex_interpolated_string).
SpansPointAtTheirText ==
    LexerDone /\ ~failed =>
        \A t \in AllTokens(lexed) :
            LET from == LineStart(source, t.line) + t.col
            IN  \A k \in DOMAIN t.text : from + k - 1 \in DOMAIN source /\ source[from + k - 1] = t.text[k]

\* Where the scan of a hole and the lexer that reads it could take the same characters for
\* different things: an operator takes in a comment or the sign of an interpolated string.
OpaqueOperator(src) ==
    \E k \in 1..(Len(src) - 2) : /\ src[k] \in OpChars
                                 /\ <<src[k + 1], src[k + 2]>> \in {<<"/", "/">>, <<"$", "\"">>}

\* After chars a closing brace is a token, and the one that no brace among them opened.
ClosesLast(r) ==
    LET Count(text, n) == Cardinality({k \in 1..n : r.tokens[k].text = text})
        n == Len(r.tokens) - 2
    IN  /\ r.ok /\ n >= 0 /\ r.tokens[n + 1].text = <<"}">>
        /\ \A k \in 1..n : Count(<<"{">>, k) >= Count(<<"}">>, k)
        /\ Count(<<"{">>, n) = Count(<<"}">>, n)
ClosedBy(chars) == ClosesLast(TokensOf(Append(chars, "}")))

\* The hole of an interpolated string is cut where its expression ends: the brace it
\* was cut at is the first that closes it for the lexer that reads the hole
\* (lex_interpolated_expr and the scans of strings and comments it makes).
HolesEndWhereTheyShould ==
    LexerDone /\ ~OpaqueOperator(source) =>
        \A t \in AllTokens(lexed) : \A hole \in Range(Holes(t)) :
            /\ TokensOf(hole.chars).ok => ClosedBy(hole.chars)
            /\ \A k \in DOMAIN hole.chars : hole.chars[k] = "}" => ~ClosedBy(SubSeq(hole.chars, 1, k - 1))
=============================================================================
