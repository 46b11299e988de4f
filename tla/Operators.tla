------------------------------ MODULE Operators ------------------------------
(***************************************************************************)
(* From an unparenthesised row of operators to the tree that is compiled:  *)
(* parse_expr gives every operator token a binding power of its own        *)
(* (hern-core/src/parse/mod.rs), and once the declarations of operators    *)
(* are known reassoc.rs takes the tree apart and builds it again by their  *)
(* precedences and associativities.                                        *)
(*                                                                         *)
(* An operand is a number, its place in the row, or a row in parentheses.  *)
(* Only the infix arm of parse_expr is modelled: prefix operators, calls   *)
(* and member accesses make operands.  Node ids and spans are left out.    *)
(***************************************************************************)
EXTENDS Integers, Sequences, SequencesExt, FiniteSets

CONSTANTS
    OperatorToken,    \* the operators that rows are made of
    MaxOperators,     \* bound: how many there are in a row
    Declarations      \* the operator declarations a program may add to the prelude's

VARIABLES
    row,              \* the row of the source
    declared,         \* the declarations of the program, by operator
    parsed,           \* what the parser makes of the row
    reassociated      \* what reassociation makes of that

operatorVars == <<row, declared, parsed, reassociated>>

-----------------------------------------------------------------------------
(* Expressions.                                                            *)

Operand(i)        == [kind |-> "operand", at |-> i]
Grouped(e)        == [kind |-> "grouped", expr |-> e]
Binary(l, op, r)  == [kind |-> "binary", lhs |-> l, op |-> op, rhs |-> r]
Nothing           == [kind |-> "nothing"]
ReassocError      == [kind |-> "error"]

\* A row: an operator between any two neighbours of `operands`.
PlainRow(ops) == [operands |-> [i \in 1 .. Len(ops) + 1 |-> Operand(i)], ops |-> ops]

\* The same with the operand at i replaced by a row of two in parentheses.
WithGroup(r, i, op) ==
    [r EXCEPT !.operands[i] =
        Grouped(Binary(Operand(10 * i + 1), op, Operand(10 * i + 2)))]

Rows ==
    UNION {{PlainRow(ops) : ops \in [1 .. n -> OperatorToken]} : n \in 1 .. MaxOperators}
    \union {WithGroup(PlainRow(<<a, b>>), i, op) :
                a \in OperatorToken, b \in OperatorToken, op \in OperatorToken, i \in 1 .. 3}

-----------------------------------------------------------------------------
(* The parser.                                                             *)

Pipe == "|>"

\* infix_binary_op: the left and the right binding power of a token.
BindingPower(token) ==
    CASE token = Pipe -> <<2, 3>>
      [] token = "||" -> <<3, 4>>
      [] token = "==" -> <<4, 5>>
      [] token = "&&" -> <<5, 6>>
      [] token \in {"+", "-"} -> <<9, 10>>
      [] token = "*" -> <<11, 12>>
      [] token = "**" -> <<13, 13>>
      [] OTHER -> <<6, 7>>

\* parse_expr(&tokens[..], min_bp) with the operand at `at` in front; `at` of the
\* result is the last operand it has consumed.
RECURSIVE ParseExpr(_, _, _), ParseInfix(_, _, _, _)

ParseInfix(r, lhs, at, min_bp) ==
    IF at > Len(r.ops) \/ BindingPower(r.ops[at])[1] < min_bp
      THEN [expr |-> lhs, at |-> at]
      ELSE LET rhs == ParseExpr(r, at + 1, BindingPower(r.ops[at])[2])
           IN  ParseInfix(r, Binary(lhs, r.ops[at], rhs.expr), rhs.at, min_bp)

ParseExpr(r, at, min_bp) == ParseInfix(r, r.operands[at], at, min_bp)

-----------------------------------------------------------------------------
(* Fixities.                                                               *)

Fix(fixity, prec) == [fixity |-> fixity, prec |-> prec]

\* The traits of the prelude declare their operators with these.
PreludeFixities ==
    [op \in {"||", "&&", "==", "<", "<>", "+", "*", "/", "**"} |->
        CASE op = "||" -> Fix("left", 2)
          [] op = "&&" -> Fix("left", 3)
          [] op \in {"==", "<"} -> Fix("non", 4)
          [] op = "<>" -> Fix("right", 5)
          [] op = "+" -> Fix("left", 6)
          [] op \in {"*", "/"} -> Fix("left", 7)
          [] op = "**" -> Fix("right", 8)]

\* The table of the prelude extended by the program's own; an operator that is in
\* neither is left associative at 6.
FixityFor(op) ==
    IF op \in DOMAIN declared THEN declared[op]
    ELSE IF op \in DOMAIN PreludeFixities THEN PreludeFixities[op]
    ELSE Fix("left", 6)

-----------------------------------------------------------------------------
(* Reassociation.                                                          *)

IsCustomBinary(e) == e.kind = "binary" /\ e.op # Pipe

Part(op, e) == [op |-> op, expr |-> e]

\* flatten and flatten_rhs: the operators on the left spine and, for each of
\* them, those on the right spine of its right operand.
RECURSIVE Flatten(_), FlattenRhs(_, _)

FlattenRhs(e, incoming) ==
    IF IsCustomBinary(e)
      THEN <<Part(incoming, e.lhs)>> \o FlattenRhs(e.rhs, e.op)
      ELSE <<Part(incoming, e)>>

Flatten(e) ==
    IF IsCustomBinary(e)
      THEN LET left == Flatten(e.lhs)
           IN  [head |-> left.head, tail |-> left.tail \o FlattenRhs(e.rhs, e.op)]
      ELSE [head |-> e, tail |-> <<>>]

\* Whether two operators may stand side by side at one precedence.
Chainable(left, right) ==
    left.prec = right.prec => left.fixity = right.fixity /\ left.fixity # "non"

ValidOperatorChain(tail) ==
    \A i \in 2 .. Len(tail) : Chainable(FixityFor(tail[i - 1].op), FixityFor(tail[i].op))

\* Mutant: a right associative operator is treated as a left associative one.
NextMin_AlwaysLeft(op) == (FixityFor(op).prec + 1) % 256

\* The precedence is a u8.
NextMin(op) ==
    IF FixityFor(op).fixity = "right" THEN FixityFor(op).prec
    ELSE (FixityFor(op).prec + 1) % 256

RECURSIVE Pratt(_, _, _)

Pratt(lhs, tail, min_prec) ==
    IF tail = <<>> \/ FixityFor(Head(tail).op).prec < min_prec
      THEN [expr |-> lhs, tail |-> tail]
      ELSE LET rhs == Pratt(Head(tail).expr, Tail(tail), NextMin(Head(tail).op))
           IN  Pratt(Binary(lhs, Head(tail).op, rhs.expr), rhs.tail, min_prec)

\* reassoc_expr_with_ids: atoms first, then the chain; the first error ends it.
RECURSIVE ReassocExpr(_)

ReassocExpr(e) ==
    CASE IsCustomBinary(e) ->
            LET flat  == Flatten(e)
                head  == ReassocExpr(flat.head)
                parts == [i \in DOMAIN flat.tail |->
                             Part(flat.tail[i].op, ReassocExpr(flat.tail[i].expr))]
            IN  IF \/ head = ReassocError
                   \/ \E i \in DOMAIN parts : parts[i].expr = ReassocError
                   \/ ~ValidOperatorChain(parts)
                  THEN ReassocError
                  ELSE Pratt(head, parts, 0).expr
      [] e.kind = "grouped" ->
            LET inner == ReassocExpr(e.expr)
            IN  IF inner = ReassocError THEN ReassocError ELSE Grouped(inner)
      [] e.kind = "binary" /\ ~IsCustomBinary(e) ->
            LET lhs == ReassocExpr(e.lhs)
                rhs == ReassocExpr(e.rhs)
            IN  IF ReassocError \in {lhs, rhs} THEN ReassocError ELSE Binary(lhs, e.op, rhs)
      [] OTHER -> e

-----------------------------------------------------------------------------

OperatorsIdle ==
    /\ row = PlainRow(<<>>)
    /\ declared = <<>>
    /\ parsed = Nothing
    /\ reassociated = Nothing

OperatorsInit ==
    /\ row \in Rows
    /\ declared \in Declarations
    /\ parsed = Nothing
    /\ reassociated = Nothing

ParseRow ==
    /\ row.ops # <<>>
    /\ parsed = Nothing
    /\ parsed' = ParseExpr(row, 1, 0).expr
    /\ UNCHANGED <<row, declared, reassociated>>

Reassociate ==
    /\ parsed # Nothing
    /\ reassociated = Nothing
    /\ reassociated' = ReassocExpr(parsed)
    /\ UNCHANGED <<row, declared, parsed>>

OperatorsNext == ParseRow \/ Reassociate
-----------------------------------------------------------------------------
(* What the declarations demand, as a definition: of all trees with this    *)
(* row the one in which no operand holds an operator that should be outside *)
(* it.  Pipes are outside of everything.                                    *)

RECURSIVE Trees(_, _, _)

Trees(r, first, last) ==
    IF first = last THEN {r.operands[first]}
    ELSE UNION {{Binary(l, r.ops[k], rt) : l \in Trees(r, first, k), rt \in Trees(r, k + 1, last)}
                    : k \in first .. (last - 1)}

DemandedFixity(op) == IF op = Pipe THEN Fix("left", -1) ELSE FixityFor(op)

MayHold(op, e, side) ==
    e.kind = "binary" =>
        LET outer == DemandedFixity(op)
            inner == DemandedFixity(e.op)
        IN  \/ inner.prec > outer.prec
            \/ inner = outer /\ inner.fixity = side

RECURSIVE ObeysFixities(_)

ObeysFixities(e) ==
    CASE e.kind = "binary" ->
            /\ MayHold(e.op, e.lhs, "left") /\ MayHold(e.op, e.rhs, "right")
            /\ ObeysFixities(e.lhs) /\ ObeysFixities(e.rhs)
      [] e.kind = "grouped" -> ObeysFixities(e.expr)
      [] OTHER -> TRUE

\* None when the row mixes operators that cannot be chained.
DemandedTrees(r) == {t \in Trees(r, 1, Len(r.operands)) : ObeysFixities(t)}

\* The row of a tree: its operands and operators from left to right.
RECURSIVE RowOf(_)

RowOf(e) ==
    IF e.kind = "binary"
      THEN [operands |-> RowOf(e.lhs).operands \o RowOf(e.rhs).operands,
            ops |-> RowOf(e.lhs).ops \o <<e.op>> \o RowOf(e.rhs).ops]
      ELSE [operands |-> <<e>>, ops |-> <<>>]

\* No operand that flattening pushes whole is a chain itself.
RECURSIVE FlattensCompletely(_)

FlattensCompletely(e) ==
    CASE IsCustomBinary(e) ->
            ~IsCustomBinary(Flatten(e).head)
            /\ \A i \in DOMAIN Flatten(e).tail : ~IsCustomBinary(Flatten(e).tail[i].expr)
      [] e.kind = "binary" /\ ~IsCustomBinary(e) ->
            FlattensCompletely(e.lhs) /\ FlattensCompletely(e.rhs)
      [] OTHER -> TRUE

Finished == reassociated # Nothing

(* Reassociation keeps every operand and operator in its place; and when the
   parser's tree flattens into one chain it builds the tree that the declared
   precedences and associativities demand, and rejects only rows that have
   none (build_fixity_table, flatten, validate_operator_chain and pratt against
   the binding powers of the parser). *)
ReassociationIsRight ==
    Finished =>
        /\ reassociated # ReassocError => RowOf(reassociated) = RowOf(parsed)
        /\ FlattensCompletely(parsed) =>
               IF reassociated = ReassocError THEN DemandedTrees(row) = {}
               ELSE DemandedTrees(row) \subseteq {reassociated}

\* In what is outside of parentheses, no operator holds one of lower precedence.
RECURSIVE HoldsOnlyTighter(_)

HoldsOnlyTighter(e) ==
    e.kind = "binary" =>
        \A operand \in {e.lhs, e.rhs} :
            /\ operand.kind = "binary" =>
                   DemandedFixity(operand.op).prec >= DemandedFixity(e.op).prec
            /\ HoldsOnlyTighter(operand)

(* What tests/hern/fixity.hern says of custom operators: higher precedence binds
   tighter, so that no operand of an operator is held together by one of lower
   precedence. *)
HigherPrecedenceBindsTighter == Finished => HoldsOnlyTighter(reassociated)
=============================================================================
