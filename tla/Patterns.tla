------------------------------ MODULE Patterns ------------------------------
(***************************************************************************)
(* Patterns (hern-core/src/types/patterns.rs): whether the arms of a match  *)
(* cover its scrutinee, and whether the pattern of a let or a parameter     *)
(* cannot fail; against the tests that codegen/lua.rs makes of a pattern    *)
(* (gen_pattern_cond_for), which decide what it matches when it runs.       *)
(*                                                                         *)
(* Coverage is decided over witnesses: patterns made from the type of the   *)
(* scrutinee which together stand for all of its values.  Witnesses are     *)
(* patterns, and which names a pattern binds is left out.  An arm's place   *)
(* does not matter here, so the arms are a set.                             *)
(***************************************************************************)
EXTENDS Integers, Sequences, SequencesExt, FiniteSets, FiniteSetsExt

CONSTANTS
    MaxArms,           \* bound: the types of scrutinees, and how many arms a match
                       \* over each of them has at most
    Variants,          \* the variant environment: by type name, a sequence of
                       \* variants in the order of their names
    MaxWitnesses,      \* stands for MAX_WITNESSES = 4096
    MaxWitnessDepth,   \* stands for MAX_WITNESS_DEPTH = 4
    MaxElements        \* bound: elements of a list pattern

VARIABLES
    scrutinee,         \* the type
    position,          \* where the patterns stand
    arms,              \* the patterns: one unless it is a match
    verdict            \* what the checker says of them

patternVars == <<scrutinee, position, arms, verdict>>

-----------------------------------------------------------------------------
(* Types, variants and patterns.                                           *)

BoolTy          == [ty |-> "bool"]
IntTy           == [ty |-> "int"]
RecordTy        == [ty |-> "record"]
ParamTy         == [ty |-> "param"]      \* the parameter of a generic type
TupleTy(items)  == [ty |-> "tuple", items |-> items]
ArrayTy(elem)   == [ty |-> "array", elem |-> elem]
Named(name)     == [ty |-> "named", name |-> name, arg |-> IntTy]
App(name, arg)  == [ty |-> "named", name |-> name, arg |-> arg]

Bare(name)          == [name |-> name, payload |-> "none"]
Carrying(name, ty)  == [name |-> name, payload |-> "some", payload_ty |-> ty]

Anything              == [pat |-> "any"]      \* a wildcard or a variable
BoolLit(b)       == [pat |-> "bool", value |-> b]
NumberLit(n)     == [pat |-> "number", value |-> n]
IntRange(a, b, incl) == [pat |-> "range", from |-> a, to |-> b, inclusive |-> incl]
RecordPat        == [pat |-> "record"]
TuplesOf(items)  == [pat |-> "tuple", items |-> items]
ListPat(elements, open) == [pat |-> "list", elements |-> elements, open |-> open]
Ctor(name)       == [pat |-> "constructor", name |-> name, binding |-> "none"]
CtorOf(name, p)  == [pat |-> "constructor", name |-> name, binding |-> "some", payload |-> p]

\* apply_variant_substitutions and instantiated_payload_ty
RECURSIVE Instantiated(_, _)
Instantiated(ty, arg) ==
    CASE ty.ty = "param" -> arg
      [] ty.ty = "tuple" -> TupleTy([i \in DOMAIN ty.items |-> Instantiated(ty.items[i], arg)])
      [] ty.ty = "array" -> ArrayTy(Instantiated(ty.elem, arg))
      [] ty.ty = "named" -> App(ty.name, Instantiated(ty.arg, arg))
      [] OTHER -> ty

PayloadTy(ty, variant) == Instantiated(variant.payload_ty, ty.arg)

\* All sequences whose i-th element is in the i-th set.
RECURSIVE Product(_)
Product(sets) ==
    IF sets = <<>> THEN {<<>>}
    ELSE {Append(row, x) : row \in Product(Front(sets)), x \in Last(sets)}

Power(S, n) == Product([i \in 1 .. n |-> S])

-----------------------------------------------------------------------------
(* Witnesses.                                                              *)

WitnessSet(patterns, approximate) == [patterns |-> patterns, approximate |-> approximate]
LimitReached == WitnessSet({Anything}, TRUE)

\* list_witnesses_of_len
ListWitnesses(elements, len, open) ==
    IF Cardinality(elements) ^ len > MaxWitnesses
      THEN WitnessSet({ListPat([i \in 1 .. len |-> Anything], open)}, TRUE)
      ELSE WitnessSet({ListPat(row, open) : row \in Power(elements, len)}, FALSE)

RECURSIVE WitnessPatterns(_, _)

\* The witnesses of one variant.
WitnessesOfVariant(ty, variant, depth) ==
    IF variant.payload = "none" THEN WitnessSet({Ctor(variant.name)}, FALSE)
    ELSE LET payload == WitnessPatterns(PayloadTy(ty, variant), depth + 1)
         IN  WitnessSet({CtorOf(variant.name, p) : p \in payload.patterns}, payload.approximate)

WitnessPatterns(ty, depth) ==
    CASE depth > MaxWitnessDepth -> LimitReached
      [] depth <= MaxWitnessDepth /\ ty.ty = "bool" ->
            WitnessSet({BoolLit(TRUE), BoolLit(FALSE)}, FALSE)
      [] depth <= MaxWitnessDepth /\ ty.ty \in {"int", "record", "param"} -> WitnessSet({Anything}, FALSE)
      [] depth <= MaxWitnessDepth /\ ty.ty = "tuple" ->
            LET items == [i \in DOMAIN ty.items |-> WitnessPatterns(ty.items[i], depth + 1)]
                rows  == Product([i \in DOMAIN items |-> items[i].patterns])
            IN  IF Cardinality(rows) > MaxWitnesses THEN LimitReached
                ELSE WitnessSet({TuplesOf(row) : row \in rows},
                                \E i \in DOMAIN items : items[i].approximate)
      [] depth <= MaxWitnessDepth /\ ty.ty = "array" ->
            LET element == WitnessPatterns(ty.elem, depth + 1)
            IN  WitnessSet({ListPat(<<>>, FALSE)} \union {ListPat(<<w>>, TRUE) : w \in element.patterns},
                           element.approximate)
      [] OTHER ->
            LET variants  == Variants[ty.name]
                each      == [i \in DOMAIN variants |-> WitnessesOfVariant(ty, variants[i], depth)]
                UpTo(i)   == UNION {each[j].patterns : j \in 1 .. i}
            IN  IF \E i \in DOMAIN variants :
                       variants[i].payload = "some" /\ Cardinality(UpTo(i)) > MaxWitnesses
                  THEN LimitReached
                  ELSE WitnessSet(UpTo(Len(variants)), \E i \in DOMAIN variants : each[i].approximate)

-----------------------------------------------------------------------------
(* Coverage.                                                               *)

RECURSIVE PatternIsCatchAll(_)
PatternIsCatchAll(p) ==
    CASE p.pat \in {"any", "record"} -> TRUE
      [] p.pat = "tuple" -> \A i \in DOMAIN p.items : PatternIsCatchAll(p.items[i])
      [] p.pat = "list" -> p.open /\ p.elements = <<>>
      [] OTHER -> FALSE

InRange(p, n) == p.from <= n /\ (IF p.inclusive THEN n <= p.to ELSE n < p.to)

\* Mutant: a closed list pattern covers the witness of the longer arrays.
LengthCovers_IgnoringRest(p, w) ==
    IF p.open THEN Len(p.elements) <= Len(w.elements) ELSE Len(p.elements) = Len(w.elements)

LengthCovers(p, w) ==
    /\ ~p.open => ~w.open /\ Len(p.elements) = Len(w.elements)
    /\ p.open => Len(p.elements) <= Len(w.elements)

RECURSIVE PatternCovers(_, _)

PatternCovers(p, w) ==
    CASE p.pat \in {"any", "record"} -> TRUE
      [] p.pat \in {"bool", "number"} -> w = p
      [] p.pat = "range" -> w.pat = "number" /\ InRange(p, w.value)
      [] p.pat = "constructor" ->
            /\ w.pat = "constructor" /\ w.name = p.name
            /\ p.binding = "some" =>
                   PatternCovers(p.payload, IF w.binding = "some" THEN w.payload ELSE Anything)
      [] p.pat = "tuple" ->
            /\ w.pat = "tuple" /\ Len(w.items) = Len(p.items)
            /\ \A i \in DOMAIN p.items : PatternCovers(p.items[i], w.items[i])
      [] p.pat = "list" ->
            /\ w.pat = "list" /\ LengthCovers(p, w)
            /\ \A i \in DOMAIN p.elements : PatternCovers(p.elements[i], w.elements[i])

Uncovered(patterns, witnesses) ==
    {w \in witnesses : \A p \in patterns : ~PatternCovers(p, w)}

Accepted == [ok |-> TRUE, missing |-> {}, approximate |-> FALSE]
\* The message names one of `missing`, the first in the code's order.
Missing(witnesses, approximate) == [ok |-> FALSE, missing |-> witnesses, approximate |-> approximate]
Verdict(uncovered, approximate) ==
    IF uncovered = {} THEN Accepted ELSE Missing(uncovered, approximate)

\* check_array_exhaustive: every length below that of the longest open pattern,
\* then one open witness for that length and all longer arrays.
CheckArrayExhaustive(patterns, ty) ==
    LET open     == {Len(p.elements) : p \in {q \in patterns : q.open}}
        max_open == Max(open)
        element  == WitnessPatterns(ty.elem, 0)
        lists    == [len \in 0 .. max_open |->
                        ListWitnesses(element.patterns, len, len = max_open)]
        bad(len) == Uncovered(patterns, lists[len].patterns)
        first    == CHOOSE len \in 0 .. max_open :
                        bad(len) # {} /\ \A l \in 0 .. (len - 1) : bad(l) = {}
    IN  IF open = {} THEN Missing({Anything}, FALSE)
        ELSE IF \A len \in 0 .. max_open : bad(len) = {} THEN Accepted
        ELSE Missing(bad(first), element.approximate \/ lists[first].approximate)

CheckExhaustiveMatch(patterns, ty) ==
    IF \E p \in patterns : PatternIsCatchAll(p) THEN Accepted
    ELSE IF ty.ty = "array" THEN CheckArrayExhaustive(patterns, ty)
    ELSE LET witnesses == WitnessPatterns(ty, 0)
         IN  Verdict(Uncovered(patterns, witnesses.patterns), witnesses.approximate)

-----------------------------------------------------------------------------
(* Patterns that cannot fail.                                              *)

IsSoleVariant(name) ==
    \E type \in DOMAIN Variants : Len(Variants[type]) = 1 /\ Variants[type][1].name = name

\* is_irrefutable_param and is_irrefutable_let.  A record pattern of a parameter
\* needs a rest, of a let it does not.
RECURSIVE IsIrrefutable(_, _)
IsIrrefutable(p, where) ==
    CASE p.pat = "any" -> TRUE
      [] p.pat = "record" -> where = "let"
      [] p.pat = "tuple" -> \A i \in DOMAIN p.items : IsIrrefutable(p.items[i], where)
      [] p.pat = "list" -> p.open /\ p.elements = <<>>
      [] p.pat = "constructor" -> IsSoleVariant(p.name)
      [] OTHER -> FALSE

-----------------------------------------------------------------------------
(* What a pattern tests when it runs: gen_pattern_cond_for.  A value is a   *)
(* pattern without Anything, ranges and open lists.                              *)

RECURSIVE TestsHold(_, _)
TestsHold(p, v) ==
    CASE p.pat \in {"any", "record"} -> TRUE
      [] p.pat \in {"bool", "number"} -> v = p
      [] p.pat = "range" -> InRange(p, v.value)
      [] p.pat = "constructor" ->
            v.name = p.name /\ (p.binding = "some" => TestsHold(p.payload, v.payload))
      [] p.pat = "list" ->
            /\ IF p.open THEN Len(p.elements) <= Len(v.elements)
               ELSE Len(p.elements) = Len(v.elements)
            /\ \A i \in DOMAIN p.elements : TestsHold(p.elements[i], v.elements[i])
      [] p.pat = "tuple" -> \A i \in DOMAIN p.items : TestsHold(p.items[i], v.items[i])

-----------------------------------------------------------------------------
(* Inputs: the patterns of a type to a depth (check_pattern accepts no       *)
(* others), and its values with nested data to a depth.                      *)

RECURSIVE PatternsOf(_, _)
PatternsOf(ty, depth) ==
    {Anything} \union
    CASE depth = 0 -> {}
      [] depth > 0 /\ ty.ty = "bool" -> {BoolLit(TRUE), BoolLit(FALSE)}
      [] depth > 0 /\ ty.ty = "int" -> {NumberLit(0), IntRange(0, 2, TRUE), IntRange(0, 2, FALSE)}
      [] depth > 0 /\ ty.ty = "record" -> {RecordPat}
      [] depth > 0 /\ ty.ty = "tuple" ->
            {TuplesOf(row) : row \in Product([i \in DOMAIN ty.items |-> PatternsOf(ty.items[i], depth - 1)])}
      [] depth > 0 /\ ty.ty = "array" ->
            {ListPat(row, open) : row \in UNION {Power(PatternsOf(ty.elem, depth - 1), n) : n \in 0 .. MaxElements},
                                  open \in BOOLEAN}
      [] depth > 0 /\ ty.ty = "named" ->
            UNION {LET variant == Variants[ty.name][i]
                   IN  {Ctor(variant.name)} \union
                       (IF variant.payload = "none" THEN {}
                        ELSE {CtorOf(variant.name, p) : p \in PatternsOf(PayloadTy(ty, variant), depth - 1)})
                   : i \in DOMAIN Variants[ty.name]}

RECURSIVE ValuesOf(_, _)
ValuesOf(ty, depth) ==
    CASE ty.ty = "bool" -> {BoolLit(TRUE), BoolLit(FALSE)}
      [] ty.ty = "int" -> {NumberLit(0), NumberLit(2), NumberLit(3)}
      [] ty.ty = "record" -> {RecordPat}
      [] ty.ty = "tuple" ->
            {TuplesOf(row) : row \in Product([i \in DOMAIN ty.items |-> ValuesOf(ty.items[i], depth)])}
      [] ty.ty = "array" ->
            {ListPat(row, FALSE) : row \in UNION {Power(ValuesOf(ty.elem, depth), n) : n \in 0 .. (MaxElements + 1)}}
      [] ty.ty = "named" ->
            UNION {LET variant == Variants[ty.name][i]
                   IN  IF variant.payload = "none" THEN {Ctor(variant.name)}
                       ELSE IF depth = 0 THEN {}
                       ELSE {CtorOf(variant.name, p) : p \in ValuesOf(PayloadTy(ty, variant), depth - 1)}
                   : i \in DOMAIN Variants[ty.name]}

Unchecked == [ok |-> FALSE, missing |-> {}, approximate |-> FALSE]
PatternDepth == 2       \* bound: how deep patterns and values are
ValueDepth   == 4

PatternsIdle ==
    scrutinee = BoolTy /\ position = "none" /\ arms = {} /\ verdict = Unchecked

PatternsInit ==
    /\ scrutinee \in DOMAIN MaxArms
    /\ \/ /\ position = "match"
          /\ arms \in {Range(row) : row \in Power(PatternsOf(scrutinee, PatternDepth), MaxArms[scrutinee])}
       \/ /\ position \in {"let", "param"}
          /\ arms \in {{p} : p \in PatternsOf(scrutinee, PatternDepth)}
    /\ verdict = Unchecked

CheckMatch ==
    /\ position = "match" /\ verdict = Unchecked
    /\ verdict' = CheckExhaustiveMatch(arms, scrutinee)
    /\ UNCHANGED <<scrutinee, position, arms>>

CheckBinder ==
    /\ position \in {"let", "param"} /\ verdict = Unchecked
    /\ verdict' = IF \A p \in arms : IsIrrefutable(p, position) THEN Accepted ELSE Missing(arms, FALSE)
    /\ UNCHANGED <<scrutinee, position, arms>>

PatternsNext == CheckMatch \/ CheckBinder
-----------------------------------------------------------------------------
Unmatched == {v \in ValuesOf(scrutinee, ValueDepth) : \A p \in arms : ~TestsHold(p, v)}

\* Arrays inside of other types have witnesses of no and of one element only.
RECURSIVE HoldsArray(_)
HoldsArray(ty) ==
    CASE ty.ty = "array" -> TRUE
      [] ty.ty = "tuple" -> \E i \in DOMAIN ty.items : HoldsArray(ty.items[i])
      [] ty.ty = "named" ->
            \/ HoldsArray(ty.arg)
            \/ \E i \in DOMAIN Variants[ty.name] :
                   LET variant == Variants[ty.name][i]
                   IN  variant.payload = "some" /\ variant.payload_ty.ty = "array"
      [] OTHER -> FALSE
ArrayInside == HoldsArray(IF scrutinee.ty = "array" THEN scrutinee.elem ELSE scrutinee)

(* A match that is accepted runs one of its arms whatever the value is; and one
   that is rejected with a missing pattern has a value of that pattern which no
   arm takes, unless the message says that the limit of witnesses was reached or
   an array lies inside of the scrutinee's type (check_exhaustive_match against
   gen_pattern_cond_for). *)
ExhaustivenessIsExact ==
    position = "match" /\ verdict # Unchecked =>
        /\ verdict.ok => Unmatched = {}
        /\ ~verdict.ok /\ ~verdict.approximate /\ ~ArrayInside =>
               \A w \in verdict.missing : \E v \in Unmatched : TestsHold(w, v)

=============================================================================
