------------------------------- MODULE TyVars -------------------------------
(***************************************************************************)
(* Type variables, their bindings and their levels: the data that          *)
(* hern-core/src/types/mod.rs keeps in `Subst`, and the pure functions on  *)
(* it.  A type is abstracted to the set of type variables that occur in it *)
(* (free_type_vars): Int and Float are both {}, a bare variable is {v}, a  *)
(* record or function type is the set of the variables of its parts.       *)
(* Nothing that this module is used to check looks at the constructors.    *)
(***************************************************************************)
EXTENDS Integers, FiniteSets, Sequences

CONSTANTS
    NumVars,    \* bound: how many type variables may be allocated
    MaxLevel    \* bound: deepest let / function nesting level

TyVar == 0 .. (NumVars - 1)
Level == 0 .. MaxLevel
RootLevel == 0
Ty    == SUBSET TyVar

\* What the map holds for an unsolved variable: not a set of type variables.
Unbound == {-1}
MaybeTy == Ty \union {Unbound}

ASSUME NumVarsAssumption  == NumVars \in Nat \ {0}
ASSUME MaxLevelAssumption == MaxLevel \in Nat

-----------------------------------------------------------------------------
(* The substitution map m: what each variable is bound to.                 *)

BoundVars(m) == {v \in TyVar : m[v] # Unbound}

\* C holds every variable that is mentioned by the binding of a member of C.
ClosedUnder(m, C) == \A v \in C \intersect BoundVars(m) : m[v] \subseteq C

\* Everything `Subst::apply` visits when it walks a type whose variables are S.
Reach(m, S) ==
    {w \in TyVar : \A C \in SUBSET TyVar :
                       (S \subseteq C /\ ClosedUnder(m, C)) => w \in C}

\* The free variables of `Subst::apply` on that type: the unsolved ones.
Apply(m, S) == Reach(m, S) \ BoundVars(m)

-----------------------------------------------------------------------------
(* Levels: lv[v] is what `level_of(v)` returns, ROOT_LEVEL for a variable   *)
(* that has no entry.                                                       *)

\* l is the least level among the variables S (min_level_in_ty, bind_ty).
IsMinLevel(lv, S, l) == /\ \E w \in S : lv[w] = l
                        /\ \A w \in S : l <= lv[w]

\* lower_var_level over every variable of S: only a strictly higher level moves.
LoweredVars(lv, S, target) == {w \in S : target < lv[w]}

LowerLevels(lv, S, target) ==
    [w \in TyVar |-> IF w \in LoweredVars(lv, S, target) THEN target ELSE lv[w]]
=============================================================================
