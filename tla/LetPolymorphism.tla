--------------------------- MODULE LetPolymorphism ---------------------------
(***************************************************************************)
(* Let-generalization by levels, as hern-core/src/types/infer does it: the *)
(* scopes of with_child_level, the environments they clone, unification    *)
(* (which lowers levels), and the three places where a type scheme is made *)
(*                                                                         *)
(*   - generalize_at, for functions and simple lets: by level;             *)
(*   - the destructuring let of infer_stmt: by the environment's free      *)
(*     variables, collected before the value is inferred;                  *)
(*   - Scheme::mono, for values that are not generalized.                  *)
(*                                                                         *)
(* A program is any sequence of these steps in which an expression mentions *)
(* only the variables in reach: those of the environment and those of the  *)
(* expression's own parts.  A statement that fails is rolled back by Subst *)
(* and is not modelled again here.                                         *)
(*                                                                         *)
(* A type is the set of its unsolved variables.  The code applies the      *)
(* substitution whenever it reads a type (Subst::apply, TypeEnv::free_vars); *)
(* here solving a variable rewrites every type that is still in use, and    *)
(* env_vars_before_let, a set the code does not apply it to, stays as it is. *)
(***************************************************************************)
EXTENDS TyVars

CONSTANT
    UnloweredLambdas   \* may a lambda's type be bound as the lambda leaves it?

ASSUME UnloweredLambdasAssumption == UnloweredLambdas \in BOOLEAN

VARIABLES
    levels, next_var,   \* Subst
    solved,      \* the domain of Subst::map
    scopes,      \* the active with_child_level scopes, the module's first
    quantified,  \* history: the variables that generalize_at quantified over
    pattern_quantified   \* history: those that destructuring lets did

vars == <<levels, next_var, solved, scopes, quantified, pattern_quantified>>

Top == scopes[Len(scopes)]
current_level == Len(scopes) - 1
InReach == Top.env \union Top.temps

Init ==
    /\ levels = [v \in TyVar |-> RootLevel]
    /\ next_var = 0
    /\ solved = {}
    /\ scopes = <<[kind |-> "module", env |-> {}, temps |-> {}, before |-> {}]>>
    /\ quantified = {} /\ pattern_quantified = {}

-----------------------------------------------------------------------------
(* Inside a scope.                                                         *)

\* Infer::fresh_ty, and the fresh variables of instantiate_scheme.
FreshTy ==
    /\ next_var < NumVars
    /\ next_var' = next_var + 1
    /\ levels' = [levels EXCEPT ![next_var] = current_level]
    /\ scopes' = [scopes EXCEPT ![Len(scopes)].temps = @ \union {next_var}]
    /\ UNCHANGED <<solved, quantified, pattern_quantified>>

\* Mutant: a solved variable is lowered, the variables of its type are not.
BindLevels_OnlyTheVariable(lv, v, ty, target) == LowerLevels(lv, {v}, target)

\* The levels bind_ty leaves: the variable and its type meet at the lower one.
BindLevels(lv, v, ty, target) == LowerLevels(lv, ty \union {v}, target)

\* The type S, once v stands for ty.
Solve(S, v, ty) == IF v \in S THEN (S \ {v}) \union ty ELSE S

SolveInScope(scope, v, ty) ==
    [scope EXCEPT !.env = Solve(@, v, ty), !.temps = Solve(@, v, ty)]

\* A unification that solves v.
Unify(v, ty) ==
    /\ v \in InReach
    /\ ty \subseteq InReach \ {v}
    /\ \E target \in Level :
         /\ IsMinLevel(levels, ty \union {v}, target)
         /\ levels' = BindLevels(levels, v, ty, target)
    /\ solved' = solved \union {v}
    /\ scopes' = [i \in 1 .. Len(scopes) |-> SolveInScope(scopes[i], v, ty)]
    /\ UNCHANGED <<next_var, quantified, pattern_quantified>>

\* unify_rows on two open rows that each lack fields of the other: both tails
\* are solved with the missing fields and one new tail, made by Subst::fresh_var.
UnifyOpenRows(tail1, tail2, extras1, extras2) ==
    LET new_tail == next_var
        row2 == extras2 \union {new_tail}
        row1 == Solve(extras1, tail1, row2) \union {new_tail}
        levels0 == [levels EXCEPT ![new_tail] = RootLevel]
    IN  /\ next_var < NumVars
        /\ tail1 # tail2
        /\ {tail1, tail2} \subseteq InReach
        /\ (extras1 \union extras2) \subseteq InReach
        /\ tail1 \notin row2
        /\ tail2 \notin row1
        /\ \E target1, target2 \in Level :
             LET levels1 == BindLevels(levels0, tail1, row2, target1)
             IN  /\ IsMinLevel(levels0, row2 \union {tail1}, target1)
                 /\ IsMinLevel(levels1, row1 \union {tail2}, target2)
                 /\ levels' = BindLevels(levels1, tail2, row1, target2)
        /\ scopes' = [i \in 1 .. Len(scopes) |->
                        SolveInScope(SolveInScope(scopes[i], tail1, row2), tail2, row1)]
        /\ solved' = solved \union {tail1, tail2}
        /\ next_var' = next_var + 1
        /\ UNCHANGED <<quantified, pattern_quantified>>

\* infer_lambda_expr leaves the variables of a lambda's type at the lambda's own
\* level.  UnloweredLambdas allows programs that bind such a type as it is, as
\* `let mut f = fn(x) { x };` does; without it the types bound are at `level`.
LoweredTo(ty, level) == UnloweredLambdas \/ \A w \in ty : levels[w] <= level

\* A value that is not generalized: Scheme::mono, at the current level.
BindMono(ty) ==
    /\ ty \subseteq InReach
    /\ LoweredTo(ty, current_level)
    /\ scopes' = [scopes EXCEPT ![Len(scopes)].env = @ \union ty]
    /\ UNCHANGED <<levels, next_var, solved, quantified, pattern_quantified>>

-----------------------------------------------------------------------------
(* Entering and leaving with_child_level.                                  *)

Enter(kind, env, temps, before) ==
    /\ Len(scopes) <= MaxLevel
    /\ scopes' = Append(scopes,
                   [kind |-> kind, env |-> env, temps |-> temps, before |-> before])

\* A function: its parameter is fresh at the child level and bound in body_env.
EnterFn(kind) ==
    /\ next_var < NumVars
    /\ next_var' = next_var + 1
    /\ levels' = [levels EXCEPT ![next_var] = current_level + 1]
    /\ Enter(kind, Top.env \union {next_var}, {}, {})
    /\ UNCHANGED <<solved, quantified, pattern_quantified>>

\* A lambda whose type is expected: the parameter and the result are the caller's.
EnterExpectedLambda(param_ty, ret_ty) ==
    /\ (param_ty \union ret_ty) \subseteq InReach
    /\ LoweredTo(param_ty, current_level + 1)
    /\ Enter("lambda", Top.env \union param_ty, ret_ty, {})
    /\ UNCHANGED <<levels, next_var, solved, quantified, pattern_quantified>>

\* The value of a let that may be generalized (is_value, not mut).
EnterLet ==
    /\ Enter("let", Top.env, {}, {})
    /\ UNCHANGED <<levels, next_var, solved, quantified, pattern_quantified>>

EnterLetPattern ==
    /\ Enter("let_pattern", Top.env, {}, Top.env)
    /\ UNCHANGED <<levels, next_var, solved, quantified, pattern_quantified>>

\* level_generalizable_vars
LevelGeneralizable(ty, ambient) == {w \in ty : levels[w] > ambient}

\* Back in the outer scope, with these additions to its environment and parts.
Leave(env, temps) ==
    scopes' = [SubSeq(scopes, 1, Len(scopes) - 1)
                 EXCEPT ![Len(scopes) - 1].env = @ \union env,
                        ![Len(scopes) - 1].temps = @ \union temps]

\* The binding's type, quantified over vs, joins the outer environment.
LeaveWithScheme(ty, vs) ==
    /\ Leave(ty \ vs, {})
    /\ UNCHANGED <<levels, next_var, solved>>

\* infer_fn_like and the simple let: generalize_at the ambient level.
LeaveGeneralized(ty) ==
    /\ Top.kind \in {"fn", "let"}
    /\ ty \subseteq InReach
    /\ LET vs == LevelGeneralizable(ty, current_level - 1)
       IN  LeaveWithScheme(ty, vs) /\ quantified' = quantified \union vs
    /\ UNCHANGED pattern_quantified

\* The destructuring let: whatever was not free in the environment beforehand.
LeaveLetPattern(ty) ==
    /\ Top.kind = "let_pattern"
    /\ ty \subseteq InReach
    /\ LeaveWithScheme(ty, ty \ Top.before)
    /\ pattern_quantified' = pattern_quantified \union (ty \ Top.before)
    /\ UNCHANGED quantified

\* infer_lambda_expr: the type goes to the enclosing expression, unquantified.
LeaveLambda(ty) ==
    /\ Top.kind = "lambda"
    /\ ty \subseteq InReach
    /\ Leave({}, ty)
    /\ UNCHANGED <<levels, next_var, solved, quantified, pattern_quantified>>

Next ==
    \/ FreshTy
    \/ \E v \in InReach : \E ty \in SUBSET (InReach \ {v}) : Unify(v, ty)
    \/ \E tail1, tail2 \in InReach, extras1, extras2 \in SUBSET InReach :
            UnifyOpenRows(tail1, tail2, extras1, extras2)
    \/ \E ty \in SUBSET InReach : BindMono(ty)
    \/ \E kind \in {"fn", "lambda"} : EnterFn(kind)
    \/ \E param_ty, ret_ty \in SUBSET InReach : EnterExpectedLambda(param_ty, ret_ty)
    \/ EnterLet
    \/ EnterLetPattern
    \/ \E ty \in SUBSET InReach : LeaveGeneralized(ty)
    \/ \E ty \in SUBSET InReach : LeaveLetPattern(ty)
    \/ \E ty \in SUBSET InReach : LeaveLambda(ty)

Spec == Init /\ [][Next]_vars

-----------------------------------------------------------------------------
(* Properties.                                                             *)

NotInEnv(vs) == \A i \in 1 .. Len(scopes) : vs \intersect scopes[i].env = {}

(* A variable that generalize_at quantifies over is free in no environment in
   scope: the side condition of generalization in Hindley-Milner, which the code
   meets by comparing levels instead of scanning the environment (scopes.rs). *)
QuantifiedNotInEnv == NotInEnv(quantified)

(* The same for destructuring lets, whose comment says they "generalize against
   the pre-let environment" (infer.rs). *)
PatternQuantifiedNotInEnv == NotInEnv(pattern_quantified)

=============================================================================
