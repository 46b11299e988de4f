---------------------------- MODULE AbstractSubst ----------------------------
(***************************************************************************)
(* What inference is promised by the substitution (hern-core/src/types/    *)
(* mod.rs, `Subst`): a table of bindings and levels whose checkpoints are  *)
(* whole copies of the table.  There is no journal and no counter of       *)
(* checkpoints.  Only variables outlive a rollback: one that is allocated  *)
(* after a checkpoint exists, unsolved and at the level it was given, in   *)
(* every copy as well.                                                     *)
(***************************************************************************)
EXTENDS TyVars

VARIABLES
    table,      \* the bindings and levels that inference reads
    saved,      \* the copies that can still be restored, oldest first
    allocated   \* how many variables exist

EmptyTable ==
    [map |-> [v \in TyVar |-> Unbound], levels |-> [v \in TyVar |-> RootLevel]]

Init ==
    /\ table = EmptyTable
    /\ saved = <<>>
    /\ allocated = 0

\* `t` with the new variable in it.
WithVariable(t, level) == [t EXCEPT !.levels[allocated] = level]

Fresh(level) ==
    /\ allocated < NumVars
    /\ allocated' = allocated + 1
    /\ table' = WithVariable(table, level)
    /\ saved' = [i \in DOMAIN saved |-> WithVariable(saved[i], level)]

\* An unsolved variable is bound to a type of other unsolved variables.  Levels
\* only go down, and none of the type stays above the variable.
Bind(v, ty) ==
    /\ table.map[v] = Unbound
    /\ v \notin ty
    /\ \A w \in ty : table.map[w] = Unbound
    /\ table'.map = [table.map EXCEPT ![v] = ty]
    /\ \A w \in TyVar : table'.levels[w] <= table.levels[w]
    /\ \A w \in ty : table'.levels[w] <= table.levels[v]
    /\ \A w \in TyVar \ (ty \union {v}) : table'.levels[w] = table.levels[w]
    /\ UNCHANGED <<saved, allocated>>

Save ==
    /\ saved' = Append(saved, table)
    /\ UNCHANGED <<table, allocated>>

Restore ==
    /\ saved # <<>>
    /\ table' = saved[Len(saved)]
    /\ saved' = SubSeq(saved, 1, Len(saved) - 1)
    /\ UNCHANGED allocated

\* Keep what was done since the only copy.
Commit ==
    /\ Len(saved) = 1
    /\ saved' = <<>>
    /\ UNCHANGED <<table, allocated>>

Clear ==
    /\ saved = <<>>
    /\ table' = EmptyTable
    /\ UNCHANGED <<saved, allocated>>

Next ==
    \/ \E level \in Level : Fresh(level)
    \/ \E v \in 0 .. (allocated - 1) : \E ty \in SUBSET (0 .. (allocated - 1)) : Bind(v, ty)
    \/ Save
    \/ Restore
    \/ Commit
    \/ Clear

Spec == Init /\ [][Next]_<<table, saved, allocated>>
=============================================================================
