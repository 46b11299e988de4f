-------------------------------- MODULE Subst --------------------------------
(***************************************************************************)
(* The substitution of Hern's type checker (hern-core/src/types/mod.rs,    *)
(* `Subst`) with its undo journal, driven the way `Infer` drives it:       *)
(*                                                                         *)
(*   - the collecting loops take one checkpoint per statement, discard it  *)
(*     when the statement type-checks and restore it when it does not      *)
(*     (infer.rs, test_blocks.rs, snapshot.rs);                            *)
(*   - overload resolution takes a checkpoint per candidate, tries it and  *)
(*     always restores it (calls/receiver.rs), at any depth: the arguments *)
(*     of the call being tried may contain such calls themselves;          *)
(*   - the table is cleared between two modules.                           *)
(*                                                                         *)
(* The loop of restore_checkpoint is modelled pop by pop.  `handed` and    *)
(* the fields map, levels and next of a frame are history: the code does   *)
(* not keep them, they record what a rollback has to bring back.           *)
(***************************************************************************)
EXTENDS TyVars

CONSTANT MaxDepth   \* bound: checkpoints that are active at the same time

ASSUME MaxDepthAssumption == MaxDepth \in Nat \ {0}

VARIABLES
    map,                  \* Subst::map
    levels,               \* Subst::levels, as level_of reads it
    next_var,             \* Subst::next_var
    journal,              \* Subst::journal
    active_checkpoints,   \* Subst::active_checkpoints
    frames,               \* the SubstCheckpoints the callers hold, oldest first
    restoring,            \* the loop of restore_checkpoint is running
    panicked,             \* one of the assert_eq! of Subst failed
    handed                \* history: every variable fresh_tyvar_at returned

vars == <<map, levels, next_var, journal, active_checkpoints, frames,
          restoring, panicked, handed>>

BindingEntry == [kind : {"Binding"}, var : TyVar, ty : MaybeTy]
LevelEntry   == [kind : {"Level"}, var : TyVar, level : Level]
JournalEntry == BindingEntry \union LevelEntry

Frame == [kind : {"statement", "probe"}, journal_len : Nat, depth : Nat,
          map : [TyVar -> MaybeTy], levels : [TyVar -> Level], next : 0 .. NumVars]

TypeOK ==
    /\ map \in [TyVar -> MaybeTy]
    /\ levels \in [TyVar -> Level]
    /\ next_var \in 0 .. NumVars
    /\ journal \in Seq(JournalEntry)
    /\ active_checkpoints \in Nat
    /\ frames \in Seq(Frame)
    /\ restoring \in BOOLEAN
    /\ panicked \in BOOLEAN
    /\ handed \in SUBSET TyVar

Allocated == 0 .. (next_var - 1)
Top == frames[Len(frames)]
Running == ~restoring /\ ~panicked

PopFrame  == frames' = SubSeq(frames, 1, Len(frames) - 1)
PopJournal == journal' = SubSeq(journal, 1, Len(journal) - 1)

Init ==
    /\ map = [v \in TyVar |-> Unbound]
    /\ levels = [v \in TyVar |-> RootLevel]
    /\ next_var = 0
    /\ journal = <<>>
    /\ active_checkpoints = 0
    /\ frames = <<>>
    /\ restoring = FALSE
    /\ panicked = FALSE
    /\ handed = {}

-----------------------------------------------------------------------------
(* Allocation and unification.                                             *)

\* Mutant: records the level below the one asked for.
FreshTyvarAt_LevelOffByOne(level) ==
    /\ Running
    /\ next_var < NumVars
    /\ next_var' = next_var + 1
    /\ levels' = [levels EXCEPT ![next_var] = level - 1]
    /\ handed' = handed \union {next_var}
    /\ UNCHANGED <<map, journal, active_checkpoints, frames, restoring, panicked>>

FreshTyvarAt(level) ==
    /\ Running
    /\ next_var < NumVars
    /\ next_var' = next_var + 1
    /\ levels' = [levels EXCEPT ![next_var] = level]
    /\ handed' = handed \union {next_var}
    /\ UNCHANGED <<map, journal, active_checkpoints, frames, restoring, panicked>>

\* The walks over the variables of S, each met once: the second visit of a
\* variable finds it lowered already.
Walks(S) ==
    {w \in [1 .. Cardinality(S) -> S] :
        \A x \in S : \E i \in DOMAIN w : w[i] = x /\ \A j \in DOMAIN w : w[j] = x => j = i}

\* Mutant: lowering a level leaves no trace in the journal.
LevelEntries_NotJournalled(walk) == <<>>

LevelEntries(walk) ==
    [i \in 1 .. Len(walk) |->
        [kind |-> "Level", var |-> walk[i], level |-> levels[walk[i]]]]

BindingEntryOf(v) == [kind |-> "Binding", var |-> v, ty |-> map[v]]

\* Mutant: only v := v is recognised, not v := (v, w).
PassesOccursCheck_BareVariableOnly(v, applied) == applied # {v}

\* What bind_ty accepts: not the variable itself and not a type containing it.
\* The early returns change nothing, so they are stuttering steps here.
PassesOccursCheck(v, applied) == v \notin applied

\* bind_ty(v, ty) from unify, which has applied the substitution to both sides,
\* so that v is unsolved; `applied` is what bind_ty's own apply makes of ty.
BindTy(v, ty) ==
    LET applied == Apply(map, ty)
        touched == applied \union {v}
    IN  /\ Running
        /\ v \notin BoundVars(map)
        /\ PassesOccursCheck(v, applied)
        /\ \E target \in Level :
             /\ IsMinLevel(levels, touched, target)
             /\ levels' = LowerLevels(levels, touched, target)
             /\ IF active_checkpoints > 0
                  THEN \E walk \in Walks(LoweredVars(levels, touched, target)) :
                         journal' = Append(journal \o LevelEntries(walk), BindingEntryOf(v))
                  ELSE UNCHANGED journal
        /\ map' = [map EXCEPT ![v] = applied]
        /\ UNCHANGED <<next_var, active_checkpoints, frames, restoring, panicked, handed>>

-----------------------------------------------------------------------------
(* Checkpoints.                                                            *)

\* Mutant: a nested checkpoint undoes what its statement did before it as well.
Checkpoint_FromTheStart(kind) ==
    /\ frames' = Append(frames,
                   [kind |-> kind, journal_len |-> 0,
                    depth |-> active_checkpoints,
                    map |-> map, levels |-> levels, next |-> next_var])
    /\ active_checkpoints' = active_checkpoints + 1
    /\ UNCHANGED <<map, levels, next_var, journal, restoring, panicked, handed>>

Checkpoint(kind) ==
    /\ frames' = Append(frames,
                   [kind |-> kind, journal_len |-> Len(journal),
                    depth |-> active_checkpoints,
                    map |-> map, levels |-> levels, next |-> next_var])
    /\ active_checkpoints' = active_checkpoints + 1
    /\ UNCHANGED <<map, levels, next_var, journal, restoring, panicked, handed>>

\* The collecting loops are not re-entered: a test block inside a statement is
\* inferred by infer_stmt, which takes no checkpoint.
BeginStatement ==
    /\ Running
    /\ frames = <<>>
    /\ Checkpoint("statement")

BeginProbe ==
    /\ Running
    /\ Len(frames) < MaxDepth
    /\ Checkpoint("probe")

\* restore_checkpoint: the LIFO assertion, then the loop, then the depth.
RestoreBegin ==
    /\ Running
    /\ frames # <<>>
    /\ IF active_checkpoints = Top.depth + 1
         THEN restoring' = TRUE /\ UNCHANGED panicked
         ELSE panicked' = TRUE /\ UNCHANGED restoring
    /\ UNCHANGED <<map, levels, next_var, journal, active_checkpoints, frames, handed>>

UndoBinding(entry) ==
    /\ entry.kind = "Binding"
    /\ map' = [map EXCEPT ![entry.var] = entry.ty]
    /\ UNCHANGED levels

UndoLevel(entry) ==
    /\ entry.kind = "Level"
    /\ levels' = [levels EXCEPT ![entry.var] = entry.level]
    /\ UNCHANGED map

RestorePop ==
    /\ restoring
    /\ Len(journal) > Top.journal_len
    /\ UndoBinding(journal[Len(journal)]) \/ UndoLevel(journal[Len(journal)])
    /\ PopJournal
    /\ UNCHANGED <<next_var, active_checkpoints, frames, restoring, panicked, handed>>

\* Mutant: rolls the fresh variable counter back with the bindings.
RestoreEnd_RollsCounterBack ==
    /\ restoring
    /\ Len(journal) <= Top.journal_len
    /\ active_checkpoints' = Top.depth
    /\ next_var' = Top.next
    /\ PopFrame
    /\ restoring' = FALSE
    /\ UNCHANGED <<map, levels, journal, panicked, handed>>

RestoreEnd ==
    /\ restoring
    /\ Len(journal) <= Top.journal_len
    /\ active_checkpoints' = Top.depth
    /\ PopFrame
    /\ restoring' = FALSE
    /\ UNCHANGED <<map, levels, next_var, journal, panicked, handed>>

\* Mutant: a successful statement leaves its journal behind.
DiscardOutermost_KeepsJournal ==
    /\ Running
    /\ frames # <<>>
    /\ Top.kind = "statement"
    /\ IF Top.journal_len = 0 /\ Top.depth = 0 /\ active_checkpoints = 1
         THEN active_checkpoints' = 0 /\ PopFrame /\ UNCHANGED panicked
         ELSE panicked' = TRUE /\ UNCHANGED <<active_checkpoints, frames>>
    /\ UNCHANGED <<map, levels, next_var, journal, restoring, handed>>

\* The statement type-checked: discard_outermost_checkpoint and its assertions.
DiscardOutermost ==
    /\ Running
    /\ frames # <<>>
    /\ Top.kind = "statement"
    /\ IF Top.journal_len = 0 /\ Top.depth = 0 /\ active_checkpoints = 1
         THEN /\ journal' = <<>>
              /\ active_checkpoints' = 0
              /\ PopFrame
              /\ UNCHANGED panicked
         ELSE /\ panicked' = TRUE
              /\ UNCHANGED <<journal, active_checkpoints, frames>>
    /\ UNCHANGED <<map, levels, next_var, restoring, handed>>

\* reset_program_state, between two modules.
ClearMapKeepCounter ==
    /\ Running
    /\ frames = <<>>
    /\ map' = [v \in TyVar |-> Unbound]
    /\ levels' = [v \in TyVar |-> RootLevel]
    /\ journal' = <<>>
    /\ active_checkpoints' = 0
    /\ UNCHANGED <<next_var, frames, restoring, panicked, handed>>

Next ==
    \/ \E level \in Level : FreshTyvarAt(level)
    \/ \E v \in Allocated, ty \in SUBSET Allocated : BindTy(v, ty)
    \/ BeginStatement
    \/ BeginProbe
    \/ RestoreBegin
    \/ RestorePop
    \/ RestoreEnd
    \/ DiscardOutermost
    \/ ClearMapKeepCounter

Spec == Init /\ [][Next]_vars
-----------------------------------------------------------------------------
(* Properties.                                                             *)

(* Once the journal is back to the length of the checkpoint being restored,
   every binding is what it was when the checkpoint was taken, and so is the
   level of every variable that existed then: a failed statement or a rejected
   overload leaves no trace in the table (snapshot.rs, receiver.rs). *)
RollbackExact ==
    (restoring /\ Len(journal) <= Top.journal_len) =>
        /\ map = Top.map
        /\ \A v \in 0 .. (Top.next - 1) : levels[v] = Top.levels[v]

(* None of the assertions of restore_checkpoint and discard_outermost_checkpoint
   can fail, however statements and nested overload probes follow each other. *)
NoPanic == ~panicked

(* The substitution has no cycle, so that `apply`, which follows bindings
   without any check, terminates (the occurs check of bind_ty). *)
Acyclic == \A v \in BoundVars(map) : v \notin Reach(map, map[v])

(* A type variable is handed out once, across rollbacks and modules: metadata of
   failed statements and exported schemes may still mention the old ones. *)
FreshIsNew == [][next_var' # next_var => next_var \notin handed]_vars
=============================================================================
