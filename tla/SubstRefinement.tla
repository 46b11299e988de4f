--------------------------- MODULE SubstRefinement ---------------------------
(***************************************************************************)
(* The journal of Subst implements checkpoints that are copies.  The       *)
(* mapping needs no history: the copy a checkpoint stands for is what      *)
(* undoing the journal down to the checkpoint's length would give.         *)
(***************************************************************************)
EXTENDS Subst

\* The places of the entries about variable v that undoing down to `len` meets.
Entries(kind, v, len) ==
    {i \in (len + 1) .. Len(journal) : journal[i].kind = kind /\ journal[i].var = v}

\* The last entry that is undone, the earliest one, decides.
Earliest(S) == CHOOSE i \in S : \A j \in S : i <= j

UndoneTo(len) ==
    [map |-> [v \in TyVar |->
                LET E == Entries("Binding", v, len)
                IN  IF E = {} THEN map[v] ELSE journal[Earliest(E)].ty],
     levels |-> [v \in TyVar |->
                LET E == Entries("Level", v, len)
                IN  IF E = {} THEN levels[v] ELSE journal[Earliest(E)].level]]

\* A restore takes place when its loop starts: from then on the frame is gone.
HeldFrames == IF restoring THEN SubSeq(frames, 1, Len(frames) - 1) ELSE frames

Copies == INSTANCE AbstractSubst WITH
    table     <- IF restoring THEN UndoneTo(Top.journal_len)
                 ELSE [map |-> map, levels |-> levels],
    saved     <- [i \in DOMAIN HeldFrames |-> UndoneTo(HeldFrames[i].journal_len)],
    allocated <- next_var

(* Every behaviour of the substitution with its journal is one of a table whose
   checkpoints are whole copies: the loop of restore_checkpoint, the entries it
   finds and the ones discard_outermost_checkpoint throws away cannot be told
   from restoring or dropping a copy, and binding a variable never raises a
   level nor leaves one of its type above it. *)
ImplementsCopies == Copies!Spec
=============================================================================
