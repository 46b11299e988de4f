----------------------------- MODULE SubstProofs -----------------------------
(***************************************************************************)
(* What holds of the substitution and its journal for every number of      *)
(* variables, levels and nested checkpoints:                               *)
(*                                                                         *)
(*   TypeCorrect        every reachable state satisfies TypeOK             *)
(*   RollbackCorrect    RollbackExact: a rollback restores what it should  *)
(*   AssertionsHold     NoPanic: the assertions of Subst never fail        *)
(*   SubstitutionAcyclic  Acyclic: the occurs check keeps the map acyclic  *)
(*   FreshVariablesNew  FreshIsNew: no variable is handed out twice        *)
(*   JournalImplementsCopies  ImplementsCopies: the journal implements     *)
(*                      checkpoints that are whole copies of the table     *)
(***************************************************************************)
EXTENDS SubstRefinement, TLAPS, FiniteSetTheorems, SequenceTheorems

-----------------------------------------------------------------------------
(* The inductive invariant.                                                *)

IsBindingOf(k, v) == journal[k].kind = "Binding" /\ journal[k].var = v
IsLevelOf(k, v)   == journal[k].kind = "Level" /\ journal[k].var = v

\* Popping the journal down to length n brings the binding of v back to ty: the
\* oldest entry of v past n holds it, or there is none and v never changed.
PopsToBinding(n, v, ty) ==
    \/ /\ \A k \in (n + 1) .. Len(journal) : ~IsBindingOf(k, v)
       /\ map[v] = ty
    \/ \E k \in (n + 1) .. Len(journal) :
         /\ IsBindingOf(k, v)
         /\ journal[k].ty = ty
         /\ \A j \in (n + 1) .. (k - 1) : ~IsBindingOf(j, v)

PopsToLevel(n, v, level) ==
    \/ /\ \A k \in (n + 1) .. Len(journal) : ~IsLevelOf(k, v)
       /\ levels[v] = level
    \/ \E k \in (n + 1) .. Len(journal) :
         /\ IsLevelOf(k, v)
         /\ journal[k].level = level
         /\ \A j \in (n + 1) .. (k - 1) : ~IsLevelOf(j, v)

\* Every checkpoint that is held can still be restored.
FramesRestorable ==
    \A i \in 1 .. Len(frames) :
        /\ \A v \in TyVar : PopsToBinding(frames[i].journal_len, v, frames[i].map[v])
        /\ \A v \in 0 .. (frames[i].next - 1) :
             PopsToLevel(frames[i].journal_len, v, frames[i].levels[v])

\* The checkpoints nest.
FramesNest ==
    /\ \A i \in 1 .. Len(frames) :
         /\ frames[i].journal_len <= Len(journal)
         /\ frames[i].depth = i - 1
         /\ frames[i].next <= next_var
         /\ frames[i].kind = "statement" => i = 1
    /\ \A i, j \in 1 .. Len(frames) :
         i <= j => frames[i].journal_len <= frames[j].journal_len
    /\ frames # <<>> => frames[1].journal_len = 0

Discipline ==
    /\ active_checkpoints = Len(frames)
    /\ frames = <<>> => journal = <<>>
    /\ restoring => frames # <<>>
    /\ ~panicked
    /\ handed \subseteq 0 .. (next_var - 1)

\* Only unsolved variables are bound, so that is what every entry remembers.
OnlyUnsolvedBound ==
    \A k \in 1 .. Len(journal) : journal[k].kind = "Binding" => journal[k].ty = Unbound

\* Every nonempty set of bound variables has one bound to none of the others.
WellFounded(m) ==
    \A S \in SUBSET BoundVars(m) : S # {} => \E v \in S : m[v] \intersect S = {}

IInv == /\ TypeOK
        /\ Discipline
        /\ FramesNest
        /\ FramesRestorable
        /\ OnlyUnsolvedBound
        /\ WellFounded(map)

-----------------------------------------------------------------------------
(* Facts about single operations.                                          *)

LEMMA ApplyType ==
    ASSUME NEW m, NEW S
    PROVE  /\ Reach(m, S) \in Ty
           /\ Apply(m, S) \in Ty
           /\ Apply(m, S) \intersect BoundVars(m) = {}
BY DEF Reach, Apply, Ty, BoundVars

LEMMA TyVarsFinite ==
    ASSUME NEW S \in Ty
    PROVE  Cardinality(S) \in Nat
<1>1. NumVars - 1 \in Int
    BY NumVarsAssumption
<1>2. IsFiniteSet(TyVar)
    BY <1>1, FS_Interval DEF TyVar
<1>3. IsFiniteSet(S)
    BY <1>2, FS_Subset DEF Ty
<1> QED
    BY <1>3, FS_CardinalityType

LEMMA FrameFields ==
    ASSUME TypeOK, NEW i \in 1 .. Len(frames)
    PROVE  /\ frames[i] \in Frame
           /\ frames[i].journal_len \in Nat
           /\ frames[i].depth \in Nat
           /\ frames[i].map \in [TyVar -> MaybeTy]
           /\ frames[i].levels \in [TyVar -> Level]
           /\ frames[i].next \in 0 .. NumVars
<1>1. frames[i] \in Frame
    BY DEF TypeOK
<1> QED
    BY <1>1 DEF Frame

\* What a walk appends to the journal: one entry per step, with the old level.
LEMMA WalkEntries ==
    ASSUME TypeOK, NEW S \in Ty, NEW walk \in Walks(S)
    PROVE  /\ walk \in Seq(TyVar)
           /\ \A x \in S : \E i \in 1 .. Len(walk) :
                walk[i] = x /\ \A j \in 1 .. Len(walk) : walk[j] = x => j = i
           /\ LevelEntries(walk) \in Seq(LevelEntry)
           /\ Len(LevelEntries(walk)) = Len(walk)
           /\ \A i \in 1 .. Len(walk) :
                /\ walk[i] \in S
                /\ LevelEntries(walk)[i] =
                     [kind |-> "Level", var |-> walk[i], level |-> levels[walk[i]]]
<1>1. Cardinality(S) \in Nat
    BY TyVarsFinite
<1>2. /\ walk \in Seq(TyVar)
      /\ Len(walk) = Cardinality(S)
      /\ \A i \in 1 .. Len(walk) : walk[i] \in S
      /\ \A x \in S : \E i \in 1 .. Len(walk) :
           walk[i] = x /\ \A j \in 1 .. Len(walk) : walk[j] = x => j = i
    BY <1>1 DEF Walks, Ty
<1>3. \A i \in 1 .. Len(walk) :
        [kind |-> "Level", var |-> walk[i], level |-> levels[walk[i]]] \in LevelEntry
    BY <1>2 DEF LevelEntry, TypeOK
<1> QED
    BY <1>2, <1>3 DEF LevelEntries

LEMMA LowerLevelsType ==
    ASSUME NEW lv \in [TyVar -> Level], NEW S, NEW target \in Level
    PROVE  LowerLevels(lv, S, target) \in [TyVar -> Level]
BY DEF LowerLevels

\* The journal of a BindTy step that is journalled, entry by entry.
LEMMA BindTyJournal ==
    ASSUME TypeOK, NEW v \in TyVar, NEW S \in Ty, NEW walk \in Walks(S)
    PROVE  LET new == Append(journal \o LevelEntries(walk), BindingEntryOf(v))
           IN  /\ new \in Seq(JournalEntry)
               /\ Len(new) = Len(journal) + Len(walk) + 1
               /\ Len(walk) \in Nat
               /\ \A k \in 1 .. Len(journal) : new[k] = journal[k]
               /\ \A i \in 1 .. Len(walk) :
                    new[Len(journal) + i] =
                      [kind |-> "Level", var |-> walk[i], level |-> levels[walk[i]]]
               /\ new[Len(new)] = BindingEntryOf(v)
<1> DEFINE entries == LevelEntries(walk)
           new == Append(journal \o entries, BindingEntryOf(v))
<1>1. /\ entries \in Seq(LevelEntry)
      /\ Len(entries) = Len(walk)
      /\ \A i \in 1 .. Len(walk) : entries[i] =
            [kind |-> "Level", var |-> walk[i], level |-> levels[walk[i]]]
      /\ walk \in Seq(TyVar)
    BY WalkEntries
<1>2. entries \in Seq(JournalEntry) /\ journal \in Seq(JournalEntry)
    BY <1>1 DEF JournalEntry, TypeOK
<1>3. BindingEntryOf(v) \in JournalEntry
    BY DEF BindingEntryOf, JournalEntry, BindingEntry, TypeOK
<1>4. /\ Len(journal) \in Nat
      /\ Len(walk) \in Nat
      /\ journal \o entries \in Seq(JournalEntry)
      /\ Len(journal \o entries) = Len(journal) + Len(walk)
      /\ \A k \in 1 .. Len(journal) : (journal \o entries)[k] = journal[k]
      /\ \A i \in 1 .. Len(walk) : (journal \o entries)[Len(journal) + i] = entries[i]
  <2> HIDE DEF entries
  <2> QED
    BY <1>1, <1>2
<1>5. /\ new \in Seq(JournalEntry)
      /\ Len(new) = Len(journal) + Len(walk) + 1
      /\ \A k \in 1 .. Len(journal) : new[k] = journal[k]
      /\ \A i \in 1 .. Len(walk) : new[Len(journal) + i] = entries[i]
      /\ new[Len(new)] = BindingEntryOf(v)
  <2> HIDE DEF entries
  <2> QED
    BY <1>3, <1>4
<1> QED
    BY <1>1, <1>4, <1>5

-----------------------------------------------------------------------------
(* Type correctness.                                                       *)

LEMMA TypeInit == Init => TypeOK
<1>1. NumVars \in Nat /\ RootLevel \in Level
    BY NumVarsAssumption, MaxLevelAssumption DEF RootLevel, Level
<1>2. Unbound \in MaybeTy
    BY DEF MaybeTy
<1>3. <<>> \in Seq(JournalEntry) /\ <<>> \in Seq(Frame)
    BY EmptySeq
<1>4. Init => map \in [TyVar -> MaybeTy] /\ levels \in [TyVar -> Level]
    BY <1>1, <1>2 DEF Init
<1>5. Init => journal \in Seq(JournalEntry) /\ frames \in Seq(Frame)
    BY <1>3 DEF Init
<1>6. Init => handed \in SUBSET TyVar /\ next_var \in 0 .. NumVars
    BY <1>1 DEF Init
<1>7. Init => active_checkpoints \in Nat
    BY DEF Init
<1>8. Init => restoring \in BOOLEAN /\ panicked \in BOOLEAN
    BY Zenon DEF Init
<1> QED
    BY <1>4, <1>5, <1>6, <1>7, <1>8 DEF TypeOK

LEMMA TypeFresh ==
    ASSUME TypeOK, NEW level \in Level, FreshTyvarAt(level)
    PROVE  TypeOK'
BY NumVarsAssumption DEF TypeOK, FreshTyvarAt, TyVar

LEMMA TypeBind ==
    ASSUME TypeOK, NEW v \in Allocated, NEW ty \in SUBSET Allocated, BindTy(v, ty)
    PROVE  TypeOK'
<1> DEFINE applied == Apply(map, ty)
           touched == applied \union {v}
<1>1. v \in TyVar
    BY NumVarsAssumption DEF TypeOK, Allocated, TyVar
<1>2. applied \in Ty /\ touched \in Ty /\ applied \in MaybeTy
    BY <1>1, ApplyType DEF Ty, MaybeTy
<1>3. map' \in [TyVar -> MaybeTy]
    BY <1>1, <1>2 DEF BindTy, TypeOK
<1>4. levels' \in [TyVar -> Level]
    BY LowerLevelsType DEF BindTy, TypeOK
<1>5. journal' \in Seq(JournalEntry)
  <2>1. CASE active_checkpoints > 0
    <3>1. PICK target \in Level :
            \E walk \in Walks(LoweredVars(levels, touched, target)) :
                journal' = Append(journal \o LevelEntries(walk), BindingEntryOf(v))
        BY <2>1 DEF BindTy
    <3>2. LoweredVars(levels, touched, target) \in Ty
        BY <1>2 DEF LoweredVars, Ty
    <3> QED
        BY <1>1, <3>1, <3>2, BindTyJournal
  <2>2. CASE ~(active_checkpoints > 0)
    BY <2>2 DEF BindTy, TypeOK
  <2> QED
    BY <2>1, <2>2
<1> QED
    BY <1>3, <1>4, <1>5 DEF BindTy, TypeOK

LEMMA TypeCheckpoint ==
    ASSUME TypeOK, NEW kind \in {"statement", "probe"}, Checkpoint(kind)
    PROVE  TypeOK'
<1>1. [kind |-> kind, journal_len |-> Len(journal), depth |-> active_checkpoints,
       map |-> map, levels |-> levels, next |-> next_var] \in Frame
    BY DEF Frame, TypeOK
<1> QED
    BY <1>1 DEF Checkpoint, TypeOK

LEMMA TypePop ==
    ASSUME TypeOK, frames # <<>>, RestorePop
    PROVE  TypeOK'
<1>1. Len(frames) \in 1 .. Len(frames) /\ Top.journal_len \in Nat
    BY FrameFields DEF TypeOK, Top
<1>2. Len(journal) \in 1 .. Len(journal)
    BY <1>1 DEF RestorePop, TypeOK
<1>3. journal[Len(journal)] \in JournalEntry
    BY <1>2 DEF TypeOK
<1>4. journal' \in Seq(JournalEntry)
    BY <1>2 DEF RestorePop, PopJournal, TypeOK
<1>5. CASE UndoBinding(journal[Len(journal)])
  <2>1. journal[Len(journal)] \in BindingEntry
    BY <1>3, <1>5 DEF UndoBinding, JournalEntry, LevelEntry
  <2>2. map' \in [TyVar -> MaybeTy]
    BY <2>1, <1>5 DEF UndoBinding, BindingEntry, TypeOK
  <2> QED
    BY <1>4, <1>5, <2>2 DEF RestorePop, UndoBinding, TypeOK
<1>6. CASE UndoLevel(journal[Len(journal)])
  <2>1. journal[Len(journal)] \in LevelEntry
    BY <1>3, <1>6 DEF UndoLevel, JournalEntry, BindingEntry
  <2>2. levels' \in [TyVar -> Level]
    BY <2>1, <1>6 DEF UndoLevel, LevelEntry, TypeOK
  <2> QED
    BY <1>4, <1>6, <2>2 DEF RestorePop, UndoLevel, TypeOK
<1> QED
    BY <1>5, <1>6 DEF RestorePop

LEMMA TypePopFrame ==
    ASSUME TypeOK, frames # <<>>, PopFrame
    PROVE  /\ frames' \in Seq(Frame)
           /\ Len(frames') = Len(frames) - 1
           /\ \A i \in 1 .. Len(frames') : frames'[i] = frames[i]
           /\ frames' = <<>> <=> Len(frames) <= 1
<1>1. PICK n \in Nat : n = Len(frames)
    BY DEF TypeOK
<1>2. /\ SubSeq(frames, 1, n - 1) \in Seq(Frame)
      /\ Len(SubSeq(frames, 1, n - 1)) = n - 1
      /\ \A i \in 1 .. (n - 1) : SubSeq(frames, 1, n - 1)[i] = frames[i]
    BY <1>1 DEF TypeOK
<1>3. frames' = SubSeq(frames, 1, n - 1)
    BY <1>1 DEF PopFrame
<1>4. n <= 1 => frames' = <<>>
    BY <1>1, <1>3, SubSeqEmpty
<1>5. n > 1 => frames' # <<>>
  <2>1. Len(<<>>) = 0
    BY EmptySeq
  <2> QED
    BY <1>2, <1>3, <2>1
<1> QED
    BY <1>1, <1>2, <1>3, <1>4, <1>5

LEMMA TypeNext ==
    ASSUME TypeOK, restoring => frames # <<>>, [Next]_vars
    PROVE  TypeOK'
<1>1. CASE UNCHANGED vars
    BY <1>1 DEF vars, TypeOK
<1>2. ASSUME NEW level \in Level, FreshTyvarAt(level)
      PROVE  TypeOK'
    BY <1>2, TypeFresh
<1>3. ASSUME NEW v \in Allocated, NEW ty \in SUBSET Allocated, BindTy(v, ty)
      PROVE  TypeOK'
    BY <1>3, TypeBind
<1>4. CASE BeginStatement
    BY <1>4, TypeCheckpoint DEF BeginStatement
<1>5. CASE BeginProbe
    BY <1>5, TypeCheckpoint DEF BeginProbe
<1>6. CASE RestoreBegin
    BY <1>6 DEF RestoreBegin, TypeOK
<1>7. CASE RestorePop
    BY <1>7, TypePop DEF RestorePop
<1>8. CASE RestoreEnd
  <2>1. Top.depth \in Nat
    BY <1>8, FrameFields DEF RestoreEnd, Top, TypeOK
  <2>2. frames' \in Seq(Frame)
    BY <1>8, TypePopFrame DEF RestoreEnd
  <2> QED
    BY <1>8, <2>1, <2>2 DEF RestoreEnd, TypeOK
<1>9. CASE DiscardOutermost
  <2>1. frames' \in Seq(Frame)
    BY <1>9, TypePopFrame DEF DiscardOutermost, TypeOK
  <2>2. journal' \in Seq(JournalEntry)
    BY <1>9, EmptySeq DEF DiscardOutermost, TypeOK
  <2>3. panicked' \in BOOLEAN
    BY Zenon, <1>9 DEF DiscardOutermost, TypeOK
  <2>4. active_checkpoints' \in Nat
    BY <1>9 DEF DiscardOutermost, TypeOK
  <2> QED
    BY <1>9, <2>1, <2>2, <2>3, <2>4 DEF DiscardOutermost, TypeOK
<1>10. CASE ClearMapKeepCounter
  <2>1. RootLevel \in Level /\ Unbound \in MaybeTy
    BY MaxLevelAssumption DEF RootLevel, Level, MaybeTy
  <2> QED
    BY <1>10, <2>1 DEF ClearMapKeepCounter, TypeOK
<1> QED
    BY <1>1, <1>2, <1>3, <1>4, <1>5, <1>6, <1>7, <1>8, <1>9, <1>10 DEF Next

-----------------------------------------------------------------------------
(* The discipline of the checkpoints: who holds them, and in which order.  *)

LEMMA TopFrame ==
    ASSUME TypeOK, Discipline, FramesNest, frames # <<>>
    PROVE  /\ Len(frames) \in Nat
           /\ Len(frames) >= 1
           /\ Len(frames) \in 1 .. Len(frames)
           /\ Top.journal_len \in Nat
           /\ Top.journal_len <= Len(journal)
           /\ Top.depth = Len(frames) - 1
           /\ Top.kind = "statement" => Len(frames) <= 1
           /\ Len(frames) <= 1 => Top.journal_len = 0
           /\ \A i \in 1 .. Len(frames) : frames[i].journal_len <= Top.journal_len
<1>1. PICK n \in Nat : n = Len(frames) /\ n >= 1
    BY DEF TypeOK
<1>2. Top = frames[n] /\ n \in 1 .. Len(frames)
    BY <1>1 DEF Top
<1>3. Top.journal_len \in Nat
    BY <1>2, FrameFields
<1>4. /\ Top.journal_len <= Len(journal)
      /\ Top.depth = n - 1
      /\ Top.kind = "statement" => n = 1
      /\ n = 1 => Top.journal_len = 0
      /\ \A i \in 1 .. Len(frames) : frames[i].journal_len <= Top.journal_len
    BY <1>1, <1>2 DEF FramesNest
<1> QED
    BY <1>1, <1>3, <1>4

LEMMA DisciplineNext ==
    ASSUME TypeOK, Discipline, FramesNest, [Next]_vars
    PROVE  Discipline'
<1> USE DEF Discipline
<1>1. CASE UNCHANGED vars
    BY <1>1 DEF vars
<1>2. ASSUME NEW level \in Level, FreshTyvarAt(level)
      PROVE  Discipline'
    BY <1>2 DEF FreshTyvarAt, TypeOK
<1>3. ASSUME NEW v \in Allocated, NEW ty \in SUBSET Allocated, BindTy(v, ty)
      PROVE  Discipline'
  <2>1. frames = <<>> => journal' = journal
      BY <1>3 DEF BindTy
  <2> QED
      BY <1>3, <2>1 DEF BindTy
<1>4. ASSUME NEW kind \in {"statement", "probe"}, Running, Checkpoint(kind)
      PROVE  Discipline'
  <2>1. frames' \in Seq(Frame) /\ Len(frames') = Len(frames) + 1 /\ Len(frames) \in Nat
      BY <1>4, TypeCheckpoint DEF Checkpoint, TypeOK
  <2>2. frames' # <<>>
      BY <2>1
  <2> QED
      BY <1>4, <2>1, <2>2 DEF Checkpoint, Running
<1>5. CASE RestoreBegin
  <2>1. active_checkpoints = Top.depth + 1
      BY <1>5, TopFrame DEF RestoreBegin
  <2> QED
      BY <1>5, <2>1 DEF RestoreBegin
<1>6. CASE RestorePop
    BY <1>6 DEF RestorePop
<1>7. CASE RestoreEnd
  <2>1. frames # <<>>
      BY <1>7 DEF RestoreEnd
  <2>2. /\ frames' \in Seq(Frame)
        /\ Len(frames') = Len(frames) - 1
      BY <1>7, <2>1, TypePopFrame DEF RestoreEnd
  <2>3. active_checkpoints' = Len(frames')
      BY <1>7, <2>1, <2>2, TopFrame DEF RestoreEnd
  <2>4. frames' = <<>> => journal' = <<>>
    <3>1. SUFFICES ASSUME frames' = <<>> PROVE Len(journal) <= 0
        BY <1>7 DEF RestoreEnd, TypeOK
    <3>2. Len(frames) <= 1
        BY <1>7, <2>1, <3>1, TypePopFrame DEF RestoreEnd
    <3> QED
        BY <1>7, <2>1, <3>2, TopFrame DEF RestoreEnd, TypeOK
  <2> QED
      BY <1>7, <2>3, <2>4 DEF RestoreEnd
<1>8. CASE DiscardOutermost
  <2>1. /\ frames # <<>>
        /\ Len(frames) <= 1
        /\ Len(frames) >= 1
        /\ Len(frames) \in Nat
      BY <1>8, TopFrame DEF DiscardOutermost
  <2>2. Top.journal_len = 0 /\ Top.depth = 0 /\ active_checkpoints = 1
      BY <1>8, <2>1, TopFrame DEF DiscardOutermost
  <2>3. frames' = <<>> /\ Len(<<>>) = 0
      BY <1>8, <2>1, <2>2, TypePopFrame, EmptySeq DEF DiscardOutermost
  <2>4. active_checkpoints' = Len(frames')
      BY <1>8, <2>2, <2>3 DEF DiscardOutermost
  <2> QED
      BY <1>8, <2>1, <2>2, <2>3, <2>4 DEF DiscardOutermost, Running
<1>9. CASE ClearMapKeepCounter
    BY <1>9 DEF ClearMapKeepCounter
<1> QED
    BY <1>1, <1>2, <1>3, <1>4, <1>5, <1>6, <1>7, <1>8, <1>9
       DEF Next, BeginStatement, BeginProbe

LEMMA NestNext ==
    ASSUME TypeOK, Discipline, FramesNest, [Next]_vars
    PROVE  FramesNest'
<1> USE DEF FramesNest
<1>1. CASE UNCHANGED vars
    BY <1>1 DEF vars
<1>2. ASSUME NEW level \in Level, FreshTyvarAt(level)
      PROVE  FramesNest'
  <2>1. \A i \in 1 .. Len(frames) : frames[i].next \in Nat
      BY FrameFields
  <2> QED
      BY <1>2, <2>1 DEF FreshTyvarAt, TypeOK
<1>3. ASSUME NEW v \in Allocated, NEW ty \in SUBSET Allocated, BindTy(v, ty)
      PROVE  FramesNest'
  <2>1. Len(journal) <= Len(journal') /\ Len(journal) \in Nat /\ Len(journal') \in Nat
    <3>1. v \in TyVar
        BY NumVarsAssumption DEF TypeOK, Allocated, TyVar
    <3>2. CASE active_checkpoints > 0
      <4>1. PICK S \in Ty : \E walk \in Walks(S) :
                journal' = Append(journal \o LevelEntries(walk), BindingEntryOf(v))
          BY <1>3, <3>1, <3>2, ApplyType DEF BindTy, LoweredVars, Ty
      <4> QED
          BY <3>1, <4>1, BindTyJournal DEF TypeOK
    <3>3. CASE ~(active_checkpoints > 0)
        BY <1>3, <3>3 DEF BindTy, TypeOK
    <3> QED
        BY <3>2, <3>3
  <2>2. \A i \in 1 .. Len(frames) : frames[i].journal_len \in Nat
      BY FrameFields
  <2> QED
      BY <1>3, <2>1, <2>2 DEF BindTy
<1>4. ASSUME NEW kind \in {"statement", "probe"}, Checkpoint(kind),
             kind = "statement" => frames = <<>>
      PROVE  FramesNest'
  <2>1. PICK n \in Nat : n = Len(frames)
      BY DEF TypeOK
  <2> DEFINE new == [kind |-> kind, journal_len |-> Len(journal), depth |-> active_checkpoints,
                     map |-> map, levels |-> levels, next |-> next_var]
  <2>2. /\ new.journal_len = Len(journal)
        /\ new.depth = n
        /\ new.next = next_var
        /\ new.kind = "statement" => n = 0
        /\ n = 0 => new.journal_len = 0
    <3>1. Len(<<>>) = 0 /\ (n = 0 => frames = <<>>)
        BY <2>1, EmptySeq DEF TypeOK
    <3> QED
        BY <1>4, <2>1, <3>1 DEF Discipline
  <2>3. frames' = Append(frames, new) /\ journal' = journal /\ next_var' = next_var
      BY <1>4 DEF Checkpoint
  <2> HIDE DEF new
  <2>4. /\ Len(frames') = n + 1
        /\ \A i \in 1 .. n : frames'[i] = frames[i]
        /\ frames'[n + 1] = new
      BY <2>1, <2>3 DEF TypeOK
  <2>5. \A i \in 1 .. (n + 1) :
          /\ frames'[i].journal_len <= Len(journal)
          /\ frames'[i].depth = i - 1
          /\ frames'[i].next <= next_var
          /\ frames'[i].kind = "statement" => i = 1
    <3>1. TAKE i \in 1 .. (n + 1)
    <3>2. CASE i \in 1 .. n
        BY <2>1, <2>4, <3>2
    <3>3. CASE i = n + 1
        BY <2>2, <2>4, <3>3 DEF TypeOK
    <3> QED
        BY <3>2, <3>3
  <2>6. \A i, j \in 1 .. (n + 1) : i <= j => frames'[i].journal_len <= frames'[j].journal_len
    <3>1. TAKE i, j \in 1 .. (n + 1)
    <3>2. HAVE i <= j
    <3>3. CASE j \in 1 .. n
        BY <2>1, <2>4, <3>2, <3>3
    <3>4. CASE j = n + 1
        BY <2>2, <2>4, <2>5, <3>4
    <3> QED
        BY <3>3, <3>4
  <2>7. frames'[1].journal_len = 0
    <3>1. CASE n = 0
        BY <2>2, <2>4, <3>1
    <3>2. CASE n >= 1
        BY <2>1, <2>4, <3>2
    <3> QED
        BY <3>1, <3>2
  <2> QED
      BY <2>3, <2>4, <2>5, <2>6, <2>7
<1>5. CASE RestoreBegin
    BY <1>5 DEF RestoreBegin
<1>6. CASE RestorePop
  <2>1. frames # <<>>
      BY <1>6 DEF RestorePop, Discipline
  <2>2. \A i \in 1 .. Len(frames) : frames[i].journal_len <= Len(journal) - 1
      BY <1>6, <2>1, TopFrame, FrameFields DEF RestorePop, TypeOK
  <2>3. PICK n \in Nat : n = Len(journal) /\ n >= 1
      BY <1>6, <2>1, TopFrame DEF RestorePop, TypeOK
  <2>4. Len(journal') = n - 1
      BY <1>6, <2>3 DEF RestorePop, PopJournal, TypeOK
  <2> QED
      BY <1>6, <2>2, <2>3, <2>4 DEF RestorePop
<1>7. CASE RestoreEnd
  <2>1. frames # <<>> /\ PopFrame /\ UNCHANGED <<journal, next_var>>
      BY <1>7 DEF RestoreEnd, Discipline
  <2>2. PICK n \in Nat : n = Len(frames) /\ n >= 1
      BY <2>1, TopFrame
  <2>3. /\ Len(frames') = n - 1
        /\ \A i \in 1 .. (n - 1) : frames'[i] = frames[i]
        /\ frames' # <<>> => n > 1
    <3>1. /\ Len(frames') = Len(frames) - 1
          /\ \A i \in 1 .. Len(frames') : frames'[i] = frames[i]
          /\ frames' = <<>> <=> Len(frames) <= 1
        BY <2>1, TypePopFrame
    <3> QED
        BY <2>2, <3>1
  <2>4. frames' # <<>> => frames'[1].journal_len = 0
      BY <2>1, <2>2, <2>3
  <2>5. \A i \in 1 .. Len(frames') : i \in 1 .. Len(frames) /\ frames'[i] = frames[i]
      BY <2>2, <2>3
  <2>6. \A i, j \in 1 .. Len(frames') :
          i <= j => frames'[i].journal_len <= frames'[j].journal_len
      BY <2>5
  <2> QED
      BY <2>1, <2>4, <2>5, <2>6
<1>8. CASE DiscardOutermost
  <2>1. frames' = <<>> \/ UNCHANGED <<frames, journal>>
      BY <1>8, TopFrame, TypePopFrame DEF DiscardOutermost
  <2>2. 1 .. Len(<<>>) = {}
      BY EmptySeq
  <2> QED
      BY <1>8, <2>1, <2>2 DEF DiscardOutermost
<1>9. CASE ClearMapKeepCounter
  <2>1. 1 .. Len(<<>>) = {}
      BY EmptySeq
  <2> QED
      BY <1>9, <2>1 DEF ClearMapKeepCounter
<1> QED
    BY <1>1, <1>2, <1>3, <1>4, <1>5, <1>6, <1>7, <1>8, <1>9
       DEF Next, BeginStatement, BeginProbe

-----------------------------------------------------------------------------
(* The journal: what a step does to what a rollback would bring back.      *)

\* A step that binds v with the journal on: every lowered variable leaves one
\* level entry, then v leaves its binding.
\* The length is a definition of its own: the provers do without it mostly.
IsLen(n, seq) == n = Len(seq)

JournalGrows(v, S, N, K) ==
    /\ IsLen(N + K + 1, journal')
    /\ \A k \in 1 .. N : journal'[k] = journal[k]
    /\ \A k \in (N + 1) .. (N + K) :
         /\ journal'[k].kind = "Level"
         /\ journal'[k].var \in S
         /\ journal'[k].level = levels[journal'[k].var]
    /\ \A x \in S : \E k \in (N + 1) .. (N + K) :
         /\ journal'[k].var = x
         /\ \A j \in (N + 1) .. (N + K) : journal'[j].var = x => j = k
    /\ journal'[N + K + 1].kind = "Binding"
    /\ journal'[N + K + 1].var = v
    /\ journal'[N + K + 1].ty = map[v]

LEMMA BindGrowsJournal ==
    ASSUME TypeOK, NEW v \in TyVar, NEW S \in Ty, NEW walk \in Walks(S),
           journal' = Append(journal \o LevelEntries(walk), BindingEntryOf(v)),
           NEW N \in Nat, IsLen(N, journal)
    PROVE  \E K \in Nat : JournalGrows(v, S, N, K)
<1>1. PICK K \in Nat : IsLen(K, walk)
    BY BindTyJournal DEF IsLen
<1>2. /\ IsLen(N + K + 1, journal')
      /\ \A k \in 1 .. N : journal'[k] = journal[k]
      /\ \A i \in 1 .. K : journal'[N + i] =
           [kind |-> "Level", var |-> walk[i], level |-> levels[walk[i]]]
      /\ journal'[N + K + 1] = BindingEntryOf(v)
    BY <1>1, BindTyJournal DEF IsLen
<1>4. /\ \A i \in 1 .. K : walk[i] \in S
      /\ \A x \in S : \E i \in 1 .. K :
           walk[i] = x /\ \A j \in 1 .. K : walk[j] = x => j = i
  <2>1. /\ \A i \in 1 .. Len(walk) : walk[i] \in S
        /\ \A x \in S : \E i \in 1 .. Len(walk) :
             walk[i] = x /\ \A j \in 1 .. Len(walk) : walk[j] = x => j = i
      BY WalkEntries
  <2> QED
      BY <1>1, <2>1 DEF IsLen
<1>5. ASSUME NEW k \in (N + 1) .. (N + K)
      PROVE  /\ k - N \in 1 .. K
             /\ journal'[k].kind = "Level"
             /\ journal'[k].var = walk[k - N]
             /\ journal'[k].level = levels[walk[k - N]]
  <2>1. PICK i \in 1 .. K : i = k - N
      BY <1>1
  <2>2. N + i = k
      BY <2>1
  <2>3. journal'[k] = [kind |-> "Level", var |-> walk[i], level |-> levels[walk[i]]]
      BY <1>2, <2>2
  <2> QED
      BY <2>1, <2>3
<1>6. \A x \in S : \E k \in (N + 1) .. (N + K) :
         /\ journal'[k].var = x
         /\ \A j \in (N + 1) .. (N + K) : journal'[j].var = x => j = k
  <2>1. TAKE x \in S
  <2>2. PICK i \in 1 .. K : walk[i] = x /\ \A j \in 1 .. K : walk[j] = x => j = i
      BY <1>4
  <2>3. N + i \in (N + 1) .. (N + K) /\ (N + i) - N = i
      BY <1>1
  <2>4. journal'[N + i].var = x
      BY <1>5, <2>2, <2>3
  <2>5. \A j \in (N + 1) .. (N + K) : journal'[j].var = x => j = N + i
    <3>1. TAKE j \in (N + 1) .. (N + K)
    <3>2. HAVE journal'[j].var = x
    <3>3. j - N \in 1 .. K /\ walk[j - N] = x
        BY <1>5, <3>2
    <3>4. j - N = i
        BY <2>2, <3>3
    <3> QED
        BY <1>1, <3>4
  <2> QED
      BY <2>3, <2>4, <2>5
<1>7. \A k \in (N + 1) .. (N + K) :
         /\ journal'[k].kind = "Level"
         /\ journal'[k].var \in S
         /\ journal'[k].level = levels[journal'[k].var]
    BY <1>4, <1>5
<1>8. /\ journal'[N + K + 1].kind = "Binding"
      /\ journal'[N + K + 1].var = v
      /\ journal'[N + K + 1].ty = map[v]
  <2>1. journal'[N + K + 1] = BindingEntryOf(v)
      BY <1>2
  <2>2. PICK entry : entry = journal'[N + K + 1]
      OBVIOUS
  <2>3. entry.kind = "Binding" /\ entry.var = v /\ entry.ty = map[v]
      BY <2>1, <2>2 DEF BindingEntryOf
  <2> QED
      BY <2>2, <2>3
<1> QED
    BY Zenon, <1>2, <1>6, <1>7, <1>8 DEF JournalGrows

LEMMA BindKeepsBinding ==
    ASSUME TypeOK, NEW v \in TyVar, NEW S \in Ty,
           NEW N \in Nat, IsLen(N, journal), NEW K \in Nat, JournalGrows(v, S, N, K),
           NEW applied, map' = [map EXCEPT ![v] = applied],
           NEW n \in Nat, n <= N,
           NEW w \in TyVar, NEW old, PopsToBinding(n, w, old)
    PROVE  PopsToBinding(n, w, old)'
<1>3. /\ IsLen(N + K + 1, journal')
      /\ \A k \in 1 .. N : journal'[k] = journal[k]
    BY DEF JournalGrows
<1>4. \A k \in (N + 1) .. (N + K) : journal'[k].kind = "Level"
    BY DEF JournalGrows
<1>5. /\ journal'[N + K + 1].kind = "Binding"
      /\ journal'[N + K + 1].var = v
      /\ journal'[N + K + 1].ty = map[v]
    BY DEF JournalGrows
<1>6. CASE \E k \in (n + 1) .. N :
             /\ IsBindingOf(k, w)
             /\ journal[k].ty = old
             /\ \A j \in (n + 1) .. (k - 1) : ~IsBindingOf(j, w)
  <2>1. PICK k \in (n + 1) .. N :
             /\ IsBindingOf(k, w)
             /\ journal[k].ty = old
             /\ \A j \in (n + 1) .. (k - 1) : ~IsBindingOf(j, w)
      BY <1>6
  <2>2. /\ k \in (n + 1) .. (N + K + 1)
        /\ IsBindingOf(k, w)'
        /\ journal'[k].ty = old
        /\ \A j \in (n + 1) .. (k - 1) : ~IsBindingOf(j, w)'
      BY <1>3, <2>1 DEF IsBindingOf
  <2> QED
      BY <1>3, <2>2 DEF PopsToBinding, IsLen
<1>7. CASE /\ \A k \in (n + 1) .. N : ~IsBindingOf(k, w)
           /\ map[w] = old
  <2>1. \A k \in (n + 1) .. (N + K) : ~IsBindingOf(k, w)'
    <3>1. TAKE k \in (n + 1) .. (N + K)
    <3>2. CASE k <= N
        BY <1>3, <1>7, <3>2 DEF IsBindingOf
    <3>3. CASE k > N
        BY <1>4, <3>3 DEF IsBindingOf
    <3> QED
        BY <3>2, <3>3
  <2>2. CASE w = v
    <3>1. /\ N + K + 1 \in (n + 1) .. (N + K + 1)
          /\ IsBindingOf(N + K + 1, w)'
          /\ journal'[N + K + 1].ty = old
        BY <1>3, <1>5, <1>7, <2>2 DEF IsBindingOf
    <3>2. (N + K + 1) - 1 = N + K
        OBVIOUS
    <3> QED
        BY <1>3, <2>1, <3>1, <3>2 DEF PopsToBinding, IsLen
  <2>3. CASE w # v
    <3>1. map'[w] = old
        BY <1>7, <2>3 DEF TypeOK
    <3>2. ~IsBindingOf(N + K + 1, w)'
        BY <1>5, <2>3 DEF IsBindingOf
    <3>3. \A k \in (n + 1) .. (N + K + 1) : ~IsBindingOf(k, w)'
        BY <1>3, <2>1, <3>2
    <3> QED
        BY <1>3, <3>1, <3>3 DEF PopsToBinding, IsLen
  <2> QED
      BY <2>2, <2>3
<1> QED
    BY <1>6, <1>7 DEF PopsToBinding, IsLen

LEMMA BindKeepsLevel ==
    ASSUME TypeOK, NEW v \in TyVar, NEW touched, NEW target \in Level,
           NEW S \in Ty, S = LoweredVars(levels, touched, target),
           NEW N \in Nat, IsLen(N, journal), NEW K \in Nat, JournalGrows(v, S, N, K),
           levels' = LowerLevels(levels, touched, target),
           NEW n \in Nat, n <= N,
           NEW w \in TyVar, NEW old, PopsToLevel(n, w, old)
    PROVE  PopsToLevel(n, w, old)'
<1>3. /\ IsLen(N + K + 1, journal')
      /\ \A k \in 1 .. N : journal'[k] = journal[k]
    BY DEF JournalGrows
<1>5. journal'[N + K + 1].kind = "Binding"
    BY DEF JournalGrows
<1>6. \A k \in (N + 1) .. (N + K) :
         /\ journal'[k].kind = "Level"
         /\ journal'[k].var \in S
         /\ journal'[k].level = levels[journal'[k].var]
    BY DEF JournalGrows
<1>7. CASE \E k \in (n + 1) .. N :
             /\ IsLevelOf(k, w)
             /\ journal[k].level = old
             /\ \A j \in (n + 1) .. (k - 1) : ~IsLevelOf(j, w)
  <2>1. PICK k \in (n + 1) .. N :
             /\ IsLevelOf(k, w)
             /\ journal[k].level = old
             /\ \A j \in (n + 1) .. (k - 1) : ~IsLevelOf(j, w)
      BY <1>7
  <2>2. /\ k \in (n + 1) .. (N + K + 1)
        /\ IsLevelOf(k, w)'
        /\ journal'[k].level = old
        /\ \A j \in (n + 1) .. (k - 1) : ~IsLevelOf(j, w)'
      BY <1>3, <2>1 DEF IsLevelOf
  <2> QED
      BY <1>3, <2>2 DEF PopsToLevel, IsLen
<1>8. CASE /\ \A k \in (n + 1) .. N : ~IsLevelOf(k, w)
           /\ levels[w] = old
  <2>1. \A k \in (n + 1) .. N : ~IsLevelOf(k, w)'
      BY <1>3, <1>8 DEF IsLevelOf
  <2>2. CASE w \in S
    <3>1. PICK i \in (N + 1) .. (N + K) :
             /\ journal'[i].var = w
             /\ \A j \in (N + 1) .. (N + K) : journal'[j].var = w => j = i
        BY <2>2 DEF JournalGrows
    <3>2. /\ i \in (n + 1) .. (N + K + 1)
          /\ IsLevelOf(i, w)'
          /\ journal'[i].level = old
        BY <1>3, <1>6, <1>8, <3>1 DEF IsLevelOf
    <3>3. \A k \in (n + 1) .. (i - 1) : ~IsLevelOf(k, w)'
      <4>1. TAKE k \in (n + 1) .. (i - 1)
      <4>2. CASE k <= N
          BY <2>1, <4>2
      <4>3. CASE k > N
        <5>1. k \in (N + 1) .. (N + K) /\ k # i
            BY <3>1, <4>3
        <5> QED
            BY <3>1, <5>1 DEF IsLevelOf
      <4> QED
          BY <4>2, <4>3
    <3> QED
        BY <1>3, <3>2, <3>3 DEF PopsToLevel, IsLen
  <2>3. CASE w \notin S
    <3>1. levels'[w] = old
        BY <1>8, <2>3 DEF LowerLevels
    <3>2. \A k \in (N + 1) .. (N + K) : ~IsLevelOf(k, w)'
        BY <1>6, <2>3 DEF IsLevelOf
    <3>3. ~IsLevelOf(N + K + 1, w)'
        BY <1>5 DEF IsLevelOf
    <3>4. \A k \in (n + 1) .. (N + K + 1) : ~IsLevelOf(k, w)'
        BY <1>3, <2>1, <3>2, <3>3
    <3> QED
        BY <1>3, <3>1, <3>4 DEF PopsToLevel, IsLen
  <2> QED
      BY <2>2, <2>3
<1> QED
    BY <1>7, <1>8 DEF PopsToLevel, IsLen

\* A step of the rollback loop takes the youngest entry off the journal.
LEMMA PopKeepsBinding ==
    ASSUME TypeOK, NEW N \in Nat, IsLen(N, journal), N >= 1,
           IsLen(N - 1, journal'), \A k \in 1 .. (N - 1) : journal'[k] = journal[k],
           \/ /\ journal[N].kind = "Binding"
              /\ journal[N].var \in TyVar
              /\ map' = [map EXCEPT ![journal[N].var] = journal[N].ty]
           \/ journal[N].kind # "Binding" /\ map' = map,
           NEW n \in Nat, n < N,
           NEW w \in TyVar, NEW old, PopsToBinding(n, w, old)
    PROVE  PopsToBinding(n, w, old)'
<1>1. CASE /\ \A k \in (n + 1) .. N : ~IsBindingOf(k, w)
           /\ map[w] = old
  <2>1. /\ \A k \in (n + 1) .. (N - 1) : ~IsBindingOf(k, w)'
        /\ map'[w] = old
      BY <1>1 DEF IsBindingOf, TypeOK
  <2> QED
      BY <2>1 DEF PopsToBinding, IsLen
<1>2. ASSUME NEW k \in (n + 1) .. N,
             IsBindingOf(k, w), journal[k].ty = old,
             \A j \in (n + 1) .. (k - 1) : ~IsBindingOf(j, w)
      PROVE  PopsToBinding(n, w, old)'
  <2>1. \A j \in (n + 1) .. (k - 1) : ~IsBindingOf(j, w)'
      BY <1>2 DEF IsBindingOf
  <2>2. CASE k < N
    <3>1. /\ k \in (n + 1) .. (N - 1)
          /\ IsBindingOf(k, w)'
          /\ journal'[k].ty = old
        BY <1>2, <2>2 DEF IsBindingOf
    <3> QED
        BY <2>1, <3>1 DEF PopsToBinding, IsLen
  <2>3. CASE k = N
    <3>1. map'[w] = old
        BY <1>2, <2>3 DEF IsBindingOf, TypeOK
    <3> QED
        BY <2>1, <2>3, <3>1 DEF PopsToBinding, IsLen
  <2> QED
      BY <2>2, <2>3
<1> QED
    BY <1>1, <1>2 DEF PopsToBinding, IsLen

LEMMA PopKeepsLevel ==
    ASSUME TypeOK, NEW N \in Nat, IsLen(N, journal), N >= 1,
           IsLen(N - 1, journal'), \A k \in 1 .. (N - 1) : journal'[k] = journal[k],
           \/ /\ journal[N].kind = "Level"
              /\ journal[N].var \in TyVar
              /\ levels' = [levels EXCEPT ![journal[N].var] = journal[N].level]
           \/ journal[N].kind # "Level" /\ levels' = levels,
           NEW n \in Nat, n < N,
           NEW w \in TyVar, NEW old, PopsToLevel(n, w, old)
    PROVE  PopsToLevel(n, w, old)'
<1>1. CASE /\ \A k \in (n + 1) .. N : ~IsLevelOf(k, w)
           /\ levels[w] = old
  <2>1. /\ \A k \in (n + 1) .. (N - 1) : ~IsLevelOf(k, w)'
        /\ levels'[w] = old
      BY <1>1 DEF IsLevelOf, TypeOK
  <2> QED
      BY <2>1 DEF PopsToLevel, IsLen
<1>2. ASSUME NEW k \in (n + 1) .. N,
             IsLevelOf(k, w), journal[k].level = old,
             \A j \in (n + 1) .. (k - 1) : ~IsLevelOf(j, w)
      PROVE  PopsToLevel(n, w, old)'
  <2>1. \A j \in (n + 1) .. (k - 1) : ~IsLevelOf(j, w)'
      BY <1>2 DEF IsLevelOf
  <2>2. CASE k < N
    <3>1. /\ k \in (n + 1) .. (N - 1)
          /\ IsLevelOf(k, w)'
          /\ journal'[k].level = old
        BY <1>2, <2>2 DEF IsLevelOf
    <3> QED
        BY <2>1, <3>1 DEF PopsToLevel, IsLen
  <2>3. CASE k = N
    <3>1. levels'[w] = old
        BY <1>2, <2>3 DEF IsLevelOf, TypeOK
    <3> QED
        BY <2>1, <2>3, <3>1 DEF PopsToLevel, IsLen
  <2> QED
      BY <2>2, <2>3
<1> QED
    BY <1>1, <1>2 DEF PopsToLevel, IsLen

\* What a BindTy step is, with the journal on and with it off.
LEMMA BindStep ==
    ASSUME TypeOK, NEW v \in Allocated, NEW ty \in SUBSET Allocated, BindTy(v, ty),
           NEW N \in Nat, IsLen(N, journal)
    PROVE  /\ v \in TyVar
           /\ map[v] = Unbound
           /\ \E applied \in Ty :
                /\ map' = [map EXCEPT ![v] = applied]
                /\ applied \intersect BoundVars(map) = {}
                /\ v \notin applied
                /\ active_checkpoints > 0 =>
                     \E target \in Level, S \in Ty, K \in Nat :
                        /\ S = LoweredVars(levels, applied \union {v}, target)
                        /\ levels' = LowerLevels(levels, applied \union {v}, target)
                        /\ JournalGrows(v, S, N, K)
           /\ active_checkpoints <= 0 => journal' = journal
<1> DEFINE applied == Apply(map, ty)
           touched == applied \union {v}
<1>1. v \in TyVar
    BY NumVarsAssumption DEF TypeOK, Allocated, TyVar
<1>2. map[v] = Unbound
    BY <1>1 DEF BindTy, BoundVars
<1>3. applied \in Ty /\ touched \in Ty /\ applied \intersect BoundVars(map) = {}
    BY <1>1, ApplyType DEF Ty
<1>4. map' = [map EXCEPT ![v] = applied] /\ v \notin applied
    BY DEF BindTy, PassesOccursCheck
<1>5. ASSUME active_checkpoints > 0
      PROVE  \E target \in Level, S \in Ty, K \in Nat :
                /\ S = LoweredVars(levels, touched, target)
                /\ levels' = LowerLevels(levels, touched, target)
                /\ JournalGrows(v, S, N, K)
  <2>1. PICK target \in Level :
          /\ levels' = LowerLevels(levels, touched, target)
          /\ \E walk \in Walks(LoweredVars(levels, touched, target)) :
               journal' = Append(journal \o LevelEntries(walk), BindingEntryOf(v))
      BY <1>5 DEF BindTy
  <2>2. PICK S \in Ty : S = LoweredVars(levels, touched, target)
      BY <1>3 DEF LoweredVars, Ty
  <2>3. PICK K \in Nat : JournalGrows(v, S, N, K)
      BY <1>1, <2>1, <2>2, BindGrowsJournal
  <2> QED
      BY <2>1, <2>2, <2>3
<1>6. active_checkpoints <= 0 => journal' = journal
    BY DEF BindTy, TypeOK
<1> HIDE DEF applied
<1> QED
    BY <1>1, <1>2, <1>3, <1>4, <1>5, <1>6

LEMMA PopStep ==
    ASSUME TypeOK, Discipline, FramesNest, RestorePop,
           NEW N \in Nat, IsLen(N, journal)
    PROVE  /\ frames # <<>>
           /\ N >= 1
           /\ \A i \in 1 .. Len(frames) : frames[i].journal_len < N
           /\ journal' \in Seq(JournalEntry)
           /\ IsLen(N - 1, journal')
           /\ \A k \in 1 .. (N - 1) : journal'[k] = journal[k]
           /\ journal[N] \in JournalEntry
           /\ UndoBinding(journal[N]) \/ UndoLevel(journal[N])
<1>1. frames # <<>>
    BY DEF RestorePop, Discipline
<1>2. N >= 1 /\ \A i \in 1 .. Len(frames) : frames[i].journal_len < N
    BY <1>1, TopFrame, FrameFields DEF RestorePop, IsLen
<1>3. journal' = SubSeq(journal, 1, N - 1)
    BY DEF RestorePop, PopJournal, IsLen
<1>4. /\ journal' \in Seq(JournalEntry)
      /\ N - 1 = Len(journal')
      /\ \A k \in 1 .. (N - 1) : journal'[k] = journal[k]
    BY <1>2, <1>3 DEF IsLen, TypeOK
<1>5. journal[N] \in JournalEntry
    BY <1>2 DEF IsLen, TypeOK
<1>6. UndoBinding(journal[N]) \/ UndoLevel(journal[N])
    BY DEF RestorePop, IsLen
<1> QED
    BY <1>1, <1>2, <1>4, <1>5, <1>6 DEF IsLen

LEMMA UnsolvedNext ==
    ASSUME TypeOK, Discipline, FramesNest, OnlyUnsolvedBound, [Next]_vars
    PROVE  OnlyUnsolvedBound'
<1> USE DEF OnlyUnsolvedBound
<1>1. PICK N \in Nat : IsLen(N, journal)
    BY DEF IsLen, TypeOK
<1>2. \A k \in 1 .. N : journal[k].kind = "Binding" => journal[k].ty = Unbound
    BY <1>1 DEF IsLen
<1>3. CASE UNCHANGED journal
    BY <1>3
<1>4. ASSUME NEW v \in Allocated, NEW ty \in SUBSET Allocated, BindTy(v, ty)
      PROVE  OnlyUnsolvedBound'
  <2>1. CASE active_checkpoints <= 0
      BY <1>1, <1>3, <1>4, <2>1, BindStep
  <2>2. CASE active_checkpoints > 0
    <3>1. PICK S \in Ty, K \in Nat : JournalGrows(v, S, N, K)
        BY <1>1, <1>4, <2>2, BindStep
    <3>2. map[v] = Unbound
        BY <1>1, <1>4, BindStep
    <3>3. ASSUME NEW k \in 1 .. (N + K + 1), journal'[k].kind = "Binding"
          PROVE  journal'[k].ty = Unbound
      <4>1. CASE k <= N
          BY <1>2, <3>1, <3>3, <4>1 DEF JournalGrows
      <4>2. CASE k > N /\ k <= N + K
          BY <3>1, <3>3, <4>2 DEF JournalGrows
      <4>3. CASE k = N + K + 1
          BY <3>1, <3>2, <4>3 DEF JournalGrows
      <4> QED
          BY <4>1, <4>2, <4>3
    <3> QED
        BY <3>1, <3>3 DEF JournalGrows, IsLen
  <2> QED
      BY <2>1, <2>2 DEF TypeOK
<1>5. CASE RestorePop
    BY <1>1, <1>2, <1>5, PopStep DEF IsLen
<1>6. CASE journal' = <<>>
  <2>1. 1 .. Len(<<>>) = {}
      BY EmptySeq
  <2> QED
      BY <1>6, <2>1
<1> QED
    BY <1>3, <1>4, <1>5, <1>6
       DEF Next, vars, FreshTyvarAt, BeginStatement, BeginProbe, Checkpoint,
           RestoreBegin, RestoreEnd, DiscardOutermost, ClearMapKeepCounter

LEMMA NoFrames ==
    ASSUME frames' = <<>>
    PROVE  FramesRestorable'
<1>1. 1 .. Len(<<>>) = {}
    BY EmptySeq
<1> QED
    BY <1>1 DEF FramesRestorable

\* A frame that stays is as restorable as before when nothing else moves.
LEMMA SameFrame ==
    ASSUME FramesRestorable, UNCHANGED <<map, levels, journal>>,
           NEW i \in 1 .. Len(frames), frames'[i] = frames[i]
    PROVE  /\ \A w \in TyVar : PopsToBinding(frames[i].journal_len, w, frames[i].map[w])'
           /\ \A w \in 0 .. (frames'[i].next - 1) :
                PopsToLevel(frames[i].journal_len, w, frames[i].levels[w])'
<1>1. ASSUME NEW w \in TyVar
      PROVE  PopsToBinding(frames[i].journal_len, w, frames[i].map[w])'
  <2>1. PICK m, o : m = frames[i].journal_len /\ o = frames[i].map[w]
      OBVIOUS
  <2>2. PopsToBinding(m, w, o)
      BY <2>1 DEF FramesRestorable
  <2>3. PopsToBinding(m, w, o)'
      BY <2>2 DEF PopsToBinding, IsBindingOf
  <2> QED
      BY <2>1, <2>3 DEF PopsToBinding
<1>2. ASSUME NEW w \in 0 .. (frames[i].next - 1)
      PROVE  PopsToLevel(frames[i].journal_len, w, frames[i].levels[w])'
  <2>1. PICK m, o : m = frames[i].journal_len /\ o = frames[i].levels[w]
      OBVIOUS
  <2>2. PopsToLevel(m, w, o)
      BY <2>1 DEF FramesRestorable
  <2>3. PopsToLevel(m, w, o)'
      BY <2>2 DEF PopsToLevel, IsLevelOf
  <2> QED
      BY <2>1, <2>3 DEF PopsToLevel
<1> QED
    BY <1>1, <1>2

LEMMA FewerFrames ==
    ASSUME TypeOK, FramesRestorable, frames # <<>>, PopFrame, UNCHANGED <<map, levels, journal>>
    PROVE  FramesRestorable'
<1>1. PICK n \in Nat : n = Len(frames)
    BY DEF TypeOK
<1>2. \A i \in 1 .. Len(frames') : i \in 1 .. Len(frames) /\ frames'[i] = frames[i]
    BY <1>1, TypePopFrame
<1> QED
    BY <1>2, SameFrame DEF FramesRestorable

\* Only variables a checkpoint has seen have a level to bring back.
LEMMA FrameVariables ==
    ASSUME TypeOK, FramesNest, NEW i \in 1 .. Len(frames),
           NEW w \in 0 .. (frames[i].next - 1)
    PROVE  w \in TyVar /\ w < next_var
<1>1. frames[i].next \in 0 .. NumVars /\ frames[i].next <= next_var /\ next_var \in 0 .. NumVars
    BY FrameFields DEF FramesNest, TypeOK
<1> QED
    BY <1>1, NumVarsAssumption DEF TyVar

LEMMA RestorableNext ==
    ASSUME TypeOK, Discipline, FramesNest, FramesRestorable, [Next]_vars
    PROVE  FramesRestorable'
<1>1. PICK N \in Nat : IsLen(N, journal)
    BY DEF IsLen, TypeOK
<1>2. \A i \in 1 .. Len(frames) : frames[i].journal_len \in Nat /\ frames[i].journal_len <= N
    BY <1>1, FrameFields DEF IsLen, FramesNest
<1>3. CASE UNCHANGED <<map, levels, journal, frames>>
    BY <1>3, SameFrame DEF FramesRestorable
<1>4. ASSUME NEW level \in Level, FreshTyvarAt(level)
      PROVE  FramesRestorable'
  <2>1. UNCHANGED <<map, journal, frames>> /\ levels' = [levels EXCEPT ![next_var] = level]
      BY <1>4 DEF FreshTyvarAt
  <2>2. ASSUME NEW i \in 1 .. Len(frames), NEW w \in TyVar
        PROVE  PopsToBinding(frames[i].journal_len, w, frames[i].map[w])'
    <3>1. PICK m, o : m = frames[i].journal_len /\ o = frames[i].map[w]
        OBVIOUS
    <3>2. PopsToBinding(m, w, o)
        BY <3>1 DEF FramesRestorable
    <3>3. PopsToBinding(m, w, o)'
        BY <2>1, <3>2 DEF PopsToBinding, IsBindingOf
    <3> QED
        BY <2>1, <3>1, <3>3 DEF PopsToBinding
  <2>3. ASSUME NEW i \in 1 .. Len(frames), NEW w \in 0 .. (frames[i].next - 1)
        PROVE  PopsToLevel(frames[i].journal_len, w, frames[i].levels[w])'
    <3>1. levels'[w] = levels[w]
      <4>1. w \in TyVar /\ w < next_var
          BY FrameVariables
      <4>2. w # next_var
          BY <4>1 DEF TyVar, TypeOK
      <4> QED
          BY <2>1, <4>1, <4>2 DEF TypeOK
    <3>2. PICK m, o : m = frames[i].journal_len /\ o = frames[i].levels[w]
        OBVIOUS
    <3>3. PopsToLevel(m, w, o)
        BY <3>2 DEF FramesRestorable
    <3>4. PopsToLevel(m, w, o)'
        BY <2>1, <3>1, <3>3 DEF PopsToLevel, IsLevelOf
    <3> QED
        BY <2>1, <3>2, <3>4 DEF PopsToLevel
  <2> QED
      BY <2>1, <2>2, <2>3 DEF FramesRestorable
<1>5. ASSUME NEW v \in Allocated, NEW ty \in SUBSET Allocated, BindTy(v, ty)
      PROVE  FramesRestorable'
  <2>1. UNCHANGED frames
      BY <1>5 DEF BindTy
  <2>2. CASE active_checkpoints <= 0
    <3>1. 1 .. Len(frames) = {}
        BY <2>2 DEF Discipline, TypeOK
    <3> QED
        BY <2>1, <3>1 DEF FramesRestorable
  <2>3. CASE active_checkpoints > 0
    <3>1. PICK applied \in Ty, target \in Level, S \in Ty, K \in Nat :
            /\ map' = [map EXCEPT ![v] = applied]
            /\ S = LoweredVars(levels, applied \union {v}, target)
            /\ levels' = LowerLevels(levels, applied \union {v}, target)
            /\ JournalGrows(v, S, N, K)
        BY <1>1, <1>5, <2>3, BindStep
    <3>2. v \in TyVar
        BY <1>1, <1>5, BindStep
    <3>3. ASSUME NEW i \in 1 .. Len(frames), NEW w \in TyVar
          PROVE  PopsToBinding(frames[i].journal_len, w, frames[i].map[w])'
      <4>1. PICK m, o :
              m \in Nat /\ m <= N /\ m = frames[i].journal_len /\ o = frames[i].map[w]
          BY <1>2
      <4>2. PopsToBinding(m, w, o)
          BY <4>1 DEF FramesRestorable
      <4>3. PopsToBinding(m, w, o)'
          BY <1>1, <3>1, <3>2, <4>1, <4>2, BindKeepsBinding
      <4> QED
          BY <2>1, <4>1, <4>3 DEF PopsToBinding
    <3>4. ASSUME NEW i \in 1 .. Len(frames), NEW w \in 0 .. (frames[i].next - 1)
          PROVE  PopsToLevel(frames[i].journal_len, w, frames[i].levels[w])'
      <4>1. PICK m, o :
              m \in Nat /\ m <= N /\ m = frames[i].journal_len /\ o = frames[i].levels[w]
          BY <1>2
      <4>2. PopsToLevel(m, w, o) /\ w \in TyVar
          BY <4>1, FrameVariables DEF FramesRestorable
      <4>3. PopsToLevel(m, w, o)'
        <5>1. applied \union {v} \in Ty
            BY <3>2 DEF Ty
        <5> QED
            BY <1>1, <3>1, <3>2, <4>1, <4>2, <5>1, BindKeepsLevel
      <4> QED
          BY <2>1, <4>1, <4>3 DEF PopsToLevel
    <3> QED
        BY <2>1, <3>3, <3>4 DEF FramesRestorable
  <2> QED
      BY <2>2, <2>3 DEF TypeOK
<1>6. ASSUME NEW kind \in {"statement", "probe"}, Checkpoint(kind)
      PROVE  FramesRestorable'
  <2>1. PICK n \in Nat : n = Len(frames)
      BY DEF TypeOK
  <2> DEFINE new == [kind |-> kind, journal_len |-> Len(journal), depth |-> active_checkpoints,
                     map |-> map, levels |-> levels, next |-> next_var]
  <2>2. new.journal_len = N /\ new.map = map /\ new.levels = levels /\ new.next = next_var
      BY <1>1 DEF IsLen
  <2>3. frames' = Append(frames, new) /\ UNCHANGED <<map, levels, journal>>
      BY <1>6 DEF Checkpoint
  <2> HIDE DEF new
  <2>4. /\ Len(frames') = n + 1
        /\ \A i \in 1 .. n : frames'[i] = frames[i]
        /\ frames'[n + 1] = new
      BY <2>1, <2>3 DEF TypeOK
  <2>5. ASSUME NEW i \in 1 .. Len(frames')
        PROVE  /\ \A w \in TyVar : PopsToBinding(frames[i].journal_len, w, frames[i].map[w])'
               /\ \A w \in 0 .. (frames'[i].next - 1) :
                    PopsToLevel(frames[i].journal_len, w, frames[i].levels[w])'
    <3>1. CASE i <= n
      <4>1. i \in 1 .. Len(frames) /\ frames'[i] = frames[i]
          BY <2>1, <2>4, <2>5, <3>1
      <4> QED
          BY <2>3, <4>1, SameFrame
    <3>2. CASE i = n + 1
      <4>1. frames'[i] = new /\ (N + 1) .. Len(journal) = {}
          BY <1>1, <2>4, <3>2 DEF IsLen
      <4> QED
          BY <2>2, <2>3, <4>1 DEF PopsToBinding, PopsToLevel
    <3> QED
        BY <2>4, <2>5, <3>1, <3>2
  <2> QED
      BY <2>5 DEF FramesRestorable
<1>7. CASE RestorePop
  <2>1. /\ N >= 1
        /\ \A i \in 1 .. Len(frames) : frames[i].journal_len < N
        /\ IsLen(N - 1, journal')
        /\ \A k \in 1 .. (N - 1) : journal'[k] = journal[k]
        /\ journal[N] \in JournalEntry
        /\ UndoBinding(journal[N]) \/ UndoLevel(journal[N])
      BY <1>1, <1>7, PopStep
  <2>2. \/ /\ journal[N].kind = "Binding"
           /\ journal[N].var \in TyVar
           /\ map' = [map EXCEPT ![journal[N].var] = journal[N].ty]
        \/ journal[N].kind # "Binding" /\ map' = map
      BY <2>1 DEF UndoBinding, UndoLevel, JournalEntry, BindingEntry, LevelEntry
  <2>3. \/ /\ journal[N].kind = "Level"
           /\ journal[N].var \in TyVar
           /\ levels' = [levels EXCEPT ![journal[N].var] = journal[N].level]
        \/ journal[N].kind # "Level" /\ levels' = levels
      BY <2>1 DEF UndoBinding, UndoLevel, JournalEntry, BindingEntry, LevelEntry
  <2>4. \A m, w, o :
          m \in Nat /\ w \in TyVar /\ m < N /\ PopsToBinding(m, w, o) => PopsToBinding(m, w, o)'
      BY <1>1, <2>1, <2>2, PopKeepsBinding
  <2>5. \A m, w, o :
          m \in Nat /\ w \in TyVar /\ m < N /\ PopsToLevel(m, w, o) => PopsToLevel(m, w, o)'
      BY <1>1, <2>1, <2>3, PopKeepsLevel
  <2>6. UNCHANGED frames
      BY <1>7 DEF RestorePop
  <2>7. ASSUME NEW i \in 1 .. Len(frames), NEW w \in TyVar
        PROVE  PopsToBinding(frames[i].journal_len, w, frames[i].map[w])'
    <3>1. PICK m, o :
            m \in Nat /\ m < N /\ m = frames[i].journal_len /\ o = frames[i].map[w]
        BY <1>2, <2>1
    <3>2. PopsToBinding(m, w, o)
        BY <3>1 DEF FramesRestorable
    <3>3. PopsToBinding(m, w, o)'
        BY <2>4, <3>1, <3>2
    <3> QED
        BY <2>6, <3>1, <3>3 DEF PopsToBinding
  <2>8. ASSUME NEW i \in 1 .. Len(frames), NEW w \in 0 .. (frames[i].next - 1)
        PROVE  PopsToLevel(frames[i].journal_len, w, frames[i].levels[w])'
    <3>1. PICK m, o :
            m \in Nat /\ m < N /\ m = frames[i].journal_len /\ o = frames[i].levels[w]
        BY <1>2, <2>1
    <3>2. PopsToLevel(m, w, o) /\ w \in TyVar
        BY <3>1, FrameVariables DEF FramesRestorable
    <3>3. PopsToLevel(m, w, o)'
        BY <2>5, <3>1, <3>2
    <3> QED
        BY <2>6, <3>1, <3>3 DEF PopsToLevel
  <2> QED
      BY <2>6, <2>7, <2>8 DEF FramesRestorable
<1>8. CASE RestoreEnd
    BY <1>8, FewerFrames DEF RestoreEnd, Discipline
<1>9. CASE DiscardOutermost
  <2>1. frames' = <<>> \/ UNCHANGED <<map, levels, journal, frames>>
      BY <1>9, TopFrame, TypePopFrame DEF DiscardOutermost
  <2> QED
      BY <1>3, <2>1, NoFrames
<1>10. CASE ClearMapKeepCounter
    BY <1>10, NoFrames DEF ClearMapKeepCounter
<1> QED
    BY <1>3, <1>4, <1>5, <1>6, <1>7, <1>8, <1>9, <1>10
       DEF Next, vars, BeginStatement, BeginProbe, RestoreBegin

-----------------------------------------------------------------------------
(* The map is well founded, hence acyclic.                                 *)

LEMMA WellFoundedNext ==
    ASSUME TypeOK, Discipline, FramesNest, OnlyUnsolvedBound, WellFounded(map), [Next]_vars
    PROVE  WellFounded(map)'
<1>1. PICK N \in Nat : IsLen(N, journal)
    BY DEF IsLen, TypeOK
<1>2. CASE UNCHANGED map
    BY <1>2 DEF WellFounded, BoundVars
<1>3. ASSUME NEW v \in Allocated, NEW ty \in SUBSET Allocated, BindTy(v, ty)
      PROVE  WellFounded(map)'
  <2>1. PICK applied \in Ty : /\ map' = [map EXCEPT ![v] = applied]
                              /\ applied \intersect BoundVars(map) = {}
                              /\ v \notin applied
      BY <1>1, <1>3, BindStep
  <2>2. SUFFICES ASSUME NEW S \in SUBSET BoundVars(map'), S # {}
                 PROVE  \E w \in S : map'[w] \intersect S = {}
      BY DEF WellFounded, BoundVars
  <2>3. v \in TyVar /\ map'[v] = applied
      BY <1>1, <1>3, <2>1, BindStep DEF TypeOK
  <2>4. BoundVars(map') \subseteq BoundVars(map) \union {v}
      BY <2>1, <2>3 DEF BoundVars, TypeOK
  <2>5. CASE v \in S
      BY <2>1, <2>3, <2>4, <2>5
  <2>6. CASE v \notin S
    <3>1. S \in SUBSET BoundVars(map)
        BY <2>4, <2>6
    <3>2. PICK w \in S : map[w] \intersect S = {}
        BY <2>2, <3>1 DEF WellFounded
    <3>3. map'[w] = map[w]
        BY <2>1, <2>6, <3>1, <3>2 DEF TypeOK, BoundVars
    <3> QED
        BY <3>2, <3>3
  <2> QED
      BY <2>5, <2>6
<1>4. CASE RestorePop
  <2>1. CASE UndoLevel(journal[N])
      BY <1>2, <2>1 DEF UndoLevel
  <2>2. CASE UndoBinding(journal[N])
    <3>1. journal[N].kind = "Binding" /\ journal[N] \in JournalEntry /\ N >= 1
        BY <1>1, <1>4, <2>2, PopStep DEF UndoBinding
    <3>2. journal[N].var \in TyVar /\ journal[N].ty = Unbound
        BY <1>1, <3>1 DEF OnlyUnsolvedBound, IsLen, JournalEntry, BindingEntry, LevelEntry
    <3>3. map' = [map EXCEPT ![journal[N].var] = Unbound]
        BY <2>2, <3>2 DEF UndoBinding
    <3>4. BoundVars(map') \subseteq BoundVars(map)
        BY <3>2, <3>3 DEF BoundVars, TypeOK
    <3>5. \A w \in BoundVars(map') : map'[w] = map[w]
        BY <3>2, <3>3 DEF BoundVars, TypeOK
    <3>6. SUFFICES ASSUME NEW S \in SUBSET BoundVars(map'), S # {}
                   PROVE  \E w \in S : map'[w] \intersect S = {}
        BY DEF WellFounded, BoundVars
    <3> QED
        BY <3>4, <3>5, <3>6 DEF WellFounded
  <2> QED
      BY <1>1, <1>4, <2>1, <2>2, PopStep
<1>5. CASE ClearMapKeepCounter
  <2>1. BoundVars(map') = {}
      BY <1>5 DEF ClearMapKeepCounter, BoundVars
  <2> QED
      BY <2>1 DEF WellFounded, BoundVars
<1> QED
    BY <1>2, <1>3, <1>4, <1>5
       DEF Next, vars, FreshTyvarAt, BeginStatement, BeginProbe, Checkpoint,
           RestoreBegin, RestoreEnd, DiscardOutermost

-----------------------------------------------------------------------------
(* The theorems.                                                           *)

LEMMA IInvInit == Init => IInv
<1> SUFFICES ASSUME Init PROVE IInv
    OBVIOUS
<1>1. 1 .. Len(<<>>) = {} /\ Len(<<>>) = 0
    BY EmptySeq
<1>2. TypeOK
    BY TypeInit
<1>3. Discipline
    BY <1>1 DEF Init, Discipline
<1>4. FramesNest /\ FramesRestorable /\ OnlyUnsolvedBound
    BY <1>1 DEF Init, FramesNest, FramesRestorable, OnlyUnsolvedBound
<1>5. WellFounded(map)
    BY DEF Init, WellFounded, BoundVars
<1> QED
    BY <1>2, <1>3, <1>4, <1>5 DEF IInv

LEMMA IInvNext == IInv /\ [Next]_vars => IInv'
<1> SUFFICES ASSUME IInv, [Next]_vars PROVE IInv'
    OBVIOUS
<1>1. TypeOK'
    BY TypeNext DEF IInv, Discipline
<1>2. Discipline'
    BY DisciplineNext DEF IInv
<1>3. FramesNest'
    BY NestNext DEF IInv
<1>4. FramesRestorable'
    BY RestorableNext DEF IInv
<1>5. OnlyUnsolvedBound'
    BY UnsolvedNext DEF IInv
<1>6. WellFounded(map)'
    BY WellFoundedNext DEF IInv
<1> QED
    BY <1>1, <1>2, <1>3, <1>4, <1>5, <1>6 DEF IInv

LEMMA IInvHolds == Spec => []IInv
BY IInvInit, IInvNext, PTL DEF Spec

LEMMA IInvRollback == IInv => RollbackExact
<1> SUFFICES ASSUME IInv, restoring, Len(journal) <= Top.journal_len
             PROVE  /\ map = Top.map
                    /\ \A v \in 0 .. (Top.next - 1) : levels[v] = Top.levels[v]
    BY DEF RollbackExact
<1>1. frames # <<>>
    BY DEF IInv, Discipline
<1>2. PICK i \in 1 .. Len(frames) : Top = frames[i]
    BY <1>1, TopFrame DEF IInv, Top
<1>3. PICK n \in Nat : n = Top.journal_len /\ (n + 1) .. Len(journal) = {}
    BY <1>1, TopFrame DEF IInv, TypeOK
<1>4. Top.map \in [TyVar -> MaybeTy] /\ map \in [TyVar -> MaybeTy]
    BY <1>2, FrameFields DEF IInv, TypeOK
<1>5. \A v \in TyVar : map[v] = Top.map[v]
  <2>1. TAKE v \in TyVar
  <2>2. PopsToBinding(n, v, Top.map[v])
      BY <1>2, <1>3 DEF IInv, FramesRestorable
  <2> QED
      BY <1>3, <2>2 DEF PopsToBinding
<1>6. \A v \in 0 .. (Top.next - 1) : levels[v] = Top.levels[v]
  <2>1. TAKE v \in 0 .. (Top.next - 1)
  <2>2. PopsToLevel(n, v, Top.levels[v])
      BY <1>2, <1>3 DEF IInv, FramesRestorable
  <2> QED
      BY <1>3, <2>2 DEF PopsToLevel
<1>7. map = Top.map
    BY <1>4, <1>5
<1> QED
    BY <1>6, <1>7

LEMMA WellFoundedAcyclic ==
    ASSUME NEW m \in [TyVar -> MaybeTy], WellFounded(m), NEW v \in BoundVars(m)
    PROVE  v \notin Reach(m, m[v])
<1> SUFFICES ASSUME v \in Reach(m, m[v]) PROVE FALSE
    OBVIOUS
<1> DEFINE S == {w \in BoundVars(m) : v \in Reach(m, m[w])}
           C == TyVar \ S
<1>1. S \in SUBSET BoundVars(m) /\ v \in S
    OBVIOUS
<1>2. PICK w \in S : m[w] \intersect S = {}
    BY <1>1 DEF WellFounded
<1>3. \A u \in BoundVars(m) : m[u] \subseteq TyVar
    BY DEF BoundVars, MaybeTy, Ty
<1>4. m[w] \subseteq C
    BY <1>1, <1>2, <1>3
<1>5. ClosedUnder(m, C)
  <2>1. SUFFICES ASSUME NEW u \in C, u \in BoundVars(m), NEW x \in m[u], x \in S
                 PROVE  FALSE
      BY <1>3 DEF ClosedUnder
  <2>2. v \in Reach(m, m[x]) /\ x \in BoundVars(m)
      BY <2>1
  <2>3. v \in Reach(m, m[u])
    <3>1. ASSUME NEW D \in SUBSET TyVar, m[u] \subseteq D, ClosedUnder(m, D)
          PROVE  v \in D
      <4>1. x \in D
          BY <2>1, <3>1
      <4>2. m[x] \subseteq D
          BY <2>2, <3>1, <4>1 DEF ClosedUnder
      <4> QED
          BY <2>2, <3>1, <4>2 DEF Reach
    <3> QED
        BY <2>2, <3>1 DEF Reach
  <2> QED
      BY <2>1, <2>3
<1>6. v \in Reach(m, m[w])
    BY <1>2
<1> HIDE DEF S
<1>7. v \in C
    BY <1>4, <1>5, <1>6 DEF Reach
<1> QED
    BY <1>1, <1>7

(* Every state the substitution reaches is well typed. *)
THEOREM TypeCorrect == Spec => []TypeOK
BY IInvHolds, PTL DEF IInv

(* Rolling back to a checkpoint restores every binding, and the level of every
   variable that existed, whatever was unified, nested, kept or undone since. *)
THEOREM RollbackCorrect == Spec => []RollbackExact
BY IInvHolds, IInvRollback, PTL

(* The assert_eq!s of restore_checkpoint and discard_outermost_checkpoint hold. *)
THEOREM AssertionsHold == Spec => []NoPanic
<1>1. IInv => NoPanic
    BY DEF IInv, Discipline, NoPanic
<1> QED
    BY <1>1, IInvHolds, PTL

(* Following bindings terminates: no solved variable occurs in what it is bound
   to, directly or through other variables. *)
THEOREM SubstitutionAcyclic == Spec => []Acyclic
<1>1. IInv => Acyclic
    BY WellFoundedAcyclic DEF IInv, TypeOK, Acyclic
<1> QED
    BY <1>1, IInvHolds, PTL

(* No type variable is handed out twice, across rollbacks and modules. *)
THEOREM FreshVariablesNew == Spec => FreshIsNew
<1>1. IInv /\ [Next]_vars => [next_var' # next_var => next_var \notin handed]_vars
    BY DEF IInv, Discipline, TypeOK
<1> QED
    BY <1>1, IInvHolds, PTL DEF Spec, FreshIsNew

-----------------------------------------------------------------------------
(***************************************************************************)
(* The refinement.  A table is what the journal undoes to when every entry *)
(* of a variable that would be undone is one that leads back to it         *)
(* (Denotes).  There is exactly one such table, so a step that keeps       *)
(* Denotes keeps the copy.  First the copies, as the mapping names them.   *)
(***************************************************************************)

TableType == [map : [TyVar -> MaybeTy], levels : [TyVar -> Level]]

Current == [map |-> map, levels |-> levels]

Table == IF restoring THEN UndoneTo(Top.journal_len) ELSE Current

Saved == [i \in DOMAIN HeldFrames |-> UndoneTo(HeldFrames[i].journal_len)]

\* Undoing the journal down to length n gives table t.
Denotes(n, t) ==
    \A v \in TyVar : PopsToBinding(n, v, t.map[v]) /\ PopsToLevel(n, v, t.levels[v])

\* What is beyond IInv: no binding mentions a variable that does not exist yet,
\* and the journal has no entry about one.
BindingsAllocated == \A v \in BoundVars(map) : map[v] \subseteq Allocated

EntriesAllocated == \A k \in 1 .. Len(journal) : journal[k].var \in Allocated

JInv == IInv /\ BindingsAllocated /\ EntriesAllocated

-----------------------------------------------------------------------------
(* The earliest entry.                                                     *)

\* Every nonempty set of numbers has a least one.
LEMMA LeastNumber ==
    ASSUME NEW S \in SUBSET Nat, S # {}
    PROVE  \E m \in S : \A k \in S : m <= k
<1> DEFINE T == {0 .. (k - 1) : k \in S}
<1>1. T \subseteq FiniteSubsetsOf(Nat) /\ T # {}
  <2>1. \A k \in S : IsFiniteSet(0 .. (k - 1))
      BY FS_Interval
  <2>2. PICK k \in S : TRUE
      OBVIOUS
  <2>3. 0 .. (k - 1) \in T
      OBVIOUS
  <2>4. \A j \in S : 0 .. (j - 1) \in FiniteSubsetsOf(Nat)
      BY <2>1 DEF FiniteSubsetsOf
  <2> QED
      BY <2>3, <2>4
<1>2. IsWellFoundedOn(StrictSubsetOrdering(Nat), FiniteSubsetsOf(Nat))
    BY FS_StrictSubsetOrderingWellFounded
<1>3. PICK x \in T : \A y \in T : ~(<<y, x>> \in StrictSubsetOrdering(Nat))
  <2> HIDE DEF T
  <2> QED
      BY <1>1, <1>2, WFMin
<1>4. PICK m \in S : x = 0 .. (m - 1)
    BY <1>3
<1>5. ASSUME NEW k \in S, k < m
      PROVE  FALSE
  <2>1. 0 .. (k - 1) \in T
      OBVIOUS
  <2>2. 0 .. (k - 1) \subseteq x /\ 0 .. (k - 1) # x
    <3>1. k \in x /\ k \notin 0 .. (k - 1)
        BY <1>4, <1>5
    <3> QED
        BY <1>4, <1>5, <3>1
  <2>3. x \in SUBSET Nat /\ 0 .. (k - 1) \in SUBSET Nat
      BY <1>4
  <2> HIDE DEF T
  <2>4. <<0 .. (k - 1), x>> \in StrictSubsetOrdering(Nat)
      BY <2>2, <2>3 DEF StrictSubsetOrdering
  <2> QED
      BY <1>3, <2>1, <2>4
<1> QED
    BY <1>5

LEMMA EarliestIs ==
    ASSUME NEW S \in SUBSET Nat, S # {}
    PROVE  Earliest(S) \in S /\ \A j \in S : Earliest(S) <= j
BY LeastNumber DEF Earliest

-----------------------------------------------------------------------------
(* UndoneTo(n) is the one table that the journal denotes at n.             *)

LEMMA UndoneToDenotes ==
    TypeOK => \A n \in Nat : UndoneTo(n) \in TableType /\ Denotes(n, UndoneTo(n))
<1> SUFFICES ASSUME TypeOK, NEW n \in Nat
             PROVE  UndoneTo(n) \in TableType /\ Denotes(n, UndoneTo(n))
    OBVIOUS
<1> DEFINE u == UndoneTo(n)
<1>1. \A kind, v : Entries(kind, v, n) \in SUBSET Nat
    BY DEF Entries
<1>2. ASSUME NEW v \in TyVar
      PROVE  /\ u.map[v] \in MaybeTy
             /\ PopsToBinding(n, v, u.map[v])
  <2> DEFINE E == Entries("Binding", v, n)
  <2>1. u.map[v] = IF E = {} THEN map[v] ELSE journal[Earliest(E)].ty
      BY DEF UndoneTo
  <2>2. CASE E = {}
    <3>1. \A k \in (n + 1) .. Len(journal) : ~IsBindingOf(k, v)
        BY <2>2 DEF Entries, IsBindingOf
    <3> QED
        BY <2>1, <2>2, <3>1 DEF PopsToBinding, TypeOK
  <2>3. CASE E # {}
    <3>1. PICK e \in E : e = Earliest(E) /\ \A j \in E : e <= j
        BY <1>1, <2>3, EarliestIs
    <3>2. e \in (n + 1) .. Len(journal) /\ IsBindingOf(e, v)
        BY <3>1 DEF Entries, IsBindingOf
    <3>3. \A j \in (n + 1) .. (e - 1) : ~IsBindingOf(j, v)
      <4>1. ASSUME NEW j \in (n + 1) .. (e - 1), IsBindingOf(j, v)
            PROVE  FALSE
        <5>1. j \in E
            BY <3>2, <4>1 DEF Entries, IsBindingOf, TypeOK
        <5> QED
            BY <3>1, <3>2, <4>1, <5>1
      <4> QED
          BY <4>1
    <3>4. u.map[v] = journal[e].ty
        BY <2>1, <2>3, <3>1
    <3>5. journal[e].ty \in MaybeTy
        BY <3>2 DEF TypeOK, IsBindingOf, JournalEntry, BindingEntry, LevelEntry
    <3> QED
        BY <3>2, <3>3, <3>4, <3>5 DEF PopsToBinding
  <2> QED
      BY <2>2, <2>3
<1>3. ASSUME NEW v \in TyVar
      PROVE  /\ u.levels[v] \in Level
             /\ PopsToLevel(n, v, u.levels[v])
  <2> DEFINE E == Entries("Level", v, n)
  <2>1. u.levels[v] = IF E = {} THEN levels[v] ELSE journal[Earliest(E)].level
      BY DEF UndoneTo
  <2>2. CASE E = {}
    <3>1. \A k \in (n + 1) .. Len(journal) : ~IsLevelOf(k, v)
        BY <2>2 DEF Entries, IsLevelOf
    <3> QED
        BY <2>1, <2>2, <3>1 DEF PopsToLevel, TypeOK
  <2>3. CASE E # {}
    <3>1. PICK e \in E : e = Earliest(E) /\ \A j \in E : e <= j
        BY <1>1, <2>3, EarliestIs
    <3>2. e \in (n + 1) .. Len(journal) /\ IsLevelOf(e, v)
        BY <3>1 DEF Entries, IsLevelOf
    <3>3. \A j \in (n + 1) .. (e - 1) : ~IsLevelOf(j, v)
      <4>1. ASSUME NEW j \in (n + 1) .. (e - 1), IsLevelOf(j, v)
            PROVE  FALSE
        <5>1. j \in E
            BY <3>2, <4>1 DEF Entries, IsLevelOf, TypeOK
        <5> QED
            BY <3>1, <3>2, <4>1, <5>1
      <4> QED
          BY <4>1
    <3>4. u.levels[v] = journal[e].level
        BY <2>1, <2>3, <3>1
    <3>5. journal[e].level \in Level
        BY <3>2 DEF TypeOK, IsLevelOf, JournalEntry, BindingEntry, LevelEntry
    <3> QED
        BY <3>2, <3>3, <3>4, <3>5 DEF PopsToLevel
  <2> QED
      BY <2>2, <2>3
<1>4. UndoneTo(n) \in TableType
  <2>1. \A v \in TyVar : u.map[v] \in MaybeTy /\ u.levels[v] \in Level
      BY <1>2, <1>3
  <2> QED
      BY <2>1 DEF UndoneTo, TableType
<1> QED
    BY <1>2, <1>3, <1>4 DEF Denotes

\* A variable pops to one binding and to one level.
LEMMA PopsToUnique ==
    ASSUME NEW n \in Nat, NEW v, NEW a, NEW b
    PROVE  /\ PopsToBinding(n, v, a) /\ PopsToBinding(n, v, b) => a = b
           /\ PopsToLevel(n, v, a) /\ PopsToLevel(n, v, b) => a = b
<1>1. ASSUME PopsToBinding(n, v, a), PopsToBinding(n, v, b) PROVE a = b
    BY <1>1 DEF PopsToBinding
<1>2. ASSUME PopsToLevel(n, v, a), PopsToLevel(n, v, b) PROVE a = b
    BY <1>2 DEF PopsToLevel
<1> QED
    BY <1>1, <1>2

LEMMA DenotesUnique ==
    TypeOK => \A n \in Nat : \A t \in TableType : Denotes(n, t) => t = UndoneTo(n)
<1> SUFFICES ASSUME TypeOK, NEW n \in Nat, NEW t \in TableType, Denotes(n, t)
             PROVE  t = UndoneTo(n)
    OBVIOUS
<1>1. PICK u \in TableType : u = UndoneTo(n) /\ Denotes(n, u)
    BY UndoneToDenotes
<1>2. \A v \in TyVar : t.map[v] = u.map[v] /\ t.levels[v] = u.levels[v]
    BY <1>1, PopsToUnique DEF Denotes
<1> QED
    BY <1>1, <1>2 DEF TableType

LEMMA DenotesUniqueNext ==
    TypeOK' => (\A n \in Nat : \A t \in TableType : Denotes(n, t) => t = UndoneTo(n))'
BY DenotesUnique, PTL

-----------------------------------------------------------------------------
(* What a step does to the copies.                                         *)

\* A step that moves nothing the journal undoes to moves no copy.
LEMMA CopyKept ==
    ASSUME TypeOK, TypeOK', NEW n \in Nat,
           \A v \in TyVar : \A old :
             /\ PopsToBinding(n, v, old) => PopsToBinding(n, v, old)'
             /\ PopsToLevel(n, v, old) => PopsToLevel(n, v, old)'
    PROVE  UndoneTo(n)' = UndoneTo(n)
<1>1. PICK t \in TableType : t = UndoneTo(n) /\ Denotes(n, t)
    BY UndoneToDenotes
<1>2. Denotes(n, t)'
    BY <1>1 DEF Denotes
<1> QED
    BY <1>1, <1>2, DenotesUniqueNext

LEMMA CopyUnmoved ==
    ASSUME UNCHANGED <<map, levels, journal>>, NEW n
    PROVE  UndoneTo(n)' = UndoneTo(n)
BY DEF UndoneTo, Entries

\* Undoing nothing gives the table as it is.
LEMMA NothingUndone ==
    ASSUME TypeOK, NEW n \in Nat, n = Len(journal)
    PROVE  UndoneTo(n) = Current
<1>1. (n + 1) .. Len(journal) = {}
    OBVIOUS
<1>2. Denotes(n, Current)
    BY <1>1 DEF Denotes, PopsToBinding, PopsToLevel, Current
<1>3. Current \in TableType
    BY DEF Current, TableType, TypeOK
<1> QED
    BY <1>2, <1>3, DenotesUnique

\* The new variable gets its level in every copy: no entry is about it.
LEMMA FreshInCopy ==
    ASSUME JInv, TypeOK', NEW level \in Level, FreshTyvarAt(level), NEW n \in Nat
    PROVE  UndoneTo(n)' = [UndoneTo(n) EXCEPT !.levels[next_var] = level]
<1> USE DEF JInv, IInv
<1>1. PICK t \in TableType : t = UndoneTo(n) /\ Denotes(n, t)
    BY UndoneToDenotes
<1>2. /\ UNCHANGED <<map, journal>>
      /\ levels' = [levels EXCEPT ![next_var] = level]
      /\ next_var \in TyVar
    BY NumVarsAssumption DEF FreshTyvarAt, TypeOK, TyVar
<1>3. PICK new \in TableType :
        /\ new = [t EXCEPT !.levels[next_var] = level]
        /\ new.map = t.map
        /\ new.levels = [t.levels EXCEPT ![next_var] = level]
  <2>1. PICK new : new = [t EXCEPT !.levels[next_var] = level]
      OBVIOUS
  <2>2. /\ new \in TableType
        /\ new.map = t.map
        /\ new.levels = [t.levels EXCEPT ![next_var] = level]
      BY <2>1 DEF TableType
  <2> QED
      BY <2>1, <2>2
<1>4. \A k \in 1 .. Len(journal) : journal[k].var # next_var
  <2>1. next_var \in Int
      BY DEF TypeOK
  <2> QED
      BY <2>1 DEF EntriesAllocated, Allocated
<1>5. ASSUME NEW v \in TyVar
      PROVE  PopsToBinding(n, v, new.map[v])'
  <2>1. PICK old : old = new.map[v] /\ PopsToBinding(n, v, old)
      BY <1>1, <1>3 DEF Denotes
  <2>2. PopsToBinding(n, v, old)'
      BY <1>2, <2>1 DEF PopsToBinding, IsBindingOf
  <2> QED
      BY <2>1, <2>2
<1>6. ASSUME NEW v \in TyVar
      PROVE  PopsToLevel(n, v, new.levels[v])'
  <2>1. CASE v = next_var
    <3>1. \A k \in (n + 1) .. Len(journal) : ~IsLevelOf(k, v)
        BY <1>4, <2>1 DEF IsLevelOf
    <3>2. new.levels[v] = level /\ levels'[v] = level
        BY <1>2, <1>3, <2>1 DEF TableType, TypeOK
    <3>3. \A k \in (n + 1) .. Len(journal') : ~IsLevelOf(k, v)'
        BY <1>2, <3>1 DEF IsLevelOf
    <3> QED
        BY <3>2, <3>3 DEF PopsToLevel
  <2>2. CASE v # next_var
    <3>1. PICK old : old = new.levels[v] /\ PopsToLevel(n, v, old)
        BY <1>1, <1>3, <2>2 DEF Denotes, TableType
    <3>2. levels'[v] = levels[v]
        BY <1>2, <2>2 DEF TypeOK
    <3>3. PopsToLevel(n, v, old)'
        BY <1>2, <3>1, <3>2 DEF PopsToLevel, IsLevelOf
    <3> QED
        BY <3>1, <3>3
  <2> QED
      BY <2>1, <2>2
<1>7. Denotes(n, new)'
    BY <1>5, <1>6 DEF Denotes
<1>8. new = UndoneTo(n)'
    BY <1>7, DenotesUniqueNext
<1> QED
    BY <1>1, <1>3, <1>8

\* What a BindTy step is, with the journal on and with it off.
LEMMA BindTyStep ==
    ASSUME JInv, NEW v \in Allocated, NEW ty \in SUBSET Allocated, BindTy(v, ty),
           NEW N \in Nat, IsLen(N, journal)
    PROVE  /\ v \in TyVar
           /\ map[v] = Unbound
           /\ \E applied \in SUBSET Allocated :
                /\ applied \in Ty
                /\ map' = [map EXCEPT ![v] = applied]
                /\ v \notin applied
                /\ \A w \in applied : map[w] = Unbound
                /\ \E target \in Level :
                     /\ IsMinLevel(levels, applied \union {v}, target)
                     /\ levels' = LowerLevels(levels, applied \union {v}, target)
                     /\ active_checkpoints > 0 =>
                          \E S \in Ty, K \in Nat :
                             /\ S = LoweredVars(levels, applied \union {v}, target)
                             /\ JournalGrows(v, S, N, K)
           /\ active_checkpoints <= 0 => journal' = journal
<1> USE DEF JInv, IInv
<1> DEFINE applied == Apply(map, ty)
           touched == applied \union {v}
<1>1. v \in TyVar /\ Allocated \subseteq TyVar
    BY NumVarsAssumption DEF TypeOK, Allocated, TyVar
<1>2. map[v] = Unbound
    BY <1>1 DEF BindTy, BoundVars
<1>3. applied \in Ty /\ touched \in Ty /\ applied \intersect BoundVars(map) = {}
    BY <1>1, ApplyType DEF Ty
<1>4. map' = [map EXCEPT ![v] = applied] /\ v \notin applied
    BY DEF BindTy, PassesOccursCheck
<1>5. applied \subseteq Allocated
  <2>1. ClosedUnder(map, Allocated)
      BY DEF BindingsAllocated, ClosedUnder
  <2>2. Reach(map, ty) \subseteq Allocated
      BY <1>1, <2>1 DEF Reach
  <2> QED
      BY <2>2 DEF Apply
<1>6. \A w \in applied : map[w] = Unbound
    BY <1>3 DEF Ty, BoundVars
<1>7. PICK target \in Level :
        /\ IsMinLevel(levels, touched, target)
        /\ levels' = LowerLevels(levels, touched, target)
        /\ active_checkpoints > 0 =>
             \E walk \in Walks(LoweredVars(levels, touched, target)) :
               journal' = Append(journal \o LevelEntries(walk), BindingEntryOf(v))
    BY DEF BindTy
<1>8. ASSUME active_checkpoints > 0
      PROVE  \E S \in Ty, K \in Nat :
                /\ S = LoweredVars(levels, touched, target)
                /\ JournalGrows(v, S, N, K)
  <2>1. PICK S \in Ty : S = LoweredVars(levels, touched, target)
      BY <1>3 DEF LoweredVars, Ty
  <2>2. PICK K \in Nat : JournalGrows(v, S, N, K)
      BY <1>1, <1>7, <1>8, <2>1, BindGrowsJournal
  <2> QED
      BY <2>1, <2>2
<1>9. active_checkpoints <= 0 => journal' = journal
    BY DEF BindTy, TypeOK
<1> HIDE DEF applied
<1> QED
    BY <1>1, <1>2, <1>3, <1>4, <1>5, <1>6, <1>7, <1>8, <1>9

\* Binding a variable moves no copy.
LEMMA BindInCopy ==
    ASSUME JInv, TypeOK', active_checkpoints > 0,
           NEW v \in Allocated, NEW ty \in SUBSET Allocated, BindTy(v, ty),
           NEW n \in Nat, n <= Len(journal)
    PROVE  UndoneTo(n)' = UndoneTo(n)
<1> USE DEF JInv, IInv
<1>1. PICK N \in Nat : IsLen(N, journal) /\ n <= N
    BY DEF IsLen, TypeOK
<1>2. v \in TyVar
    BY <1>1, BindTyStep
<1>3. PICK applied \in SUBSET Allocated :
        /\ applied \in Ty
        /\ map' = [map EXCEPT ![v] = applied]
        /\ \E target \in Level :
             /\ levels' = LowerLevels(levels, applied \union {v}, target)
             /\ \E S \in Ty, K \in Nat :
                  /\ S = LoweredVars(levels, applied \union {v}, target)
                  /\ JournalGrows(v, S, N, K)
    BY <1>1, BindTyStep
<1>4. PICK target \in Level :
        /\ levels' = LowerLevels(levels, applied \union {v}, target)
        /\ \E S \in Ty, K \in Nat :
             /\ S = LoweredVars(levels, applied \union {v}, target)
             /\ JournalGrows(v, S, N, K)
    BY <1>3
<1>5. PICK S \in Ty, K \in Nat :
        /\ S = LoweredVars(levels, applied \union {v}, target)
        /\ JournalGrows(v, S, N, K)
    BY <1>4
<1>6. ASSUME NEW w \in TyVar, NEW old, PopsToBinding(n, w, old)
      PROVE  PopsToBinding(n, w, old)'
    BY <1>1, <1>2, <1>3, <1>5, <1>6, BindKeepsBinding
<1>7. ASSUME NEW w \in TyVar, NEW old, PopsToLevel(n, w, old)
      PROVE  PopsToLevel(n, w, old)'
    BY <1>1, <1>2, <1>4, <1>5, <1>7, BindKeepsLevel
<1> QED
    BY <1>6, <1>7, CopyKept

\* Nor does a step of the rollback loop, which stays above every checkpoint.
LEMMA PopInCopy ==
    ASSUME JInv, TypeOK', RestorePop, NEW n \in Nat, n < Len(journal)
    PROVE  UndoneTo(n)' = UndoneTo(n)
<1> USE DEF JInv, IInv
<1>1. PICK N \in Nat : IsLen(N, journal) /\ n < N
    BY DEF IsLen, TypeOK
<1>2. /\ N >= 1
      /\ IsLen(N - 1, journal')
      /\ \A k \in 1 .. (N - 1) : journal'[k] = journal[k]
      /\ journal[N] \in JournalEntry
      /\ UndoBinding(journal[N]) \/ UndoLevel(journal[N])
    BY <1>1, PopStep
<1>3. \/ /\ journal[N].kind = "Binding"
         /\ journal[N].var \in TyVar
         /\ map' = [map EXCEPT ![journal[N].var] = journal[N].ty]
      \/ journal[N].kind # "Binding" /\ map' = map
    BY <1>2 DEF UndoBinding, UndoLevel, JournalEntry, BindingEntry, LevelEntry
<1>4. \/ /\ journal[N].kind = "Level"
         /\ journal[N].var \in TyVar
         /\ levels' = [levels EXCEPT ![journal[N].var] = journal[N].level]
      \/ journal[N].kind # "Level" /\ levels' = levels
    BY <1>2 DEF UndoBinding, UndoLevel, JournalEntry, BindingEntry, LevelEntry
<1>5. ASSUME NEW w \in TyVar, NEW old, PopsToBinding(n, w, old)
      PROVE  PopsToBinding(n, w, old)'
    BY <1>1, <1>2, <1>3, <1>5, PopKeepsBinding
<1>6. ASSUME NEW w \in TyVar, NEW old, PopsToLevel(n, w, old)
      PROVE  PopsToLevel(n, w, old)'
    BY <1>1, <1>2, <1>4, <1>6, PopKeepsLevel
<1> QED
    BY <1>5, <1>6, CopyKept

-----------------------------------------------------------------------------
(* Bindings and entries are about variables that exist.                    *)

LEMMA JInvInit == Init => JInv
<1> SUFFICES ASSUME Init PROVE JInv
    OBVIOUS
<1>1. 1 .. Len(<<>>) = {}
    BY EmptySeq
<1>2. BoundVars(map) = {}
    BY DEF Init, BoundVars
<1> QED
    BY <1>1, <1>2, IInvInit DEF Init, JInv, BindingsAllocated, EntriesAllocated

LEMMA MoreAllocated ==
    ASSUME TypeOK, [Next]_vars
    PROVE  Allocated \subseteq Allocated'
<1>1. next_var' = next_var \/ next_var' = next_var + 1
    BY DEF Next, vars, FreshTyvarAt, BindTy, BeginStatement, BeginProbe, Checkpoint,
           RestoreBegin, RestorePop, RestoreEnd, DiscardOutermost, ClearMapKeepCounter
<1>2. next_var \in Int
    BY DEF TypeOK
<1> QED
    BY <1>1, <1>2 DEF Allocated

LEMMA BindingsNext ==
    ASSUME JInv, [Next]_vars
    PROVE  BindingsAllocated'
<1> USE DEF JInv, IInv
<1>1. PICK N \in Nat : IsLen(N, journal)
    BY DEF IsLen, TypeOK
<1>2. Allocated \subseteq Allocated'
    BY MoreAllocated
<1>3. CASE UNCHANGED map
    BY <1>2, <1>3 DEF BindingsAllocated, BoundVars
<1>4. ASSUME NEW v \in Allocated, NEW ty \in SUBSET Allocated, BindTy(v, ty)
      PROVE  BindingsAllocated'
  <2>1. PICK applied \in SUBSET Allocated : map' = [map EXCEPT ![v] = applied]
      BY <1>1, <1>4, BindTyStep
  <2>2. v \in TyVar /\ map'[v] = applied
      BY <1>1, <1>4, <2>1, BindTyStep DEF TypeOK
  <2>3. \A w \in TyVar \ {v} : map'[w] = map[w]
      BY <2>1 DEF TypeOK
  <2>4. ASSUME NEW w \in BoundVars(map')
        PROVE  map'[w] \subseteq Allocated'
    <3>1. CASE w = v
        BY <1>2, <2>2, <3>1
    <3>2. CASE w # v
      <4>1. w \in BoundVars(map) /\ map'[w] = map[w]
          BY <2>3, <3>2 DEF BoundVars
      <4> QED
          BY <1>2, <4>1 DEF BindingsAllocated
    <3> QED
        BY <3>1, <3>2
  <2> QED
      BY <2>4 DEF BindingsAllocated, BoundVars
<1>5. CASE RestorePop
  <2>1. journal[N] \in JournalEntry /\ N >= 1 /\ (UndoBinding(journal[N]) \/ UndoLevel(journal[N]))
      BY <1>1, <1>5, PopStep
  <2>2. CASE UndoLevel(journal[N])
      BY <1>3, <2>2 DEF UndoLevel
  <2>3. CASE UndoBinding(journal[N])
    <3>1. journal[N].var \in TyVar /\ journal[N].ty = Unbound
        BY <1>1, <2>1, <2>3
           DEF UndoBinding, OnlyUnsolvedBound, IsLen, JournalEntry, BindingEntry, LevelEntry
    <3>2. map' = [map EXCEPT ![journal[N].var] = Unbound]
        BY <2>3, <3>1 DEF UndoBinding
    <3>3. \A w \in BoundVars(map') : w \in BoundVars(map) /\ map'[w] = map[w]
        BY <3>1, <3>2 DEF BoundVars, TypeOK
    <3>4. \A w \in BoundVars(map') : map'[w] \subseteq Allocated'
        BY <1>2, <3>3 DEF BindingsAllocated
    <3> QED
        BY <3>4 DEF BindingsAllocated, BoundVars
  <2> QED
      BY <2>1, <2>2, <2>3
<1>6. CASE ClearMapKeepCounter
  <2>1. BoundVars(map') = {}
      BY <1>6 DEF ClearMapKeepCounter, BoundVars
  <2> QED
      BY <2>1 DEF BindingsAllocated, BoundVars
<1> QED
    BY <1>3, <1>4, <1>5, <1>6
       DEF Next, vars, FreshTyvarAt, BeginStatement, BeginProbe, Checkpoint,
           RestoreBegin, RestoreEnd, DiscardOutermost

LEMMA EntriesNext ==
    ASSUME JInv, [Next]_vars
    PROVE  EntriesAllocated'
<1> USE DEF JInv, IInv
<1>1. PICK N \in Nat : IsLen(N, journal)
    BY DEF IsLen, TypeOK
<1>2. Allocated \subseteq Allocated'
    BY MoreAllocated
<1>3. \A k \in 1 .. N : journal[k].var \in Allocated
    BY <1>1 DEF EntriesAllocated, IsLen
<1>4. CASE UNCHANGED journal
    BY <1>2, <1>4 DEF EntriesAllocated
<1>5. ASSUME NEW v \in Allocated, NEW ty \in SUBSET Allocated, BindTy(v, ty)
      PROVE  EntriesAllocated'
  <2>1. CASE active_checkpoints <= 0
      BY <1>1, <1>4, <1>5, <2>1, BindTyStep
  <2>2. CASE active_checkpoints > 0
    <3>1. PICK applied \in SUBSET Allocated :
            \E target \in Level, S \in Ty, K \in Nat :
               /\ S = LoweredVars(levels, applied \union {v}, target)
               /\ JournalGrows(v, S, N, K)
        BY <1>1, <1>5, <2>2, BindTyStep
    <3>2. PICK S \in Ty, K \in Nat : S \subseteq Allocated /\ JournalGrows(v, S, N, K)
        BY <3>1 DEF LoweredVars
    <3>3. ASSUME NEW k \in 1 .. (N + K + 1)
          PROVE  journal'[k].var \in Allocated
      <4>1. CASE k <= N
          BY <1>3, <3>2, <4>1 DEF JournalGrows
      <4>2. CASE k > N /\ k <= N + K
          BY <3>2, <4>2 DEF JournalGrows
      <4>3. CASE k = N + K + 1
          BY <3>2, <4>3 DEF JournalGrows
      <4> QED
          BY <4>1, <4>2, <4>3
    <3>4. IsLen(N + K + 1, journal')
        BY <3>2 DEF JournalGrows
    <3> QED
        BY <1>2, <3>3, <3>4 DEF EntriesAllocated, IsLen
  <2> QED
      BY <2>1, <2>2 DEF TypeOK
<1>6. CASE RestorePop
  <2>1. IsLen(N - 1, journal') /\ \A k \in 1 .. (N - 1) : journal'[k] = journal[k]
      BY <1>1, <1>6, PopStep
  <2>2. \A k \in 1 .. (N - 1) : journal'[k].var \in Allocated'
      BY <1>2, <1>3, <2>1
  <2> QED
      BY <2>1, <2>2 DEF EntriesAllocated, IsLen
<1>7. CASE journal' = <<>>
  <2>1. 1 .. Len(<<>>) = {}
      BY EmptySeq
  <2> QED
      BY <1>7, <2>1 DEF EntriesAllocated
<1> QED
    BY <1>4, <1>5, <1>6, <1>7
       DEF Next, vars, FreshTyvarAt, BeginStatement, BeginProbe, Checkpoint,
           RestoreBegin, RestoreEnd, DiscardOutermost, ClearMapKeepCounter

LEMMA JInvNext == JInv /\ [Next]_vars => JInv'
<1> SUFFICES ASSUME JInv, [Next]_vars PROVE JInv'
    OBVIOUS
<1>1. IInv'
    BY IInvNext DEF JInv
<1> QED
    BY <1>1, BindingsNext, EntriesNext DEF JInv

-----------------------------------------------------------------------------
(* The copies as a sequence.                                               *)

Depth == IF restoring THEN Len(frames) - 1 ELSE Len(frames)

SavedFacts ==
    /\ Depth \in Nat
    /\ \A i \in 1 .. Depth :
         /\ i \in 1 .. Len(frames)
         /\ frames[i].journal_len \in Nat
         /\ frames[i].journal_len <= Len(journal)
    /\ Saved \in Seq(TableType)
    /\ Len(Saved) = Depth
    /\ \A i \in 1 .. Depth : Saved[i] = UndoneTo(frames[i].journal_len)

LEMMA SavedAre == IInv => SavedFacts
<1> SUFFICES ASSUME IInv PROVE SavedFacts
    OBVIOUS
<1> USE DEF IInv
<1>1. PICK h \in Nat : h = Depth
  <2>1. restoring => Len(frames) >= 1
      BY TopFrame DEF Discipline
  <2>2. Len(frames) \in Nat
      BY DEF TypeOK
  <2>3. Depth \in Nat
      BY <2>1, <2>2 DEF Depth
  <2> QED
      BY <2>3
<1>2. \A i \in 1 .. h : i \in 1 .. Len(frames)
    BY <1>1 DEF Depth, TypeOK
<1>3. \A i \in 1 .. h : frames[i].journal_len \in Nat /\ frames[i].journal_len <= Len(journal)
    BY <1>2, FrameFields DEF FramesNest
<1>4. DOMAIN HeldFrames = 1 .. h /\ \A i \in 1 .. h : HeldFrames[i] = frames[i]
    BY <1>1 DEF HeldFrames, Depth, TypeOK
<1>5. \A i \in 1 .. h : UndoneTo(frames[i].journal_len) \in TableType
    BY <1>3, UndoneToDenotes
<1>6. Saved = [i \in 1 .. h |-> UndoneTo(frames[i].journal_len)]
    BY <1>4 DEF Saved
<1>7. /\ Saved \in Seq(TableType)
      /\ Len(Saved) = h
      /\ \A i \in 1 .. h : Saved[i] = UndoneTo(frames[i].journal_len)
    BY <1>5, <1>6
<1> QED
    BY <1>1, <1>2, <1>3, <1>7 DEF SavedFacts

LEMMA SavedAreNext == IInv' => SavedFacts'
BY SavedAre, PTL

\* The copies of two states that hold the same frames are the same ones when
\* the journals undo to the same tables.
LEMMA SavedKept ==
    ASSUME SavedFacts, SavedFacts', Depth' = Depth,
           \A i \in 1 .. Depth : \E n :
              /\ n = frames[i].journal_len
              /\ n = frames'[i].journal_len
              /\ UndoneTo(n)' = UndoneTo(n)
    PROVE  Saved' = Saved
<1>1. ASSUME NEW i \in 1 .. Depth
      PROVE  Saved'[i] = Saved[i]
  <2>1. PICK n : /\ n = frames[i].journal_len
                 /\ n = frames'[i].journal_len
                 /\ UndoneTo(n)' = UndoneTo(n)
      OBVIOUS
  <2>2. Saved[i] = UndoneTo(n)
      BY <2>1 DEF SavedFacts
  <2>3. Saved'[i] = UndoneTo(n)'
      BY <2>1 DEF SavedFacts
  <2> QED
      BY <2>1, <2>2, <2>3
<1>2. /\ Saved \in Seq(TableType) /\ Saved' \in Seq(TableType)
      /\ Len(Saved) = Depth /\ Len(Saved') = Depth
    BY DEF SavedFacts, TableType
<1> QED
    BY <1>1, <1>2, SeqEqual

\* A frame that is held stays where it is when nothing else moves.
LEMMA SavedUnmoved ==
    ASSUME SavedFacts, SavedFacts', Depth' = Depth, UNCHANGED <<map, levels, journal>>,
           \A i \in 1 .. Depth : frames'[i] = frames[i]
    PROVE  Saved' = Saved
<1>1. ASSUME NEW i \in 1 .. Depth
      PROVE  \E n : /\ n = frames[i].journal_len
                    /\ n = frames'[i].journal_len
                    /\ UndoneTo(n)' = UndoneTo(n)
  <2>1. PICK n : n = frames[i].journal_len
      OBVIOUS
  <2> QED
      BY <2>1, CopyUnmoved
<1> QED
    BY <1>1, SavedKept

-----------------------------------------------------------------------------
(* Every step of Subst is one of AbstractSubst, or none.                   *)

AbstractVars == <<Table, Saved, next_var>>

\* The instance has the same constants.
LEMMA SameConstants ==
    /\ Copies!TyVar = TyVar
    /\ Copies!Level = Level
    /\ Copies!Unbound = Unbound
    /\ Copies!RootLevel = RootLevel
BY DEF Copies!TyVar, TyVar, Copies!Level, Level, Copies!Unbound, Unbound,
       Copies!RootLevel, RootLevel

LEMMA InitRefines == Init => Copies!Init
<1> SUFFICES ASSUME Init PROVE Copies!Init
    OBVIOUS
<1>1. Table = [map |-> [v \in TyVar |-> Unbound], levels |-> [v \in TyVar |-> RootLevel]]
    BY DEF Init, Table, Current
<1>2. SavedFacts /\ Depth = 0
    BY IInvInit, SavedAre, EmptySeq DEF Init, Depth
<1>3. Saved = <<>>
    BY <1>2 DEF SavedFacts
<1>4. next_var = 0
    BY DEF Init
<1> QED
    BY <1>1, <1>3, <1>4, SameConstants DEF Copies!Init, Copies!EmptyTable, Table, Saved, Current

LEMMA FreshRefines ==
    ASSUME JInv, JInv', NEW level \in Level, FreshTyvarAt(level)
    PROVE  Copies!Fresh(level)
<1> USE DEF JInv, IInv
<1>1. SavedFacts /\ SavedFacts' /\ TypeOK'
    BY SavedAre, SavedAreNext
<1>2. /\ next_var < NumVars
      /\ next_var' = next_var + 1
      /\ ~restoring /\ ~restoring'
      /\ UNCHANGED <<map, journal, frames>>
      /\ levels' = [levels EXCEPT ![next_var] = level]
    BY DEF FreshTyvarAt, Running
<1>3. Depth' = Depth
    BY <1>2 DEF Depth
<1>4. Table' = [Table EXCEPT !.levels[next_var] = level]
    BY <1>2 DEF Table, Current
<1>5. ASSUME NEW i \in 1 .. Depth
      PROVE  Saved'[i] = [Saved[i] EXCEPT !.levels[next_var] = level]
  <2>1. PICK n \in Nat : n = frames[i].journal_len
      BY <1>1 DEF SavedFacts
  <2>2. UndoneTo(n)' = [UndoneTo(n) EXCEPT !.levels[next_var] = level]
      BY <1>1, FreshInCopy
  <2>3. Saved[i] = UndoneTo(n)
      BY <1>1, <2>1 DEF SavedFacts
  <2>4. Saved'[i] = UndoneTo(n)'
      BY <1>1, <1>2, <1>3, <2>1 DEF SavedFacts
  <2> QED
      BY <2>2, <2>3, <2>4
<1>6. Saved' = [i \in DOMAIN Saved |-> [Saved[i] EXCEPT !.levels[next_var] = level]]
  <2>1. DOMAIN Saved = 1 .. Depth
      BY <1>1 DEF SavedFacts
  <2>2. DOMAIN Saved' = 1 .. Depth /\ Saved' = [i \in DOMAIN Saved' |-> Saved'[i]]
      BY <1>1, <1>3 DEF SavedFacts
  <2> QED
      BY <1>5, <2>1, <2>2
<1> QED
    BY <1>2, <1>4, <1>6 DEF Copies!Fresh, Copies!WithVariable, Table, Saved, Current

LEMMA BindRefines ==
    ASSUME JInv, JInv', NEW v \in Allocated, NEW ty \in SUBSET Allocated, BindTy(v, ty)
    PROVE  \E applied \in SUBSET Allocated : Copies!Bind(v, applied)
<1> USE DEF JInv, IInv
<1>1. PICK N \in Nat : IsLen(N, journal)
    BY DEF IsLen, TypeOK
<1>2. v \in TyVar /\ map[v] = Unbound
    BY <1>1, BindTyStep
<1>3. PICK applied \in SUBSET Allocated :
        /\ applied \in Ty
        /\ map' = [map EXCEPT ![v] = applied]
        /\ v \notin applied
        /\ \A w \in applied : map[w] = Unbound
        /\ \E target \in Level :
             /\ IsMinLevel(levels, applied \union {v}, target)
             /\ levels' = LowerLevels(levels, applied \union {v}, target)
    BY <1>1, BindTyStep
<1>4. PICK target \in Level :
        /\ IsMinLevel(levels, applied \union {v}, target)
        /\ levels' = LowerLevels(levels, applied \union {v}, target)
    BY <1>3
<1>5. /\ ~restoring /\ ~restoring'
      /\ UNCHANGED <<frames, next_var, active_checkpoints>>
    BY DEF BindTy, Running
<1>6. Table = Current /\ Table' = Current'
    BY <1>5 DEF Table
<1>7. \A w \in TyVar : levels[w] \in Nat /\ target \in Nat
    BY MaxLevelAssumption DEF TypeOK, Level
<1>8. /\ \A w \in TyVar : levels'[w] <= levels[w]
      /\ \A w \in applied : levels'[w] <= levels[v]
      /\ \A w \in TyVar \ (applied \union {v}) : levels'[w] = levels[w]
    BY <1>2, <1>3, <1>4, <1>7 DEF LowerLevels, LoweredVars, IsMinLevel, Ty
<1>9. SavedFacts /\ SavedFacts' /\ TypeOK' /\ Depth' = Depth
    BY <1>5, SavedAre, SavedAreNext DEF Depth
<1>10. ASSUME NEW i \in 1 .. Depth
       PROVE  \E n : /\ n = frames[i].journal_len
                     /\ n = frames'[i].journal_len
                     /\ UndoneTo(n)' = UndoneTo(n)
  <2>1. PICK n \in Nat : n = frames[i].journal_len /\ n <= Len(journal)
      BY <1>9 DEF SavedFacts
  <2>2. active_checkpoints > 0
    <3>1. i \in 1 .. Len(frames)
        BY <1>9 DEF SavedFacts
    <3> QED
        BY <3>1 DEF Discipline, TypeOK
  <2>3. UndoneTo(n)' = UndoneTo(n)
      BY <1>9, <2>1, <2>2, BindInCopy
  <2> QED
      BY <1>5, <2>1, <2>3
<1>11. Saved' = Saved
    BY <1>9, <1>10, SavedKept
<1>12. Copies!Bind(v, applied)
  <2>1. /\ Table.map[v] = Unbound
        /\ v \notin applied
        /\ \A w \in applied : Table.map[w] = Unbound
        /\ Table'.map = [Table.map EXCEPT ![v] = applied]
        /\ \A w \in TyVar : Table'.levels[w] <= Table.levels[w]
        /\ \A w \in applied : Table'.levels[w] <= Table.levels[v]
        /\ \A w \in TyVar \ (applied \union {v}) : Table'.levels[w] = Table.levels[w]
      BY <1>2, <1>3, <1>6, <1>8 DEF Current
  <2> QED
      BY <1>5, <1>11, <2>1, SameConstants DEF Copies!Bind, Table, Saved, Current
<1> QED
    BY <1>12

LEMMA CheckpointRefines ==
    ASSUME JInv, JInv', NEW kind, Running, Checkpoint(kind)
    PROVE  Copies!Save
<1> USE DEF JInv, IInv
<1>1. SavedFacts /\ SavedFacts' /\ TypeOK'
    BY SavedAre, SavedAreNext
<1>2. PICK n \in Nat, h \in Nat : n = Len(journal) /\ h = Len(frames)
    BY DEF TypeOK
<1>3. /\ ~restoring /\ ~restoring'
      /\ UNCHANGED <<map, levels, journal, next_var>>
    BY DEF Checkpoint, Running
<1>4. /\ Len(frames') = h + 1
      /\ \A i \in 1 .. h : frames'[i] = frames[i]
      /\ frames'[h + 1].journal_len = n
  <2>1. PICK new : frames' = Append(frames, new) /\ new.journal_len = n
      BY <1>2 DEF Checkpoint
  <2> QED
      BY <1>2, <2>1 DEF TypeOK
<1>5. Depth = h /\ Depth' = h + 1
    BY <1>2, <1>3, <1>4 DEF Depth
<1>6. Table = Current /\ Table' = Table /\ Table \in TableType
    BY <1>3 DEF Table, Current, TableType, TypeOK
<1>7. ASSUME NEW i \in 1 .. h
      PROVE  Saved'[i] = Saved[i]
  <2>1. PICK m : m = frames[i].journal_len
      OBVIOUS
  <2>2. Saved[i] = UndoneTo(m) /\ Saved'[i] = UndoneTo(m)'
      BY <1>1, <1>4, <1>5, <2>1 DEF SavedFacts
  <2> QED
      BY <1>3, <2>2, CopyUnmoved
<1>8. Saved'[h + 1] = Table
  <2>1. Saved'[h + 1] = UndoneTo(n)'
      BY <1>1, <1>4, <1>5 DEF SavedFacts
  <2> QED
      BY <1>2, <1>3, <1>6, <2>1, CopyUnmoved, NothingUndone
<1>9. Saved' = Append(Saved, Table)
  <2>1. /\ Saved \in Seq(TableType) /\ Saved' \in Seq(TableType)
        /\ Len(Saved) = h /\ Len(Saved') = h + 1
      BY <1>1, <1>5 DEF SavedFacts, TableType
  <2>2. /\ Append(Saved, Table) \in Seq(TableType)
        /\ Len(Append(Saved, Table)) = h + 1
        /\ \A i \in 1 .. (h + 1) : Append(Saved, Table)[i] = IF i <= h THEN Saved[i] ELSE Table
    <3> HIDE DEF Table, Saved
    <3> QED
        BY <1>6, <2>1
  <2>3. \A i \in 1 .. (h + 1) : Saved'[i] = Append(Saved, Table)[i]
      BY <1>7, <1>8, <2>2
  <2> QED
      BY <2>1, <2>2, <2>3, SeqEqual
<1> QED
    BY <1>3, <1>6, <1>9 DEF Copies!Save, Table, Saved, Current

LEMMA RestoreBeginRefines ==
    ASSUME JInv, JInv', RestoreBegin
    PROVE  Copies!Restore
<1> USE DEF JInv, IInv
<1>1. SavedFacts /\ SavedFacts' /\ TypeOK'
    BY SavedAre, SavedAreNext
<1>2. PICK h \in Nat : h = Len(frames) /\ h >= 1
    BY TopFrame DEF RestoreBegin
<1>3. /\ ~restoring /\ restoring'
      /\ UNCHANGED <<map, levels, journal, frames, next_var>>
    BY TopFrame DEF RestoreBegin, Running, Discipline
<1>4. Depth = h /\ Depth' = h - 1
    BY <1>2, <1>3 DEF Depth
<1>5. PICK n : n = Top.journal_len /\ n = Top'.journal_len
    BY <1>3 DEF Top
<1>6. Table' = Saved[Len(Saved)]
  <2>1. Table' = UndoneTo(n)'
      BY <1>3, <1>5 DEF Table
  <2>2. Saved[h] = UndoneTo(n) /\ Len(Saved) = h
    <3>1. h \in 1 .. Depth /\ n = frames[h].journal_len
        BY <1>2, <1>4, <1>5 DEF Top
    <3> QED
        BY <1>1, <1>4, <3>1 DEF SavedFacts
  <2> QED
      BY <1>3, <2>1, <2>2, CopyUnmoved
<1>7. Saved' = SubSeq(Saved, 1, Len(Saved) - 1)
  <2>1. ASSUME NEW i \in 1 .. (h - 1)
        PROVE  Saved'[i] = Saved[i]
    <3>1. PICK m : m = frames[i].journal_len
        OBVIOUS
    <3>2. Saved[i] = UndoneTo(m) /\ Saved'[i] = UndoneTo(m)'
        BY <1>1, <1>2, <1>3, <1>4, <3>1 DEF SavedFacts
    <3> QED
        BY <1>3, <3>2, CopyUnmoved
  <2>2. /\ Saved \in Seq(TableType) /\ Saved' \in Seq(TableType)
        /\ Len(Saved) = h /\ Len(Saved') = h - 1
      BY <1>1, <1>4 DEF SavedFacts, TableType
  <2>3. /\ SubSeq(Saved, 1, h - 1) \in Seq(TableType)
        /\ Len(SubSeq(Saved, 1, h - 1)) = h - 1
        /\ \A i \in 1 .. (h - 1) : SubSeq(Saved, 1, h - 1)[i] = Saved[i]
    <3> HIDE DEF Saved
    <3> QED
        BY <1>2, <2>2
  <2> QED
      BY <2>1, <2>2, <2>3, SeqEqual
<1>8. Saved # <<>>
    BY <1>1, <1>2, <1>4 DEF SavedFacts
<1> QED
    BY <1>3, <1>6, <1>7, <1>8 DEF Copies!Restore, Table, Saved, Current

LEMMA RestorePopRefines ==
    ASSUME JInv, JInv', RestorePop
    PROVE  UNCHANGED AbstractVars
<1> USE DEF JInv, IInv
<1>1. SavedFacts /\ SavedFacts' /\ TypeOK'
    BY SavedAre, SavedAreNext
<1>2. PICK N \in Nat : IsLen(N, journal)
    BY DEF IsLen, TypeOK
<1>3. restoring /\ restoring' /\ UNCHANGED <<frames, next_var>>
    BY DEF RestorePop
<1>4. frames # <<>> /\ \A i \in 1 .. Len(frames) : frames[i].journal_len < N
    BY <1>2, PopStep
<1>5. Depth' = Depth
    BY <1>3 DEF Depth
<1>6. ASSUME NEW i \in 1 .. Depth
      PROVE  \E n : /\ n = frames[i].journal_len
                    /\ n = frames'[i].journal_len
                    /\ UndoneTo(n)' = UndoneTo(n)
  <2>1. PICK n \in Nat : n = frames[i].journal_len /\ n < Len(journal)
      BY <1>1, <1>2, <1>4 DEF SavedFacts, IsLen
  <2> QED
      BY <1>1, <1>3, <2>1, PopInCopy
<1>7. Saved' = Saved
    BY <1>1, <1>5, <1>6, SavedKept
<1>8. Table' = Table
  <2>1. PICK n \in Nat : n = Top.journal_len /\ n < Len(journal)
      BY <1>4, TopFrame DEF RestorePop
  <2>2. n = Top'.journal_len
      BY <1>3, <2>1 DEF Top
  <2>3. UndoneTo(n)' = UndoneTo(n)
      BY <1>1, <2>1, PopInCopy
  <2> QED
      BY <1>3, <2>1, <2>2, <2>3 DEF Table
<1> QED
    BY <1>3, <1>7, <1>8 DEF AbstractVars

LEMMA RestoreEndRefines ==
    ASSUME JInv, JInv', RestoreEnd
    PROVE  UNCHANGED AbstractVars
<1> USE DEF JInv, IInv
<1>1. SavedFacts /\ SavedFacts' /\ TypeOK'
    BY SavedAre, SavedAreNext
<1>2. /\ restoring /\ ~restoring' /\ frames # <<>> /\ PopFrame
      /\ UNCHANGED <<map, levels, journal, next_var>>
    BY DEF RestoreEnd, Discipline
<1>3. /\ Len(frames') = Len(frames) - 1
      /\ \A i \in 1 .. Len(frames') : frames'[i] = frames[i]
    BY <1>2, TypePopFrame
<1>4. Depth' = Depth /\ \A i \in 1 .. Depth : frames'[i] = frames[i]
    BY <1>2, <1>3 DEF Depth
<1>5. Saved' = Saved
    BY <1>1, <1>2, <1>4, SavedUnmoved
<1>6. Table' = Table
  <2>1. PICK n \in Nat : n = Top.journal_len /\ n = Len(journal)
      BY <1>2, TopFrame DEF RestoreEnd, TypeOK
  <2>2. Table = UndoneTo(n)
      BY <1>2, <2>1 DEF Table
  <2>3. Table = Current
      BY <2>1, <2>2, NothingUndone
  <2>4. Table' = Current' /\ Current' = Current
      BY <1>2 DEF Table, Current
  <2> QED
      BY <2>3, <2>4
<1> QED
    BY <1>2, <1>5, <1>6 DEF AbstractVars

LEMMA DiscardRefines ==
    ASSUME JInv, JInv', DiscardOutermost
    PROVE  Copies!Commit
<1> USE DEF JInv, IInv
<1>1. SavedFacts /\ SavedFacts' /\ TypeOK'
    BY SavedAre, SavedAreNext
<1>2. /\ Len(frames) = 1 /\ ~restoring /\ ~restoring'
      /\ UNCHANGED <<map, levels, next_var>>
  <2>1. frames # <<>> /\ Top.kind = "statement"
      BY DEF DiscardOutermost
  <2>2. PICK n \in Nat : n = Len(frames) /\ n >= 1 /\ n <= 1
      BY <2>1, TopFrame
  <2>3. Len(frames) = 1
      BY <2>2
  <2>4. ~restoring /\ ~restoring'
      BY DEF DiscardOutermost, Running
  <2>5. UNCHANGED <<map, levels, next_var>>
      BY DEF DiscardOutermost
  <2> QED
      BY <2>3, <2>4, <2>5
<1>3. frames' = <<>>
  <2>1. frames # <<>> /\ PopFrame
      BY <1>2, TopFrame DEF DiscardOutermost, Discipline
  <2> QED
      BY <1>2, <2>1, TypePopFrame
<1>4. Depth = 1 /\ Depth' = 0
    BY <1>2, <1>3, EmptySeq DEF Depth
<1>5. Len(Saved) = 1 /\ Saved' = <<>>
    BY <1>1, <1>4 DEF SavedFacts
<1>6. Table' = Table
    BY <1>2 DEF Table, Current
<1> QED
    BY <1>2, <1>5, <1>6 DEF Copies!Commit, Table, Saved, Current

LEMMA ClearRefines ==
    ASSUME JInv, JInv', ClearMapKeepCounter
    PROVE  Copies!Clear
<1> USE DEF JInv, IInv
<1>1. SavedFacts /\ SavedFacts'
    BY SavedAre, SavedAreNext
<1>2. /\ frames = <<>> /\ frames' = <<>> /\ ~restoring /\ ~restoring'
      /\ map' = [v \in TyVar |-> Unbound]
      /\ levels' = [v \in TyVar |-> RootLevel]
      /\ UNCHANGED next_var
    BY DEF ClearMapKeepCounter, Running
<1>3. Depth = 0 /\ Depth' = 0
    BY <1>2, EmptySeq DEF Depth
<1>4. Saved = <<>> /\ Saved' = <<>>
    BY <1>1, <1>3 DEF SavedFacts
<1>5. Table' = [map |-> [v \in TyVar |-> Unbound], levels |-> [v \in TyVar |-> RootLevel]]
    BY <1>2 DEF Table, Current
<1> QED
    BY <1>2, <1>4, <1>5, SameConstants DEF Copies!Clear, Copies!EmptyTable, Table, Saved, Current

LEMMA StepRefines ==
    ASSUME JInv, JInv', [Next]_vars
    PROVE  [Copies!Next]_AbstractVars
<1>1. CASE UNCHANGED vars
  <2>1. UNCHANGED AbstractVars
      BY <1>1 DEF vars, AbstractVars, Table, Saved, Current, UndoneTo, Entries, HeldFrames, Top
  <2> QED
      BY <2>1
<1>2. ASSUME NEW level \in Level, FreshTyvarAt(level)
      PROVE  Copies!Next
    BY <1>2, FreshRefines, SameConstants DEF Copies!Next
<1>3. ASSUME NEW v \in Allocated, NEW ty \in SUBSET Allocated, BindTy(v, ty)
      PROVE  Copies!Next
    BY <1>3, BindRefines DEF Copies!Next, Allocated
<1>4. CASE BeginStatement
    BY <1>4, CheckpointRefines DEF BeginStatement, Copies!Next
<1>5. CASE BeginProbe
    BY <1>5, CheckpointRefines DEF BeginProbe, Copies!Next
<1>6. CASE RestoreBegin
    BY <1>6, RestoreBeginRefines DEF Copies!Next
<1>7. CASE RestorePop
    BY <1>7, RestorePopRefines
<1>8. CASE RestoreEnd
    BY <1>8, RestoreEndRefines
<1>9. CASE DiscardOutermost
    BY <1>9, DiscardRefines DEF Copies!Next
<1>10. CASE ClearMapKeepCounter
    BY <1>10, ClearRefines DEF Copies!Next
<1> QED
    BY <1>1, <1>2, <1>3, <1>4, <1>5, <1>6, <1>7, <1>8, <1>9, <1>10 DEF Next

(* Whatever inference does, the substitution with its journal behaves as a table
   whose checkpoints are whole copies (Subst::checkpoint, restore_checkpoint and
   discard_outermost_checkpoint): undoing the entries past a checkpoint cannot be
   told from putting the copy back, at any depth of nested overload probes. *)
THEOREM JournalImplementsCopies == Spec => ImplementsCopies
<1>1. Spec => []JInv
    BY JInvInit, JInvNext, PTL DEF Spec
<1>2. JInv /\ JInv' /\ [Next]_vars => [Copies!Next]_AbstractVars
    BY StepRefines
<1>3. Spec => Copies!Init /\ [][Copies!Next]_AbstractVars
    BY <1>1, <1>2, InitRefines, PTL DEF Spec
<1> QED
    BY <1>3, PTL DEF ImplementsCopies, Copies!Spec, AbstractVars, Table, Saved, Current
=============================================================================
