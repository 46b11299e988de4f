----------------------------- MODULE LoadingProofs -----------------------------
(***************************************************************************)
(* What holds of loading and inferring every graph of modules:             *)
(*                                                                         *)
(*   ImportsAlwaysComeFirst   ImportsComeFirst: a module comes after all   *)
(*                            that it imports                              *)
(*   NoCascadesEver           NoCascades: a module is inferred only when   *)
(*                            what it depends on was, without an error     *)
(*   LoadersAlwaysAgree       LoadersAgree: the loader that stops at the   *)
(*                            first error and the one that collects agree  *)
(***************************************************************************)
EXTENDS ModuleLoading, TLAPS, FiniteSetTheorems

LoadingSpec == LoadingInit /\ [][LoadingNext]_loadingVars

-----------------------------------------------------------------------------
(* What loading comes across: the least set of modules that holds the entry *)
(* and all that its members import.  What an analysis finds is decided by   *)
(* the sources of those modules alone.                                     *)

\* Imports lead to modules that there are sources for.
Resolved(texts) == \A m \in DOMAIN texts : Imports(texts, m) \subseteq DOMAIN texts

LEMMA ReachedIsClosed ==
    ASSUME NEW texts, Resolved(texts), NEW entry \in DOMAIN texts
    PROVE  /\ entry \in Reached(texts, entry)
           /\ Reached(texts, entry) \subseteq DOMAIN texts
           /\ Closed(texts, Reached(texts, entry))
<1>1. entry \in Reached(texts, entry) /\ Reached(texts, entry) \subseteq DOMAIN texts
    BY DEF Reached
<1>2. ASSUME NEW m \in Reached(texts, entry), NEW i \in Imports(texts, m)
      PROVE  i \in Reached(texts, entry)
  <2>1. i \in DOMAIN texts /\ m \in DOMAIN texts
      BY <1>2 DEF Resolved, Reached
  <2>2. ASSUME NEW C \in SUBSET (DOMAIN texts \ {i}), entry \in C, Closed(texts, C)
        PROVE  FALSE
    <3>1. m \notin C
        BY <1>2, <2>2 DEF Closed
    <3>2. C \in SUBSET (DOMAIN texts \ {m})
        BY <3>1
    <3> QED
        BY <1>2, <2>2, <3>2 DEF Reached
  <2> QED
      BY <2>1, <2>2 DEF Reached
<1> QED
    BY <1>1, <1>2 DEF Closed

LEMMA ReachedIsLeast ==
    ASSUME NEW texts, NEW entry, NEW C \in SUBSET DOMAIN texts,
           entry \in C, Closed(texts, C)
    PROVE  Reached(texts, entry) \subseteq C
<1>1. SUFFICES ASSUME NEW m \in Reached(texts, entry), m \notin C
               PROVE  FALSE
    OBVIOUS
<1>2. C \in SUBSET (DOMAIN texts \ {m})
    BY <1>1
<1> QED
    BY <1>1, <1>2 DEF Reached

LEMMA ReachedIsTransitive ==
    ASSUME NEW texts, Resolved(texts), NEW entry \in DOMAIN texts,
           NEW m \in Reached(texts, entry)
    PROVE  Reached(texts, m) \subseteq Reached(texts, entry)
BY ReachedIsClosed, ReachedIsLeast

\* There are sources for the same modules, and those of the modules in C are the same.
SameOn(sources1, sources2, C) ==
    DOMAIN sources1 = DOMAIN sources2 /\ \A m \in C : sources1[m] = sources2[m]

LEMMA ReachedAgrees ==
    ASSUME NEW sources1, NEW sources2, NEW entry \in DOMAIN sources1,
           Resolved(sources1), Resolved(sources2),
           SameOn(sources1, sources2, Reached(sources1, entry))
    PROVE  Reached(sources2, entry) = Reached(sources1, entry)
<1>1. PICK C1, C2 : C1 = Reached(sources1, entry) /\ C2 = Reached(sources2, entry)
    OBVIOUS
<1>2. /\ entry \in C1 /\ C1 \in SUBSET DOMAIN sources1 /\ Closed(sources1, C1)
      /\ entry \in C2 /\ C2 \in SUBSET DOMAIN sources1 /\ Closed(sources2, C2)
      /\ DOMAIN sources1 = DOMAIN sources2
    BY <1>1, ReachedIsClosed DEF SameOn
<1>3. \A m \in C1 : sources1[m] = sources2[m]
    BY <1>1 DEF SameOn
<1>4. Closed(sources2, C1)
    BY <1>2, <1>3 DEF Closed, Imports
<1>5. C2 \subseteq C1
    BY <1>1, <1>2, <1>4, ReachedIsLeast
<1>6. Closed(sources1, C2)
    BY <1>2, <1>3, <1>5 DEF Closed, Imports
<1>7. C1 \subseteq C2
    BY <1>1, <1>2, <1>6, ReachedIsLeast
<1> QED
    BY <1>1, <1>5, <1>7

LEMMA SameOnSmaller ==
    ASSUME NEW sources1, NEW sources2, NEW C, NEW D, SameOn(sources1, sources2, C), D \subseteq C
    PROVE  SameOn(sources1, sources2, D)
BY DEF SameOn

\* What is found depends on the sources of the modules that are reached.
LEMMA DiagnosticsAgree ==
    ASSUME NEW sources1, NEW sources2, NEW entry \in DOMAIN sources1,
           Resolved(sources1), Resolved(sources2),
           SameOn(sources1, sources2, Reached(sources1, entry))
    PROVE  /\ Loaded(sources2, entry) = Loaded(sources1, entry)
           /\ Diagnostics(sources2, entry) = Diagnostics(sources1, entry)
<1>1. PICK C : C = Reached(sources1, entry)
    OBVIOUS
<1>2. /\ C = Reached(sources2, entry) /\ entry \in C /\ C \subseteq DOMAIN sources1
      /\ \A m \in C : sources1[m] = sources2[m] /\ Imports(sources1, m) = Imports(sources2, m)
      /\ \A m \in C : Imports(sources1, m) \subseteq C
      /\ DOMAIN sources1 = DOMAIN sources2
    BY <1>1, ReachedAgrees, ReachedIsClosed DEF SameOn, Imports, Closed
<1>3. Loaded(sources2, entry) = Loaded(sources1, entry)
    BY <1>1, <1>2 DEF Loaded
<1>4. \A m \in C : OwnLoadDiagnostics(sources2, m) = OwnLoadDiagnostics(sources1, m)
  <2>1. SUFFICES ASSUME NEW m \in C
                 PROVE  OwnLoadDiagnostics(sources2, m) = OwnLoadDiagnostics(sources1, m)
      OBVIOUS
  <2>2. {i \in Imports(sources2, m) : sources2[i].fault = "missing"}
            = {i \in Imports(sources1, m) : sources1[i].fault = "missing"}
      BY <1>2
  <2> QED
      BY <1>2, <2>2 DEF OwnLoadDiagnostics
<1>5. LoadDiagnostics(sources2, entry) = LoadDiagnostics(sources1, entry)
  <2>1. {entry} \intersect {m \in DOMAIN sources2 : sources2[m].fault = "missing"}
            = {entry} \intersect {m \in DOMAIN sources1 : sources1[m].fault = "missing"}
      BY <1>2
  <2>2. UNION {OwnLoadDiagnostics(sources2, m) : m \in C}
            = UNION {OwnLoadDiagnostics(sources1, m) : m \in C}
      BY <1>4
  <2> QED
      BY <1>1, <1>2, <2>1, <2>2 DEF LoadDiagnostics
<1>6. \A m \in C : Unavailable(sources2, m) <=> Unavailable(sources1, m)
  <2>1. SUFFICES ASSUME NEW m \in C
                 PROVE  Unavailable(sources2, m) <=> Unavailable(sources1, m)
      OBVIOUS
  <2>2. Reached(sources1, m) \subseteq C /\ m \in DOMAIN sources1
      BY <1>1, <1>2, ReachedIsTransitive
  <2>3. Reached(sources2, m) = Reached(sources1, m)
      BY <1>1, <2>2, SameOnSmaller, ReachedAgrees
  <2> QED
      BY <1>2, <2>2, <2>3 DEF Unavailable
<1>7. TypeDiagnostics(sources2, entry) = TypeDiagnostics(sources1, entry)
  <2>1. Loaded(sources1, entry) \subseteq C
      BY <1>1 DEF Loaded
  <2>2. {m \in Loaded(sources2, entry) : sources2[m].fault = "type" /\ ~Unavailable(sources2, m)}
            = {m \in Loaded(sources1, entry) : sources1[m].fault = "type" /\ ~Unavailable(sources1, m)}
      BY <1>2, <1>3, <1>6, <2>1
  <2> QED
      BY <2>2 DEF TypeDiagnostics
<1> QED
    BY <1>3, <1>5, <1>7 DEF Diagnostics

-----------------------------------------------------------------------------
(* Sequences that grow and shrink at their end.                            *)

LEMMA AppendIs ==
    ASSUME NEW T, NEW s \in Seq(T), NEW x \in T
    PROVE  /\ Append(s, x) \in Seq(T) /\ Len(Append(s, x)) = Len(s) + 1 /\ Append(s, x) # <<>>
           /\ \A i \in 1 .. Len(s) : Append(s, x)[i] = s[i]
           /\ Append(s, x)[Len(s) + 1] = x
           /\ ToSet(Append(s, x)) = ToSet(s) \union {x}
<1>1. PICK n \in Nat : n = Len(s) /\ DOMAIN s = 1 .. n
    OBVIOUS
<1>2. PICK t : t = Append(s, x)
    OBVIOUS
<1>3. /\ t \in Seq(T) /\ Len(t) = n + 1 /\ t[n + 1] = x /\ DOMAIN t = 1 .. (n + 1)
      /\ \A i \in 1 .. n : t[i] = s[i]
    BY <1>1, <1>2
<1>4. t # <<>>
    BY <1>1, <1>3
<1>5. ToSet(t) = ToSet(s) \union {x}
  <2>1. 1 .. (n + 1) = 1 .. n \union {n + 1}
      BY <1>1
  <2> QED
      BY <1>1, <1>3, <2>1 DEF ToSet
<1> QED
    BY <1>1, <1>2, <1>3, <1>4, <1>5

LEMMA PopIs ==
    ASSUME NEW T, NEW s \in Seq(T), s # <<>>
    PROVE  /\ Len(s) \in 1 .. Len(s) /\ s[Len(s)] \in T
           /\ SubSeq(s, 1, Len(s) - 1) \in Seq(T)
           /\ Len(SubSeq(s, 1, Len(s) - 1)) = Len(s) - 1
           /\ \A i \in 1 .. (Len(s) - 1) : SubSeq(s, 1, Len(s) - 1)[i] = s[i]
<1>1. PICK n \in Nat : n = Len(s) /\ n > 0
    OBVIOUS
<1>2. n \in 1 .. n /\ s[n] \in T
    BY <1>1
<1>3. \A i \in 1 .. (n - 1) : s[i] \in T
    BY <1>1
<1>4. /\ SubSeq(s, 1, n - 1) \in Seq(T)
      /\ Len(SubSeq(s, 1, n - 1)) = n - 1
    BY <1>1, <1>3
<1>5. \A i \in 1 .. (n - 1) : SubSeq(s, 1, n - 1)[i] = s[i]
    BY <1>1, <1>3
<1> QED
    BY <1>1, <1>2, <1>4, <1>5

LEMMA HeadAndTail ==
    ASSUME NEW T, NEW s \in Seq(T), s # <<>>
    PROVE  /\ Head(s) \in T /\ Tail(s) \in Seq(T)
           /\ ToSet(s) = ToSet(Tail(s)) \union {Head(s)}
<1>1. PICK m \in Nat : m = Len(s) /\ m > 0
    OBVIOUS
<1>2. /\ DOMAIN s = 1 .. m /\ DOMAIN Tail(s) = 1 .. (m - 1) /\ Head(s) = s[1]
      /\ \A i \in 1 .. (m - 1) : Tail(s)[i] = s[i + 1]
    BY <1>1
<1>3. ASSUME NEW x \in ToSet(s) PROVE x \in ToSet(Tail(s)) \union {Head(s)}
  <2>1. PICK i \in 1 .. m : x = s[i]
      BY <1>2, <1>3 DEF ToSet
  <2>2. CASE i = 1
      BY <1>2, <2>1, <2>2
  <2>3. CASE i # 1
    <3>1. i - 1 \in 1 .. (m - 1)
        BY <1>1, <2>3
    <3>2. Tail(s)[i - 1] = s[i]
        BY <1>2, <3>1
    <3> QED
        BY <1>2, <2>1, <3>1, <3>2 DEF ToSet
  <2> QED
      BY <2>2, <2>3
<1>4. ASSUME NEW x \in ToSet(Tail(s)) \union {Head(s)} PROVE x \in ToSet(s)
  <2>1. CASE x = Head(s)
      BY <1>1, <1>2, <2>1 DEF ToSet
  <2>2. CASE x \in ToSet(Tail(s))
    <3>1. PICK i \in 1 .. (m - 1) : x = s[i + 1]
        BY <1>2, <2>2 DEF ToSet
    <3>2. i + 1 \in 1 .. m
        BY <1>1, <3>1
    <3> QED
        BY <1>2, <3>1, <3>2 DEF ToSet
  <2> QED
      BY <1>4, <2>1, <2>2
<1> QED
    BY <1>3, <1>4

-----------------------------------------------------------------------------
(* The types.                                                              *)

\* What the loaders and inference may report.
Said == {Diagnostic(m, what) : m \in Module, what \in Fault \union {"unresolved", "circular"}}

LoadTyped ==
    /\ phase \in {"fail_fast", "recovering", "infer", "done"}
    /\ sources \in [Module -> SourceFile]
    /\ stack \in Seq(Call)
    /\ call = <<>> \/ (\E m \in Module : call = <<m>>)
    /\ order \in Seq(Module)
    /\ diagnostics \in Seq(Said)

LEMMA SourceIs ==
    ASSUME LoadTyped, NEW m \in Module
    PROVE  /\ sources[m].imports \in Seq(Module)
           /\ sources[m].fault \in Fault
           /\ Imports(sources, m) = ToSet(sources[m].imports)
           /\ Imports(sources, m) \subseteq Module
<1>1. sources[m] \in SourceFile
    BY DEF LoadTyped
<1>2. /\ sources[m].imports \in ImportLists /\ sources[m].fault \in Faults
      /\ Readable(sources[m]) \/ sources[m].imports = <<>>
    BY <1>1 DEF SourceFile
<1>3. sources[m].imports \in Seq(Module)
  <2>1. PICK n \in 0 .. MaxImports : sources[m].imports \in [1 .. n -> Module]
      BY <1>2 DEF ImportLists
  <2> QED
      BY <2>1
<1>4. Imports(sources, m) = ToSet(sources[m].imports)
    BY <1>2 DEF Imports, ToSet
<1>5. ToSet(sources[m].imports) \subseteq Module
    BY <1>3 DEF ToSet
<1> QED
    BY <1>2, <1>3, <1>4, <1>5, FaultsAssumption

\* A report adds a diagnostic when the loader recovers, and none when it does not.
LEMMA ReportIs ==
    ASSUME diagnostics \in Seq(Said), NEW d \in Said, Report(d)
    PROVE  /\ diagnostics' \in Seq(Said)
           /\ phase = "recovering" => diagnostics' # <<>> /\ diagnostics' = Append(diagnostics, d)
           /\ phase # "recovering" => diagnostics' = diagnostics
<1>1. Append(diagnostics, d) \in Seq(Said) /\ Append(diagnostics, d) # <<>>
    BY AppendIs
<1> QED
    BY <1>1 DEF Report

\* The frame that is worked on.
LEMMA TopIs ==
    ASSUME stack \in Seq(Call), stack # <<>>
    PROVE  /\ Len(stack) \in 1 .. Len(stack)
           /\ Top = stack[Len(stack)] /\ Top.module \in Module /\ Top.imports \in Seq(Module)
           /\ Pop \in Seq(Call) /\ Len(Pop) = Len(stack) - 1
           /\ \A k \in 1 .. (Len(stack) - 1) : Pop[k] = stack[k]
<1>1. /\ Len(stack) \in 1 .. Len(stack) /\ stack[Len(stack)] \in Call
      /\ Pop \in Seq(Call) /\ Len(Pop) = Len(stack) - 1
      /\ \A k \in 1 .. (Len(stack) - 1) : Pop[k] = stack[k]
    BY PopIs DEF Pop
<1>2. Top \in Call
    BY <1>1 DEF Top
<1>3. Top.module \in Module /\ Top.imports \in Seq(Module)
    BY <1>2 DEF Call
<1> QED
    BY <1>1, <1>3 DEF Top

\* After the next import was taken from the frame.
LEMMA ResolvedStackIs ==
    ASSUME stack \in Seq(Call), stack # <<>>, Top.imports # <<>>,
           stack' = [stack EXCEPT ![Len(stack)].imports = Tail(@)]
    PROVE  /\ stack' \in Seq(Call) /\ Len(stack') = Len(stack)
           /\ \A k \in 1 .. Len(stack) : stack'[k].module = stack[k].module
           /\ \A k \in 1 .. (Len(stack) - 1) : stack'[k] = stack[k]
           /\ stack'[Len(stack)].imports = Tail(Top.imports)
           /\ Head(Top.imports) \in Module
           /\ ToSet(Top.imports) = ToSet(Tail(Top.imports)) \union {Head(Top.imports)}
<1>1. PICK n \in Nat : n = Len(stack) /\ n > 0
    OBVIOUS
<1>2. PICK frame \in Call : frame = stack[n]
    BY <1>1
<1>3. frame.module \in Module /\ frame.imports \in Seq(Module) /\ frame.imports # <<>> /\ Top = frame
    BY <1>1, <1>2 DEF Call, Top
<1>4. Tail(frame.imports) \in Seq(Module) /\ Head(frame.imports) \in Module
    BY <1>3
<1>5. PICK left : left = [frame EXCEPT !.imports = Tail(@)]
    OBVIOUS
<1>6. left \in Call /\ left.module = frame.module /\ left.imports = Tail(frame.imports)
    BY <1>2, <1>4, <1>5 DEF Call
<1>7. stack' = [stack EXCEPT ![n] = left]
    BY <1>1, <1>2, <1>5
<1>8. /\ stack' \in Seq(Call) /\ Len(stack') = n /\ stack'[n] = left
      /\ \A k \in 1 .. (n - 1) : stack'[k] = stack[k]
  <2>1. stack \in [1 .. n -> Call]
      BY <1>1
  <2>2. stack' \in [1 .. n -> Call]
      BY <1>6, <1>7, <2>1
  <2>3. stack' \in Seq(Call) /\ Len(stack') = n
      BY <2>2
  <2>4. n \in 1 .. n /\ \A k \in 1 .. (n - 1) : k \in 1 .. n /\ k # n
      BY <1>1
  <2>5. stack'[n] = left /\ \A k \in 1 .. n : k # n => stack'[k] = stack[k]
      BY <1>7, <2>1, <2>4
  <2> QED
      BY <2>3, <2>4, <2>5
<1>9. \A k \in 1 .. n : stack'[k].module = stack[k].module
  <2>1. \A k \in 1 .. n : k = n \/ k \in 1 .. (n - 1)
      BY <1>1
  <2> QED
      BY <1>2, <1>6, <1>8, <2>1
<1>10. ToSet(frame.imports) = ToSet(Tail(frame.imports)) \union {Head(frame.imports)}
    BY <1>3, HeadAndTail
<1> QED
    BY <1>1, <1>3, <1>4, <1>6, <1>8, <1>9, <1>10

LEMMA InitTyped == LoadingInit => LoadTyped
BY EntryAssumption DEF LoadingInit, NewGraph, LoadTyped

\* The loop of inference has not run off the end of the order.
NextIsModule == phase = "infer" /\ ~AllSeen => NextModule \in Module

LEMMA StepTyped ==
    LoadTyped /\ NextIsModule /\ [LoadingNext]_loadingVars => LoadTyped'
<1> SUFFICES ASSUME LoadTyped, NextIsModule, [LoadingNext]_loadingVars
             PROVE  LoadTyped'
    OBVIOUS
<1> USE DEF LoadTyped
<1>1. CASE AlreadyLoaded
    BY <1>1 DEF AlreadyLoaded, Silent
<1>2. CASE CircularImport
  <2>1. Diagnostic(call[1], "circular") \in Said
      BY <1>2 DEF CircularImport, Said
  <2> QED
      BY <1>2, <2>1, ReportIs DEF CircularImport
<1>3. CASE UnreadableModule
  <2>1. UnreadableDiagnostic \in Said
      BY <1>3 DEF UnreadableModule, UnreadableDiagnostic, Said, Fault
  <2> QED
      BY <1>3, <2>1, ReportIs DEF UnreadableModule
<1>4. CASE ReadModule
  <2>1. call[1] \in Module
      BY <1>4 DEF ReadModule
  <2>2. stack' \in Seq(Call)
    <3>1. [module |-> call[1], imports |-> sources[call[1]].imports] \in Call
        BY <2>1, SourceIs DEF Call
    <3> QED
        BY <1>4, <3>1 DEF ReadModule
  <2>3. diagnostics' \in Seq(Said)
    <3>1. CASE sources[call[1]].fault = "parse"
      <4>1. Diagnostic(call[1], "parse") \in Said
          BY <2>1 DEF Said, Fault
      <4>2. Report(Diagnostic(call[1], "parse"))
          BY <1>4, <3>1 DEF ReadModule
      <4> QED
          BY <4>1, <4>2, ReportIs
    <3>2. CASE sources[call[1]].fault # "parse"
        BY <1>4, <3>2 DEF ReadModule, Silent
    <3> QED
        BY <3>1, <3>2
  <2> QED
      BY <1>4, <2>2, <2>3 DEF ReadModule
<1>5. CASE ResolveImport
  <2>1. /\ stack' \in Seq(Call) /\ Head(Top.imports) \in Module /\ Top.module \in Module
      BY <1>5, ResolvedStackIs, TopIs DEF ResolveImport
  <2>2. Diagnostic(Top.module, "unresolved") \in Said
      BY <2>1 DEF Said
  <2>3. diagnostics' \in Seq(Said)
      BY <1>5, <2>2, ReportIs DEF ResolveImport, Silent
  <2>4. call' = <<>> \/ (\E m \in Module : call' = <<m>>)
      BY <1>5, <2>1 DEF ResolveImport
  <2> QED
      BY <1>5, <2>1, <2>3, <2>4 DEF ResolveImport
<1>6. CASE FinishModule
  <2>1. Pop \in Seq(Call) /\ Top.module \in Module
      BY <1>6, TopIs DEF FinishModule
  <2>2. Diagnostic(Top.module, "fixity") \in Said
      BY <2>1 DEF Said, Fault
  <2>3. diagnostics' \in Seq(Said)
      BY <1>6, <2>2, ReportIs DEF FinishModule, Silent
  <2>4. order' \in Seq(Module)
    <3>1. Append(order, Top.module) \in Seq(Module)
        BY <2>1, AppendIs
    <3> QED
        BY <1>6, <3>1 DEF FinishModule
  <2> QED
      BY <1>6, <2>1, <2>3, <2>4 DEF FinishModule
<1>7. CASE ReturnError
    BY <1>7, TopIs DEF ReturnError
<1>8. CASE StartRecovering
    BY <1>8, EntryAssumption DEF StartRecovering
<1>9. CASE EndRecovering \/ SkipModule \/ EndInference
    BY <1>9 DEF EndRecovering, SkipModule, EndInference
<1>10. CASE InferModule
  <2>1. Append(diagnostics, Diagnostic(NextModule, "type")) \in Seq(Said)
    <3>1. NextModule \in Module
        BY <1>10 DEF InferModule, NextIsModule
    <3>2. Diagnostic(NextModule, "type") \in Said
        BY <3>1 DEF Said, Fault
    <3> QED
        BY <3>2, AppendIs
  <2> QED
      BY <1>10, <2>1 DEF InferModule
<1>11. CASE LoadingDone \/ UNCHANGED loadingVars
    BY <1>11 DEF LoadingDone, loadingVars
<1> QED
    BY <1>1, <1>2, <1>3, <1>4, <1>5, <1>6, <1>7, <1>8, <1>9, <1>10, <1>11 DEF LoadingNext

-----------------------------------------------------------------------------
(* Every module is loaded once.                                            *)

Modules(frames) == {frames[k].module : k \in 1 .. Len(frames)}

\* No module is loaded by two calls, or again after it was loaded.
LoadedOnce ==
    /\ IsInjective(order)
    /\ \A j, k \in 1 .. Len(stack) : stack[j].module = stack[k].module => j = k
    /\ loading = Modules(stack)
    /\ ToSet(order) \intersect loading = {}

\* The end of a call.
LEMMA PopLoads ==
    ASSUME LoadTyped, LoadedOnce, stack # <<>>
    PROVE  /\ \A j, k \in 1 .. Len(Pop) : Pop[j].module = Pop[k].module => j = k
           /\ loading \ {Top.module} = Modules(Pop)
           /\ Top.module \in loading /\ Top.module \notin ToSet(order)
<1>1. PICK n \in Nat : n = Len(stack) /\ n > 0
    BY DEF LoadTyped
<1>2. /\ Len(Pop) = n - 1 /\ Top = stack[n]
      /\ \A k \in 1 .. (n - 1) : Pop[k] = stack[k]
    BY <1>1, TopIs DEF LoadTyped
<1>3. \A k \in 1 .. (n - 1) : k \in 1 .. n /\ k # n
    BY <1>1
<1>4. n \in 1 .. n /\ 1 .. n = 1 .. (n - 1) \union {n}
    BY <1>1
<1>5. \A j, k \in 1 .. n : stack[j].module = stack[k].module => j = k
    BY <1>1 DEF LoadedOnce
<1>6. loading = {stack[k].module : k \in 1 .. n}
    BY <1>1 DEF LoadedOnce, Modules
<1>7. Top.module \in loading
    BY <1>2, <1>4, <1>6
<1>8. ASSUME NEW m \in loading \ {Top.module} PROVE m \in Modules(Pop)
  <2>1. PICK k \in 1 .. n : m = stack[k].module
      BY <1>6, <1>8
  <2>2. k \in 1 .. (n - 1)
      BY <1>2, <1>4, <1>8, <2>1
  <2> QED
      BY <1>2, <2>1, <2>2 DEF Modules
<1>9. ASSUME NEW m \in Modules(Pop) PROVE m \in loading \ {Top.module}
  <2>1. PICK k \in 1 .. (n - 1) : m = stack[k].module
      BY <1>2, <1>9 DEF Modules
  <2>2. k \in 1 .. n /\ k # n
      BY <1>3
  <2>3. stack[k].module # stack[n].module
      BY <1>4, <1>5, <2>2
  <2> QED
      BY <1>2, <1>6, <2>1, <2>2, <2>3
<1>10. \A j, k \in 1 .. (n - 1) : Pop[j].module = Pop[k].module => j = k
    BY <1>2, <1>3, <1>5
<1> QED
    BY <1>2, <1>7, <1>8, <1>9, <1>10 DEF LoadedOnce

\* The start of a call.
LEMMA PushLoads ==
    ASSUME LoadTyped, LoadedOnce, NEW frame \in Call, frame.module \notin loading,
           stack' = Append(stack, frame)
    PROVE  /\ \A j, k \in 1 .. Len(stack') : stack'[j].module = stack'[k].module => j = k
           /\ Modules(stack') = loading \union {frame.module}
<1>1. PICK n \in Nat : n = Len(stack)
    BY DEF LoadTyped
<1>2. /\ Len(stack') = n + 1 /\ stack'[n + 1] = frame
      /\ \A k \in 1 .. n : stack'[k] = stack[k]
    BY <1>1, AppendIs DEF LoadTyped
<1>3. 1 .. (n + 1) = 1 .. n \union {n + 1}
    BY <1>1
<1>4. \A k \in 1 .. n : stack[k].module # frame.module
    BY <1>1 DEF LoadedOnce, Modules
<1>5. \A j, k \in 1 .. n : stack[j].module = stack[k].module => j = k
    BY <1>1 DEF LoadedOnce
<1>6. \A j, k \in 1 .. (n + 1) : stack'[j].module = stack'[k].module => j = k
    BY <1>2, <1>3, <1>4, <1>5
<1>7. Modules(stack') = loading \union {frame.module}
    BY <1>1, <1>2, <1>3 DEF LoadedOnce, Modules
<1> QED
    BY <1>2, <1>6, <1>7

LEMMA AppendIsInjective ==
    ASSUME NEW T, NEW s \in Seq(T), NEW x \in T, IsInjective(s), x \notin ToSet(s)
    PROVE  IsInjective(Append(s, x))
<1>0. PICK n \in Nat : n = Len(s) /\ DOMAIN s = 1 .. n
    OBVIOUS
<1>1. PICK t : t = Append(s, x) /\ n = Len(s) /\ DOMAIN s = 1 .. n
    BY <1>0
<1>2. DOMAIN t = 1 .. n \union {n + 1} /\ t[n + 1] = x /\ \A i \in 1 .. n : t[i] = s[i]
  <2>1. 1 .. (n + 1) = 1 .. n \union {n + 1} /\ DOMAIN t = 1 .. (n + 1)
      BY <1>1, AppendIs
  <2> QED
      BY <1>1, <2>1, AppendIs
<1>3. \A i \in 1 .. n : s[i] # x
    BY <1>1 DEF ToSet
<1>4. \A i, j \in 1 .. n : s[i] = s[j] => i = j
    BY <1>1 DEF IsInjective
<1>5. \A i, j \in DOMAIN t : t[i] = t[j] => i = j
    BY <1>2, <1>3, <1>4
<1> QED
    BY <1>1, <1>5 DEF IsInjective

LEMMA InitOnce == LoadingInit => LoadedOnce
BY DEF LoadingInit, NewGraph, LoadedOnce, Modules, IsInjective, ToSet

LEMMA StepOnce == LoadTyped /\ LoadedOnce /\ [LoadingNext]_loadingVars => LoadedOnce'
<1> SUFFICES ASSUME LoadTyped, LoadedOnce, [LoadingNext]_loadingVars
             PROVE  LoadedOnce'
    OBVIOUS
<1>1. CASE UNCHANGED <<stack, loading, order>>
    BY <1>1 DEF LoadedOnce, Modules
<1>2. CASE ReadModule
  <2>1. PICK frame : frame = [module |-> call[1], imports |-> sources[call[1]].imports]
      OBVIOUS
  <2>2. call[1] \in Module
      BY <1>2 DEF ReadModule, LoadTyped
  <2>3. frame \in Call /\ frame.module = call[1]
      BY <2>1, <2>2, SourceIs DEF Call
  <2>4. /\ stack' = Append(stack, frame) /\ loading' = loading \union {frame.module} /\ order' = order
        /\ frame.module \notin loading /\ frame.module \notin ToSet(order)
      BY <1>2, <2>1, <2>3 DEF ReadModule
  <2>5. /\ \A j, k \in 1 .. Len(stack') : stack'[j].module = stack'[k].module => j = k
        /\ Modules(stack') = loading \union {frame.module}
      BY <2>3, <2>4, PushLoads
  <2>6. (loading = Modules(stack))'
      BY <2>4, <2>5
  <2> QED
      BY <2>4, <2>5, <2>6 DEF LoadedOnce
<1>3. CASE ResolveImport
  <2>1. /\ Len(stack') = Len(stack)
        /\ \A k \in 1 .. Len(stack) : stack'[k].module = stack[k].module
        /\ UNCHANGED <<loading, order>>
      BY <1>3, ResolvedStackIs DEF ResolveImport, LoadTyped
  <2>2. Modules(stack)' = Modules(stack)
      BY <2>1 DEF Modules
  <2> QED
      BY <2>1, <2>2 DEF LoadedOnce
<1>4. CASE FinishModule
  <2>1. /\ stack' = Pop /\ loading' = loading \ {Top.module} /\ stack # <<>>
        /\ order' = order \/ order' = Append(order, Top.module)
      BY <1>4 DEF FinishModule
  <2>2. /\ \A j, k \in 1 .. Len(Pop) : Pop[j].module = Pop[k].module => j = k
        /\ loading \ {Top.module} = Modules(Pop)
        /\ Top.module \in loading /\ Top.module \notin ToSet(order)
      BY <2>1, PopLoads
  <2>3. Top.module \in Module
      BY <2>1, TopIs DEF LoadTyped
  <2>4. IsInjective(order') /\ ToSet(order') \subseteq ToSet(order) \union {Top.module}
    <3>1. order \in Seq(Module) /\ IsInjective(order)
        BY DEF LoadTyped, LoadedOnce
    <3>2. IsInjective(Append(order, Top.module))
        BY <2>2, <2>3, <3>1, AppendIsInjective
    <3>3. ToSet(Append(order, Top.module)) = ToSet(order) \union {Top.module}
        BY <2>3, <3>1, AppendIs
    <3> QED
        BY <2>1, <3>1, <3>2, <3>3
  <2>5. (\A j, k \in 1 .. Len(stack) : stack[j].module = stack[k].module => j = k)'
      BY <2>1, <2>2
  <2>6. (loading = Modules(stack))'
      BY <2>1, <2>2
  <2> QED
      BY <2>1, <2>4, <2>5, <2>6 DEF LoadedOnce
<1>5. CASE ReturnError
  <2>1. stack' = Pop /\ loading' = loading \ {Top.module} /\ stack # <<>> /\ order' = order
      BY <1>5 DEF ReturnError
  <2>2. /\ \A j, k \in 1 .. Len(Pop) : Pop[j].module = Pop[k].module => j = k
        /\ loading \ {Top.module} = Modules(Pop)
      BY <2>1, PopLoads
  <2>3. (\A j, k \in 1 .. Len(stack) : stack[j].module = stack[k].module => j = k)'
      BY <2>1, <2>2
  <2>4. (loading = Modules(stack))'
      BY <2>1, <2>2
  <2> QED
      BY <2>1, <2>3, <2>4 DEF LoadedOnce
<1>6. CASE StartRecovering
    BY <1>6 DEF StartRecovering, LoadedOnce, Modules, IsInjective, ToSet
<1> QED
    BY <1>1, <1>2, <1>3, <1>4, <1>5, <1>6
    DEF LoadingNext, AlreadyLoaded, CircularImport, UnreadableModule, EndRecovering,
        SkipModule, InferModule, EndInference, LoadingDone, loadingVars

-----------------------------------------------------------------------------
(* A module comes after all its imports.                                   *)

\* Nothing has gone wrong so far.
Clean == phase = "infer" \/ (phase = "recovering" /\ diagnostics = <<>>)

Ordered ==
    \A i \in 1 .. Len(order) : Imports(sources, order[i]) \subseteq {order[j] : j \in 1 .. (i - 1)}

\* What the call of the k-th frame waits for.
Awaited(k) == IF k < Len(stack) THEN {stack[k + 1].module} ELSE ToSet(call)

\* An import of a module that is being loaded is loaded, awaited or still to come.
Underway ==
    \A k \in 1 .. Len(stack) :
        Imports(sources, stack[k].module)
            \subseteq ToSet(order) \union ToSet(stack[k].imports) \union Awaited(k)

OrderInv == Clean => Ordered /\ Underway

\* The steps that report nothing, and leave the order and the frames alone.
LEMMA OrderStays ==
    ASSUME Ordered, UNCHANGED <<sources, order>>
    PROVE  Ordered'
<1>1. ASSUME NEW i \in 1 .. Len(order)
      PROVE  Imports(sources, order[i])' \subseteq {order'[j] : j \in 1 .. (i - 1)}
  <2>1. Imports(sources, order[i]) \subseteq {order[j] : j \in 1 .. (i - 1)}
      BY DEF Ordered
  <2> QED
      BY <2>1
<1> QED
    BY <1>1 DEF Ordered

LEMMA UnderwayStays ==
    ASSUME Ordered, Underway, UNCHANGED <<sources, stack, call, order>>
    PROVE  Ordered' /\ Underway'
<1>1. \A k : Awaited(k)' = Awaited(k)
    BY DEF Awaited
<1>2. Underway'
    BY <1>1 DEF Underway
<1> QED
    BY <1>2, OrderStays

LEMMA StepOrder == LoadTyped /\ OrderInv /\ [LoadingNext]_loadingVars => OrderInv'
<1> SUFFICES ASSUME LoadTyped, OrderInv, [LoadingNext]_loadingVars, Clean'
             PROVE  Ordered' /\ Underway'
    BY DEF OrderInv
<1>1. CASE UNCHANGED <<sources, phase, stack, call, order, diagnostics>>
  <2>1. Clean
      BY <1>1 DEF Clean
  <2> QED
      BY <1>1, <2>1, UnderwayStays DEF OrderInv
<1>2. CASE AlreadyLoaded
  <2>1. /\ UNCHANGED <<sources, phase, stack, order, diagnostics>>
        /\ call' = <<>> /\ call # <<>> /\ call[1] \in ToSet(order)
      BY <1>2 DEF AlreadyLoaded, Silent
  <2>2. Ordered /\ Underway
      BY <2>1 DEF OrderInv, Clean
  <2>3. ToSet(call) \subseteq ToSet(order)
      BY <2>1 DEF LoadTyped, ToSet
  <2>4. Underway'
      BY <2>1, <2>2, <2>3 DEF Underway, Awaited
  <2> QED
      BY <2>1, <2>2, <2>4, OrderStays
<1>3. CASE CircularImport
  <2>1. Diagnostic(call[1], "circular") \in Said
      BY <1>3 DEF CircularImport, LoadTyped, Said
  <2>2. phase = "recovering" => diagnostics' # <<>>
      BY <1>3, <2>1, ReportIs DEF CircularImport, LoadTyped
  <2> QED
      BY <1>3, <2>2 DEF CircularImport, LoaderRuns, Clean
<1>4. CASE UnreadableModule
  <2>1. UnreadableDiagnostic \in Said
      BY <1>4 DEF UnreadableModule, UnreadableDiagnostic, LoadTyped, Said, Fault
  <2>2. phase = "recovering" => diagnostics' # <<>>
      BY <1>4, <2>1, ReportIs DEF UnreadableModule, LoadTyped
  <2> QED
      BY <1>4, <2>2 DEF UnreadableModule, LoaderRuns, Clean
<1>5. CASE ReadModule
  <2>1. PICK m \in Module : call = <<m>>
      BY <1>5 DEF ReadModule, LoadTyped
  <2>2. PICK frame : frame = [module |-> m, imports |-> sources[m].imports]
      OBVIOUS
  <2>3. /\ frame \in Call /\ frame.module = m
        /\ Imports(sources, m) = ToSet(frame.imports)
      BY <2>2, SourceIs DEF Call
  <2>4. /\ stack' = Append(stack, frame) /\ call' = <<>> /\ UNCHANGED <<sources, phase, order>>
        /\ phase = "recovering" \/ phase = "fail_fast"
      BY <1>5, <2>1, <2>2 DEF ReadModule, LoaderRuns
  <2>5. UNCHANGED diagnostics
    <3>1. CASE sources[m].fault = "parse"
      <4>1. Diagnostic(m, "parse") \in Said /\ Report(Diagnostic(m, "parse"))
          BY <1>5, <2>1, <3>1 DEF Said, Fault, ReadModule
      <4>2. phase = "recovering" => diagnostics' # <<>>
          BY <4>1, ReportIs DEF LoadTyped
      <4> QED
          BY <2>4, <4>2 DEF Clean
    <3>2. CASE sources[m].fault # "parse"
        BY <1>5, <2>1, <3>2 DEF ReadModule, Silent
    <3> QED
        BY <3>1, <3>2
  <2>6. Ordered /\ Underway
      BY <2>4, <2>5 DEF OrderInv, Clean
  <2>7. PICK n \in Nat : n = Len(stack)
      BY DEF LoadTyped
  <2>8. /\ Len(stack') = n + 1 /\ stack'[n + 1] = frame
        /\ \A k \in 1 .. n : stack'[k] = stack[k]
      BY <2>3, <2>4, <2>7, AppendIs DEF LoadTyped
  <2>9. ToSet(call) = {m}
      BY <2>1 DEF ToSet
  <2>10. ASSUME NEW k \in 1 .. (n + 1)
         PROVE  Imports(sources, stack'[k].module)
                    \subseteq ToSet(order) \union ToSet(stack'[k].imports) \union Awaited(k)'
    <3>1. CASE k = n + 1
        BY <2>3, <2>8, <3>1
    <3>2. CASE k # n + 1
      <4>1. k \in 1 .. n /\ k < n + 1 /\ k + 1 \in 1 .. (n + 1)
          BY <2>7, <3>2
      <4>2. Awaited(k)' = {stack'[k + 1].module}
          BY <2>8, <4>1 DEF Awaited
      <4>3. Awaited(k) = {stack'[k + 1].module}
        <5>1. CASE k = n
            BY <2>3, <2>7, <2>8, <2>9, <5>1 DEF Awaited
        <5>2. CASE k # n
          <6>1. k < n /\ k + 1 \in 1 .. n
              BY <2>7, <4>1, <5>2
          <6> QED
              BY <2>7, <2>8, <6>1 DEF Awaited
        <5> QED
            BY <5>1, <5>2
      <4> QED
          BY <2>6, <2>7, <2>8, <4>1, <4>2, <4>3 DEF Underway
    <3> QED
        BY <3>1, <3>2
  <2>11. Underway'
      BY <2>4, <2>8, <2>10 DEF Underway
  <2> QED
      BY <2>4, <2>6, <2>11, OrderStays
<1>6. CASE ResolveImport
  <2>1. /\ Len(stack') = Len(stack)
        /\ \A k \in 1 .. Len(stack) : stack'[k].module = stack[k].module
        /\ \A k \in 1 .. (Len(stack) - 1) : stack'[k] = stack[k]
        /\ stack'[Len(stack)].imports = Tail(Top.imports)
        /\ Head(Top.imports) \in Module
        /\ ToSet(Top.imports) = ToSet(Tail(Top.imports)) \union {Head(Top.imports)}
      BY <1>6, ResolvedStackIs DEF ResolveImport, LoadTyped
  <2>2. /\ UNCHANGED <<sources, phase, order>> /\ call = <<>>
        /\ phase = "recovering" \/ phase = "fail_fast"
      BY <1>6 DEF ResolveImport, LoaderRuns
  <2>3. UNCHANGED diagnostics /\ call' = <<Head(Top.imports)>>
    <3>1. CASE sources[Head(Top.imports)].fault = "missing"
      <4>1. Top.module \in Module
          BY <1>6, TopIs DEF ResolveImport, LoadTyped
      <4>2. Diagnostic(Top.module, "unresolved") \in Said /\ Report(Diagnostic(Top.module, "unresolved"))
          BY <1>6, <3>1, <4>1 DEF Said, ResolveImport
      <4>3. phase = "recovering" => diagnostics' # <<>>
          BY <4>2, ReportIs DEF LoadTyped
      <4> QED
          BY <2>2, <4>3 DEF Clean
    <3>2. CASE sources[Head(Top.imports)].fault # "missing"
        BY <1>6, <3>2 DEF ResolveImport, Silent
    <3> QED
        BY <3>1, <3>2
  <2>4. Ordered /\ Underway
      BY <2>2, <2>3 DEF OrderInv, Clean
  <2>5. PICK n \in Nat : n = Len(stack) /\ n > 0
      BY <1>6 DEF ResolveImport, LoadTyped
  <2>6. ASSUME NEW k \in 1 .. n
        PROVE  Imports(sources, stack'[k].module)
                   \subseteq ToSet(order) \union ToSet(stack'[k].imports) \union Awaited(k)'
    <3>1. CASE k = n
      <4>1. Awaited(k) = {} /\ Awaited(k)' = {Head(Top.imports)}
          BY <2>1, <2>2, <2>3, <2>5, <3>1 DEF Awaited, ToSet
      <4>2. Imports(sources, stack[k].module) \subseteq ToSet(order) \union ToSet(Top.imports)
          BY <2>4, <2>5, <3>1, <4>1 DEF Underway, Top
      <4> QED
          BY <2>1, <2>5, <3>1, <4>1, <4>2
    <3>2. CASE k # n
      <4>1. k \in 1 .. (n - 1) /\ k < n /\ k + 1 \in 1 .. n
          BY <2>5, <3>2
      <4>2. Awaited(k)' = Awaited(k) /\ stack'[k] = stack[k]
          BY <2>1, <2>5, <4>1 DEF Awaited
      <4> QED
          BY <2>4, <2>5, <4>1, <4>2 DEF Underway
    <3> QED
        BY <3>1, <3>2
  <2>7. Underway'
      BY <2>1, <2>2, <2>5, <2>6 DEF Underway
  <2> QED
      BY <2>2, <2>4, <2>7, OrderStays
<1>7. CASE FinishModule
  <2>1. /\ UNCHANGED <<sources, phase, call>> /\ call = <<>> /\ stack # <<>> /\ Top.imports = <<>>
        /\ stack' = Pop
        /\ phase = "recovering" \/ phase = "fail_fast"
      BY <1>7 DEF FinishModule, LoaderRuns
  <2>2. /\ Top = stack[Len(stack)] /\ Top.module \in Module /\ Len(Pop) = Len(stack) - 1
        /\ \A k \in 1 .. (Len(stack) - 1) : Pop[k] = stack[k]
      BY <2>1, TopIs DEF LoadTyped
  <2>3. UNCHANGED diagnostics /\ order' = Append(order, Top.module)
    <3>1. CASE sources[Top.module].fault = "fixity"
      <4>1. Diagnostic(Top.module, "fixity") \in Said /\ Report(Diagnostic(Top.module, "fixity"))
          BY <1>7, <2>2, <3>1 DEF Said, Fault, FinishModule
      <4>2. phase = "recovering" => diagnostics' # <<>>
          BY <4>1, ReportIs DEF LoadTyped
      <4> QED
          BY <2>1, <4>2 DEF Clean
    <3>2. CASE sources[Top.module].fault # "fixity"
        BY <1>7, <3>2 DEF FinishModule, Silent
    <3> QED
        BY <3>1, <3>2
  <2>4. Ordered /\ Underway
      BY <2>1, <2>3 DEF OrderInv, Clean
  <2>5. PICK n \in Nat : n = Len(stack) /\ n > 0
      BY <2>1 DEF LoadTyped
  <2>6. Imports(sources, Top.module) \subseteq ToSet(order)
    <3>1. Awaited(n) = {}
        BY <2>1, <2>5 DEF Awaited, ToSet
    <3>2. ToSet(stack[n].imports) = {}
        BY <2>1, <2>2, <2>5 DEF ToSet
    <3> QED
      <4>1. n \in 1 .. Len(stack) /\ Top.module = stack[n].module
          BY <2>2, <2>5
      <4>2. Imports(sources, stack[n].module)
                \subseteq ToSet(order) \union ToSet(stack[n].imports) \union Awaited(n)
          BY <2>4, <4>1 DEF Underway
      <4> QED
          BY <3>1, <3>2, <4>1, <4>2
  <2>7. PICK p \in Nat : p = Len(order) /\ DOMAIN order = 1 .. p
      BY DEF LoadTyped
  <2>8. /\ Len(order') = p + 1 /\ order'[p + 1] = Top.module
        /\ \A i \in 1 .. p : order'[i] = order[i]
        /\ ToSet(order') = ToSet(order) \union {Top.module}
    <3>1. order \in Seq(Module)
        BY DEF LoadTyped
    <3> QED
        BY <2>2, <2>3, <2>7, <3>1, AppendIs
  <2>9. ASSUME NEW i \in 1 .. (p + 1)
        PROVE  Imports(sources, order'[i]) \subseteq {order'[j] : j \in 1 .. (i - 1)}
    <3>1. CASE i = p + 1
      <4>1. i - 1 = p
          BY <2>7, <3>1
      <4> QED
          BY <2>6, <2>7, <2>8, <3>1, <4>1 DEF ToSet
    <3>2. CASE i # p + 1
      <4>1. i \in 1 .. p /\ \A j \in 1 .. (i - 1) : j \in 1 .. p
          BY <2>7, <3>2
      <4>2. Imports(sources, order[i]) \subseteq {order[j] : j \in 1 .. (i - 1)}
          BY <2>4, <2>7, <4>1 DEF Ordered
      <4> QED
          BY <2>8, <4>1, <4>2
    <3> QED
        BY <3>1, <3>2
  <2>10. Ordered'
      BY <2>1, <2>8, <2>9 DEF Ordered
  <2>11. ASSUME NEW k \in 1 .. (n - 1)
         PROVE  Imports(sources, Pop[k].module)
                    \subseteq ToSet(order') \union ToSet(Pop[k].imports) \union Awaited(k)'
    <3>1. k \in 1 .. n /\ k < n /\ k + 1 \in 1 .. n
        BY <2>5
    <3>2. Imports(sources, stack[k].module)
              \subseteq ToSet(order) \union ToSet(stack[k].imports) \union {stack[k + 1].module}
        BY <2>4, <2>5, <3>1 DEF Underway, Awaited
    <3>3. CASE k = n - 1
      <4>1. stack[k + 1] = Top
          BY <2>2, <2>5, <3>3
      <4> QED
          BY <2>2, <2>5, <2>8, <3>2, <4>1
    <3>4. CASE k # n - 1
      <4>1. k < n - 1 /\ k + 1 \in 1 .. (n - 1)
          BY <2>5, <3>4
      <4>2. Awaited(k)' = {stack[k + 1].module}
          BY <2>1, <2>2, <2>5, <4>1 DEF Awaited
      <4> QED
          BY <2>2, <2>5, <2>8, <3>2, <4>2
    <3> QED
        BY <3>3, <3>4
  <2>12. Underway'
      BY <2>1, <2>2, <2>5, <2>11 DEF Underway
  <2> QED
      BY <2>10, <2>12
<1>8. CASE ReturnError
    BY <1>8 DEF ReturnError, Clean
<1>9. CASE StartRecovering
  <2>1. order' = <<>> /\ stack' = <<>>
      BY <1>9 DEF StartRecovering
  <2> QED
      BY <2>1 DEF Ordered, Underway
<1>10. CASE EndRecovering
  <2>1. UNCHANGED <<sources, stack, call, order>> /\ phase = "recovering"
        /\ phase' = IF diagnostics = <<>> THEN "infer" ELSE "done"
      BY <1>10 DEF EndRecovering
  <2>2. Ordered /\ Underway
      BY <1>10, <2>1 DEF Clean, OrderInv, EndRecovering
  <2> QED
      BY <2>1, <2>2, UnderwayStays
<1>11. CASE SkipModule \/ InferModule \/ EndInference
  <2>1. UNCHANGED <<sources, stack, call, order>> /\ phase = "infer"
      BY <1>11 DEF SkipModule, InferModule, EndInference
  <2> QED
      BY <2>1, UnderwayStays DEF OrderInv, Clean
<1> QED
    BY <1>1, <1>2, <1>3, <1>4, <1>5, <1>6, <1>7, <1>8, <1>9, <1>10, <1>11
    DEF LoadingNext, LoadingDone, loadingVars

-----------------------------------------------------------------------------
(* What is inferred and what is left out.                                  *)

Seen == inferred \union unavailable

\* Inference has come to a point of the order: what is before it was seen.
InOrder ==
    /\ phase \in {"fail_fast", "recovering"} => Seen = {}
    /\ phase = "infer" => \E n \in 0 .. Len(order) : Seen = {order[i] : i \in 1 .. n}

\* A module is unavailable when something it depends on has type errors, and what was
\* inferred imports nothing unavailable.
Verdicts ==
    /\ Seen \subseteq Module
    /\ Says("type") \subseteq unavailable
    /\ \A m \in inferred : Imports(sources, m) \subseteq inferred \ unavailable
    /\ \A m \in unavailable : Reached(sources, m) \intersect Says("type") # {}

LEMMA NextIs ==
    ASSUME LoadTyped, LoadedOnce, InOrder, phase = "infer", ~AllSeen
    PROVE  \E n \in Nat : /\ n + 1 \in 1 .. Len(order)
                          /\ Seen = {order[i] : i \in 1 .. n}
                          /\ NextModule = order[n + 1]
                          /\ NextModule \in Module /\ NextModule \notin Seen
<1>1. PICK n \in 0 .. Len(order) : Seen = {order[i] : i \in 1 .. n}
    BY DEF InOrder
<1>2. PICK p \in Nat : p = Len(order) /\ DOMAIN order = 1 .. p /\ n \in 0 .. p
    BY DEF LoadTyped
<1>3. n # p
    BY <1>1, <1>2 DEF AllSeen, Seen, ToSet
<1>4. n \in Nat /\ n + 1 \in 1 .. p /\ \A i \in 1 .. n : i \in 1 .. p /\ i # n + 1
    BY <1>2, <1>3
<1>5. \A i, j \in 1 .. p : order[i] = order[j] => i = j
    BY <1>2 DEF LoadedOnce, IsInjective
<1>6. {i \in 1 .. p : order[i] \in Seen} = 1 .. n
    BY <1>1, <1>4, <1>5
<1>7. Cardinality(1 .. n) = n
    BY <1>4, FS_Interval
<1>8. NextModule = order[n + 1]
    BY <1>2, <1>6, <1>7 DEF NextModule, Seen
<1>9. order[n + 1] \in Module /\ order[n + 1] \notin Seen
    BY <1>1, <1>2, <1>4, <1>5 DEF LoadTyped
<1> QED
    BY <1>1, <1>2, <1>4, <1>8, <1>9

\* What the loaders report is not an error of types.
LEMMA ReportSaysNoType ==
    ASSUME LoadTyped, NEW d \in Said, d.says # "type", Report(d)
    PROVE  Says("type")' = Says("type")
<1>1. CASE phase = "recovering"
  <2>1. diagnostics' = Append(diagnostics, d)
      BY <1>1, ReportIs DEF LoadTyped
  <2>2. ToSet(diagnostics') = ToSet(diagnostics) \union {d}
      BY <2>1, AppendIs DEF LoadTyped
  <2>3. {x \in ToSet(diagnostics') : x.says = "type"} = {x \in ToSet(diagnostics) : x.says = "type"}
      BY <2>2
  <2> QED
      BY <2>3 DEF Says
<1>2. CASE phase # "recovering"
    BY <1>2, ReportIs DEF LoadTyped, Says
<1> QED
    BY <1>1, <1>2

\* A step of a loader.
LEMMA VerdictsStay ==
    ASSUME Verdicts, UNCHANGED <<sources, inferred, unavailable>>, Says("type")' = Says("type")
    PROVE  Verdicts'
BY DEF Verdicts, Seen

LEMMA LoaderStays ==
    ASSUME InOrder, phase \in {"fail_fast", "recovering"}, UNCHANGED <<phase, inferred, unavailable>>
    PROVE  InOrder'
BY DEF InOrder, Seen

LEMMA LoaderVerdicts ==
    ASSUME LoadTyped, InOrder, Verdicts,
           AlreadyLoaded \/ CircularImport \/ UnreadableModule \/ ReadModule
               \/ ResolveImport \/ FinishModule
    PROVE  InOrder' /\ Verdicts'
<1>1. /\ phase \in {"fail_fast", "recovering"} /\ UNCHANGED <<phase, sources, inferred, unavailable>>
    BY DEF AlreadyLoaded, CircularImport, UnreadableModule, ReadModule, ResolveImport,
           FinishModule, LoaderRuns
<1>2. CASE UNCHANGED diagnostics
    BY <1>1, <1>2, LoaderStays, VerdictsStay DEF Says
<1>3. ASSUME NEW m \in Module, NEW what \in {"circular", "lex", "unresolved", "parse", "fixity"},
             Report(Diagnostic(m, what))
      PROVE  InOrder' /\ Verdicts'
  <2>1. Diagnostic(m, what) \in Said /\ Diagnostic(m, what).says # "type"
      BY DEF Said, Diagnostic, Fault
  <2>2. Says("type")' = Says("type")
      BY <1>3, <2>1, ReportSaysNoType
  <2> QED
      BY <1>1, <2>2, LoaderStays, VerdictsStay
<1>4. CASE AlreadyLoaded
    BY <1>2, <1>4 DEF AlreadyLoaded, Silent
<1>5. CASE CircularImport
  <2>1. call[1] \in Module /\ Report(Diagnostic(call[1], "circular"))
      BY <1>5 DEF CircularImport, LoadTyped
  <2> QED
      BY <1>3, <2>1
<1>6. CASE UnreadableModule
  <2>1. call[1] \in Module /\ Report(UnreadableDiagnostic)
      BY <1>6 DEF UnreadableModule, LoadTyped
  <2>2. \E what \in {"lex", "unresolved"} : UnreadableDiagnostic = Diagnostic(call[1], what)
      BY DEF UnreadableDiagnostic
  <2> QED
      BY <1>3, <2>1, <2>2
<1>7. CASE ReadModule
  <2>1. call[1] \in Module /\ (Report(Diagnostic(call[1], "parse")) \/ UNCHANGED diagnostics)
      BY <1>7 DEF ReadModule, LoadTyped, Silent
  <2> QED
      BY <1>2, <1>3, <2>1
<1>8. CASE ResolveImport
  <2>1. Top.module \in Module
      BY <1>8, TopIs DEF ResolveImport, LoadTyped
  <2>2. Report(Diagnostic(Top.module, "unresolved")) \/ UNCHANGED diagnostics
      BY <1>8 DEF ResolveImport, Silent
  <2> QED
      BY <1>2, <1>3, <2>1, <2>2
<1>9. CASE FinishModule
  <2>1. Top.module \in Module
      BY <1>9, TopIs DEF FinishModule, LoadTyped
  <2>2. Report(Diagnostic(Top.module, "fixity")) \/ UNCHANGED diagnostics
      BY <1>9 DEF FinishModule, Silent
  <2> QED
      BY <1>2, <1>3, <2>1, <2>2
<1> QED
    BY <1>4, <1>5, <1>6, <1>7, <1>8, <1>9

LEMMA ModulesResolve ==
    ASSUME LoadTyped
    PROVE  DOMAIN sources = Module /\ Resolved(sources)
BY SourceIs DEF Resolved, LoadTyped

\* One more module was seen.
LEMMA SeenOneMore ==
    ASSUME InOrder, phase = "infer", NEW n \in Nat, n + 1 \in 1 .. Len(order),
           Seen = {order[i] : i \in 1 .. n}, UNCHANGED <<phase, order>>,
           Seen' = Seen \union {order[n + 1]}
    PROVE  InOrder'
<1>1. 1 .. (n + 1) = 1 .. n \union {n + 1} /\ n + 1 \in 0 .. Len(order)
    OBVIOUS
<1>2. Seen' = {order'[i] : i \in 1 .. (n + 1)}
    BY <1>1
<1> QED
    BY <1>1, <1>2 DEF InOrder

LEMMA SkipVerdicts ==
    ASSUME LoadTyped, LoadedOnce, InOrder, Verdicts, SkipModule
    PROVE  InOrder' /\ Verdicts'
<1>1. PICK n \in Nat : /\ n + 1 \in 1 .. Len(order)
                       /\ Seen = {order[i] : i \in 1 .. n}
                       /\ NextModule = order[n + 1]
                       /\ NextModule \in Module /\ NextModule \notin Seen
    BY NextIs DEF SkipModule
<1>2. PICK m \in Module : m = NextModule /\ m \notin Seen
    BY <1>1
<1>3. /\ unavailable' = unavailable \union {m} /\ phase = "infer"
      /\ UNCHANGED <<phase, sources, order, diagnostics, inferred>>
      /\ Seen' = Seen \union {m} /\ Says("type")' = Says("type")
    BY <1>2 DEF SkipModule, Seen, Says
<1>4. InOrder'
    BY <1>1, <1>2, <1>3, SeenOneMore
<1>5. PICK i \in Imports(sources, m) : i \in unavailable
    BY <1>2 DEF SkipModule, ImportsUnavailable
<1>6. Reached(sources, m) \intersect Says("type") # {}
  <2>1. /\ i \in Reached(sources, m)
        /\ Reached(sources, i) \subseteq Reached(sources, m)
      BY <1>5, ModulesResolve, ReachedIsClosed, ReachedIsTransitive DEF Closed
  <2> QED
      BY <1>5, <2>1 DEF Verdicts
<1>7. \A x \in inferred : m \notin Imports(sources, x)
    BY <1>2 DEF Verdicts, Seen
<1>8. Verdicts'
  <2>1. (\A x \in inferred : Imports(sources, x) \subseteq inferred \ unavailable)'
      BY <1>3, <1>7 DEF Verdicts
  <2>2. (\A x \in unavailable : Reached(sources, x) \intersect Says("type") # {})'
      BY <1>3, <1>6 DEF Verdicts
  <2> QED
      BY <1>3, <2>1, <2>2 DEF Verdicts
<1> QED
    BY <1>4, <1>8

LEMMA InferVerdicts ==
    ASSUME LoadTyped, LoadedOnce, OrderInv, InOrder, Verdicts, InferModule
    PROVE  InOrder' /\ Verdicts'
<1>1. PICK n \in Nat : /\ n + 1 \in 1 .. Len(order)
                       /\ Seen = {order[i] : i \in 1 .. n}
                       /\ NextModule = order[n + 1]
                       /\ NextModule \in Module /\ NextModule \notin Seen
    BY NextIs DEF InferModule
<1>2. PICK m \in Module : m = NextModule /\ m \notin Seen
    BY <1>1
<1>3. /\ inferred' = inferred \union {m} /\ phase = "infer"
      /\ UNCHANGED <<phase, sources, order>>
      /\ Imports(sources, m) \intersect unavailable = {}
    BY <1>2 DEF InferModule, ImportsUnavailable
<1>4. Imports(sources, m) \subseteq inferred
  <2>1. Ordered
      BY <1>3 DEF OrderInv, Clean
  <2>2. PICK k \in 1 .. Len(order) : k = n + 1
      BY <1>1
  <2>3. Imports(sources, order[k]) \subseteq {order[j] : j \in 1 .. (k - 1)}
      BY <2>1 DEF Ordered
  <2>4. k - 1 = n
      BY <2>2
  <2>5. Imports(sources, m) \subseteq Seen
      BY <1>1, <1>2, <2>2, <2>3, <2>4
  <2> QED
      BY <1>3, <2>5 DEF Seen
<1>5. m \in Reached(sources, m)
    BY ModulesResolve, ReachedIsClosed
<1>6. \A x \in inferred' : m \notin Imports(sources, x) /\ Imports(sources, x) \subseteq inferred \ unavailable
  <2>1. \A x \in inferred : m \notin Imports(sources, x)
      BY <1>2 DEF Verdicts, Seen
  <2>2. m \notin Imports(sources, m)
      BY <1>2, <1>4 DEF Seen
  <2> QED
      BY <1>3, <1>4, <2>1, <2>2 DEF Verdicts
<1>7. CASE sources[m].fault = "type"
  <2>1. /\ diagnostics' = Append(diagnostics, Diagnostic(m, "type"))
        /\ unavailable' = unavailable \union {m}
      BY <1>2, <1>7 DEF InferModule
  <2>2. Says("type")' = Says("type") \union {m}
    <3>1. Diagnostic(m, "type") \in Said
        BY DEF Said, Fault
    <3>2. ToSet(diagnostics') = ToSet(diagnostics) \union {Diagnostic(m, "type")}
        BY <2>1, <3>1, AppendIs DEF LoadTyped
    <3>3. {x \in ToSet(diagnostics') : x.says = "type"}
              = {x \in ToSet(diagnostics) : x.says = "type"} \union {Diagnostic(m, "type")}
        BY <3>2 DEF Diagnostic
    <3>4. PICK said : said = {x \in ToSet(diagnostics) : x.says = "type"}
        OBVIOUS
    <3>5. PICK d : d = Diagnostic(m, "type")
        OBVIOUS
    <3>6. d.at = m
        BY <3>5 DEF Diagnostic
    <3>7. Says("type") = {x.at : x \in said} /\ Says("type")' = {x.at : x \in said \union {d}}
        BY <3>3, <3>4, <3>5 DEF Says
    <3> QED
        BY <3>6, <3>7
  <2>3. Seen' = Seen \union {m}
      BY <1>3, <2>1 DEF Seen
  <2>4. InOrder'
      BY <1>1, <1>2, <1>3, <2>3, SeenOneMore
  <2>5. (\A x \in inferred : Imports(sources, x) \subseteq inferred \ unavailable)'
      BY <1>3, <1>6, <2>1
  <2>6. (\A x \in unavailable : Reached(sources, x) \intersect Says("type") # {})'
      BY <1>3, <1>5, <2>1, <2>2 DEF Verdicts
  <2>7. Seen' \subseteq Module /\ Says("type")' \subseteq unavailable'
      BY <2>1, <2>2, <2>3 DEF Verdicts
  <2> QED
      BY <2>4, <2>5, <2>6, <2>7 DEF Verdicts
<1>8. CASE sources[m].fault # "type"
  <2>1. UNCHANGED <<diagnostics, unavailable>> /\ Says("type")' = Says("type")
      BY <1>2, <1>8 DEF InferModule, Says
  <2>2. Seen' = Seen \union {m}
      BY <1>3, <2>1 DEF Seen
  <2>3. InOrder'
      BY <1>1, <1>2, <1>3, <2>2, SeenOneMore
  <2>4. (\A x \in inferred : Imports(sources, x) \subseteq inferred \ unavailable)'
      BY <1>3, <1>6, <2>1
  <2>5. (\A x \in unavailable : Reached(sources, x) \intersect Says("type") # {})'
      BY <1>3, <2>1 DEF Verdicts
  <2> QED
      BY <2>1, <2>2, <2>3, <2>4, <2>5 DEF Verdicts
<1> QED
    BY <1>7, <1>8

\* The inductive invariant.
LoadingInv == LoadTyped /\ LoadedOnce /\ OrderInv /\ InOrder /\ Verdicts

LEMMA InitLoading == LoadingInit => LoadingInv
<1> SUFFICES ASSUME LoadingInit PROVE LoadingInv
    OBVIOUS
<1>1. OrderInv /\ InOrder
    BY DEF LoadingInit, NewGraph, OrderInv, Clean, InOrder, Seen
<1>2. Verdicts
    BY DEF LoadingInit, NewGraph, Verdicts, Seen, Says, ToSet
<1> QED
    BY <1>1, <1>2, InitTyped, InitOnce DEF LoadingInv

LEMMA StepVerdicts == LoadingInv /\ [LoadingNext]_loadingVars => InOrder' /\ Verdicts'
<1> SUFFICES ASSUME LoadingInv, [LoadingNext]_loadingVars
             PROVE  InOrder' /\ Verdicts'
    OBVIOUS
<1> USE DEF LoadingInv
<1>1. CASE \/ AlreadyLoaded \/ CircularImport \/ UnreadableModule \/ ReadModule
           \/ ResolveImport \/ FinishModule
    BY <1>1, LoaderVerdicts
<1>2. CASE ReturnError
    BY <1>2, LoaderStays, VerdictsStay DEF ReturnError, Says
<1>3. CASE StartRecovering
  <2>1. InOrder'
      BY <1>3 DEF StartRecovering, InOrder, Seen
  <2> QED
      BY <1>3, <2>1, VerdictsStay DEF StartRecovering, Says
<1>4. CASE EndRecovering
  <2>1. InOrder'
    <3>1. Seen' = {} /\ phase' \in {"infer", "done"} /\ order' = order
        BY <1>4 DEF EndRecovering, InOrder, Seen
    <3>2. {order[i] : i \in 1 .. 0} = {} /\ 0 \in 0 .. Len(order)
        BY DEF LoadTyped
    <3> QED
        BY <3>1, <3>2 DEF InOrder
  <2> QED
      BY <1>4, <2>1, VerdictsStay DEF EndRecovering, Says
<1>5. CASE SkipModule
    BY <1>5, SkipVerdicts
<1>6. CASE InferModule
    BY <1>6, InferVerdicts
<1>7. CASE EndInference
  <2>1. InOrder'
      BY <1>7 DEF EndInference, InOrder
  <2> QED
      BY <1>7, <2>1, VerdictsStay DEF EndInference, Says
<1>8. CASE LoadingDone \/ UNCHANGED loadingVars
  <2>1. UNCHANGED <<phase, sources, order, diagnostics, inferred, unavailable>>
      BY <1>8 DEF LoadingDone, loadingVars
  <2> QED
      BY <2>1, VerdictsStay DEF InOrder, Seen, Says
<1> QED
    BY <1>1, <1>2, <1>3, <1>4, <1>5, <1>6, <1>7, <1>8 DEF LoadingNext

LEMMA LoadingInvariant == LoadingSpec => []LoadingInv
<1>1. LoadingInv => NextIsModule
    BY NextIs DEF LoadingInv, NextIsModule
<1>2. LoadingInv /\ [LoadingNext]_loadingVars => LoadingInv'
    BY <1>1, StepTyped, StepOnce, StepOrder, StepVerdicts DEF LoadingInv
<1> QED
    BY <1>2, InitLoading, PTL DEF LoadingSpec

(* When a graph is inferred, every module comes after all that it imports, whatever
   the graph and however the imports of its modules share and cross (load_module and
   load_module_recovering in hern-core/src/module.rs). *)
THEOREM ImportsAlwaysComeFirst == LoadingSpec => []ImportsComeFirst
<1>1. LoadingInv => ImportsComeFirst
    BY DEF LoadingInv, OrderInv, Clean, Ordered, ImportsComeFirst
<1> QED
    BY LoadingInvariant, <1>1, PTL

(* A module is inferred only after all that it depends on was, without an error of
   types, and left out only because one of those has an error that is reported
   (infer_graph_collecting in hern-core/src/module.rs). *)
THEOREM NoCascadesEver == LoadingSpec => []NoCascades
<1>1. LoadingInv => NoCascades
  <2>1. SUFFICES ASSUME LoadingInv, NEW m \in inferred, NEW i \in Reached(sources, m) \ {m}
                 PROVE  i \in inferred /\ i \notin Says("type")
      BY DEF LoadingInv, Verdicts, NoCascades
  <2>2. PICK C : C = (inferred \ unavailable) \union {m}
      OBVIOUS
  <2>3. C \subseteq Module /\ \A x \in C : Imports(sources, x) \subseteq C
      BY <2>1, <2>2 DEF LoadingInv, Verdicts, Seen
  <2>4. Reached(sources, m) \subseteq C
      BY <2>1, <2>2, <2>3, ModulesResolve, ReachedIsLeast DEF LoadingInv, Closed
  <2> QED
      BY <2>1, <2>2, <2>4 DEF LoadingInv, Verdicts
<1> QED
    BY LoadingInvariant, <1>1, PTL

-----------------------------------------------------------------------------
(* The two loaders.  Until something is reported both go through the same    *)
(* states, which depend on the sources alone.                                *)

Loader == [stack : Seq(Call), call : {<<>>} \union {<<m>> : m \in Module},
           loading : SUBSET Module, order : Seq(Module)]

AtStart == [stack |-> <<>>, call |-> <<Entry>>, loading |-> {}, order |-> <<>>]

Here == [stack |-> stack, call |-> call, loading |-> loading, order |-> order]

Frame(x) == x.stack[Len(x.stack)]

Ended(x) == x.call = <<>> /\ x.stack = <<>>

\* What is reported next: nothing, or one diagnostic.
ReportOn(src, m, faults) ==
    IF src[m].fault \in faults THEN <<Diagnostic(m, src[m].fault)>> ELSE <<>>

ReportOfCall(src, x) ==
    LET m == x.call[1]
    IN  IF m \in ToSet(x.order) THEN <<>>
        ELSE IF m \in x.loading THEN <<Diagnostic(m, "circular")>>
        ELSE IF Readable(src[m]) THEN ReportOn(src, m, {"parse"})
        ELSE <<Diagnostic(m, IF src[m].fault = "lex" THEN "lex" ELSE "unresolved")>>

ReportOfFrame(src, x) ==
    IF Frame(x).imports = <<>> THEN ReportOn(src, Frame(x).module, {"fixity"})
    ELSE IF src[Head(Frame(x).imports)].fault = "missing"
         THEN <<Diagnostic(Frame(x).module, "unresolved")>>
         ELSE <<>>

NextReport(src, x) ==
    IF x.call # <<>> THEN ReportOfCall(src, x)
    ELSE IF x.stack # <<>> THEN ReportOfFrame(src, x)
    ELSE <<>>

\* The state after a step that reports nothing.
AfterCall(src, x) ==
    LET m == x.call[1]
    IN  IF m \in ToSet(x.order) THEN [x EXCEPT !.call = <<>>]
        ELSE [x EXCEPT !.call = <<>>,
                       !.stack = Append(@, [module |-> m, imports |-> src[m].imports]),
                       !.loading = @ \union {m}]

ImportTaken(frames) == [frames EXCEPT ![Len(frames)].imports = Tail(@)]

AfterFrame(x) ==
    IF Frame(x).imports = <<>>
    THEN [x EXCEPT !.stack = SubSeq(@, 1, Len(@) - 1),
                   !.loading = @ \ {Frame(x).module},
                   !.order = Append(@, Frame(x).module)]
    ELSE [x EXCEPT !.stack = ImportTaken(@),
                   !.call = <<Head(Frame(x).imports)>>]

Onward(src, x) == IF x.call # <<>> THEN AfterCall(src, x) ELSE AfterFrame(x)

GoesOn(src, x) == ~Ended(x) /\ NextReport(src, x) = <<>> /\ Onward(src, x) \in Loader

StaysIn(src, C) == \A x \in C : GoesOn(src, x) => Onward(src, x) \in C

\* x is in every set of states that holds y and is not left without a report.
Follows(src, y, x) ==
    x \in Loader /\ \A C \in SUBSET Loader : (y \in C /\ StaysIn(src, C)) => x \in C

\* The states up to the first report, and the one that reports or has come to the end.
OnTheWay(src, x) == Follows(src, AtStart, x)

Stops(src, x) == OnTheWay(src, x) /\ ~GoesOn(src, x)

LEMMA FirstIsOnTheWay == OnTheWay(sources, AtStart)
BY EntryAssumption DEF OnTheWay, Follows, Loader, AtStart

LEMMA OnwardIsOnTheWay ==
    ASSUME NEW src, NEW x, OnTheWay(src, x), GoesOn(src, x)
    PROVE  OnTheWay(src, Onward(src, x))
BY DEF OnTheWay, Follows, StaysIn, GoesOn

\* There is one state at which the loading stops being silent.
LEMMA OneStop ==
    ASSUME NEW src, NEW s, NEW t, Stops(src, s), Stops(src, t)
    PROVE  s = t
<1> DEFINE C == {x \in Loader : Follows(src, x, s)}
<1>1. ASSUME NEW x \in C, GoesOn(src, x)
      PROVE  Onward(src, x) \in C
  <2>1. Onward(src, x) \in Loader /\ s \in Loader /\ s # x
      BY <1>1 DEF GoesOn, Stops, OnTheWay, Follows
  <2>2. ASSUME NEW D \in SUBSET Loader, Onward(src, x) \in D, StaysIn(src, D)
        PROVE  s \in D
    <3>1. StaysIn(src, D \union {x}) /\ D \union {x} \in SUBSET Loader
        BY <2>2 DEF StaysIn
    <3>2. s \in D \union {x}
        BY <3>1 DEF Follows
    <3> QED
        BY <2>1, <3>2
  <2> QED
      BY <2>1, <2>2 DEF Follows
<1>2. AtStart \in C
    BY EntryAssumption DEF Stops, OnTheWay, Loader, AtStart
<1>3. t \in C
  <2>1. C \in SUBSET Loader /\ StaysIn(src, C)
      BY <1>1 DEF StaysIn
  <2> QED
      BY <1>2, <2>1 DEF Stops, OnTheWay, Follows
<1>4. {t} \in SUBSET Loader /\ StaysIn(src, {t})
    BY <1>3 DEF Stops, StaysIn
<1>5. s \in {t}
    BY <1>3, <1>4 DEF Follows
<1> QED
    BY <1>5

\* A step of either loader reports what is to be reported, or nothing and goes on.
LoaderStep ==
    \/ AlreadyLoaded \/ CircularImport \/ UnreadableModule \/ ReadModule
    \/ ResolveImport \/ FinishModule

LEMMA HereIsLoader ==
    ASSUME LoadTyped, LoadedOnce
    PROVE  Here \in Loader
<1>1. Modules(stack) \subseteq Module
  <2>1. \A k \in 1 .. Len(stack) : stack[k] \in Call
      BY DEF LoadTyped
  <2>2. \A c \in Call : c.module \in Module
      BY DEF Call
  <2> QED
      BY <2>1, <2>2 DEF Modules
<1> QED
    BY <1>1 DEF Here, Loader, LoadTyped, LoadedOnce

LEMMA StepIsNext ==
    ASSUME LoadTyped, LoaderStep
    PROVE  /\ ~Ended(Here)
           /\ \/ /\ Silent
                 /\ NextReport(sources, Here) = <<>>
                 /\ Here' = Onward(sources, Here)
              \/ \E d \in Said : /\ Report(d)
                                 /\ NextReport(sources, Here) = <<d>>
                                 /\ d.says # "type"
<1> DEFINE Next1 == \/ /\ Silent
                       /\ NextReport(sources, Here) = <<>>
                       /\ Here' = Onward(sources, Here)
                    \/ \E d \in Said : /\ Report(d)
                                       /\ NextReport(sources, Here) = <<d>>
                                       /\ d.says # "type"
<1> USE DEF Here
<1>1. CASE AlreadyLoaded
  <2>1. ~Ended(Here) /\ Silent /\ NextReport(sources, Here) = <<>>
      BY <1>1 DEF AlreadyLoaded, Ended, NextReport, ReportOfCall
  <2>2. Here' = Onward(sources, Here)
      BY <1>1 DEF AlreadyLoaded, Onward, AfterCall
  <2> QED
      BY <2>1, <2>2
<1>2. CASE CircularImport
  <2>1. /\ ~Ended(Here) /\ Report(Diagnostic(call[1], "circular"))
        /\ NextReport(sources, Here) = <<Diagnostic(call[1], "circular")>>
      BY <1>2 DEF CircularImport, Ended, NextReport, ReportOfCall
  <2>2. call[1] \in Module
      BY <1>2 DEF LoadTyped, CircularImport
  <2>3. Diagnostic(call[1], "circular") \in Said /\ Diagnostic(call[1], "circular").says # "type"
      BY <2>2 DEF Said, Diagnostic
  <2> QED
      BY <2>1, <2>3
<1>3. CASE UnreadableModule
  <2>1. /\ ~Ended(Here) /\ Report(UnreadableDiagnostic)
        /\ NextReport(sources, Here) = <<UnreadableDiagnostic>>
      BY <1>3 DEF UnreadableModule, Ended, NextReport, ReportOfCall, UnreadableDiagnostic
  <2>2. call[1] \in Module
      BY <1>3 DEF LoadTyped, UnreadableModule
  <2>3. UnreadableDiagnostic \in Said /\ UnreadableDiagnostic.says # "type"
      BY <2>2 DEF Said, Diagnostic, UnreadableDiagnostic, Fault
  <2> QED
      BY <2>1, <2>3
<1>4. CASE ReadModule
  <2>1. ~Ended(Here) /\ call[1] \in Module
      BY <1>4 DEF ReadModule, Ended, LoadTyped
  <2>2. CASE sources[call[1]].fault = "parse"
    <3>1. /\ Report(Diagnostic(call[1], "parse"))
          /\ NextReport(sources, Here) = <<Diagnostic(call[1], "parse")>>
        BY <1>4, <2>2 DEF ReadModule, NextReport, ReportOfCall, ReportOn
    <3>2. Diagnostic(call[1], "parse") \in Said /\ Diagnostic(call[1], "parse").says # "type"
        BY <2>1 DEF Said, Diagnostic, Fault
    <3> QED
        BY <2>1, <3>1, <3>2
  <2>3. CASE sources[call[1]].fault # "parse"
    <3>1. Silent /\ NextReport(sources, Here) = <<>>
        BY <1>4, <2>3 DEF ReadModule, NextReport, ReportOfCall, ReportOn
    <3>2. Here' = Onward(sources, Here)
        BY <1>4 DEF ReadModule, Onward, AfterCall
    <3> QED
        BY <2>1, <3>1, <3>2
  <2> QED
      BY <2>2, <2>3
<1>5. CASE ResolveImport
  <2>1. ~Ended(Here) /\ Top = Frame(Here) /\ Top.module \in Module
      BY <1>5, TopIs DEF ResolveImport, Ended, LoadTyped, Top, Frame
  <2>2. CASE sources[Head(Top.imports)].fault = "missing"
    <3>1. /\ Report(Diagnostic(Top.module, "unresolved"))
          /\ NextReport(sources, Here) = <<Diagnostic(Top.module, "unresolved")>>
        BY <1>5, <2>1, <2>2 DEF ResolveImport, NextReport, ReportOfFrame
    <3>2. /\ Diagnostic(Top.module, "unresolved") \in Said
          /\ Diagnostic(Top.module, "unresolved").says # "type"
        BY <2>1 DEF Said, Diagnostic
    <3> QED
        BY <2>1, <3>1, <3>2
  <2>3. CASE sources[Head(Top.imports)].fault # "missing"
    <3>1. Silent /\ NextReport(sources, Here) = <<>>
        BY <1>5, <2>1, <2>3 DEF ResolveImport, NextReport, ReportOfFrame
    <3>2. Here' = Onward(sources, Here)
      <4>1. PICK left : left = ImportTaken(stack)
          OBVIOUS
      <4>2. /\ stack' = left /\ call' = <<Head(Top.imports)>>
            /\ UNCHANGED <<loading, order>> /\ call = <<>> /\ Top.imports # <<>>
          BY <1>5, <2>3, <4>1 DEF ResolveImport, ImportTaken
      <4>3. Onward(sources, Here) = [Here EXCEPT !.stack = left, !.call = <<Head(Top.imports)>>]
          BY <2>1, <4>1, <4>2 DEF Onward, AfterFrame
      <4> QED
          BY <4>2, <4>3
    <3> QED
        BY <2>1, <3>1, <3>2
  <2> QED
      BY <2>2, <2>3
<1>6. CASE FinishModule
  <2>1. ~Ended(Here) /\ Top = Frame(Here) /\ Top.module \in Module
      BY <1>6, TopIs DEF FinishModule, Ended, LoadTyped, Top, Frame
  <2>2. CASE sources[Top.module].fault = "fixity"
    <3>1. /\ Report(Diagnostic(Top.module, "fixity"))
          /\ NextReport(sources, Here) = <<Diagnostic(Top.module, "fixity")>>
        BY <1>6, <2>1, <2>2 DEF FinishModule, NextReport, ReportOfFrame, ReportOn
    <3>2. /\ Diagnostic(Top.module, "fixity") \in Said
          /\ Diagnostic(Top.module, "fixity").says # "type"
        BY <2>1 DEF Said, Diagnostic, Fault
    <3> QED
        BY <2>1, <3>1, <3>2
  <2>3. CASE sources[Top.module].fault # "fixity"
    <3>1. Silent /\ NextReport(sources, Here) = <<>>
        BY <1>6, <2>1, <2>3 DEF FinishModule, NextReport, ReportOfFrame, ReportOn
    <3>2. Here' = Onward(sources, Here)
        BY <1>6, <2>1, <2>3 DEF FinishModule, Onward, AfterFrame, Pop
    <3> QED
        BY <2>1, <3>1, <3>2
  <2> QED
      BY <2>2, <2>3
<1> QED
    BY <1>1, <1>2, <1>3, <1>4, <1>5, <1>6 DEF LoaderStep

\* Where the two loaders are, and with what they came to a stop.
Stopped(src, report) == \E x \in Loader : Stops(src, x) /\ NextReport(src, x) = report

Agreement ==
    /\ phase = "fail_fast" =>
         /\ diagnostics = <<>>
         /\ IF error = <<>> THEN OnTheWay(sources, Here) ELSE Stopped(sources, error)
    /\ phase = "recovering" =>
         /\ Stopped(sources, error)
         /\ IF diagnostics = <<>> THEN OnTheWay(sources, Here)
            ELSE Stopped(sources, <<diagnostics[1]>>)
         /\ \A i \in DOMAIN diagnostics : diagnostics[i].says # "type"
    /\ phase = "infer" =>
         /\ error = <<>>
         /\ \A i \in DOMAIN diagnostics : diagnostics[i].says = "type"
    /\ phase = "done" => LoadersAgree

AgreeInv == LoadTyped /\ LoadedOnce /\ Agreement

LEMMA InitAgree == LoadingInit => Agreement
<1> SUFFICES ASSUME LoadingInit PROVE Agreement
    OBVIOUS
<1>1. Here = AtStart
    BY DEF LoadingInit, NewGraph, Here, AtStart
<1> QED
    BY <1>1, FirstIsOnTheWay DEF LoadingInit, NewGraph, Agreement

\* A step of a loader that has reported nothing stays on the way, or is the stop.
LEMMA StepFromTheWay ==
    ASSUME LoadTyped, LoadedOnce, Here' \in Loader, LoaderStep, OnTheWay(sources, Here)
    PROVE  \/ Silent /\ OnTheWay(sources, Here')
           \/ \E d \in Said : Report(d) /\ d.says # "type" /\ Stopped(sources, <<d>>)
<1>1. CASE Silent /\ NextReport(sources, Here) = <<>> /\ Here' = Onward(sources, Here)
  <2>1. GoesOn(sources, Here)
      BY <1>1, StepIsNext DEF GoesOn
  <2> QED
      BY <1>1, <2>1, OnwardIsOnTheWay
<1>2. ASSUME NEW d \in Said, Report(d), NextReport(sources, Here) = <<d>>, d.says # "type"
      PROVE  Stopped(sources, <<d>>)
    BY <1>2, HereIsLoader DEF Stopped, Stops, GoesOn
<1> QED
    BY <1>1, <1>2, StepIsNext

\* At its end a loader that has reported nothing has stopped.
LEMMA EndStops ==
    ASSUME LoadTyped, LoadedOnce, OnTheWay(sources, Here), call = <<>>, stack = <<>>
    PROVE  Stopped(sources, <<>>)
<1>1. Ended(Here) /\ NextReport(sources, Here) = <<>>
    BY DEF Ended, NextReport, Here
<1> QED
    BY <1>1, HereIsLoader DEF Stopped, Stops, GoesOn

LEMMA LoaderAgree ==
    ASSUME AgreeInv, Here' \in Loader, LoaderStep
    PROVE  Agreement'
<1>1. UNCHANGED <<sources, phase>> /\ LoaderRuns
    BY DEF LoaderStep, AlreadyLoaded, CircularImport, UnreadableModule, ReadModule,
           ResolveImport, FinishModule
<1>2. CASE phase = "fail_fast"
  <2>1. error = <<>> /\ OnTheWay(sources, Here) /\ diagnostics = <<>>
      BY <1>1, <1>2 DEF LoaderRuns, AgreeInv, Agreement
  <2>2. \/ Silent /\ OnTheWay(sources, Here')
        \/ \E d \in Said : Report(d) /\ Stopped(sources, <<d>>)
      BY <2>1, StepFromTheWay DEF AgreeInv
  <2>3. /\ diagnostics' = <<>>
        /\ IF error' = <<>> THEN OnTheWay(sources, Here') ELSE Stopped(sources, error')
    <3>1. CASE Silent /\ OnTheWay(sources, Here')
        BY <2>1, <3>1 DEF Silent
    <3>2. ASSUME NEW d \in Said, Report(d), Stopped(sources, <<d>>)
          PROVE  diagnostics' = <<>> /\ error' # <<>> /\ Stopped(sources, error')
      <4>1. error' = <<d>> /\ diagnostics' = diagnostics
          BY <1>2, <3>2 DEF Report
      <4> QED
          BY <2>1, <3>2, <4>1
    <3> QED
        BY <2>2, <3>1, <3>2
  <2> QED
      BY <1>1, <1>2, <2>3 DEF Agreement
<1>3. CASE phase = "recovering"
  <2>1. Stopped(sources, error) /\ \A i \in DOMAIN diagnostics : diagnostics[i].says # "type"
      BY <1>3 DEF AgreeInv, Agreement
  <2>2. ASSUME Silent
        PROVE  error' = error /\ diagnostics' = diagnostics
      BY <2>2 DEF Silent
  <2>3. ASSUME NEW d \in Said, Report(d), d.says # "type"
        PROVE  /\ error' = error /\ diagnostics' # <<>>
               /\ diagnostics'[1] = IF diagnostics = <<>> THEN d ELSE diagnostics[1]
               /\ \A i \in DOMAIN diagnostics' : diagnostics'[i].says # "type"
    <3>1. error' = error /\ diagnostics' = Append(diagnostics, d)
        BY <1>3, <2>3 DEF Report
    <3>2. PICK n \in Nat : n = Len(diagnostics)
        BY DEF AgreeInv, LoadTyped
    <3>3. /\ diagnostics' \in Seq(Said) /\ Len(diagnostics') = n + 1 /\ diagnostics' # <<>>
          /\ \A i \in 1 .. n : diagnostics'[i] = diagnostics[i]
          /\ diagnostics'[n + 1] = d
        BY <2>3, <3>1, <3>2, AppendIs DEF AgreeInv, LoadTyped
    <3>4. DOMAIN diagnostics' = 1 .. (n + 1) /\ DOMAIN diagnostics = 1 .. n
        BY <3>2, <3>3 DEF AgreeInv, LoadTyped
    <3>5. \A i \in DOMAIN diagnostics' : diagnostics'[i].says # "type"
        BY <2>1, <2>3, <3>2, <3>3, <3>4
    <3>6. diagnostics = <<>> <=> n = 0
        BY <3>2 DEF AgreeInv, LoadTyped
    <3> QED
        BY <3>1, <3>2, <3>3, <3>5, <3>6
  <2>4. CASE diagnostics = <<>>
    <3>1. OnTheWay(sources, Here)
        BY <1>3, <2>4 DEF AgreeInv, Agreement
    <3>2. \/ Silent /\ OnTheWay(sources, Here')
          \/ \E d \in Said : Report(d) /\ d.says # "type" /\ Stopped(sources, <<d>>)
        BY <3>1, StepFromTheWay DEF AgreeInv
    <3> QED
        BY <1>1, <1>3, <2>1, <2>2, <2>3, <2>4, <3>2 DEF Agreement
  <2>5. CASE diagnostics # <<>>
    <3>1. Stopped(sources, <<diagnostics[1]>>)
        BY <1>3, <2>5 DEF AgreeInv, Agreement
    <3>2. Silent \/ \E d \in Said : Report(d) /\ d.says # "type"
        BY StepIsNext DEF AgreeInv
    <3> QED
        BY <1>1, <1>3, <2>1, <2>2, <2>3, <2>5, <3>1, <3>2 DEF Agreement
  <2> QED
      BY <2>4, <2>5
<1> QED
    BY <1>1, <1>2, <1>3 DEF LoaderRuns

LEMMA StepAgree == AgreeInv /\ Here' \in Loader /\ [LoadingNext]_loadingVars => Agreement'
<1> SUFFICES ASSUME AgreeInv, Here' \in Loader, [LoadingNext]_loadingVars
             PROVE  Agreement'
    OBVIOUS
<1>1. CASE LoaderStep
    BY <1>1, LoaderAgree
<1>2. CASE ReturnError
    BY <1>2 DEF ReturnError, AgreeInv, Agreement
<1>3. CASE StartRecovering
  <2>1. Stopped(sources, error) /\ diagnostics = <<>>
      BY <1>3, EndStops DEF StartRecovering, AgreeInv, Agreement
  <2>2. Here' = AtStart
      BY <1>3 DEF StartRecovering, Here, AtStart
  <2> QED
      BY <1>3, <2>1, <2>2, FirstIsOnTheWay DEF StartRecovering, Agreement
<1>4. CASE EndRecovering
  <2>1. Stopped(sources, error) /\ \A i \in DOMAIN diagnostics : diagnostics[i].says # "type"
      BY <1>4 DEF EndRecovering, AgreeInv, Agreement
  <2>2. CASE diagnostics = <<>>
    <3>1. Stopped(sources, <<>>)
        BY <1>4, <2>2, EndStops DEF EndRecovering, AgreeInv, Agreement
    <3>2. error = <<>>
        BY <2>1, <3>1, OneStop DEF Stopped
    <3> QED
        BY <1>4, <2>2, <3>2 DEF EndRecovering, Agreement
  <2>3. CASE diagnostics # <<>>
    <3>1. Stopped(sources, <<diagnostics[1]>>)
        BY <1>4, <2>3 DEF EndRecovering, AgreeInv, Agreement
    <3>2. error = <<diagnostics[1]>>
        BY <2>1, <3>1, OneStop DEF Stopped
    <3>3. 1 \in DOMAIN diagnostics /\ \A k \in DOMAIN diagnostics : 1 <= k
        BY <2>3 DEF AgreeInv, LoadTyped
    <3>4. LoadersAgree'
        BY <1>4, <2>1, <3>2, <3>3 DEF EndRecovering, LoadersAgree
    <3> QED
        BY <1>4, <2>3, <3>4 DEF EndRecovering, Agreement
  <2> QED
      BY <2>2, <2>3
<1>5. CASE SkipModule
    BY <1>5 DEF SkipModule, AgreeInv, Agreement
<1>6. CASE InferModule
  <2>1. \A i \in DOMAIN diagnostics' : diagnostics'[i].says = "type"
    <3>1. CASE diagnostics' = diagnostics
        BY <1>6, <3>1 DEF InferModule, AgreeInv, Agreement
    <3>2. CASE diagnostics' = Append(diagnostics, Diagnostic(NextModule, "type"))
      <4>1. Diagnostic(NextModule, "type").says = "type"
          BY DEF Diagnostic
      <4>2. \A i \in DOMAIN diagnostics : diagnostics[i].says = "type"
          BY <1>6 DEF InferModule, AgreeInv, Agreement
      <4>3. PICK d : d = Diagnostic(NextModule, "type")
          OBVIOUS
      <4>4. PICK n \in Nat : n = Len(diagnostics) /\ DOMAIN diagnostics = 1 .. n
          BY DEF AgreeInv, LoadTyped
      <4>5. /\ DOMAIN diagnostics' = 1 .. (n + 1)
            /\ \A i \in 1 .. n : diagnostics'[i] = diagnostics[i]
            /\ diagnostics'[n + 1] = d
          BY <3>2, <4>3, <4>4 DEF AgreeInv, LoadTyped
      <4> QED
          BY <4>1, <4>2, <4>3, <4>4, <4>5
    <3> QED
        BY <1>6, <3>1, <3>2 DEF InferModule
  <2> QED
      BY <1>6, <2>1 DEF InferModule, AgreeInv, Agreement
<1>7. CASE EndInference
    BY <1>7 DEF EndInference, AgreeInv, Agreement, LoadersAgree
<1>8. CASE LoadingDone \/ UNCHANGED loadingVars
    BY <1>8 DEF LoadingDone, loadingVars, AgreeInv, Agreement, LoadersAgree, Here
<1> QED
    BY <1>1, <1>2, <1>3, <1>4, <1>5, <1>6, <1>7, <1>8 DEF LoadingNext, LoaderStep

(* The loader that stops at the first error and the one that collects them agree, for
   every graph of modules: the first fails exactly when the second reports something,
   and with the first of its diagnostics (load_module and load_module_recovering in
   hern-core/src/module.rs). *)
THEOREM LoadersAlwaysAgree == LoadingSpec => []LoadersAgree
<1>1. LoadingInit => AgreeInv
    BY InitTyped, InitOnce, InitAgree DEF AgreeInv
<1>2. AgreeInv /\ LoadingInv /\ LoadingInv' /\ [LoadingNext]_loadingVars => AgreeInv'
  <2>1. LoadingInv' => Here' \in Loader
    <3>1. LoadTyped /\ LoadedOnce => Here \in Loader
        BY HereIsLoader
    <3>2. (LoadTyped /\ LoadedOnce => Here \in Loader)'
        BY HereIsLoader, PTL
    <3> QED
        BY <3>2 DEF LoadingInv
  <2> QED
      BY <2>1, StepAgree DEF AgreeInv, LoadingInv
<1>3. AgreeInv => LoadersAgree
    BY DEF AgreeInv, Agreement, LoadersAgree
<1> QED
    BY <1>1, <1>2, <1>3, LoadingInvariant, PTL DEF LoadingSpec
=============================================================================
