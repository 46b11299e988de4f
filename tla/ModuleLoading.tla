----------------------------- MODULE ModuleLoading -----------------------------
(***************************************************************************)
(* Loading and inferring a graph of modules: ModuleGraph and               *)
(* infer_graph_collecting of hern-core/src/module.rs.  The same sources are *)
(* loaded twice, each time into a new graph: by load_module, which stops at *)
(* the first error, and then by load_module_recovering, which collects     *)
(* every diagnostic.  If there were none the modules are inferred, in the   *)
(* order in which they were loaded.                                        *)
(***************************************************************************)
EXTENDS Workspace

CONSTANTS
    Module,      \* paths of modules
    Entry,
    MaxImports,  \* bound on the imports of one module
    Faults       \* what may be wrong with a module

ASSUME EntryAssumption == Entry \in Module
ASSUME FaultsAssumption == Faults \subseteq Fault

VARIABLES
    sources,      \* what is read from disk; it does not change meanwhile
    phase,        \* "fail_fast", "recovering", "infer" or "done"
    stack,        \* the active calls of load_module: what is left of each program
    call,         \* the module load_module was called for and has not looked at
    loading,      \* ModuleGraph::loading
    order,        \* ModuleGraph::order; modules and paths have the same members
    error,        \* what load_module returned: none, or one diagnostic
    diagnostics,  \* of the recovering loader and of inference
    inferred,     \* the modules infer_program_collecting has run for
    unavailable   \* unavailable_modules

loadingVars == <<sources, phase, stack, call, loading, order, error, diagnostics,
                 inferred, unavailable>>

Call == [module : Module, imports : Seq(Module)]

ImportLists == UNION {[1 .. n -> Module] : n \in 0 .. MaxImports}

\* What stands in a file: there are imports only where there is a program.
SourceFile ==
    {s \in [imports : ImportLists, fault : Faults] : Readable(s) \/ s.imports = <<>>}

NewGraph ==
    /\ phase = "fail_fast"
    /\ stack = <<>>
    /\ loading = {}
    /\ order = <<>>
    /\ error = <<>>
    /\ diagnostics = <<>>
    /\ inferred = {}
    /\ unavailable = {}

\* Before anything is loaded.
LoadingIdle ==
    /\ sources = [m \in Module |-> [imports |-> <<>>, fault |-> "none"]]
    /\ call = <<>>
    /\ NewGraph

LoadingInit ==
    /\ sources \in [Module -> SourceFile]
    /\ call = <<Entry>>
    /\ NewGraph

-----------------------------------------------------------------------------

Top == stack[Len(stack)]

Pop == SubSeq(stack, 1, Len(stack) - 1)

\* load_module returns the diagnostic, load_module_recovering collects it.
Report(diagnostic) ==
    \/ /\ phase = "fail_fast"
       /\ error' = <<diagnostic>>
       /\ UNCHANGED diagnostics
    \/ /\ phase = "recovering"
       /\ diagnostics' = Append(diagnostics, diagnostic)
       /\ UNCHANGED error

Silent == UNCHANGED <<diagnostics, error>>

LoaderRuns == phase = "recovering" \/ (phase = "fail_fast" /\ error = <<>>)

\* The module is in the graph already.
AlreadyLoaded ==
    /\ LoaderRuns
    /\ call # <<>> /\ call[1] \in ToSet(order)
    /\ call' = <<>>
    /\ Silent
    /\ UNCHANGED <<sources, phase, stack, loading, order, inferred, unavailable>>

\* The module is being loaded by an outer call.
CircularImport ==
    /\ LoaderRuns
    /\ call # <<>> /\ call[1] \notin ToSet(order) /\ call[1] \in loading
    /\ call' = <<>>
    /\ Report(Diagnostic(call[1], "circular"))
    /\ UNCHANGED <<sources, phase, stack, loading, order, inferred, unavailable>>

\* Only the entry can be missing here; see ResolveImport.
UnreadableDiagnostic ==
    Diagnostic(call[1], IF sources[call[1]].fault = "lex" THEN "lex" ELSE "unresolved")

\* There is no program: the path joins `loading`, leaves it and is not loaded.
UnreadableModule ==
    /\ LoaderRuns
    /\ call # <<>> /\ call[1] \notin ToSet(order) \union loading
    /\ ~Readable(sources[call[1]])
    /\ call' = <<>>
    /\ Report(UnreadableDiagnostic)
    /\ UNCHANGED <<sources, phase, stack, loading, order, inferred, unavailable>>

\* Mutant: load_module reassociates before it resolves the imports.
ReadModule_ReassociatesFirst ==
    /\ LoaderRuns
    /\ call # <<>> /\ call[1] \notin ToSet(order) \union loading
    /\ Readable(sources[call[1]])
    /\ call' = <<>>
    /\ stack' = Append(stack, [module |-> call[1], imports |-> sources[call[1]].imports])
    /\ loading' = loading \union {call[1]}
    /\ IF sources[call[1]].fault = "parse" \/ (sources[call[1]].fault = "fixity" /\ phase = "fail_fast")
       THEN Report(Diagnostic(call[1], sources[call[1]].fault))
       ELSE Silent
    /\ UNCHANGED <<sources, phase, order, inferred, unavailable>>

\* The module is read and parsed.  After a parse error load_module looks no
\* further; load_module_recovering goes on with the program that was recovered.
ReadModule ==
    /\ LoaderRuns
    /\ call # <<>> /\ call[1] \notin ToSet(order) \union loading
    /\ Readable(sources[call[1]])
    /\ call' = <<>>
    /\ stack' = Append(stack, [module |-> call[1], imports |-> sources[call[1]].imports])
    /\ loading' = loading \union {call[1]}
    /\ IF sources[call[1]].fault = "parse" THEN Report(Diagnostic(call[1], "parse")) ELSE Silent
    /\ UNCHANGED <<sources, phase, order, inferred, unavailable>>

\* resolve_imports_in_program, for the next import expression.
ResolveImport ==
    /\ LoaderRuns
    /\ call = <<>> /\ stack # <<>> /\ Top.imports # <<>>
    /\ LET import == Head(Top.imports)
       IN  \/ /\ sources[import].fault = "missing"
              /\ Report(Diagnostic(Top.module, "unresolved"))
              /\ UNCHANGED call
           \/ /\ sources[import].fault # "missing"
              /\ call' = <<import>>
              /\ Silent
    /\ stack' = [stack EXCEPT ![Len(stack)].imports = Tail(@)]
    /\ UNCHANGED <<sources, phase, loading, order, inferred, unavailable>>

\* Mutant: the importer is put before its imports.
FinishModule_InFront ==
    /\ LoaderRuns
    /\ call = <<>> /\ stack # <<>> /\ Top.imports = <<>>
    /\ loading' = loading \ {Top.module}
    /\ stack' = Pop
    /\ order' = <<Top.module>> \o order
    /\ IF sources[Top.module].fault = "fixity" THEN Report(Diagnostic(Top.module, "fixity")) ELSE Silent
    /\ UNCHANGED <<sources, phase, call, inferred, unavailable>>

\* expand_derives, reassociation with the prelude's fixities, and the end of the
\* call.  load_module_recovering keeps the module whatever its diagnostics.
FinishModule ==
    /\ LoaderRuns
    /\ call = <<>> /\ stack # <<>> /\ Top.imports = <<>>
    /\ loading' = loading \ {Top.module}
    /\ stack' = Pop
    /\ \/ /\ sources[Top.module].fault = "fixity"
          /\ Report(Diagnostic(Top.module, "fixity"))
          /\ order' = IF phase = "fail_fast" THEN order ELSE Append(order, Top.module)
       \/ /\ sources[Top.module].fault # "fixity"
          /\ Silent
          /\ order' = Append(order, Top.module)
    /\ UNCHANGED <<sources, phase, call, inferred, unavailable>>

\* The error of load_module goes through the calls that wait for it.
ReturnError ==
    /\ phase = "fail_fast" /\ error # <<>> /\ stack # <<>>
    /\ loading' = loading \ {Top.module}
    /\ stack' = Pop
    /\ UNCHANGED <<sources, phase, call, order, error, diagnostics, inferred, unavailable>>

\* load_entry_recovering starts on a new graph.
StartRecovering ==
    /\ phase = "fail_fast" /\ call = <<>> /\ stack = <<>>
    /\ phase' = "recovering"
    /\ call' = <<Entry>>
    /\ loading' = {}
    /\ order' = <<>>
    /\ UNCHANGED <<sources, stack, error, diagnostics, inferred, unavailable>>

\* analyze_workspace: there is no inference when loading had diagnostics.
EndRecovering ==
    /\ phase = "recovering" /\ call = <<>> /\ stack = <<>>
    /\ phase' = IF diagnostics = <<>> THEN "infer" ELSE "done"
    /\ UNCHANGED <<sources, stack, call, loading, order, error, diagnostics, inferred, unavailable>>

-----------------------------------------------------------------------------

\* The module infer_graph_collecting comes to next.
NextModule ==
    LET seen == {i \in 1 .. Len(order) : order[i] \in inferred \union unavailable}
    IN  order[Cardinality(seen) + 1]

AllSeen == ToSet(order) \subseteq inferred \union unavailable

\* Mutant: a skipped module is not unavailable itself.
ImportsUnavailable_OwnErrorsOnly(m) ==
    Imports(sources, m) \intersect {i \in unavailable : sources[i].fault = "type"} # {}

ImportsUnavailable(m) == Imports(sources, m) \intersect unavailable # {}

SkipModule ==
    /\ phase = "infer" /\ ~AllSeen
    /\ ImportsUnavailable(NextModule)
    /\ unavailable' = unavailable \union {NextModule}
    /\ UNCHANGED <<sources, phase, stack, call, loading, order, error, diagnostics, inferred>>

\* infer_program_collecting; a module with errors keeps its partial results but
\* is unavailable to its importers.
InferModule ==
    /\ phase = "infer" /\ ~AllSeen
    /\ ~ImportsUnavailable(NextModule)
    /\ inferred' = inferred \union {NextModule}
    /\ \/ /\ sources[NextModule].fault = "type"
          /\ diagnostics' = Append(diagnostics, Diagnostic(NextModule, "type"))
          /\ unavailable' = unavailable \union {NextModule}
       \/ /\ sources[NextModule].fault # "type"
          /\ UNCHANGED <<diagnostics, unavailable>>
    /\ UNCHANGED <<sources, phase, stack, call, loading, order, error>>

EndInference ==
    /\ phase = "infer" /\ AllSeen
    /\ phase' = "done"
    /\ UNCHANGED <<sources, stack, call, loading, order, error, diagnostics, inferred, unavailable>>

LoadingDone == phase = "done" /\ UNCHANGED loadingVars

LoadingNext ==
    \/ AlreadyLoaded \/ CircularImport \/ UnreadableModule \/ ReadModule
    \/ ResolveImport \/ FinishModule \/ ReturnError
    \/ StartRecovering \/ EndRecovering
    \/ SkipModule \/ InferModule \/ EndInference
    \/ LoadingDone

-----------------------------------------------------------------------------
(* Properties.                                                             *)

Says(what) == {d.at : d \in {d \in ToSet(diagnostics) : d.says = what}}

(* When inference and code generation run, each module comes after all its
   imports: their types are known and their Lua chunks are defined. *)
ImportsComeFirst ==
    (phase = "infer") =>
        \A i \in 1 .. Len(order) :
            Imports(sources, order[i]) \subseteq {order[j] : j \in 1 .. (i - 1)}

(* The two loaders agree: load_module fails if and only if
   load_module_recovering has diagnostics, and with the first of them. *)
LoadersAgree ==
    LET collected == {i \in DOMAIN diagnostics : diagnostics[i].says # "type"}
    IN  (phase \in {"infer", "done"}) =>
            IF collected = {} THEN error = <<>>
            ELSE \E i \in collected : error = <<diagnostics[i]>> /\ \A k \in collected : i <= k

(* A module is inferred only when everything it depends on was inferred without
   an error, and left out only because of an error that is reported. *)
NoCascades ==
    /\ \A m \in inferred : \A i \in Reached(sources, m) \ {m} :
           i \in inferred /\ i \notin Says("type")
    /\ \A m \in unavailable : Reached(sources, m) \intersect Says("type") # {}
=============================================================================
