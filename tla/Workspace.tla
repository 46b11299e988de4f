------------------------------- MODULE Workspace -------------------------------
(***************************************************************************)
(* What analysing a workspace from an entry module must find, as a function *)
(* of the sources: analyze_workspace of hern-core/src/workspace.rs, without *)
(* the order in which it works (ModuleLoading gives that and is checked     *)
(* against this).  `sources` maps each module to a source.  For sources     *)
(* whose imports have no cycle.                                            *)
(***************************************************************************)
EXTENDS Integers, Sequences, FiniteSets, SequencesExt

(***************************************************************************)
(* The first thing that goes wrong with a module by itself:                *)
(*   missing  the path cannot be canonicalized and has no overlay          *)
(*   lex      the lexer gives up: there is no program                      *)
(*   parse    the parser recovers: there is a partial program              *)
(*   fixity   its operators cannot be reassociated                         *)
(*   type     inference reports errors                                     *)
(***************************************************************************)
Fault == {"none", "missing", "lex", "parse", "fixity", "type"}

\* A diagnostic: the module whose URI it is shown at, and what it says.
Diagnostic(module, says) == [at |-> module, says |-> says]

\* read_source and lex_source succeed: the module enters graph.modules.
Readable(source) == source.fault \notin {"missing", "lex"}

\* The modules that a program imports, once resolved; imports of a module that
\* has no program are not seen.
Imports(sources, m) ==
    IF Readable(sources[m]) THEN ToSet(sources[m].imports) ELSE {}

\* No module of C imports one outside it.
Closed(sources, C) == \A m \in C : Imports(sources, m) \subseteq C

\* The modules that loading `entry` comes across: those in every closed set that
\* holds it.
Reached(sources, entry) ==
    {m \in DOMAIN sources :
        \A C \in SUBSET (DOMAIN sources \ {m}) : entry \in C => ~Closed(sources, C)}

\* graph.paths: what was loaded.
Loaded(sources, entry) == {m \in Reached(sources, entry) : Readable(sources[m])}

\* What a module contributes to the diagnostics of loading.  An import that does
\* not resolve is reported at the importer, by resolve_import_path.
OwnLoadDiagnostics(sources, m) ==
    {Diagnostic(m, sources[m].fault) : f \in {sources[m].fault} \ {"none", "type", "missing"}}
    \union {Diagnostic(m, "unresolved") :
                i \in {i \in Imports(sources, m) : sources[i].fault = "missing"}}

\* load_entry_with_prelude_and_overlays_recovering
LoadDiagnostics(sources, entry) ==
    UNION {OwnLoadDiagnostics(sources, m) : m \in Reached(sources, entry)}
    \union {Diagnostic(entry, "unresolved") : e \in {entry} \cap
                {m \in DOMAIN sources : sources[m].fault = "missing"}}

\* Some module that m depends on has type errors: m is not inferred.
Unavailable(sources, m) ==
    \E i \in Reached(sources, m) \ {m} : sources[i].fault = "type"

\* infer_graph_collecting
TypeDiagnostics(sources, entry) ==
    {Diagnostic(m, "type") :
        m \in {m \in Loaded(sources, entry) :
                   sources[m].fault = "type" /\ ~Unavailable(sources, m)}}

\* analyze_workspace: inference runs only when everything was loaded.
Diagnostics(sources, entry) ==
    IF LoadDiagnostics(sources, entry) # {}
    THEN LoadDiagnostics(sources, entry)
    ELSE TypeDiagnostics(sources, entry)
=============================================================================
