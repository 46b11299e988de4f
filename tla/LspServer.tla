------------------------------- MODULE LspServer -------------------------------
(***************************************************************************)
(* The document and diagnostics state of the language server: ServerState  *)
(* (hern-lsp/src/analysis/state.rs) and the notifications that change it    *)
(* (hern-lsp/src/lib.rs).  The server has one thread; the client and the    *)
(* file system move between its steps, and the file system also moves while *)
(* an analysis runs.  MainLoop says when a flush happens; here it may       *)
(* happen whenever something is pending.                                   *)
(***************************************************************************)
EXTENDS Workspace, PendingValidations

CONSTANTS
    Overlays(_),            \* the texts the client may give a document
    Files(_),               \* the contents its file may have
    MaxVersion,             \* bound on document versions
    MaxWrites               \* bound on changes of a file

VARIABLES
    documents,              \* the overlay of each open document
    document_versions,
    open_entry_uris,
    entry_dependencies,     \* the modules each analysed entry was made of
    diagnostics_by_entry,
    cached_analyses,        \* of the entries whose last analysis found nothing
    pending,                \* pending_validations of main_loop
    todo,                   \* the entries the running handler still validates
    analysed,               \* the analysis whose result is not recorded yet
    disk,                   \* contents of each file and its modification stamp
    unwatched,              \* files whose change the client has not reported yet
    raced,                  \* history: those of them written while an analysis ran
    shown                   \* the diagnostics last sent for each URI

server == <<documents, document_versions, open_entry_uris, entry_dependencies,
            diagnostics_by_entry, cached_analyses, pending, todo, analysed, shown>>
vars == <<server, disk, unwatched, raced>>

-----------------------------------------------------------------------------

\* Each module as an analysis that starts now reads it.
Sources == [d \in Doc |-> IF d \in DOMAIN documents THEN documents[d] ELSE disk[d].source]

\* What diagnostics_for_document finds for an open entry.  Its own parse errors
\* hide everything else.
FreshAnalysis(sources, entry) ==
    IF sources[entry].fault \in {"lex", "parse"}
    THEN [deps |-> {entry}, diagnostics |-> {Diagnostic(entry, sources[entry].fault)}]
    ELSE [deps |-> Loaded(sources, entry), diagnostics |-> Diagnostics(sources, entry)]

\* combined_diagnostics_for_uri
Combined(by_entry, uri) ==
    {x.says : x \in {x \in UNION {by_entry[e] : e \in DOMAIN by_entry} : x.at = uri}}

\* send_diagnostics, for the URIs in `affected`.
Sent(by_entry, affected) ==
    [d \in Doc |-> IF d \in affected THEN Combined(by_entry, d) ELSE shown[d]]

\* The URIs a DiagnosticsByUri has: always the entry's own.
UrisOf(entry, diagnostics) == {entry} \union {x.at : x \in diagnostics}

Previous(entry) ==
    IF entry \in DOMAIN diagnostics_by_entry
    THEN UrisOf(entry, diagnostics_by_entry[entry])
    ELSE {}

-----------------------------------------------------------------------------

\* entries_affected_by_document
EntriesAffected(uri) ==
    (open_entry_uris \cap {uri})
    \union {e \in DOMAIN entry_dependencies : uri \in entry_dependencies[e]}

\* Mutant: only the document's own analysis is dropped.
Invalidated_OwnOnly(S) == Restrict(cached_analyses, DOMAIN cached_analyses \ S)

\* invalidate_cached_analyses_for_document, for each document of S.
Invalidated(S) ==
    Restrict(cached_analyses,
             DOMAIN cached_analyses \ UNION {EntriesAffected(d) : d \in S})

\* file_fingerprint_for_uri: absent for a missing file.
Fingerprint(file) == IF file.source.fault = "missing" THEN 0 ELSE file.stamp

\* cached_analysis: a request is answered from the cache.
Served(entry) ==
    /\ entry \in DOMAIN cached_analyses
    /\ LET cached == cached_analyses[entry]
       IN  /\ \A d \in DOMAIN cached.document_versions :
                  /\ d \in DOMAIN document_versions
                  /\ document_versions[d] = cached.document_versions[d]
           /\ \A d \in DOMAIN cached.file_fingerprints :
                  Fingerprint(disk[d]) = cached.file_fingerprints[d]

-----------------------------------------------------------------------------

Idle == todo = <<>>

With(f, key, value) == [x \in DOMAIN f \union {key} |-> IF x = key THEN value ELSE f[x]]

WithoutVersion(uri) == Restrict(document_versions, DOMAIN document_versions \ {uri})

\* didOpen: set_document, mark_open_entry, publish_diagnostics for the document,
\* then the other entries it affected are scheduled.  (They join the queue here at
\* once: nobody looks at the queue until the handler ends.)
DidOpen(uri, text) ==
    /\ Idle
    /\ uri \notin DOMAIN documents
    /\ documents' = With(documents, uri, text)
    /\ document_versions' = With(document_versions, uri, 1)
    /\ cached_analyses' = Invalidated({uri})
    /\ open_entry_uris' = open_entry_uris \union {uri}
    /\ todo' = <<uri>>
    /\ pending' \in Extended(pending, EntriesAffected(uri) \ {uri})
    /\ UNCHANGED <<entry_dependencies, diagnostics_by_entry, analysed, shown, disk, unwatched, raced>>

\* Mutant: only the changed document is validated again.
ScheduledByChange_OwnOnly(uri) == {uri}

ScheduledByChange(uri) == EntriesAffected(uri)

\* didChange
DidChange(uri, text) ==
    /\ Idle
    /\ uri \in DOMAIN documents
    /\ document_versions[uri] < MaxVersion
    /\ documents' = With(documents, uri, text)
    /\ document_versions' = With(document_versions, uri, document_versions[uri] + 1)
    /\ cached_analyses' = Invalidated({uri})
    /\ pending' \in Extended(pending, ScheduledByChange(uri))
    /\ UNCHANGED <<open_entry_uris, entry_dependencies, diagnostics_by_entry, todo,
                   analysed, shown, disk, unwatched, raced>>

\* The closed document and what it affects leave the queue.
Unqueued(uri) == Removed(pending, EntriesAffected(uri) \union {uri})

\* didClose: clear_entry_diagnostics and remove_entry_tracking for the closed
\* document; the entries that depended on its overlay are validated at once.
DidClose(uri) ==
    /\ Idle
    /\ uri \in DOMAIN documents
    /\ LET left == Restrict(diagnostics_by_entry, DOMAIN diagnostics_by_entry \ {uri})
       IN  /\ diagnostics_by_entry' = left
           /\ shown' = Sent(left, Previous(uri) \union {uri})
    /\ documents' = Restrict(documents, DOMAIN documents \ {uri})
    /\ document_versions' = WithoutVersion(uri)
    /\ open_entry_uris' = open_entry_uris \ {uri}
    /\ entry_dependencies' = Restrict(entry_dependencies, DOMAIN entry_dependencies \ {uri})
    /\ cached_analyses' = Restrict(Invalidated({uri}), DOMAIN Invalidated({uri}) \ {uri})
    /\ pending' = Unqueued(uri)
    /\ todo' \in SetToSeqs(EntriesAffected(uri) \ {uri})
    /\ UNCHANGED <<analysed, disk, unwatched, raced>>

\* workspace/didChangeWatchedFiles
DidChangeWatchedFiles(S) ==
    /\ Idle
    /\ unwatched' = unwatched \ S
    /\ raced' = raced \ S
    /\ cached_analyses' = Invalidated(S)
    /\ pending' \in Extended(pending, UNION {EntriesAffected(d) : d \in S})
    /\ UNCHANGED <<documents, document_versions, open_entry_uris, entry_dependencies,
                   diagnostics_by_entry, todo, analysed, shown, disk>>

\* flush_pending_validations
FlushPendingValidations ==
    /\ Idle
    /\ pending.entries # {}
    /\ todo' = Batch(pending)
    /\ pending' = Drained(pending)
    /\ UNCHANGED <<documents, document_versions, open_entry_uris, entry_dependencies,
                   diagnostics_by_entry, cached_analyses, analysed, shown, disk, unwatched, raced>>

-----------------------------------------------------------------------------

\* publish_diagnostics, up to the end of analyze_workspace.
Analyze ==
    /\ todo # <<>>
    /\ analysed = <<>>
    /\ analysed' = <<Sources>>
    /\ UNCHANGED <<documents, document_versions, open_entry_uris, entry_dependencies,
                   diagnostics_by_entry, cached_analyses, pending, todo, shown, disk, unwatched, raced>>

\* What is cached for an entry that had no diagnostics: the versions of the open
\* documents and, taken now, the fingerprints of the closed ones.
CachedAnalysis(sources, deps) ==
    [document_versions |-> Restrict(document_versions, deps \cap DOMAIN documents),
     file_fingerprints |-> [d \in deps \ DOMAIN documents |-> Fingerprint(disk[d])],
     sources           |-> Restrict(sources, deps)]

\* Mutant: what the entry reported before is not sent again.
Republished_NewOnly(entry, diagnostics) == UrisOf(entry, diagnostics)

\* The URIs publish_entry_diagnostics sends: those of the new diagnostics and those
\* of the diagnostics they replace.
Republished(entry, diagnostics) == UrisOf(entry, diagnostics) \union Previous(entry)

\* The rest of publish_diagnostics.
Publish ==
    /\ analysed # <<>>
    /\ LET entry   == Head(todo)
           fresh   == FreshAnalysis(analysed[1], entry)
           by_entry == With(diagnostics_by_entry, entry, fresh.diagnostics)
       IN  /\ entry_dependencies' = With(entry_dependencies, entry, fresh.deps)
           /\ cached_analyses' =
                  IF fresh.diagnostics = {}
                  THEN With(cached_analyses, entry, CachedAnalysis(analysed[1], fresh.deps))
                  ELSE cached_analyses
           /\ diagnostics_by_entry' = by_entry
           /\ shown' = Sent(by_entry, Republished(entry, fresh.diagnostics))
    /\ analysed' = <<>>
    /\ todo' = Tail(todo)
    /\ UNCHANGED <<documents, document_versions, open_entry_uris, pending, disk, unwatched, raced>>

-----------------------------------------------------------------------------

\* Something writes, deletes or restores a file.
DiskWrite(uri, source) ==
    /\ disk[uri].stamp < MaxWrites
    /\ source # disk[uri].source
    /\ disk' = [disk EXCEPT ![uri] = [source |-> source, stamp |-> @.stamp + 1]]
    /\ unwatched' = unwatched \union {uri}
    /\ raced' = IF analysed = <<>> THEN raced ELSE raced \union {uri}
    /\ UNCHANGED server

\* The server starts with no document open, on any files.
Init ==
    /\ documents = <<>>
    /\ document_versions = <<>>
    /\ open_entry_uris = {}
    /\ entry_dependencies = <<>>
    /\ diagnostics_by_entry = <<>>
    /\ cached_analyses = <<>>
    /\ pending = EmptyQueue
    /\ todo = <<>>
    /\ analysed = <<>>
    /\ disk \in {files \in [Doc -> [source : UNION {Files(d) : d \in Doc}, stamp : {1}]] :
                     \A d \in Doc : files[d].source \in Files(d)}
    /\ unwatched = {}
    /\ raced = {}
    /\ shown = [d \in Doc |-> {}]

Next ==
    \/ \E uri \in Doc : \E text \in Overlays(uri) : DidOpen(uri, text) \/ DidChange(uri, text)
    \/ \E uri \in Doc : DidClose(uri)
    \/ \E S \in (SUBSET unwatched) \ {{}} : DidChangeWatchedFiles(S)
    \/ FlushPendingValidations
    \/ Analyze
    \/ Publish
    \/ \E uri \in Doc : \E source \in Files(uri) : DiskWrite(uri, source)

Spec == Init /\ [][Next]_vars

-----------------------------------------------------------------------------
(* Properties.                                                             *)

(* What the client shows for a URI is what all the entries together report there:
   nothing stays on screen that no entry reports any more, and no entry's
   diagnostics are wiped by another entry being validated or closed. *)
ShownIsCombined == \A d \in Doc : shown[d] = Combined(diagnostics_by_entry, d)

(* When nothing is queued, running or unreported, the diagnostics of every open
   entry are those of the sources as they are now. *)
QuietMeansFresh ==
    (Idle /\ pending.entries = {} /\ unwatched = {}) =>
        /\ DOMAIN diagnostics_by_entry = open_entry_uris
        /\ \A e \in open_entry_uris :
               diagnostics_by_entry[e] = FreshAnalysis(Sources, e).diagnostics

(* A request that is answered from the cache is answered from an analysis of the
   sources as they are now, even while changed files are unreported and
   validations are queued.  The exception are files that were written while an
   analysis ran, whose fingerprint was taken afterwards: those only once the
   client has reported them. *)
CacheHonest ==
    Idle => \A e \in Doc :
        Served(e) => \A d \in DOMAIN cached_analyses[e].sources \ raced :
                         cached_analyses[e].sources[d] = Sources[d]
=============================================================================
