------------------------------- MODULE LspProofs -------------------------------
(***************************************************************************)
(* What the language server shows and what it answers from its cache, for  *)
(* every set of documents and every text they may have:                    *)
(*                                                                         *)
(*   ShownIsAlwaysCombined   ShownIsCombined                               *)
(*   CacheIsHonest           CacheHonest                                   *)
(*   QuietIsFresh            QuietMeansFresh, for sources that can be read *)
(***************************************************************************)
EXTENDS LspServer, PendingProofs, LoadingProofs

-----------------------------------------------------------------------------
(* What is shown.                                                          *)

\* The diagnostics at d are the same when those of one entry change that say
\* nothing of d.
LEMMA CombinedSame ==
    ASSUME NEW by1, NEW by2, NEW d, NEW entry,
           \A e : e # entry => (e \in DOMAIN by1 <=> e \in DOMAIN by2),
           \A e \in DOMAIN by1 : e # entry => by1[e] = by2[e],
           entry \in DOMAIN by1 => \A x \in by1[entry] : x.at # d,
           entry \in DOMAIN by2 => \A x \in by2[entry] : x.at # d
    PROVE  Combined(by1, d) = Combined(by2, d)
<1> DEFINE At(by) == {x \in UNION {by[e] : e \in DOMAIN by} : x.at = d}
<1>1. ASSUME NEW x \in At(by1) PROVE x \in At(by2)
  <2>1. PICK e \in DOMAIN by1 : x \in by1[e] /\ x.at = d
      OBVIOUS
  <2>2. e # entry /\ e \in DOMAIN by2 /\ x \in by2[e]
      BY <2>1
  <2> QED
      BY <2>1, <2>2
<1>2. ASSUME NEW x \in At(by2) PROVE x \in At(by1)
  <2>1. PICK e \in DOMAIN by2 : x \in by2[e] /\ x.at = d
      OBVIOUS
  <2>2. e # entry /\ e \in DOMAIN by1 /\ x \in by1[e]
      BY <2>1
  <2> QED
      BY <2>1, <2>2
<1>3. At(by1) = At(by2)
    BY <1>1, <1>2
<1>4. Combined(by1, d) = {x.says : x \in At(by1)} /\ Combined(by2, d) = {x.says : x \in At(by2)}
    BY DEF Combined
<1> QED
    BY <1>3, <1>4

\* by2 differs from by1 at one entry, whose URIs, before and after, are affected.
Replaces(by1, by2, entry, affected) ==
    /\ \A e : e # entry => (e \in DOMAIN by1 <=> e \in DOMAIN by2)
    /\ \A e \in DOMAIN by1 : e # entry => by1[e] = by2[e]
    /\ entry \in DOMAIN by1 => UrisOf(entry, by1[entry]) \subseteq affected
    /\ entry \in DOMAIN by2 => UrisOf(entry, by2[entry]) \subseteq affected

\* Sending the URIs of one entry, before and after, is enough.
LEMMA SentIsEnough ==
    ASSUME NEW by1, NEW by2, NEW entry, NEW affected, NEW d \in Doc,
           shown[d] = Combined(by1, d), Replaces(by1, by2, entry, affected)
    PROVE  Sent(by2, affected)[d] = Combined(by2, d)
<1> USE DEF Replaces
<1>1. CASE d \in affected
    BY <1>1 DEF Sent
<1>2. CASE d \notin affected
  <2>1. entry \in DOMAIN by1 => \A x \in by1[entry] : x.at # d
      BY <1>2 DEF UrisOf
  <2>2. entry \in DOMAIN by2 => \A x \in by2[entry] : x.at # d
      BY <1>2 DEF UrisOf
  <2>3. Combined(by1, d) = Combined(by2, d)
      BY <2>1, <2>2, CombinedSame
  <2> QED
      BY <1>2, <2>3 DEF Sent
<1> QED
    BY <1>1, <1>2

LEMMA PublishShows ==
    ASSUME ShownIsCombined, Publish
    PROVE  ShownIsCombined'
<1>1. PICK entry, fresh : entry = Head(todo) /\ fresh = FreshAnalysis(analysed[1], entry)
    OBVIOUS
<1>2. PICK by_entry : by_entry = With(diagnostics_by_entry, entry, fresh.diagnostics)
    OBVIOUS
<1>3. /\ diagnostics_by_entry' = by_entry
      /\ shown' = Sent(by_entry, Republished(entry, fresh.diagnostics))
    BY <1>1, <1>2 DEF Publish
<1>4. /\ entry \in DOMAIN by_entry /\ by_entry[entry] = fresh.diagnostics
      /\ \A e : e # entry => (e \in DOMAIN diagnostics_by_entry <=> e \in DOMAIN by_entry)
      /\ \A e \in DOMAIN diagnostics_by_entry : e # entry => diagnostics_by_entry[e] = by_entry[e]
    BY <1>2 DEF With
<1>5. /\ UrisOf(entry, by_entry[entry]) \subseteq Republished(entry, fresh.diagnostics)
      /\ entry \in DOMAIN diagnostics_by_entry =>
             UrisOf(entry, diagnostics_by_entry[entry]) \subseteq Republished(entry, fresh.diagnostics)
    BY <1>4 DEF Republished, Previous
<1>6. ASSUME NEW d \in Doc
      PROVE  Sent(by_entry, Republished(entry, fresh.diagnostics))[d] = Combined(by_entry, d)
  <2>1. Replaces(diagnostics_by_entry, by_entry, entry, Republished(entry, fresh.diagnostics))
      BY <1>4, <1>5 DEF Replaces
  <2> QED
      BY <2>1, SentIsEnough DEF ShownIsCombined
<1> QED
    BY <1>3, <1>6 DEF ShownIsCombined

LEMMA DidCloseShows ==
    ASSUME ShownIsCombined, NEW uri \in Doc, DidClose(uri)
    PROVE  ShownIsCombined'
<1>1. PICK left : left = Restrict(diagnostics_by_entry, DOMAIN diagnostics_by_entry \ {uri})
    OBVIOUS
<1>2. PICK affected : affected = Previous(uri) \union {uri}
    OBVIOUS
<1>3. diagnostics_by_entry' = left /\ shown' = Sent(left, affected)
    BY <1>1, <1>2 DEF DidClose
<1>4. /\ uri \notin DOMAIN left
      /\ \A e : e # uri => (e \in DOMAIN diagnostics_by_entry <=> e \in DOMAIN left)
      /\ \A e \in DOMAIN diagnostics_by_entry : e # uri => diagnostics_by_entry[e] = left[e]
    BY <1>1 DEF Restrict
<1>5. uri \in DOMAIN diagnostics_by_entry =>
          UrisOf(uri, diagnostics_by_entry[uri]) \subseteq affected
    BY <1>2 DEF Previous
<1>6. ASSUME NEW d \in Doc
      PROVE  Sent(left, affected)[d] = Combined(left, d)
  <2>1. uri \in DOMAIN left => UrisOf(uri, left[uri]) \subseteq affected
      BY <1>4
  <2>2. shown[d] = Combined(diagnostics_by_entry, d)
      BY DEF ShownIsCombined
  <2>3. Replaces(diagnostics_by_entry, left, uri, affected)
      BY <1>4, <1>5, <2>1 DEF Replaces
  <2> QED
      BY <2>2, <2>3, SentIsEnough
<1> QED
    BY <1>3, <1>6 DEF ShownIsCombined

(* The client's screen: what is shown for a URI is what all the entries together
   report there, after every publication and every close (publish_entry_diagnostics,
   clear_entry_diagnostics and combined_diagnostics_for_uri in
   hern-lsp/src/analysis/state.rs). *)
THEOREM ShownIsAlwaysCombined == Spec => []ShownIsCombined
<1>1. Init => ShownIsCombined
    BY DEF Init, ShownIsCombined, Combined
<1>2. ShownIsCombined /\ [Next]_vars => ShownIsCombined'
  <2> SUFFICES ASSUME ShownIsCombined, [Next]_vars
               PROVE  ShownIsCombined'
      OBVIOUS
  <2>1. ASSUME UNCHANGED <<diagnostics_by_entry, shown>>
        PROVE  ShownIsCombined'
      BY <2>1 DEF ShownIsCombined, Combined
  <2>2. ASSUME NEW uri \in Doc, NEW text \in Overlays(uri), DidOpen(uri, text) \/ DidChange(uri, text)
        PROVE  ShownIsCombined'
      BY <2>1, <2>2 DEF DidOpen, DidChange
  <2>3. ASSUME NEW uri \in Doc, DidClose(uri)
        PROVE  ShownIsCombined'
      BY <2>3, DidCloseShows
  <2>4. ASSUME NEW S \in (SUBSET unwatched) \ {{}}, DidChangeWatchedFiles(S)
        PROVE  ShownIsCombined'
      BY <2>1, <2>4 DEF DidChangeWatchedFiles
  <2>5. CASE FlushPendingValidations \/ Analyze
      BY <2>1, <2>5 DEF FlushPendingValidations, Analyze
  <2>6. CASE Publish
      BY <2>6, PublishShows
  <2>7. ASSUME NEW uri \in Doc, NEW source \in Files(uri), DiskWrite(uri, source)
        PROVE  ShownIsCombined'
      BY <2>1, <2>7 DEF DiskWrite, server
  <2>8. CASE UNCHANGED vars
      BY <2>1, <2>8 DEF vars, server
  <2> QED
      BY <2>2, <2>3, <2>4, <2>5, <2>6, <2>7, <2>8 DEF Next
<1> QED
    BY <1>1, <1>2, PTL DEF Spec

-----------------------------------------------------------------------------
(* What is scheduled.                                                      *)

\* Everything that is scheduled or was analysed is open, and scheduled once; an
\* analysis runs for the first entry of todo.
Scheduled ==
    /\ Consistent(pending)
    /\ todo \in Seq(Doc) /\ IsInjective(todo)
    /\ pending.entries \intersect ToSet(todo) = {}
    /\ pending.entries \union ToSet(todo) \union DOMAIN entry_dependencies \subseteq open_entry_uris
    /\ open_entry_uris = DOMAIN documents /\ open_entry_uris \subseteq Doc
    /\ DOMAIN diagnostics_by_entry = DOMAIN entry_dependencies
    /\ \A e \in DOMAIN entry_dependencies : entry_dependencies[e] \subseteq Doc
    /\ analysed # <<>> => todo # <<>> /\ DOMAIN analysed[1] = Doc

LEMMA TailIs ==
    ASSUME NEW seq \in Seq(Doc), seq # <<>>, IsInjective(seq)
    PROVE  /\ Head(seq) \in ToSet(seq)
           /\ Tail(seq) \in Seq(Doc) /\ IsInjective(Tail(seq))
           /\ ToSet(Tail(seq)) = ToSet(seq) \ {Head(seq)}
<1>1. PICK n \in Nat : n = Len(seq) /\ n > 0 /\ DOMAIN seq = 1 .. n
    OBVIOUS
<1>2. /\ Tail(seq) \in Seq(Doc) /\ Len(Tail(seq)) = n - 1 /\ DOMAIN Tail(seq) = 1 .. (n - 1)
      /\ \A i \in 1 .. (n - 1) : Tail(seq)[i] = seq[i + 1]
      /\ Head(seq) = seq[1]
    BY <1>1
<1>3. Head(seq) \in ToSet(seq)
    BY <1>1, <1>2 DEF ToSet
<1>4. IsInjective(Tail(seq))
  <2>1. SUFFICES ASSUME NEW i \in 1 .. (n - 1), NEW j \in 1 .. (n - 1), Tail(seq)[i] = Tail(seq)[j]
                 PROVE  i = j
      BY <1>2 DEF IsInjective
  <2>2. seq[i + 1] = seq[j + 1] /\ i + 1 \in DOMAIN seq /\ j + 1 \in DOMAIN seq
      BY <1>1, <1>2, <2>1
  <2>3. i + 1 = j + 1
      BY <2>2 DEF IsInjective
  <2> QED
      BY <2>3
<1>5. ASSUME NEW x \in ToSet(Tail(seq)) PROVE x \in ToSet(seq) \ {Head(seq)}
  <2>1. PICK i \in 1 .. (n - 1) : x = seq[i + 1]
      BY <1>2, <1>5 DEF ToSet
  <2>2. i + 1 \in DOMAIN seq /\ 1 \in DOMAIN seq /\ i + 1 # 1
      BY <1>1
  <2>3. seq[i + 1] # seq[1]
      BY <2>2 DEF IsInjective
  <2> QED
      BY <1>2, <2>1, <2>2, <2>3 DEF ToSet
<1>6. ASSUME NEW x \in ToSet(seq) \ {Head(seq)} PROVE x \in ToSet(Tail(seq))
  <2>1. PICK i \in 1 .. n : x = seq[i]
      BY <1>1, <1>6 DEF ToSet
  <2>2. i - 1 \in 1 .. (n - 1)
      BY <1>2, <1>6, <2>1
  <2>3. Tail(seq)[i - 1] = seq[i]
      BY <1>2, <2>2
  <2> QED
      BY <1>2, <2>1, <2>2, <2>3 DEF ToSet
<1> QED
    BY <1>2, <1>3, <1>4, <1>5, <1>6

LEMMA AffectedIsOpen ==
    ASSUME Scheduled, NEW uri
    PROVE  EntriesAffected(uri) \subseteq open_entry_uris
BY DEF Scheduled, EntriesAffected

LEMMA ReachedInDomain ==
    ASSUME NEW texts, NEW entry
    PROVE  FreshAnalysis(texts, entry).deps \subseteq DOMAIN texts \union {entry}
BY DEF FreshAnalysis, Loaded, Reached

LEMMA InitScheduled == Init => Scheduled
<1> SUFFICES ASSUME Init PROVE Scheduled
    OBVIOUS
<1>1. DOMAIN documents = {} /\ DOMAIN entry_dependencies = {} /\ DOMAIN diagnostics_by_entry = {}
      /\ ToSet(todo) = {} /\ IsInjective(todo) /\ todo \in Seq(Doc)
    BY DEF Init, ToSet, IsInjective
<1> QED
    BY <1>1, EmptyIsConsistent DEF Init, Scheduled, EmptyQueue

LEMMA StepScheduled == Scheduled /\ [Next]_vars => Scheduled'
<1> SUFFICES ASSUME Scheduled, [Next]_vars
             PROVE  Scheduled'
    OBVIOUS
<1> USE DEF Scheduled
<1>1. ASSUME NEW uri \in Doc, NEW text \in Overlays(uri), DidOpen(uri, text)
      PROVE  Scheduled'
  <2> USE <1>1 DEF DidOpen
  <2>1. EntriesAffected(uri) \ {uri} \in SUBSET Doc /\ EntriesAffected(uri) \subseteq open_entry_uris
      BY AffectedIsOpen
  <2>2. Consistent(pending') /\ pending'.entries = pending.entries \union (EntriesAffected(uri) \ {uri})
      BY <2>1, ExtendedIs
  <2>3. ToSet(todo') = {uri} /\ IsInjective(todo') /\ todo' \in Seq(Doc)
      BY DEF ToSet, IsInjective
  <2>4. DOMAIN documents' = DOMAIN documents \union {uri}
      BY DEF With
  <2>5. uri \notin pending.entries
      OBVIOUS
  <2>6. analysed' = <<>>
      BY DEF Idle
  <2> QED
      BY <2>1, <2>2, <2>3, <2>4, <2>5, <2>6
<1>2. ASSUME NEW uri \in Doc, NEW text \in Overlays(uri), DidChange(uri, text)
      PROVE  Scheduled'
  <2> USE <1>2 DEF DidChange
  <2>1. EntriesAffected(uri) \in SUBSET Doc /\ EntriesAffected(uri) \subseteq open_entry_uris
      BY AffectedIsOpen
  <2>2. Consistent(pending') /\ pending'.entries = pending.entries \union EntriesAffected(uri)
      BY <2>1, ExtendedIs DEF ScheduledByChange
  <2>3. ToSet(todo') = {}
      BY DEF ToSet, Idle
  <2>4. DOMAIN documents' = DOMAIN documents
      BY DEF With
  <2>5. analysed' = <<>>
      BY DEF Idle
  <2> QED
      BY <2>1, <2>2, <2>3, <2>4, <2>5
<1>3. ASSUME NEW uri \in Doc, DidClose(uri)
      PROVE  Scheduled'
  <2> USE <1>3 DEF DidClose
  <2>1. EntriesAffected(uri) \ {uri} \in SUBSET Doc /\ EntriesAffected(uri) \subseteq open_entry_uris
      BY AffectedIsOpen
  <2>2. /\ Consistent(pending')
        /\ pending'.entries = pending.entries \ (EntriesAffected(uri) \union {uri})
      BY RemovedIs DEF Unqueued
  <2>3. todo' \in Seq(Doc) /\ ToSet(todo') = EntriesAffected(uri) \ {uri} /\ IsInjective(todo')
      BY <2>1, OrderIs
  <2>4. /\ DOMAIN documents' = DOMAIN documents \ {uri}
        /\ DOMAIN entry_dependencies' = DOMAIN entry_dependencies \ {uri}
        /\ DOMAIN diagnostics_by_entry' = DOMAIN diagnostics_by_entry \ {uri}
        /\ \A e \in DOMAIN entry_dependencies' : entry_dependencies'[e] = entry_dependencies[e]
      BY DEF Restrict
  <2>5. analysed' = <<>>
      BY DEF Idle
  <2> QED
      BY <2>1, <2>2, <2>3, <2>4, <2>5
<1>4. ASSUME NEW S \in (SUBSET unwatched) \ {{}}, DidChangeWatchedFiles(S)
      PROVE  Scheduled'
  <2> USE <1>4 DEF DidChangeWatchedFiles
  <2>1. UNION {EntriesAffected(d) : d \in S} \subseteq open_entry_uris
      BY AffectedIsOpen
  <2>2. /\ Consistent(pending')
        /\ pending'.entries = pending.entries \union UNION {EntriesAffected(d) : d \in S}
      BY <2>1, ExtendedIs
  <2>3. ToSet(todo') = {} /\ analysed' = <<>>
      BY DEF ToSet, Idle
  <2> QED
      BY <2>1, <2>2, <2>3
<1>5. CASE FlushPendingValidations
  <2> USE <1>5 DEF FlushPendingValidations
  <2>1. /\ Consistent(pending')
        /\ pending'.entries = pending.entries \ ToSet(todo')
        /\ todo' \in Seq(Doc) /\ ToSet(todo') \subseteq pending.entries /\ IsInjective(todo')
      BY DrainedIs
  <2>2. analysed' = <<>>
      BY DEF Idle
  <2> QED
      BY <2>1, <2>2
<1>6. CASE Analyze
  <2>1. todo' # <<>> /\ DOMAIN analysed'[1] = Doc
      BY <1>6 DEF Analyze, Sources
  <2> QED
      BY <1>6, <2>1 DEF Analyze
<1>7. CASE Publish
  <2> USE <1>7 DEF Publish
  <2>1. PICK entry, fresh : entry = Head(todo) /\ fresh = FreshAnalysis(analysed[1], entry)
      OBVIOUS
  <2>2. /\ entry \in ToSet(todo) /\ todo' \in Seq(Doc) /\ IsInjective(todo')
        /\ ToSet(todo') = ToSet(todo) \ {entry}
      BY <2>1, TailIs
  <2>3. fresh.deps \subseteq Doc
    <3>1. DOMAIN analysed[1] = Doc /\ entry \in Doc
        BY <2>2
    <3> QED
        BY <2>1, <3>1, ReachedInDomain
  <2>4. /\ entry_dependencies' = With(entry_dependencies, entry, fresh.deps)
        /\ diagnostics_by_entry' = With(diagnostics_by_entry, entry, fresh.diagnostics)
      BY <2>1
  <2>5. analysed' = <<>> /\ UNCHANGED <<documents, open_entry_uris, pending>>
      OBVIOUS
  <2> HIDE DEF Publish
  <2>6. /\ DOMAIN entry_dependencies' = DOMAIN entry_dependencies \union {entry}
        /\ DOMAIN diagnostics_by_entry' = DOMAIN diagnostics_by_entry \union {entry}
        /\ \A e \in DOMAIN entry_dependencies' :
               entry_dependencies'[e] = IF e = entry THEN fresh.deps ELSE entry_dependencies[e]
      BY <2>4 DEF With
  <2>7. \A e \in DOMAIN entry_dependencies' : entry_dependencies'[e] \subseteq Doc
      BY <2>3, <2>6
  <2>8. /\ (pending.entries \intersect ToSet(todo) = {})'
        /\ entry \in open_entry_uris
        /\ (pending.entries \union ToSet(todo) \union DOMAIN entry_dependencies
               \subseteq open_entry_uris)'
      BY <2>2, <2>5, <2>6
  <2>9. (DOMAIN diagnostics_by_entry = DOMAIN entry_dependencies)'
      BY <2>6
  <2> QED
      BY <2>2, <2>5, <2>7, <2>8, <2>9
<1>8. ASSUME NEW uri \in Doc, NEW source \in Files(uri), DiskWrite(uri, source)
      PROVE  Scheduled'
    BY <1>8 DEF DiskWrite, server
<1>9. CASE UNCHANGED vars
    BY <1>9 DEF vars, server
<1> QED
    BY <1>1, <1>2, <1>3, <1>4, <1>5, <1>6, <1>7, <1>8, <1>9 DEF Next

LEMMA ScheduledInvariant == Spec => []Scheduled
BY InitScheduled, StepScheduled, PTL DEF Spec

-----------------------------------------------------------------------------
(* What is cached.                                                         *)

\* The stamps of the files, which only grow.
Stamped == DOMAIN disk = Doc /\ \A d \in Doc : disk[d].stamp \in Nat \ {0}

\* What the running analysis has read is still so, except where a file was written
\* meanwhile.
Reads(read) ==
    \A d \in Doc :
        /\ d \in DOMAIN documents => read[d] = documents[d]
        /\ d \notin DOMAIN documents \union raced => read[d] = disk[d].source

Reading == analysed # <<>> => Reads(analysed[1])

\* A cached analysis read the open documents as they are, and of each closed one the
\* file as it is for as long as its fingerprint is the same.
CachedRight(cached, deps) ==
    /\ DOMAIN cached.sources = deps
    /\ DOMAIN cached.file_fingerprints = deps \ DOMAIN documents
    /\ \A d \in deps \intersect DOMAIN documents : cached.sources[d] = documents[d]
    /\ \A d \in deps \ DOMAIN documents :
           /\ cached.file_fingerprints[d] \in Nat
           /\ cached.file_fingerprints[d] <= disk[d].stamp
           /\ d \notin raced =>
                  /\ cached.file_fingerprints[d] # 0
                  /\ cached.file_fingerprints[d] = Fingerprint(disk[d]) =>
                         cached.sources[d] = disk[d].source

\* An entry that is going to be validated has no cached analysis; one that has is
\* tracked with the dependencies it was cached with.
Caching ==
    /\ DOMAIN cached_analyses \subseteq DOMAIN entry_dependencies
    /\ DOMAIN cached_analyses \intersect (pending.entries \union ToSet(todo)) = {}
    /\ \A e \in DOMAIN cached_analyses : CachedRight(cached_analyses[e], entry_dependencies[e])

CacheInv == Scheduled /\ Stamped /\ Reading /\ Caching

LEMMA InitCache == Init => CacheInv
<1> SUFFICES ASSUME Init PROVE CacheInv
    OBVIOUS
<1>1. Stamped /\ Reading
    BY DEF Init, Stamped, Reading
<1>2. DOMAIN cached_analyses = {}
    BY DEF Init
<1>3. Caching
    BY <1>2 DEF Caching
<1> QED
    BY <1>1, <1>3, InitScheduled DEF CacheInv

LEMMA StepStamped == Stamped /\ [Next]_vars => Stamped'
<1> SUFFICES ASSUME Stamped, [Next]_vars
             PROVE  Stamped'
    OBVIOUS
<1>1. ASSUME NEW uri \in Doc, NEW source \in Files(uri), DiskWrite(uri, source)
      PROVE  Stamped'
    BY <1>1 DEF Stamped, DiskWrite
<1>2. CASE UNCHANGED disk
    BY <1>2 DEF Stamped
<1> QED
    BY <1>1, <1>2 DEF Next, DidOpen, DidChange, DidClose, DidChangeWatchedFiles,
                      FlushPendingValidations, Analyze, Publish, vars

LEMMA StepReading == Scheduled /\ Reading /\ [Next]_vars => Reading'
<1> SUFFICES ASSUME Scheduled, Reading, [Next]_vars
             PROVE  Reading'
    OBVIOUS
<1>1. CASE Idle /\ UNCHANGED analysed
    BY <1>1 DEF Idle, Reading, Scheduled
<1>2. CASE Analyze
  <2>1. analysed'[1] = Sources /\ UNCHANGED <<documents, disk, raced>>
      BY <1>2 DEF Analyze
  <2> QED
      BY <2>1 DEF Reading, Reads, Sources
<1>3. CASE Publish
    BY <1>3 DEF Publish, Reading
<1>4. ASSUME NEW uri \in Doc, NEW source \in Files(uri), DiskWrite(uri, source)
      PROVE  Reading'
  <2>1. SUFFICES ASSUME analysed # <<>>
                 PROVE  Reads(analysed[1])'
      BY <1>4 DEF Reading, DiskWrite, server
  <2>2. raced' = raced \union {uri} /\ UNCHANGED <<documents, analysed>>
      BY <1>4, <2>1 DEF DiskWrite, server
  <2>3. \A d \in Doc \ {uri} : disk'[d] = disk[d]
      BY <1>4 DEF DiskWrite
  <2>4. Reads(analysed[1])
      BY <2>1 DEF Reading
  <2> QED
      BY <2>2, <2>3, <2>4 DEF Reads
<1>5. CASE UNCHANGED vars
    BY <1>5 DEF Reading, Reads, vars, server
<1> QED
    BY <1>1, <1>2, <1>3, <1>4, <1>5
    DEF Next, DidOpen, DidChange, DidClose, DidChangeWatchedFiles, FlushPendingValidations

\* Nothing that an analysis reads of d changes.
SameAt(d) ==
    /\ d \in DOMAIN documents' <=> d \in DOMAIN documents
    /\ d \in DOMAIN documents => documents'[d] = documents[d]
    /\ disk'[d] = disk[d]
    /\ d \in raced' <=> d \in raced

LEMMA CachedRightStays ==
    ASSUME NEW cached, NEW deps, CachedRight(cached, deps), \A d \in deps : SameAt(d)
    PROVE  CachedRight(cached, deps)'
BY DEF CachedRight, SameAt, Fingerprint

\* A step that caches nothing, and under which what remains cached stays as it is.
CacheShrinks ==
    \A e \in DOMAIN cached_analyses' :
        /\ e \in DOMAIN cached_analyses /\ cached_analyses'[e] = cached_analyses[e]
        /\ e \in DOMAIN entry_dependencies' /\ entry_dependencies'[e] = entry_dependencies[e]
        /\ e \notin pending'.entries \union ToSet(todo')
        /\ \A d \in entry_dependencies[e] : SameAt(d)

LEMMA ShrinkingIsRight ==
    ASSUME Caching, CacheShrinks
    PROVE  Caching'
<1>1. ASSUME NEW e \in DOMAIN cached_analyses'
      PROVE  CachedRight(cached_analyses[e], entry_dependencies[e])'
  <2>1. PICK cached, deps : cached = cached_analyses[e] /\ deps = entry_dependencies[e]
      OBVIOUS
  <2>2. CachedRight(cached, deps) /\ \A d \in deps : SameAt(d)
      BY <2>1, <1>1 DEF Caching, CacheShrinks
  <2>3. CachedRight(cached, deps)'
      BY <2>2, CachedRightStays
  <2>4. cached_analyses'[e] = cached /\ entry_dependencies'[e] = deps
      BY <2>1, <1>1 DEF CacheShrinks
  <2> QED
      BY <2>3, <2>4
<1> QED
    BY <1>1 DEF Caching, CacheShrinks

\* What is still cached after an invalidation depends on none of the documents.
LEMMA InvalidatedIs ==
    ASSUME Scheduled, Caching, NEW S, NEW e \in DOMAIN Invalidated(S)
    PROVE  /\ e \in DOMAIN cached_analyses /\ Invalidated(S)[e] = cached_analyses[e]
           /\ e \in DOMAIN entry_dependencies
           /\ e \notin pending.entries \union ToSet(todo)
           /\ \A d \in S : e \notin EntriesAffected(d) /\ d \notin entry_dependencies[e] /\ d # e
BY DEF Invalidated, Restrict, Caching, EntriesAffected, Scheduled

LEMMA DidOpenCaches ==
    ASSUME CacheInv, NEW uri \in Doc, NEW text \in Overlays(uri), DidOpen(uri, text)
    PROVE  CacheShrinks
<1> USE DEF CacheInv
<1>1. SUFFICES ASSUME NEW e \in DOMAIN Invalidated({uri})
               PROVE  /\ e \in DOMAIN cached_analyses /\ cached_analyses'[e] = cached_analyses[e]
                      /\ e \in DOMAIN entry_dependencies /\ UNCHANGED entry_dependencies
                      /\ e \notin pending'.entries \union ToSet(todo')
                      /\ \A d \in entry_dependencies[e] : SameAt(d)
    BY DEF CacheShrinks, DidOpen
<1>2. /\ e \in DOMAIN cached_analyses /\ Invalidated({uri})[e] = cached_analyses[e]
      /\ e \in DOMAIN entry_dependencies
      /\ e \notin pending.entries \union ToSet(todo)
      /\ e \notin EntriesAffected(uri) /\ uri \notin entry_dependencies[e] /\ uri # e
    BY <1>1, InvalidatedIs
<1>3. EntriesAffected(uri) \ {uri} \in SUBSET Doc
    BY AffectedIsOpen DEF Scheduled
<1>4. pending'.entries = pending.entries \union (EntriesAffected(uri) \ {uri})
    BY <1>3, ExtendedIs DEF DidOpen, Scheduled
<1>5. ToSet(todo') = {uri}
    BY DEF ToSet, DidOpen
<1>6. \A d : d # uri => SameAt(d)
    BY DEF DidOpen, With, SameAt
<1> QED
    BY <1>2, <1>4, <1>5, <1>6 DEF DidOpen

LEMMA DidChangeCaches ==
    ASSUME CacheInv, NEW uri \in Doc, NEW text \in Overlays(uri), DidChange(uri, text)
    PROVE  CacheShrinks
<1> USE DEF CacheInv
<1>1. SUFFICES ASSUME NEW e \in DOMAIN Invalidated({uri})
               PROVE  /\ e \in DOMAIN cached_analyses /\ cached_analyses'[e] = cached_analyses[e]
                      /\ e \in DOMAIN entry_dependencies /\ UNCHANGED entry_dependencies
                      /\ e \notin pending'.entries \union ToSet(todo')
                      /\ \A d \in entry_dependencies[e] : SameAt(d)
    BY DEF CacheShrinks, DidChange
<1>2. /\ e \in DOMAIN cached_analyses /\ Invalidated({uri})[e] = cached_analyses[e]
      /\ e \in DOMAIN entry_dependencies
      /\ e \notin pending.entries \union ToSet(todo)
      /\ e \notin EntriesAffected(uri) /\ uri \notin entry_dependencies[e] /\ uri # e
    BY <1>1, InvalidatedIs
<1>3. EntriesAffected(uri) \in SUBSET Doc
    BY AffectedIsOpen DEF Scheduled
<1>4. pending'.entries = pending.entries \union EntriesAffected(uri)
    BY <1>3, ExtendedIs DEF DidChange, ScheduledByChange, Scheduled
<1>5. \A d : d # uri => SameAt(d)
    BY DEF DidChange, With, SameAt
<1> QED
    BY <1>2, <1>4, <1>5 DEF DidChange

LEMMA DidCloseCaches ==
    ASSUME CacheInv, NEW uri \in Doc, DidClose(uri)
    PROVE  CacheShrinks
<1> USE DEF CacheInv
<1>1. cached_analyses' = Restrict(Invalidated({uri}), DOMAIN Invalidated({uri}) \ {uri})
    BY DEF DidClose
<1>2. SUFFICES ASSUME NEW e \in DOMAIN Invalidated({uri}), e # uri
               PROVE  /\ e \in DOMAIN cached_analyses /\ Invalidated({uri})[e] = cached_analyses[e]
                      /\ e \in DOMAIN entry_dependencies' /\ entry_dependencies'[e] = entry_dependencies[e]
                      /\ e \notin pending'.entries \union ToSet(todo')
                      /\ \A d \in entry_dependencies[e] : SameAt(d)
    BY <1>1 DEF CacheShrinks, Restrict
<1>3. /\ e \in DOMAIN cached_analyses /\ Invalidated({uri})[e] = cached_analyses[e]
      /\ e \in DOMAIN entry_dependencies
      /\ e \notin pending.entries \union ToSet(todo)
      /\ e \notin EntriesAffected(uri) /\ uri \notin entry_dependencies[e]
    BY <1>2, InvalidatedIs
<1>4. EntriesAffected(uri) \ {uri} \in SUBSET Doc
    BY AffectedIsOpen DEF Scheduled
<1>5. ToSet(todo') = EntriesAffected(uri) \ {uri}
    BY <1>4, OrderIs DEF DidClose
<1>6. pending'.entries \subseteq pending.entries
    BY RemovedIs DEF DidClose, Unqueued, Scheduled
<1>7. e \in DOMAIN entry_dependencies' /\ entry_dependencies'[e] = entry_dependencies[e]
    BY <1>2, <1>3 DEF DidClose, Restrict
<1>8. \A d : d # uri => SameAt(d)
    BY DEF DidClose, Restrict, SameAt
<1> QED
    BY <1>3, <1>5, <1>6, <1>7, <1>8

LEMMA DidChangeWatchedFilesCaches ==
    ASSUME CacheInv, NEW S, DidChangeWatchedFiles(S)
    PROVE  CacheShrinks
<1> USE DEF CacheInv
<1>1. SUFFICES ASSUME NEW e \in DOMAIN Invalidated(S)
               PROVE  /\ e \in DOMAIN cached_analyses /\ cached_analyses'[e] = cached_analyses[e]
                      /\ e \in DOMAIN entry_dependencies /\ UNCHANGED entry_dependencies
                      /\ e \notin pending'.entries \union ToSet(todo')
                      /\ \A d \in entry_dependencies[e] : SameAt(d)
    BY DEF CacheShrinks, DidChangeWatchedFiles
<1>2. /\ e \in DOMAIN cached_analyses /\ Invalidated(S)[e] = cached_analyses[e]
      /\ e \in DOMAIN entry_dependencies
      /\ e \notin pending.entries \union ToSet(todo)
      /\ \A d \in S : e \notin EntriesAffected(d) /\ d \notin entry_dependencies[e]
    BY <1>1, InvalidatedIs
<1>3. UNION {EntriesAffected(d) : d \in S} \in SUBSET Doc
    BY AffectedIsOpen DEF Scheduled
<1>4. pending'.entries = pending.entries \union UNION {EntriesAffected(d) : d \in S}
    BY <1>3, ExtendedIs DEF DidChangeWatchedFiles, Scheduled
<1>5. \A d : d \notin S => SameAt(d)
    BY DEF DidChangeWatchedFiles, SameAt
<1> QED
    BY <1>2, <1>4, <1>5 DEF DidChangeWatchedFiles

\* A flush only moves entries from the queue to those being validated.
LEMMA FlushCaches ==
    ASSUME CacheInv, FlushPendingValidations
    PROVE  CacheShrinks
<1>1. /\ pending'.entries \subseteq pending.entries
      /\ ToSet(todo') \subseteq pending.entries
    BY DrainedIs DEF FlushPendingValidations, CacheInv, Scheduled
<1>2. \A d : SameAt(d)
    BY DEF FlushPendingValidations, SameAt
<1> QED
    BY <1>1, <1>2 DEF FlushPendingValidations, CacheShrinks, CacheInv, Caching

\* What is cached after an analysis without diagnostics: every module was read, so
\* the fingerprint taken afterwards is that of what was read, unless the file was
\* written meanwhile.
LEMMA PublishCaches ==
    ASSUME CacheInv, Publish
    PROVE  Caching'
<1> USE DEF CacheInv
<1>1. PICK entry, read, fresh : /\ entry = Head(todo) /\ read = analysed[1]
                                /\ fresh = FreshAnalysis(read, entry)
    OBVIOUS
<1>2. /\ entry_dependencies' = With(entry_dependencies, entry, fresh.deps)
      /\ cached_analyses' = IF fresh.diagnostics = {}
                            THEN With(cached_analyses, entry, CachedAnalysis(read, fresh.deps))
                            ELSE cached_analyses
      /\ todo' = Tail(todo) /\ UNCHANGED <<documents, pending, disk, raced>>
    BY <1>1 DEF Publish
<1>3. /\ entry \in ToSet(todo) /\ ToSet(todo') = ToSet(todo) \ {entry}
      /\ entry \notin DOMAIN cached_analyses /\ entry \in Doc
      /\ DOMAIN read = Doc
  <2>1. todo # <<>> /\ DOMAIN analysed[1] = Doc
      BY DEF Publish, Scheduled
  <2>2. Head(todo) \in ToSet(todo) /\ ToSet(Tail(todo)) = ToSet(todo) \ {Head(todo)}
      BY <2>1, TailIs DEF Scheduled
  <2> QED
      BY <1>1, <1>2, <2>1, <2>2 DEF Scheduled, Caching
<1>4. /\ DOMAIN entry_dependencies' = DOMAIN entry_dependencies \union {entry}
      /\ entry_dependencies'[entry] = fresh.deps
      /\ \A e \in DOMAIN entry_dependencies : e # entry => entry_dependencies'[e] = entry_dependencies[e]
    BY <1>2 DEF With
<1>5. \A d : SameAt(d)
    BY <1>2 DEF SameAt
<1>6. ASSUME NEW e \in DOMAIN cached_analyses
      PROVE  CachedRight(cached_analyses[e], entry_dependencies[e])' \/ cached_analyses'[e] # cached_analyses[e]
  <2>1. PICK cached, deps : cached = cached_analyses[e] /\ deps = entry_dependencies[e]
      OBVIOUS
  <2>2. CachedRight(cached, deps)
      BY <2>1 DEF Caching
  <2>3. CachedRight(cached, deps)'
      BY <1>5, <2>2, CachedRightStays
  <2>4. entry_dependencies'[e] = deps
      BY <1>3, <1>4, <2>1 DEF Caching
  <2> QED
      BY <2>1, <2>3, <2>4
<1>7. CASE fresh.diagnostics # {}
  <2>1. UNCHANGED cached_analyses
      BY <1>2, <1>7
  <2> QED
      BY <1>2, <1>3, <1>4, <1>6, <2>1 DEF Caching
<1>8. CASE fresh.diagnostics = {}
  <2>1. PICK cached : cached = CachedAnalysis(read, fresh.deps)
      OBVIOUS
  <2>2. /\ DOMAIN cached_analyses' = DOMAIN cached_analyses \union {entry}
        /\ cached_analyses'[entry] = cached
        /\ \A e \in DOMAIN cached_analyses : cached_analyses'[e] = cached_analyses[e]
      BY <1>2, <1>3, <1>8, <2>1 DEF With
  <2>3. fresh.deps \subseteq Doc /\ \A d \in fresh.deps : Readable(read[d])
    <3>1. fresh.deps = Loaded(read, entry)
        BY <1>1, <1>8 DEF FreshAnalysis
    <3> QED
        BY <1>3, <3>1 DEF Loaded, Reached
  <2>4. /\ DOMAIN cached.sources = fresh.deps
        /\ \A d \in fresh.deps : cached.sources[d] = read[d]
        /\ DOMAIN cached.file_fingerprints = fresh.deps \ DOMAIN documents
        /\ \A d \in fresh.deps \ DOMAIN documents : cached.file_fingerprints[d] = Fingerprint(disk[d])
      BY <2>1 DEF CachedAnalysis, Restrict
  <2>5. Reads(read)
      BY <1>1 DEF Publish, Reading
  <2>6. \A d \in Doc : Fingerprint(disk[d]) \in Nat /\ Fingerprint(disk[d]) <= disk[d].stamp
      BY DEF Stamped, Fingerprint
  <2>7. \A d \in fresh.deps \ (DOMAIN documents \union raced) :
            read[d] = disk[d].source /\ Fingerprint(disk[d]) # 0
    <3>1. \A d \in fresh.deps \ (DOMAIN documents \union raced) :
              read[d] = disk[d].source /\ disk[d].source.fault # "missing"
        BY <2>3, <2>5 DEF Reads, Readable
    <3> QED
        BY <2>3, <3>1 DEF Fingerprint, Stamped
  <2>8. CachedRight(cached, fresh.deps)
      BY <2>3, <2>4, <2>5, <2>6, <2>7 DEF CachedRight, Reads
  <2>9. CachedRight(cached, fresh.deps)'
      BY <1>5, <2>8, CachedRightStays
  <2>10. ASSUME NEW e \in DOMAIN cached_analyses'
         PROVE  CachedRight(cached_analyses[e], entry_dependencies[e])'
    <3>1. CASE e = entry
        BY <1>4, <2>2, <2>9, <3>1
    <3>2. CASE e # entry
      <4>1. e \in DOMAIN cached_analyses /\ cached_analyses'[e] = cached_analyses[e]
          BY <2>2, <3>2
      <4> QED
          BY <1>6, <4>1
    <3> QED
        BY <3>1, <3>2
  <2>11. /\ DOMAIN cached_analyses' \subseteq DOMAIN entry_dependencies'
         /\ DOMAIN cached_analyses' \intersect (pending'.entries \union ToSet(todo')) = {}
    <3>1. entry \notin pending.entries
        BY <1>3 DEF Scheduled
    <3> QED
        BY <1>2, <1>3, <1>4, <2>2, <3>1 DEF Caching
  <2> QED
      BY <2>10, <2>11 DEF Caching
<1> QED
    BY <1>7, <1>8

\* A new file has a new stamp: no fingerprint is equal to its.
LEMMA DiskWriteCaches ==
    ASSUME CacheInv, NEW uri \in Doc, NEW source \in Files(uri), DiskWrite(uri, source)
    PROVE  Caching'
<1> USE DEF CacheInv
<1>1. /\ disk'[uri].stamp = disk[uri].stamp + 1
      /\ \A d \in Doc \ {uri} : disk'[d] = disk[d]
      /\ raced \subseteq raced'
      /\ UNCHANGED <<documents, entry_dependencies, cached_analyses, pending, todo>>
    BY DEF DiskWrite, server, Stamped
<1>2. \A d \in Doc : /\ disk[d].stamp \in Nat /\ disk'[d].stamp \in Nat
                     /\ disk[d].stamp <= disk'[d].stamp
    BY <1>1 DEF Stamped
<1>3. Fingerprint(disk'[uri]) = 0 \/ Fingerprint(disk'[uri]) = disk[uri].stamp + 1
    BY <1>1 DEF Fingerprint
<1>4. ASSUME NEW cached, NEW deps, deps \subseteq Doc, CachedRight(cached, deps)
      PROVE  CachedRight(cached, deps)'
  <2> USE <1>4 DEF CachedRight
  <2>1. SUFFICES ASSUME NEW d \in deps \ DOMAIN documents
                 PROVE  /\ cached.file_fingerprints[d] \in Nat
                        /\ cached.file_fingerprints[d] <= disk'[d].stamp
                        /\ d \notin raced' =>
                               /\ cached.file_fingerprints[d] # 0
                               /\ cached.file_fingerprints[d] = Fingerprint(disk'[d]) =>
                                      cached.sources[d] = disk'[d].source
      BY <1>1 DEF Fingerprint
  <2>2. PICK print : print = cached.file_fingerprints[d]
      OBVIOUS
  <2>3. /\ print \in Nat /\ print <= disk[d].stamp
        /\ d \notin raced => print # 0 /\ (print = Fingerprint(disk[d]) => cached.sources[d] = disk[d].source)
      BY <2>1, <2>2
  <2>4. print <= disk'[d].stamp
    <3>1. d \in Doc
        BY <1>4, <2>1
    <3>2. disk[d].stamp \in Nat /\ disk'[d].stamp \in Nat /\ disk[d].stamp <= disk'[d].stamp
        BY <1>2, <3>1
    <3> QED
        BY <2>3, <3>2
  <2>5. CASE d = uri
    <3>1. print # 0 => print # Fingerprint(disk'[d])
        BY <1>2, <1>3, <2>3, <2>5
    <3> QED
        BY <1>1, <2>2, <2>3, <2>4, <3>1
  <2>6. CASE d # uri
      BY <1>1, <2>1, <2>2, <2>3, <2>4, <2>6
  <2> QED
      BY <2>5, <2>6
<1>5. ASSUME NEW e \in DOMAIN cached_analyses
      PROVE  CachedRight(cached_analyses[e], entry_dependencies[e])'
  <2>1. PICK cached, deps : cached = cached_analyses[e] /\ deps = entry_dependencies[e]
      OBVIOUS
  <2>2. CachedRight(cached, deps) /\ deps \subseteq Doc
      BY <2>1 DEF Caching, Scheduled
  <2>3. CachedRight(cached, deps)'
      BY <1>4, <2>2
  <2> QED
      BY <1>1, <2>1, <2>3
<1> QED
    BY <1>1, <1>5 DEF Caching

LEMMA StepCaching == CacheInv /\ [Next]_vars => Caching'
<1> SUFFICES ASSUME CacheInv, [Next]_vars
             PROVE  Caching'
    OBVIOUS
<1>1. CASE CacheShrinks
    BY <1>1, ShrinkingIsRight DEF CacheInv
<1>2. ASSUME NEW uri \in Doc, NEW text \in Overlays(uri), DidOpen(uri, text)
      PROVE  Caching'
    BY <1>1, <1>2, DidOpenCaches
<1>3. ASSUME NEW uri \in Doc, NEW text \in Overlays(uri), DidChange(uri, text)
      PROVE  Caching'
    BY <1>1, <1>3, DidChangeCaches
<1>4. ASSUME NEW uri \in Doc, DidClose(uri)
      PROVE  Caching'
    BY <1>1, <1>4, DidCloseCaches
<1>5. ASSUME NEW S \in (SUBSET unwatched) \ {{}}, DidChangeWatchedFiles(S)
      PROVE  Caching'
    BY <1>1, <1>5, DidChangeWatchedFilesCaches
<1>6. CASE FlushPendingValidations
    BY <1>1, <1>6, FlushCaches
<1>7. CASE Analyze \/ UNCHANGED vars
  <2>1. UNCHANGED <<documents, entry_dependencies, cached_analyses, pending, todo, disk, raced>>
      BY <1>7 DEF Analyze, vars, server
  <2> QED
      BY <2>1 DEF CacheInv, Caching, CachedRight
<1>8. CASE Publish
    BY <1>8, PublishCaches
<1>9. ASSUME NEW uri \in Doc, NEW source \in Files(uri), DiskWrite(uri, source)
      PROVE  Caching'
    BY <1>9, DiskWriteCaches
<1> QED
    BY <1>2, <1>3, <1>4, <1>5, <1>6, <1>7, <1>8, <1>9 DEF Next

LEMMA CacheInvariant == Spec => []CacheInv
<1>1. CacheInv /\ [Next]_vars => CacheInv'
    BY StepScheduled, StepStamped, StepReading, StepCaching DEF CacheInv
<1> QED
    BY <1>1, InitCache, PTL DEF Spec

(* What the cache answers from: as long as the versions and fingerprints of a cached
   analysis match, the sources it was made of are those there are now, however edits,
   closes, file changes and their notifications interleave (cached_analysis and
   invalidate_cached_analyses_for_document in hern-lsp/src/analysis/state.rs). *)
THEOREM CacheIsHonest == Spec => []CacheHonest
<1>1. CacheInv => CacheHonest
  <2>1. SUFFICES ASSUME CacheInv, NEW e \in Doc, Served(e),
                        NEW d \in DOMAIN cached_analyses[e].sources \ raced
                 PROVE  cached_analyses[e].sources[d] = Sources[d]
      BY DEF CacheHonest
  <2>2. PICK cached, deps : cached = cached_analyses[e] /\ deps = entry_dependencies[e]
      OBVIOUS
  <2>3. CachedRight(cached, deps) /\ d \in deps /\ d \in Doc
      BY <2>1, <2>2 DEF CacheInv, Caching, Scheduled, Served, CachedRight
  <2>4. CASE d \in DOMAIN documents
      BY <2>2, <2>3, <2>4 DEF CachedRight, Sources
  <2>5. CASE d \notin DOMAIN documents
    <3>1. Fingerprint(disk[d]) = cached.file_fingerprints[d]
        BY <2>1, <2>2, <2>3, <2>5 DEF Served, CachedRight
    <3> QED
        BY <2>1, <2>2, <2>3, <2>5, <3>1 DEF CachedRight, Sources
  <2> QED
      BY <2>4, <2>5
<1> QED
    BY CacheInvariant, <1>1, PTL

-----------------------------------------------------------------------------
(* When everything is quiet.                                               *)

\* What a document may be read as.
IsRead(read) == DOMAIN read = Doc /\ \A d \in Doc : read[d] \in Overlays(d) \union Files(d)

Typed ==
    /\ \A d \in DOMAIN documents : documents[d] \in Overlays(d)
    /\ \A d \in Doc : disk[d].source \in Files(d)

\* A file whose change the client has not reported, and that no overlay hides.
Unknown == unwatched \ DOMAIN documents

Agrees(read, deps) == \A d \in deps \ Unknown : read[d] = Sources[d]

\* The entry's diagnostics and dependencies are those of an analysis of sources that
\* are, wherever it looked, the sources there are now.
Recorded(e) ==
    \E read :
        /\ IsRead(read)
        /\ Agrees(read, entry_dependencies[e])
        /\ entry_dependencies[e] = FreshAnalysis(read, e).deps
        /\ diagnostics_by_entry[e] = FreshAnalysis(read, e).diagnostics

AnalysedNow == analysed # <<>> => IsRead(analysed[1]) /\ Agrees(analysed[1], Doc)

\* An open entry is going to be validated, or is recorded.
ValidatedOrQueued ==
    \A e \in open_entry_uris \ (pending.entries \union ToSet(todo)) :
        e \in DOMAIN entry_dependencies /\ Recorded(e)

QuietInv == Scheduled /\ Stamped /\ Typed /\ AnalysedNow /\ ValidatedOrQueued

LEMMA InitQuiet == Init => QuietInv
<1> SUFFICES ASSUME Init PROVE QuietInv
    OBVIOUS
<1>1. Stamped /\ Typed
    BY DEF Init, Stamped, Typed
<1>2. AnalysedNow /\ ValidatedOrQueued
    BY DEF Init, AnalysedNow, ValidatedOrQueued
<1> QED
    BY <1>1, <1>2, InitScheduled DEF QuietInv

LEMMA StepServerTyped == Scheduled /\ Stamped /\ Typed /\ [Next]_vars => Typed'
<1> SUFFICES ASSUME Scheduled, Stamped, Typed, [Next]_vars
             PROVE  Typed'
    OBVIOUS
<1>1. CASE UNCHANGED <<documents, disk>>
    BY <1>1 DEF Typed
<1>2. ASSUME NEW uri \in Doc, NEW text \in Overlays(uri), DidOpen(uri, text) \/ DidChange(uri, text)
      PROVE  Typed'
  <2>1. documents' = With(documents, uri, text) /\ UNCHANGED disk
      BY <1>2 DEF DidOpen, DidChange
  <2> QED
      BY <2>1 DEF Typed, With
<1>3. ASSUME NEW uri \in Doc, DidClose(uri)
      PROVE  Typed'
    BY <1>3 DEF DidClose, Typed, Restrict
<1>4. ASSUME NEW uri \in Doc, NEW source \in Files(uri), DiskWrite(uri, source)
      PROVE  Typed'
  <2>1. UNCHANGED documents /\ disk'[uri].source = source
        /\ \A d \in Doc \ {uri} : disk'[d] = disk[d]
      BY <1>4 DEF DiskWrite, server, Stamped
  <2> QED
      BY <2>1 DEF Typed
<1> QED
    BY <1>1, <1>2, <1>3, <1>4
    DEF Next, DidChangeWatchedFiles, FlushPendingValidations, Analyze, Publish, vars, server

\* What may be known of d after the step was known of it before, and is the same.
StaysKnown(d) == d \notin Unknown' => d \notin Unknown /\ Sources'[d] = Sources[d]

LEMMA StepAnalysed == QuietInv /\ [Next]_vars => AnalysedNow'
<1> SUFFICES ASSUME QuietInv, [Next]_vars
             PROVE  AnalysedNow'
    OBVIOUS
<1> USE DEF QuietInv
<1>1. CASE Idle /\ UNCHANGED analysed
    BY <1>1 DEF Idle, AnalysedNow, Scheduled
<1>2. CASE Analyze
  <2>1. analysed'[1] = Sources /\ UNCHANGED <<documents, disk, unwatched>>
      BY <1>2 DEF Analyze
  <2>2. IsRead(Sources)
      BY DEF IsRead, Sources, Typed
  <2>3. IsRead(analysed[1])'
      BY <2>1, <2>2 DEF IsRead
  <2>4. Agrees(analysed[1], Doc)'
      BY <2>1 DEF Agrees, Sources
  <2> QED
      BY <2>3, <2>4 DEF AnalysedNow
<1>3. CASE Publish
    BY <1>3 DEF Publish, AnalysedNow
<1>4. ASSUME NEW uri \in Doc, NEW source \in Files(uri), DiskWrite(uri, source)
      PROVE  AnalysedNow'
  <2>1. SUFFICES ASSUME analysed # <<>>
                 PROVE  (IsRead(analysed[1]) /\ Agrees(analysed[1], Doc))'
      BY <1>4 DEF AnalysedNow, DiskWrite, server
  <2>2. unwatched' = unwatched \union {uri} /\ UNCHANGED <<documents, analysed>>
      BY <1>4 DEF DiskWrite, server
  <2>3. \A d \in Doc \ {uri} : disk'[d] = disk[d]
      BY <1>4 DEF DiskWrite
  <2>4. IsRead(analysed[1]) /\ Agrees(analysed[1], Doc)
      BY <2>1 DEF AnalysedNow
  <2> QED
      BY <2>2, <2>3, <2>4 DEF IsRead, Agrees, Unknown, Sources
<1>5. CASE UNCHANGED vars
  <2>1. UNCHANGED <<documents, disk, unwatched, analysed>>
      BY <1>5 DEF vars, server
  <2> QED
      BY <2>1 DEF AnalysedNow, IsRead, Agrees, Unknown, Sources
<1> QED
    BY <1>1, <1>2, <1>3, <1>4, <1>5
    DEF Next, DidOpen, DidChange, DidClose, DidChangeWatchedFiles, FlushPendingValidations

LEMMA RecordedStays ==
    ASSUME NEW e, Recorded(e), \A d \in entry_dependencies[e] : StaysKnown(d),
           entry_dependencies'[e] = entry_dependencies[e],
           diagnostics_by_entry'[e] = diagnostics_by_entry[e]
    PROVE  Recorded(e)'
<1>1. PICK read : /\ IsRead(read)
                  /\ Agrees(read, entry_dependencies[e])
                  /\ entry_dependencies[e] = FreshAnalysis(read, e).deps
                  /\ diagnostics_by_entry[e] = FreshAnalysis(read, e).diagnostics
    BY DEF Recorded
<1>2. IsRead(read)'
    BY <1>1 DEF IsRead
<1>3. Agrees(read, entry_dependencies[e])'
    BY <1>1 DEF Agrees, StaysKnown
<1>4. (entry_dependencies[e] = FreshAnalysis(read, e).deps)'
    BY <1>1
<1>5. (diagnostics_by_entry[e] = FreshAnalysis(read, e).diagnostics)'
    BY <1>1
<1> QED
    BY <1>2, <1>3, <1>4, <1>5 DEF Recorded

\* The entries that a step leaves alone.
RecordsStay ==
    \A e \in open_entry_uris' \ (pending'.entries \union ToSet(todo')) :
        /\ e \in open_entry_uris \ (pending.entries \union ToSet(todo))
        /\ e \in DOMAIN entry_dependencies'
        /\ entry_dependencies'[e] = entry_dependencies[e]
        /\ diagnostics_by_entry'[e] = diagnostics_by_entry[e]
        /\ \A d \in entry_dependencies[e] : StaysKnown(d)

LEMMA RecordsStayRight ==
    ASSUME ValidatedOrQueued, RecordsStay
    PROVE  ValidatedOrQueued'
<1>1. SUFFICES ASSUME NEW e \in open_entry_uris' \ (pending'.entries \union ToSet(todo'))
               PROVE  e \in DOMAIN entry_dependencies' /\ Recorded(e)'
    BY DEF ValidatedOrQueued
<1>2. Recorded(e)
    BY <1>1 DEF ValidatedOrQueued, RecordsStay
<1>3. Recorded(e)'
    BY <1>1, <1>2, RecordedStays DEF RecordsStay
<1> QED
    BY <1>1, <1>3 DEF RecordsStay

LEMMA DidOpenQuiet ==
    ASSUME QuietInv, NEW uri \in Doc, NEW text \in Overlays(uri), DidOpen(uri, text)
    PROVE  RecordsStay
<1> USE DEF QuietInv
<1>1. EntriesAffected(uri) \ {uri} \in SUBSET Doc
    BY AffectedIsOpen DEF Scheduled
<1>2. pending'.entries = pending.entries \union (EntriesAffected(uri) \ {uri})
    BY <1>1, ExtendedIs DEF DidOpen, Scheduled
<1>3. ToSet(todo') = {uri} /\ ToSet(todo) = {}
    BY DEF ToSet, DidOpen, Idle
<1>4. /\ open_entry_uris' = open_entry_uris \union {uri}
      /\ UNCHANGED <<entry_dependencies, diagnostics_by_entry>>
    BY DEF DidOpen
<1>5. \A d \in Doc \ {uri} : StaysKnown(d)
  <2>1. UNCHANGED <<disk, unwatched>> /\ documents' = With(documents, uri, text)
      BY DEF DidOpen
  <2> QED
      BY <2>1 DEF StaysKnown, Unknown, Sources, With
<1> QED
    BY <1>2, <1>3, <1>4, <1>5 DEF RecordsStay, EntriesAffected, ValidatedOrQueued, Scheduled

LEMMA DidChangeQuiet ==
    ASSUME QuietInv, NEW uri \in Doc, NEW text \in Overlays(uri), DidChange(uri, text)
    PROVE  RecordsStay
<1> USE DEF QuietInv
<1>1. EntriesAffected(uri) \in SUBSET Doc
    BY AffectedIsOpen DEF Scheduled
<1>2. pending'.entries = pending.entries \union EntriesAffected(uri)
    BY <1>1, ExtendedIs DEF DidChange, ScheduledByChange, Scheduled
<1>3. UNCHANGED <<open_entry_uris, todo, entry_dependencies, diagnostics_by_entry>>
    BY DEF DidChange
<1>4. \A d \in Doc \ {uri} : StaysKnown(d)
  <2>1. UNCHANGED <<disk, unwatched>> /\ documents' = With(documents, uri, text)
      BY DEF DidChange
  <2> QED
      BY <2>1 DEF StaysKnown, Unknown, Sources, With
<1> QED
    BY <1>2, <1>3, <1>4 DEF RecordsStay, EntriesAffected, ValidatedOrQueued, Scheduled

LEMMA DidCloseQuiet ==
    ASSUME QuietInv, NEW uri \in Doc, DidClose(uri)
    PROVE  RecordsStay
<1> USE DEF QuietInv
<1>1. EntriesAffected(uri) \ {uri} \in SUBSET Doc
    BY AffectedIsOpen DEF Scheduled
<1>2. ToSet(todo') = EntriesAffected(uri) \ {uri} /\ ToSet(todo) = {}
  <2>1. todo' \in SetToSeqs(EntriesAffected(uri) \ {uri}) /\ todo = <<>>
      BY DEF DidClose, Idle
  <2>2. ToSet(todo) = {}
      BY <2>1 DEF ToSet
  <2> QED
      BY <1>1, <2>1, <2>2, OrderIs
<1>3. pending'.entries = pending.entries \ (EntriesAffected(uri) \union {uri})
    BY RemovedIs DEF DidClose, Unqueued, Scheduled
<1>4. open_entry_uris' = open_entry_uris \ {uri}
    BY DEF DidClose
<1>5. \A e \in DOMAIN entry_dependencies \ {uri} :
          e \in DOMAIN entry_dependencies' /\ entry_dependencies'[e] = entry_dependencies[e]
    BY DEF DidClose, Restrict
<1>6. \A e \in DOMAIN entry_dependencies \ {uri} : diagnostics_by_entry'[e] = diagnostics_by_entry[e]
    BY DEF DidClose, Restrict, Scheduled
<1>7. \A d \in Doc \ {uri} : StaysKnown(d)
  <2>1. /\ UNCHANGED <<disk, unwatched>>
        /\ documents' = Restrict(documents, DOMAIN documents \ {uri})
      BY DEF DidClose
  <2> QED
      BY <2>1 DEF StaysKnown, Unknown, Sources, Restrict
<1>8. ASSUME NEW e \in open_entry_uris' \ (pending'.entries \union ToSet(todo'))
      PROVE  /\ e \in open_entry_uris \ (pending.entries \union ToSet(todo))
             /\ e \in DOMAIN entry_dependencies \ {uri}
             /\ entry_dependencies[e] \subseteq Doc \ {uri}
  <2>1. e \in open_entry_uris /\ e # uri /\ e \notin EntriesAffected(uri)
      BY <1>2, <1>4
  <2>2. e \notin pending.entries
      BY <1>3, <2>1
  <2>3. e \in DOMAIN entry_dependencies
      BY <1>2, <2>1, <2>2 DEF ValidatedOrQueued
  <2> QED
      BY <1>2, <2>1, <2>2, <2>3 DEF EntriesAffected, Scheduled
<1> QED
    BY <1>5, <1>6, <1>7, <1>8 DEF RecordsStay

LEMMA DidChangeWatchedFilesQuiet ==
    ASSUME QuietInv, NEW S, DidChangeWatchedFiles(S)
    PROVE  RecordsStay
<1> USE DEF QuietInv
<1>1. UNION {EntriesAffected(d) : d \in S} \in SUBSET Doc
    BY AffectedIsOpen DEF Scheduled
<1>2. pending'.entries = pending.entries \union UNION {EntriesAffected(d) : d \in S}
    BY <1>1, ExtendedIs DEF DidChangeWatchedFiles, Scheduled
<1>3. UNCHANGED <<open_entry_uris, todo, entry_dependencies, diagnostics_by_entry>>
    BY DEF DidChangeWatchedFiles
<1>4. \A d : d \notin S => StaysKnown(d)
    BY DEF DidChangeWatchedFiles, StaysKnown, Unknown, Sources
<1> QED
    BY <1>2, <1>3, <1>4 DEF RecordsStay, EntriesAffected, ValidatedOrQueued

LEMMA FlushQuiet ==
    ASSUME QuietInv, FlushPendingValidations
    PROVE  RecordsStay
<1> USE DEF QuietInv
<1>1. pending'.entries = pending.entries \ ToSet(todo') /\ ToSet(todo) = {}
    BY DrainedIs DEF FlushPendingValidations, Scheduled, ToSet, Idle
<1>2. UNCHANGED <<open_entry_uris, entry_dependencies, diagnostics_by_entry>>
    BY DEF FlushPendingValidations
<1>3. \A d : StaysKnown(d)
    BY DEF FlushPendingValidations, StaysKnown, Unknown, Sources
<1> QED
    BY <1>1, <1>2, <1>3 DEF RecordsStay, ValidatedOrQueued

\* A file that is written is unknown until the client reports it.
DiskWriteOnly ==
    \A uri \in Doc : \A source \in Files(uri) : QuietInv /\ DiskWrite(uri, source) => RecordsStay

LEMMA DiskWriteQuiet == DiskWriteOnly
<1>1. SUFFICES ASSUME NEW uri \in Doc, NEW source \in Files(uri), QuietInv, DiskWrite(uri, source)
               PROVE  RecordsStay
    BY DEF DiskWriteOnly
<1>2. UNCHANGED server /\ unwatched' = unwatched \union {uri}
      /\ \A d \in Doc \ {uri} : disk'[d] = disk[d]
    BY <1>1 DEF DiskWrite
<1>3. \A d \in Doc : StaysKnown(d)
    BY <1>2 DEF StaysKnown, Unknown, Sources, server
<1> QED
    BY <1>1, <1>2, <1>3 DEF RecordsStay, ValidatedOrQueued, QuietInv, Scheduled, server

\* The entry that is published is recorded, from what its analysis has read.
LEMMA PublishQuiet ==
    ASSUME QuietInv, Publish
    PROVE  ValidatedOrQueued'
<1> USE DEF QuietInv
<1>1. PICK entry, read, fresh : /\ entry = Head(todo) /\ read = analysed[1]
                                /\ fresh = FreshAnalysis(read, entry)
    OBVIOUS
<1>2. /\ entry_dependencies' = With(entry_dependencies, entry, fresh.deps)
      /\ diagnostics_by_entry' = With(diagnostics_by_entry, entry, fresh.diagnostics)
      /\ todo' = Tail(todo) /\ UNCHANGED <<documents, open_entry_uris, pending, disk, unwatched>>
    BY <1>1 DEF Publish
<1>3. ToSet(todo') = ToSet(todo) \ {entry} /\ entry \in ToSet(todo) /\ DOMAIN read = Doc
  <2>1. todo # <<>> /\ DOMAIN analysed[1] = Doc
      BY DEF Publish, Scheduled
  <2> QED
      BY <1>1, <1>2, <2>1, TailIs DEF Scheduled
<1>4. \A d : StaysKnown(d)
    BY <1>2 DEF StaysKnown, Unknown, Sources
<1>5. /\ entry_dependencies'[entry] = fresh.deps /\ diagnostics_by_entry'[entry] = fresh.diagnostics
      /\ DOMAIN entry_dependencies' = DOMAIN entry_dependencies \union {entry}
    BY <1>2 DEF With
<1>6. ASSUME NEW e \in DOMAIN entry_dependencies, e # entry, Recorded(e)
      PROVE  Recorded(e)'
  <2>1. /\ entry_dependencies'[e] = entry_dependencies[e]
        /\ diagnostics_by_entry'[e] = diagnostics_by_entry[e]
      BY <1>2, <1>6 DEF With, Scheduled
  <2> QED
      BY <1>4, <1>6, <2>1, RecordedStays
<1>7. Recorded(entry)'
  <2>1. IsRead(read) /\ Agrees(read, Doc)
      BY <1>1 DEF Publish, AnalysedNow
  <2>2. fresh.deps \subseteq Doc
      BY <1>1, <1>3, ReachedInDomain DEF Scheduled
  <2>3. Agrees(read, entry_dependencies[entry])'
      BY <1>2, <1>5, <2>1, <2>2 DEF Agrees, Unknown, Sources
  <2>4. IsRead(read)'
      BY <2>1 DEF IsRead
  <2>5. (/\ entry_dependencies[entry] = FreshAnalysis(read, entry).deps
         /\ diagnostics_by_entry[entry] = FreshAnalysis(read, entry).diagnostics)'
      BY <1>1, <1>5
  <2> QED
      BY <2>3, <2>4, <2>5 DEF Recorded
<1>8. SUFFICES ASSUME NEW e \in open_entry_uris \ (pending.entries \union ToSet(todo'))
               PROVE  e \in DOMAIN entry_dependencies' /\ Recorded(e)'
    BY <1>2 DEF ValidatedOrQueued
<1>9. CASE e = entry
    BY <1>5, <1>7, <1>9
<1>10. CASE e # entry
  <2>1. e \in DOMAIN entry_dependencies /\ Recorded(e)
      BY <1>3, <1>8, <1>10 DEF ValidatedOrQueued
  <2> QED
      BY <1>5, <1>6, <1>10, <2>1
<1> QED
    BY <1>9, <1>10

LEMMA StepQuiet == QuietInv /\ [Next]_vars => ValidatedOrQueued'
<1> SUFFICES ASSUME QuietInv, [Next]_vars
             PROVE  ValidatedOrQueued'
    OBVIOUS
<1>1. CASE RecordsStay
    BY <1>1, RecordsStayRight DEF QuietInv
<1>2. ASSUME NEW uri \in Doc, NEW text \in Overlays(uri), DidOpen(uri, text)
      PROVE  ValidatedOrQueued'
    BY <1>1, <1>2, DidOpenQuiet
<1>3. ASSUME NEW uri \in Doc, NEW text \in Overlays(uri), DidChange(uri, text)
      PROVE  ValidatedOrQueued'
    BY <1>1, <1>3, DidChangeQuiet
<1>4. ASSUME NEW uri \in Doc, DidClose(uri)
      PROVE  ValidatedOrQueued'
    BY <1>1, <1>4, DidCloseQuiet
<1>5. ASSUME NEW S \in (SUBSET unwatched) \ {{}}, DidChangeWatchedFiles(S)
      PROVE  ValidatedOrQueued'
    BY <1>1, <1>5, DidChangeWatchedFilesQuiet
<1>6. CASE FlushPendingValidations
    BY <1>1, <1>6, FlushQuiet
<1>7. CASE Analyze \/ UNCHANGED vars
  <2>1. /\ UNCHANGED <<documents, open_entry_uris, entry_dependencies, diagnostics_by_entry>>
        /\ UNCHANGED <<pending, todo, disk, unwatched>>
      BY <1>7 DEF Analyze, vars, server
  <2>2. RecordsStay
      BY <2>1 DEF RecordsStay, QuietInv, ValidatedOrQueued, StaysKnown, Unknown, Sources
  <2> QED
      BY <1>1, <2>2
<1>8. CASE Publish
    BY <1>8, PublishQuiet
<1>9. ASSUME NEW uri \in Doc, NEW source \in Files(uri), DiskWrite(uri, source)
      PROVE  ValidatedOrQueued'
    BY <1>1, <1>9, DiskWriteQuiet DEF DiskWriteOnly
<1> QED
    BY <1>2, <1>3, <1>4, <1>5, <1>6, <1>7, <1>8, <1>9 DEF Next

LEMMA QuietInvariant == Spec => []QuietInv
<1>1. QuietInv /\ [Next]_vars => QuietInv'
    BY StepScheduled, StepStamped, StepServerTyped, StepAnalysed, StepQuiet DEF QuietInv
<1> QED
    BY <1>1, InitQuiet, PTL DEF Spec

\* Every text and every file has a program, if only a partial one, and imports
\* documents.  Without it the property does not hold: an entry is not tracked as
\* depending on a module that could not be read.
EverySourceIsReadable ==
    \A d \in Doc : \A source \in Overlays(d) \union Files(d) :
        Readable(source) /\ ToSet(source.imports) \subseteq Doc

\* An analysis finds the same in sources that are the same wherever it looked.
LEMMA FreshAgrees ==
    ASSUME EverySourceIsReadable, NEW read, NEW now, IsRead(read), IsRead(now), NEW e \in Doc,
           \A d \in FreshAnalysis(read, e).deps : read[d] = now[d]
    PROVE  FreshAnalysis(now, e).diagnostics = FreshAnalysis(read, e).diagnostics
<1>1. /\ Resolved(read) /\ Resolved(now) /\ DOMAIN read = Doc /\ DOMAIN now = Doc
      /\ \A d \in Doc : Readable(read[d])
    BY DEF EverySourceIsReadable, IsRead, Resolved, Imports
<1>2. e \in Reached(read, e) /\ Reached(read, e) \subseteq Doc
    BY <1>1, ReachedIsClosed
<1>3. Loaded(read, e) = Reached(read, e)
    BY <1>1, <1>2 DEF Loaded
<1>4. CASE read[e].fault \in {"lex", "parse"}
  <2>1. read[e] = now[e]
      BY <1>4 DEF FreshAnalysis
  <2> QED
      BY <1>4, <2>1 DEF FreshAnalysis
<1>5. CASE read[e].fault \notin {"lex", "parse"}
  <2>1. SameOn(read, now, Reached(read, e)) /\ read[e] = now[e]
      BY <1>1, <1>2, <1>3, <1>5 DEF FreshAnalysis, SameOn
  <2>2. Diagnostics(now, e) = Diagnostics(read, e)
      BY <1>1, <2>1, DiagnosticsAgree
  <2> QED
      BY <1>5, <2>1, <2>2 DEF FreshAnalysis
<1> QED
    BY <1>4, <1>5

(* The promise of the server: once nothing is queued, running or unreported, every
   open entry has the diagnostics of the sources there are now, whatever edits, opens,
   closes and file changes came before and in whatever order they were validated
   (lib.rs and analysis/state.rs of hern-lsp). *)
THEOREM QuietIsFresh ==
    ASSUME EverySourceIsReadable
    PROVE  Spec => []QuietMeansFresh
<1>1. QuietInv => QuietMeansFresh
  <2>1. SUFFICES ASSUME QuietInv, Idle, pending.entries = {}, unwatched = {}
                 PROVE  /\ DOMAIN diagnostics_by_entry = open_entry_uris
                        /\ \A e \in open_entry_uris :
                               diagnostics_by_entry[e] = FreshAnalysis(Sources, e).diagnostics
      BY DEF QuietMeansFresh
  <2>2. ToSet(todo) = {}
      BY <2>1 DEF Idle, ToSet
  <2>3. DOMAIN diagnostics_by_entry = open_entry_uris
      BY <2>1, <2>2 DEF QuietInv, ValidatedOrQueued, Scheduled
  <2>4. IsRead(Sources)
      BY <2>1 DEF QuietInv, Typed, IsRead, Sources
  <2>5. ASSUME NEW e \in open_entry_uris
        PROVE  diagnostics_by_entry[e] = FreshAnalysis(Sources, e).diagnostics
    <3>1. PICK read : /\ IsRead(read)
                      /\ Agrees(read, entry_dependencies[e])
                      /\ entry_dependencies[e] = FreshAnalysis(read, e).deps
                      /\ diagnostics_by_entry[e] = FreshAnalysis(read, e).diagnostics
        BY <2>1, <2>2, <2>5 DEF QuietInv, ValidatedOrQueued, Recorded
    <3>2. PICK now : now = Sources
        OBVIOUS
    <3>3. \A d \in FreshAnalysis(read, e).deps : read[d] = now[d]
        BY <2>1, <3>1, <3>2 DEF Agrees, Unknown
    <3>4. e \in Doc
        BY <2>1, <2>5 DEF QuietInv, Scheduled
    <3> QED
        BY <2>4, <3>1, <3>2, <3>3, <3>4, FreshAgrees
  <2> QED
      BY <2>3, <2>5
<1> QED
    BY QuietInvariant, <1>1, PTL
=============================================================================
