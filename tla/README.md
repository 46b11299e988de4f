# A TLA+ model of Hern

Hern is a statically typed language that compiles to Lua: a compiler library
(`hern-core`), a language server (`hern-lsp`), a REPL, a documentation generator
and a command line. This directory models the compiler from the characters of a source to
the Lua that runs, and the tools that keep state between compilations: the loader of
modules, the REPL and the language server. TLC checks the models on small instances; TLAPS
proves what matters most for every instance: the type checker's substitution, generalization,
recovery, the loading of modules, the server's diagnostics, cache and queue.

Run `tlc -config X.cfg Module` for a run of `PROJECT.json`, `tlapm M.tla` for the proofs of a module
`M` whose name ends in `Proofs`.

## Inventory

| part | state it keeps | operations | what is hard | modules |
|---|---|---|---|---|
| lexer (lex/mod.rs) | position, line, column | one token per call | interpolated strings, whose holes are lexed again and moved | Lexer |
| parser (parse/mod.rs) | position, collected errors | recursive descent, recovery by statement | two readings of a block, skipping past errors, binding powers, jumps in `do` | Syntax, Parser |
| derives (derive.rs) | none | syntax trees of impls, per type and trait | four walks over the same variants that must agree | Derives |
| reassociation (reassoc.rs) | table of fixities | flatten a row, validate, rebuild | what the parser's powers left nested | Operators |
| declarations and annotations (decls.rs, type_convert.rs, type_syntax.rs) | registries of types, aliases, traits | register, convert, keys of impls | the same payload is converted twice; aliases of aliases | TypeSyntax |
| `Subst` (types/mod.rs) | bindings and levels of type variables, fresh-variable counter, undo journal, number of active checkpoints | `fresh_tyvar_at`, `bind_ty`, `checkpoint`, `restore_checkpoint`, `discard_outermost_checkpoint`, `clear_map_keep_counter` | nested checkpoints restored in the middle of inference | TyVars, Subst, SubstRefinement, SubstProofs |
| unification (`unify`, `unify_rows`) | none of its own | equality of types with open and closed rows | tails that meet | Unification |
| generalization (infer.rs, scopes.rs, funcs.rs) | `current_level`, stack of environments | functions, lambdas, lets | levels instead of a scan of the environment | LetPolymorphism, InferenceProofs |
| inference rules (types/infer/) | the substitution, environment, levels, stacks of loops and functions, places | one rule per expression and statement | mutability and fresh places, jumps, expected types | Typing, Soundness |
| impls and method calls (impls.rs, calls/) | registries of impls | declare an impl, resolve a call | overlapping keys, conditions, what is known when | Methods |
| dictionaries (dicts.rs, funcs.rs, rec_blocks.rs) | pending arguments, parameters of functions | per function, per use, final pass | concrete and pending arguments in one list | Dictionaries |
| exhaustiveness (patterns.rs) | none | witnesses against arms | the limits on witnesses | Patterns |
| recovery (infer.rs, recovery.rs, test_blocks.rs) | environment, unavailable names, snapshot | skip, succeed or fail, per statement | shadowing, redefinition, test blocks | Recovery, InferenceProofs |
| Lua generation (codegen/lua.rs) | counter of temporaries, stack of loops | expression to statements and an expression | hoisting, jumps | LuaCodegen, LuaMeaning |
| `ModuleGraph`, `analyze_workspace` | `modules`, `paths`, `order`, `loading` | two loaders, inference over the order | cycles, diamonds, failures half way | Workspace, ModuleLoading, LoadingProofs |
| `ServerState` and handlers (lsp) | overlays, versions, dependencies, diagnostics by entry, cached analyses | notifications, validation, requests | client, file system and queue interleave | LspServer, LspProofs |
| `main_loop`, `PendingValidations` (lsp) | queue, timer | receive, flush a batch | debouncing without starvation | MainLoop, PendingValidations, PendingProofs, MainLoopProofs |
| source index and rename | definitions and references | index a document, rename | a second resolution of names | Names |
| REPL session and input line | accumulated source, history | submit, edit | replay | Repl, ReplProofs |
| prelude's Heap and Queue | a Lua table | push, pop, size | indices at the edges | Containers, AbstractContainers, ContainersProofs |
| other LSP features, doc generator, REPL drawing, CLI, rest of the library | none, or the terminal | format an analysis | — | not modelled |

How they interact: the main loop calls handlers, handlers call
`diagnostics_for_document`, which calls `analyze_workspace`, which loads a module
graph twice and infers its modules in order. A module is lexed, parsed, its derives expanded
and its rows reassociated; its inference runs the collecting loops of recovery, which take a
checkpoint of `Subst` per statement; overload resolution takes nested ones.
Everything is single threaded: the concurrency is that of the server with its client
and with the file system.

What makes each part correct:

- **text to tree**: what is written is what is read; for a text without errors both readings
  agree; after an error intact neighbours survive; positions point at their text.
- **tree to types**: a row is the tree its declarations demand; an annotation means what it
  says; unifiers are most general; a scheme quantifies only over variables that are free in
  no environment; a checked program runs without getting stuck, and a mutable
  value has one owner; a match that is accepted cannot fail; a call gets the method and the
  dictionaries of its types.
- **recovery**: a statement takes effect iff it and everything it depends on is in
  order; each root cause is reported once.
- **types to Lua**: the same calls in the same order with the same result.
- **modules**: imports come first, both loaders agree, errors do not cascade.
- **server**: what is shown is what the sources say once things settle, nothing
  outlives its document, the cache never answers from an old file, no validation is
  lost, and diagnostics arrive.
- **tools**: a rename changes no binding; a session behaves as if its state had been kept.

## The modules

`PROJECT.json` maps every definition to the lines it models; its `hazards` list
says where each difficulty bites and which property watches it.

### From text to tree

**Lexer** reads tokens from characters with their lines and columns. A hole is cut out of
its string by the scan of `HoleEnd` for the brace that ends it, lexed by a lexer of its own and moved
(`RebasedSpan`). **Syntax** is the grammar: one operator per function of the parser, over words.
**Parser** is the loop of `parse_program_recovering`, a statement per step
(`ReadStatement`) and a skip after a broken one (`SkipBroken`). `StatementAt` stands for
`ParseStmt`; see "Operators as constants".

**Operators** goes from the tree of binding powers to the tree of declared
precedences (`ParseRow`, `Reassociate`); the reference is stated on trees: of all trees with
this row, the one in which no operand holds an operator that should be outside it.

**Derives** expands a statement per step, as `expand_derives` does, and runs the generated methods on
all values of the type.

### Types

**TyVars** holds the pure functions on type variables; a type is the set of variables
that occur in it. **Subst** is `Subst` driven the way `Infer` drives it. `BindTy` is `bind_ty` with its
early returns as the guard: apply, occurs check, lower all levels to the least
one, journal, bind. The order in which the walk journals lowered levels is not
fixed by the model (`Walks`). `restore_checkpoint` is a loop, one pop per step
(`RestoreBegin`, `RestorePop`, `RestoreEnd`). The collecting loop's checkpoint is
`BeginStatement`, discarded by `DiscardOutermost`; the checkpoint of an overload
candidate (calls/receiver.rs) is `BeginProbe`, at any depth. `handed` and the
copies in `frames` are history. **AbstractSubst** is what inference is promised: a table
whose checkpoints are whole copies. **SubstRefinement** maps a frame to what undoing the
journal down to its length would give, without history (`ImplementsCopies`).

**Unification** is `apply`, `bind_ty`, `unify` and `unify_rows` over whole types; an equation is
taken apart step by step and compared with all ground solutions.

**LetPolymorphism** is generalization: `scopes` are the active calls of
`with_child_level` with the free variables of their environments. A program is any
sequence of steps that stays within the variables in reach, so every expression
the type rules could build is covered without modelling expressions.
`UnloweredLambdas` says whether a lambda's type may reach a monomorphic binding before `bind_ty` has
lowered it, which is what `let mut f = fn(x) { x };` does.

**TypeSyntax** has what a program declares, how an annotation becomes a type and the keys of
impls. **Methods** declares impls and resolves `x.m(..)`, `Trait::m(..)` and `Type::m(..)`, and
settles the dictionary of each. **Dictionaries** follows constraints through functions, groups
and nested functions to the arguments of calls, and then runs the generated program to see
that every dictionary is the one of its value.

**Typing** is inference of expressions and statements over Unification, with levels and
the tracking of mutable bindings and places; **Soundness** infers a program statement by
statement and runs what is accepted; **MCTyping** generates the programs.

**Patterns** enumerates witnesses as patterns.rs does, and compares with the tests that the Lua makes
of a pattern on every value of the type.

**Recovery** is the extern pre-pass and the collecting loops of one module.
The program is chosen initially; `fault` says that a statement is wrong by
itself, and whether its names are bound is decided by `env` when inference gets
there. `Infer` takes the snapshot and runs `infer_stmt`, `Succeed` and `Fail`
are the two arms after it; the same three serve the loop inside a test block.

### Lua

**LuaCodegen** is `gen_expr`, `gen_tail` and `gen_stmt`: an expression gives the statements hoisted
before it and what is left in line. **LuaMeaning** evaluates bodies and their Lua, each to
the calls made and how the evaluation ended.

### Tools

**Workspace** defines what analysing a workspace finds as a function of the sources;
**ModuleLoading** is how: the recursion of the loader is `stack` and `call`, the fail-fast
loader runs first, then the recovering one on a new graph, then inference over `order`.

**PendingValidations** is the struct of that name with `first_queued_at`
abstracted to whether the debounce has passed. **MainLoop** puts it under
`recv_timeout`; **LspServer** under the handlers. In LspServer an
analysis takes two steps, `Analyze` (reading the sources) and `Publish` (recording the
result), because the file system can move in between. `didChangeWatchedFiles` reports any part of
the unreported changes, so reports are late and merged.

**Repl** runs a session that replays its source beside one that keeps its state, and the input
line with history and hints; a statement declares, increments, reads or fails, at one of the names in
`Variable`, and `Execute`, `AnalyzeSource` and `Persistent` go through a text statement by statement.
**Names** indexes a document, renames, and compares the bindings before and after.

**Containers** has the prelude's Heap and Queue, which implement **AbstractContainers**
(`ImplementsContainers`). A loop of the heap's Lua is a number of turns (`Raised`, `Lowered`), as many as the
array is long; a turn after the loop has ended does nothing. Priorities are integers
(`PrioritiesAssumption`): only their order matters to the code, which compares them with `<`, and NaN is left out.

### Compositions

Parts that share no state while they run are checked together: a behaviour of **MCStages**,
**MCFrontEnd**, **MCDeclarations** or **MCTools** is one of a single part while the others are idle,
so each run is the sum of its parts. Parts that do interact are composed in modules of their
own: LspServer extends Workspace and PendingValidations; Typing, Dictionaries and TypeSyntax extend
Unification; Methods extends TypeSyntax, Soundness extends Typing, SubstRefinement instantiates
AbstractSubst.

**Operators as constants.** `StatementAt`, `Checked`, `ExprCode`, `TailCode`, `Definitions`, `Uses`,
`ImplSchemeOf`, `OwnMethodsOf`, `CalleeOf` and `DictOf` are declared constants, and every configuration
gives them the operator that their comment names. They change nothing in the model. They are
there because TLC, when it collects coverage, unfolds a definition at each place where it is
called, and for mutually recursive definitions of this size does not come to an end.

## The runs

| run | shows | bounds |
|---|---|---|
| subst | rollback, assertions, acyclicity, freshness; checkpoints behave as copies | 3 variables, levels 0–2, 2 nested checkpoints |
| stages | generalization, recovery, unification, dictionaries, reassociation, exhaustiveness, Lua | 3 variables and 2 nested scopes; programs of 3 statements over 2 names, or a test block of 2 and another statement; pairs of 18 types over 4 variables, then one of 6 second pairs; groups of one or two functions over two dozen uses; rows of up to 4 of 7 operators, under 4 tables; 12 types with up to 4 arms; bodies of two operands, 3 turns of a loop |
| front_end | reading back, recovery, positions, holes, soundness of types and of places | expressions of two operators and rows of three; 18 kinds of statements alone with any token missing, and three in a row; sources of up to 4 characters, holes of up to 4, of up to 3 in a hole; programs of a definition and its uses, 5 turns |
| declarations | annotations, patterns of constructors, method calls, derives, containers | 2 types, 9 aliases and a trait, all or all but one, or with a type whose payloads hold variables of their own; 19 impls of seven traits and five of types with one to three calls; three variants with five payloads; 4 items in the heap or the queue |
| tools | the server's state, loading, sessions, renames | 3 modules, each importing the next, with 2 versions of a document and 2 writes of a file, batches of 1; all graphs of 3 modules with 2 imports and every fault; 3 inputs; 2 statements (or 3 small ones), 2 names, 2 renames |
| main_loop | the queue, and liveness | 4 documents, batches of 2 |
| let_unlowered_lambda, let_destructuring, lsp_broken_dependency, recovery_operators, operators_lower_first, alias_arguments | six departures, see below | as above, or smaller |

Why these bounds reach the interesting cases. Three type variables are enough for a
variable, the one it is bound to and one that a nested probe allocates or lowers;
two nested checkpoints for a probe inside a statement that is rolled back. Three
statements are enough for a definition that is shadowed by a failing one
and used; two names let a failure pass through a skipped statement. Two equations meet what the first
has bound, with both tails open. Four operators hold a chain on either side of a looser
one; two operands hold one that is hoisted and one that is not, on either side. Three modules
with two imports give self-imports, cycles of every length up to three, diamonds
and repeated imports. In the server, a change of `dep` must reach `main` through `lib`, and batches of
one leave entries queued while others are validated. Four items are a heap of three
levels. `SYMMETRY` is used in `tools` for the modules of the loader that are not the entry.

Every counter has its bound in a guard and in a constant: `MaxVersion`, `MaxWrites`, `MaxSubmits`, `MaxItems`,
`MaxStatements`, `MaxBody`, `MaxTurns` and `RunTurns` (turns of loops before a run is
cut off, on both sides of a comparison), `MaxCallDepth`, `MaxWitnesses` and `MaxWitnessDepth` (limits of the code, the
first made smaller so that it is reached), `SelfNesting` (how deep a value of a recursive type goes), `OwnVars`. Parts that come to
an end set `CHECK_DEADLOCK FALSE`.

### Fairness

Only MainLoop has liveness. The loop and the clock are weakly fair
(`TimerRunsOut`, the handlers, `Timeout`): the server is one thread that keeps running and
`recv_timeout` returns when its time is over. The client is not fair at all. `Timeout` needs an
empty channel, so a client that always has a message ready disables it; this is why
`EditsCannotPostponeFlush` rests on the flush after notifications. It assumes that
requests do not go on for ever, since a request is answered without a look at the timer.

### Where the code departs from what is said of it

Six runs find a violation (`findings` in PROJECT.json quotes the text each one contradicts):

- **let_unlowered_lambda**: `let mut f = fn(x) { x };` puts variables of a deeper level
  into the environment, and a later function that uses `f` quantifies over them.
- **let_destructuring**: a destructuring let compares with the free variables of the
  environment from before its value was inferred.
- **recovery_operators**: the use of an infix operator is not a reference, so the failure of
  its definition is reported again at its uses.
- **lsp_broken_dependency**: an entry does not depend on a module that was missing or did not
  lex, and keeps its diagnostics when that module is repaired.
- **operators_lower_first**: `a == b && c && d` is parsed with the two `&&` on the right of `==`, and
  flattening follows right spines only: the row becomes `(a == (b && c)) && d`. The same cause makes
  `a && ((b <> c) <> d)` of `a && b <> c <> d`, though `<>` associates to the right.
- **alias_arguments**: with `type alias Pair('a, 'b) = ('a, 'b)`, the annotation `Pair('b, int)` means
  `(int, int)`, and `Id(Id(int))` is refused as a recursive alias.

Each passing run states how far the property does hold, and excludes the following where it
generates or judges programs. They are departures that were met while modelling, named
here so that nobody takes the properties for more than they say:

- *Lexer*: an operator directly followed by `//` or by `$"`; columns after a comment.
- *Parser* (whose writer ranks operators by a table of its own): `.` and `::` bind at 11, level with `*`, so that `a * p.x` is `(a * p).x`; a block-like
  statement without a semicolon is continued by a following operator; a bracket that is never closed
  loses the rest; a statement that begins with an attribute is recovered without it.
- *Operators*: rows in which an operand that flattening pushes whole is a chain itself (`FlattensCompletely`; the run above).
- *Unification*: there are no lacks constraints, so row variables range over records only.
- *Typing*: loops with both a `break` and a `return` (the checker takes them for never ending); assignment of a
  place that has an owner; a spread of an open row beside fields of its own; a destructuring
  let that generalizes variables shared with the environment; `break` in a lambda in a loop.
- *Methods*: impls with functional dependencies are used at one type (the lookup unifies the impl's own
  variables); conditional impls come before their uses; a type variable of a
  method does not have the name of one of its impl; impls are not for aliases and there is no impl for every type.
  The Eq dictionary of a tuple has no name: a call of a named method of Eq on a tuple panics in the code (dispatch.rs:307,
  receiver.rs:546; the prelude's Eq has operators only) and counts as refused in the model; one whose type turns out to be a tuple
  later gets a dictionary with `==` and `!=` only, and conditions of impls do not see it (dicts.rs:638), so that a method of
  Eq called on a box of pairs is refused although pairs have an Eq dictionary. The last two are left out.
- *TypeSyntax*: a payload may hold a variable that is no parameter of its type, or a hole. A constructor and its patterns
  then have one each that nobody quantifies, so that `type V = D('z)` takes an int and gives a string;
  `PatternsTakeWhatConstructorsGive` says what each side reads, not that such a type is sound.
- *Dictionaries*: in one list of constraints, a concrete dictionary is pushed before the pending ones that
  precede it; a nested function that calls its enclosing one, and a function of the same group used as a value, get no
  dictionaries; nested functions whose constraints bubble up. No statement of its programs fails.
- *Patterns*: nested arrays have two witnesses, `[]` and one with a rest; patterns of `for` are not checked.
- *Lua* (`KeepsMeaning`): an earlier operand in line with a later one hoisted; `let _ =` and
  `let x =` over hoisted values that drop or capture; loops that end in `return`, or that are taken for never
  ending although they break; an arm that rebinds its scrutinee; templates that repeat an operand.
- *Derives*: a default variant that holds its own type, nested tuples, variants named like those of Ordering.
- *Names*: functions of a recursive group are defined twice, so that their references are incomplete, and uses
  of operators are not indexed: neither is renamed; impl methods share the name space of values;
  later definitions of a top-level name win everywhere.
- *Repl*: loading a file drops assignments that evaluation keeps; an expression that also assigns is dropped.
- *Server*: a file that is written while it is analysed is fingerprinted after the
  analysis, so the old analysis is served for the new file until the client reports the change:
  `CacheHonest` excepts the files in `raced`, which are exactly those.
- *Subst*: `bind_ty` lowers all the variables of a type to the least level among them, and `unify_rows` allocates
  the shared tail at the root level; both give up polymorphism that would have been sound.

## What is proved

Eight modules hold proofs, for every value of the constants. Only `NoCascadeHolds`, `GeneralizationSound` and
`QuietIsFresh` have hypotheses beyond the named assumptions on the constants (which say that bounds are numbers in
range, that names and documents are finite sets, that the entry is a module, that priorities are integers, and
that what is typed is a text of statements); each is given below with
what it excludes. Only `ShownIsCombined` is inductive by itself; the other proofs have
invariants of their own.

| module | theorems | invariant |
|---|---|---|
| SubstProofs | `TypeCorrect`, `RollbackCorrect`, `AssertionsHold`, `SubstitutionAcyclic`, `FreshVariablesNew` | `IInv` |
| | `JournalImplementsCopies` | `JInv` |
| InferenceProofs | `GeneralizationSound` | `LetInv` |
| | `CascadeOnlyThroughOperators`, `NoCascadeHolds` | `CascadeInv` |
| | `EnvIsExactHolds` | `Control`, `SucceededPassed`, `EnvHolds` |
| | `FaultsReportedHolds` | `FaultInv` |
| MainLoopProofs | `QueueStaysConsistent`, `ValidationsAreKept` | `LoopInv` |
| LspProofs | `ShownIsAlwaysCombined` | the property itself |
| | `CacheIsHonest` | `CacheInv` |
| | `QuietIsFresh` | `QuietInv` |
| LoadingProofs | `ImportsAlwaysComeFirst`, `NoCascadesEver` | `LoadingInv` |
| | `LoadersAlwaysAgree` | `AgreeInv` |
| ContainersProofs | `ContainersKeepTheirPromise` | `ContainersInv` |
| ReplProofs | `ReplayAlwaysIsTheSession` | `SessionInv` |
| PendingProofs | lemmas about the queue | |

**Substitution.** `IInv` adds to the types

- `Discipline`: there are as many active checkpoints as frames, the journal is empty when
  there is no frame, only a frame can be restored, and every variable handed out is below
  `next_var`; the assertions (`NoPanic`) follow;
- `FramesNest`: journal lengths do not decrease from frame to frame, the outermost starts at
  an empty journal, each frame remembers as its depth how many are outside it, and only the
  outermost can be a statement's;
- `FramesRestorable`: for every frame, undoing the journal down to the frame's
  length gives the frame's bindings and levels. It is stated without recursion, through the
  earliest entry of each variable after that length: if there is one it holds the old
  value, and if there is none the value has not changed. When nothing is left to
  undo this is `RollbackExact`;
- `OnlyUnsolvedBound`: a binding entry records that the variable was unsolved;
- `WellFounded(map)`: every nonempty set of variables has one whose binding mentions none
  of the others. Cycles are excluded by it, and it is preserved by a binding that passes the occurs
  check, which acyclicity alone would need paths to show.

Each action has a step in each preservation lemma (`TypeNext`, `DisciplineNext`, `NestNext`,
`RestorableNext`, `UnsolvedNext`, `WellFoundedNext`); `BindStep` and `PopStep` say what one binding
and one undo do to a frame. `FreshVariablesNew` follows from `IInv`, which bounds what was handed out.

`JournalImplementsCopies` is the refinement `ImplementsCopies`, step by step. `Denotes(n, t)` says that the table `t` is
what undoing to length `n` leads to; there is exactly one (so it is the `UndoneTo` of the mapping), and a step
that keeps what a frame denotes keeps the copy that the frame maps to. `JInv` adds that bindings and journal entries are
about variables that exist, without which allocating a variable could change a copy.

**Generalization.** `GeneralizationSound` assumes `~UnloweredLambdas`: with them the property is false, and the run
let_unlowered_lambda shows it. `Separated` is the invariant that makes levels work: a variable that two scopes share,
when one between them may be generalized, is at the ambient level of that one or below. So what lies
above the ambient level is reached from nowhere else (`Separated`), and what was quantified from nowhere at all (`Gone`).

**Recovery.** `NoCascadeHolds` assumes that there are no user-defined operators; with them the property is
false, and the run recovery_operators shows it. `CascadeOnlyThroughOperators` has no hypothesis and says what is left: a
diagnostic is of a faulty statement or of one that mentions an operator. `CascadeInv` says that each name declared
so far is bound or unavailable, in and around a test block, and that a snapshot lacks only what its own statement
binds. `EnvIsExact` says that a name is bound iff a surviving statement outside test blocks defines it, and then to the last
of them; `EnvHolds` says so of the statements before the present one and follows the bindings of that one until it succeeds or is rolled
back, `SucceededPassed` keeps what survived behind the loop, `FaultInv` accounts for each faulty statement that was passed: it was reported, or it mentions a name whose definition
took no effect.

**Queue and main loop.** PendingProofs says what `insert`, `extend`, `remove` and `drain_next_batch` do to entries, order and
timer, and that all keep `Consistent`. Where a definition recurses over a sequence (`Kept`) the proof is by the
least index at which the fact would fail, since induction is out of reach. `ValidationsAreKept` is then a step per action.

**Language server.** `ShownIsAlwaysCombined` rests on what a publication sends: for each document outside the
affected ones no entry's diagnostics changed. For the other two, `Scheduled` says that what is queued or being validated
is open and waits once. `CacheInv` says that a cached analysis has read the open documents as they are, and a closed one as
its file is unless the fingerprint differs; a file that is written while it is analysed is in `raced`.
`QuietInv` says that every open entry is waiting or has diagnostics and dependencies of an analysis that agrees with the
present sources, but for files whose change is not reported. When nothing is waiting or unreported it has read
what there is, and by `ReachedAgrees` (LoadingProofs) an analysis finds the same in two sets of sources
that agree on what it reached. That last step is where
`QuietIsFresh` assumes `EverySourceIsReadable` (each text and file exists and lexes; it may have errors in its
syntax and its types): an entry does not depend on a module that could not be read, and the run lsp_broken_dependency shows
that the property is false then. The sources of the run tools all satisfy the hypothesis.

**Loading.** `LoadedOnce` says that a module is loaded by one call and once. `Underway` says that, while nothing has gone wrong,
each import of a module on the stack is loaded, awaited or still to come, so a module enters `order` after its imports,
cycles included: a cycle is reported, and then nothing is inferred. `Verdicts` says that what was
inferred imports only what was inferred without errors, and that what is unavailable reaches a module with a type error;
`NoCascades` follows since a set that holds a module and all imports of its members holds all it reaches (`ReachedIsLeast`).
`LoadersAlwaysAgree` compares two loads that run one after the other. Until something is reported both go through the same
states: `OnTheWay` is the least set of states that holds the start and the successor of each member that reports nothing
(again a set, not a recursion). `OneStop` shows that a single member has no successor there: the first loader ends with what
that one reports, and so does the second with its first diagnostic.

**Containers.** `ContainersKeepTheirPromise` is the refinement `ImplementsContainers`: the array is a bag of items, the
table a line. `ContainersInv` says that no item is below its parent (`HeapOrdered`) and that the table has
exactly the cells from its head to its tail (`QueueOK`). Between two turns of a loop the order fails at one place only
(`OrderedBelow` on the way up, `OrderedAbove` on the way down), a turn moves that place (`RaisingKeepsOrder`,
`LoweringKeepsOrder`) and exchanges two items, which changes no number of copies (`SwapKeepsCopies`). `LoopEnds`
is the argument about loops: when each turn stays in a set of states and lowers a measure or is done, as many turns as the
measure allows end in a state that is done. Then every item is at its place, and the first is a lowest one
(`FirstIsLowest`, by the least index that would be lower).

**REPL.** `ReplayAlwaysIsTheSession` is about texts of any length over any names. `Ready(base, lets, state)` says what a
kept text has to be for the replay to be the session: it is accepted, it runs to the values of `state` and prints
nothing, and the declarations `lets` of the session alone put the same names in scope with the same types. `ReadyStep` adds one
statement to text and session alike, `ReadyText` and `ReadyFile` a whole input and a loaded file, and `SubmitKeeps` has a
case for each outcome of an input. `SessionInv` adds that the line, the draft and the
history hold texts. What goes through a text is a function on its prefixes; `ResultsAreSolved` says that such functions
are what their equations say, and `OneStatementMore` what one more statement changes. `replayable` is part of the
property: the run tools and the theorem exclude inputs whose values the replay is meant to lose (`CanReplay`).

### Only model-checked

- Liveness (`EditsCannotPostponeFlush`, `SilenceDrainsQueue`), out of the prover's reach.
- Properties of the modules that follow the recursion of the code over trees (Unification, Operators, Patterns,
  Dictionaries, LuaMeaning, Parser, Lexer, Soundness, TypeSyntax, Methods, Derives, Names): what a recursive
  definition computes for every input is out of the prover's reach.

## What is not modelled, and why

- Hover, completion, inlay hints, semantic tokens, code actions, navigation and the documentation generator
  format answers from one analysis and change no state.
- The drawing of the REPL, the command line: pure I/O.
- The library beyond Heap and Queue: programs in Hern without state of their own, covered by its tests.
- In the lexer: number values, keywords. In the parser: interpolated strings (their holes are in Lexer), spans of
  nodes, inner attributes. Tokens of Lexer and words of Syntax are separate abstractions of one type.
- In inference: texts of errors, editor metadata, overload probes (their checkpoints are in Subst), imports of
  values (abstracted to a fault of the importer), methods in Typing (they are in Methods and Dictionaries), bodies of methods.
- In Lua generation: dictionaries (Dictionaries says which are passed), tests of patterns (in Patterns), bundles (their
  order is `ImportsComeFirst`), Lua's limit of 200 locals.
- In the server: documents with unsupported URIs, an opened prelude (which replaces
  the prelude of later analyses), shutdown. Fingerprints are stamps, so
  two writes are always told apart; the code compares length and modification time.
- Two externs of one name: the code does not reject them, but says nothing of which is meant (`WellFormed`).

## Plan

1. Imports of values between modules, from one module's schemes to the other's environment.
2. Prelude editing in LspServer.
