-------------------------------- MODULE Repl --------------------------------
(***************************************************************************)
(* The REPL: the session that replays its accumulated source for every     *)
(* input (hern-repl/src/session.rs), and the input line with its history    *)
(* and hints (app.rs, terminal.rs).                                        *)
(*                                                                         *)
(* Every evaluation compiles the source kept so far followed by the input   *)
(* and runs all of it in a new Lua state.  Beside it, as history variables, *)
(* is the session the user has in mind: one that runs every accepted input  *)
(* once, in a state that stays.                                             *)
(*                                                                         *)
(* A text is a sequence of top-level statements, and editing replaces it    *)
(* whole: the cursor within the line, completions and the overlay that      *)
(* lists the bindings are left out.                                        *)
(***************************************************************************)
EXTENDS Integers, Sequences, TLC

CONSTANTS
    Variable, ValueType,    \* the names of the bindings, and the types of their values
    ReplFiles,              \* what `hern repl <path>` may be given; <<>> stands for no file
    Inputs,                 \* the texts a user types
    MaxSubmits              \* bound: how many inputs are submitted

VARIABLES
    defs,             \* ReplSession: the source that is replayed
    input, hints_dirty, history, history_cursor, draft_before_history,   \* App
    type_hint,        \* App: the type last_output for the input
    last_output,            \* the output of the last evaluation, or its error
    world,            \* history: the state of the session in the user's mind
    expected,         \* history: the output of the last evaluation there
    replayable        \* history: every accepted input can be replayed

replVars == <<defs, input, hints_dirty, history, history_cursor, draft_before_history,
              type_hint, last_output, world, expected, replayable>>

-----------------------------------------------------------------------------
(* Statements and what they do.                                            *)

\* let mut name = a value of the type; `prints` when its initializer does.
LetMut(name, type, prints) == [stmt |-> "let", name |-> name, type |-> type, prints |-> prints]
\* name = name + 1
Increment(name)  == [stmt |-> "assign", name |-> name]
\* An expression: the name itself, a block that increments it, or one that fails.
Read(name)       == [stmt |-> "expr", name |-> name, does |-> "read"]
BumpAndRead(name) == [stmt |-> "expr", name |-> name, does |-> "bump"]
FailAtRun(name)  == [stmt |-> "expr", name |-> name, does |-> "fail"]
Printed(e)       == [stmt |-> "print", expr |-> e]

\* What a user types.
Statement ==
    [stmt : {"let"}, name : Variable, type : ValueType, prints : BOOLEAN]
    \union [stmt : {"assign"}, name : Variable]
    \union [stmt : {"expr"}, name : Variable, does : {"read", "bump", "fail"}]

ASSUME TextsAssumption == Inputs \subseteq Seq(Statement) /\ ReplFiles \subseteq Seq(Statement)

NameIn(s) == IF s.stmt = "print" THEN s.expr.name ELSE s.name

\* The statement increments its name.
Increments(s) ==
    \/ s.stmt = "assign"
    \/ s.stmt = "expr" /\ s.does = "bump"
    \/ s.stmt = "print" /\ s.expr.does = "bump"

Fails(s) == (s.stmt = "expr" /\ s.does = "fail") \/ (s.stmt = "print" /\ s.expr.does = "fail")

Bind(f, name, x) == [n \in DOMAIN f \union {name} |-> IF n = name THEN x ELSE f[n]]

NoHint  == "none"
ErrorText == <<"error">>

\* A declaration gives its name a type; anything else needs its name to have one, and
\* only integers are incremented.  After a failure the rest is not looked at.
Typed(env, s) ==
    IF ~env.ok THEN env
    ELSE IF s.stmt = "let" THEN [ok |-> TRUE, names |-> Bind(env.names, s.name, s.type)]
    ELSE [ok    |-> NameIn(s) \in DOMAIN env.names /\ (Increments(s) => env.names[NameIn(s)] = "int"),
          names |-> env.names]

NoTypes == [ok |-> TRUE, names |-> <<>>]

\* analyze_source: the types of the names, or a failure.
AnalyzeSource(stmts) ==
    LET after[n \in 0 .. Len(stmts)] ==
            IF n = 0 THEN NoTypes ELSE Typed(after[n - 1], stmts[n])
    IN  after[Len(stmts)]

\* What a statement does to the values and what it prints.  A failure ends the run.
Ran(st, s) ==
    LET value  == CASE s.stmt = "let"  -> 0
                    [] Increments(s)   -> st.values[NameIn(s)] + 1
                    [] OTHER           -> st.values[NameIn(s)]
        prints == CASE s.stmt = "let" /\ s.prints -> <<"announced">>
                    [] s.stmt = "print"           -> <<ToString(value)>>
                    [] OTHER                      -> <<>>
    IN  IF ~st.ok THEN st
        ELSE IF Fails(s) THEN [ok |-> FALSE, values |-> st.values, out |-> st.out]
        ELSE [ok |-> TRUE, values |-> Bind(st.values, NameIn(s), value), out |-> st.out \o prints]

\* run_lua: the statements one after another, from `start`.
Execute(start, stmts) ==
    LET after[n \in 0 .. Len(stmts)] ==
            IF n = 0 THEN [ok |-> start.ok, values |-> start.values, out |-> <<>>]
            ELSE Ran(after[n - 1], stmts[n])
    IN  after[Len(stmts)]

NewLuaState == [ok |-> TRUE, values |-> <<>>, out |-> <<>>]

\* A source is run when its analysis finds nothing.
Attempt(start, analyzed, stmts) ==
    IF AnalyzeSource(analyzed).ok THEN Execute(start, stmts) ELSE [NewLuaState EXCEPT !.ok = FALSE]

-----------------------------------------------------------------------------
(* The session.                                                            *)

\* classify_input
ClassifyInput(text) ==
    CASE \E i \in DOMAIN text : text[i].stmt = "let" -> "Definition"
      [] \A i \in DOMAIN text : text[i].stmt = "expr" -> "Expression"
      [] OTHER -> "Statement"

\* Mutant: assignments are dropped like every other expression.
IsTransient_Assignments(s) == s.stmt # "let"

\* is_persistent_repl_expr: source_without_transient_repl_exprs keeps all but these.
IsTransient(s) == s.stmt = "expr"

Persistent(stmts) ==
    LET kept[n \in 0 .. Len(stmts)] ==
            IF n = 0 THEN <<>>
            ELSE IF IsTransient(stmts[n]) THEN kept[n - 1] ELSE Append(kept[n - 1], stmts[n])
    IN  kept[Len(stmts)]

\* source_without_top_level_exprs, for the file that is loaded: assignments are
\* expressions too.
Declarations(stmts) ==
    LET kept[n \in 0 .. Len(stmts)] ==
            IF n = 0 THEN <<>>
            ELSE IF stmts[n].stmt # "let" THEN kept[n - 1] ELSE Append(kept[n - 1], stmts[n])
    IN  kept[Len(stmts)]

\* What is compiled: the text itself, or print(..) around an expression, which is
\* no program unless there is exactly one.
AppendedSource(base, text) ==
    IF ClassifyInput(text) = "Expression" THEN Append(base, Printed(text[1])) ELSE base \o text
IsProgram(text) == ClassifyInput(text) = "Expression" => Len(text) = 1

Evaluation(text) ==
    LET source == AppendedSource(defs, text)
        run    == Attempt(NewLuaState, source, source)
    IN  [ok   |-> IsProgram(text) /\ run.ok,
         out  |-> run.out,
         kept |-> IF ClassifyInput(text) = "Expression" THEN defs
                  ELSE Persistent(source)]

\* ReplSession::type_hint
HintFor(text) ==
    LET names == AnalyzeSource(Append(defs, Printed(text[1])))
    IN  IF text = <<>> \/ ClassifyInput(text) # "Expression" \/ Len(text) # 1 \/ ~names.ok THEN NoHint
        ELSE names.names[text[1].name]

-----------------------------------------------------------------------------
(* The session in the user's mind.                                         *)

InMind(text) ==
    LET run == Attempt(world.state, AppendedSource(world.lets, text), AppendedSource(<<>>, text))
        ok  == IsProgram(text) /\ run.ok
    IN  [ok |-> ok, out |-> run.out,
         world |-> IF ~ok THEN world
                   ELSE [state |-> run, lets |-> world.lets \o Declarations(text)]]

\* Nothing is lost with what is dropped, and nothing seen again with what is kept.
CanReplay(text) ==
    \A i \in DOMAIN text :
        /\ text[i].stmt = "expr" => text[i].does # "bump"
        /\ text[i].stmt = "let" => ~text[i].prints

CanReplayFile(file) == \A i \in DOMAIN file : file[i].stmt = "let" /\ ~file[i].prints

-----------------------------------------------------------------------------

NotInHistory == 0
Blank == <<>>       \* an empty line, or blanks only

ReplIdle ==
    /\ defs = <<>> /\ input = Blank /\ history = <<>> /\ history_cursor = NotInHistory
    /\ draft_before_history = Blank /\ type_hint = NoHint /\ hints_dirty = FALSE
    /\ last_output = <<>> /\ expected = <<>> /\ replayable = TRUE
    /\ world = [state |-> NewLuaState, lets |-> <<>>]

\* ReplSession::new and App::new
ReplInit ==
    /\ \E file \in ReplFiles :
          /\ defs = Declarations(file)
          /\ world = [state |-> Execute(NewLuaState, file),
                      lets |-> Declarations(file)]
          /\ replayable = CanReplayFile(file)
    /\ input = Blank /\ history = <<>> /\ history_cursor = NotInHistory
    /\ draft_before_history = Blank /\ type_hint = NoHint /\ hints_dirty = TRUE
    /\ last_output = <<>> /\ expected = <<>>

UnchangedSession == UNCHANGED <<defs, last_output, world, expected, replayable>>

\* The loop of terminal::run: hints are brought up to date, then an event is read.
UpdateHints ==
    /\ hints_dirty
    /\ type_hint' = HintFor(input)
    /\ hints_dirty' = FALSE
    /\ UNCHANGED <<input, history, history_cursor, draft_before_history>>
    /\ UnchangedSession

\* insert_char, insert_newline, Backspace and Delete
Edit(text) ==
    /\ ~hints_dirty
    /\ input' = text
    /\ history_cursor' = NotInHistory
    /\ hints_dirty' = TRUE
    /\ UNCHANGED <<history, draft_before_history, type_hint>>
    /\ UnchangedSession

ApplyHistoryIndex(i) ==
    history_cursor' = i /\ input' = history[i] /\ hints_dirty' = TRUE

RecallOlder ==
    /\ ~hints_dirty
    /\ history # <<>>
    /\ draft_before_history' = IF history_cursor = NotInHistory THEN input ELSE draft_before_history
    /\ ApplyHistoryIndex(CASE history_cursor = NotInHistory -> Len(history)
                           [] history_cursor = 1 -> 1
                           [] OTHER -> history_cursor - 1)
    /\ UNCHANGED <<history, type_hint>>
    /\ UnchangedSession

RecallNewer ==
    /\ ~hints_dirty
    /\ history_cursor # NotInHistory
    /\ \/ /\ history_cursor = Len(history)
          /\ history_cursor' = NotInHistory
          /\ input' = draft_before_history
          /\ hints_dirty' = TRUE
       \/ /\ history_cursor < Len(history)
          /\ ApplyHistoryIndex(history_cursor + 1)
    /\ UNCHANGED <<history, draft_before_history, type_hint>>
    /\ UnchangedSession

\* App::submit, ReplSession::eval and the Commit arm of the loop.
Submit ==
    /\ ~hints_dirty
    /\ input # Blank
    /\ Len(history) < MaxSubmits
    /\ LET run  == Evaluation(input)
           mind == InMind(input)
       IN  /\ defs' = IF run.ok THEN run.kept ELSE defs
           /\ last_output' = IF run.ok THEN run.out ELSE ErrorText
           /\ world' = mind.world
           /\ expected' = IF mind.ok THEN mind.out ELSE ErrorText
           /\ replayable' = (replayable /\ (run.ok => CanReplay(input)))
    /\ history' = Append(history, input)
    /\ history_cursor' = NotInHistory
    /\ draft_before_history' = Blank
    /\ input' = Blank
    /\ hints_dirty' = TRUE
    /\ UNCHANGED type_hint

ReplNext ==
    \/ UpdateHints
    \/ \E text \in Inputs : Edit(text)
    \/ RecallOlder
    \/ RecallNewer
    \/ Submit

ReplSpec == ReplInit /\ [][ReplNext]_replVars

-----------------------------------------------------------------------------

(* Replaying the kept source gives the session the user has in mind: the same
   output for every input, errors included, and the same values afterwards.
   Excepted are sessions in which an accepted input assigns inside of an
   expression (dropped with it), prints while defining (seen again with every
   later input), or that began with a file that assigns at the top level
   (is_persistent_repl_expr, source_without_transient_repl_exprs). *)
ReplayIsTheSession ==
    replayable =>
        /\ last_output = expected
        /\ Execute(NewLuaState, defs).values = world.state.values

=============================================================================
