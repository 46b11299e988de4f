------------------------------- MODULE Recovery -------------------------------
(***************************************************************************)
(* Error recovery of the collecting inference of one module:               *)
(* infer_program_collecting, infer_top_level_statements_collecting and      *)
(* infer_test_block_collecting, with the sets of names of recovery.rs.     *)
(*                                                                         *)
(* A program is a sequence of top-level statements.  What inference finds   *)
(* wrong in a statement by itself is given with it (`fault`); what the     *)
(* names it mentions stand for is decided by the environment at that point. *)
(* Programs are well scoped: every name a statement mentions was declared, *)
(* so an unbound name is always the consequence of another error.  A       *)
(* statement is denoted by its position <<i, k>>: k is 0 at the top level   *)
(* and the place in the block for a statement of a test block.             *)
(***************************************************************************)
EXTENDS Integers, Sequences, FiniteSets

CONSTANTS
    Name,
    Operator,         \* the names that are only mentioned as infix operators
    MaxStatements,    \* bound on a program without a test block
    MaxWithTest,      \* bound on a program with one
    MaxBody           \* bound on the statements of a test block

ASSUME RecoveryAssumption ==
    /\ IsFiniteSet(Name)
    /\ Operator \subseteq Name
    /\ {MaxStatements, MaxWithTest, MaxBody} \subseteq Nat

AtMostOne == {S \in SUBSET Name : Cardinality(S) <= 1}

\* A let may bind nothing (a wildcard or an expression statement).  An operator
\* is bound by an op statement and by nothing else.
Simple ==
    {s \in [kind : {"let", "fn", "op", "extern"}, binds : AtMostOne, refs : SUBSET Name,
            fault : BOOLEAN, body : {<<>>}] :
        /\ s.kind # "let" => s.binds # {}
        /\ s.kind = "extern" => s.refs = {}
        /\ IF s.kind = "op" THEN s.binds \subseteq Operator ELSE s.binds \intersect Operator = {}}

TestBlock ==
    LET lets == {s \in Simple : s.kind = "let"}
    IN  [kind : {"test"}, binds : {{}}, refs : {{}}, fault : {FALSE},
         body : UNION {[1 .. n -> lets] : n \in 1 .. MaxBody}]

\* What a statement mentions: a function's own name is its own, and a name
\* bound earlier in the same test block is the block's.
Mentioned(s) ==
    CASE s.kind \in {"fn", "op"} -> s.refs \ s.binds
      [] s.kind = "test" -> UNION {s.body[k].refs \ UNION {s.body[j].binds : j \in 1 .. (k - 1)}
                                      : k \in DOMAIN s.body}
      [] OTHER -> s.refs

-----------------------------------------------------------------------------

VARIABLES
    program,
    phase,         \* "externs", "statements" or "done"
    at,            \* the statement inference is at
    env,           \* the position of the definition each bound name stands for
    unavailable,   \* CollectedNames of the module
    inside,        \* 0, or the place in the test block inference is in
    test,          \* test_env and unavailable of that test block
    snapshot,      \* the environments of the InferSnapshot that is active
    succeeded,     \* the positions of the statements that took effect
    diagnostics,   \* the positions of the statements with a diagnostic
    resolved       \* history: what the names of a statement stood for

recoveryVars == <<program, phase, at, env, unavailable, inside, test, snapshot,
                  succeeded, diagnostics, resolved>>

NoTest == [env |-> <<>>, unavailable |-> {}]

At(position) ==
    IF position[2] = 0 THEN program[position[1]] ELSE program[position[1]].body[position[2]]

Positions ==
    UNION {{<<i, k>> : k \in 0 .. Len(program[i].body)} : i \in DOMAIN program}

\* The definition that a name stands for in the statement at a position, by the
\* scoping of the language: the latest one before it or else an extern, wherever
\* it stands.  <<0, 0>> when there is none.
Definition(position, name) ==
    LET binds    == {p \in Positions : name \in At(p).binds}
        inBlock  == {p \in binds : p[1] = position[1] /\ 0 < p[2] /\ p[2] < position[2]}
        earlier  == {p \in binds : p[1] < position[1] /\ p[2] = 0 /\ At(p).kind # "extern"}
        externs  == {p \in binds : At(p).kind = "extern"}
        latest(S) == CHOOSE p \in S : \A q \in S : q[1] < p[1] \/ (q[1] = p[1] /\ q[2] <= p[2])
    IN  IF inBlock # {} THEN latest(inBlock)
        ELSE IF earlier # {} THEN latest(earlier)
        ELSE IF externs # {} THEN latest(externs)
        ELSE <<0, 0>>

\* Every name is declared, and by one extern at most.
WellFormed ==
    /\ \A p \in Positions : \A name \in Mentioned(At(p)) : Definition(p, name) # <<0, 0>>
    /\ \A i, j \in DOMAIN program :
           (program[i].kind = "extern" /\ program[j].kind = "extern" /\ i # j)
               => program[i].binds # program[j].binds

RecoveryIdle ==
    /\ program = <<>> /\ phase = "externs" /\ at = 1 /\ env = <<>> /\ unavailable = {}
    /\ inside = 0 /\ test = NoTest /\ snapshot = <<>>
    /\ succeeded = {} /\ diagnostics = {} /\ resolved = <<>>

\* At most one statement is a test block.
RecoveryInit ==
    /\ \/ \E n \in 1 .. MaxStatements : program \in [1 .. n -> Simple]
       \/ \E n \in 1 .. MaxWithTest : \E i \in 1 .. n, block \in TestBlock :
              \E others \in [(1 .. n) \ {i} -> Simple] :
                  program = [j \in 1 .. n |-> IF j = i THEN block ELSE others[j]]
    /\ WellFormed
    /\ phase = "externs"
    /\ at = 1
    /\ env = <<>>
    /\ unavailable = {}
    /\ inside = 0
    /\ test = NoTest
    /\ snapshot = <<>>
    /\ succeeded = {}
    /\ diagnostics = {}
    /\ resolved = <<>>

-----------------------------------------------------------------------------

BindNames(e, position) ==
    [n \in DOMAIN e \union At(position).binds |->
        IF n \in At(position).binds THEN position ELSE e[n]]

\* add_constructors_and_externs_collecting, for one statement.
AddExtern ==
    /\ phase = "externs" /\ at <= Len(program)
    /\ at' = at + 1
    /\ CASE program[at].kind # "extern" -> UNCHANGED <<env, unavailable, diagnostics>>
         [] program[at].kind = "extern" /\ program[at].fault ->
                /\ unavailable' = unavailable \union program[at].binds
                /\ diagnostics' = diagnostics \union {<<at, 0>>}
                /\ UNCHANGED env
         [] OTHER ->
                /\ env' = BindNames(env, <<at, 0>>)
                /\ UNCHANGED <<unavailable, diagnostics>>
    /\ UNCHANGED <<program, phase, inside, test, snapshot, succeeded, resolved>>

EndExterns ==
    /\ phase = "externs" /\ at > Len(program)
    /\ phase' = "statements"
    /\ at' = 1
    /\ UNCHANGED <<program, env, unavailable, inside, test, snapshot, succeeded,
                   diagnostics, resolved>>

-----------------------------------------------------------------------------

\* The statement that is looked at, and the loop's own state: infer_test_block_
\* collecting runs the same loop over its own copy of the environment and its
\* own, empty, set of unavailable names.
Here == <<at, inside>>
Current == At(Here)
CurrentEnv == IF inside > 0 THEN test.env ELSE env
CurrentUnavailable == IF inside > 0 THEN test.unavailable ELSE unavailable

SetCurrent(e, names) ==
    IF inside > 0
    THEN test' = [env |-> e, unavailable |-> names] /\ UNCHANGED <<env, unavailable>>
    ELSE env' = e /\ unavailable' = names /\ UNCHANGED test

ToNextStatement ==
    IF inside > 0 THEN inside' = inside + 1 /\ UNCHANGED at
                  ELSE at' = at + 1 /\ UNCHANGED inside

\* stmt_referenced_names: infix operators are not among them.
Refs(s) == Mentioned(s) \ Operator

\* An extern whose name is unavailable is passed over; any other statement starts.
ExternUnavailable(s) == s.kind = "extern" /\ unavailable \intersect s.binds # {}

Starts ==
    /\ phase = "statements" /\ snapshot = <<>>
    /\ at <= Len(program)
    /\ inside > 0 => inside <= Len(program[at].body)
    /\ ~ExternUnavailable(Current)

SkipUnavailableExtern ==
    /\ phase = "statements" /\ snapshot = <<>> /\ inside = 0
    /\ at <= Len(program) /\ ExternUnavailable(program[at])
    /\ at' = at + 1
    /\ UNCHANGED <<program, phase, env, unavailable, inside, test, snapshot, succeeded,
                   diagnostics, resolved>>

\* A statement that mentions an unavailable name is skipped silently; what it
\* would bind is unavailable too.
Skips(s) == CurrentUnavailable \intersect Refs(s) # {}

\* Mutant: what a skipped statement would bind stays available.
Skip_StaysAvailable ==
    /\ Starts /\ Skips(Current)
    /\ SetCurrent(CurrentEnv, CurrentUnavailable)
    /\ ToNextStatement
    /\ UNCHANGED <<program, phase, snapshot, succeeded, diagnostics, resolved>>

Skip ==
    /\ Starts /\ Skips(Current)
    /\ SetCurrent(CurrentEnv, CurrentUnavailable \union Current.binds)
    /\ ToNextStatement
    /\ UNCHANGED <<program, phase, snapshot, succeeded, diagnostics, resolved>>

EnterTestBlock ==
    /\ Starts /\ ~Skips(Current) /\ Current.kind = "test"
    /\ inside' = 1
    /\ test' = [env |-> env, unavailable |-> {}]
    /\ UNCHANGED <<program, phase, at, env, unavailable, snapshot, succeeded,
                   diagnostics, resolved>>

LeaveTestBlock ==
    /\ snapshot = <<>> /\ inside > 0 /\ inside > Len(program[at].body)
    /\ succeeded' = IF \E d \in diagnostics : d[1] = at THEN succeeded
                    ELSE succeeded \union {<<at, 0>>}
    /\ inside' = 0
    /\ test' = NoTest
    /\ at' = at + 1
    /\ UNCHANGED <<program, phase, env, unavailable, snapshot, diagnostics, resolved>>

\* The snapshot is taken and infer_stmt runs on the environment itself.  It binds
\* the statement's names, also when it fails afterwards; an extern's are bound.
Infer ==
    /\ Starts /\ ~Skips(Current) /\ Current.kind # "test"
    /\ snapshot' = <<CurrentEnv>>
    /\ resolved' = [p \in DOMAIN resolved \union {Here} |->
                       IF p # Here THEN resolved[p]
                       ELSE [n \in Mentioned(Current) \intersect DOMAIN CurrentEnv |->
                                CurrentEnv[n]]]
    /\ SetCurrent(IF Current.kind = "extern" THEN CurrentEnv ELSE BindNames(CurrentEnv, Here),
                  CurrentUnavailable)
    /\ UNCHANGED <<program, phase, at, inside, succeeded, diagnostics>>

\* infer_stmt returns an error for a fault of the statement and for a name that
\* the environment lacks; an extern's error was found in the pre-pass.
Fails ==
    /\ Current.kind # "extern"
    /\ Current.fault \/ DOMAIN resolved[Here] # Mentioned(Current)

\* Mutant: a redefinition that succeeds does not make its names available again.
Succeed_StillUnavailable ==
    /\ snapshot # <<>> /\ ~Fails
    /\ SetCurrent(CurrentEnv, CurrentUnavailable)
    /\ succeeded' = succeeded \union {Here}
    /\ snapshot' = <<>>
    /\ ToNextStatement
    /\ UNCHANGED <<program, phase, diagnostics, resolved>>

Succeed ==
    /\ snapshot # <<>> /\ ~Fails
    /\ SetCurrent(CurrentEnv, CurrentUnavailable \ Current.binds)
    /\ succeeded' = succeeded \union {Here}
    /\ snapshot' = <<>>
    /\ ToNextStatement
    /\ UNCHANGED <<program, phase, diagnostics, resolved>>

\* Mutant: the names of a failed statement are dropped, not restored.
Fail_DropsNames ==
    /\ snapshot # <<>> /\ Fails
    /\ SetCurrent([n \in DOMAIN CurrentEnv \ Current.binds |-> CurrentEnv[n]],
                  CurrentUnavailable \union Current.binds)
    /\ diagnostics' = diagnostics \union {Here}
    /\ snapshot' = <<>>
    /\ ToNextStatement
    /\ UNCHANGED <<program, phase, succeeded, resolved>>

Fail ==
    /\ snapshot # <<>> /\ Fails
    /\ SetCurrent(snapshot[1], CurrentUnavailable \union Current.binds)
    /\ diagnostics' = diagnostics \union {Here}
    /\ snapshot' = <<>>
    /\ ToNextStatement
    /\ UNCHANGED <<program, phase, succeeded, resolved>>

Finish ==
    /\ phase = "statements" /\ at > Len(program)
    /\ phase' = "done"
    /\ UNCHANGED <<program, at, env, unavailable, inside, test, snapshot, succeeded,
                   diagnostics, resolved>>

RecoveryNext ==
    \/ AddExtern \/ EndExterns \/ SkipUnavailableExtern \/ Skip
    \/ EnterTestBlock \/ LeaveTestBlock \/ Infer \/ Succeed \/ Fail \/ Finish

RecoverySpec == RecoveryInit /\ [][RecoveryNext]_recoveryVars

-----------------------------------------------------------------------------

Done == phase = "done"

\* A definition that took effect.  A declared extern did unless its type is bad.
Sound(p) == IF At(p).kind = "extern" THEN ~At(p).fault ELSE p \in succeeded

\* Everything a statement depends on took effect.  A test block's statement also
\* depends on what the whole block mentions: the block is inferred or skipped as one.
DependsOnSound(p) ==
    \A q \in {p, <<p[1], 0>>} : \A n \in Mentioned(At(q)) : Sound(Definition(q, n))

\* One root cause gives one diagnostic (infer.rs, "preventing one root-cause error
\* from cascading into a wave of dependent diagnostics"): a statement whose only
\* fault is to depend on a failed one is never reported.
NoCascade == \A p \in diagnostics : At(p).fault

\* And none is swallowed: a faulty statement is reported unless it is skipped for
\* something it depends on.
FaultsReported ==
    Done => \A p \in Positions :
                (At(p).fault /\ (At(p).kind = "extern" \/ DependsOnSound(p))) => p \in diagnostics

\* What may stand for a name after the module: the definitions of it that took
\* effect.  A test block's are its own.
Survivors(name) == {p \in Positions : p[2] = 0 /\ name \in At(p).binds /\ Sound(p)}

\* A statement prevails over the externs, wherever they stand, and over what is
\* before it.
Prevails(p, q) ==
    \/ At(q).kind = "extern"
    \/ At(p).kind # "extern" /\ q[1] <= p[1]

\* The environment that the module exports binds the names that a statement which
\* took effect defines, each to the last such definition, and nothing else: whatever
\* fails, is skipped or is bound in a test block, no survivor is lost or shadowed.
EnvIsExact ==
    Done => /\ \A n \in DOMAIN env : env[n] \in Survivors(n)
            /\ \A n \in Name : \A p \in Survivors(n) :
                   n \in DOMAIN env /\ Prevails(env[n], p)
=============================================================================
