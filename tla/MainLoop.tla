------------------------------- MODULE MainLoop -------------------------------
(***************************************************************************)
(* When the language server validates: main_loop of hern-lsp/src/lib.rs.   *)
(* It waits for a message until the debounce timer of the pending          *)
(* validations runs out.  A timeout flushes a batch; so does a notification *)
(* that is handled after the timer ran out; a request never does.  The      *)
(* client may keep the channel full for ever.                              *)
(*                                                                         *)
(* What a notification does to the queue is given by LspServer; here it is *)
(* any extension, as for a change, or any removal, as for a close.         *)
(***************************************************************************)
EXTENDS PendingValidations

VARIABLES
    channel,   \* the message that is waiting: "none", "request", "notification"
    pending,   \* pending_validations
    owed,      \* history: the documents affected and not validated or closed since
    loop       \* history: what the last iteration of the loop was

vars == <<channel, pending, owed, loop>>

(* The types; the queue never lists a document twice. *)
TypeOK ==
    /\ channel \in {"none", "request", "notification"}
    /\ pending \in Queue
    /\ IsInjective(pending.recent_first)
    /\ owed \subseteq Doc
    /\ loop \in {"start", "request", "notification", "flush"}

Init ==
    /\ channel = "none"
    /\ pending = EmptyQueue
    /\ owed = {}
    /\ loop = "start"

-----------------------------------------------------------------------------

\* The client: no fairness, it may stop or never stop.
Send(message) ==
    /\ channel = "none"
    /\ channel' = message
    /\ UNCHANGED <<pending, owed, loop>>

\* The debounce interval passes.
TimerRunsOut ==
    /\ pending.first_queued = "fresh"
    /\ pending' = [pending EXCEPT !.first_queued = "due"]
    /\ UNCHANGED <<channel, owed, loop>>

HandleRequest ==
    /\ channel = "request"
    /\ channel' = "none"
    /\ loop' = "request"
    /\ UNCHANGED <<pending, owed>>

\* flush_pending_validations: the batch is validated before the next message.
FlushFrom(queue, due) ==
    /\ pending' = Drained(queue)
    /\ owed' = due \ ToSet(Batch(queue))
    /\ loop' = "flush"

\* Mutant: the timer is looked at when the loop waits, and only then.
AfterNotification_NeverFlushes(queue, due) ==
    /\ pending' = queue
    /\ owed' = due
    /\ loop' = "notification"

\* The end of the notification branch: should_flush.
AfterNotification(queue, due) ==
    \/ /\ queue.first_queued = "due"
       /\ FlushFrom(queue, due)
    \/ /\ queue.first_queued # "due"
       /\ pending' = queue
       /\ owed' = due
       /\ loop' = "notification"

\* didChange, didOpen, didChangeWatchedFiles: these entries are affected.
HandleAffected(S) ==
    /\ channel = "notification"
    /\ channel' = "none"
    /\ \E queue \in Extended(pending, S) : AfterNotification(queue, owed \union S)

\* didClose: the closed document and the entries it validates itself.
HandleClosed(S) ==
    /\ channel = "notification"
    /\ channel' = "none"
    /\ AfterNotification(Removed(pending, S), owed \ S)

\* RecvTimeoutError::Timeout, while nothing is waiting in the channel.  The loop
\* also times out, a debounce interval later, when no timer is running.
Timeout ==
    /\ channel = "none"
    /\ pending.first_queued # "fresh"
    /\ FlushFrom(pending, owed)
    /\ UNCHANGED channel

Next ==
    \/ \E message \in {"request", "notification"} : Send(message)
    \/ TimerRunsOut
    \/ HandleRequest
    \/ \E S \in SUBSET Doc : HandleAffected(S) \/ HandleClosed(S)
    \/ Timeout

\* The loop handles what is in the channel and time passes; the client need not
\* do anything.  A Timeout is not fair when messages keep coming.
Fairness ==
    /\ WF_vars(TimerRunsOut)
    /\ WF_vars(HandleRequest)
    /\ WF_vars(\E S \in SUBSET Doc : HandleAffected(S) \/ HandleClosed(S))
    /\ WF_vars(Timeout)

Spec == Init /\ [][Next]_vars /\ Fairness

-----------------------------------------------------------------------------
(* Properties.                                                             *)

(* The two views of the queue and its timer agree: recent_first lists exactly
   the entries, each once, and the timer runs if and only if something is pending. *)
QueueConsistent ==
    /\ TypeOK
    /\ ToSet(pending.recent_first) = pending.entries
    /\ pending.first_queued = "none" <=> pending.entries = {}

(* Every document that was affected and has been neither validated nor closed
   since is still queued: no flush, close or reordering loses a validation. *)
NoValidationLost == owed \subseteq pending.entries

(* A stream of notifications cannot put the diagnostics off for ever: unless
   requests keep coming without end, what is pending leads to a flush. *)
EditsCannotPostponeFlush ==
    (<>[](channel # "request")) =>
        (pending.entries # {} ~> (loop = "flush" \/ pending.entries = {}))

(* Once the client falls silent, everything that is pending gets validated,
   however many batches that takes. *)
SilenceDrainsQueue ==
    (<>[](channel = "none")) => <>[](pending.entries = {})
=============================================================================
