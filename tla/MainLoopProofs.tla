---------------------------- MODULE MainLoopProofs ----------------------------
(***************************************************************************)
(* The queue stays consistent and no validation is lost by the main loop,  *)
(* for any number of documents and any size of batch:                      *)
(*                                                                         *)
(*   QueueStaysConsistent   QueueConsistent                                *)
(*   ValidationsAreKept     NoValidationLost                               *)
(*                                                                         *)
(* What the operations of the queue do is proved in PendingProofs; here    *)
(* every step of the loop is one of them.                                  *)
(***************************************************************************)
EXTENDS MainLoop, PendingProofs

\* The inductive invariant: the queue is as its operations leave it, and every
\* document that is owed a validation is in it.
LoopInv ==
    /\ channel \in {"none", "request", "notification"}
    /\ loop \in {"start", "request", "notification", "flush"}
    /\ Consistent(pending)
    /\ owed \subseteq pending.entries

\* A flush validates what it takes from the queue, and what it leaves stays queued.
LEMMA FlushKeeps ==
    ASSUME NEW queue, Consistent(queue), NEW due, due \subseteq queue.entries,
           FlushFrom(queue, due)
    PROVE  Consistent(pending') /\ owed' \subseteq pending'.entries /\ loop' = "flush"
BY DrainedIs DEF FlushFrom

\* Neither does the end of a notification lose anything.
LEMMA AfterNotificationKeeps ==
    ASSUME NEW queue, Consistent(queue), NEW due, due \subseteq queue.entries,
           AfterNotification(queue, due)
    PROVE  /\ Consistent(pending')
           /\ owed' \subseteq pending'.entries
           /\ loop' \in {"flush", "notification"}
BY FlushKeeps DEF AfterNotification

LEMMA InitLoop == Init => LoopInv
BY EmptyIsConsistent DEF Init, LoopInv, EmptyQueue

LEMMA StepLoop == LoopInv /\ [Next]_vars => LoopInv'
<1> SUFFICES ASSUME LoopInv, [Next]_vars
             PROVE  LoopInv'
    OBVIOUS
<1> USE DEF LoopInv
<1>1. ASSUME NEW message \in {"request", "notification"}, Send(message)
      PROVE  LoopInv'
    BY <1>1 DEF Send
<1>2. CASE TimerRunsOut
  <2>1. pending' = [pending EXCEPT !.first_queued = "due"]
      BY <1>2 DEF TimerRunsOut
  <2>2. pending \in Queue
      BY DEF Consistent
  <2>3. pending' \in Queue /\ pending'.entries = pending.entries
        /\ pending'.recent_first = pending.recent_first /\ pending'.first_queued = "due"
      BY <2>1, <2>2 DEF Queue, Timer
  <2>4. pending.entries # {}
      BY <1>2 DEF TimerRunsOut, Consistent
  <2>5. Consistent(pending')
      BY <2>3, <2>4 DEF Consistent
  <2> QED
      BY <1>2, <2>3, <2>5 DEF TimerRunsOut
<1>3. CASE HandleRequest
    BY <1>3 DEF HandleRequest
<1>4. ASSUME NEW S \in SUBSET Doc, HandleAffected(S)
      PROVE  LoopInv'
  <2>1. PICK queue \in Extended(pending, S) : AfterNotification(queue, owed \union S)
      BY <1>4 DEF HandleAffected
  <2>2. Consistent(queue) /\ owed \union S \subseteq queue.entries
      BY <2>1, ExtendedIs
  <2> QED
      BY <1>4, <2>1, <2>2, AfterNotificationKeeps DEF HandleAffected
<1>5. ASSUME NEW S \in SUBSET Doc, HandleClosed(S)
      PROVE  LoopInv'
  <2>1. Consistent(Removed(pending, S)) /\ owed \ S \subseteq Removed(pending, S).entries
      BY RemovedIs
  <2> QED
      BY <1>5, <2>1, AfterNotificationKeeps DEF HandleClosed
<1>6. CASE Timeout
    BY <1>6, FlushKeeps DEF Timeout
<1>7. CASE UNCHANGED vars
    BY <1>7 DEF vars
<1> QED
    BY <1>1, <1>2, <1>3, <1>4, <1>5, <1>6, <1>7 DEF Next

LEMMA LoopInvariant == Spec => []LoopInv
BY InitLoop, StepLoop, PTL DEF Spec

(* The two views of the queue and its timer always agree: recent_first lists the
   entries, each once, and the timer runs exactly when something is pending (insert,
   extend, remove and drain_next_batch of PendingValidations in hern-lsp/src/lib.rs). *)
THEOREM QueueStaysConsistent == Spec => []QueueConsistent
<1>1. LoopInv => QueueConsistent
  <2> SUFFICES ASSUME LoopInv
               PROVE  QueueConsistent
      OBVIOUS
  <2>1. pending.entries \in SUBSET Doc
      BY QueueFields DEF LoopInv, Consistent
  <2> QED
      BY <2>1 DEF LoopInv, QueueConsistent, TypeOK, Consistent
<1> QED
    BY LoopInvariant, <1>1, PTL

(* A document that is affected stays queued until it is validated or closed, however
   its notifications, closes, timeouts and flushes interleave (main_loop and
   flush_pending_validations in hern-lsp/src/lib.rs). *)
THEOREM ValidationsAreKept == Spec => []NoValidationLost
<1>1. LoopInv => NoValidationLost
    BY DEF LoopInv, NoValidationLost
<1> QED
    BY LoopInvariant, <1>1, PTL
=============================================================================
