-------------------------- MODULE PendingValidations --------------------------
(***************************************************************************)
(* The queue of validations of hern-lsp (struct PendingValidations in      *)
(* hern-lsp/src/lib.rs): entry documents whose diagnostics are out of date, *)
(* most recently affected first, with a timer that starts when the queue   *)
(* becomes nonempty.  Time is abstracted to whether the debounce interval   *)
(* has passed since then.                                                  *)
(***************************************************************************)
EXTENDS Integers, Sequences, FiniteSets, SequencesExt

CONSTANTS
    Doc,        \* document URIs
    MaxBatch    \* MAX_VALIDATIONS_PER_FLUSH, 4 in the code

ASSUME DocAssumption == IsFiniteSet(Doc)
ASSUME MaxBatchAssumption == MaxBatch \in Nat \ {0}

\* first_queued_at: None, or Some(instant) before or after the debounce.
Timer == {"none", "fresh", "due"}

Queue == [entries : SUBSET Doc, recent_first : Seq(Doc), first_queued : Timer]

EmptyQueue == [entries |-> {}, recent_first |-> <<>>, first_queued |-> "none"]

-----------------------------------------------------------------------------

\* Kept(seq, S)[k] is what the first k members of seq leave when those of S go.
Kept(seq, S) ==
    LET kept[k \in 0 .. Len(seq)] ==
            IF k = 0 THEN <<>>
            ELSE IF seq[k] \in S THEN kept[k - 1]
            ELSE Append(kept[k - 1], seq[k])
    IN  kept

Without(seq, S) == Kept(seq, S)[Len(seq)]

\* insert starts the timer of an empty queue only.
TimerAfterInsert(queue) == IF queue.entries = {} THEN "fresh" ELSE queue.first_queued

\* insert, for each document of a sequence: the last one comes out first.
ExtendedBy(queue, order) ==
    [entries      |-> queue.entries \union ToSet(order),
     recent_first |-> Reverse(order) \o Without(queue.recent_first, ToSet(order)),
     first_queued |-> IF order = <<>> THEN queue.first_queued ELSE TimerAfterInsert(queue)]

\* extend, with the documents of a HashSet: in any order.
Extended(queue, S) == {ExtendedBy(queue, order) : order \in SetToSeqs(S)}

\* Mutant: the document stays in recent_first.
Removed_SetOnly(queue, S) ==
    [queue EXCEPT !.entries = @ \ S,
                  !.first_queued = IF queue.entries \subseteq S THEN "none" ELSE @]

\* remove, for each document of S.
Removed(queue, S) ==
    [entries      |-> queue.entries \ S,
     recent_first |-> Without(queue.recent_first, S),
     first_queued |-> IF queue.entries \subseteq S THEN "none" ELSE queue.first_queued]

\* What drain_next_batch takes from the first k documents that it pops: what is no
\* longer in `entries` is dropped.
Taken(queue) == Kept(queue.recent_first, Doc \ queue.entries)

\* How many it pops: until the batch is full or there are none left.
Popped(queue) ==
    LET taken == Taken(queue)
    IN  CHOOSE n \in 0 .. Len(queue.recent_first) :
            /\ n = Len(queue.recent_first) \/ Len(taken[n]) = MaxBatch
            /\ \A k \in 0 .. (n - 1) : Len(taken[k]) < MaxBatch

Batch(queue) == Taken(queue)[Popped(queue)]

\* Mutant: whatever did not fit in the batch is forgotten.
Drained_ForgetsTheRest(queue) == EmptyQueue

\* Mutant: the batch leaves recent_first but stays among the entries.
Drained_KeepsEntries(queue) ==
    [queue EXCEPT !.recent_first = SubSeq(@, Popped(queue) + 1, Len(@)),
                  !.first_queued = IF queue.entries = {} THEN "none" ELSE "fresh"]

\* drain_next_batch: the timer restarts when something is left.
Drained(queue) ==
    LET left == queue.entries \ ToSet(Batch(queue))
    IN  [entries      |-> left,
         recent_first |-> SubSeq(queue.recent_first, Popped(queue) + 1, Len(queue.recent_first)),
         first_queued |-> IF left = {} THEN "none" ELSE "fresh"]
=============================================================================
