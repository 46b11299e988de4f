----------------------------- MODULE Containers -----------------------------
(***************************************************************************)
(* The prelude's Heap and Queue (std/prelude.hern), whose operations are Lua  *)
(* code: a heap is an array of pairs of a priority and a value in which no    *)
(* item is below its parent, a queue is a table with the positions of its    *)
(* head and its tail.  Their promise is that of AbstractContainers.          *)
(***************************************************************************)
EXTENDS Integers, FiniteSets, SequencesExt

CONSTANTS
    Priorities, Values,
    MaxItems              \* bound: the items that are ever in the heap or the queue

ASSUME PrioritiesAssumption == Priorities \subseteq Int

VARIABLES
    heap,      \* the array of pairs
    queue,     \* the table: its cells by their positions, its head and its tail
    returned   \* what the last call returned

containerVars == <<heap, queue, returned>>

Nothing == [got |-> "nothing"]
Result(x) == [got |-> "one", one |-> x]

-----------------------------------------------------------------------------
(* The heap.                                                                 *)

Before(h, i, j) == h[i][1] < h[j][1]
Swapped(h, i, j) == [h EXCEPT ![i] = h[j], ![j] = h[i]]

\* A turn of the loop of __heap_push: an item that is before its parent changes places
\* with it.  An item that is not is where the loop ends, and further turns do nothing.
Raised(s) ==
    LET parent == s.at \div 2
    IN  IF s.at > 1 /\ Before(s.items, s.at, parent)
        THEN [items |-> Swapped(s.items, s.at, parent), at |-> parent] ELSE s

\* The loop takes fewer turns than there are items.
SiftUp(h, i) ==
    LET after[turn \in 0 .. Len(h)] ==
            IF turn = 0 THEN [items |-> h, at |-> i] ELSE Raised(after[turn - 1])
    IN  after[Len(h)].items

\* Only the left child.
SmallestOf_Left(h, i) == IF 2 * i <= Len(h) /\ Before(h, 2 * i, i) THEN 2 * i ELSE i

SmallestOf(h, i) ==
    LET left == 2 * i
        one  == IF left <= Len(h) /\ Before(h, left, i) THEN left ELSE i
    IN  IF left + 1 <= Len(h) /\ Before(h, left + 1, one) THEN left + 1 ELSE one

\* A turn of the loop of __heap_pop, the last one with itself.
Lowered(s) ==
    LET smallest == SmallestOf(s.items, s.at)
    IN  [items |-> Swapped(s.items, s.at, smallest), at |-> smallest]

SiftDown(h, i) ==
    LET after[turn \in 0 .. Len(h)] ==
            IF turn = 0 THEN [items |-> h, at |-> i] ELSE Lowered(after[turn - 1])
    IN  after[Len(h)].items

HeapPush(h, p, x) == SiftUp(Append(h, <<p, x>>), Len(h) + 1)

\* The last item takes the place of the first.  Nothing is below the last one.
HeapPop(h) == IF Len(h) <= 1 THEN <<>> ELSE SiftDown([Front(h) EXCEPT ![1] = Last(h)], 1)

-----------------------------------------------------------------------------
(* The queue.                                                                *)

NewQueue == [cells |-> <<>>, head |-> 1, tail |-> 0]

QueueSize(q) == q.tail + 1 - q.head
QueueIsEmpty(q) == q.head > q.tail

QueuePush(q, x) ==
    [cells |-> [i \in DOMAIN q.cells \union {q.tail + 1} |-> IF i = q.tail + 1 THEN x ELSE q.cells[i]],
     head  |-> q.head,
     tail  |-> q.tail + 1]

QueuePop(q) ==
    [cells |-> [i \in DOMAIN q.cells \ {q.head} |-> q.cells[i]],
     head  |-> q.head + 1,
     tail  |-> q.tail]

-----------------------------------------------------------------------------
ContainersIdle == heap = <<>> /\ queue = NewQueue /\ returned = Nothing
ContainersInit == ContainersIdle

PushHeap(p, x) ==
    /\ Len(heap) < MaxItems
    /\ heap' = HeapPush(heap, p, x) /\ returned' = Nothing /\ UNCHANGED queue

\* The first item of an empty heap is Lua's nil.
PopHeap ==
    /\ returned' = IF heap = <<>> THEN Nothing ELSE Result(heap[1])
    /\ heap' = HeapPop(heap) /\ UNCHANGED queue

PushQueue(x) ==
    /\ queue.tail < MaxItems
    /\ queue' = QueuePush(queue, x) /\ returned' = Nothing /\ UNCHANGED heap

PopQueue ==
    /\ IF QueueIsEmpty(queue) THEN returned' = Nothing /\ UNCHANGED queue
       ELSE returned' = Result(queue.cells[queue.head]) /\ queue' = QueuePop(queue)
    /\ UNCHANGED heap

ContainersNext ==
    \/ \E p \in Priorities, x \in Values : PushHeap(p, x)
    \/ PopHeap
    \/ \E x \in Values : PushQueue(x)
    \/ PopQueue

ContainersSpec == ContainersInit /\ [][ContainersNext]_containerVars

-----------------------------------------------------------------------------
\* How often each item is in the array.
Copies(h) ==
    [item \in Priorities \X Values |-> Cardinality({i \in DOMAIN h : h[i] = item})]

\* The queue's values, the oldest first.
Line(q) == [i \in 1 .. QueueSize(q) |-> q.cells[q.head + i - 1]]

Promised == INSTANCE AbstractContainers WITH
    waiting <- Copies(heap), line <- Line(queue), given <- returned

\* Whatever is pushed and popped in whatever order, the heap gives back what was pushed
\* with the lowest priority, every item as often as it was pushed and no other, and the
\* queue what was pushed first, although both move their items and positions around.
ImplementsContainers == Promised!Spec
=============================================================================
