------------------------- MODULE AbstractContainers -------------------------
(***************************************************************************)
(* What the prelude's Heap and Queue promise: a bag of values with           *)
(* priorities that gives back one of the lowest, and a line that gives back  *)
(* what waited longest.                                                     *)
(***************************************************************************)
EXTENDS Integers, Sequences

CONSTANTS Priorities, Values

VARIABLES
    waiting,    \* the bag: how many copies there are of each pair of a priority and a value
    line,       \* the values of the queue, the oldest first
    given       \* what the last call returned

Nothing == [got |-> "nothing"]
Given(x) == [got |-> "one", one |-> x]

InBag == {item \in Priorities \X Values : waiting[item] > 0}

Init == waiting = [item \in Priorities \X Values |-> 0] /\ line = <<>> /\ given = Nothing

AddWaiting(p, x) ==
    waiting' = [waiting EXCEPT ![<<p, x>>] = @ + 1] /\ given' = Nothing /\ UNCHANGED line

TakeLowest ==
    /\ \/ InBag = {} /\ given' = Nothing /\ UNCHANGED waiting
       \/ \E item \in InBag :
             /\ \A other \in InBag : item[1] <= other[1]
             /\ given' = Given(item) /\ waiting' = [waiting EXCEPT ![item] = @ - 1]
    /\ UNCHANGED line

JoinLine(x) == line' = Append(line, x) /\ given' = Nothing /\ UNCHANGED waiting

LeaveLine ==
    /\ IF line = <<>> THEN given' = Nothing /\ UNCHANGED line
                      ELSE given' = Given(Head(line)) /\ line' = Tail(line)
    /\ UNCHANGED waiting

Next == \/ \E p \in Priorities, x \in Values : AddWaiting(p, x)
        \/ TakeLowest
        \/ \E x \in Values : JoinLine(x)
        \/ LeaveLine

Spec == Init /\ [][Next]_<<waiting, line, given>>
=============================================================================
