---------------------------- MODULE BoundedFifo ----------------------------
(* What a queue of FIFOS promises (queue.h): first in, first out, for up to *)
(* Capacity elements; add says whether it took the element, poll returns    *)
(* the oldest element or NULL.                                              *)
EXTENDS Integers, Sequences

CONSTANTS Element, Capacity, NoElement

VARIABLES
  items,    \* the elements, oldest first
  result    \* what the last call returned

Add(e) ==
  \/ Len(items) < Capacity /\ items' = Append(items, e) /\ result' = 1
  \/ Len(items) = Capacity /\ UNCHANGED items /\ result' = 0

Poll ==
  \/ items = <<>> /\ UNCHANGED items /\ result' = NoElement
  \/ items # <<>> /\ items' = Tail(items) /\ result' = Head(items)

Init == items = <<>> /\ result = NoElement
Next == (\E e \in Element : Add(e)) \/ Poll
Spec == Init /\ [][Next]_<<items, result>>

=============================================================================
