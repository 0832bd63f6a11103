----------------------------- MODULE ReadyQueue -----------------------------
(* The ring of RingQueue as a component of its own, under calls of add and  *)
(* poll in any order, and the bounded FIFO that it implements.              *)
EXTENDS RingQueue, Sequences

CONSTANTS
  Element,    \* what is put into the queue: pointers to threads
  Capacity    \* the argument of init_queue

ASSUME ReadyQueueAssumption ==
  Capacity \in Nat \ {0} /\ Element \subseteq Nat \ {NIL}

VARIABLES ready_queue, result

vars == <<ready_queue, result>>

add(e) ==
  /\ ready_queue' = queue_add(ready_queue, e)
  /\ result' = IF queue_isFull(ready_queue) THEN 0 ELSE 1

poll ==
  \/ queue_isEmpty(ready_queue) /\ UNCHANGED ready_queue /\ result' = NIL
  \/ /\ ~queue_isEmpty(ready_queue)
     /\ ready_queue' = Polled(ready_queue)
     /\ result' = Front(ready_queue)

Init == ready_queue = init_queue(Capacity) /\ result = NIL
Next == (\E e \in Element : add(e)) \/ poll
Spec == Init /\ [][Next]_vars

Abstract == INSTANCE BoundedFifo WITH items <- Items(ready_queue), NoElement <- NIL

(* queue_add and queue_poll are a FIFO for as many elements as init_queue  *)
(* was asked for, wherever in the ring head and tail are: the slot that    *)
(* stays free never costs an element, and no stale slot is polled.         *)
ImplementsFifo == Abstract!Spec

=============================================================================
