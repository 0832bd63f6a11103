----------------------------- MODULE RingQueue -----------------------------
(***************************************************************************)
(* The ready queue of FIFOS, FileSystem-v3/queue.c: a ring of slots, of    *)
(* which one always stays free so that a full ring differs from an empty   *)
(* one.  The functions take the ring, a record, and return the next one.   *)
(***************************************************************************)
EXTENDS Integers

NIL == 0                         \* NULL: no element

\* Seeded fault: no slot more than the elements it is to hold.
init_queue_tight(size) ==
  [elements |-> [i \in 0 .. size - 1 |-> NIL], size |-> size, head |-> 0, tail |-> 0]

init_queue(size) ==
  [elements |-> [i \in 0 .. size |-> NIL], size |-> size + 1, head |-> 0, tail |-> 0]

queue_isFull(q)  == (q.tail + 1) % q.size = q.head
queue_isEmpty(q) == q.head = q.tail

\* Seeded fault: the ring is not looked at before the tail moves.
queue_add_unchecked(q, e) ==
  [q EXCEPT !.elements[q.tail] = e, !.tail = (q.tail + 1) % q.size]

(* A full ring refuses the element: the result 0 of the C function is the  *)
(* unchanged ring.                                                         *)
queue_add(q, e) ==
  IF queue_isFull(q)
  THEN q
  ELSE [q EXCEPT !.elements[q.tail] = e, !.tail = (q.tail + 1) % q.size]

(* queue_poll of a ring that is not empty: the element, and the ring.      *)
Front(q)  == q.elements[q.head]

\* Seeded fault: the head stays.
Polled_again(q) == q

Polled(q) == [q EXCEPT !.head = (q.head + 1) % q.size]

(* The elements in the order in which they will be polled. *)
Length(q) == (q.tail - q.head + q.size) % q.size
Items(q)  == [i \in 1 .. Length(q) |-> q.elements[(q.head + i - 1) % q.size]]

=============================================================================
