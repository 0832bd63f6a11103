--------------------------- MODULE RingQueueProofs ---------------------------
(***************************************************************************)
(* What the C functions of queue.c do to the sequence of the elements,     *)
(* whose places in the ring wrap around, for a ring of any size; and what  *)
(* they do to the set of the elements, when each is in the ring once, as   *)
(* the threads of FIFOS are.                                               *)
(***************************************************************************)
EXTENDS RingQueue, Sequences, FiniteSetTheorems, FunctionTheorems, TLAPS

(* A ring of n slots, with head and tail on slots of it. *)
Ring(n) == [elements : [0 .. n - 1 -> Nat], size : {n}, head : 0 .. n - 1, tail : 0 .. n - 1]

(* Indices of the ring are reduced once at most.                           *)
LEMMA ModSmall == ASSUME NEW n \in Nat \ {0}, NEW x \in 0 .. n - 1 PROVE x % n = x
  OBVIOUS

(* The same, for an index that has passed the end.                         *)
LEMMA ModLarge == ASSUME NEW n \in Nat \ {0}, NEW x \in n .. 2 * n - 1 PROVE x % n = x - n
  OBVIOUS

(* The place of an index that may have passed the end once.                *)
Slot(n, x) == IF x < n THEN x ELSE x - n

(* How far the tail t is ahead of the head h. *)
Ahead(n, h, t) == IF t < h THEN t - h + n ELSE t - h

(* The tail moves on, and the head does.                                   *)
LEMMA Moves ==
  ASSUME NEW n \in Nat \ {0}, NEW h \in 0 .. n - 1, NEW t \in 0 .. n - 1
  PROVE  /\ Ahead(n, h, t) \in 0 .. n - 1
         /\ Ahead(n, h, t) # n - 1 => Ahead(n, h, Slot(n, t + 1)) = Ahead(n, h, t) + 1
         /\ Ahead(n, h, t) # 0 => Ahead(n, Slot(n, h + 1), t) = Ahead(n, h, t) - 1
  BY DEF Ahead, Slot

(* When the next place of the tail is the head.                            *)
LEMMA FullAhead ==
  ASSUME NEW n \in Nat \ {0}, NEW h \in 0 .. n - 1, NEW t \in 0 .. n - 1
  PROVE  (Slot(n, t + 1) = h) = (Ahead(n, h, t) = n - 1)
  BY DEF Ahead, Slot

(* When head and tail are the same.                                        *)
LEMMA EmptyAhead ==
  ASSUME NEW n \in Nat \ {0}, NEW h \in 0 .. n - 1, NEW t \in 0 .. n - 1
  PROVE  (h = t) = (Ahead(n, h, t) = 0)
  BY DEF Ahead, Slot

(* The place of the element that is added.                                 *)
LEMMA LastPlace ==
  ASSUME NEW n \in Nat \ {0}, NEW h \in 0 .. n - 1, NEW t \in 0 .. n - 1
  PROVE  Slot(n, h + (Ahead(n, h, t) + 1) - 1) = t
  BY DEF Ahead, Slot

(* The places of the elements.                                             *)
LEMMA PlaceOfElement ==
  ASSUME NEW n \in Nat \ {0}, NEW h \in 0 .. n - 1, NEW t \in 0 .. n - 1,
         NEW i \in 1 .. Ahead(n, h, t)
  PROVE  Slot(n, h + i - 1) \in 0 .. n - 1 /\ Slot(n, h + i - 1) # t
  BY DEF Ahead, Slot

(* The same places, counted from the next head.                            *)
LEMMA PlaceFromNextHead ==
  ASSUME NEW n \in Nat \ {0}, NEW h \in 0 .. n - 1, NEW t \in 0 .. n - 1,
         NEW i \in 1 .. Ahead(n, h, t)
  PROVE  Slot(n, Slot(n, h + 1) + i - 1) = Slot(n, h + (i + 1) - 1)
  BY DEF Ahead, Slot

(* Both cases in one.                                                      *)
LEMMA ModWrap == ASSUME NEW n \in Nat \ {0}, NEW x \in 0 .. 2 * n - 1
                 PROVE  x % n = Slot(n, x)
  <1>1. CASE x < n  BY <1>1, ModSmall DEF Slot
  <1>2. CASE ~(x < n)
    <2>1. x \in n .. 2 * n - 1  BY <1>2
    <2> QED  BY <1>2, <2>1, ModLarge DEF Slot
  <1> QED  BY <1>1, <1>2

(* How many elements a ring holds, without the remainder.                  *)
LEMMA LengthIs ==
  ASSUME NEW n \in Nat \ {0}, NEW q \in Ring(n)
  PROVE  Length(q) = Ahead(n, q.head, q.tail) /\ Length(q) \in 0 .. n - 1
  <1> DEFINE x == q.tail - q.head + n
  <1>1. x \in 0 .. 2 * n - 1 /\ q.size = n  BY DEF Ring
  <1>2. Length(q) = x % n  BY <1>1 DEF Length
  <1>3. x % n = Slot(n, x)  BY <1>1, ModWrap, Zenon
  <1>4. Length(q) = Slot(n, x)  BY <1>2, <1>3, Zenon
  <1> QED  BY <1>1, <1>4 DEF Ring, Slot, Ahead

(* The elements are a sequence of that length.                             *)
LEMMA ItemsAre ==
  ASSUME NEW n \in Nat \ {0}, NEW q \in Ring(n)
  PROVE  /\ Items(q) \in Seq(Nat) /\ Len(Items(q)) = Length(q)
         /\ \A i \in 1 .. Length(q) : Items(q)[i] = q.elements[Slot(n, q.head + i - 1)]
  <1>1. Length(q) \in 0 .. n - 1 /\ Length(q) \in Nat  BY LengthIs
  <1>2. ASSUME NEW i \in 1 .. Length(q)
        PROVE  /\ q.elements[(q.head + i - 1) % q.size] = q.elements[Slot(n, q.head + i - 1)]
               /\ q.elements[Slot(n, q.head + i - 1)] \in Nat
    <2>1. q.head + i - 1 \in 0 .. 2 * n - 1 /\ q.size = n  BY <1>1 DEF Ring
    <2>2. (q.head + i - 1) % n = Slot(n, q.head + i - 1)  BY <2>1, ModWrap, Zenon
    <2>3. Slot(n, q.head + i - 1) \in 0 .. n - 1  BY <2>1 DEF Slot
    <2>4. q.elements \in [0 .. n - 1 -> Nat]  BY DEF Ring
    <2>5. q.elements[Slot(n, q.head + i - 1)] \in Nat  BY <2>3, <2>4
    <2>6. q.elements[(q.head + i - 1) % q.size] = q.elements[Slot(n, q.head + i - 1)]
      BY <2>1, <2>2, Zenon
    <2> QED  BY <2>5, <2>6
  <1>3. Items(q) = [i \in 1 .. Length(q) |-> q.elements[Slot(n, q.head + i - 1)]]
    BY <1>2, Zenon DEF Items
  <1> QED  BY <1>1, <1>2, <1>3

(* A new queue is empty.                                                   *)
LEMMA InitRing ==
  ASSUME NEW size \in Nat
  PROVE  init_queue(size) \in Ring(size + 1) /\ Items(init_queue(size)) = <<>>
  <1>1. init_queue(size) \in Ring(size + 1)  BY DEF init_queue, Ring, NIL
  <1>2. Length(init_queue(size)) = 0
    <2>1. size + 1 \in Nat \ {0} /\ init_queue(size).head = 0 /\ init_queue(size).tail = 0
      BY DEF init_queue
    <2>2. Length(init_queue(size)) = Ahead(size + 1, 0, 0)  BY <1>1, <2>1, LengthIs, Zenon
    <2> QED  BY <2>2 DEF Ahead
  <1> QED
    BY <1>1, <1>2, ItemsAre, size + 1 \in Nat \ {0}

(* The next slot of the head or the tail.                                  *)
LEMMA NextSlot ==
  ASSUME NEW n \in Nat \ {0}, NEW x \in 0 .. n - 1
  PROVE  (x + 1) % n = Slot(n, x + 1) /\ Slot(n, x + 1) \in 0 .. n - 1
  <1>1. x + 1 \in 0 .. 2 * n - 1  OBVIOUS
  <1>2. (x + 1) % n = Slot(n, x + 1)  BY <1>1, ModWrap, Zenon
  <1>3. Slot(n, x + 1) \in 0 .. n - 1  BY DEF Slot
  <1> QED  BY <1>2, <1>3

(* queue_isFull and queue_isEmpty look at the number of elements.          *)
LEMMA FullEmpty ==
  ASSUME NEW n \in Nat \ {0}, NEW q \in Ring(n)
  PROVE  (queue_isFull(q) <=> Length(q) = n - 1) /\ (queue_isEmpty(q) <=> Length(q) = 0)
  <1>r. q.tail \in 0 .. n - 1 /\ q.head \in 0 .. n - 1  BY DEF Ring
  <1>1. q.size = n /\ q.tail \in 0 .. n - 1 /\ q.head \in 0 .. n - 1  BY DEF Ring
  <1>2. (q.tail + 1) % q.size = Slot(n, q.tail + 1)  BY <1>1, NextSlot, Zenon
  <1>3. queue_isFull(q) <=> Slot(n, q.tail + 1) = q.head  BY <1>2, Zenon DEF queue_isFull
  <1>4. (Slot(n, q.tail + 1) = q.head) = (Ahead(n, q.head, q.tail) = n - 1)
    BY <1>r, FullAhead, Zenon
  <1>5. (q.head = q.tail) = (Ahead(n, q.head, q.tail) = 0)  BY <1>r, EmptyAhead, Zenon
  <1>6. Length(q) = Ahead(n, q.head, q.tail)  BY LengthIs, Zenon
  <1> QED  BY <1>3, <1>4, <1>5, <1>6, Zenon DEF queue_isEmpty

(* queue_add of a ring with room appends.                                  *)
LEMMA AddAppends ==
  ASSUME NEW n \in Nat \ {0}, NEW q \in Ring(n), NEW e \in Nat, ~queue_isFull(q)
  PROVE  queue_add(q, e) \in Ring(n) /\ Items(queue_add(q, e)) = Append(Items(q), e)
  <1> DEFINE r == queue_add(q, e)
  <1>r. q.tail \in 0 .. n - 1 /\ q.head \in 0 .. n - 1  BY DEF Ring
  <1>1. q.size = n /\ q.tail \in 0 .. n - 1 /\ q.head \in 0 .. n - 1
        /\ q.elements \in [0 .. n - 1 -> Nat]
    BY DEF Ring
  <1>2. (q.tail + 1) % q.size = Slot(n, q.tail + 1) /\ Slot(n, q.tail + 1) \in 0 .. n - 1
    BY <1>1, NextSlot, Zenon
  <1>3. r = [q EXCEPT !.elements[q.tail] = e, !.tail = Slot(n, q.tail + 1)]
    BY <1>2, Zenon DEF queue_add
  <1> HIDE DEF r
  <1>4. /\ r.elements = [q.elements EXCEPT ![q.tail] = e]
        /\ r.tail = Slot(n, q.tail + 1) /\ r.head = q.head /\ r.size = n
        /\ r \in Ring(n)
    BY <1>1, <1>2, <1>3 DEF Ring
  <1>5. /\ Length(q) \in 0 .. n - 1 /\ Length(q) < n - 1
        /\ Length(q) = Ahead(n, q.head, q.tail)
    BY FullEmpty, LengthIs
  <1>6. Length(r) = Length(q) + 1
    <2>1. Length(r) = Ahead(n, q.head, Slot(n, q.tail + 1))  BY <1>4, LengthIs, Zenon
    <2>2. Ahead(n, q.head, q.tail) # n - 1  BY <1>5
    <2>3. Ahead(n, q.head, Slot(n, q.tail + 1)) = Ahead(n, q.head, q.tail) + 1
      BY <1>r, <2>2, Moves, Zenon
    <2> QED  BY <1>5, <2>1, <2>3, Zenon
  <1> DEFINE At(k) == Slot(n, q.head + k - 1)
  <1>i. /\ \A k \in 1 .. Length(q) : Items(q)[k] = q.elements[At(k)]
        /\ \A k \in 1 .. Length(r) : Items(r)[k] = r.elements[At(k)]
    <2>1. \A k \in 1 .. Length(q) : Items(q)[k] = q.elements[At(k)]  BY ItemsAre, Zenon
    <2>2. \A k \in 1 .. Length(r) : Items(r)[k] = r.elements[Slot(n, r.head + k - 1)]
      BY <1>4, ItemsAre, Zenon
    <2> QED  BY <1>4, <2>1, <2>2, Zenon
  <1>7. ASSUME NEW i \in 1 .. Length(q) PROVE Items(r)[i] = Items(q)[i]
    <2>1. At(i) # q.tail /\ At(i) \in 0 .. n - 1
      <3>1. i \in 1 .. Ahead(n, q.head, q.tail)  BY <1>5, Zenon
      <3> QED  BY <1>r, <3>1, PlaceOfElement, Zenon
    <2>2. i \in 1 .. Length(r)  BY <1>5, <1>6
    <2> HIDE DEF At
    <2>3. r.elements[At(i)] = q.elements[At(i)]  BY <1>1, <1>4, <2>1
    <2> QED  BY <1>i, <2>2, <2>3
  <1>8. Items(r)[Length(q) + 1] = e
    <2>1. At(Length(q) + 1) = q.tail
      <3>1. Slot(n, q.head + (Ahead(n, q.head, q.tail) + 1) - 1) = q.tail
        BY <1>r, LastPlace, Zenon
      <3> QED  BY <1>5, <3>1, Zenon
    <2>2. Length(q) + 1 \in 1 .. Length(r)  BY <1>5, <1>6
    <2> HIDE DEF At
    <2>3. Items(r)[Length(q) + 1] = r.elements[q.tail]  BY <1>i, <2>1, <2>2
    <2> QED  BY <1>1, <1>4, <2>3
  <1>9. Items(r) = Append(Items(q), e)
    <2>1. Items(q) \in Seq(Nat) /\ Len(Items(q)) = Length(q)  BY ItemsAre
    <2>2. Items(r) \in Seq(Nat) /\ Len(Items(r)) = Length(q) + 1  BY <1>4, <1>6, ItemsAre
    <2>3. Append(Items(q), e) \in Seq(Nat) /\ Len(Append(Items(q), e)) = Length(q) + 1
      BY <2>1
    <2>4. ASSUME NEW i \in 1 .. Length(q) + 1 PROVE Items(r)[i] = Append(Items(q), e)[i]
      <3>1. CASE i = Length(q) + 1  BY <1>8, <2>1, <3>1
      <3>2. CASE i # Length(q) + 1
        <4>1. i \in 1 .. Length(q)  BY <1>5, <3>2
        <4> QED  BY <1>7, <2>1, <4>1
      <3> QED  BY <3>1, <3>2
    <2> HIDE DEF r
    <2> QED  BY <2>2, <2>3, <2>4
  <1> QED  BY <1>4, <1>9 DEF r

(* queue_poll of a ring that holds something takes the oldest.             *)
LEMMA PollTakesOldest ==
  ASSUME NEW n \in Nat \ {0}, NEW q \in Ring(n), ~queue_isEmpty(q)
  PROVE  /\ Polled(q) \in Ring(n) /\ Items(q) # <<>>
         /\ Items(Polled(q)) = Tail(Items(q)) /\ Front(q) = Head(Items(q))
  <1> DEFINE r == Polled(q)
  <1>r. q.tail \in 0 .. n - 1 /\ q.head \in 0 .. n - 1  BY DEF Ring
  <1>1. q.size = n /\ q.tail \in 0 .. n - 1 /\ q.head \in 0 .. n - 1
        /\ q.elements \in [0 .. n - 1 -> Nat]
    BY DEF Ring
  <1>2. (q.head + 1) % q.size = Slot(n, q.head + 1) /\ Slot(n, q.head + 1) \in 0 .. n - 1
    BY <1>1, NextSlot, Zenon
  <1>3. r = [q EXCEPT !.head = Slot(n, q.head + 1)]  BY <1>2, Zenon DEF Polled
  <1> HIDE DEF r
  <1>4. /\ r.elements = q.elements /\ r.tail = q.tail /\ r.head = Slot(n, q.head + 1)
        /\ r.size = n /\ r \in Ring(n)
    BY <1>1, <1>2, <1>3 DEF Ring
  <1>5. /\ Length(q) \in 1 .. n - 1
        /\ Length(q) = Ahead(n, q.head, q.tail)
    BY FullEmpty, LengthIs
  <1>6. Length(r) = Length(q) - 1
    <2>1. Length(r) = Ahead(n, Slot(n, q.head + 1), q.tail)  BY <1>4, LengthIs, Zenon
    <2>2. Ahead(n, q.head, q.tail) # 0  BY <1>5
    <2>3. Ahead(n, Slot(n, q.head + 1), q.tail) = Ahead(n, q.head, q.tail) - 1
      BY <1>r, <2>2, Moves, Zenon
    <2> QED  BY <1>5, <2>1, <2>3, Zenon
  <1>7. Items(q) \in Seq(Nat) /\ Len(Items(q)) = Length(q) /\ Items(q) # <<>>
    BY <1>5, ItemsAre
  <1>8. Front(q) = Head(Items(q))
    <2>1. Items(q)[1] = q.elements[Slot(n, q.head + 1 - 1)]  BY <1>5, ItemsAre
    <2>2. Slot(n, q.head + 1 - 1) = q.head  BY <1>1 DEF Slot
    <2> QED  BY <1>7, <2>1, <2>2 DEF Front
  <1>9. ASSUME NEW i \in 1 .. Length(q) - 1 PROVE Items(r)[i] = Items(q)[i + 1]
    <2> DEFINE old == Slot(n, q.head + (i + 1) - 1)
               new == Slot(n, r.head + i - 1)
    <2>1. old = new
      <3>1. i \in 1 .. Ahead(n, q.head, q.tail)  BY <1>5
      <3>2. old = Slot(n, Slot(n, q.head + 1) + i - 1)
        BY <1>r, <3>1, PlaceFromNextHead, Zenon
      <3> QED  BY <1>4, <3>2, Zenon
    <2>2. i \in 1 .. Length(r) /\ i + 1 \in 1 .. Length(q)  BY <1>5, <1>6
    <2>3. Items(q)[i + 1] = q.elements[old]  BY <2>2, ItemsAre, Zenon
    <2>4. Items(r)[i] = r.elements[new]  BY <1>4, <2>2, ItemsAre, Zenon
    <2> QED  BY <1>4, <2>1, <2>3, <2>4, Zenon
  <1>10. Items(r) = Tail(Items(q))
    <2>1. Items(r) \in Seq(Nat) /\ Len(Items(r)) = Length(q) - 1  BY <1>4, <1>6, ItemsAre
    <2>2. Tail(Items(q)) \in Seq(Nat) /\ Len(Tail(Items(q))) = Length(q) - 1  BY <1>5, <1>7
    <2>3. ASSUME NEW i \in 1 .. Length(q) - 1 PROVE Items(r)[i] = Tail(Items(q))[i]
      BY <1>7, <1>9
    <2> QED  BY <2>1, <2>2, <2>3
  <1> QED  BY <1>4, <1>7, <1>8, <1>10 DEF r

-----------------------------------------------------------------------------
(* The elements as a set, and that each is there once. *)
Elements(q) == {Items(q)[i] : i \in DOMAIN Items(q)}
Once(q)     == \A i, j \in DOMAIN Items(q) : Items(q)[i] = Items(q)[j] => i = j

(* A new queue has no elements.                                            *)
LEMMA InitElements ==
  ASSUME NEW size \in Nat
  PROVE  Elements(init_queue(size)) = {} /\ Once(init_queue(size))
  BY InitRing DEF Elements, Once

(* The indices of the elements.                                            *)
LEMMA ItemsDomain ==
  ASSUME NEW n \in Nat \ {0}, NEW q \in Ring(n)
  PROVE  DOMAIN Items(q) = 1 .. Length(q) /\ Length(q) \in 0 .. n - 1
  BY ItemsAre, LengthIs

(* A queue is empty when it has no element.                                *)
LEMMA EmptyElements ==
  ASSUME NEW n \in Nat \ {0}, NEW q \in Ring(n)
  PROVE  queue_isEmpty(q) <=> Elements(q) = {}
  <1>1. DOMAIN Items(q) = 1 .. Length(q) /\ Length(q) \in 0 .. n - 1  BY ItemsDomain
  <1>2. queue_isEmpty(q) <=> Length(q) = 0  BY FullEmpty
  <1>3. ASSUME Length(q) # 0 PROVE Items(q)[1] \in Elements(q)
    <2>1. 1 \in DOMAIN Items(q)  BY <1>1, <1>3
    <2> QED  BY <2>1 DEF Elements
  <1>4. ASSUME Length(q) = 0 PROVE Elements(q) = {}
    <2>1. DOMAIN Items(q) = {}  BY <1>1, <1>4
    <2> QED  BY <2>1 DEF Elements
  <1> QED  BY <1>2, <1>3, <1>4

(* queue_add puts in one element more.                                     *)
LEMMA AddElement ==
  ASSUME NEW n \in Nat \ {0}, NEW q \in Ring(n), NEW e \in Nat, ~queue_isFull(q)
  PROVE  /\ queue_add(q, e) \in Ring(n)
         /\ Elements(queue_add(q, e)) = Elements(q) \cup {e}
         /\ Once(q) /\ e \notin Elements(q) => Once(queue_add(q, e))
  <1> DEFINE s == Items(q)
             a == Items(queue_add(q, e))
  <1>1. queue_add(q, e) \in Ring(n) /\ a = Append(s, e)  BY AddAppends
  <1>2. s \in Seq(Nat)  BY ItemsAre
  <1> HIDE DEF s, a
  <1>3. /\ DOMAIN s = 1 .. Len(s) /\ DOMAIN a = 1 .. Len(s) + 1 /\ Len(s) \in Nat
        /\ \A i \in 1 .. Len(s) : a[i] = s[i]
        /\ a[Len(s) + 1] = e
    BY <1>1, <1>2
  <1>4. {a[i] : i \in DOMAIN a} = {s[i] : i \in DOMAIN s} \cup {e}  BY <1>3
  <1>5. ASSUME \A i, j \in DOMAIN s : s[i] = s[j] => i = j, e \notin {s[i] : i \in DOMAIN s}
        PROVE  \A i, j \in DOMAIN a : a[i] = a[j] => i = j
    BY <1>3, <1>5
  <1> QED  BY <1>1, <1>4, <1>5 DEF Elements, Once, s, a

(* queue_poll takes one out, if none is there twice.                       *)
LEMMA PollElement ==
  ASSUME NEW n \in Nat \ {0}, NEW q \in Ring(n), ~queue_isEmpty(q), Once(q)
  PROVE  /\ Polled(q) \in Ring(n) /\ Front(q) \in Elements(q)
         /\ Elements(Polled(q)) = Elements(q) \ {Front(q)} /\ Once(Polled(q))
  <1> DEFINE s == Items(q)
             a == Items(Polled(q))
  <1>1. Polled(q) \in Ring(n) /\ s # <<>> /\ a = Tail(s) /\ Front(q) = Head(s)
    BY PollTakesOldest
  <1>2. s \in Seq(Nat)  BY ItemsAre
  <1>3. \A i, j \in DOMAIN s : s[i] = s[j] => i = j  BY DEF Once
  <1> HIDE DEF s, a
  <1>4. /\ DOMAIN s = 1 .. Len(s) /\ DOMAIN a = 1 .. Len(s) - 1 /\ Len(s) \in Nat \ {0}
        /\ \A i \in 1 .. Len(s) - 1 : a[i] = s[i + 1]
        /\ Front(q) = s[1]
    BY <1>1, <1>2
  <1>5. Front(q) \in {s[i] : i \in DOMAIN s}  BY <1>4
  <1>6. {a[i] : i \in DOMAIN a} = {s[i] : i \in DOMAIN s} \ {Front(q)}
    <2>1. ASSUME NEW i \in DOMAIN a PROVE a[i] \in {s[k] : k \in DOMAIN s} \ {Front(q)}
      BY <1>3, <1>4
    <2>2. ASSUME NEW i \in DOMAIN s, s[i] # Front(q) PROVE s[i] \in {a[k] : k \in DOMAIN a}
      <3>1. i - 1 \in DOMAIN a /\ a[i - 1] = s[i]  BY <1>4, <2>2
      <3> QED  BY <3>1
    <2> QED  BY <2>1, <2>2
  <1>7. \A i, j \in DOMAIN a : a[i] = a[j] => i = j  BY <1>3, <1>4
  <1> QED  BY <1>1, <1>5, <1>6, <1>7 DEF Elements, Once, s, a

(* When none is there twice, the queue is as long as the set is large, and *)
(* not full if it holds fewer kinds of things than it has room for.        *)
LEMMA OnceLength ==
  ASSUME NEW n \in Nat \ {0}, NEW q \in Ring(n), Once(q)
  PROVE  IsFiniteSet(Elements(q)) /\ Cardinality(Elements(q)) = Length(q)
  <1> DEFINE s == Items(q)
             E == Elements(q)
  <1>1. DOMAIN s = 1 .. Length(q) /\ Length(q) \in Nat  BY ItemsDomain
  <1>2. s = [i \in 1 .. Length(q) |-> s[i]]  BY <1>1 DEF Items
  <1>3. s \in [1 .. Length(q) -> E]  BY <1>1, <1>2 DEF Elements
  <1>4. \A i, j \in 1 .. Length(q) : s[i] = s[j] => i = j  BY <1>1 DEF Once
  <1>5. \A e \in E : \E i \in 1 .. Length(q) : s[i] = e  BY <1>1 DEF Elements
  <1>6. s \in Bijection(1 .. Length(q), E)
    <2> HIDE DEF s, E
    <2> QED  BY <1>3, <1>4, <1>5, Fun_IsBij
  <1>7. ExistsBijection(1 .. Length(q), E)  BY <1>6 DEF ExistsBijection
  <1>8. IsFiniteSet(1 .. Length(q)) /\ Cardinality(1 .. Length(q)) = Length(q)
    BY <1>1, FS_Interval
  <1> QED  BY <1>7, <1>8, FS_Bijection

(* init_queue(size) has room for each of the numbers below size, once.     *)
LEMMA RoomForAll ==
  ASSUME NEW size \in Nat \ {0}, NEW q \in Ring(size + 1), Once(q),
         Elements(q) \subseteq 1 .. size - 1
  PROVE  ~queue_isFull(q)
  <1>1. size + 1 \in Nat \ {0}  OBVIOUS
  <1>2. IsFiniteSet(Elements(q)) /\ Cardinality(Elements(q)) = Length(q)  BY <1>1, OnceLength
  <1>3. IsFiniteSet(1 .. size - 1) /\ Cardinality(1 .. size - 1) = size - 1  BY FS_Interval
  <1>4. Cardinality(Elements(q)) <= size - 1  BY <1>3, FS_Subset
  <1>5. queue_isFull(q) <=> Length(q) = size  BY <1>1, FullEmpty
  <1> QED  BY <1>2, <1>4, <1>5

=============================================================================
