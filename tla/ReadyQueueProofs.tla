-------------------------- MODULE ReadyQueueProofs --------------------------
(***************************************************************************)
(* The ring buffer of queue.c implements a bounded FIFO, for every         *)
(* capacity.                                                               *)
(***************************************************************************)
EXTENDS ReadyQueue, RingQueueProofs

(* The head and the tail stay in the ring, whatever is called.             *)
THEOREM RingKept == Spec => [](ready_queue \in Ring(Capacity + 1))
  <1> USE ReadyQueueAssumption
  <1>1. Init => ready_queue \in Ring(Capacity + 1)  BY InitRing DEF Init
  <1>2. ready_queue \in Ring(Capacity + 1) /\ [Next]_vars => (ready_queue \in Ring(Capacity + 1))'
    <2> SUFFICES ASSUME ready_queue \in Ring(Capacity + 1), [Next]_vars
                 PROVE  ready_queue' \in Ring(Capacity + 1)
      OBVIOUS
    <2> Capacity + 1 \in Nat \ {0}  OBVIOUS
    <2>1. ASSUME NEW e \in Element, add(e) PROVE ready_queue' \in Ring(Capacity + 1)
      <3>1. CASE queue_isFull(ready_queue)  BY <2>1, <3>1 DEF add, queue_add
      <3>2. CASE ~queue_isFull(ready_queue)  BY <2>1, <3>2, AddAppends DEF add
      <3> QED  BY <3>1, <3>2
    <2>2. ASSUME poll PROVE ready_queue' \in Ring(Capacity + 1)
      BY <2>2, PollTakesOldest DEF poll
    <2> QED  BY <2>1, <2>2 DEF Next, vars
  <1> QED  BY <1>1, <1>2, PTL DEF Spec

(* queue_add and queue_poll are a FIFO that holds as many elements as      *)
(* init_queue was asked for, for every such number.                        *)
THEOREM RingImplementsFifo == Spec => ImplementsFifo
  <1> USE ReadyQueueAssumption
  <1> DEFINE Inv == ready_queue \in Ring(Capacity + 1)
  <1> Capacity + 1 \in Nat \ {0}  OBVIOUS
  <1>1. Init => Abstract!Init  BY InitRing DEF Init, Abstract!Init
  <1>2. Inv /\ [Next]_vars => [Abstract!Next]_<<Items(ready_queue), result>>
    <2> SUFFICES ASSUME ready_queue \in Ring(Capacity + 1), [Next]_vars
                 PROVE  [Abstract!Next]_<<Items(ready_queue), result>>
      OBVIOUS
    <2>0. Len(Items(ready_queue)) = Length(ready_queue)  BY ItemsAre
    <2>1. ASSUME NEW e \in Element, add(e) PROVE Abstract!Add(e)
      <3>1. CASE queue_isFull(ready_queue)
        BY <2>0, <2>1, <3>1, FullEmpty DEF add, queue_add, Abstract!Add, Items, Length
      <3>2. CASE ~queue_isFull(ready_queue)
        <4>1. Len(Items(ready_queue)) < Capacity  BY <2>0, <3>2, FullEmpty, LengthIs
        <4>2. Items(ready_queue)' = Append(Items(ready_queue), e)
          <5>1. ready_queue' = queue_add(ready_queue, e) /\ e \in Nat  BY <2>1 DEF add
          <5>2. Items(queue_add(ready_queue, e)) = Append(Items(ready_queue), e)
            BY <3>2, <5>1, AddAppends
          <5> QED  BY <5>1, <5>2, Zenon DEF Items, Length
        <4> QED  BY <2>1, <3>2, <4>1, <4>2 DEF add, Abstract!Add
      <3> QED  BY <3>1, <3>2
    <2>2. ASSUME poll PROVE Abstract!Poll
      <3>1. CASE queue_isEmpty(ready_queue)
        <4>1. Items(ready_queue) = <<>>  BY <2>0, <3>1, FullEmpty, ItemsAre
        <4> QED  BY <2>2, <3>1, <4>1 DEF poll, Abstract!Poll, Items, Length
      <3>2. CASE ~queue_isEmpty(ready_queue)
        <4>1. Items(ready_queue)' = Items(Polled(ready_queue))
          BY <2>2, <3>2 DEF poll, Items, Length
        <4> QED  BY <2>2, <3>2, <4>1, PollTakesOldest DEF poll, Abstract!Poll
      <3> QED  BY <3>1, <3>2
    <2>3. CASE UNCHANGED vars  BY <2>3 DEF vars, Items, Length
    <2> QED  BY <2>1, <2>2, <2>3 DEF Next, Abstract!Next
  <1> QED  BY <1>1, <1>2, RingKept, PTL DEF Spec, ImplementsFifo, Abstract!Spec

=============================================================================
