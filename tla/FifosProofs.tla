----------------------------- MODULE FifosProofs -----------------------------
(***************************************************************************)
(* What Fifos promises of the scheduler, for any number of threads and     *)
(* TCBs and wherever the timer interrupts: the ready queue stays sound, no *)
(* dead thread is in it, stacks are held while they are needed, and only   *)
(* one kind of step loses a thread.                                        *)
(*                                                                         *)
(* The inductive invariant relates where the CPU is to current_tid,        *)
(* ptr_current_esp and the queue, and says of every thread that waits that *)
(* it can be entered.  An action keeps it: a lemma for each.               *)
(***************************************************************************)
EXTENDS Fifos, RingQueueProofs, WellFoundedInduction

-----------------------------------------------------------------------------
(* The inductive invariant *)

(* Where a thread is from when schedule has taken it out of the queue to   *)
(* when it has the CPU.                                                    *)
Fetching   == {"mark", "set_tid", "set_ptr", "switch"}
Fetched(t) == pc \in Fetching /\ polled.thread = t

(* The thread that the CPU executes is current_tid's, or none; and the     *)
(* context of the thread whose stack it is on, or was on when it entered   *)
(* trap, is where ptr_current_esp points.                                  *)
CpuInv ==
  /\ pc \in MainCode \cup {"resume_main"} => current_tid = 0 /\ ptr_current_esp = 0
  /\ pc \in (ThreadCode \ {"trap"}) \cup {"switch", "crashed"}
       => current_tid = ptr_current_esp /\ current_tid # 0
  /\ pc \in {"trap", "poll", "fetch", "advance", "mark", "set_tid", "idle"}
       => current_tid = 0 /\ ptr_current_esp # 0
  /\ pc = "set_ptr" => current_tid # 0 /\ ptr_current_esp # 0
  /\ pc \in {"set_ptr", "switch"} => current_tid = polled.thread

(* The ring is sound, and nothing is in it that runs, is about to run, or  *)
(* has left for the main thread's stack.                                   *)
QueueInv ==
  /\ ready_queue \in Ring(pool_size + 1) /\ Once(ready_queue)
  /\ current_tid \notin Queued /\ ptr_current_esp \notin Queued
  /\ pc \in Fetching => polled.thread \in Threads \ Queued
  /\ pc \in {"fetch", "advance"} => ~queue_isEmpty(ready_queue)
  /\ pc = "advance" => polled.thread = Front(ready_queue)
  /\ pc = "create" => \A t \in Threads : thread_pool[t].state = "empty" => t \notin Queued
  /\ pc = "create" => created < N /\ dead = {}

(* The dead are behind: nothing that is queued, current or fetched is one. *)
DeadInv ==
  /\ dead \cap (Queued \cup {current_tid}) = {}
  /\ pc \in Fetching => polled.thread \notin dead

(* What waits for the CPU at esp can be entered, or was written over: its  *)
(* stack is allocated, unless it has given it back just before it clears   *)
(* current_tid; and from finish on its body has returned.                  *)
CanWait(t, esp) ==
  /\ esp \notin {"trap", "nothing"}
  /\ esp \notin {"clear_tid", "overwritten"} => thread_pool[t].stack = "held"
  /\ esp \in {"finish", "free_stack", "clear_tid"} => t \in finished

WaitInv ==
  \A t \in Threads : t \in Queued \/ Fetched(t) => CanWait(t, thread_pool[t].esp)

(* The same of what has the CPU. *)
RunInv ==
  /\ pc \in {"body", "finish", "free_stack"} => thread_pool[current_tid].stack = "held"
  /\ pc \in {"finish", "free_stack", "clear_tid"} => current_tid \in finished
  /\ pc = "crashed" => CanWait(current_tid, thread_pool[current_tid].esp)

IInv == TypeOK /\ CpuInv /\ QueueInv /\ DeadInv /\ WaitInv /\ RunInv

-----------------------------------------------------------------------------
(* The first empty TCB exists if any is empty. *)
LEMMA MinExists ==
  ASSUME NEW S, S \subseteq Nat, S # {}
  PROVE  Min(S) \in S
  <1>1. PICK m \in S : \A y \in S : ~(<<y, m>> \in OpToRel(<, Nat))
    BY NatLessThanWellFounded, WFMin
  <1>2. ASSUME NEW y \in S, y < m PROVE FALSE
    <2>1. <<y, m>> \in Nat \X Nat /\ <<y, m>>[1] < <<y, m>>[2]  BY <1>2
    <2>2. <<y, m>> \in OpToRel(<, Nat)  BY <2>1 DEF OpToRel
    <2> QED  BY <1>1, <2>2
  <1>3. \A y \in S : m <= y  BY <1>2
  <1> QED  BY <1>3 DEF Min

(* The operators on the ring, primed, are those of the next ring. *)
LEMMA NextRing ==
  /\ Queued = Elements(ready_queue) /\ Queued' = Elements(ready_queue')
  /\ Once(ready_queue)' <=> Once(ready_queue')
  /\ queue_isEmpty(ready_queue)' <=> queue_isEmpty(ready_queue')
  /\ Front(ready_queue)' = Front(ready_queue')
  BY DEF Queued, Elements, Once, Items, Length, queue_isEmpty, Front

(* The queue is never full, and it takes what is not in it yet. *)
LEMMA QueueTakes ==
  ASSUME IInv, NEW t \in Threads \ Queued
  PROVE  /\ queue_add(ready_queue, t) \in Ring(pool_size + 1)
         /\ Once(queue_add(ready_queue, t))
         /\ Elements(queue_add(ready_queue, t)) = Queued \cup {t}
  <1>1. pool_size \in Nat \ {0} /\ pool_size + 1 \in Nat \ {0} /\ t \in Nat
    BY FifosAssumption DEF Threads
  <1>2. ready_queue \in Ring(pool_size + 1) /\ Once(ready_queue)  BY DEF IInv, QueueInv
  <1>3. Elements(ready_queue) \subseteq 1 .. pool_size - 1
    BY NextRing DEF IInv, TypeOK, Threads
  <1>4. ~queue_isFull(ready_queue)  BY <1>1, <1>2, <1>3, RoomForAll
  <1> QED  BY <1>1, <1>2, <1>4, AddElement, NextRing

(* The queue gives up its first element. *)
LEMMA QueueGives ==
  ASSUME NEW q \in Ring(pool_size + 1), Once(q), ~queue_isEmpty(q)
  PROVE  /\ Polled(q) \in Ring(pool_size + 1) /\ Once(Polled(q))
         /\ Front(q) \in Elements(q) /\ Elements(Polled(q)) = Elements(q) \ {Front(q)}
  <1>1. pool_size + 1 \in Nat \ {0}  BY FifosAssumption
  <1> QED  BY <1>1, PollElement

(* The queue with the interrupted thread at its end. *)
LEMMA RequeuedIs ==
  ASSUME IInv
  PROVE  /\ Requeued \in Ring(pool_size + 1) /\ Once(Requeued)
         /\ Elements(Requeued) = Queued \cup ({current_tid} \ {0})
  <1>1. CASE current_tid = 0
    BY <1>1, NextRing DEF Requeued, IInv, QueueInv
  <1>2. CASE current_tid # 0
    <2>1. current_tid \in Threads \ Queued
      BY <1>2, FifosAssumption DEF IInv, TypeOK, QueueInv, Threads
    <2> QED  BY <1>2, <2>1, QueueTakes DEF Requeued
  <1> QED  BY <1>1, <1>2

(* Nobody waits in an empty queue. *)
LEMMA EmptyIs ==
  ASSUME NEW q \in Ring(pool_size + 1)
  PROVE  queue_isEmpty(q) <=> Elements(q) = {}
  BY FifosAssumption, pool_size + 1 \in Nat \ {0}, EmptyElements

-----------------------------------------------------------------------------
(* The places of the CPU, and what a TCB holds.                            *)
LEMMA PoolType ==
  ASSUME IInv, NEW t \in Threads
  PROVE  thread_pool[t] \in TCB
  BY DEF IInv, TypeOK

(* schedule after stash, in yield and in the timer's handler: it saves a   *)
(* place that the interrupted thread can go on from.                       *)
LEMMA StashKeeps ==
  ASSUME IInv, NEW place, stash(place), pc \notin {"create", "halted", "crashed"},
         ptr_current_esp = 0 => place \in {"yield", "after", "resume_main"},
         ptr_current_esp # 0 => place \in ThreadCode \cup {"overwritten"},
         current_tid # 0 /\ current_tid = ptr_current_esp => CanWait(current_tid, place)
  PROVE  IInv'
  <1> DEFINE pool == [t \in Threads |->
                        IF t = ptr_current_esp THEN [thread_pool[t] EXCEPT !.esp = place]
                        ELSE thread_pool[t]]
             pool1 == IF current_tid # 0 THEN [pool EXCEPT ![current_tid].state = "ready"]
                      ELSE pool
             esp0 == IF ptr_current_esp = 0 THEN place ELSE main_esp
             thread == Front(Requeued)
  <1>t. /\ thread_pool \in [Threads -> TCB] /\ Threads = 1 .. pool_size - 1
        /\ pool_size \in Nat \ {0, 1}
        /\ Queued \subseteq Threads
        /\ current_tid \in 0 .. pool_size - 1 /\ ptr_current_esp \in 0 .. pool_size - 1
        /\ main_esp \in {"yield", "after", "resume_main"}
        /\ polled \in [thread : 0 .. pool_size - 1, state : State]
        /\ pc \in Places /\ created \in 0 .. N
        /\ finished \subseteq Threads /\ dead \subseteq Threads
    BY FifosAssumption DEF IInv, TypeOK, Threads
  <1>p. /\ pool1 \in [Threads -> TCB]
        /\ \A t \in Threads : /\ pool1[t].stack = thread_pool[t].stack
                              /\ pool1[t].esp = IF t = ptr_current_esp THEN place
                                                ELSE thread_pool[t].esp
    <2>1. pool \in [Threads -> TCB]
      <3>1. ASSUME NEW t \in Threads, t = ptr_current_esp
            PROVE  [thread_pool[t] EXCEPT !.esp = place] \in TCB
        <4>1. place \in Contexts  BY <1>t, <3>1 DEF Contexts, Threads
        <4> QED  BY <1>t, <4>1 DEF TCB
      <3> QED  BY <1>t, <3>1
    <2>2. \A t \in Threads : /\ pool[t].stack = thread_pool[t].stack
                             /\ pool[t].esp = IF t = ptr_current_esp THEN place
                                              ELSE thread_pool[t].esp
      BY <1>t DEF TCB
    <2> HIDE DEF pool
    <2>3. CASE current_tid = 0  BY <2>1, <2>2, <2>3
    <2>4. CASE current_tid # 0
      <3>1. current_tid \in Threads  BY <1>t, <2>4
      <3>2. pool1 = [pool EXCEPT ![current_tid].state = "ready"]  BY <2>4
      <3>3. [pool[current_tid] EXCEPT !.state = "ready"] \in TCB
        BY <2>1, <3>1 DEF TCB, State
      <3>4. pool1 \in [Threads -> TCB]  BY <2>1, <3>1, <3>2, <3>3
      <3>5. \A t \in Threads : pool1[t].stack = pool[t].stack /\ pool1[t].esp = pool[t].esp
        BY <2>1, <3>1, <3>2 DEF TCB
      <3> QED  BY <2>2, <3>4, <3>5
    <2> QED  BY <2>3, <2>4
  <1>q. /\ Requeued \in Ring(pool_size + 1) /\ Once(Requeued)
        /\ Elements(Requeued) = Queued \cup ({current_tid} \ {0})
    BY RequeuedIs
  <1>r. Elements(Requeued) \subseteq Threads /\ 0 \notin Threads
    <2>1. current_tid # 0 => current_tid \in Threads  BY <1>t
    <2>2. 0 \notin Threads  BY <1>t
    <2> QED  BY <1>q, <1>t, <2>1, <2>2, Zenon
  <1>s. /\ main_esp' = esp0 /\ UNCHANGED <<polled, created, finished, dead>>
        /\ \/ /\ queue_isEmpty(Requeued)
              /\ current_tid' = 0 /\ ptr_current_esp' = 0
              /\ thread_pool' = pool1 /\ ready_queue' = Requeued /\ pc' = esp0
           \/ /\ ~queue_isEmpty(Requeued)
              /\ thread_pool' = [pool1 EXCEPT ![thread].state = "running"]
              /\ ready_queue' = Polled(Requeued)
              /\ current_tid' = thread /\ ptr_current_esp' = thread
              /\ pc' = Entered(pool1[thread].state, pool1[thread].esp)
    BY DEF stash, schedule
  <1>e. esp0 \in {"yield", "after", "resume_main"}  BY <1>t
  <1>w. \A t \in Elements(Requeued) : CanWait(t, pool1[t].esp)
    <2> SUFFICES ASSUME NEW t \in Elements(Requeued) PROVE CanWait(t, pool1[t].esp)
      OBVIOUS
    <2>1. t \in Threads  BY <1>r
    <2>2. CASE t = ptr_current_esp
      <3>1. t = current_tid /\ t # 0  BY <1>q, <2>1, <2>2, <1>t DEF IInv, QueueInv
      <3> QED  BY <1>p, <2>1, <2>2, <3>1
    <2>3. CASE t # ptr_current_esp
      <3>1. pool1[t].esp = thread_pool[t].esp  BY <1>p, <2>1, <2>3
      <3>2. t \in Queued \/ Fetched(t)
        BY <1>q, <1>t, <2>1, <2>3 DEF IInv, CpuInv, Fetched, Fetching, Places, ThreadCode,
                                      MainCode, ScheduleCode
      <3> QED  BY <2>1, <3>1, <3>2 DEF IInv, WaitInv
    <2> QED  BY <2>2, <2>3
  <1>d. dead \cap Elements(Requeued) = {} /\ 0 \notin dead
    BY <1>q, <1>r, <1>t DEF IInv, DeadInv
  <1> HIDE DEF pool1, esp0
  <1>1. CASE queue_isEmpty(Requeued)
    <2>1. Elements(Requeued) = {}  BY <1>1, <1>q, EmptyIs
    <2>2. /\ current_tid' = 0 /\ ptr_current_esp' = 0 /\ thread_pool' = pool1
          /\ ready_queue' = Requeued /\ pc' = esp0
      BY <1>1, <1>s
    <2>3. Queued' = {} /\ Once(ready_queue)' /\ ready_queue' \in Ring(pool_size + 1)
      BY <1>q, <2>1, <2>2, NextRing
    <2>4. TypeOK'
      BY <1>t, <1>p, <1>s, <1>e, <2>2, <2>3 DEF TypeOK, Places, MainCode, ScheduleCode
    <2>5. CpuInv'  BY <1>e, <2>2 DEF CpuInv, ThreadCode, MainCode
    <2>6. QueueInv'  BY <1>e, <2>2, <2>3 DEF QueueInv, Fetching
    <2>7. WaitInv' /\ RunInv'  BY <1>e, <2>2, <2>3 DEF WaitInv, Fetched, Fetching, RunInv
    <2>8. DeadInv'  BY <1>d, <1>e, <1>s, <2>2, <2>3 DEF DeadInv, Fetching
    <2> QED  BY <2>4, <2>5, <2>6, <2>7, <2>8 DEF IInv
  <1>2. CASE ~queue_isEmpty(Requeued)
    <2>1. /\ Polled(Requeued) \in Ring(pool_size + 1) /\ Once(Polled(Requeued))
          /\ thread \in Elements(Requeued)
          /\ Elements(Polled(Requeued)) = Elements(Requeued) \ {thread}
      BY <1>2, <1>q, QueueGives
    <2>2. /\ thread_pool' = [pool1 EXCEPT ![thread].state = "running"]
          /\ ready_queue' = Polled(Requeued)
          /\ current_tid' = thread /\ ptr_current_esp' = thread
          /\ pc' = Entered(pool1[thread].state, pool1[thread].esp)
      BY <1>2, <1>s
    <2> HIDE DEF thread
    <2>3. thread \in Threads /\ thread # 0  BY <1>r, <2>1
    <2>4. /\ Queued' = Elements(Requeued) \ {thread} /\ Queued' \subseteq Threads
          /\ Once(ready_queue)' /\ ready_queue' \in Ring(pool_size + 1)
      BY <1>q, <1>t, <2>1, <2>2, NextRing
    <2>5. CanWait(thread, pool1[thread].esp)  BY <1>w, <2>1
    <2>6. /\ pc' \in (ThreadCode \ {"trap"}) \cup {"crashed"}
          /\ pc' = pool1[thread].esp \/ pc' \in {"crashed", "body"}
          /\ pc' = "body" => pool1[thread].esp \in {"entry", "body"}
      BY <2>2, <2>5 DEF Entered, CanWait, ThreadCode
    <2>7. /\ thread_pool' \in [Threads -> TCB]
          /\ \A t \in Threads : /\ thread_pool'[t].stack = thread_pool[t].stack
                                /\ thread_pool'[t].esp = pool1[t].esp
      <3>1. [pool1[thread] EXCEPT !.state = "running"] \in TCB  BY <1>p, <2>3 DEF TCB, State
      <3> QED  BY <1>p, <2>2, <2>3, <3>1 DEF TCB
    <2>8. TypeOK'
      BY <1>t, <1>s, <1>e, <2>2, <2>3, <2>4, <2>6, <2>7 DEF TypeOK, Places
    <2>9. CpuInv'
      BY <2>2, <2>3, <2>6 DEF CpuInv, ThreadCode, MainCode
    <2>10. QueueInv'  BY <2>2, <2>4, <2>6 DEF QueueInv, Fetching, ThreadCode
    <2>11. WaitInv'
      BY <1>s, <1>w, <2>4, <2>6, <2>7 DEF WaitInv, CanWait, Fetched, Fetching, ThreadCode
    <2>12. RunInv'
      BY <1>s, <2>2, <2>3, <2>5, <2>6, <2>7 DEF RunInv, CanWait
    <2>13. DeadInv'  BY <1>d, <1>s, <2>1, <2>2, <2>4, <2>6 DEF DeadInv, Fetching, ThreadCode
    <2> QED  BY <2>8, <2>9, <2>10, <2>11, <2>12, <2>13 DEF IInv
  <1> QED  BY <1>1, <1>2

-----------------------------------------------------------------------------
(* Each action keeps the invariant.                                        *)

(* The inductive invariant holds at the start.                             *)
LEMMA InitHolds == Init => IInv
  <1> SUFFICES ASSUME Init PROVE IInv
    OBVIOUS
  <1>1. pool_size \in Nat \ {0, 1} /\ N \in Nat \ {0}  BY FifosAssumption
  <1>2. ready_queue \in Ring(pool_size + 1) /\ Queued = {} /\ Once(ready_queue)
    BY <1>1, InitRing, InitElements, NextRing DEF Init
  <1>3. TypeOK
    BY <1>1, <1>2 DEF Init, TypeOK, TCB, State, Contexts, Places, MainCode, NIL
  <1>4. CpuInv /\ RunInv  BY DEF Init, CpuInv, RunInv, MainCode, ThreadCode
  <1>5. QueueInv  BY <1>1, <1>2 DEF Init, QueueInv, Fetching
  <1>6. WaitInv  BY <1>2 DEF Init, WaitInv, Fetched, Fetching
  <1>7. DeadInv  BY DEF Init, DeadInv, Fetching
  <1> QED  BY <1>3, <1>4, <1>5, <1>6, <1>7 DEF IInv

(* A new thread is in the queue, with a stack.                             *)
LEMMA CreateKeeps == IInv /\ thread_create => IInv'
  <1> SUFFICES ASSUME IInv, thread_create PROVE IInv'
    OBVIOUS
  <1> DEFINE free == {t \in Threads : thread_pool[t].state = "empty"}
             t == Min(free)
  <1>1. /\ pc = "create" /\ created' = created + 1
        /\ pc' = IF created' = N THEN "yield" ELSE "create"
        /\ UNCHANGED <<main_esp, current_tid, ptr_current_esp, polled, finished, dead>>
        /\ current_tid = 0 /\ ptr_current_esp = 0
    BY DEF thread_create, IInv, CpuInv, MainCode
  <1>2. created \in Nat /\ created < N /\ N \in Nat
    BY <1>1, FifosAssumption DEF IInv, TypeOK, QueueInv
  <1>3. CpuInv' /\ RunInv'  BY <1>1 DEF CpuInv, RunInv, ThreadCode, MainCode
  <1>d. dead' = {}  BY <1>1 DEF IInv, QueueInv
  <1>c. DeadInv'  BY <1>1, <1>d DEF DeadInv, Fetching
  <1>4. CASE UNCHANGED <<thread_pool, ready_queue>>
    <2>1. UNCHANGED <<thread_pool, ready_queue>>  BY <1>4
    <2>2. Queued' = Queued /\ (Once(ready_queue)' <=> Once(ready_queue))
      BY <2>1, NextRing
    <2>3. TypeOK'  BY <1>1, <1>2, <2>1, <2>2 DEF IInv, TypeOK, Places, MainCode
    <2>4. QueueInv'
      BY <1>1, <1>2, <2>1, <2>2 DEF IInv, QueueInv, Fetching
    <2>5. WaitInv'
      BY <1>1, <2>1, <2>2 DEF IInv, WaitInv, CanWait, Fetched, Fetching
    <2> QED  BY <1>3, <1>c, <2>3, <2>4, <2>5 DEF IInv
  <1>5. CASE ~UNCHANGED <<thread_pool, ready_queue>>
    <2>2. /\ free # {}
          /\ thread_pool' = [thread_pool EXCEPT ![t] = [state |-> "new", esp |-> "entry",
                                          stack |-> "held", jobs |-> JOBS * created']]
          /\ ready_queue' = queue_add(ready_queue, t)
      BY <1>5 DEF thread_create
    <2>1. t \in free
      <3>1. free \subseteq Nat  BY FifosAssumption DEF Threads
      <3> QED  BY <2>2, <3>1, MinExists
    <2> HIDE DEF t
    <2>3. t \in Threads /\ t \notin Queued
      BY <1>1, <2>1 DEF IInv, QueueInv
    <2>4. /\ ready_queue' \in Ring(pool_size + 1) /\ Once(ready_queue)'
          /\ Queued' = Queued \cup {t}
      BY <2>2, <2>3, QueueTakes, NextRing
    <2>5. /\ thread_pool' \in [Threads -> TCB]
          /\ thread_pool'[t].esp = "entry" /\ thread_pool'[t].stack = "held"
          /\ thread_pool'[t].state = "new"
          /\ \A u \in Threads \ {t} : thread_pool'[u] = thread_pool[u]
      <3>1. JOBS * created' \in Nat  BY <1>1, <1>2, FifosAssumption
      <3>2. [state |-> "new", esp |-> "entry", stack |-> "held", jobs |-> JOBS * created'] \in TCB
        BY <3>1 DEF TCB, State, Contexts
      <3> QED  BY <2>2, <2>3, <3>2 DEF IInv, TypeOK
    <2>6. TypeOK'
      BY <1>1, <1>2, <2>3, <2>4, <2>5 DEF IInv, TypeOK, Places, MainCode
    <2>7. QueueInv'
      <3>1. 0 \notin Threads  BY FifosAssumption DEF Threads
      <3> QED
        BY <1>1, <1>2, <2>3, <2>4, <2>5, <3>1 DEF IInv, QueueInv, Fetching
    <2>8. WaitInv'
      BY <1>1, <2>3, <2>4, <2>5 DEF IInv, WaitInv, CanWait, Fetched, Fetching
    <2> QED  BY <1>3, <1>c, <2>6, <2>7, <2>8 DEF IInv
  <1> QED  BY <1>4, <1>5

(* The main thread gives up the CPU.                                       *)
LEMMA YieldKeeps == IInv /\ yield => IInv'
  <1> SUFFICES ASSUME IInv, yield PROVE IInv'
    OBVIOUS
  <1>1. pc = "yield" /\ stash("after") /\ current_tid = 0 /\ ptr_current_esp = 0
    BY DEF yield, IInv, CpuInv, MainCode
  <1> QED  BY <1>1, StashKeeps

(* The timer interrupts anything.                                          *)
LEMMA TimerKeeps == IInv /\ timer => IInv'
  <1> SUFFICES ASSUME IInv, timer PROVE IInv'
    OBVIOUS
  <1> DEFINE place == IF pc \in ScheduleCode /\ ptr_current_esp # 0 THEN "overwritten" ELSE pc
  <1>1. pc \notin {"create", "halted", "crashed"} /\ stash(place) /\ pc \in Places
    BY DEF timer, IInv, TypeOK
  <1>2. ptr_current_esp = 0 => place \in {"yield", "after", "resume_main"}
    BY <1>1 DEF IInv, CpuInv, Places, ThreadCode, MainCode, ScheduleCode
  <1>3. ptr_current_esp # 0 => place \in ThreadCode \cup {"overwritten"}
    BY <1>1 DEF IInv, CpuInv, Places, ThreadCode, MainCode, ScheduleCode
  <1>4. current_tid # 0 /\ current_tid = ptr_current_esp => CanWait(current_tid, place)
    BY <1>1 DEF IInv, CpuInv, RunInv, CanWait, Places, ThreadCode, MainCode, ScheduleCode
  <1> HIDE DEF place
  <1> QED  BY <1>1, <1>2, <1>3, <1>4, StashKeeps

(* The body of a thread.                                                   *)
LEMMA BodyKeeps == IInv /\ (run_body \/ return_from_body) => IInv'
  <1> SUFFICES ASSUME IInv, run_body \/ return_from_body PROVE IInv'
    OBVIOUS
  <1>1. pc = "body" /\ current_tid = ptr_current_esp /\ current_tid # 0
        /\ current_tid \in Threads /\ thread_pool \in [Threads -> TCB]
    BY FifosAssumption
       DEF run_body, return_from_body, At, IInv, CpuInv, TypeOK, Threads, ThreadCode
  <1>2. UNCHANGED <<main_esp, ready_queue, current_tid, ptr_current_esp, polled, created, dead>>
    BY DEF run_body, return_from_body
  <1>3. Queued' = Queued /\ (Once(ready_queue)' <=> Once(ready_queue))
    BY <1>2, NextRing
  <1>4. CASE run_body
    <2>1. /\ thread_pool' = [thread_pool EXCEPT ![current_tid].jobs = @ - 1]
          /\ thread_pool[current_tid].jobs > 0 /\ UNCHANGED <<pc, finished>>
      BY <1>4 DEF run_body
    <2>2. /\ thread_pool' \in [Threads -> TCB]
          /\ \A t \in Threads : /\ thread_pool'[t].stack = thread_pool[t].stack
                                /\ thread_pool'[t].esp = thread_pool[t].esp
      <3>1. [thread_pool[current_tid] EXCEPT !.jobs = @ - 1] \in TCB  BY <1>1, <2>1 DEF TCB
      <3> QED  BY <1>1, <2>1, <3>1 DEF TCB
    <2>3. TypeOK'  BY <1>2, <1>3, <2>1, <2>2 DEF IInv, TypeOK
    <2>4. CpuInv'  BY <1>2, <2>1 DEF IInv, CpuInv
    <2>5. QueueInv'  BY <1>1, <1>2, <1>3, <2>1 DEF IInv, QueueInv, Fetching
    <2>6. WaitInv'  BY <1>1, <1>3, <2>1, <2>2 DEF IInv, WaitInv, CanWait, Fetched, Fetching
    <2>7. RunInv'  BY <1>1, <1>2, <2>1, <2>2 DEF IInv, RunInv
    <2>8. DeadInv'  BY <1>1, <1>2, <1>3, <2>1 DEF IInv, DeadInv, Fetching
    <2> QED  BY <2>3, <2>4, <2>5, <2>6, <2>7, <2>8 DEF IInv
  <1>5. CASE return_from_body
    <2>1. pc' = "finish" /\ finished' = finished \cup {current_tid} /\ UNCHANGED thread_pool
      BY <1>5 DEF return_from_body, At
    <2>2. TypeOK'  BY <1>1, <1>2, <1>3, <2>1 DEF IInv, TypeOK, Places, ThreadCode
    <2>3. CpuInv'  BY <1>1, <1>2, <2>1 DEF CpuInv, MainCode, ThreadCode
    <2>4. QueueInv'  BY <1>1, <1>2, <1>3, <2>1 DEF IInv, QueueInv, Fetching
    <2>5. WaitInv'  BY <1>1, <1>3, <2>1 DEF IInv, WaitInv, CanWait, Fetched, Fetching
    <2>6. RunInv'  BY <1>1, <1>2, <2>1 DEF IInv, RunInv
    <2>7. DeadInv'  BY <1>1, <1>2, <1>3, <2>1 DEF IInv, DeadInv, Fetching
    <2> QED  BY <2>2, <2>3, <2>4, <2>5, <2>6, <2>7 DEF IInv
  <1> QED  BY <1>4, <1>5

(* finish: the TCB is marked empty, the stack is freed, current_tid is     *)
(* cleared, and from then on nothing leads to the thread.                  *)
LEMMA FinishKeeps == IInv /\ finish => IInv'
  <1> SUFFICES ASSUME IInv, finish PROVE IInv'
    OBVIOUS
  <1>1. /\ UNCHANGED <<main_esp, ready_queue, ptr_current_esp, polled, created, finished>>
        /\ pc \in {"finish", "free_stack", "clear_tid", "trap"}
        /\ pc' \in {"free_stack", "clear_tid", "trap", "poll"}
    BY DEF finish, At
  <1>2. Queued' = Queued /\ (Once(ready_queue)' <=> Once(ready_queue))
    BY <1>1, NextRing
  <1>3. /\ ptr_current_esp # 0 /\ ptr_current_esp \in Threads /\ 0 \notin Threads
        /\ Queued \subseteq Threads
        /\ pc # "trap" => current_tid = ptr_current_esp
        /\ pc = "trap" => current_tid = 0
        /\ thread_pool \in [Threads -> TCB]
    BY <1>1, FifosAssumption DEF IInv, CpuInv, TypeOK, Threads, ThreadCode
  <1>4. /\ pc = "finish" => pc' = "free_stack" /\ UNCHANGED <<current_tid, dead>>
                         /\ thread_pool' = [thread_pool EXCEPT ![current_tid].state = "empty"]
        /\ pc = "free_stack" => pc' = "clear_tid" /\ UNCHANGED <<current_tid, dead>>
                         /\ thread_pool' = [thread_pool EXCEPT ![current_tid].stack = "freed"]
        /\ pc = "clear_tid" => pc' = "trap" /\ current_tid' = 0 /\ UNCHANGED thread_pool
                         /\ dead' = dead \cup {current_tid}
        /\ pc = "trap" => pc' = "poll" /\ UNCHANGED <<thread_pool, current_tid, dead>>
    BY DEF finish, At
  <1>5. /\ thread_pool' \in [Threads -> TCB]
        /\ pc # "free_stack" => \A t \in Threads : thread_pool'[t].stack = thread_pool[t].stack
        /\ \A t \in Threads \ {ptr_current_esp} : thread_pool'[t] = thread_pool[t]
    <2>1. [thread_pool[ptr_current_esp] EXCEPT !.state = "empty"] \in TCB
      BY <1>3 DEF TCB, State
    <2>2. [thread_pool[ptr_current_esp] EXCEPT !.stack = "freed"] \in TCB
      BY <1>3 DEF TCB
    <2> QED  BY <1>1, <1>3, <1>4, <2>1, <2>2 DEF TCB
  <1>6. TypeOK'
    <2>1. pc' \in Places /\ (current_tid' = current_tid \/ current_tid' = 0)
      BY <1>1, <1>4 DEF Places, ThreadCode, ScheduleCode
    <2>2. current_tid' \in 0 .. pool_size - 1
      BY <2>1, FifosAssumption DEF IInv, TypeOK
    <2>3. dead' \subseteq Threads  BY <1>1, <1>3, <1>4 DEF IInv, TypeOK
    <2> QED  BY <1>1, <1>2, <1>5, <2>1, <2>2, <2>3 DEF IInv, TypeOK
  <1>7. CpuInv'  BY <1>1, <1>3, <1>4 DEF CpuInv, MainCode, ThreadCode
  <1>8. QueueInv'  BY <1>1, <1>2, <1>3, <1>4 DEF IInv, QueueInv, Fetching
  <1>9. WaitInv'
    BY <1>1, <1>2, <1>3, <1>5 DEF IInv, QueueInv, WaitInv, CanWait, Fetched, Fetching
  <1>10. RunInv'  BY <1>1, <1>3, <1>4, <1>5 DEF IInv, RunInv
  <1>11. DeadInv'  BY <1>1, <1>2, <1>3, <1>4 DEF IInv, QueueInv, DeadInv, TypeOK, Fetching
  <1> QED  BY <1>6, <1>7, <1>8, <1>9, <1>10, <1>11 DEF IInv

(* The schedule of finish looks at the queue and takes the next thread.    *)
LEMMA PollKeeps == IInv /\ schedule_poll => IInv'
  <1> SUFFICES ASSUME IInv, schedule_poll PROVE IInv'
    OBVIOUS
  <1>1. /\ UNCHANGED <<thread_pool, main_esp, current_tid, ptr_current_esp, created, finished, dead>>
        /\ pc \in {"poll", "fetch", "advance"}
        /\ pc' \in {"idle", "fetch", "advance", "mark"}
    BY DEF schedule_poll, At
  <1>2. /\ current_tid = 0 /\ ptr_current_esp # 0
        /\ ready_queue \in Ring(pool_size + 1) /\ Once(ready_queue)
        /\ 0 \notin Threads /\ Threads \subseteq 0 .. pool_size - 1
        /\ Queued \subseteq Threads
    BY <1>1, FifosAssumption DEF IInv, CpuInv, QueueInv, TypeOK, Threads
  <1>3. CpuInv' /\ RunInv'  BY <1>1, <1>2 DEF CpuInv, RunInv, MainCode, ThreadCode
  <1>4. CASE pc \in {"poll", "fetch"}
    <2>1. /\ UNCHANGED ready_queue
          /\ pc' = "fetch" => ~queue_isEmpty(ready_queue) /\ UNCHANGED polled
          /\ pc' = "advance" => /\ pc = "fetch"
                                /\ polled' = [polled EXCEPT !.thread = Front(ready_queue)]
          /\ pc' = "idle" => UNCHANGED polled
          /\ pc' # "mark"
      BY <1>4 DEF schedule_poll, At
    <2>2. Queued' = Queued /\ (Once(ready_queue)' <=> Once(ready_queue))
          /\ (queue_isEmpty(ready_queue)' <=> queue_isEmpty(ready_queue))
          /\ Front(ready_queue)' = Front(ready_queue)
      BY <2>1, NextRing
    <2>3. polled' \in [thread : 0 .. pool_size - 1, state : State]
          /\ (pc' = "advance" => polled'.thread = Front(ready_queue))
      <3>1. CASE pc' # "advance"  BY <1>1, <2>1, <3>1 DEF IInv, TypeOK
      <3>2. CASE pc' = "advance"
        <4>1. ~queue_isEmpty(ready_queue)  BY <2>1, <3>2 DEF IInv, QueueInv
        <4>2. Front(ready_queue) \in Queued  BY <1>2, <4>1, QueueGives, NextRing
        <4>3. polled \in [thread : 0 .. pool_size - 1, state : State]  BY DEF IInv, TypeOK
        <4> QED  BY <1>2, <2>1, <3>2, <4>2, <4>3
      <3> QED  BY <3>1, <3>2
    <2>4. TypeOK'  BY <1>1, <2>2, <2>3 DEF IInv, TypeOK, Places, ScheduleCode
    <2>5. QueueInv'
      BY <1>1, <1>2, <2>1, <2>2, <2>3 DEF IInv, QueueInv, Fetching
    <2>6. WaitInv'
      BY <1>1, <2>1, <2>2 DEF IInv, WaitInv, CanWait, Fetched, Fetching
    <2>7. DeadInv'  BY <1>1, <2>1, <2>2 DEF IInv, DeadInv, Fetching
    <2> QED  BY <1>3, <2>4, <2>5, <2>6, <2>7 DEF IInv
  <1>5. CASE pc = "advance"
    <2>1. pc' = "mark" /\ ready_queue' = Polled(ready_queue) /\ UNCHANGED polled
      BY <1>5 DEF schedule_poll, At
    <2>2. ~queue_isEmpty(ready_queue) /\ polled.thread = Front(ready_queue)
      BY <1>5 DEF IInv, QueueInv
    <2>3. /\ ready_queue' \in Ring(pool_size + 1) /\ Once(ready_queue)'
          /\ Queued' = Queued \ {polled.thread} /\ polled.thread \in Queued
      BY <1>2, <2>1, <2>2, QueueGives, NextRing
    <2>4. TypeOK'  BY <1>1, <1>2, <2>1, <2>3 DEF IInv, TypeOK, Places, ScheduleCode
    <2>5. QueueInv'  BY <1>1, <1>2, <2>1, <2>3 DEF IInv, QueueInv, Fetching
    <2>6. WaitInv'
      BY <1>1, <1>2, <2>1, <2>3 DEF IInv, WaitInv, CanWait, Fetched, Fetching
    <2>7. DeadInv'  BY <1>1, <2>1, <2>3 DEF IInv, DeadInv, Fetching
    <2> QED  BY <1>3, <2>4, <2>5, <2>6, <2>7 DEF IInv
  <1> QED  BY <1>1, <1>4, <1>5

(* The schedule of finish makes that thread the current one and enters it. *)
LEMMA ThreadKeeps == IInv /\ schedule_thread => IInv'
  <1> SUFFICES ASSUME IInv, schedule_thread PROVE IInv'
    OBVIOUS
  <1> DEFINE u == polled.thread
  <1>1. /\ UNCHANGED <<main_esp, ready_queue, created, finished, dead>>
        /\ pc \in Fetching
    BY DEF schedule_thread, At, Fetching
  <1>2. /\ Queued' = Queued /\ (Once(ready_queue)' <=> Once(ready_queue))
        /\ queue_isEmpty(ready_queue)' = queue_isEmpty(ready_queue)
    BY <1>1, NextRing
  <1>3. /\ u \in Threads /\ u \notin Queued /\ u # 0
        /\ thread_pool \in [Threads -> TCB] /\ Threads \subseteq 0 .. pool_size - 1
        /\ polled \in [thread : 0 .. pool_size - 1, state : State]
        /\ CanWait(u, thread_pool[u].esp)
    BY <1>1, FifosAssumption DEF IInv, QueueInv, TypeOK, Threads, WaitInv, Fetched
  <1>4. CASE pc = "mark"
    <2>1. /\ pc' = "set_tid" /\ polled' = [polled EXCEPT !.state = thread_pool[u].state]
          /\ thread_pool' = [thread_pool EXCEPT ![u].state = "running"]
          /\ UNCHANGED <<current_tid, ptr_current_esp>>
      BY <1>4 DEF schedule_thread, At
    <2>2. /\ polled' \in [thread : 0 .. pool_size - 1, state : State] /\ polled'.thread = u
          /\ thread_pool' \in [Threads -> TCB]
          /\ \A t \in Threads : /\ thread_pool'[t].stack = thread_pool[t].stack
                                /\ thread_pool'[t].esp = thread_pool[t].esp
      <3>1. thread_pool[u].state \in State  BY <1>3 DEF TCB
      <3>2. [thread_pool[u] EXCEPT !.state = "running"] \in TCB  BY <1>3 DEF TCB, State
      <3>3. thread_pool' \in [Threads -> TCB]  BY <1>3, <2>1, <3>2
      <3> QED  BY <1>3, <2>1, <3>1, <3>3 DEF TCB
    <2>3. TypeOK'  BY <1>1, <1>2, <2>1, <2>2 DEF IInv, TypeOK, Places, ScheduleCode
    <2>4. CpuInv' /\ RunInv'
      BY <1>4, <2>1 DEF IInv, CpuInv, RunInv, MainCode, ThreadCode
    <2>5. QueueInv'  BY <1>1, <1>2, <1>3, <2>1, <2>2 DEF IInv, QueueInv, Fetching
    <2>6. WaitInv'
      BY <1>1, <1>2, <1>4, <2>1, <2>2 DEF IInv, WaitInv, CanWait, Fetched, Fetching
    <2>7. DeadInv'  BY <1>1, <1>2, <2>1, <2>2 DEF IInv, DeadInv, Fetching
    <2> QED  BY <2>3, <2>4, <2>5, <2>6, <2>7 DEF IInv
  <1>5. CASE pc \in {"set_tid", "set_ptr"}
    <2>1. /\ pc = "set_tid" => pc' = "set_ptr" /\ current_tid' = u /\ UNCHANGED ptr_current_esp
          /\ pc = "set_ptr" => pc' = "switch" /\ ptr_current_esp' = u /\ UNCHANGED current_tid
          /\ UNCHANGED <<thread_pool, polled>>
      BY <1>5 DEF schedule_thread, At
    <2>2. TypeOK'  BY <1>1, <1>2, <1>3, <1>5, <2>1 DEF IInv, TypeOK, Places, ScheduleCode
    <2>3. CpuInv' /\ RunInv'
      BY <1>3, <1>5, <2>1 DEF IInv, CpuInv, RunInv, MainCode, ThreadCode
    <2>4. QueueInv'  BY <1>1, <1>2, <1>3, <1>5, <2>1 DEF IInv, QueueInv, Fetching
    <2>5. WaitInv'
      BY <1>1, <1>2, <1>5, <2>1 DEF IInv, WaitInv, CanWait, Fetched, Fetching
    <2>6. DeadInv'  BY <1>1, <1>2, <1>5, <2>1 DEF IInv, DeadInv, Fetching
    <2> QED  BY <2>2, <2>3, <2>4, <2>5, <2>6 DEF IInv
  <1>6. CASE pc = "switch"
    <2>1. /\ pc' = Entered(polled.state, thread_pool[u].esp)
          /\ UNCHANGED <<thread_pool, current_tid, ptr_current_esp, polled>>
      BY <1>6 DEF schedule_thread, At
    <2>2. /\ pc' \in (ThreadCode \ {"trap"}) \cup {"crashed"}
          /\ pc' = thread_pool[u].esp \/ pc' \in {"crashed", "body"}
          /\ pc' = "body" => thread_pool[u].esp \in {"entry", "body"}
      BY <1>3, <2>1 DEF Entered, CanWait, ThreadCode
    <2>3. current_tid = u /\ ptr_current_esp = u  BY <1>6 DEF IInv, CpuInv
    <2>4. TypeOK'  BY <1>1, <1>2, <2>1, <2>2 DEF IInv, TypeOK, Places
    <2>5. CpuInv'  BY <1>3, <2>1, <2>2, <2>3 DEF CpuInv, MainCode, ThreadCode
    <2>6. RunInv'  BY <1>1, <1>3, <2>1, <2>2, <2>3 DEF RunInv, CanWait
    <2>7. QueueInv'  BY <1>1, <1>2, <2>1, <2>2 DEF IInv, QueueInv, Fetching, ThreadCode
    <2>8. WaitInv'
      BY <1>1, <1>2, <2>1, <2>2 DEF IInv, WaitInv, CanWait, Fetched, Fetching, ThreadCode
    <2>9. DeadInv'  BY <1>1, <1>2, <2>1, <2>2 DEF IInv, DeadInv, Fetching, ThreadCode
    <2> QED  BY <2>4, <2>5, <2>6, <2>7, <2>8, <2>9 DEF IInv
  <1> QED  BY <1>1, <1>4, <1>5, <1>6 DEF Fetching

(* Back to the main thread, which stops.                                   *)
LEMMA MainKeeps == IInv /\ (schedule_main \/ print_all_finished) => IInv'
  <1> SUFFICES ASSUME IInv, schedule_main \/ print_all_finished PROVE IInv'
    OBVIOUS
  <1>1. /\ UNCHANGED <<thread_pool, main_esp, ready_queue, polled, created, finished, dead>>
        /\ pc \in {"idle", "resume_main", "after"}
        /\ pc' \in {"resume_main", "yield", "after", "halted"}
        /\ current_tid' = 0 /\ ptr_current_esp' = 0
    BY DEF schedule_main, print_all_finished, At, IInv, CpuInv, TypeOK, MainCode
  <1>2. Queued' = Queued /\ (Once(ready_queue)' <=> Once(ready_queue))
    BY <1>1, NextRing
  <1>3. 0 \notin Threads /\ 0 \in 0 .. pool_size - 1 /\ Queued \subseteq Threads
    BY FifosAssumption DEF IInv, TypeOK, Threads
  <1>4. TypeOK'  BY <1>1, <1>2, <1>3 DEF IInv, TypeOK, Places, MainCode, ScheduleCode
  <1>5. CpuInv' /\ RunInv'  BY <1>1 DEF CpuInv, RunInv, MainCode, ThreadCode
  <1>6. QueueInv'  BY <1>1, <1>2, <1>3 DEF IInv, QueueInv, Fetching
  <1>7. WaitInv'  BY <1>1, <1>2 DEF IInv, WaitInv, CanWait, Fetched, Fetching
  <1>8. DeadInv'  BY <1>1, <1>2, <1>3 DEF IInv, TypeOK, DeadInv, Fetching
  <1> QED  BY <1>4, <1>5, <1>6, <1>7, <1>8 DEF IInv

(* A step that changes nothing.                                            *)
LEMMA StutterKeeps == IInv /\ UNCHANGED vars => IInv'
  <1> SUFFICES ASSUME IInv, UNCHANGED vars PROVE IInv'
    OBVIOUS
  <1>1. UNCHANGED <<thread_pool, main_esp, ready_queue, current_tid, ptr_current_esp, polled,
                    pc, created, finished, dead>>
    BY DEF vars
  <1>2. /\ Queued' = Queued /\ (Once(ready_queue)' <=> Once(ready_queue))
        /\ (queue_isEmpty(ready_queue)' <=> queue_isEmpty(ready_queue))
        /\ Front(ready_queue)' = Front(ready_queue)
    BY <1>1, NextRing
  <1>3. TypeOK' /\ CpuInv' /\ RunInv'  BY <1>1, <1>2 DEF IInv, TypeOK, CpuInv, RunInv, CanWait
  <1>4. QueueInv'  BY <1>1, <1>2 DEF IInv, QueueInv
  <1>5. WaitInv'  BY <1>1, <1>2 DEF IInv, WaitInv, CanWait, Fetched
  <1>6. DeadInv'  BY <1>1, <1>2 DEF IInv, DeadInv
  <1> QED  BY <1>3, <1>4, <1>5, <1>6 DEF IInv

(* Every step, and every interrupt of the timer, keeps it.                 *)
LEMMA NextKeeps == IInv /\ [Next]_vars => IInv'
  BY CreateKeeps, YieldKeeps, TimerKeeps, BodyKeeps, FinishKeeps, PollKeeps, ThreadKeeps,
     MainKeeps, StutterKeeps
     DEF Next, instruction

-----------------------------------------------------------------------------
(* The theorems *)

(* The invariant holds in every reachable state.                           *)
THEOREM SchedulerSound == Spec => []IInv
  BY InitHolds, NextKeeps, PTL DEF Spec

(* Whatever the timer interrupts, the variables of the scheduler hold      *)
(* values of their types, and the CPU is in a place that is known.         *)
THEOREM TypeCorrect == Spec => []TypeOK
  <1>1. IInv => TypeOK  BY DEF IInv
  <1> QED  BY <1>1, SchedulerSound, PTL

(* The queue holds each thread once at most, never the one that runs, and  *)
(* always has room: what add returns, and thread.c ignores, is always 1.   *)
THEOREM QueueIsSound == Spec => []QueueSound
  <1>1. IInv => QueueSound
    <2> SUFFICES ASSUME IInv PROVE QueueSound
      OBVIOUS
    <2>1. pool_size \in Nat \ {0} /\ pool_size + 1 \in Nat \ {0}  BY FifosAssumption
    <2>2. ready_queue \in Ring(pool_size + 1) /\ Once(ready_queue) /\ current_tid \notin Queued
      BY DEF IInv, QueueInv
    <2>3. Elements(ready_queue) \subseteq 1 .. pool_size - 1
      BY NextRing DEF IInv, TypeOK, Threads
    <2>4. ~queue_isFull(ready_queue)  BY <2>1, <2>2, <2>3, RoomForAll
    <2>5. Cardinality(Queued) = Length(ready_queue)  BY <2>1, <2>2, OnceLength, NextRing
    <2> QED  BY <2>2, <2>4, <2>5 DEF QueueSound
  <1> QED  BY <1>1, SchedulerSound, PTL

(* A thread that has cleared current_tid in finish is never in the queue   *)
(* and never current again, though the timer may interrupt it there.       *)
THEOREM DeadStayOut == Spec => []DeadNotQueued
  <1>1. IInv => DeadNotQueued  BY DEF IInv, DeadInv, DeadNotQueued
  <1> QED  BY <1>1, SchedulerSound, PTL

(* A thread that runs or waits to run has its stack, unless it stands      *)
(* between finish's free and the store that clears current_tid, or its     *)
(* saved context was written over.                                         *)
THEOREM StacksHeld == Spec => []StackHeld
  <1>1. IInv => StackHeld
    <2> SUFFICES ASSUME IInv, NEW t \in Threads \cap (Queued \cup {current_tid})
                 PROVE  LET place == IF t = current_tid /\ pc \in ThreadCode THEN pc
                                     ELSE thread_pool[t].esp
                        IN  thread_pool[t].stack # "held"
                              => place \in {"clear_tid", "overwritten"}
      BY DEF StackHeld
    <2>1. t # 0  BY FifosAssumption DEF Threads
    <2>2. CASE t = current_tid /\ pc \in ThreadCode
      BY <2>1, <2>2 DEF IInv, CpuInv, RunInv, ThreadCode
    <2>3. CASE t = current_tid /\ pc \notin ThreadCode
      <3>1. pc = "crashed" \/ Fetched(t)
        BY <2>1, <2>3 DEF IInv, TypeOK, CpuInv, Places, MainCode, ScheduleCode, Fetched,
                          Fetching
      <3> QED  BY <2>3, <3>1 DEF IInv, WaitInv, RunInv, CanWait
    <2>4. CASE t # current_tid  BY <2>4 DEF IInv, WaitInv, CanWait
    <2> QED  BY <2>2, <2>3, <2>4
  <1> QED  BY <1>1, SchedulerSound, PTL

-----------------------------------------------------------------------------
(* Which step loses a thread *)

(* A thread is lost by what is known of it alone.                          *)
LEMMA LostIs ==
  ASSUME NEW t \in Threads
  PROVE  /\ t \in Lost <=> /\ t \notin finished /\ thread_pool[t].state # "empty"
                           /\ t # current_tid /\ t \notin Queued
                           /\ ~(pc \in {"mark", "set_tid"} /\ polled.thread = t)
         /\ t \in Lost' <=> /\ t \notin finished' /\ thread_pool'[t].state # "empty"
                            /\ t # current_tid' /\ t \notin Queued'
                            /\ ~(pc' \in {"mark", "set_tid"} /\ polled'.thread = t)
  BY DEF Lost

(* schedule after stash loses nothing that it does not find half-way       *)
(* between the queue and current_tid.                                      *)
LEMMA StashLosesNone ==
  ASSUME IInv, NEW place, stash(place), pc \notin {"mark", "set_tid"}, NEW t \in Threads,
         ptr_current_esp = 0 => place \in {"yield", "after", "resume_main"}
  PROVE  t \in Lost' <=> t \in Lost
  <1> DEFINE pool == [u \in Threads |->
                        IF u = ptr_current_esp THEN [thread_pool[u] EXCEPT !.esp = place]
                        ELSE thread_pool[u]]
             pool1 == IF current_tid # 0 THEN [pool EXCEPT ![current_tid].state = "ready"]
                      ELSE pool
             esp0 == IF ptr_current_esp = 0 THEN place ELSE main_esp
             thread == Front(Requeued)
  <1>1. thread_pool \in [Threads -> TCB] /\ 0 \notin Threads
    BY FifosAssumption DEF IInv, TypeOK, QueueInv, Threads
  <1>2. /\ Requeued \in Ring(pool_size + 1) /\ Once(Requeued)
        /\ Elements(Requeued) = Queued \cup ({current_tid} \ {0})
    BY RequeuedIs
  <1>3. t # current_tid => pool1[t].state = thread_pool[t].state
    <2>1. pool[t].state = thread_pool[t].state  BY <1>1 DEF TCB
    <2>2. t # current_tid => pool1[t] = pool[t]  OBVIOUS
    <2> QED  BY <2>1, <2>2
  <1>4. DOMAIN pool1 = Threads  OBVIOUS
  <1>5. /\ UNCHANGED <<polled, finished>>
        /\ \/ /\ queue_isEmpty(Requeued)
              /\ current_tid' = 0 /\ thread_pool' = pool1 /\ ready_queue' = Requeued
              /\ pc' = esp0
           \/ /\ ~queue_isEmpty(Requeued)
              /\ thread_pool' = [pool1 EXCEPT ![thread].state = "running"]
              /\ ready_queue' = Polled(Requeued) /\ current_tid' = thread
              /\ pc' = Entered(pool1[thread].state, pool1[thread].esp)
    BY DEF stash, schedule
  <1>6. esp0 \in {"yield", "after", "resume_main"}  BY DEF IInv, TypeOK
  <1> HIDE DEF pool1, esp0
  <1>7. CASE queue_isEmpty(Requeued)
    <2>1. Elements(Requeued) = {}  BY <1>2, <1>7, EmptyIs
    <2>2. Queued' = {} /\ Queued = {} /\ current_tid = 0
      BY <1>2, <1>5, <1>7, <2>1, NextRing
    <2> QED  BY <1>1, <1>3, <1>5, <1>6, <1>7, <2>2, LostIs
  <1>8. CASE ~queue_isEmpty(Requeued)
    <2>1. /\ thread \in Elements(Requeued)
          /\ Elements(Polled(Requeued)) = Elements(Requeued) \ {thread}
      BY <1>2, <1>8, QueueGives
    <2>2. Queued' = Elements(Requeued) \ {thread} /\ current_tid' = thread
      BY <1>5, <1>8, <2>1, NextRing
    <2>3. pc' \notin {"mark", "set_tid"}
      BY <1>5, <1>8 DEF Entered, ThreadCode
    <2>4. t # thread => thread_pool'[t] = pool1[t]  BY <1>4, <1>5, <1>8
    <2> HIDE DEF thread
    <2>5. CASE t = thread  BY <1>2, <2>1, <2>2, <2>5, LostIs
    <2>6. CASE t # thread /\ t = current_tid
      <3>1. t \in Queued'  BY <1>1, <1>2, <2>2, <2>6
      <3> QED  BY <2>6, <3>1, LostIs
    <2>7. CASE t # thread /\ t # current_tid
      BY <1>2, <1>3, <1>5, <2>2, <2>3, <2>4, <2>7, LostIs
    <2> QED  BY <2>5, <2>6, <2>7
  <1> QED  BY <1>7, <1>8

(* The steps of init, yield included.                                      *)
LEMMA MainLosesNone ==
  ASSUME IInv, thread_create \/ yield \/ print_all_finished \/ schedule_main,
         NEW t \in Threads
  PROVE  t \in Lost' <=> t \in Lost
  <1>1. CASE yield
    BY <1>1, StashLosesNone DEF yield, IInv, CpuInv, MainCode
  <1>2. CASE print_all_finished \/ schedule_main
    <2>1. /\ UNCHANGED <<thread_pool, ready_queue, polled, finished>>
          /\ current_tid = 0 /\ current_tid' = 0
          /\ pc \notin {"mark", "set_tid"} /\ pc' \notin {"mark", "set_tid"}
      BY <1>2 DEF print_all_finished, schedule_main, At, IInv, CpuInv, TypeOK, MainCode
    <2> QED  BY <2>1, LostIs, NextRing
  <1>3. CASE thread_create
    <2> DEFINE free == {u \in Threads : thread_pool[u].state = "empty"}
               m == Min(free)
    <2>1. /\ pc = "create" /\ pc' \in {"create", "yield"}
          /\ UNCHANGED <<current_tid, polled, finished>>
          /\ \/ UNCHANGED <<thread_pool, ready_queue>>
             \/ /\ free # {}
                /\ thread_pool' = [thread_pool EXCEPT ![m] = [state |-> "new", esp |-> "entry",
                                          stack |-> "held", jobs |-> JOBS * created']]
                /\ ready_queue' = queue_add(ready_queue, m)
      BY <1>3 DEF thread_create
    <2>2. CASE UNCHANGED <<thread_pool, ready_queue>>
      BY <2>1, <2>2, LostIs, NextRing
    <2>3. CASE ~UNCHANGED <<thread_pool, ready_queue>>
      <3>1. m \in free
        <4>1. free \subseteq Nat  BY FifosAssumption DEF Threads
        <4> QED  BY <2>1, <2>3, <4>1, MinExists
      <3>2. m \in Threads \ Queued  BY <2>1, <3>1 DEF IInv, QueueInv
      <3>3. Queued' = Queued \cup {m}  BY <2>1, <2>3, <3>2, QueueTakes, NextRing
      <3>4. t # m => thread_pool'[t] = thread_pool[t]
        BY <2>1, <2>3 DEF IInv, TypeOK
      <3>5. t = m => thread_pool[t].state = "empty"  BY <3>1
      <3> HIDE DEF m
      <3> QED  BY <2>1, <3>3, <3>4, <3>5, LostIs
    <2> QED  BY <2>2, <2>3
  <1> QED  BY <1>1, <1>2, <1>3

(* The steps of a thread: one that clears current_tid has returned.        *)
LEMMA ThreadLosesNone ==
  ASSUME IInv, run_body \/ return_from_body \/ finish, NEW t \in Threads
  PROVE  t \in Lost' <=> t \in Lost
  <1>1. /\ UNCHANGED <<ready_queue, polled>> /\ Queued' = Queued
        /\ pc \notin {"mark", "set_tid"} /\ pc' \notin {"mark", "set_tid"}
    BY NextRing DEF run_body, return_from_body, finish, At
  <1>2. thread_pool \in [Threads -> TCB] /\ 0 \notin Threads
    BY FifosAssumption DEF IInv, TypeOK, Threads
  <1>3. CASE pc \notin {"clear_tid", "trap"}
    <2>1. UNCHANGED current_tid /\ (finished' = finished \/ finished' = finished \cup {current_tid})
      BY <1>3 DEF run_body, return_from_body, finish, At
    <2>2. t # current_tid => thread_pool'[t] = thread_pool[t]
      BY <1>2, <1>3 DEF run_body, return_from_body, finish, At
    <2> QED  BY <1>1, <2>1, <2>2, LostIs
  <1>4. CASE pc = "clear_tid"
    <2>1. current_tid' = 0 /\ UNCHANGED <<thread_pool, finished>> /\ current_tid \in finished
      BY <1>4 DEF run_body, return_from_body, finish, At, IInv, RunInv
    <2> QED  BY <1>1, <1>2, <2>1, LostIs
  <1>5. CASE pc = "trap"
    <2>1. UNCHANGED <<current_tid, thread_pool, finished>>
      BY <1>5 DEF run_body, return_from_body, finish, At
    <2> QED  BY <1>1, <2>1, LostIs
  <1> QED  BY <1>3, <1>4, <1>5

(* The schedule of finish keeps what it polled in `thread'.                *)
LEMMA ScheduleLosesNone ==
  ASSUME IInv, schedule_poll \/ schedule_thread, NEW t \in Threads
  PROVE  t \in Lost' <=> t \in Lost
  <1>1. UNCHANGED finished  BY DEF schedule_poll, schedule_thread
  <1>2. thread_pool \in [Threads -> TCB] /\ 0 \notin Threads
    BY FifosAssumption DEF IInv, TypeOK, Threads
  <1>3. CASE schedule_poll
    <2>1. UNCHANGED <<thread_pool, current_tid>>  BY <1>3 DEF schedule_poll
    <2>2. CASE pc = "advance"
      <3>1. pc' = "mark" /\ ready_queue' = Polled(ready_queue) /\ UNCHANGED polled
        BY <1>3, <2>2 DEF schedule_poll, At
      <3>2. /\ ~queue_isEmpty(ready_queue) /\ polled.thread = Front(ready_queue)
            /\ ready_queue \in Ring(pool_size + 1) /\ Once(ready_queue)
        BY <2>2 DEF IInv, QueueInv
      <3>3. Queued' = Queued \ {polled.thread} /\ polled.thread \in Queued
        BY <3>1, <3>2, QueueGives, NextRing
      <3> QED  BY <1>1, <2>1, <2>2, <3>1, <3>3, LostIs
    <2>3. CASE pc # "advance"
      <3>1. /\ UNCHANGED ready_queue /\ Queued' = Queued
            /\ pc \notin {"mark", "set_tid"} /\ pc' \notin {"mark", "set_tid"}
        BY <1>3, <2>3, NextRing DEF schedule_poll, At
      <3> QED  BY <1>1, <2>1, <3>1, LostIs
    <2> QED  BY <2>2, <2>3
  <1>4. CASE schedule_thread
    <2>1. UNCHANGED ready_queue /\ Queued' = Queued  BY <1>4, NextRing DEF schedule_thread
    <2>2. CASE pc = "mark"
      <3>1. /\ pc' = "set_tid" /\ UNCHANGED current_tid
            /\ polled' = [polled EXCEPT !.state = thread_pool[polled.thread].state]
            /\ thread_pool' = [thread_pool EXCEPT ![polled.thread].state = "running"]
        BY <1>4, <2>2 DEF schedule_thread, At
      <3>2. polled'.thread = polled.thread  BY <3>1 DEF IInv, TypeOK
      <3>3. t # polled.thread => thread_pool'[t] = thread_pool[t]  BY <1>2, <3>1
      <3> QED  BY <1>1, <2>1, <2>2, <3>1, <3>2, <3>3, LostIs
    <2>3. CASE pc = "set_tid"
      <3>1. /\ pc' = "set_ptr" /\ current_tid' = polled.thread /\ current_tid = 0
            /\ UNCHANGED <<thread_pool, polled>>
        BY <1>4, <2>3 DEF schedule_thread, At, IInv, CpuInv
      <3> QED  BY <1>1, <1>2, <2>1, <2>3, <3>1, LostIs
    <2>4. CASE pc \in {"set_ptr", "switch"}
      <3>1. /\ UNCHANGED <<thread_pool, current_tid>> /\ pc' \notin {"mark", "set_tid"}
        BY <1>4, <2>4 DEF schedule_thread, At, Entered, ThreadCode
      <3> QED  BY <1>1, <2>1, <2>4, <3>1, LostIs
    <2> QED  BY <1>4, <2>2, <2>3, <2>4 DEF schedule_thread, At
  <1> QED  BY <1>3, <1>4

(* Only the timer loses a thread, and only when it interrupts the schedule *)
(* that finish calls between queue_poll and the store to current_tid.      *)
THEOREM LostByTimerOnly == Spec => LostOnlyByFinish
  <1>1. IInv /\ [Next]_vars => [Lost' # Lost => timer /\ pc \in {"mark", "set_tid"}]_vars
    <2> SUFFICES ASSUME IInv, [Next]_vars, ~(timer /\ pc \in {"mark", "set_tid"}),
                        ~UNCHANGED vars
                 PROVE  Lost' = Lost
      OBVIOUS
    <2>1. ASSUME NEW t \in Threads PROVE t \in Lost' <=> t \in Lost
      <3>1. CASE timer
        <4> DEFINE place == IF pc \in ScheduleCode /\ ptr_current_esp # 0 THEN "overwritten"
                            ELSE pc
        <4>1. /\ stash(place) /\ pc \notin {"mark", "set_tid", "create", "halted", "crashed"}
              /\ pc \in Places
          BY <3>1 DEF timer, IInv, TypeOK
        <4>2. ptr_current_esp = 0 => place \in {"yield", "after", "resume_main"}
          BY <4>1 DEF IInv, CpuInv, Places, ThreadCode, MainCode, ScheduleCode
        <4> HIDE DEF place
        <4> QED  BY <4>1, <4>2, StashLosesNone
      <3> QED
        BY <3>1, MainLosesNone, ThreadLosesNone, ScheduleLosesNone DEF Next, instruction
    <2>2. Lost \subseteq Threads /\ Lost' \subseteq Threads  BY DEF Lost
    <2> QED  BY <2>1, <2>2
  <1> QED  BY <1>1, SchedulerSound, PTL DEF Spec, LostOnlyByFinish

=============================================================================
