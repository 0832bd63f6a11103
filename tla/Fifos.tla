------------------------------- MODULE Fifos -------------------------------
(***************************************************************************)
(* The threads of FIFOS: the pool and the scheduler of                     *)
(* FileSystem-v3/thread.c, the context switch of context.s, the timer's    *)
(* handler of boot.s and the main thread of init.c, with the ready queue   *)
(* of queue.c.                                                             *)
(*                                                                         *)
(* One CPU executes one instruction stream, and the timer may interrupt it *)
(* wherever interrupts are on.  What runs with interrupts off is one step. *)
(* stash runs with them off up to resume or start, but finish reaches      *)
(* schedule through trap, which leaves them on: there schedule is taken    *)
(* apart into the reads and writes of what it shares with the handler.     *)
(***************************************************************************)
EXTENDS RingQueue, FiniteSets, FiniteSetsExt

CONSTANTS
  N,            \* threads that init creates: 3 in the code
  pool_size,    \* TCBs, the main thread's included: N*2 in the code
  JOBS          \* thread k prints JOBS * k times: 2 in the code

ASSUME FifosAssumption ==
  N \in Nat \ {0} /\ pool_size \in Nat \ {0, 1} /\ JOBS \in Nat \ {0}

VARIABLES
  thread_pool,      \* the TCBs 1 .. pool_size-1
  main_esp,         \* thread_pool[0].esp, for thread 0, the main thread
  ready_queue,
  current_tid,
  ptr_current_esp,  \* the TCB that it points into
  polled,           \* `thread' and `state' of a schedule that can be interrupted
  pc,               \* where the CPU is
  created,          \* calls of thread_create so far
  finished,         \* history: the threads whose body has returned
  dead              \* history: the threads that have cleared current_tid in finish

vars == <<thread_pool, main_esp, ready_queue, current_tid, ptr_current_esp, polled, pc,
          created, finished, dead>>

Threads == 1 .. pool_size - 1

(* Places in the code.  Those of a thread: its body, and the steps of      *)
(* finish.  Those of the main thread: init up to and after yield.  Those   *)
(* of the schedule that finish calls, on the main thread's stack.          *)
ThreadCode   == {"body", "finish", "free_stack", "clear_tid", "trap"}
MainCode     == {"create", "yield", "after", "halted"}
ScheduleCode == {"poll", "fetch", "advance", "mark", "set_tid", "set_ptr", "switch",
                 "idle", "resume_main"}
Places == ThreadCode \cup MainCode \cup ScheduleCode \cup {"crashed"}

(* What a saved esp leads to: a place in the code, a stack that was never  *)
(* run, or what the scheduler left below the main thread's frame and has   *)
(* written over since.                                                     *)
Contexts == ThreadCode \cup {"nothing", "entry", "overwritten"}

State == {"empty", "new", "ready", "running"}
TCB   == [state : State, esp : Contexts, stack : {"none", "held", "freed"}, jobs : Nat]

Init ==
  /\ thread_pool = [t \in Threads |-> [state |-> "empty", esp |-> "nothing",
                                       stack |-> "none", jobs |-> 0]]
  /\ main_esp = "yield"
  /\ ready_queue = init_queue(pool_size)
  /\ current_tid = 0 /\ ptr_current_esp = 0
  /\ polled = [thread |-> NIL, state |-> "empty"]
  /\ pc = "create" /\ created = 0 /\ finished = {} /\ dead = {}

-----------------------------------------------------------------------------
(* The main thread, interrupts off until its sti *)

(* The first empty TCB gets a stack with the body's address on it, if there *)
(* is one and there is memory for the stack.                               *)
thread_create ==
  /\ pc = "create"
  /\ created' = created + 1
  /\ pc' = IF created' = N THEN "yield" ELSE "create"
  /\ LET free == {t \in Threads : thread_pool[t].state = "empty"}
         t    == Min(free)
     IN  \/ UNCHANGED <<thread_pool, ready_queue>>
         \/ /\ free # {}
            /\ thread_pool' = [thread_pool EXCEPT
                 ![t] = [state |-> "new", esp |-> "entry", stack |-> "held",
                         jobs |-> JOBS * created']]
            /\ ready_queue' = queue_add(ready_queue, t)
  /\ UNCHANGED <<main_esp, current_tid, ptr_current_esp, polled, finished, dead>>

print_all_finished ==
  /\ pc = "after"
  /\ pc' = "halted"
  /\ UNCHANGED <<thread_pool, main_esp, ready_queue, current_tid, ptr_current_esp, polled,
                 created, finished, dead>>

-----------------------------------------------------------------------------
(* The context switch *)

(* start jumps to the body; resume pops a context that stash saved.  With  *)
(* anything else on the stack the CPU goes astray.                         *)
Entered(state, esp) ==
  IF state = "new" /\ esp = "entry" THEN "body"
  ELSE IF state # "new" /\ esp \in ThreadCode THEN esp
  ELSE "crashed"

\* Seeded fault: the interrupted thread is not put back.
Requeued_never == ready_queue

\* Seeded fault: the main thread is put back too.
Requeued_always == queue_add(ready_queue, current_tid)

(* The thread that was interrupted goes to the end of the queue. *)
Requeued ==
  IF current_tid # 0 THEN queue_add(ready_queue, current_tid) ELSE ready_queue

(* schedule with interrupts off, for the pool and the main thread's        *)
(* context as stash left them.                                             *)
schedule(pool, esp0) ==
  LET pool1  == IF current_tid # 0 THEN [pool EXCEPT ![current_tid].state = "ready"] ELSE pool
      queue1 == Requeued
      thread == Front(queue1)
  IN  /\ main_esp' = esp0
      /\ \/ /\ queue_isEmpty(queue1)
            /\ current_tid' = 0 /\ ptr_current_esp' = 0
            /\ thread_pool' = pool1 /\ ready_queue' = queue1
            /\ pc' = esp0
         \/ /\ ~queue_isEmpty(queue1)
            /\ thread_pool' = [pool1 EXCEPT ![thread].state = "running"]
            /\ ready_queue' = Polled(queue1)
            /\ current_tid' = thread /\ ptr_current_esp' = thread
            /\ pc' = Entered(pool1[thread].state, pool1[thread].esp)
      /\ UNCHANGED <<polled, created, finished, dead>>

(* stash saves the context where ptr_current_esp points, and schedules. *)
stash(place) ==
  schedule([t \in Threads |-> IF t = ptr_current_esp THEN [thread_pool[t] EXCEPT !.esp = place]
                              ELSE thread_pool[t]],
           IF ptr_current_esp = 0 THEN place ELSE main_esp)

yield == pc = "yield" /\ stash("after")

(* The timer's interrupt, wherever interrupts are on.  A context that was  *)
(* interrupted on the main thread's stack is written over by the schedule  *)
(* that follows, unless it is the main thread's own: then schedule works   *)
(* below it.                                                               *)
timer ==
  /\ pc \notin {"create", "halted", "crashed"}
  /\ stash(IF pc \in ScheduleCode /\ ptr_current_esp # 0 THEN "overwritten" ELSE pc)

-----------------------------------------------------------------------------
(* A thread *)

At(from, to) == pc = from /\ pc' = to

(* One round of the loop, and the return into finish. *)
run_body ==
  /\ pc = "body" /\ thread_pool[current_tid].jobs > 0
  /\ thread_pool' = [thread_pool EXCEPT ![current_tid].jobs = @ - 1]
  /\ UNCHANGED <<main_esp, ready_queue, current_tid, ptr_current_esp, polled, pc, created,
                 finished, dead>>

return_from_body ==
  /\ At("body", "finish") /\ thread_pool[current_tid].jobs = 0
  /\ finished' = finished \cup {current_tid}
  /\ UNCHANGED <<thread_pool, main_esp, ready_queue, current_tid, ptr_current_esp, polled,
                 created, dead>>

\* Seeded fault: current_tid is not cleared.
finish_tracked ==
  /\ \/ /\ At("finish", "free_stack")
        /\ thread_pool' = [thread_pool EXCEPT ![current_tid].state = "empty"]
        /\ UNCHANGED dead
     \/ /\ At("free_stack", "clear_tid")
        /\ thread_pool' = [thread_pool EXCEPT ![current_tid].stack = "freed"]
        /\ UNCHANGED dead
     \/ /\ At("clear_tid", "trap")
        /\ dead' = dead \cup {current_tid} /\ UNCHANGED thread_pool
     \/ At("trap", "poll") /\ UNCHANGED <<thread_pool, dead>>
  /\ UNCHANGED <<main_esp, ready_queue, current_tid, ptr_current_esp, polled, created, finished>>

(* finish, interrupts on: the TCB is marked empty, the stack it runs on is *)
(* freed, current_tid is cleared; trap changes to the main thread's stack. *)
finish ==
  /\ \/ /\ At("finish", "free_stack")
        /\ thread_pool' = [thread_pool EXCEPT ![current_tid].state = "empty"]
        /\ UNCHANGED <<current_tid, dead>>
     \/ /\ At("free_stack", "clear_tid")
        /\ thread_pool' = [thread_pool EXCEPT ![current_tid].stack = "freed"]
        /\ UNCHANGED <<current_tid, dead>>
     \/ /\ At("clear_tid", "trap")
        /\ current_tid' = 0 /\ dead' = dead \cup {current_tid} /\ UNCHANGED thread_pool
     \/ At("trap", "poll") /\ UNCHANGED <<thread_pool, current_tid, dead>>
  /\ UNCHANGED <<main_esp, ready_queue, ptr_current_esp, polled, created, finished>>

-----------------------------------------------------------------------------
(* schedule as finish calls it.  current_tid is 0, nothing is put back.    *)

schedule_poll ==
  /\ \/ At("poll", "idle") /\ queue_isEmpty(ready_queue) /\ UNCHANGED <<polled, ready_queue>>
     \/ At("poll", "fetch") /\ ~queue_isEmpty(ready_queue) /\ UNCHANGED <<polled, ready_queue>>
     \/ /\ At("fetch", "advance")
        /\ polled' = [polled EXCEPT !.thread = Front(ready_queue)]
        /\ UNCHANGED ready_queue
     \/ /\ At("advance", "mark")
        /\ ready_queue' = Polled(ready_queue)
        /\ UNCHANGED polled
  /\ UNCHANGED <<thread_pool, main_esp, current_tid, ptr_current_esp, created, finished, dead>>

schedule_thread ==
  /\ \/ /\ At("mark", "set_tid")
        /\ polled' = [polled EXCEPT !.state = thread_pool[polled.thread].state]
        /\ thread_pool' = [thread_pool EXCEPT ![polled.thread].state = "running"]
        /\ UNCHANGED <<current_tid, ptr_current_esp>>
     \/ /\ At("set_tid", "set_ptr") /\ current_tid' = polled.thread
        /\ UNCHANGED <<thread_pool, ptr_current_esp, polled>>
     \/ /\ At("set_ptr", "switch") /\ ptr_current_esp' = polled.thread
        /\ UNCHANGED <<thread_pool, current_tid, polled>>
     \/ /\ At("switch", Entered(polled.state, thread_pool[polled.thread].esp))
        /\ UNCHANGED <<thread_pool, current_tid, ptr_current_esp, polled>>
  /\ UNCHANGED <<main_esp, ready_queue, created, finished, dead>>

(* No thread to run: back to the main thread. *)
schedule_main ==
  /\ \/ At("idle", "resume_main") /\ current_tid' = 0 /\ ptr_current_esp' = 0
     \/ At("resume_main", main_esp) /\ UNCHANGED <<current_tid, ptr_current_esp>>
  /\ UNCHANGED <<thread_pool, main_esp, ready_queue, polled, created, finished, dead>>

-----------------------------------------------------------------------------
(* The instructions of the CPU, and the interrupt. *)
instruction ==
  \/ thread_create \/ yield \/ print_all_finished
  \/ run_body \/ return_from_body \/ finish
  \/ schedule_poll \/ schedule_thread \/ schedule_main

Next == instruction \/ timer

(* The CPU executes; nothing is asked of the timer. *)
Spec == Init /\ [][Next]_vars /\ WF_vars(instruction)

-----------------------------------------------------------------------------
Queued == {Items(ready_queue)[i] : i \in DOMAIN Items(ready_queue)}

(* Type invariant.                                                         *)
TypeOK ==
  /\ thread_pool \in [Threads -> TCB]
  /\ main_esp \in {"yield", "after", "resume_main"}
  /\ Queued \subseteq Threads
  /\ current_tid \in 0 .. pool_size - 1 /\ ptr_current_esp \in 0 .. pool_size - 1
  /\ polled \in [thread : 0 .. pool_size - 1, state : State]
  /\ pc \in Places /\ created \in 0 .. N
  /\ finished \subseteq Threads /\ dead \subseteq Threads

(* A thread is in the queue once at most, and not while it runs: schedule  *)
(* never adds what is in the queue, wherever the timer hits finish, and so *)
(* the queue has room for it (thread.c ignores what add returns).          *)
QueueSound ==
  /\ Cardinality(Queued) = Length(ready_queue)
  /\ current_tid \notin Queued
  /\ ~queue_isFull(ready_queue)

(* A thread that has cleared current_tid in finish is never queued and     *)
(* never runs again, though it goes on with interrupts on, and although an *)
(* interrupted finish before that point is put back and gone on with.      *)
DeadNotQueued == dead \cap (Queued \cup {current_tid}) = {}

(* A thread that runs or waits to run has its stack, which finish frees    *)
(* once, but in two cases: it stands between that free and the store that  *)
(* clears current_tid, or its saved context was written over.              *)
StackHeld ==
  \A t \in Threads \cap (Queued \cup {current_tid}) :
    LET place == IF t = current_tid /\ pc \in ThreadCode THEN pc ELSE thread_pool[t].esp
    IN  thread_pool[t].stack # "held" => place \in {"clear_tid", "overwritten"}

(* Threads whose body has not returned, and that nothing will run. *)
Lost ==
  {t \in Threads \ finished :
     /\ thread_pool[t].state # "empty"
     /\ t # current_tid /\ t \notin Queued
     /\ ~(pc \in {"mark", "set_tid"} /\ polled.thread = t)}

(* schedule loses a thread in one case only: finish has called it, and the *)
(* timer interrupts it after queue_poll took the thread out of the queue   *)
(* and before current_tid is set.                                          *)
LostOnlyByFinish ==
  [][Lost' # Lost => timer /\ pc \in {"mark", "set_tid"}]_vars

(* Every thread in the queue gets the CPU, unless the CPU has gone astray: *)
(* a thread that is interrupted goes behind those that wait.  And when no  *)
(* thread is left the main thread comes to its last line, unless the timer *)
(* hit the schedule of finish between its store to ptr_current_esp and     *)
(* resume: then that place is what the main thread's TCB leads back to.    *)
EachGetsTheCpu ==
  /\ \A t \in Threads : t \in Queued ~> (t \notin Queued \/ pc = "crashed")
  /\ (pc # "create" /\ Queued = {} /\ current_tid = 0)
       ~> (pc = "halted" \/ current_tid # 0 \/ main_esp = "resume_main")

-----------------------------------------------------------------------------
(* What the code says of itself, and does not do.                          *)

(* context.s:33: "from perspective of thread, the call to stash (thus      *)
(* yield) returns".  schedule never resumes a thread anywhere else.        *)
ResumesWhereItStopped == pc # "crashed"

=============================================================================
