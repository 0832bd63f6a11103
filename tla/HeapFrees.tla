------------------------------ MODULE HeapFrees ------------------------------
(***************************************************************************)
(* free of FileSystem-v3/heap.c as the threads of FIFOS call it: in        *)
(* finish, each for its own stack, with interrupts on, so that the timer   *)
(* may change threads between any two statements.  malloc is called by     *)
(* init only, with interrupts off, before the threads run.                 *)
(*                                                                         *)
(* A behaviour either goes on with calls that nobody interrupts, those of  *)
(* Heap, or starts the threads after some mallocs.                         *)
(***************************************************************************)
EXTENDS Heap

VARIABLES
  phase,     \* "init": mallocs only; then "alone" or "threads"
  freeing,   \* the calls of free under way: the local variables of each
  clashed    \* history: two calls were under way for blocks that are not apart

frees_vars == <<vars, phase, freeing, clashed>>

Busy == DOMAIN freeing

(* Something allocated, that nobody is giving back, lies between the two.  *)
Apart(r, s) ==
  \E m \in live \ Busy :
    (r.addr < m.addr /\ m.addr < s.addr) \/ (s.addr < m.addr /\ m.addr < r.addr)

-----------------------------------------------------------------------------
(* Statements of free and Combine.  `at' is the next one, p the block that *)
(* is freed; left and right are the arguments of Combine.                  *)

Goes(r, locals) == freeing' = [freeing EXCEPT ![r] = locals]
Puts(h)         == header' = h.header /\ LASTPTR' = h.last
Reads           == UNCHANGED <<header, LASTPTR>>

free_begin(r) ==
  /\ r \in live \ Busy
  /\ LET locals == [at |-> "next", p |-> r.addr - DSIZE, left |-> NULL, right |-> NULL,
                    size |-> 0, next |-> NULL]
     IN  freeing' = [s \in Busy \cup {r} |-> IF s = r THEN locals ELSE freeing[s]]
  /\ clashed' = \E s \in Busy : ~Apart(r, s)
  /\ Reads /\ UNCHANGED live

(* The tests of the block behind and of the block before.                  *)
free_tests(r) ==
  LET f    == freeing[r]
      next == NEXT_BLKP(heap, f.p)
      prev == PREV_BLKP(heap, f.p)
  IN  /\ \/ /\ f.at = "next"
            /\ Goes(r, [f EXCEPT !.next = next, !.at = IF next = NULL THEN "size" ELSE "next_alloc"])
         \/ /\ f.at = "next_alloc"
            /\ Goes(r, IF header[f.next].alloc = 0
                       THEN [f EXCEPT !.left = f.p, !.right = f.next, !.at = "sum"]
                       ELSE [f EXCEPT !.at = "size"])
         \/ /\ f.at = "prev"
            /\ Goes(r, [f EXCEPT !.left = prev, !.right = f.p,
                                 !.at = IF prev = NULL THEN "end" ELSE "prev_alloc"])
         \/ /\ f.at = "prev_alloc"
            /\ Goes(r, [f EXCEPT !.at = IF header[f.left].alloc = 0 THEN "sum" ELSE "end"])
      /\ Reads /\ UNCHANGED <<live, clashed>>

(* The block is marked free as it is.                                      *)
free_alone(r) ==
  LET f == freeing[r]
  IN  /\ \/ /\ f.at = "size" /\ Goes(r, [f EXCEPT !.size = header[f.p].size, !.at = "mark"])
            /\ Reads
         \/ /\ f.at = "mark" /\ Goes(r, [f EXCEPT !.at = "prev"])
            /\ Puts([heap EXCEPT !.header[f.p].size = f.size, !.header[f.p].alloc = 0])
      /\ UNCHANGED <<live, clashed>>

\* Seeded fault: the block behind is told the size of the block before.
combine_untold(r) ==
  LET f == freeing[r]
  IN  /\ \/ /\ f.at = "sum" /\ Reads
            /\ Goes(r, [f EXCEPT !.size = header[f.left].size + header[f.right].size,
                                 !.at = "behind"])
         \/ /\ f.at = "behind" /\ Reads
            /\ Goes(r, [f EXCEPT !.next = NEXT_BLKP(heap, f.right), !.at = "put"])
         \/ /\ f.at = "put" /\ Goes(r, [f EXCEPT !.at = "tell"])
            /\ Puts([heap EXCEPT !.header[f.left].size = f.size, !.header[f.left].alloc = 0])
         \/ /\ f.at = "tell" /\ Goes(r, [f EXCEPT !.at = IF f.left = f.p THEN "prev" ELSE "end"])
            /\ Puts(Announce(heap, f.next, f.left, header[f.right].size))
      /\ UNCHANGED <<live, clashed>>

(* Combine, of p and the block behind, or of the block before and p.       *)
combine(r) ==
  LET f == freeing[r]
  IN  /\ \/ /\ f.at = "sum" /\ Reads
            /\ Goes(r, [f EXCEPT !.size = header[f.left].size + header[f.right].size,
                                 !.at = "behind"])
         \/ /\ f.at = "behind" /\ Reads
            /\ Goes(r, [f EXCEPT !.next = NEXT_BLKP(heap, f.right), !.at = "put"])
         \/ /\ f.at = "put" /\ Goes(r, [f EXCEPT !.at = "tell"])
            /\ Puts([heap EXCEPT !.header[f.left].size = f.size, !.header[f.left].alloc = 0])
         \/ /\ f.at = "tell" /\ Goes(r, [f EXCEPT !.at = IF f.left = f.p THEN "prev" ELSE "end"])
            /\ Puts(Announce(heap, f.next, f.left, f.size))
      /\ UNCHANGED <<live, clashed>>

free_end(r) ==
  /\ freeing[r].at = "end"
  /\ freeing' = [s \in Busy \ {r} |-> freeing[s]]
  /\ live' = live \ {r}
  /\ Reads /\ UNCHANGED clashed

-----------------------------------------------------------------------------
FreesInit == Init /\ phase = "init" /\ freeing = <<>> /\ clashed = FALSE

(* The calls that nobody interrupts.                                       *)
uninterrupted ==
  /\ \/ phase \in {"init", "alone"} /\ (\E size \in Sizes : malloc(size)) /\ UNCHANGED phase
     \/ phase \in {"init", "alone"} /\ (\E r \in live : free(r)) /\ phase' = "alone"
     \/ phase = "init" /\ phase' = "threads" /\ UNCHANGED vars
  /\ UNCHANGED <<freeing, clashed>>

(* What comes of calls that clash is left out: a sum can then count a      *)
(* block twice, and the heap be any.                                       *)
threads ==
  /\ phase = "threads" /\ ~clashed
  /\ \/ \E r \in live : free_begin(r)
     \/ \E r \in Busy : free_tests(r) \/ free_alone(r) \/ combine(r) \/ free_end(r)
  /\ UNCHANGED <<result, phase>>

FreesNext == uninterrupted \/ threads

-----------------------------------------------------------------------------
(* Calls of free that interrupt each other anywhere leave the heap as      *)
(* calls one after the other do, if between any two of the blocks          *)
(* something stays allocated; no word that one of them writes is one that  *)
(* another has read or is going to write.                                  *)
TiledAtRest  == Busy # {} \/ Tiled
MergedAtRest == Busy # {} \/ Merged

=============================================================================
