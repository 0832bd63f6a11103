-------------------------------- MODULE Heap --------------------------------
(***************************************************************************)
(* The heap of FIFOS, FileSystem-v3/heap.c: first fit over blocks that lie *)
(* one behind the other in a buffer, each with a header of two words (its  *)
(* size with the bit `allocated', and the size of the block before it),    *)
(* and free blocks that are combined with their neighbours.                *)
(*                                                                         *)
(* Addresses and sizes are in cells of 8 bytes, to which everything is     *)
(* rounded; a header is one cell, and so is LASTPTR, cell 0 of the buffer. *)
(***************************************************************************)
EXTENDS Integers, FiniteSets, FiniteSetsExt

CONSTANTS
  MEM,     \* cells of the buffer: DEFAULT_MEM_SIZE/8 = 2^17 in the code
  Sizes    \* the numbers of cells that are asked for, rounded up

ASSUME HeapAssumption == MEM \in Nat \ {0, 1} /\ Sizes \subseteq Nat \ {0}

VARIABLES
  header,    \* the words in each cell, taken as a header
  LASTPTR,   \* the last block
  live,      \* history: what malloc returned and free has not got yet
  result     \* what the last malloc returned

vars == <<header, LASTPTR, live, result>>

NULL    == -1
baseptr == 1
DSIZE   == 1
Cell    == baseptr .. MEM - 1

(* What the user of a region may leave in it. *)
Junk == [size |-> 1, alloc |-> 0, prev |-> 1]

-----------------------------------------------------------------------------
(* h is a heap: its headers, and its last block. *)
NEXT_BLKP(h, p) == IF p < h.last THEN p + h.header[p].size ELSE NULL
PREV_BLKP(h, p) == IF p > baseptr THEN p - h.header[p].prev ELSE NULL

(* The blocks, as malloc walks over them. *)
Blocks(h) ==
  LET walk[i \in 0 .. MEM] ==
        IF i = 0 THEN baseptr
        ELSE LET p == walk[i - 1] IN IF p = NULL THEN NULL ELSE NEXT_BLKP(h, p)
  IN  {walk[i] : i \in 0 .. MEM} \ {NULL}

heap == [header |-> header, last |-> LASTPTR]

\* Seeded fault: the block behind is not told.
Announce_last(h, next, p, size) == IF next # NULL THEN h ELSE [h EXCEPT !.last = p]

(* The block behind p, or the pointer to the last block, has to know. *)
Announce(h, next, p, size) ==
  IF next # NULL THEN [h EXCEPT !.header[next].prev = size] ELSE [h EXCEPT !.last = p]

-----------------------------------------------------------------------------
(* malloc *)

Fits(h, p, blocksize) == h.header[p].alloc = 0 /\ h.header[p].size >= blocksize

(* The block p is taken whole, or its end stays a free block. *)
Placed(h, p, blocksize) ==
  LET newblocksize == h.header[p].size - blocksize
      newfree      == p + blocksize
      split == [h EXCEPT !.header[p].size = blocksize, !.header[p].alloc = 1,
                         !.header[newfree] = [size |-> newblocksize, alloc |-> 0,
                                              prev |-> blocksize]]
  IN  IF newblocksize <= DSIZE
      THEN [h EXCEPT !.header[p].alloc = 1]
      ELSE Announce(split, NEXT_BLKP(h, p), newfree, newblocksize)

malloc(size) ==
  LET blocksize == size + DSIZE
      fitting   == {p \in Blocks(heap) : Fits(heap, p, blocksize)}
      p         == Min(fitting)
      h         == Placed(heap, p, blocksize)
      region    == p + DSIZE .. p + h.header[p].size - 1
  IN  \/ fitting = {} /\ result' = NULL /\ UNCHANGED <<header, LASTPTR, live>>
      \/ /\ fitting # {}
         /\ header' = [c \in Cell |-> IF c \in region THEN Junk ELSE h.header[c]]
         /\ LASTPTR' = h.last
         /\ live' = live \cup {[addr |-> p + DSIZE, size |-> Cardinality(region)]}
         /\ result' = p + DSIZE

-----------------------------------------------------------------------------
(* free *)

(* A block and the free block behind it become one. *)
Combine(h, p, q) ==
  LET blocksize == h.header[p].size + h.header[q].size
  IN  Announce([h EXCEPT !.header[p].size = blocksize, !.header[p].alloc = 0],
               NEXT_BLKP(h, q), p, blocksize)

IsFree(h, p) == p # NULL /\ h.header[p].alloc = 0

WithNext(h, p) ==
  LET next == NEXT_BLKP(h, p)
  IN  IF IsFree(h, next) THEN Combine(h, p, next) ELSE [h EXCEPT !.header[p].alloc = 0]

\* Seeded fault: the block before is not looked at.
WithPrev_never(h, p) == h

WithPrev(h, p) ==
  LET prev == PREV_BLKP(h, p) IN IF IsFree(h, prev) THEN Combine(h, prev, p) ELSE h

free(r) ==
  /\ LET p == r.addr - DSIZE
         h == WithPrev(WithNext(heap, p), p)
     IN  header' = h.header /\ LASTPTR' = h.last
  /\ live' = live \ {r}
  /\ UNCHANGED result

-----------------------------------------------------------------------------
(* init_heap *)
Init ==
  /\ header = [c \in Cell |-> IF c = baseptr THEN [size |-> MEM - DSIZE, alloc |-> 0, prev |-> 0]
                              ELSE [size |-> 0, alloc |-> 0, prev |-> 0]]
  /\ LASTPTR = baseptr
  /\ live = {} /\ result = NULL

Next == (\E size \in Sizes : malloc(size)) \/ (\E r \in live : free(r))

Spec == Init /\ [][Next]_vars

-----------------------------------------------------------------------------
(* Type invariant. *)
TypeOK ==
  /\ header \in [Cell -> [size : 0 .. MEM, alloc : {0, 1}, prev : 0 .. MEM]]
  /\ LASTPTR \in Cell /\ result \in Cell \cup {NULL}

(* The blocks lie one behind the other from the start of the buffer to its *)
(* end, forwards by their sizes and backwards by the sizes before them,    *)
(* and LASTPTR is the last of them, after any splits and combinations.     *)
Tiled ==
  LET blocks == Blocks(heap)
      after(p) == p + header[p].size
  IN  /\ \A p \in blocks : header[p].size > 0
      /\ LASTPTR \in blocks /\ after(LASTPTR) = MEM
      /\ \A p \in blocks \ {LASTPTR} : after(p) \in blocks /\ header[after(p)].prev = header[p].size

(* Free memory is never split over neighbours, so malloc's first fit finds *)
(* any gap that is large enough.                                           *)
Merged ==
  \A p \in Blocks(heap) \ {LASTPTR} : header[p].alloc = 1 \/ header[p + header[p].size].alloc = 1

Abstract == INSTANCE Allocator WITH First <- baseptr, Last <- MEM - 1, OVERHEAD <- DSIZE,
                                    NoRegion <- NULL

(* malloc and free are an allocator: regions never overlap, neither each   *)
(* other nor the headers, and malloc returns NULL only when there is no    *)
(* gap for the region, however the heap was fragmented before.             *)
ImplementsAllocator == Abstract!Spec

=============================================================================
