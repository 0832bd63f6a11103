------------------------------ MODULE Allocator ------------------------------
(* What heap.h promises: malloc hands out a region of the buffer that no    *)
(* other live region touches, or NULL when no gap is large enough; free     *)
(* takes a region back, and its cells can be handed out again.              *)
EXTENDS Integers, FiniteSets

CONSTANTS
  First, Last,    \* the first and the last cell that can be handed out
  Sizes,          \* the numbers of cells that callers ask for
  OVERHEAD,       \* cells that a region needs besides
  NoRegion        \* NULL

VARIABLES
  live,           \* the regions handed out: their first cell and how many cells
  result          \* what the last call of malloc returned

Cells(r)    == r.addr .. r.addr + r.size - 1
Taken(r)    == r.addr - OVERHEAD .. r.addr + r.size - 1
FreeCells   == (First .. Last) \ UNION {Taken(r) : r \in live}

(* A gap that is large enough for a region and its overhead. *)
HasRoom(size) == \E a \in First .. Last : a .. a + size + OVERHEAD - 1 \subseteq FreeCells

Malloc(size) ==
  \/ /\ \E r \in [addr : First + OVERHEAD .. Last, size : size .. Last - First + 1] :
          /\ result' = r.addr /\ live' = live \cup {r}
          /\ Taken(r) \subseteq FreeCells
  \/ ~HasRoom(size) /\ UNCHANGED live /\ result' = NoRegion

Free(r) == r \in live /\ live' = live \ {r} /\ UNCHANGED result

Init == live = {} /\ result = NoRegion
Next == (\E size \in Sizes : Malloc(size)) \/ (\E r \in live : Free(r))
Spec == Init /\ [][Next]_<<live, result>>

=============================================================================
