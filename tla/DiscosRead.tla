----------------------------- MODULE DiscosRead -----------------------------
(***************************************************************************)
(* How the bytes of a rd_read of DISCOS reach the process: through         *)
(* read_buffer, one global array for all reads.                            *)
(*                                                                         *)
(* rd_read clears the first bytes of read_buffer, puts there what it reads *)
(* and copies bytes_to_read bytes from it to the process, page by page.    *)
(* copy_to_user may sleep at any byte of a page that is not in memory, and *)
(* then the calls of other processes go on.  Each descriptor is used by a  *)
(* process of its own.                                                     *)
(***************************************************************************)
EXTENDS DiscosIO

CONSTANTS
  CLEARED,      \* sizeof(bytes_to_read): 4 in the code
  LEFT,         \* a byte that a read left in read_buffer whose copy is over
  MAX_ASLEEP    \* bound: no call on a file of this size while a copy sleeps

\* num_bytes is an int, so there are finitely many of them.
ASSUME DiscosReadAssumption ==
  CLEARED \in Nat /\ LEFT \notin Nat /\ MAX_ASLEEP \in Nat /\ IsFiniteSet(Counts)

VARIABLES
  read_buffer,   \* the cells that a call copies from
  copy           \* the copy that the process of each descriptor is in

io_vars == <<vars, read_buffer, copy>>

Cells     == 1 .. Max(Counts)
OldBuffer == [k \in Cells |-> LEFT]

(* want bytes are to be copied, `got' were; `mine' is what the read put    *)
(* into read_buffer.  shared (history): another read has put its bytes     *)
(* there since.                                                            *)
NoCopy == [want |-> 0, got |-> <<>>, mine |-> <<>>, shared |-> FALSE]

Asleep(fd) == copy[fd] # NoCopy

\* Seeded fault: the memset comes after the bytes are there.
Refilled_then_cleared(bytes) ==
  [k \in Cells |-> IF k <= CLEARED THEN ZERO
                   ELSE IF k <= Len(bytes) THEN bytes[k]
                   ELSE read_buffer[k]]

Refilled(bytes) ==
  [k \in Cells |-> IF k <= Len(bytes) THEN bytes[k]
                   ELSE IF k <= CLEARED THEN ZERO
                   ELSE read_buffer[k]]

(* A call for no bytes copies none; any other sleeps, if only for a moment.*)
read_begin(fd, num_bytes) ==
  /\ rd_read(fd, num_bytes)
  /\ \/ last'.ret = -1 /\ UNCHANGED <<read_buffer, copy>>
     \/ /\ last'.ret # -1
        /\ copy' = [g \in Fd |->
             IF g # fd THEN [copy[g] EXCEPT !.shared = Asleep(g)]
             ELSE IF num_bytes = 0 THEN NoCopy
             ELSE [NoCopy EXCEPT !.want = num_bytes, !.mine = last'.bytes]]
        /\ read_buffer' = IF \A g \in Fd : copy'[g] = NoCopy THEN OldBuffer
                                                             ELSE Refilled(last'.bytes)

(* Copying up to the next byte at which copy_to_user sleeps, or to the end.*)
copy_to_user(fd) ==
  /\ Asleep(fd)
  /\ LET at == Len(copy[fd].got)
     IN  \E k \in 1 .. copy[fd].want - at :
           copy' = [copy EXCEPT ![fd].got = @ \o [i \in 1 .. k |-> read_buffer[at + i]]]
  /\ UNCHANGED <<vars, read_buffer>>

(* The end of rd_read.  What is in read_buffer when no copy goes on is old.*)
read_end(fd) ==
  /\ Asleep(fd) /\ Len(copy[fd].got) = copy[fd].want
  /\ copy' = [copy EXCEPT ![fd] = NoCopy]
  /\ read_buffer' = IF \A g \in Fd : copy'[g] = NoCopy THEN OldBuffer ELSE read_buffer
  /\ UNCHANGED vars

call(fd) ==
  /\ ~Asleep(fd)
  /\ file.size < MAX_ASLEEP \/ \A g \in Fd : ~Asleep(g)
  /\ \/ \E num_bytes \in Counts : read_begin(fd, num_bytes)
     \/ /\ \/ \E data \in Data : rd_write(fd, data)
           \/ \E offset \in Offsets : rd_lseek(fd, offset)
        /\ UNCHANGED <<read_buffer, copy>>

ReadInit == Init /\ read_buffer = OldBuffer /\ copy = [fd \in Fd |-> NoCopy]

ReadNext == \E fd \in Fd : call(fd) \/ copy_to_user(fd) \/ read_end(fd)

ReadSpec == ReadInit /\ [][ReadNext]_io_vars

-----------------------------------------------------------------------------
(* A process whose copy no other read ran into gets the bytes that it read,*)
(* as they were when it read them, whatever is written and sought while it *)
(* sleeps; where fewer were read than it asked for, the zeros of the       *)
(* memset, which clears an int's width, and only behind those what earlier *)
(* reads left.                                                             *)
GetsWhatItRead ==
  \A fd \in Fd :
    \/ copy[fd].shared
    \/ \A i \in DOMAIN copy[fd].got :
         IF i <= Len(copy[fd].mine) THEN copy[fd].got[i] = copy[fd].mine[i]
         ELSE i <= CLEARED => copy[fd].got[i] = ZERO

=============================================================================
