------------------------------ MODULE DiscosIO ------------------------------
(***************************************************************************)
(* The contents of a DISCOS file: rd_write, rd_lseek and rd_read of        *)
(* kernelspace/discos.c on one regular file that several file objects are  *)
(* open on, with the blocks that rd_write attaches.                        *)
(*                                                                         *)
(* The three loops over direct, single and double indirect blocks are one  *)
(* fold over the places they visit.  A place is the path of slots from the *)
(* inode to a data block: <<i>> is a direct block, the slot                *)
(* INODE_NUM_DIRECT_PTR of the inode is its single indirect pointer and    *)
(* the next one its double indirect pointer.                               *)
(***************************************************************************)
EXTENDS Integers, FiniteSets, Sequences, SequencesExt

CONSTANTS
  Fd,                   \* the descriptors that are open on the file
  ReadOnly,             \* those of them whose status is RD
  Data,                 \* the buffers that callers write: sequences of bytes
  Counts,               \* the numbers of bytes they read
  INODE_NUM_DIRECT_PTR, \* 8 in the code
  PTRS_PER_BLOCK,       \* BLOCK_SIZE/4: 64 in the code
  BLOCK_SIZE,           \* 256 in the code
  DATA_BLOCKS_NUM,      \* 7931 in the code, less what other files hold
  UINT_RANGE,           \* 2^32: the range of an unsigned int
  MAX_SIZE              \* bound: no write to a file of this size

ASSUME DiscosIOAssumption ==
  /\ ReadOnly \subseteq Fd /\ Counts \subseteq Nat
  /\ \A data \in Data : data \in Seq(Nat) /\ data # <<>>
  /\ {INODE_NUM_DIRECT_PTR, PTRS_PER_BLOCK, BLOCK_SIZE, UINT_RANGE} \subseteq Nat \ {0}
  /\ DATA_BLOCKS_NUM \in Nat /\ MAX_SIZE \in Nat

VARIABLES
  file,     \* the inode's size and pointers, the data blocks and the bitmap
  cursor,   \* the cursor of each file object
  last,     \* what the last call returned, and the bytes it read
  inOrder,  \* history: each write so far went on where the last one ended
  log       \* history: the bytes written so far, while that is so

vars == <<file, cursor, last, inOrder, log>>

-----------------------------------------------------------------------------
NULL == -1
ZERO == 0                        \* the byte '\0'

SINGLE    == INODE_NUM_DIRECT_PTR
DOUBLE    == INODE_NUM_DIRECT_PTR + 1
BlockNum  == 0 .. DATA_BLOCKS_NUM - 1
BlockPtr  == BlockNum \cup {NULL}
InodeIdx  == 0 .. DOUBLE
PtrIdx    == 0 .. PTRS_PER_BLOCK - 1
Offset    == 0 .. BLOCK_SIZE - 1
UInt      == 0 .. UINT_RANGE - 1

(* Blocks in a file: up to the end of the direct, single and double ranges. *)
SINGLE_START == INODE_NUM_DIRECT_PTR
DOUBLE_START == SINGLE_START + PTRS_PER_BLOCK
MAX_BLOCKS   == DOUBLE_START + PTRS_PER_BLOCK * PTRS_PER_BLOCK

ZeroBlock == [data |-> [j \in Offset |-> ZERO], index_block |-> [k \in PtrIdx |-> NULL]]
EmptyFile == [size |-> 0, pointers |-> [i \in InodeIdx |-> NULL], bitmap |-> {},
              data_blocks |-> [b \in BlockNum |-> ZeroBlock]]

-----------------------------------------------------------------------------
(* Places *)

DirectPlaces(seg) == [k \in 1 .. INODE_NUM_DIRECT_PTR - seg |-> <<seg + k - 1>>]

SinglePlaces(seg) ==
  [k \in 1 .. DOUBLE_START - seg |-> <<SINGLE, seg - SINGLE_START + k - 1>>]

(* seg is divided once for each index block: where the loop over the i-th  *)
(* one starts.  (rd_read divides only for those that exist; these are the  *)
(* first ones, as rd_write always begins with slot 0.)                     *)
DoublePlaces(seg) ==
  LET first[i \in 0 .. PTRS_PER_BLOCK - 1] ==
        (IF i = 0 THEN seg - DOUBLE_START ELSE first[i - 1]) \div PTRS_PER_BLOCK
      under(i) == [k \in 1 .. PTRS_PER_BLOCK - first[i] |-> <<DOUBLE, i, first[i] + k - 1>>]
  IN  FlattenSeq([i \in 1 .. PTRS_PER_BLOCK |-> under(i - 1)])

(* The direct, single indirect and double indirect range: 1, 2 and 3.      *)
Places(seg, range) ==
  CASE range = 1 -> DirectPlaces(seg)
    [] range = 2 -> SinglePlaces(seg)
    [] range = 3 -> DoublePlaces(seg)

InRange(seg, range) ==
  CASE range = 1 -> seg < SINGLE_START
    [] range = 2 -> seg \in SINGLE_START .. DOUBLE_START - 1
    [] range = 3 -> seg \in DOUBLE_START .. MAX_BLOCKS - 1

(* The pointer in slot k of the inode (at = NULL) or of an index block.    *)
Pointer(f, at, k) == IF at = NULL THEN f.pointers[k] ELSE f.data_blocks[at].index_block[k]

(* The data block at a place, or NULL. *)
BlockAt(f, place) ==
  FoldLeft(LAMBDA at, k : IF at = NULL THEN NULL ELSE Pointer(f, at, k),
           Pointer(f, NULL, Head(place)), Tail(place))

-----------------------------------------------------------------------------
(* rd_write.  w is the file with the state of the call: n bytes written,   *)
(* out = "on" until it returns, at: the block that was reached.            *)

\* Seeded fault: the bit of the new block is not set.
Store_unmarked(w, at, k, b) ==
  LET new == [w EXCEPT !.data_blocks[b] = ZeroBlock, !.at = b]
  IN  IF at = NULL THEN [new EXCEPT !.pointers[k] = b]
                   ELSE [new EXCEPT !.data_blocks[at].index_block[k] = b]

Store(w, at, k, b) ==
  LET new == [w EXCEPT !.bitmap = @ \cup {b}, !.data_blocks[b] = ZeroBlock, !.at = b]
  IN  IF at = NULL THEN [new EXCEPT !.pointers[k] = b]
                   ELSE [new EXCEPT !.data_blocks[at].index_block[k] = b]

\* Seeded fault: a pointer that is not NULL is not followed but replaced.
Step_anew(w, k) ==
  IF w.out # "on" THEN w
  ELSE IF BlockNum \subseteq w.bitmap THEN [w EXCEPT !.out = "no block"]
  ELSE Store(w, w.at, k, Min(BlockNum \ w.bitmap))

(* Follow one pointer, with a new block where there is none.               *)
Step(w, k) ==
  LET b == Pointer(w, w.at, k)
  IN  IF w.out # "on" THEN w
      ELSE IF b # NULL THEN [w EXCEPT !.at = b]
      ELSE IF BlockNum \subseteq w.bitmap THEN [w EXCEPT !.out = "no block"]
      ELSE Store(w, w.at, k, Min(BlockNum \ w.bitmap))

(* The bytes that can be written before a '\0' or the end of the call.     *)
Writable(data, num_bytes) ==
  LET zeros == {k \in 1 .. num_bytes : data[k] = ZERO}
  IN  IF zeros = {} THEN num_bytes ELSE Min(zeros) - 1

\* Seeded fault: the size is not updated.
Fill_unsized(w, data, num_bytes, offset) ==
  LET m == Min({Writable(data, num_bytes) - w.n, BLOCK_SIZE - offset})
  IN  [w EXCEPT !.data_blocks[w.at].data =
                   [j \in Offset |-> IF j \in offset .. offset + m - 1
                                     THEN data[w.n + j - offset + 1] ELSE @[j]],
                !.n = @ + m,
                !.out = IF w.n + m = num_bytes THEN "done" ELSE "on"]

(* The loop over the cells of one block. *)
Fill(w, data, num_bytes, offset) ==
  LET m == Min({Writable(data, num_bytes) - w.n, BLOCK_SIZE - offset})
  IN  [w EXCEPT !.data_blocks[w.at].data =
                   [j \in Offset |-> IF j \in offset .. offset + m - 1
                                     THEN data[w.n + j - offset + 1] ELSE @[j]],
                !.n = @ + m, !.size = (@ + m) % UINT_RANGE,
                !.out = IF w.n + m = num_bytes THEN "done" ELSE "on"]

(* The loop over blocks; the same offset in each. *)
WriteAt(w0, places, offset, data, num_bytes) ==
  FoldLeft(LAMBDA w, place :
             LET v == FoldLeft(Step, [w EXCEPT !.at = NULL], place)
             IN  IF v.out = "on" THEN Fill(v, data, num_bytes, offset) ELSE v,
           w0, places)

(* The ranges in turn: from the cursor in the first one, and from the end  *)
(* of the file, as it then is, in the others.                              *)
Written(f, pos, data, num_bytes) ==
  FoldLeft(LAMBDA w, range :
             LET at  == IF range = 1 THEN pos ELSE w.size
                 seg == at \div BLOCK_SIZE
             IN  IF w.out = "on" /\ InRange(seg, range)
                 THEN WriteAt(w, Places(seg, range), at % BLOCK_SIZE, data, num_bytes)
                 ELSE [w EXCEPT !.out = IF @ = "on" /\ range = 3 /\ seg >= MAX_BLOCKS
                                        THEN "limit" ELSE @],
           [size |-> f.size, pointers |-> f.pointers, bitmap |-> f.bitmap,
            data_blocks |-> f.data_blocks, n |-> 0, out |-> "on", at |-> NULL], <<1, 2, 3>>)

(* In order: from the end of the file and from the start of a block, or    *)
(* within one; and not from the middle of the double indirect range.       *)
GoesOn(f, pos, num_bytes) ==
  /\ pos = f.size /\ f.size \div BLOCK_SIZE <= DOUBLE_START
  /\ f.size % BLOCK_SIZE = 0 \/ (f.size % BLOCK_SIZE) + num_bytes <= BLOCK_SIZE

rd_write(fd, data) ==
  /\ file.size < MAX_SIZE
  /\ \/ /\ fd \in ReadOnly
        /\ last' = [ret |-> -1, bytes |-> <<>>]
        /\ UNCHANGED <<file, cursor, log, inOrder>>
     \/ /\ fd \notin ReadOnly
        /\ LET w == Written(file, cursor[fd], data, Len(data))
           IN  /\ file' = [size |-> w.size, pointers |-> w.pointers, bitmap |-> w.bitmap,
                           data_blocks |-> w.data_blocks]
               /\ cursor' = [cursor EXCEPT ![fd] = (@ + w.n) % UINT_RANGE]
               /\ last' = [bytes |-> <<>>,
                           ret |-> CASE w.out = "no block" -> -1
                                     [] w.out = "on" -> 0
                                     [] OTHER -> w.n]
               /\ inOrder' = (inOrder /\ GoesOn(file, cursor[fd], Len(data)))
               /\ log' = IF inOrder' THEN log \o SubSeq(data, 1, w.n) ELSE <<>>

-----------------------------------------------------------------------------
(* rd_lseek: past the end means the last byte, or -1 as an unsigned int in *)
(* an empty file.  A negative offset is refused.                           *)

Offsets == Counts \cup {-1}

\* Seeded fault: the size is taken as a signed number.
rd_lseek_signed(fd, offset) ==
  /\ \/ /\ offset < 0
        /\ last' = [ret |-> -1, bytes |-> <<>>]
        /\ UNCHANGED cursor
     \/ /\ offset >= 0
        /\ LET to == IF offset >= file.size THEN file.size - 1 ELSE offset
           IN  /\ cursor' = [cursor EXCEPT ![fd] = to]
               /\ last' = [ret |-> to, bytes |-> <<>>]
  /\ UNCHANGED <<file, log, inOrder>>

rd_lseek(fd, offset) ==
  /\ \/ /\ offset < 0
        /\ last' = [ret |-> -1, bytes |-> <<>>]
        /\ UNCHANGED cursor
     \/ /\ offset >= 0
        /\ LET to == IF offset >= file.size THEN (file.size - 1) % UINT_RANGE ELSE offset
           IN  /\ cursor' = [cursor EXCEPT ![fd] = to]
               /\ last' = [ret |-> IF to = UINT_RANGE - 1 THEN -1 ELSE to, bytes |-> <<>>]
  /\ UNCHANGED <<file, log, inOrder>>

-----------------------------------------------------------------------------
(* rd_read *)

(* The bytes of a block from an offset on; '\0' is skipped. *)
Bytes(f, b, offset) ==
  FoldLeft(LAMBDA bytes, byte : IF byte # ZERO THEN Append(bytes, byte) ELSE bytes, <<>>,
           [k \in 1 .. BLOCK_SIZE - offset |-> f.data_blocks[b].data[offset + k - 1]])

(* The loop over blocks.  The test after a byte is for equality, so a call *)
(* for no bytes is not stopped by it.                                      *)
ReadAt(f, r0, places, offset, num_bytes) ==
  FoldLeft(LAMBDA r, place :
             LET b     == BlockAt(f, place)
                 here  == IF b = NULL THEN <<>> ELSE Bytes(f, b, offset)
                 wanted == num_bytes - Len(r.bytes)
                 got   == IF wanted > 0 /\ wanted < Len(here) THEN SubSeq(here, 1, wanted)
                                                              ELSE here
             IN  IF r.done THEN r
                 ELSE [bytes |-> r.bytes \o got,
                       done  |-> Len(r.bytes \o got) = num_bytes],
           r0, places)

Read(f, pos, num_bytes) ==
  FoldLeft(LAMBDA r, range :
             LET at  == (pos + Len(r.bytes)) % UINT_RANGE
                 seg == at \div BLOCK_SIZE
             IN  IF InRange(seg, range) /\ (range # 1 => Len(r.bytes) < num_bytes)
                 THEN ReadAt(f, r, Places(seg, range), at % BLOCK_SIZE, num_bytes)
                 ELSE r,
           [bytes |-> <<>>, done |-> FALSE], <<1, 2, 3>>).bytes

rd_read(fd, num_bytes) ==
  /\ \/ /\ num_bytes > (file.size - cursor[fd]) % UINT_RANGE
        /\ last' = [ret |-> -1, bytes |-> <<>>]
        /\ UNCHANGED cursor
     \/ /\ num_bytes <= (file.size - cursor[fd]) % UINT_RANGE
        /\ LET bytes == Read(file, cursor[fd], num_bytes)
           IN  /\ last' = [ret |-> Len(bytes), bytes |-> bytes]
               /\ cursor' = [cursor EXCEPT ![fd] = (@ + Len(bytes)) % UINT_RANGE]
  /\ UNCHANGED <<file, log, inOrder>>

-----------------------------------------------------------------------------
(* A new file that the descriptors have just been opened on. *)
Init ==
  /\ file = EmptyFile
  /\ cursor = [fd \in Fd |-> 0]
  /\ last = [ret |-> 0, bytes |-> <<>>]
  /\ log = <<>> /\ inOrder = TRUE

Next ==
  \E fd \in Fd :
    \/ \E data \in Data : rd_write(fd, data)
    \/ \E offset \in Offsets : rd_lseek(fd, offset)
    \/ \E num_bytes \in Counts : rd_read(fd, num_bytes)

Spec == Init /\ [][Next]_vars

-----------------------------------------------------------------------------
(* The file as it is read from its start: its places in order.             *)
AllPlaces ==
  DirectPlaces(0) \o SinglePlaces(SINGLE_START)
    \o FlattenSeq([i \in 1 .. PTRS_PER_BLOCK |->
                     [j \in 1 .. PTRS_PER_BLOCK |-> <<DOUBLE, i - 1, j - 1>>]])

Contents ==
  FlattenSeq([k \in 1 .. Len(AllPlaces) |->
               LET b == BlockAt(file, AllPlaces[k])
               IN  IF b = NULL THEN <<>> ELSE Bytes(file, b, 0)])

(* The pointers of the file: of its inode, and of its index blocks.        *)
IndexBlocks ==
  {BlockAt(file, place) :
     place \in {<<SINGLE>>, <<DOUBLE>>} \cup {<<DOUBLE, i>> : i \in PtrIdx}} \ {NULL}
Pointers ==
  {p \in ({NULL} \X InodeIdx) \cup (IndexBlocks \X PtrIdx) : Pointer(file, p[1], p[2]) # NULL}

(* Type invariant. *)
TypeOK ==
  /\ file \in [size : UInt, pointers : [InodeIdx -> BlockPtr], bitmap : SUBSET BlockNum,
               data_blocks : [BlockNum -> [data : [Offset -> Nat],
                                           index_block : [PtrIdx -> BlockPtr]]]]
  /\ cursor \in [Fd -> UInt]
  /\ last.ret \in Nat \cup {-1} /\ inOrder \in BOOLEAN

(* rd_write attaches each block in one place: no two pointers of the file, *)
(* in whatever order and however incompletely its ranges were written,     *)
(* lead to one block, and a block in the file is marked in the bitmap.     *)
OneBlockOnePlace ==
  /\ \A p \in Pointers : Pointer(file, p[1], p[2]) \in file.bitmap
  /\ \A p, q \in Pointers :
       Pointer(file, p[1], p[2]) = Pointer(file, q[1], q[2]) => p = q
  /\ Cardinality(Pointers) = Cardinality(file.bitmap)

(* The size that rd_read, rd_lseek and the later phases of rd_write rely   *)
(* on is never less than the bytes that the file has.                      *)
SizeCoversContents == Len(Contents) <= file.size

(* Bytes that are written one after the other, each call going on where    *)
(* the last one ended and none crossing a block's boundary except from the *)
(* start of a block, are the contents of the file, in every range, also    *)
(* when a call in between ran out of blocks or met a '\0'.                 *)
SequentialWritesKept == inOrder => Contents = log /\ file.size = Len(log)

(* A read within a block, or from the start of one, of such a file gives   *)
(* the bytes that were written at its position, and moves the cursor past  *)
(* them.                                                                   *)
AlignedReadsBack ==
  [][\A fd \in Fd, num_bytes \in Counts \ {0} :
       LET pos == cursor[fd]
       IN  /\ inOrder /\ last'.ret # -1
           /\ pos % BLOCK_SIZE = 0 \/ (pos % BLOCK_SIZE) + num_bytes <= BLOCK_SIZE
           /\ pos \div BLOCK_SIZE <= DOUBLE_START
           /\ rd_read(fd, num_bytes)
           => /\ last'.bytes = SubSeq(log, pos + 1, pos + num_bytes)
              /\ cursor'[fd] = pos + num_bytes]_vars

-----------------------------------------------------------------------------
(* What the documentation says, and the code does not do.                  *)

(* README.md: a file is "written, as necessary, to store valid data that   *)
(* can be read correctly".  Bytes that are appended to the file through    *)
(* one descriptor should all be in it.                                     *)
AppendedBytesKept ==
  [][\A fd \in Fd, data \in Data :
       rd_write(fd, data) /\ cursor[fd] = file.size /\ last'.ret = Len(data)
         => Len(Contents') = Len(Contents) + Len(data)]_vars

=============================================================================
