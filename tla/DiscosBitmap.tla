---------------------------- MODULE DiscosBitmap ----------------------------
(***************************************************************************)
(* The block bitmap of DISCOS as discos.c has it: an array of bytes, which *)
(* set_bitmap and clear_bitmap change bit by bit and which                 *)
(* get_free_block_num_from_bitmap scans byte by byte.  Discos has the same *)
(* bitmap as the set of the blocks whose bit is 1.                         *)
(*                                                                         *)
(* A byte is the function of its bits, the lowest one first, so the byte   *)
(* 255 is the one without a 0, and shifting it right and taking & 1 is to  *)
(* look at the next bit.                                                   *)
(***************************************************************************)
EXTENDS Discos

CONSTANTS
  BYTE_BITS,      \* 8 in the code
  BITMAP_BYTES    \* BITMAP_SIZE*BLOCK_SIZE: 1024 in the code

\* There are bits behind the last block's: 8192 of them for 7931 blocks.
ASSUME BitmapAssumption ==
  /\ BYTE_BITS \in Nat \ {0} /\ BITMAP_BYTES \in Nat \ {0}
  /\ DATA_BLOCKS_NUM < BITMAP_BYTES * BYTE_BITS

ByteIdx == 0 .. BITMAP_BYTES - 1
BitIdx  == 0 .. BYTE_BITS - 1
Byte    == [BitIdx -> {0, 1}]

ZeroBits(byte) == {k \in BitIdx : byte[k] = 0}
NotFull(map)   == {i \in ByteIdx : ZeroBits(map[i]) # {}}

\* Seeded fault: one bit too many is taken for a block's.
scan_off_by_one(map) ==
  LET bytes == NotFull(map)
      i     == Min(bytes)
      bit   == i * BYTE_BITS + Min(ZeroBits(map[i]))
  IN  IF bytes = {} THEN NULL ELSE IF bit > DATA_BLOCKS_NUM THEN NULL ELSE bit

(* The first byte that is not 255, and its first bit that is 0, unless it  *)
(* is behind the last block's.                                             *)
scan(map) ==
  LET bytes == NotFull(map)
      i     == Min(bytes)
      bit   == i * BYTE_BITS + Min(ZeroBits(map[i]))
  IN  IF bytes = {} THEN NULL ELSE IF bit >= DATA_BLOCKS_NUM THEN NULL ELSE bit

get_free_block_num(free_blocks, map) == IF free_blocks = 0 THEN NULL ELSE scan(map)

(* The range test lets one number pass that is no block's.                 *)
InRange(index) == index \in 0 .. DATA_BLOCKS_NUM

set_bitmap(map, index) ==
  IF InRange(index) THEN [map EXCEPT ![index \div BYTE_BITS][index % BYTE_BITS] = 1] ELSE map

\* Seeded fault: the other bits of the byte are cleared, and not this one.
clear_bitmap_inverted(map, index) ==
  IF InRange(index)
  THEN [map EXCEPT ![index \div BYTE_BITS] =
          [k \in BitIdx |-> IF k = index % BYTE_BITS THEN @[k] ELSE 0]]
  ELSE map

clear_bitmap(map, index) ==
  IF InRange(index) THEN [map EXCEPT ![index \div BYTE_BITS][index % BYTE_BITS] = 0] ELSE map

(* The array that stands for a set of blocks.                              *)
BytesOf(S) == [i \in ByteIdx |-> [k \in BitIdx |-> IF i * BYTE_BITS + k \in S THEN 1 ELSE 0]]

-----------------------------------------------------------------------------
(* get_free_block_num_from_bitmap finds the first block that is not in     *)
(* use, and none if there is none, though it scans more bits than there    *)
(* are blocks: also when the first bit behind the last block's was set,    *)
(* which set_bitmap's range test does not refuse.                          *)
ScanFindsFirstFree ==
  LET map == BytesOf(discos.bitmap)
  IN  \A m \in {map, set_bitmap(map, DATA_BLOCKS_NUM)} :
        /\ get_free_block_num(discos.free_blocks, m) = get_free_block_num_from_bitmap(discos)
        /\ scan(m) = IF BlockNum \subseteq discos.bitmap THEN NULL
                                                        ELSE Min(BlockNum \ discos.bitmap)

(* set_bitmap and clear_bitmap change the mark of their block and of no    *)
(* other: of those in the same byte, and in the bytes next to it.          *)
BitsAreBlocks ==
  LET map == BytesOf(discos.bitmap)
  IN  \A b \in BlockNum :
        /\ set_bitmap(map, b) = BytesOf(discos.bitmap \cup {b})
        /\ clear_bitmap(map, b) = BytesOf(discos.bitmap \ {b})

=============================================================================
