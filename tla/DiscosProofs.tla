---------------------------- MODULE DiscosProofs ----------------------------
(***************************************************************************)
(* Proofs about Discos and DiscosBitmap, for every value of the constants. *)
(*                                                                         *)
(* The inductive invariant is the conjunction of TypeOK, BlockOwnership,   *)
(* IndexBlocksOnly and FreeBlocksCovered, stated of one file system value  *)
(* (Good).  None of the four is inductive alone: a block may be linked     *)
(* only because it is nobody's (BlockOwnership), which needs that a reused *)
(* block brings no pointer (IndexBlocksOnly), which needs that an index    *)
(* block is given back empty (BlockOwnership), and the type of the counter *)
(* needs the order of the tests in rd_create.                              *)
(*                                                                         *)
(* The proof follows the calls: allocation, storing a pointer, the search  *)
(* for an entry, the end of rd_create; then the release of blocks, the     *)
(* two halves of rd_unlink; then the actions and the theorems.  Last, the  *)
(* bytes that the bitmap is kept in.                                       *)
(***************************************************************************)
EXTENDS DiscosBitmap, FiniteSetTheorems, WellFoundedInduction, TLAPS

(* The first free block, inode, slot or pointer: a scan from the low end,  *)
(* written Min, finds the least member of a set of numbers that is not     *)
(* empty.                                                                  *)
LEMMA MinExists ==
  ASSUME NEW S, S \subseteq Nat, S # {}
  PROVE  /\ Min(S) \in S
         /\ \A x \in S : Min(S) <= x
<1>1. PICK m \in S : \A y \in S : ~(<<y, m>> \in OpToRel(<, Nat))
  BY NatLessThanWellFounded, WFMin
<1>2. ASSUME NEW y \in S, y < m PROVE FALSE
  <2>1. <<y, m>> \in Nat \X Nat
    OBVIOUS
  <2>2. <<y, m>>[1] < <<y, m>>[2]
    BY <1>2
  <2>3. <<y, m>> \in OpToRel(<, Nat)
    BY <2>1, <2>2 DEF OpToRel
  <2>4. QED
    BY <1>1, <2>3
<1>3. \A y \in S : m <= y
  BY <1>2
<1>4. QED
  BY <1>3 DEF Min

(* The two steps through a double indirect block stay inside their tables. *)
LEMMA DivInRange ==
  ASSUME NEW p \in Nat \ {0}, NEW x \in 0 .. p * p - 1
  PROVE  /\ x \div p \in 0 .. p - 1
         /\ x % p \in 0 .. p - 1
<1>1. x = p * (x \div p) + (x % p) /\ x % p \in 0 .. p - 1 /\ x \div p \in Int
  OBVIOUS
<1>2. x \div p >= 0
  BY <1>1, Z3
<1>3. x \div p < p
  <2> DEFINE q == x \div p
  <2>1. q \in Int /\ p * q <= x
    BY <1>1
  <2>2. ASSUME q >= p PROVE FALSE
    <3> HIDE DEF q
    <3>1. p * q >= p * p
      BY <2>1, <2>2, Z3
    <3>2. QED
      BY <2>1, <3>1
  <2>3. QED
    BY <2>1, <2>2
<1>4. QED
  BY <1>1, <1>2, <1>3

(* A place that stores a block pointer is a direct pointer, a single or a  *)
(* double indirect pointer of an inode, or a slot of an index block.       *)
LEMMA LocCases ==
  ASSUME NEW l \in PtrLoc
  PROVE  \/ \E n \in InodeNum, i \in DirectIdx : l = <<"direct", n, i>>
         \/ \E n \in InodeNum : l = <<"single", n, 0>>
         \/ \E n \in InodeNum : l = <<"double", n, 0>>
         \/ \E b \in BlockNum, k \in PtrIdx : l = <<"index", b, k>>
BY DEF PtrLoc

(* Each of these is such a place.                                          *)
LEMMA LocMembers ==
  /\ \A n \in InodeNum : /\ \A i \in DirectIdx : <<"direct", n, i>> \in PtrLoc
                         /\ <<"single", n, 0>> \in PtrLoc
                         /\ <<"double", n, 0>> \in PtrLoc
  /\ \A b \in BlockNum, k \in PtrIdx : <<"index", b, k>> \in PtrLoc
BY DEF PtrLoc

(* What is stored in each.                                                 *)
LEMMA LocValues ==
  ASSUME NEW fs
  PROVE  /\ \A n, i : PtrAt(fs, <<"direct", n, i>>) = fs.inodes[n].pointers[i]
         /\ \A n : PtrAt(fs, <<"single", n, 0>>) = fs.inodes[n].single
         /\ \A n : PtrAt(fs, <<"double", n, 0>>) = fs.inodes[n].double
         /\ \A b, k : PtrAt(fs, <<"index", b, k>>) = fs.data_blocks[b].index_block[k]
BY DEF PtrAt

(* Every pointer but the one at l0 is the same in fs and gs, place by      *)
(* place.                                                                  *)
SameButAt(fs, gs, l0) ==
  /\ \A n \in InodeNum, i \in DirectIdx :
       <<"direct", n, i>> # l0 => gs.inodes[n].pointers[i] = fs.inodes[n].pointers[i]
  /\ \A n \in InodeNum : <<"single", n, 0>> # l0 => gs.inodes[n].single = fs.inodes[n].single
  /\ \A n \in InodeNum : <<"double", n, 0>> # l0 => gs.inodes[n].double = fs.inodes[n].double
  /\ \A b \in BlockNum, k \in PtrIdx :
       <<"index", b, k>> # l0
         => gs.data_blocks[b].index_block[k] = fs.data_blocks[b].index_block[k]

(* Two file systems that agree on every stored pointer but the one at l0.  *)
LEMMA PtrEqual ==
  ASSUME NEW fs, NEW gs, NEW l0, SameButAt(fs, gs, l0)
  PROVE  \A l \in PtrLoc \ {l0} : PtrAt(gs, l) = PtrAt(fs, l)
<1> SUFFICES ASSUME NEW l \in PtrLoc, l # l0 PROVE PtrAt(gs, l) = PtrAt(fs, l)
  OBVIOUS
<1>1. CASE \E n \in InodeNum, i \in DirectIdx : l = <<"direct", n, i>>
  BY <1>1 DEF PtrAt, SameButAt
<1>2. CASE \E n \in InodeNum : l = <<"single", n, 0>>
  BY <1>2 DEF PtrAt, SameButAt
<1>3. CASE \E n \in InodeNum : l = <<"double", n, 0>>
  BY <1>3 DEF PtrAt, SameButAt
<1>4. CASE \E b \in BlockNum, k \in PtrIdx : l = <<"index", b, k>>
  BY <1>4 DEF PtrAt, SameButAt
<1>5. QED
  BY <1>1, <1>2, <1>3, <1>4, LocCases

(* The invariant of one file system, the conjunction of what the runs      *)
(* check: types, ownership, index blocks and the counter.  It is inductive *)
(* as it stands.                                                           *)
Good(fs) == fs \in FileSys /\ Owned(fs) /\ IndexOnly(fs) /\ Covered(fs)

(* What is stored is a block number or NULL.                               *)
LEMMA PtrType ==
  ASSUME NEW fs \in FileSys, NEW l \in PtrLoc
  PROVE  PtrAt(fs, l) \in BlockPtr
<1>1. CASE \E n \in InodeNum, i \in DirectIdx : l = <<"direct", n, i>>
  <2>1. PICK n \in InodeNum, i \in DirectIdx : l = <<"direct", n, i>>
    BY <1>1
  <2>2. PtrAt(fs, l) = fs.inodes[n].pointers[i]
    BY <2>1, LocValues
  <2>3. fs.inodes[n] \in Inode
    BY DEF FileSys
  <2>4. QED
    BY <2>2, <2>3 DEF Inode
<1>2. CASE \E n \in InodeNum : l = <<"single", n, 0>>
  <2>1. PICK n \in InodeNum : l = <<"single", n, 0>>
    BY <1>2
  <2>2. PtrAt(fs, l) = fs.inodes[n].single
    BY <2>1, LocValues
  <2>3. QED
    BY <2>2 DEF FileSys, Inode
<1>3. CASE \E n \in InodeNum : l = <<"double", n, 0>>
  <2>1. PICK n \in InodeNum : l = <<"double", n, 0>>
    BY <1>3
  <2>2. PtrAt(fs, l) = fs.inodes[n].double
    BY <2>1, LocValues
  <2>3. QED
    BY <2>2 DEF FileSys, Inode
<1>4. CASE \E b \in BlockNum, k \in PtrIdx : l = <<"index", b, k>>
  <2>1. PICK b \in BlockNum, k \in PtrIdx : l = <<"index", b, k>>
    BY <1>4
  <2>2. PtrAt(fs, l) = fs.data_blocks[b].index_block[k]
    BY <2>1, LocValues
  <2>3. QED
    BY <2>2 DEF FileSys, DataBlock
<1>5. QED
  BY <1>1, <1>2, <1>3, <1>4, LocCases

(* memset to zero leaves values of the types.                              *)
LEMMA ZeroTypes == ZeroBlock \in DataBlock /\ ZeroInode \in Inode /\ ZeroEntry \in DirEntry
BY DiscosAssumption DEF ZeroBlock, ZeroInode, ZeroEntry, DataBlock, Inode, DirEntry, BlockPtr, UInt, InodeNum

(* get_free_block_num_from_bitmap returns NULL or a block that is not      *)
(* marked, and the counter can be decremented.                             *)
LEMMA FreeBlock ==
  ASSUME NEW fs \in FileSys
  PROVE  LET b == get_free_block_num_from_bitmap(fs)
         IN  \/ b = NULL
             \/ b \in BlockNum \ fs.bitmap /\ fs.free_blocks > 0
<1>1. CASE fs.free_blocks = 0 \/ BlockNum \subseteq fs.bitmap
  BY <1>1 DEF get_free_block_num_from_bitmap
<1>2. CASE ~(fs.free_blocks = 0 \/ BlockNum \subseteq fs.bitmap)
  <2>1. BlockNum \ fs.bitmap \subseteq Nat /\ BlockNum \ fs.bitmap # {}
    BY <1>2 DEF BlockNum
  <2>2. Min(BlockNum \ fs.bitmap) \in BlockNum \ fs.bitmap
    BY <2>1, MinExists
  <2>3. fs.free_blocks > 0
    BY <1>2 DEF FileSys
  <2>4. QED
    BY <1>2, <2>2, <2>3 DEF get_free_block_num_from_bitmap
<1>3. QED
  BY <1>1, <1>2

(* Replacing one inode keeps the types.                                    *)
LEMMA PutInode ==
  ASSUME NEW fs \in FileSys, NEW n \in InodeNum, NEW z \in Inode
  PROVE  [fs EXCEPT !.inodes[n] = z] \in FileSys
BY DEF FileSys

(* What allocate_data_block changes: one bit, the counter, one block.      *)
LEMMA AllocType ==
  ASSUME NEW fs \in FileSys, NEW b \in BlockNum, fs.free_blocks > 0,
         NEW gs, gs = allocate_data_block(fs, b)
  PROVE  /\ gs \in FileSys
         /\ gs.inodes = fs.inodes
         /\ gs.bitmap = fs.bitmap \cup {b}
         /\ gs.free_blocks = fs.free_blocks - 1
         /\ gs.data_blocks = [fs.data_blocks EXCEPT ![b] = ZeroBlock]
<1>1. fs.free_blocks - 1 \in Nat /\ fs.bitmap \cup {b} \in SUBSET BlockNum
  BY DEF FileSys
<1>2. gs \in FileSys
  BY <1>1, ZeroTypes DEF FileSys, allocate_data_block
<1>3. gs.inodes = fs.inodes /\ gs.bitmap = fs.bitmap \cup {b}
  BY DEF FileSys, allocate_data_block
<1>4. /\ gs.free_blocks = fs.free_blocks - 1
      /\ gs.data_blocks = [fs.data_blocks EXCEPT ![b] = ZeroBlock]
  BY DEF FileSys, allocate_data_block
<1>5. QED
  BY <1>2, <1>3, <1>4

(* A slot of a block without pointers is NULL ...                          *)
LEMMA NoPointer ==
  ASSUME NEW fs, NEW b \in BlockNum, HoldsNoPointer(fs, b), NEW k \in PtrIdx
  PROVE  PtrAt(fs, <<"index", b, k>>) = NULL
BY LocValues DEF HoldsNoPointer

(* ... and a block whose slots are NULL is one without pointers.           *)
LEMMA NoPointerFrom ==
  ASSUME NEW fs, NEW b, \A k \in PtrIdx : PtrAt(fs, <<"index", b, k>>) = NULL
  PROVE  HoldsNoPointer(fs, b)
<1> SUFFICES ASSUME NEW k \in PtrIdx PROVE fs.data_blocks[b].index_block[k] = NULL
  BY DEF HoldsNoPointer
<1>1. PtrAt(fs, <<"index", b, k>>) = fs.data_blocks[b].index_block[k]
  BY LocValues
<1>2. QED
  BY <1>1

(* allocate_data_block changes no stored pointer: a free block held none.  *)
LEMMA AllocPtr ==
  ASSUME NEW fs, Good(fs), NEW b \in BlockNum \ fs.bitmap, fs.free_blocks > 0,
         NEW gs, gs = allocate_data_block(fs, b)
  PROVE  \A l \in PtrLoc : PtrAt(gs, l) = PtrAt(fs, l)
<1>0. fs \in FileSys /\ HoldsNoPointer(fs, b)
  BY DEF Good, IndexOnly
<1>1. gs.inodes = fs.inodes /\ gs.data_blocks = [fs.data_blocks EXCEPT ![b] = ZeroBlock]
  BY <1>0, AllocType
<1>2. ASSUME NEW c \in BlockNum, NEW k \in PtrIdx
      PROVE  gs.data_blocks[c].index_block[k] = fs.data_blocks[c].index_block[k]
  <2>1. CASE c # b
    BY <1>0, <1>1, <2>1 DEF FileSys
  <2>2. CASE c = b
    <3>1. fs.data_blocks[b].index_block[k] = NULL
      BY <1>0 DEF HoldsNoPointer
    <3>2. gs.data_blocks[b] = ZeroBlock
      BY <1>0, <1>1 DEF FileSys
    <3>3. QED
      BY <2>2, <3>1, <3>2 DEF ZeroBlock
  <2>3. QED
    BY <2>1, <2>2
<1>3. /\ \A n \in InodeNum, i \in DirectIdx : gs.inodes[n].pointers[i] = fs.inodes[n].pointers[i]
      /\ \A n \in InodeNum : gs.inodes[n].single = fs.inodes[n].single
      /\ \A n \in InodeNum : gs.inodes[n].double = fs.inodes[n].double
  BY <1>1
<1>4. SameButAt(fs, gs, <<"none", 0, 0>>)
  BY <1>2, <1>3 DEF SameButAt
<1>5. <<"none", 0, 0>> \notin PtrLoc
  BY DEF PtrLoc
<1>6. QED
  BY <1>4, <1>5, PtrEqual

(* Dropping pointers keeps the two pointer invariants, as long as what is  *)
(* still pointed to stays marked and what is unmarked holds no pointer.    *)
LEMMA Release ==
  ASSUME NEW fs, Good(fs), NEW gs \in FileSys,
         \A l \in PtrLoc : PtrAt(gs, l) \in {NULL, PtrAt(fs, l)},
         \A l \in UsedLoc(gs) : PtrAt(gs, l) \in gs.bitmap,
         \A b \in BlockNum \ gs.bitmap : HoldsNoPointer(gs, b)
  PROVE  Owned(gs) /\ IndexOnly(gs)
<1>1. \A l \in UsedLoc(gs) : l \in UsedLoc(fs) /\ PtrAt(gs, l) = PtrAt(fs, l)
  BY DEF UsedLoc
<1>2. Owned(gs)
  BY <1>1 DEF Owned, Good
<1>3. ASSUME NEW l \in UsedLoc(gs), l[1] # "single"
      PROVE  HoldsNoPointer(gs, PtrAt(gs, l))
  <2>1. HoldsNoPointer(fs, PtrAt(fs, l)) /\ PtrAt(gs, l) = PtrAt(fs, l)
    BY <1>1, <1>3 DEF Good, IndexOnly
  <2>2. PtrAt(gs, l) \in BlockNum
    BY PtrType, <1>3 DEF UsedLoc, BlockPtr
  <2>3. \A k \in PtrIdx : PtrAt(gs, <<"index", PtrAt(gs, l), k>>) = NULL
    BY <2>1, <2>2, LocMembers, NoPointer
  <2>4. QED
    BY <2>3, NoPointerFrom
<1>4. QED
  BY <1>2, <1>3 DEF IndexOnly

(* The unmarked blocks can be counted.                                     *)
LEMMA FreeSetFinite ==
  ASSUME NEW S
  PROVE  /\ IsFiniteSet(BlockNum \ S)
         /\ Cardinality(BlockNum \ S) \in Nat
<1>1. IsFiniteSet(BlockNum)
  BY FS_Interval, DiscosAssumption DEF BlockNum
<1>2. IsFiniteSet(BlockNum \ S)
  BY <1>1, FS_Difference
<1>3. QED
  BY <1>2, FS_CardinalityType

(* allocate_data_block keeps the invariant, and the new block is marked,   *)
(* empty and nobody's.                                                     *)
LEMMA AllocGood ==
  ASSUME NEW fs, Good(fs), NEW b \in BlockNum \ fs.bitmap, fs.free_blocks > 0,
         NEW gs, gs = allocate_data_block(fs, b)
  PROVE  /\ Good(gs)
         /\ b \in gs.bitmap
         /\ HoldsNoPointer(gs, b)
         /\ \A l \in PtrLoc : PtrAt(gs, l) # b
<1>0. fs \in FileSys
  BY DEF Good
<1>1. /\ gs \in FileSys
      /\ gs.bitmap = fs.bitmap \cup {b}
      /\ gs.free_blocks = fs.free_blocks - 1
      /\ gs.data_blocks = [fs.data_blocks EXCEPT ![b] = ZeroBlock]
  BY <1>0, AllocType
<1>2. \A l \in PtrLoc : PtrAt(gs, l) = PtrAt(fs, l)
  BY AllocPtr
<1>3. HoldsNoPointer(gs, b)
  <2>1. gs.data_blocks[b] = ZeroBlock
    BY <1>0, <1>1 DEF FileSys
  <2>2. QED
    BY <2>1 DEF HoldsNoPointer, ZeroBlock
<1>4. \A l \in PtrLoc : PtrAt(gs, l) # b
  <2> SUFFICES ASSUME NEW l \in PtrLoc, PtrAt(fs, l) = b PROVE FALSE
    BY <1>2
  <2>1. l \in UsedLoc(fs)
    BY DEF UsedLoc, BlockNum, NULL
  <2>2. QED
    BY <2>1 DEF Good, Owned
<1>5. \A l \in UsedLoc(gs) : PtrAt(gs, l) \in gs.bitmap
  BY <1>1, <1>2 DEF UsedLoc, Good, Owned
<1>6. ASSUME NEW c \in BlockNum \ gs.bitmap PROVE HoldsNoPointer(gs, c)
  <2>1. HoldsNoPointer(fs, c)
    BY <1>1 DEF Good, IndexOnly
  <2>2. \A k \in PtrIdx : PtrAt(gs, <<"index", c, k>>) = NULL
    BY <1>2, <2>1, LocMembers, NoPointer
  <2>3. QED
    BY <2>2, NoPointerFrom
<1>7. Owned(gs) /\ IndexOnly(gs)
  BY <1>1, <1>2, <1>5, <1>6, Release
<1>8. Covered(gs)
  <2>1. BlockNum \ gs.bitmap = (BlockNum \ fs.bitmap) \ {b}
    BY <1>1
  <2>2. Cardinality(BlockNum \ gs.bitmap) = Cardinality(BlockNum \ fs.bitmap) - 1
    <3>1. IsFiniteSet(BlockNum \ fs.bitmap) /\ b \in BlockNum \ fs.bitmap
      BY FreeSetFinite
    <3>2. Cardinality((BlockNum \ fs.bitmap) \ {b}) = Cardinality(BlockNum \ fs.bitmap) - 1
      BY <3>1, FS_RemoveElement, Zenon
    <3>3. QED
      BY <2>1, <3>2
  <2>3. fs.free_blocks \in Nat /\ Cardinality(BlockNum \ fs.bitmap) \in Nat
    BY <1>0, FreeSetFinite DEF FileSys
  <2>4. fs.free_blocks <= Cardinality(BlockNum \ fs.bitmap)
    BY DEF Good, Covered
  <2>5. fs.free_blocks - 1 <= Cardinality(BlockNum \ fs.bitmap) - 1
    BY <2>3, <2>4
  <2>6. QED
    BY <1>1, <2>2, <2>5 DEF Covered
<1>9. QED
  BY <1>1, <1>3, <1>4, <1>7, <1>8 DEF Good

(* An index block that only single indirect pointers lead to, or nobody.   *)
SingleIndex(fs, index) ==
  /\ index \in fs.bitmap
  /\ \A l \in UsedLoc(fs) : PtrAt(fs, l) = index => l[1] = "single"

(* Block b is new (marked, empty and nobody's) and l0 is free to point to  *)
(* it.                                                                     *)
Linkable(fs, l0, b) ==
  /\ b \in fs.bitmap
  /\ HoldsNoPointer(fs, b)
  /\ \A l \in PtrLoc : PtrAt(fs, l) # b
  /\ l0 \in PtrLoc
  /\ PtrAt(fs, l0) = NULL
  /\ l0[1] = "index" => l0[2] # b /\ SingleIndex(fs, l0[2])

(* gs is fs with the pointer b at l0.                                      *)
Linked(fs, l0, b, gs) ==
  /\ gs \in FileSys
  /\ gs.bitmap = fs.bitmap
  /\ gs.free_blocks = fs.free_blocks
  /\ PtrAt(gs, l0) = b
  /\ \A l \in PtrLoc \ {l0} : PtrAt(gs, l) = PtrAt(fs, l)

(* Storing the pointer to a new block keeps the invariant, if it goes      *)
(* where index blocks may be pointed to from.                              *)
LEMMA LinkGood ==
  ASSUME NEW fs, Good(fs), NEW l0, NEW b, NEW gs,
         Linkable(fs, l0, b), Linked(fs, l0, b, gs)
  PROVE  /\ Good(gs)
         /\ HoldsNoPointer(gs, b)
         /\ \A l \in PtrLoc : PtrAt(gs, l) = b => l = l0
<1>0. fs \in FileSys /\ b \in BlockNum
  BY DEF Good, FileSys, Linkable
<1>1. \A l \in PtrLoc : PtrAt(gs, l) = b => l = l0
  BY DEF Linkable, Linked
<1>2. ASSUME NEW c \in BlockNum, HoldsNoPointer(fs, c), l0[1] = "index" => l0[2] # c
      PROVE  HoldsNoPointer(gs, c)
  <2>1. ASSUME NEW k \in PtrIdx PROVE PtrAt(gs, <<"index", c, k>>) = NULL
    <3>1. <<"index", c, k>> \in PtrLoc \ {l0}
      BY <1>2, LocMembers
    <3>2. PtrAt(fs, <<"index", c, k>>) = NULL
      BY <1>2, NoPointer
    <3>3. QED
      BY <3>1, <3>2 DEF Linked
  <2>2. QED
    BY <2>1, NoPointerFrom
<1>3. HoldsNoPointer(gs, b)
  BY <1>0, <1>2 DEF Linkable
<1>4. Owned(gs)
  <2>1. \A l \in UsedLoc(gs) : l = l0 \/ l \in UsedLoc(fs)
    BY DEF UsedLoc, Linked
  <2>2. QED
    BY <1>1, <2>1 DEF Good, Owned, UsedLoc, Linkable, Linked
<1>5. ASSUME NEW l \in UsedLoc(gs), l[1] # "single"
      PROVE  HoldsNoPointer(gs, PtrAt(gs, l))
  <2>1. CASE l = l0
    BY <1>3, <2>1 DEF Linkable, Linked
  <2>2. CASE l # l0
    <3>1. l \in UsedLoc(fs) /\ PtrAt(gs, l) = PtrAt(fs, l)
      BY <2>2 DEF UsedLoc, Linked
    <3>2. PtrAt(fs, l) \in BlockNum
      BY <1>0, <3>1, PtrType DEF UsedLoc, BlockPtr
    <3>3. HoldsNoPointer(fs, PtrAt(fs, l))
      BY <1>5, <3>1 DEF Good, IndexOnly
    <3>4. l0[1] = "index" => l0[2] # PtrAt(fs, l)
      BY <1>5, <3>1 DEF Linkable, SingleIndex
    <3>5. QED
      BY <1>2, <3>1, <3>2, <3>3, <3>4
  <2>3. QED
    BY <2>1, <2>2
<1>6. ASSUME NEW c \in BlockNum \ gs.bitmap PROVE HoldsNoPointer(gs, c)
  <2>1. HoldsNoPointer(fs, c) /\ (l0[1] = "index" => l0[2] # c)
    BY DEF Good, IndexOnly, Linkable, Linked, SingleIndex
  <2>2. QED
    BY <1>2, <2>1
<1>7. IndexOnly(gs)
  BY <1>5, <1>6 DEF IndexOnly
<1>8. Covered(gs)
  BY DEF Good, Covered, Linked
<1>9. QED
  BY <1>1, <1>3, <1>4, <1>7, <1>8 DEF Good, Linked

(* Storing a direct pointer changes nothing else.                          *)
LEMMA SetDirect ==
  ASSUME NEW fs \in FileSys, NEW n \in InodeNum, NEW i \in DirectIdx, NEW b \in BlockPtr,
         NEW gs, gs = [fs EXCEPT !.inodes[n].pointers[i] = b]
  PROVE  Linked(fs, <<"direct", n, i>>, b, gs)
<1>1. fs.inodes[n] \in Inode
  BY DEF FileSys
<1>2. [fs.inodes[n] EXCEPT !.pointers[i] = b] \in Inode
  BY <1>1 DEF Inode
<1>3. gs \in FileSys
  BY <1>2, PutInode
<1>4. /\ gs.bitmap = fs.bitmap /\ gs.free_blocks = fs.free_blocks
      /\ gs.data_blocks = fs.data_blocks
      /\ gs.inodes = [fs.inodes EXCEPT ![n] = [fs.inodes[n] EXCEPT !.pointers[i] = b]]
  BY DEF FileSys
<1>5. /\ gs.inodes[n].single = fs.inodes[n].single
      /\ gs.inodes[n].double = fs.inodes[n].double
      /\ gs.inodes[n].pointers = [fs.inodes[n].pointers EXCEPT ![i] = b]
      /\ \A m \in InodeNum \ {n} : gs.inodes[m] = fs.inodes[m]
  BY <1>1, <1>4 DEF FileSys, Inode
<1>6. PtrAt(gs, <<"direct", n, i>>) = b
  <2>1. PtrAt(gs, <<"direct", n, i>>) = gs.inodes[n].pointers[i]
    BY DEF PtrAt
  <2>2. QED
    BY <1>1, <1>5, <2>1 DEF Inode
<1>7. \A l \in PtrLoc \ {<<"direct", n, i>>} : PtrAt(gs, l) = PtrAt(fs, l)
  <2>1. \A m \in InodeNum, j \in DirectIdx :
           <<"direct", m, j>> # <<"direct", n, i>> => gs.inodes[m].pointers[j] = fs.inodes[m].pointers[j]
    BY <1>1, <1>5 DEF Inode
  <2>2. \A m \in InodeNum : <<"single", m, 0>> # <<"direct", n, i>> => gs.inodes[m].single = fs.inodes[m].single
    BY <1>4, <1>5
  <2>3. \A m \in InodeNum : <<"double", m, 0>> # <<"direct", n, i>> => gs.inodes[m].double = fs.inodes[m].double
    BY <1>4, <1>5
  <2>4. \A d \in BlockNum, j \in PtrIdx :
           <<"index", d, j>> # <<"direct", n, i>> => gs.data_blocks[d].index_block[j] = fs.data_blocks[d].index_block[j]
    BY <1>4, <1>5
  <2>5. SameButAt(fs, gs, <<"direct", n, i>>)
    BY <2>1, <2>2, <2>3, <2>4 DEF SameButAt
  <2>6. QED
    BY <2>5, PtrEqual
<1>8. QED
  BY <1>3, <1>4, <1>6, <1>7 DEF Linked

(* Storing a single indirect pointer changes nothing else.                 *)
LEMMA SetSingle ==
  ASSUME NEW fs \in FileSys, NEW n \in InodeNum, NEW b \in BlockPtr,
         NEW gs, gs = [fs EXCEPT !.inodes[n].single = b]
  PROVE  Linked(fs, <<"single", n, 0>>, b, gs)
<1>1. fs.inodes[n] \in Inode
  BY DEF FileSys
<1>2. [fs.inodes[n] EXCEPT !.single = b] \in Inode
  BY <1>1 DEF Inode
<1>3. gs \in FileSys
  BY <1>2, PutInode
<1>4. /\ gs.bitmap = fs.bitmap /\ gs.free_blocks = fs.free_blocks
      /\ gs.data_blocks = fs.data_blocks
      /\ gs.inodes = [fs.inodes EXCEPT ![n] = [fs.inodes[n] EXCEPT !.single = b]]
  BY DEF FileSys
<1>5. /\ gs.inodes[n].single = b
      /\ gs.inodes[n].double = fs.inodes[n].double
      /\ gs.inodes[n].pointers = fs.inodes[n].pointers
      /\ \A m \in InodeNum \ {n} : gs.inodes[m] = fs.inodes[m]
  BY <1>1, <1>4 DEF FileSys, Inode
<1>6. PtrAt(gs, <<"single", n, 0>>) = b
  BY <1>5 DEF PtrAt
<1>7. \A l \in PtrLoc \ {<<"single", n, 0>>} : PtrAt(gs, l) = PtrAt(fs, l)
  <2>1. \A m \in InodeNum, j \in DirectIdx :
           <<"direct", m, j>> # <<"single", n, 0>> => gs.inodes[m].pointers[j] = fs.inodes[m].pointers[j]
    BY <1>4, <1>5
  <2>2. \A m \in InodeNum : <<"single", m, 0>> # <<"single", n, 0>> => gs.inodes[m].single = fs.inodes[m].single
    BY <1>5
  <2>3. \A m \in InodeNum : <<"double", m, 0>> # <<"single", n, 0>> => gs.inodes[m].double = fs.inodes[m].double
    BY <1>4, <1>5
  <2>4. \A d \in BlockNum, j \in PtrIdx :
           <<"index", d, j>> # <<"single", n, 0>> => gs.data_blocks[d].index_block[j] = fs.data_blocks[d].index_block[j]
    BY <1>4, <1>5
  <2>5. SameButAt(fs, gs, <<"single", n, 0>>)
    BY <2>1, <2>2, <2>3, <2>4 DEF SameButAt
  <2>6. QED
    BY <2>5, PtrEqual
<1>8. QED
  BY <1>3, <1>4, <1>6, <1>7 DEF Linked

(* Storing a double indirect pointer changes nothing else.                 *)
LEMMA SetDouble ==
  ASSUME NEW fs \in FileSys, NEW n \in InodeNum, NEW b \in BlockPtr,
         NEW gs, gs = [fs EXCEPT !.inodes[n].double = b]
  PROVE  Linked(fs, <<"double", n, 0>>, b, gs)
<1>1. fs.inodes[n] \in Inode
  BY DEF FileSys
<1>2. [fs.inodes[n] EXCEPT !.double = b] \in Inode
  BY <1>1 DEF Inode
<1>3. gs \in FileSys
  BY <1>2, PutInode
<1>4. /\ gs.bitmap = fs.bitmap /\ gs.free_blocks = fs.free_blocks
      /\ gs.data_blocks = fs.data_blocks
      /\ gs.inodes = [fs.inodes EXCEPT ![n] = [fs.inodes[n] EXCEPT !.double = b]]
  BY DEF FileSys
<1>5. /\ gs.inodes[n].double = b
      /\ gs.inodes[n].single = fs.inodes[n].single
      /\ gs.inodes[n].pointers = fs.inodes[n].pointers
      /\ \A m \in InodeNum \ {n} : gs.inodes[m] = fs.inodes[m]
  BY <1>1, <1>4 DEF FileSys, Inode
<1>6. PtrAt(gs, <<"double", n, 0>>) = b
  BY <1>5 DEF PtrAt
<1>7. \A l \in PtrLoc \ {<<"double", n, 0>>} : PtrAt(gs, l) = PtrAt(fs, l)
  <2>1. \A m \in InodeNum, j \in DirectIdx :
           <<"direct", m, j>> # <<"double", n, 0>> => gs.inodes[m].pointers[j] = fs.inodes[m].pointers[j]
    BY <1>4, <1>5
  <2>2. \A m \in InodeNum : <<"single", m, 0>> # <<"double", n, 0>> => gs.inodes[m].single = fs.inodes[m].single
    BY <1>4, <1>5
  <2>3. \A m \in InodeNum : <<"double", m, 0>> # <<"double", n, 0>> => gs.inodes[m].double = fs.inodes[m].double
    BY <1>5
  <2>4. \A d \in BlockNum, j \in PtrIdx :
           <<"index", d, j>> # <<"double", n, 0>> => gs.data_blocks[d].index_block[j] = fs.data_blocks[d].index_block[j]
    BY <1>4, <1>5
  <2>5. SameButAt(fs, gs, <<"double", n, 0>>)
    BY <2>1, <2>2, <2>3, <2>4 DEF SameButAt
  <2>6. QED
    BY <2>5, PtrEqual
<1>8. QED
  BY <1>3, <1>4, <1>6, <1>7 DEF Linked

(* Storing a pointer in an index block changes nothing else.               *)
LEMMA SetIndex ==
  ASSUME NEW fs \in FileSys, NEW c \in BlockNum, NEW k \in PtrIdx, NEW b \in BlockPtr,
         NEW gs, gs = [fs EXCEPT !.data_blocks[c].index_block[k] = b]
  PROVE  Linked(fs, <<"index", c, k>>, b, gs)
<1>1. fs.data_blocks[c] \in DataBlock
  BY DEF FileSys
<1>2. gs \in FileSys
  BY DEF FileSys, DataBlock
<1>3. /\ gs.bitmap = fs.bitmap /\ gs.free_blocks = fs.free_blocks
      /\ gs.inodes = fs.inodes
      /\ gs.data_blocks = [fs.data_blocks EXCEPT ![c] = [fs.data_blocks[c] EXCEPT !.index_block[k] = b]]
  BY DEF FileSys
<1>4. /\ gs.data_blocks[c].index_block = [fs.data_blocks[c].index_block EXCEPT ![k] = b]
      /\ \A d \in BlockNum \ {c} : gs.data_blocks[d] = fs.data_blocks[d]
  BY <1>1, <1>3 DEF FileSys, DataBlock
<1>5. PtrAt(gs, <<"index", c, k>>) = b
  <2>1. PtrAt(gs, <<"index", c, k>>) = gs.data_blocks[c].index_block[k]
    BY DEF PtrAt
  <2>2. QED
    BY <1>1, <1>4, <2>1 DEF DataBlock
<1>6. \A l \in PtrLoc \ {<<"index", c, k>>} : PtrAt(gs, l) = PtrAt(fs, l)
  <2>1. \A m \in InodeNum, j \in DirectIdx :
           <<"direct", m, j>> # <<"index", c, k>> => gs.inodes[m].pointers[j] = fs.inodes[m].pointers[j]
    BY <1>3
  <2>2. \A m \in InodeNum : <<"single", m, 0>> # <<"index", c, k>> => gs.inodes[m].single = fs.inodes[m].single
    BY <1>3
  <2>3. \A m \in InodeNum : <<"double", m, 0>> # <<"index", c, k>> => gs.inodes[m].double = fs.inodes[m].double
    BY <1>3
  <2>4. \A d \in BlockNum, j \in PtrIdx :
           <<"index", d, j>> # <<"index", c, k>> => gs.data_blocks[d].index_block[j] = fs.data_blocks[d].index_block[j]
    BY <1>1, <1>4 DEF DataBlock
  <2>5. SameButAt(fs, gs, <<"index", c, k>>)
    BY <2>1, <2>2, <2>3, <2>4 DEF SameButAt
  <2>6. QED
    BY <2>5, PtrEqual
<1>7. QED
  BY <1>2, <1>3, <1>5, <1>6 DEF Linked

(* What a search for an entry returns: a good file system, and a slot.     *)
Searched(r) == Good(r.fs) /\ r.block \in BlockPtr /\ r.slot \in EntryIdx

(* A block has a first slot.                                               *)
LEMMA SlotZero == 0 \in EntryIdx
BY DiscosAssumption DEF EntryIdx

(* A search that finds nothing returns the file system as it is.           *)
LEMMA SearchedNotFound ==
  ASSUME NEW fs, Good(fs)
  PROVE  Searched(NotFound(fs))
BY SlotZero DEF Searched, NotFound, BlockPtr

(* A search that attached a new block returns its first slot.              *)
LEMMA SearchedFound ==
  ASSUME NEW fs, Good(fs), NEW b \in BlockNum
  PROVE  Searched(Found(fs, b, 0))
BY SlotZero DEF Searched, Found, BlockPtr

(* get_next_dir_entry: the first free slot of a block, or none.            *)
LEMMA NextDirEntry ==
  ASSUME NEW fs, Good(fs), NEW b \in BlockNum
  PROVE  Searched(get_next_dir_entry(fs, b))
<1>1. CASE FreeSlots(fs, b) = {}
  BY <1>1, SearchedNotFound DEF get_next_dir_entry
<1>2. CASE FreeSlots(fs, b) # {}
  <2>1. FreeSlots(fs, b) \subseteq EntryIdx /\ EntryIdx \subseteq Nat
    BY DEF FreeSlots, EntryIdx
  <2>2. Min(FreeSlots(fs, b)) \in EntryIdx
    BY <1>2, <2>1, MinExists
  <2>3. QED
    BY <1>2, <2>2 DEF get_next_dir_entry, Found, Searched, BlockPtr
<1>3. QED
  BY <1>1, <1>2

(* get_next_dir_entry_single keeps the invariant when it attaches a block  *)
(* to an index block that no index block or direct pointer leads to.       *)
LEMMA NextSingle ==
  ASSUME NEW fs, Good(fs), NEW index \in BlockNum, SingleIndex(fs, index),
         NEW seg \in PtrIdx
  PROVE  Searched(get_next_dir_entry_single(fs, index, seg))
<1> DEFINE block == fs.data_blocks[index].index_block[seg]
           fresh == get_free_block_num_from_bitmap(fs)
           as    == allocate_data_block(fs, fresh)
           gs    == [as EXCEPT !.data_blocks[index].index_block[seg] = fresh]
           r     == get_next_dir_entry_single(fs, index, seg)
<1>0. fs \in FileSys
  BY DEF Good
<1>1. block \in BlockPtr
  BY <1>0 DEF FileSys, DataBlock
<1>2. CASE block # NULL
  <2>1. block \in BlockNum
    BY <1>1, <1>2 DEF BlockPtr
  <2>2. Searched(get_next_dir_entry(fs, block))
    BY <2>1, NextDirEntry
  <2>3. QED
    BY <1>2, <2>2 DEF get_next_dir_entry_single
<1>3. CASE block = NULL /\ fresh = NULL
  BY <1>3, SearchedNotFound DEF get_next_dir_entry_single
<1>4. CASE block = NULL /\ fresh # NULL
  <2>1. fresh \in BlockNum \ fs.bitmap /\ fs.free_blocks > 0
    BY <1>0, <1>4, FreeBlock
  <2>2. r = Found(gs, fresh, 0)
    BY <1>4 DEF get_next_dir_entry_single
  <2>3. /\ Good(as) /\ fresh \in as.bitmap /\ HoldsNoPointer(as, fresh)
        /\ \A l \in PtrLoc : PtrAt(as, l) # fresh
    BY <2>1, AllocGood
  <2>4. \A l \in PtrLoc : PtrAt(as, l) = PtrAt(fs, l)
    BY <2>1, AllocPtr
  <2>5. as \in FileSys /\ as.bitmap = fs.bitmap \cup {fresh}
    BY <1>0, <2>1, AllocType
  <2>6. fresh \in BlockPtr /\ fresh # index
    BY <2>1 DEF BlockPtr, SingleIndex
  <2>0. gs = [as EXCEPT !.data_blocks[index].index_block[seg] = fresh]
    OBVIOUS
  <2> HIDE DEF fresh, as, gs
  <2>7. Linked(as, <<"index", index, seg>>, fresh, gs)
    BY <2>0, <2>5, <2>6, SetIndex
  <2>8. <<"index", index, seg>> \in PtrLoc /\ PtrAt(as, <<"index", index, seg>>) = NULL
    <3>1. <<"index", index, seg>> \in PtrLoc
      BY LocMembers
    <3>2. PtrAt(fs, <<"index", index, seg>>) = block
      BY DEF PtrAt
    <3>3. QED
      BY <1>4, <2>4, <3>1, <3>2
  <2>9. Linkable(as, <<"index", index, seg>>, fresh)
    <3>1. SingleIndex(as, index)
      BY <2>4, <2>5 DEF SingleIndex, UsedLoc
    <3>2. QED
      BY <2>3, <2>6, <2>8, <3>1 DEF Linkable
  <2>10. Good(gs)
    BY <2>3, <2>7, <2>9, LinkGood
  <2>11. QED
    BY <2>1, <2>2, <2>10, SearchedFound
<1>5. QED
  BY <1>2, <1>3, <1>4

(* get_next_dir_entry_double keeps the invariant: the new index block it   *)
(* never links is nobody's, so the block below it is still owned once.     *)
LEMMA NextDouble ==
  ASSUME NEW fs, Good(fs), NEW index \in BlockNum, HoldsNoPointer(fs, index),
         NEW seg \in 0 .. PTRS_PER_BLOCK * PTRS_PER_BLOCK - 1
  PROVE  Searched(get_next_dir_entry_double(fs, index, seg))
<1> DEFINE block == fs.data_blocks[index].index_block[seg \div PTRS_PER_BLOCK]
           fresh == get_free_block_num_from_bitmap(fs)
           as    == allocate_data_block(fs, fresh)
<1>0. fs \in FileSys
  BY DEF Good
<1>1. seg \div PTRS_PER_BLOCK \in PtrIdx /\ seg % PTRS_PER_BLOCK \in PtrIdx
  BY DivInRange, DiscosAssumption DEF PtrIdx
<1>2. block = NULL
  BY <1>1 DEF HoldsNoPointer
<1>3. CASE fresh = NULL
  BY <1>2, <1>3, SearchedNotFound DEF get_next_dir_entry_double
<1>4. CASE fresh # NULL
  <2>1. fresh \in BlockNum \ fs.bitmap /\ fs.free_blocks > 0
    BY <1>0, <1>4, FreeBlock
  <2>2. get_next_dir_entry_double(fs, index, seg)
          = get_next_dir_entry_single(as, fresh, seg % PTRS_PER_BLOCK)
    BY <1>2, <1>4 DEF get_next_dir_entry_double
  <2>3. /\ Good(as) /\ fresh \in as.bitmap
        /\ \A l \in PtrLoc : PtrAt(as, l) # fresh
    BY <2>1, AllocGood
  <2>4. SingleIndex(as, fresh)
    BY <2>3 DEF SingleIndex, UsedLoc
  <2> HIDE DEF fresh, as
  <2>5. QED
    BY <1>1, <2>1, <2>2, <2>3, <2>4, NextSingle
<1>5. QED
  BY <1>3, <1>4

(* get_next_entry among the direct pointers keeps the invariant.           *)
LEMMA NextInDirectGood ==
  ASSUME NEW fs, Good(fs), NEW n \in InodeNum, NEW i \in DirectIdx
  PROVE  Searched(NextInDirect(fs, n, i))
<1> DEFINE block == fs.inodes[n].pointers[i]
           fresh == get_free_block_num_from_bitmap(fs)
           as    == allocate_data_block(fs, fresh)
           gs    == [as EXCEPT !.inodes[n].pointers[i] = fresh]
           l0    == <<"direct", n, i>>
<1>0. fs \in FileSys
  BY DEF Good
<1>1. block \in BlockPtr
  <2>1. fs.inodes[n] \in Inode
    BY <1>0 DEF FileSys
  <2>2. QED
    BY <2>1 DEF Inode
<1>2. CASE block # NULL
  <2>1. block \in BlockNum
    BY <1>1, <1>2 DEF BlockPtr
  <2>2. Searched(get_next_dir_entry(fs, block))
    BY <2>1, NextDirEntry
  <2>3. QED
    BY <1>2, <2>2 DEF NextInDirect
<1>3. CASE block = NULL /\ fresh = NULL
  BY <1>3, SearchedNotFound DEF NextInDirect
<1>4. CASE block = NULL /\ fresh # NULL
  <2>1. fresh \in BlockNum \ fs.bitmap /\ fs.free_blocks > 0
    BY <1>0, <1>4, FreeBlock
  <2>2. NextInDirect(fs, n, i) = Found(gs, fresh, 0)
    BY <1>4 DEF NextInDirect
  <2>3. /\ Good(as) /\ fresh \in as.bitmap /\ HoldsNoPointer(as, fresh)
        /\ \A l \in PtrLoc : PtrAt(as, l) # fresh
    BY <2>1, AllocGood
  <2>4. \A l \in PtrLoc : PtrAt(as, l) = PtrAt(fs, l)
    BY <2>1, AllocPtr
  <2>5. as \in FileSys /\ fresh \in BlockPtr
    BY <1>0, <2>1, AllocType DEF BlockPtr
  <2>0. gs = [as EXCEPT !.inodes[n].pointers[i] = fresh]
    OBVIOUS
  <2> HIDE DEF fresh, as, gs
  <2>6. Linked(as, l0, fresh, gs)
    BY <2>0, <2>5, SetDirect
  <2>7. l0 \in PtrLoc /\ PtrAt(as, l0) = NULL /\ l0[1] # "index"
    <3>1. l0 \in PtrLoc /\ l0[1] # "index"
      BY LocMembers
    <3>2. PtrAt(fs, l0) = block
      BY DEF PtrAt
    <3>3. QED
      BY <1>4, <2>4, <3>1, <3>2
  <2> HIDE DEF l0
  <2>8. Good(gs)
    <3>1. Linkable(as, l0, fresh)
      BY <2>3, <2>7 DEF Linkable
    <3>2. QED
      BY <2>3, <2>6, <3>1, LinkGood
  <2>9. QED
    BY <2>1, <2>2, <2>8, SearchedFound
<1>5. QED
  BY <1>2, <1>3, <1>4

(* get_next_entry in the single indirect range keeps the invariant, also   *)
(* when it attaches the index block and then finds no data block.          *)
LEMMA NextInSingleGood ==
  ASSUME NEW fs, Good(fs), NEW n \in InodeNum, NEW seg \in PtrIdx
  PROVE  Searched(NextInSingle(fs, n, seg))
<1> DEFINE index == fs.inodes[n].single
           fresh == get_free_block_num_from_bitmap(fs)
           as    == allocate_data_block(fs, fresh)
           gs    == [as EXCEPT !.inodes[n].single = fresh]
           l0    == <<"single", n, 0>>
<1>0. fs \in FileSys
  BY DEF Good
<1>1. l0 \in PtrLoc /\ l0[1] = "single" /\ PtrAt(fs, l0) = index
  BY LocMembers DEF PtrAt
<1>2. CASE index # NULL
  <2>1. index \in BlockNum
    BY <1>0, <1>2 DEF BlockPtr, FileSys, Inode
  <2> HIDE DEF l0
  <2>2. SingleIndex(fs, index)
    <3>1. l0 \in UsedLoc(fs)
      BY <1>1, <1>2 DEF UsedLoc
    <3>2. QED
      BY <1>1, <3>1 DEF SingleIndex, Good, Owned
  <2>3. Searched(get_next_dir_entry_single(fs, index, seg))
    BY <2>1, <2>2, NextSingle
  <2>4. QED
    BY <1>2, <2>3 DEF NextInSingle
<1>3. CASE index = NULL /\ fresh = NULL
  BY <1>3, SearchedNotFound DEF NextInSingle
<1>4. CASE index = NULL /\ fresh # NULL
  <2>1. fresh \in BlockNum \ fs.bitmap /\ fs.free_blocks > 0
    BY <1>0, <1>4, FreeBlock
  <2>2. NextInSingle(fs, n, seg) = get_next_dir_entry_single(gs, fresh, seg)
    BY <1>4 DEF NextInSingle
  <2>3. /\ Good(as) /\ fresh \in as.bitmap /\ HoldsNoPointer(as, fresh)
        /\ \A l \in PtrLoc : PtrAt(as, l) # fresh
    BY <2>1, AllocGood
  <2>4. \A l \in PtrLoc : PtrAt(as, l) = PtrAt(fs, l)
    BY <2>1, AllocPtr
  <2>5. as \in FileSys /\ fresh \in BlockPtr
    BY <1>0, <2>1, AllocType DEF BlockPtr
  <2>0. gs = [as EXCEPT !.inodes[n].single = fresh]
    OBVIOUS
  <2> HIDE DEF fresh, as, gs
  <2>6. Linked(as, l0, fresh, gs)
    BY <2>0, <2>5, SetSingle
  <2>7. PtrAt(as, l0) = NULL
    BY <1>1, <1>4, <2>4
  <2> HIDE DEF l0
  <2>8. Good(gs) /\ \A l \in PtrLoc : PtrAt(gs, l) = fresh => l = l0
    <3>1. Linkable(as, l0, fresh)
      BY <1>1, <2>3, <2>7 DEF Linkable
    <3>2. QED
      BY <2>3, <2>6, <3>1, LinkGood
  <2>9. SingleIndex(gs, fresh)
    BY <1>1, <2>3, <2>6, <2>8 DEF SingleIndex, UsedLoc, Linked
  <2>10. QED
    BY <2>1, <2>2, <2>8, <2>9, NextSingle
<1>5. QED
  BY <1>2, <1>3, <1>4

(* get_next_entry in the double indirect range keeps the invariant.        *)
LEMMA NextInDoubleGood ==
  ASSUME NEW fs, Good(fs), NEW n \in InodeNum,
         NEW seg \in 0 .. PTRS_PER_BLOCK * PTRS_PER_BLOCK - 1
  PROVE  Searched(NextInDouble(fs, n, seg))
<1> DEFINE index == fs.inodes[n].double
           fresh == get_free_block_num_from_bitmap(fs)
           as    == allocate_data_block(fs, fresh)
           gs    == [as EXCEPT !.inodes[n].double = fresh]
           l0    == <<"double", n, 0>>
<1>0. fs \in FileSys
  BY DEF Good
<1>1. l0 \in PtrLoc /\ l0[1] = "double" /\ PtrAt(fs, l0) = index
  BY LocMembers DEF PtrAt
<1>2. CASE index # NULL
  <2>1. index \in BlockNum
    BY <1>0, <1>2 DEF BlockPtr, FileSys, Inode
  <2> HIDE DEF l0
  <2>2. HoldsNoPointer(fs, index)
    <3>1. l0 \in UsedLoc(fs) /\ l0[1] # "single"
      BY <1>1, <1>2 DEF UsedLoc
    <3>2. QED
      BY <1>1, <3>1 DEF Good, IndexOnly
  <2>3. Searched(get_next_dir_entry_double(fs, index, seg))
    BY <2>1, <2>2, NextDouble
  <2>4. QED
    BY <1>2, <2>3 DEF NextInDouble
<1>3. CASE index = NULL /\ fresh = NULL
  BY <1>3, SearchedNotFound DEF NextInDouble
<1>4. CASE index = NULL /\ fresh # NULL
  <2>1. fresh \in BlockNum \ fs.bitmap /\ fs.free_blocks > 0
    BY <1>0, <1>4, FreeBlock
  <2>2. NextInDouble(fs, n, seg) = get_next_dir_entry_double(gs, fresh, seg)
    BY <1>4 DEF NextInDouble
  <2>3. /\ Good(as) /\ fresh \in as.bitmap /\ HoldsNoPointer(as, fresh)
        /\ \A l \in PtrLoc : PtrAt(as, l) # fresh
    BY <2>1, AllocGood
  <2>4. \A l \in PtrLoc : PtrAt(as, l) = PtrAt(fs, l)
    BY <2>1, AllocPtr
  <2>5. as \in FileSys /\ fresh \in BlockPtr
    BY <1>0, <2>1, AllocType DEF BlockPtr
  <2>0. gs = [as EXCEPT !.inodes[n].double = fresh]
    OBVIOUS
  <2> HIDE DEF fresh, as, gs
  <2>6. Linked(as, l0, fresh, gs)
    BY <2>0, <2>5, SetDouble
  <2>7. PtrAt(as, l0) = NULL
    BY <1>1, <1>4, <2>4
  <2> HIDE DEF l0
  <2>8. Good(gs) /\ HoldsNoPointer(gs, fresh)
    <3>1. Linkable(as, l0, fresh)
      BY <1>1, <2>3, <2>7 DEF Linkable
    <3>2. QED
      BY <2>3, <2>6, <3>1, LinkGood
  <2>9. QED
    BY <2>1, <2>2, <2>8, NextDouble
<1>5. QED
  BY <1>2, <1>3, <1>4

(* get_next_entry, from wherever it starts and however far it gets, keeps  *)
(* the invariant and yields a slot of a block or nothing.                  *)
LEMMA NextEntryGood ==
  ASSUME NEW fs, Good(fs), NEW n \in InodeNum
  PROVE  Searched(get_next_entry(fs, n))
<1> DEFINE seg    == fs.inodes[n].size \div BLOCK_SIZE
           lo     == INODE_NUM_DIRECT_PTR
           hi     == lo + PTRS_PER_BLOCK
           top    == hi + PTRS_PER_BLOCK * PTRS_PER_BLOCK
           direct == {i \in DirectIdx : /\ i >= seg
                                        /\ \/ fs.inodes[n].pointers[i] = NULL
                                           \/ FreeSlots(fs, fs.inodes[n].pointers[i]) # {}}
           single == NextInSingle(fs, n, seg - lo)
<1>1. CASE direct # {}
  <2>1. direct \subseteq DirectIdx /\ DirectIdx \subseteq Nat
    BY DEF DirectIdx
  <2>2. Min(direct) \in DirectIdx
    BY <1>1, <2>1, MinExists
  <2>3. get_next_entry(fs, n) = NextInDirect(fs, n, Min(direct))
    BY <1>1 DEF get_next_entry
  <2>4. QED
    BY <2>2, <2>3, NextInDirectGood
<1>2. CASE direct = {} /\ seg \in lo .. hi - 1
  <2>1. seg - lo \in PtrIdx
    BY <1>2, DiscosAssumption DEF PtrIdx
  <2>2. Searched(single)
    BY <2>1, NextInSingleGood
  <2>3. 0 \in 0 .. PTRS_PER_BLOCK * PTRS_PER_BLOCK - 1
    BY DiscosAssumption
  <2>4. Searched(NextInDouble(single.fs, n, 0))
    BY <2>2, <2>3, NextInDoubleGood DEF Searched
  <2>5. get_next_entry(fs, n) \in {single, NextInDouble(single.fs, n, 0)}
    BY <1>2 DEF get_next_entry
  <2>6. QED
    BY <2>2, <2>4, <2>5
<1>3. CASE direct = {} /\ seg \notin lo .. hi - 1 /\ seg \in hi .. top - 1
  <2>1. seg - hi \in 0 .. PTRS_PER_BLOCK * PTRS_PER_BLOCK - 1
    BY <1>3, DiscosAssumption
  <2>2. get_next_entry(fs, n) = NextInDouble(fs, n, seg - hi)
    BY <1>3 DEF get_next_entry
  <2>3. QED
    BY <2>1, <2>2, NextInDoubleGood
<1>4. CASE direct = {} /\ seg \notin lo .. hi - 1 /\ seg \notin hi .. top - 1
  <2>1. get_next_entry(fs, n) = NotFound(fs)
    BY <1>4 DEF get_next_entry
  <2>2. QED
    BY <2>1, SearchedNotFound
<1>5. QED
  BY <1>1, <1>2, <1>3, <1>4

(* gs has the pointers of fs, or fewer.                                    *)
Shrinks(fs, gs) ==
  /\ \A n \in InodeNum :
       /\ \A i \in DirectIdx : gs.inodes[n].pointers[i] \in {NULL, fs.inodes[n].pointers[i]}
       /\ gs.inodes[n].single \in {NULL, fs.inodes[n].single}
       /\ gs.inodes[n].double \in {NULL, fs.inodes[n].double}
  /\ \A b \in BlockNum, k \in PtrIdx :
       gs.data_blocks[b].index_block[k] \in {NULL, fs.data_blocks[b].index_block[k]}

(* Every stored pointer is kept or dropped ...                             *)
LEMMA ShrinkPtr ==
  ASSUME NEW fs, NEW gs, Shrinks(fs, gs)
  PROVE  \A l \in PtrLoc : PtrAt(gs, l) \in {NULL, PtrAt(fs, l)}
<1> SUFFICES ASSUME NEW l \in PtrLoc PROVE PtrAt(gs, l) \in {NULL, PtrAt(fs, l)}
  OBVIOUS
<1>1. CASE \E n \in InodeNum, i \in DirectIdx : l = <<"direct", n, i>>
  BY <1>1 DEF PtrAt, Shrinks
<1>2. CASE \E n \in InodeNum : l = <<"single", n, 0>>
  BY <1>2 DEF PtrAt, Shrinks
<1>3. CASE \E n \in InodeNum : l = <<"double", n, 0>>
  BY <1>3 DEF PtrAt, Shrinks
<1>4. CASE \E b \in BlockNum, k \in PtrIdx : l = <<"index", b, k>>
  BY <1>4 DEF PtrAt, Shrinks
<1>5. QED
  BY <1>1, <1>2, <1>3, <1>4, LocCases

(* ... so that a block without pointers stays one.                         *)
LEMMA ShrinkNoPointer ==
  ASSUME NEW fs, NEW gs, Shrinks(fs, gs), NEW b \in BlockNum, HoldsNoPointer(fs, b)
  PROVE  HoldsNoPointer(gs, b)
BY DEF Shrinks, HoldsNoPointer

(* An operation that drops pointers and leaves the bitmap and the counter  *)
(* alone keeps the invariant.                                              *)
LEMMA ShrinkGood ==
  ASSUME NEW fs, Good(fs), NEW gs \in FileSys, Shrinks(fs, gs),
         gs.bitmap = fs.bitmap, gs.free_blocks = fs.free_blocks
  PROVE  Good(gs)
<1>1. \A l \in PtrLoc : PtrAt(gs, l) \in {NULL, PtrAt(fs, l)}
  BY ShrinkPtr
<1>2. \A l \in UsedLoc(gs) : PtrAt(gs, l) \in gs.bitmap
  BY <1>1 DEF UsedLoc, Good, Owned
<1>3. \A b \in BlockNum \ gs.bitmap : HoldsNoPointer(gs, b)
  BY ShrinkNoPointer DEF Good, IndexOnly
<1>4. Owned(gs) /\ IndexOnly(gs)
  BY <1>1, <1>2, <1>3, Release
<1>5. Covered(gs)
  BY DEF Good, Covered
<1>6. QED
  BY <1>4, <1>5 DEF Good

(* Arithmetic on a size stays an unsigned int.                             *)
LEMMA WrapType ==
  ASSUME NEW x \in Int
  PROVE  x % UINT_RANGE \in UInt
BY DiscosAssumption DEF UInt

(* Replacing an inode by one with the same pointers, or with none, keeps   *)
(* the invariant.                                                          *)
LEMMA PutInodeShrinks ==
  ASSUME NEW fs, Good(fs), NEW n \in InodeNum, NEW z \in Inode,
         z.pointers \in {fs.inodes[n].pointers, ZeroInode.pointers},
         z.single \in {fs.inodes[n].single, NULL},
         z.double \in {fs.inodes[n].double, NULL},
         NEW gs, gs = [fs EXCEPT !.inodes[n] = z]
  PROVE  Good(gs)
<1>1. fs \in FileSys
  BY DEF Good
<1>2. gs \in FileSys
  BY <1>1, PutInode
<1>3. /\ gs.bitmap = fs.bitmap /\ gs.free_blocks = fs.free_blocks
      /\ gs.data_blocks = fs.data_blocks
      /\ gs.inodes = [fs.inodes EXCEPT ![n] = z]
  BY <1>1 DEF FileSys
<1>4. gs.inodes[n] = z /\ \A m \in InodeNum \ {n} : gs.inodes[m] = fs.inodes[m]
  BY <1>1, <1>3 DEF FileSys
<1>5. \A i \in DirectIdx : ZeroInode.pointers[i] = NULL
  BY DEF ZeroInode
<1>6. Shrinks(fs, gs)
  BY <1>3, <1>4, <1>5 DEF Shrinks
<1>7. QED
  BY <1>2, <1>3, <1>6, ShrinkGood

(* Writing a directory entry keeps the invariant.                          *)
LEMMA PutEntryGood ==
  ASSUME NEW fs, Good(fs), NEW b \in BlockNum, NEW j \in EntryIdx, NEW d \in DirEntry,
         NEW gs, gs = [fs EXCEPT !.data_blocks[b].entries[j] = d]
  PROVE  Good(gs) /\ gs.free_inodes = fs.free_inodes
<1>1. fs \in FileSys
  BY DEF Good
<1>2. fs.data_blocks[b] \in DataBlock
  BY <1>1 DEF FileSys
<1>3. [fs.data_blocks[b] EXCEPT !.entries[j] = d] \in DataBlock
  BY <1>2 DEF DataBlock
<1>4. gs \in FileSys
  BY <1>1, <1>3 DEF FileSys
<1>5. /\ gs.bitmap = fs.bitmap /\ gs.free_blocks = fs.free_blocks
      /\ gs.free_inodes = fs.free_inodes /\ gs.inodes = fs.inodes
      /\ gs.data_blocks = [fs.data_blocks EXCEPT ![b] = [fs.data_blocks[b] EXCEPT !.entries[j] = d]]
  BY <1>1 DEF FileSys
<1>6. \A c \in BlockNum : gs.data_blocks[c].index_block = fs.data_blocks[c].index_block
  BY <1>1, <1>2, <1>5 DEF FileSys, DataBlock
<1>7. Shrinks(fs, gs)
  BY <1>5, <1>6 DEF Shrinks
<1>8. QED
  BY <1>4, <1>5, <1>7, ShrinkGood

(* Counting inodes keeps the invariant.                                    *)
LEMMA CountGood ==
  ASSUME NEW fs, Good(fs), NEW c \in UInt,
         NEW gs, gs = [fs EXCEPT !.free_inodes = c]
  PROVE  Good(gs)
<1>1. fs \in FileSys
  BY DEF Good
<1>2. /\ gs \in FileSys /\ gs.inodes = fs.inodes /\ gs.data_blocks = fs.data_blocks
      /\ gs.bitmap = fs.bitmap /\ gs.free_blocks = fs.free_blocks
  BY <1>1 DEF FileSys
<1>3. Shrinks(fs, gs)
  BY <1>2 DEF Shrinks
<1>4. QED
  BY <1>2, <1>3, ShrinkGood

(* Writing a size keeps the invariant.                                     *)
LEMMA ResizeGood ==
  ASSUME NEW fs, Good(fs), NEW n \in InodeNum, NEW s \in UInt,
         NEW gs, gs = [fs EXCEPT !.inodes[n].size = s]
  PROVE  Good(gs)
<1> DEFINE z == [fs.inodes[n] EXCEPT !.size = s]
<1>1. fs.inodes[n] \in Inode
  BY DEF Good, FileSys
<1>2. z \in Inode
  BY <1>1 DEF Inode
<1>3. z.pointers = fs.inodes[n].pointers /\ z.single = fs.inodes[n].single /\ z.double = fs.inodes[n].double
  BY <1>1 DEF Inode
<1>4. gs = [fs EXCEPT !.inodes[n] = z]
  OBVIOUS
<1> HIDE DEF z
<1>5. QED
  BY <1>2, <1>3, <1>4, PutInodeShrinks

(* The end of rd_create keeps the invariant, whichever slot the entry goes *)
(* to and even if the new inode were the parent.                           *)
LEMMA FillEntryGood ==
  ASSUME NEW e, Searched(e), e.block \in BlockNum,
         NEW dir \in InodeNum, NEW n \in InodeNum, e.fs.free_inodes > 0,
         NEW name \in Names \cup {NoName}, NEW type \in {"dir", "reg"}, NEW mode \in Nat
  PROVE  Good(FillEntry(e, dir, n, name, type, mode))
<1> DEFINE fs == e.fs
           as == [fs EXCEPT !.free_inodes = fs.free_inodes - 1]
           bs == [as EXCEPT !.inodes[n] = ZeroInode]
           d  == [name |-> name, inode_num |-> n]
           cs == [bs EXCEPT !.data_blocks[e.block].entries[e.slot] = d]
           z  == [ZeroInode EXCEPT !.type = type, !.access = mode]
           ds == [cs EXCEPT !.inodes[n] = z]
           s  == (ds.inodes[dir].size + DIR_ENTRY_SIZE) % UINT_RANGE
           gs == [ds EXCEPT !.inodes[dir].size = s]
<1>1. Good(fs) /\ fs.free_inodes - 1 \in UInt /\ e.slot \in EntryIdx
  BY DiscosAssumption DEF Searched, Good, FileSys, UInt
<1>2. allocate_inode(fs, n) = bs
  BY DEF allocate_inode
<1>3. Filled(e, n, name, type, mode) = ds
  BY <1>2 DEF Filled
<1>4. FillEntry(e, dir, n, name, type, mode) = gs
  BY <1>3 DEF FillEntry
<1>5. /\ d \in DirEntry /\ ZeroInode \in Inode /\ z \in Inode
      /\ z.pointers = ZeroInode.pointers /\ z.single = NULL /\ z.double = NULL
      /\ ZeroInode.single = NULL /\ ZeroInode.double = NULL
  BY ZeroTypes DEF DirEntry, Inode, ZeroInode
<1> HIDE DEF fs, d, z
<1>6. Good(as)
  BY <1>1, CountGood
<1> HIDE DEF as
<1>7. Good(bs)
  BY <1>5, <1>6, PutInodeShrinks
<1> HIDE DEF bs
<1>8. Good(cs)
  BY <1>1, <1>5, <1>7, PutEntryGood
<1> HIDE DEF cs
<1>9. Good(ds)
  BY <1>5, <1>8, PutInodeShrinks
<1> HIDE DEF ds
<1>10. s \in UInt
  <2>1. ds.inodes[dir] \in Inode
    BY <1>9 DEF Good, FileSys
  <2>2. ds.inodes[dir].size + DIR_ENTRY_SIZE \in Int
    <3>1. ds.inodes[dir].size \in UInt
      BY <2>1 DEF Inode
    <3>2. \A x \in UInt : x \in Int
      BY DEF UInt
    <3>3. QED
      BY <3>1, <3>2 DEF DIR_ENTRY_SIZE
  <2>3. QED
    BY <2>2, WrapType
<1> HIDE DEF s
<1>11. Good(gs)
  BY <1>9, <1>10, ResizeGood
<1>12. QED
  BY <1>4, <1>11

-----------------------------------------------------------------------------
(* Unmarking the blocks R keeps the invariant if every pointer to them is  *)
(* dropped and they hold none.                                             *)
LEMMA FreedGood ==
  ASSUME NEW fs, Good(fs), NEW gs \in FileSys, Shrinks(fs, gs), NEW R,
         gs.bitmap = fs.bitmap \ R,
         \A l \in PtrLoc : PtrAt(fs, l) \in R => PtrAt(gs, l) = NULL,
         \A b \in R : HoldsNoPointer(gs, b),
         Covered(gs)
  PROVE  Good(gs)
<1>1. \A l \in PtrLoc : PtrAt(gs, l) \in {NULL, PtrAt(fs, l)}
  BY ShrinkPtr
<1>2. \A l \in UsedLoc(gs) : PtrAt(gs, l) \in gs.bitmap
  BY <1>1 DEF UsedLoc, Good, Owned
<1>3. \A b \in BlockNum \ gs.bitmap : HoldsNoPointer(gs, b)
  BY ShrinkNoPointer DEF Good, IndexOnly
<1>4. Owned(gs) /\ IndexOnly(gs)
  BY <1>1, <1>2, <1>3, Release
<1>5. QED
  BY <1>4 DEF Good

(* Unmarking blocks without counting them keeps the counter covered.       *)
LEMMA CoveredByMore ==
  ASSUME NEW fs \in FileSys, Covered(fs), NEW gs \in FileSys,
         gs.bitmap \subseteq fs.bitmap, gs.free_blocks = fs.free_blocks
  PROVE  Covered(gs)
<1>1. BlockNum \ fs.bitmap \subseteq BlockNum \ gs.bitmap
  OBVIOUS
<1>2. Cardinality(BlockNum \ fs.bitmap) <= Cardinality(BlockNum \ gs.bitmap)
  BY <1>1, FreeSetFinite, FS_Subset
<1>3. /\ Cardinality(BlockNum \ fs.bitmap) \in Nat
      /\ Cardinality(BlockNum \ gs.bitmap) \in Nat
      /\ fs.free_blocks \in Nat
  BY FreeSetFinite DEF FileSys
<1>4. QED
  BY <1>2, <1>3 DEF Covered

(* Inode n without its pointers: what rd_unlink makes of it in the end.    *)
Detach(fs, n) == [fs EXCEPT !.inodes[n] = ZeroInode]

(* What Detach changes.                                                    *)
LEMMA DetachFields ==
  ASSUME NEW fs \in FileSys, NEW n \in InodeNum
  PROVE  /\ Detach(fs, n) \in FileSys
         /\ Detach(fs, n).bitmap = fs.bitmap
         /\ Detach(fs, n).free_blocks = fs.free_blocks
         /\ Detach(fs, n).data_blocks = fs.data_blocks
         /\ Detach(fs, n).inodes[n] = ZeroInode
         /\ \A m \in InodeNum \ {n} : Detach(fs, n).inodes[m] = fs.inodes[m]
<1>1. Detach(fs, n) \in FileSys
  BY ZeroTypes, PutInode DEF Detach
<1>2. /\ Detach(fs, n).bitmap = fs.bitmap
      /\ Detach(fs, n).free_blocks = fs.free_blocks
      /\ Detach(fs, n).data_blocks = fs.data_blocks
      /\ Detach(fs, n).inodes = [fs.inodes EXCEPT ![n] = ZeroInode]
  BY DEF FileSys, Detach
<1>3. /\ Detach(fs, n).inodes[n] = ZeroInode
      /\ \A m \in InodeNum \ {n} : Detach(fs, n).inodes[m] = fs.inodes[m]
  BY <1>2 DEF FileSys
<1>4. QED
  BY <1>1, <1>2, <1>3

(* Zeroed inodes and blocks hold no pointer.                               *)
LEMMA ZeroPointers ==
  /\ \A i \in DirectIdx : ZeroInode.pointers[i] = NULL
  /\ ZeroInode.single = NULL /\ ZeroInode.double = NULL
  /\ \A k \in PtrIdx : ZeroBlock.index_block[k] = NULL
BY DEF ZeroInode, ZeroBlock

(* The pointer to block t is stored in inode n or in one of its index      *)
(* blocks.                                                                 *)
Leads(fs, n, t) ==
  \E m \in PtrLoc : /\ PtrAt(fs, m) = t
                    /\ m[1] = "index" => m[2] \in BlocksOf(fs, n)
                    /\ m[1] # "index" => m[2] = n

(* A block that a slot of an index block of inode n leads to.              *)
LEMMA SlotLeads ==
  ASSUME NEW fs \in FileSys, NEW n, NEW b \in BlockPtr,
         b # NULL => b \in BlocksOf(fs, n),
         NEW t \in IndexTargets(fs, b)
  PROVE  t \in BlockNum /\ Leads(fs, n, t)
<1>1. PICK k \in PtrIdx : t = Index(fs, b, k) /\ t # NULL
  BY DEF IndexTargets
<1>2. b \in BlockNum /\ b \in BlocksOf(fs, n) /\ t = fs.data_blocks[b].index_block[k]
  BY <1>1 DEF Index, BlockPtr
<1>3. t \in BlockNum
  BY <1>1, <1>2 DEF FileSys, DataBlock, BlockPtr
<1>4. <<"index", b, k>> \in PtrLoc /\ PtrAt(fs, <<"index", b, k>>) = t
  BY <1>2, LocMembers, LocValues
<1>5. QED
  BY <1>2, <1>3, <1>4 DEF Leads

(* Every block that my_clear_inode gives back is one that a pointer of the *)
(* inode, or a slot of one of its own index blocks, leads to.              *)
LEMMA BlocksLead ==
  ASSUME NEW fs \in FileSys, NEW n \in InodeNum, NEW t \in BlocksOf(fs, n)
  PROVE  t \in BlockNum /\ Leads(fs, n, t)
<1> DEFINE inode == fs.inodes[n]
<1>1. /\ inode \in Inode /\ inode.single \in BlockPtr /\ inode.double \in BlockPtr
      /\ \A i \in DirectIdx : inode.pointers[i] \in BlockPtr
  BY DEF FileSys, Inode
<1>2. /\ inode.single # NULL => inode.single \in BlocksOf(fs, n)
      /\ inode.double # NULL => inode.double \in BlocksOf(fs, n)
      /\ IndexTargets(fs, inode.double) \subseteq BlocksOf(fs, n)
  BY DEF BlocksOf
<1>3. CASE \E i \in DirectIdx : t = inode.pointers[i] /\ t # NULL
  <2>1. PICK i \in DirectIdx : t = inode.pointers[i] /\ t # NULL
    BY <1>3
  <2>2. <<"direct", n, i>> \in PtrLoc /\ PtrAt(fs, <<"direct", n, i>>) = t
    <3>1. PtrAt(fs, <<"direct", n, i>>) = fs.inodes[n].pointers[i]
      BY DEF PtrAt
    <3>2. QED
      BY <2>1, <3>1, LocMembers
  <2>3. QED
    BY <1>1, <2>1, <2>2 DEF Leads, BlockPtr
<1>4. CASE t = inode.single /\ t # NULL
  <2>1. <<"single", n, 0>> \in PtrLoc /\ PtrAt(fs, <<"single", n, 0>>) = t
    BY <1>4, LocMembers, LocValues
  <2>2. QED
    BY <1>1, <1>4, <2>1 DEF Leads, BlockPtr
<1>5. CASE t = inode.double /\ t # NULL
  <2>1. <<"double", n, 0>> \in PtrLoc /\ PtrAt(fs, <<"double", n, 0>>) = t
    BY <1>5, LocMembers, LocValues
  <2>2. QED
    BY <1>1, <1>5, <2>1 DEF Leads, BlockPtr
<1>6. CASE t \in IndexTargets(fs, inode.single)
  BY <1>1, <1>2, <1>6, SlotLeads
<1>7. CASE t \in IndexTargets(fs, inode.double)
  BY <1>1, <1>2, <1>7, SlotLeads
<1>8. CASE \E b \in IndexTargets(fs, inode.double) : t \in IndexTargets(fs, b)
  <2>1. PICK b \in IndexTargets(fs, inode.double) : t \in IndexTargets(fs, b)
    BY <1>8
  <2>2. b \in BlockNum
    BY <1>1, <1>2, SlotLeads
  <2>3. b \in BlockPtr /\ b \in BlocksOf(fs, n)
    BY <1>2, <2>2 DEF BlockPtr
  <2>4. QED
    BY <2>1, <2>3, SlotLeads
<1>9. QED
  BY <1>3, <1>4, <1>5, <1>6, <1>7, <1>8 DEF BlocksOf

(* What my_clear_inode changes.                                            *)
LEMMA ClearInodeFields ==
  ASSUME NEW fs \in FileSys, NEW n \in InodeNum,
         NEW xs, xs = my_clear_inode(fs, n)
  PROVE  /\ xs \in FileSys
         /\ xs.inodes = fs.inodes
         /\ xs.bitmap = fs.bitmap \ BlocksOf(fs, n)
         /\ xs.free_blocks = fs.free_blocks + Cardinality(BlocksOf(fs, n))
         /\ xs.free_inodes = fs.free_inodes
         /\ \A b \in BlocksOf(fs, n) : xs.data_blocks[b] = ZeroBlock
         /\ \A b \in BlockNum \ BlocksOf(fs, n) : xs.data_blocks[b] = fs.data_blocks[b]
<1> DEFINE D == BlocksOf(fs, n)
           blocks == [b \in BlockNum |-> IF b \in D THEN ZeroBlock ELSE fs.data_blocks[b]]
<1>1. D \subseteq BlockNum
  BY BlocksLead
<1>2. Cardinality(D) \in Nat
  <2>1. IsFiniteSet(BlockNum)
    BY FS_Interval, DiscosAssumption DEF BlockNum
  <2>2. QED
    BY <1>1, <2>1, FS_Subset, FS_CardinalityType
<1>3. xs = [fs EXCEPT !.bitmap = @ \ D, !.free_blocks = @ + Cardinality(D), !.data_blocks = blocks]
  BY DEF my_clear_inode
<1> HIDE DEF D
<1>4. blocks \in [BlockNum -> DataBlock]
  BY ZeroTypes DEF FileSys
<1>5. /\ \A b \in BlockNum \ D : blocks[b] = fs.data_blocks[b]
      /\ \A b \in D : blocks[b] = ZeroBlock
  BY <1>1
<1> HIDE DEF blocks
<1>6. fs.bitmap \ D \in SUBSET BlockNum /\ fs.free_blocks + Cardinality(D) \in Nat
  BY <1>2 DEF FileSys
<1>7. xs \in FileSys
  BY <1>3, <1>4, <1>6 DEF FileSys
<1>8. /\ xs.inodes = fs.inodes /\ xs.bitmap = fs.bitmap \ D
      /\ xs.free_blocks = fs.free_blocks + Cardinality(D)
      /\ xs.free_inodes = fs.free_inodes /\ xs.data_blocks = blocks
  BY <1>3 DEF FileSys
<1>9. QED
  BY <1>5, <1>7, <1>8 DEF D

(* The first half of rd_unlink keeps the invariant up to the pointers of   *)
(* the inode it clears: it unmarks the blocks of that inode, which nobody  *)
(* else owns, and counts each once.                                        *)
LEMMA ClearInodeGood ==
  ASSUME NEW fs, Good(fs), NEW n \in InodeNum
  PROVE  Good(Detach(my_clear_inode(fs, n), n))
<1> DEFINE D  == BlocksOf(fs, n)
           xs == my_clear_inode(fs, n)
           gs == Detach(xs, n)
<1>1. fs \in FileSys
  BY DEF Good
<1>2. /\ xs \in FileSys /\ xs.inodes = fs.inodes /\ xs.bitmap = fs.bitmap \ D
      /\ xs.free_blocks = fs.free_blocks + Cardinality(D)
      /\ \A b \in D : xs.data_blocks[b] = ZeroBlock
      /\ \A b \in BlockNum \ D : xs.data_blocks[b] = fs.data_blocks[b]
  BY <1>1, ClearInodeFields
<1> HIDE DEF xs
<1>3. /\ gs \in FileSys /\ gs.bitmap = fs.bitmap \ D
      /\ gs.free_blocks = fs.free_blocks + Cardinality(D)
      /\ gs.inodes[n] = ZeroInode
      /\ \A m \in InodeNum \ {n} : gs.inodes[m] = fs.inodes[m]
      /\ \A b \in D : gs.data_blocks[b] = ZeroBlock
      /\ \A b \in BlockNum \ D : gs.data_blocks[b] = fs.data_blocks[b]
  BY <1>2, DetachFields
<1>4. D \subseteq BlockNum /\ \A t \in D : Leads(fs, n, t)
  BY <1>1, BlocksLead
<1>5. D \subseteq fs.bitmap
  <2> SUFFICES ASSUME NEW t \in D PROVE t \in fs.bitmap
    OBVIOUS
  <2>1. PICK m \in PtrLoc : PtrAt(fs, m) = t
    BY <1>4 DEF Leads
  <2>2. t # NULL
    BY <1>4 DEF BlockNum, NULL
  <2>3. QED
    BY <2>1, <2>2 DEF Good, Owned, UsedLoc
<1> HIDE DEF gs
<1>6. Shrinks(fs, gs)
  BY <1>3, ZeroPointers DEF Shrinks
<1>7. ASSUME NEW l \in PtrLoc, PtrAt(fs, l) \in D PROVE PtrAt(gs, l) = NULL
  <2>1. PICK m \in PtrLoc : /\ PtrAt(fs, m) = PtrAt(fs, l)
                            /\ m[1] = "index" => m[2] \in D
                            /\ m[1] # "index" => m[2] = n
    BY <1>4, <1>7 DEF Leads
  <2>2. PtrAt(fs, l) # NULL
    BY <1>4, <1>7 DEF BlockNum, NULL
  <2>3. l = m
    BY <2>1, <2>2 DEF Good, Owned, UsedLoc
  <2>4. CASE \E i \in DirectIdx : l = <<"direct", n, i>>
    BY <1>3, <2>4, LocValues, ZeroPointers
  <2>5. CASE l = <<"single", n, 0>>
    BY <1>3, <2>5, LocValues, ZeroPointers
  <2>6. CASE l = <<"double", n, 0>>
    BY <1>3, <2>6, LocValues, ZeroPointers
  <2>7. CASE \E b \in D, k \in PtrIdx : l = <<"index", b, k>>
    BY <1>3, <2>7, LocValues, ZeroPointers
  <2>8. QED
    BY <2>1, <2>3, <2>4, <2>5, <2>6, <2>7, LocCases
<1>8. \A b \in D : HoldsNoPointer(gs, b)
  BY <1>3, ZeroPointers DEF HoldsNoPointer
<1>9. Covered(gs)
  <2> DEFINE F == BlockNum \ fs.bitmap
  <2>1. BlockNum \ gs.bitmap = F \cup D /\ F \cap D = {}
    BY <1>3, <1>4, <1>5
  <2>2. IsFiniteSet(F) /\ Cardinality(F) \in Nat
    BY FreeSetFinite
  <2>3. IsFiniteSet(D) /\ Cardinality(D) \in Nat
    <3>1. IsFiniteSet(BlockNum)
      BY FS_Interval, DiscosAssumption DEF BlockNum
    <3>2. QED
      BY <1>4, <3>1, FS_Subset, FS_CardinalityType
  <2>4. Cardinality(F \cup D) = Cardinality(F) + Cardinality(D)
    <3>1. Cardinality(F \cup D) = Cardinality(F) + Cardinality(D) - Cardinality(F \cap D)
      BY <2>2, <2>3, FS_Union
    <3>2. Cardinality(F \cap D) = 0
      BY <2>1, FS_EmptySet
    <3>3. QED
      BY <2>2, <2>3, <3>1, <3>2
  <2>5. fs.free_blocks <= Cardinality(F) /\ fs.free_blocks \in Nat
    BY <1>1 DEF Good, Covered, FileSys
  <2>6. QED
    BY <1>3, <2>1, <2>2, <2>3, <2>4, <2>5 DEF Covered
<1>10. QED
  BY <1>3, <1>6, <1>7, <1>8, <1>9, FreedGood DEF gs, xs

(* What clear_entry_in_current_dir meets after my_clear_inode: inode n     *)
(* still has its pointers, but they lead to blocks that are zeroed.        *)
Cleared(xs, n) ==
  /\ xs \in FileSys
  /\ Good(Detach(xs, n))
  /\ \A i \in DirectIdx : LET b == xs.inodes[n].pointers[i]
                           IN  b # NULL => xs.data_blocks[b] = ZeroBlock
  /\ LET b == xs.inodes[n].single
     IN  b # NULL => xs.data_blocks[b] = ZeroBlock

(* my_clear_inode leaves what clear_entry_in_current_dir expects.          *)
LEMMA ClearedAfter ==
  ASSUME NEW fs, Good(fs), NEW n \in InodeNum
  PROVE  Cleared(my_clear_inode(fs, n), n)
<1> DEFINE xs == my_clear_inode(fs, n)
<1>1. fs \in FileSys
  BY DEF Good
<1>2. /\ xs \in FileSys /\ xs.inodes = fs.inodes
      /\ \A b \in BlocksOf(fs, n) : xs.data_blocks[b] = ZeroBlock
  BY <1>1, ClearInodeFields
<1>3. Good(Detach(xs, n))
  BY ClearInodeGood
<1>4. /\ \A i \in DirectIdx : fs.inodes[n].pointers[i] # NULL
                              => fs.inodes[n].pointers[i] \in BlocksOf(fs, n)
      /\ fs.inodes[n].single # NULL => fs.inodes[n].single \in BlocksOf(fs, n)
  BY DEF BlocksOf
<1> HIDE DEF xs
<1>5. QED
  BY <1>2, <1>3, <1>4 DEF Cleared, xs

(* A zeroed block has no live entry, so it is not given back a second      *)
(* time.                                                                   *)
LEMMA ZeroNotEmptied ==
  ASSUME NEW xs, NEW b, xs.data_blocks[b] = ZeroBlock
  PROVE  Cardinality(EntryIdx \ FreeSlots(xs, b)) # 1
<1>1. FreeSlots(xs, b) = EntryIdx
  BY DEF FreeSlots, ZeroBlock, ZeroEntry
<1>2. EntryIdx \ FreeSlots(xs, b) = {}
  BY <1>1
<1>3. QED
  BY <1>2, FS_EmptySet

(* es is xs with entries erased and the blocks R unmarked.                 *)
Erased(xs, R, es) ==
  /\ es \in FileSys
  /\ es.inodes = xs.inodes
  /\ es.bitmap = xs.bitmap \ R
  /\ es.free_blocks = xs.free_blocks
  /\ es.free_inodes = xs.free_inodes
  /\ \A b \in BlockNum : es.data_blocks[b].index_block = xs.data_blocks[b].index_block

(* What erasing the entries of one region changes.                         *)
LEMMA EraseFields ==
  ASSUME NEW xs \in FileSys, NEW ptrs, NEW name,
         NEW R, R = {ptrs[i] : i \in Emptied(xs, ptrs, name)},
         NEW es, es = EraseEntries(xs, ptrs, name)
  PROVE  Erased(xs, R, es)
<1> DEFINE H == {ptrs[i] : i \in Hits(xs, ptrs, name)}
           erased(entries) == [j \in EntryIdx |-> IF entries[j].name = name THEN ZeroEntry
                                                                            ELSE entries[j]]
           blocks == [b \in BlockNum |->
                        IF b \in H THEN [xs.data_blocks[b] EXCEPT !.entries = erased(@)]
                                   ELSE xs.data_blocks[b]]
<1>1. es = [xs EXCEPT !.bitmap = @ \ R, !.data_blocks = blocks]
  BY DEF EraseEntries
<1> HIDE DEF H
<1>2. ASSUME NEW b \in BlockNum
      PROVE  blocks[b] \in DataBlock /\ blocks[b].index_block = xs.data_blocks[b].index_block
  <2>1. xs.data_blocks[b] \in DataBlock
    BY DEF FileSys
  <2>2. erased(xs.data_blocks[b].entries) \in [EntryIdx -> DirEntry]
    BY <2>1, ZeroTypes DEF DataBlock
  <2> HIDE DEF erased
  <2>3. QED
    BY <2>1, <2>2 DEF DataBlock
<1>3. blocks \in [BlockNum -> DataBlock]
  BY <1>2
<1> HIDE DEF blocks
<1>4. es \in FileSys
  BY <1>1, <1>3 DEF FileSys
<1>5. /\ es.inodes = xs.inodes /\ es.bitmap = xs.bitmap \ R
      /\ es.free_blocks = xs.free_blocks /\ es.free_inodes = xs.free_inodes
      /\ es.data_blocks = blocks
  BY <1>1 DEF FileSys
<1>6. QED
  BY <1>2, <1>4, <1>5 DEF Erased

(* clear_entry_in_current_dir among the direct blocks keeps the invariant  *)
(* up to the inode being cleared, even if that inode were the directory.   *)
LEMMA ClearInDirectGood ==
  ASSUME NEW n \in InodeNum, NEW xs, Cleared(xs, n), NEW dir \in InodeNum, NEW name,
         NEW gs, gs = ClearInDirect(xs, dir, name)
  PROVE  gs \in FileSys /\ Good(Detach(gs, n)) /\ gs.free_inodes = xs.free_inodes
<1> DEFINE ptrs == xs.inodes[dir].pointers
           E    == Emptied(xs, ptrs, name)
           R    == {ptrs[i] : i \in E}
           es   == EraseEntries(xs, ptrs, name)
           z    == [es.inodes[dir] EXCEPT !.pointers = Without(ptrs, E)]
           ys   == Detach(xs, n)
           hs   == Detach(gs, n)
<1>1. xs \in FileSys /\ Good(ys)
  BY DEF Cleared
<1>2. xs.inodes[dir] \in Inode /\ ptrs \in [DirectIdx -> BlockPtr]
  BY <1>1 DEF FileSys, Inode
<1>3. E \subseteq DirectIdx /\ \A i \in E : ptrs[i] # NULL
  BY <1>2 DEF Emptied
<1>4. /\ es \in FileSys /\ es.inodes = xs.inodes
      /\ es.bitmap = xs.bitmap \ R
      /\ es.free_blocks = xs.free_blocks /\ es.free_inodes = xs.free_inodes
      /\ \A b \in BlockNum : es.data_blocks[b].index_block = xs.data_blocks[b].index_block
  <2>1. R = {ptrs[i] : i \in Emptied(xs, ptrs, name)}
    OBVIOUS
  <2>2. es = EraseEntries(xs, ptrs, name)
    OBVIOUS
  <2> HIDE DEF R, es
  <2>3. Erased(xs, R, es)
    BY <1>1, <2>1, <2>2, EraseFields
  <2>4. QED
    BY <2>3 DEF Erased
<1>5. /\ Without(ptrs, E) \in [DirectIdx -> BlockPtr]
      /\ \A i \in DirectIdx : Without(ptrs, E)[i] = IF i \in E THEN NULL ELSE ptrs[i]
  BY <1>2 DEF Without, BlockPtr
<1>6. gs = [es EXCEPT !.inodes[dir] = z]
  BY DEF ClearInDirect
<1> HIDE DEF ptrs, E, R, es
<1>7. /\ z \in Inode /\ z.pointers = Without(ptrs, E)
      /\ z.single = xs.inodes[dir].single /\ z.double = xs.inodes[dir].double
  BY <1>2, <1>4, <1>5 DEF Inode
<1> HIDE DEF z
<1>8. /\ gs \in FileSys /\ gs.bitmap = es.bitmap /\ gs.free_blocks = es.free_blocks
      /\ gs.free_inodes = es.free_inodes /\ gs.data_blocks = es.data_blocks
      /\ gs.inodes[dir] = z
      /\ \A m \in InodeNum \ {dir} : gs.inodes[m] = xs.inodes[m]
  <2>1. gs \in FileSys
    BY <1>4, <1>6, <1>7, PutInode
  <2>2. QED
    BY <1>4, <1>6, <2>1 DEF FileSys
<1>9. /\ ys \in FileSys /\ ys.bitmap = xs.bitmap /\ ys.free_blocks = xs.free_blocks
      /\ ys.data_blocks = xs.data_blocks /\ ys.inodes[n] = ZeroInode
      /\ \A m \in InodeNum \ {n} : ys.inodes[m] = xs.inodes[m]
  BY <1>1, DetachFields
<1>10. /\ hs \in FileSys /\ hs.bitmap = gs.bitmap /\ hs.free_blocks = gs.free_blocks
       /\ hs.data_blocks = gs.data_blocks /\ hs.inodes[n] = ZeroInode
       /\ \A m \in InodeNum \ {n} : hs.inodes[m] = gs.inodes[m]
  BY <1>8, DetachFields
<1> HIDE DEF ys, hs
<1>11. Shrinks(ys, hs)
  <2>1. ASSUME NEW m \in InodeNum
        PROVE  /\ \A i \in DirectIdx : hs.inodes[m].pointers[i] \in {NULL, ys.inodes[m].pointers[i]}
               /\ hs.inodes[m].single \in {NULL, ys.inodes[m].single}
               /\ hs.inodes[m].double \in {NULL, ys.inodes[m].double}
    <3>1. CASE m = n
      BY <1>9, <1>10, <3>1
    <3>2. CASE m # n /\ m # dir
      BY <1>8, <1>9, <1>10, <3>2
    <3>3. CASE m # n /\ m = dir
      BY <1>5, <1>7, <1>8, <1>9, <1>10, <3>3 DEF ptrs
    <3>4. QED
      BY <3>1, <3>2, <3>3
  <2>2. ASSUME NEW b \in BlockNum
        PROVE  hs.data_blocks[b].index_block = ys.data_blocks[b].index_block
    BY <1>4, <1>8, <1>9, <1>10
  <2>3. QED
    BY <2>1, <2>2 DEF Shrinks
<1>12. CASE dir = n
  <2>1. ASSUME NEW i \in DirectIdx, ptrs[i] # NULL PROVE i \notin E
    <3>1. xs.data_blocks[ptrs[i]] = ZeroBlock
      BY <1>12, <2>1 DEF Cleared, ptrs
    <3>2. QED
      BY <3>1, ZeroNotEmptied DEF E, Emptied
  <2>2. R = {}
    BY <1>3, <2>1 DEF R
  <2>3. QED
    BY <1>1, <1>4, <1>8, <1>9, <1>10, <1>11, <2>2, ShrinkGood DEF hs
<1>13. CASE dir # n
  <2>1. ASSUME NEW i \in E
        PROVE  /\ <<"direct", dir, i>> \in UsedLoc(ys)
               /\ PtrAt(ys, <<"direct", dir, i>>) = ptrs[i]
               /\ PtrAt(hs, <<"direct", dir, i>>) = NULL
    <3>1. i \in DirectIdx /\ <<"direct", dir, i>> \in PtrLoc
      BY <1>3, LocMembers
    <3>2. PtrAt(ys, <<"direct", dir, i>>) = ys.inodes[dir].pointers[i]
      BY DEF PtrAt
    <3>3. PtrAt(hs, <<"direct", dir, i>>) = hs.inodes[dir].pointers[i]
      BY DEF PtrAt
    <3>4. ys.inodes[dir].pointers[i] = ptrs[i]
      BY <1>9, <1>13 DEF ptrs
    <3>5. hs.inodes[dir].pointers[i] = NULL
      BY <1>5, <1>7, <1>8, <1>10, <1>13, <3>1
    <3>6. QED
      BY <1>3, <3>1, <3>2, <3>3, <3>4, <3>5 DEF UsedLoc
  <2>2. ASSUME NEW l \in PtrLoc, PtrAt(ys, l) \in R PROVE PtrAt(hs, l) = NULL
    <3>1. PICK i \in E : PtrAt(ys, l) = ptrs[i]
      BY <2>2 DEF R
    <3>2. l \in UsedLoc(ys)
      BY <1>3, <3>1 DEF UsedLoc
    <3>3. l = <<"direct", dir, i>>
      BY <1>1, <2>1, <3>1, <3>2 DEF Good, Owned
    <3>4. QED
      BY <2>1, <3>3
  <2>3. ASSUME NEW b \in R PROVE HoldsNoPointer(hs, b)
    <3>1. PICK i \in E : b = ptrs[i]
      BY DEF R
    <3>2. HoldsNoPointer(ys, b)
      <4>1. <<"direct", dir, i>>[1] # "single"
        OBVIOUS
      <4>2. QED
        BY <1>1, <2>1, <3>1, <4>1 DEF Good, IndexOnly
    <3>3. b \in BlockNum
      BY <1>2, <1>3, <3>1 DEF BlockPtr
    <3>4. QED
      BY <1>11, <3>2, <3>3, ShrinkNoPointer
  <2>4. hs.bitmap = ys.bitmap \ R /\ hs.free_blocks = ys.free_blocks
    BY <1>4, <1>8, <1>9, <1>10
  <2>5. Covered(hs)
    BY <1>1, <1>9, <1>10, <2>4, CoveredByMore DEF Good
  <2>6. Good(hs)
    BY <1>1, <1>10, <1>11, <2>2, <2>3, <2>4, <2>5, FreedGood
  <2>7. QED
    BY <1>4, <1>8, <2>6 DEF hs
<1>14. QED
  BY <1>12, <1>13

(* ClearInSingle before it decides on the index block.                     *)
ClearedSingle(xs, dir, name) ==
  LET index == xs.inodes[dir].single
      ptrs  == xs.data_blocks[index].index_block
  IN  [EraseEntries(xs, ptrs, name) EXCEPT
         !.data_blocks[index].index_block = Without(ptrs, Emptied(xs, ptrs, name))]

(* The slots E of the index block are cleared, none if dir is the inode n  *)
(* that is being removed.                                                  *)
OneIndexCleared(xs, n, dir, index, ptrs, E, gs) ==
  /\ gs \in FileSys /\ Good(Detach(gs, n))
  /\ gs.inodes = xs.inodes /\ gs.free_inodes = xs.free_inodes
  /\ \A k \in PtrIdx : gs.data_blocks[index].index_block[k]
                        = IF k \in E THEN NULL ELSE ptrs[k]
  /\ dir = n => E = {}

(* The same in the single indirect range, without the index block.         *)
LEMMA ClearedSingleGood ==
  ASSUME NEW n \in InodeNum, NEW xs, Cleared(xs, n), NEW dir \in InodeNum, NEW name,
         NEW index, index = xs.inodes[dir].single, index # NULL,
         NEW ptrs, ptrs = xs.data_blocks[index].index_block,
         NEW E, E = Emptied(xs, ptrs, name),
         NEW gs, gs = ClearedSingle(xs, dir, name)
  PROVE  OneIndexCleared(xs, n, dir, index, ptrs, E, gs)
<1> DEFINE R    == {ptrs[i] : i \in E}
           es   == EraseEntries(xs, ptrs, name)
           ys   == Detach(xs, n)
           hs   == Detach(gs, n)
<1>1. xs \in FileSys /\ Good(ys)
  BY DEF Cleared
<1>2. index \in BlockNum
  BY <1>1 DEF FileSys, Inode, BlockPtr
<1>3. ptrs \in [PtrIdx -> BlockPtr]
  BY <1>1, <1>2 DEF FileSys, DataBlock
<1>4. E \subseteq PtrIdx /\ \A i \in E : ptrs[i] # NULL
  BY <1>3 DEF Emptied
<1>5. /\ es \in FileSys /\ es.inodes = xs.inodes
      /\ es.bitmap = xs.bitmap \ R
      /\ es.free_blocks = xs.free_blocks /\ es.free_inodes = xs.free_inodes
      /\ \A b \in BlockNum : es.data_blocks[b].index_block = xs.data_blocks[b].index_block
  <2>1. R = {ptrs[i] : i \in Emptied(xs, ptrs, name)}
    OBVIOUS
  <2>2. es = EraseEntries(xs, ptrs, name)
    OBVIOUS
  <2> HIDE DEF R, es
  <2>3. Erased(xs, R, es)
    BY <1>1, <2>1, <2>2, EraseFields
  <2>4. QED
    BY <2>3 DEF Erased
<1>6. /\ Without(ptrs, E) \in [PtrIdx -> BlockPtr]
      /\ \A k \in PtrIdx : Without(ptrs, E)[k] = IF k \in E THEN NULL ELSE ptrs[k]
  BY <1>3 DEF Without, BlockPtr
<1>7. gs = [es EXCEPT !.data_blocks[index].index_block = Without(ptrs, E)]
  BY DEF ClearedSingle
<1> HIDE DEF R, es
<1>8. /\ gs \in FileSys /\ gs.bitmap = es.bitmap /\ gs.free_blocks = es.free_blocks
      /\ gs.free_inodes = es.free_inodes /\ gs.inodes = es.inodes
      /\ gs.data_blocks[index].index_block = Without(ptrs, E)
      /\ \A b \in BlockNum \ {index} : gs.data_blocks[b] = es.data_blocks[b]
  <2> DEFINE w == Without(ptrs, E)
             z == [es.data_blocks[index] EXCEPT !.index_block = w]
  <2>1. es.data_blocks[index] \in DataBlock
    BY <1>2, <1>5 DEF FileSys
  <2>2. z \in DataBlock /\ z.index_block = w
    BY <1>6, <2>1 DEF DataBlock
  <2>3. gs = [es EXCEPT !.data_blocks = [es.data_blocks EXCEPT ![index] = z]]
    BY <1>7
  <2> HIDE DEF z, w
  <2>4. [es.data_blocks EXCEPT ![index] = z] \in [BlockNum -> DataBlock]
    BY <1>5, <2>2 DEF FileSys
  <2>5. gs \in FileSys
    BY <1>5, <2>3, <2>4 DEF FileSys
  <2>6. /\ gs.bitmap = es.bitmap /\ gs.free_blocks = es.free_blocks
        /\ gs.free_inodes = es.free_inodes /\ gs.inodes = es.inodes
        /\ gs.data_blocks = [es.data_blocks EXCEPT ![index] = z]
    BY <1>5, <2>3 DEF FileSys
  <2>7. gs.data_blocks[index] = z /\ \A b \in BlockNum \ {index} : gs.data_blocks[b] = es.data_blocks[b]
    BY <1>2, <1>5, <2>6 DEF FileSys
  <2>8. QED
    BY <2>2, <2>5, <2>6, <2>7 DEF w
<1>9. /\ ys \in FileSys /\ ys.bitmap = xs.bitmap /\ ys.free_blocks = xs.free_blocks
      /\ ys.data_blocks = xs.data_blocks /\ ys.inodes[n] = ZeroInode
      /\ \A m \in InodeNum \ {n} : ys.inodes[m] = xs.inodes[m]
  BY <1>1, DetachFields
<1>10. /\ hs \in FileSys /\ hs.bitmap = gs.bitmap /\ hs.free_blocks = gs.free_blocks
       /\ hs.data_blocks = gs.data_blocks /\ hs.inodes[n] = ZeroInode
       /\ \A m \in InodeNum \ {n} : hs.inodes[m] = gs.inodes[m]
  BY <1>8, DetachFields
<1> HIDE DEF ys, hs
<1>11. Shrinks(ys, hs)
  <2>1. \A m \in InodeNum : hs.inodes[m] = ys.inodes[m]
    BY <1>5, <1>8, <1>9, <1>10
  <2>2. ASSUME NEW b \in BlockNum, NEW k \in PtrIdx
        PROVE  hs.data_blocks[b].index_block[k] \in {NULL, ys.data_blocks[b].index_block[k]}
    <3>1. CASE b = index
      <4>1. ys.data_blocks[b].index_block[k] = ptrs[k]
        BY <1>9, <3>1
      <4>2. hs.data_blocks[b].index_block[k] = Without(ptrs, E)[k]
        BY <1>8, <1>10, <3>1
      <4>3. QED
        BY <1>6, <4>1, <4>2
    <3>2. CASE b # index
      BY <1>5, <1>8, <1>9, <1>10, <3>2
    <3>3. QED
      BY <3>1, <3>2
  <2>3. QED
    BY <2>1, <2>2 DEF Shrinks
<1>12. ASSUME dir = n PROVE E = {} /\ Good(hs)
  <2>1. xs.data_blocks[index] = ZeroBlock
    BY <1>12 DEF Cleared
  <2>2. \A k \in PtrIdx : ptrs[k] = NULL
    BY <2>1, ZeroPointers
  <2>3. E = {}
    BY <1>4, <2>2
  <2>4. R = {}
    BY <2>3 DEF R
  <2>5. QED
    BY <1>1, <1>5, <1>8, <1>9, <1>10, <1>11, <2>3, <2>4, ShrinkGood
<1>13. ASSUME dir # n PROVE Good(hs)
  <2>1. ASSUME NEW i \in E
        PROVE  /\ <<"index", index, i>> \in UsedLoc(ys)
               /\ PtrAt(ys, <<"index", index, i>>) = ptrs[i]
               /\ PtrAt(hs, <<"index", index, i>>) = NULL
    <3>1. i \in PtrIdx /\ <<"index", index, i>> \in PtrLoc
      BY <1>2, <1>4, LocMembers
    <3>2. PtrAt(ys, <<"index", index, i>>) = ys.data_blocks[index].index_block[i]
      BY DEF PtrAt
    <3>3. PtrAt(hs, <<"index", index, i>>) = hs.data_blocks[index].index_block[i]
      BY DEF PtrAt
    <3>4. hs.data_blocks[index].index_block[i] = NULL
      BY <1>6, <1>8, <1>10, <3>1
    <3>5. QED
      BY <1>4, <1>9, <3>1, <3>2, <3>3, <3>4 DEF UsedLoc
  <2>2. ASSUME NEW l \in PtrLoc, PtrAt(ys, l) \in R PROVE PtrAt(hs, l) = NULL
    <3>1. PICK i \in E : PtrAt(ys, l) = ptrs[i]
      BY <2>2 DEF R
    <3>2. l \in UsedLoc(ys)
      BY <1>4, <3>1 DEF UsedLoc
    <3>3. l = <<"index", index, i>>
      BY <1>1, <2>1, <3>1, <3>2 DEF Good, Owned
    <3>4. QED
      BY <2>1, <3>3
  <2>3. ASSUME NEW b \in R PROVE HoldsNoPointer(hs, b)
    <3>1. PICK i \in E : b = ptrs[i]
      BY DEF R
    <3>2. HoldsNoPointer(ys, b)
      <4>1. <<"index", index, i>>[1] # "single"
        OBVIOUS
      <4>2. QED
        BY <1>1, <2>1, <3>1, <4>1 DEF Good, IndexOnly
    <3>3. b \in BlockNum
      BY <1>3, <1>4, <3>1 DEF BlockPtr
    <3>4. QED
      BY <1>11, <3>2, <3>3, ShrinkNoPointer
  <2>4. hs.bitmap = ys.bitmap \ R /\ hs.free_blocks = ys.free_blocks
    BY <1>5, <1>8, <1>9, <1>10
  <2>5. Covered(hs)
    BY <1>1, <1>9, <1>10, <2>4, CoveredByMore DEF Good
  <2>6. QED
    BY <1>1, <1>10, <1>11, <2>2, <2>3, <2>4, <2>5, FreedGood
<1>14. QED
  BY <1>5, <1>6, <1>8, <1>12, <1>13 DEF hs, OneIndexCleared

(* The index block is unmarked and the pointer to it dropped.              *)
DropSingle(cs, dir, index) ==
  [cs EXCEPT !.bitmap = @ \ {index}, !.inodes[dir].single = NULL]

(* Giving back an index block that holds no pointer and that one inode     *)
(* owns keeps the invariant.                                               *)
LEMMA DropSingleGood ==
  ASSUME NEW n \in InodeNum, NEW cs \in FileSys, Good(Detach(cs, n)),
         NEW dir \in InodeNum, dir # n,
         NEW index \in BlockNum, index = cs.inodes[dir].single, HoldsNoPointer(cs, index),
         NEW gs, gs = DropSingle(cs, dir, index)
  PROVE  gs \in FileSys /\ Good(Detach(gs, n)) /\ gs.free_inodes = cs.free_inodes
<1> DEFINE z  == [cs.inodes[dir] EXCEPT !.single = NULL]
           ys == Detach(cs, n)
           hs == Detach(gs, n)
           l0 == <<"single", dir, 0>>
<1>1. cs.inodes[dir] \in Inode
  BY DEF FileSys
<1>2. /\ z \in Inode /\ z.single = NULL
      /\ z.pointers = cs.inodes[dir].pointers /\ z.double = cs.inodes[dir].double
  BY <1>1 DEF Inode, BlockPtr
<1>3. gs = [cs EXCEPT !.bitmap = @ \ {index}, !.inodes = [cs.inodes EXCEPT ![dir] = z]]
  BY DEF FileSys, DropSingle
<1> HIDE DEF z
<1>4. [cs.inodes EXCEPT ![dir] = z] \in [InodeNum -> Inode] /\ cs.bitmap \ {index} \in SUBSET BlockNum
  BY <1>2 DEF FileSys
<1>5. gs \in FileSys
  BY <1>3, <1>4 DEF FileSys
<1>6. /\ gs.bitmap = cs.bitmap \ {index} /\ gs.free_blocks = cs.free_blocks
      /\ gs.free_inodes = cs.free_inodes /\ gs.data_blocks = cs.data_blocks
      /\ gs.inodes = [cs.inodes EXCEPT ![dir] = z]
  BY <1>3 DEF FileSys
<1>7. gs.inodes[dir] = z /\ \A m \in InodeNum \ {dir} : gs.inodes[m] = cs.inodes[m]
  BY <1>6 DEF FileSys
<1>8. /\ ys \in FileSys /\ ys.bitmap = cs.bitmap /\ ys.free_blocks = cs.free_blocks
      /\ ys.data_blocks = cs.data_blocks /\ ys.inodes[n] = ZeroInode
      /\ \A m \in InodeNum \ {n} : ys.inodes[m] = cs.inodes[m]
  BY DetachFields
<1>9. /\ hs \in FileSys /\ hs.bitmap = gs.bitmap /\ hs.free_blocks = gs.free_blocks
      /\ hs.data_blocks = gs.data_blocks /\ hs.inodes[n] = ZeroInode
      /\ \A m \in InodeNum \ {n} : hs.inodes[m] = gs.inodes[m]
  BY <1>5, DetachFields
<1>10. Good(ys)
  OBVIOUS
<1> HIDE DEF ys, hs
<1>11. Shrinks(ys, hs)
  <2>1. ASSUME NEW m \in InodeNum
        PROVE  /\ hs.inodes[m].pointers = ys.inodes[m].pointers
               /\ hs.inodes[m].single \in {NULL, ys.inodes[m].single}
               /\ hs.inodes[m].double = ys.inodes[m].double
    <3>1. CASE m = n
      BY <1>8, <1>9, <3>1
    <3>2. CASE m # n /\ m # dir
      BY <1>7, <1>8, <1>9, <3>2
    <3>3. CASE m # n /\ m = dir
      BY <1>2, <1>7, <1>8, <1>9, <3>3
    <3>4. QED
      BY <3>1, <3>2, <3>3
  <2>2. hs.data_blocks = ys.data_blocks
    BY <1>6, <1>8, <1>9
  <2>3. QED
    BY <2>1, <2>2 DEF Shrinks
<1>12. l0 \in PtrLoc /\ PtrAt(ys, l0) = index /\ PtrAt(hs, l0) = NULL
  <2>1. PtrAt(ys, l0) = ys.inodes[dir].single /\ PtrAt(hs, l0) = hs.inodes[dir].single
    BY DEF PtrAt
  <2>2. QED
    BY <1>2, <1>7, <1>8, <1>9, <2>1, LocMembers
<1> HIDE DEF l0
<1>13. ASSUME NEW l \in PtrLoc, PtrAt(ys, l) \in {index} PROVE PtrAt(hs, l) = NULL
  <2>1. index # NULL
    BY DEF BlockNum, NULL
  <2>2. l = l0
    BY <1>10, <1>12, <1>13, <2>1 DEF Good, Owned, UsedLoc
  <2>3. QED
    BY <1>12, <2>2
<1>14. HoldsNoPointer(hs, index)
  BY <1>6, <1>9 DEF HoldsNoPointer
<1>15. hs.bitmap = ys.bitmap \ {index} /\ hs.free_blocks = ys.free_blocks
  BY <1>6, <1>8, <1>9
<1>16. Covered(hs)
  BY <1>8, <1>9, <1>10, <1>15, CoveredByMore DEF Good
<1>17. Good(hs)
  <2> DEFINE R == {index}
  <2>1. \A l \in PtrLoc : PtrAt(ys, l) \in R => PtrAt(hs, l) = NULL
    BY <1>13
  <2>2. \A b \in R : HoldsNoPointer(hs, b)
    BY <1>14
  <2>3. hs.bitmap = ys.bitmap \ R
    BY <1>15
  <2> HIDE DEF R
  <2>4. QED
    BY <1>9, <1>10, <1>11, <1>16, <2>1, <2>2, <2>3, FreedGood
<1>18. QED
  BY <1>5, <1>6, <1>17 DEF hs

(* clear_entry_in_current_dir in the single indirect range: the index      *)
(* block is given back only when the slot just cleared was its last.       *)
LEMMA ClearInSingleGood ==
  ASSUME NEW n \in InodeNum, NEW xs, Cleared(xs, n), NEW dir \in InodeNum, NEW name,
         xs.inodes[dir].single # NULL,
         NEW gs, gs = ClearInSingle(xs, dir, name)
  PROVE  gs \in FileSys /\ Good(Detach(gs, n)) /\ gs.free_inodes = xs.free_inodes
<1> DEFINE index == xs.inodes[dir].single
           ptrs  == xs.data_blocks[index].index_block
           E     == Emptied(xs, ptrs, name)
           cs    == ClearedSingle(xs, dir, name)
           ds    == DropSingle(cs, dir, index)
           last  == E # {} /\ Cardinality(IndexTargets(xs, index)) = 1
           ys    == Detach(xs, n)
<1>1. gs = IF last THEN ds ELSE cs
  BY DEF ClearInSingle, ClearedSingle, DropSingle
<1>2. /\ cs \in FileSys /\ Good(Detach(cs, n))
      /\ cs.inodes = xs.inodes /\ cs.free_inodes = xs.free_inodes
      /\ \A k \in PtrIdx : cs.data_blocks[index].index_block[k]
                            = IF k \in E THEN NULL ELSE ptrs[k]
      /\ dir = n => E = {}
  <2>1. /\ index = xs.inodes[dir].single /\ index # NULL
        /\ ptrs = xs.data_blocks[index].index_block
        /\ E = Emptied(xs, ptrs, name) /\ cs = ClearedSingle(xs, dir, name)
    OBVIOUS
  <2> HIDE DEF index, ptrs, E, cs
  <2>2. OneIndexCleared(xs, n, dir, index, ptrs, E, cs)
    BY <2>1, ClearedSingleGood
  <2>3. QED
    BY <2>2 DEF OneIndexCleared
<1>3. xs \in FileSys /\ Good(ys)
  BY DEF Cleared
<1>4. index \in BlockNum
  BY <1>3 DEF FileSys, Inode, BlockPtr
<1>5. ptrs \in [PtrIdx -> BlockPtr]
  BY <1>3, <1>4 DEF FileSys, DataBlock
<1>6. E \subseteq PtrIdx /\ \A i \in E : ptrs[i] # NULL
  BY <1>5 DEF Emptied
<1>7. \A k \in PtrIdx : ptrs[k] = Index(xs, index, k)
  BY DEF Index
<1>8. ys \in FileSys /\ ys.data_blocks = xs.data_blocks
  BY <1>3, DetachFields
<1> HIDE DEF cs, ys
<1>9. CASE ~last
  BY <1>1, <1>2, <1>9
<1>10. CASE last
  <2>1. dir # n
    BY <1>2, <1>10
  <2>2. PICK e \in E : TRUE
    BY <1>10
  <2>3. IsFiniteSet(IndexTargets(xs, index))
    <3>1. IndexTargets(xs, index) \subseteq BlockNum
      BY <1>5, <1>7 DEF IndexTargets, BlockPtr
    <3>2. IsFiniteSet(BlockNum)
      BY FS_Interval, DiscosAssumption DEF BlockNum
    <3>3. QED
      BY <3>1, <3>2, FS_Subset
  <2>4. PICK t : IndexTargets(xs, index) = {t}
    BY <1>10, <2>3, FS_Singleton
  <2>5. ASSUME NEW k \in PtrIdx, ptrs[k] # NULL PROVE k \in E
    <3>1. e \in PtrIdx /\ ptrs[e] # NULL
      BY <1>6
    <3>2. ptrs[k] \in IndexTargets(xs, index) /\ ptrs[e] \in IndexTargets(xs, index)
      BY <1>7, <2>5, <3>1 DEF IndexTargets
    <3>3. ptrs[k] = ptrs[e]
      BY <2>4, <3>2
    <3>4. /\ PtrAt(ys, <<"index", index, k>>) = ptrs[k]
          /\ PtrAt(ys, <<"index", index, e>>) = ptrs[e]
      <4>1. /\ PtrAt(ys, <<"index", index, k>>) = ys.data_blocks[index].index_block[k]
            /\ PtrAt(ys, <<"index", index, e>>) = ys.data_blocks[index].index_block[e]
        BY DEF PtrAt
      <4>2. QED
        BY <1>8, <4>1
    <3>5. <<"index", index, k>> \in UsedLoc(ys) /\ <<"index", index, e>> \in UsedLoc(ys)
      BY <1>4, <2>5, <3>1, <3>4, LocMembers DEF UsedLoc
    <3>6. <<"index", index, k>> = <<"index", index, e>>
      BY <1>3, <3>3, <3>4, <3>5 DEF Good, Owned
    <3>7. QED
      BY <3>6
  <2>6. HoldsNoPointer(cs, index)
    BY <1>2, <2>5 DEF HoldsNoPointer
  <2>7. index = cs.inodes[dir].single
    BY <1>2
  <2>0. ds = DropSingle(cs, dir, index)
    OBVIOUS
  <2>8. gs = ds
    BY <1>1, <1>10
  <2>9. cs \in FileSys /\ Good(Detach(cs, n)) /\ cs.free_inodes = xs.free_inodes
    BY <1>2
  <2> HIDE DEF ds, index
  <2>10. ds \in FileSys /\ Good(Detach(ds, n)) /\ ds.free_inodes = cs.free_inodes
    BY <1>4, <2>0, <2>1, <2>6, <2>7, <2>9, DropSingleGood
  <2>11. QED
    BY <2>8, <2>9, <2>10
<1>11. QED
  BY <1>9, <1>10

(* clear_entry_in_current_dir keeps the invariant up to the inode being    *)
(* cleared.                                                                *)
LEMMA ClearEntryGood ==
  ASSUME NEW n \in InodeNum, NEW xs, Cleared(xs, n), NEW dir \in InodeNum, NEW name,
         NEW gs, gs = clear_entry_in_current_dir(xs, dir, name)
  PROVE  gs \in FileSys /\ Good(Detach(gs, n)) /\ gs.free_inodes = xs.free_inodes
<1>1. CASE Hits(xs, xs.inodes[dir].pointers, name) # {}
  BY <1>1, ClearInDirectGood DEF clear_entry_in_current_dir
<1>2. CASE Hits(xs, xs.inodes[dir].pointers, name) = {} /\ xs.inodes[dir].single # NULL
  BY <1>2, ClearInSingleGood DEF clear_entry_in_current_dir
<1>3. CASE Hits(xs, xs.inodes[dir].pointers, name) = {} /\ xs.inodes[dir].single = NULL
  BY <1>3 DEF clear_entry_in_current_dir, Cleared
<1>4. QED
  BY <1>1, <1>2, <1>3

(* rd_unlink, from the clearing of the inode to the last count, keeps the  *)
(* invariant for any file, directory and name.                             *)
LEMMA UnlinkGood ==
  ASSUME NEW fs, Good(fs), NEW file \in InodeNum, NEW dir \in InodeNum, NEW name
  PROVE  Good(Unlink(fs, file, dir, name))
<1> DEFINE xs == my_clear_inode(fs, file)
           cs == clear_entry_in_current_dir(xs, dir, name)
           s  == (cs.inodes[dir].size - DIR_ENTRY_SIZE) % UINT_RANGE
           ds == [cs EXCEPT !.inodes[dir].size = s]
           hs == Detach(ds, file)
           c  == (hs.free_inodes + 1) % UINT_RANGE
           gs == [hs EXCEPT !.free_inodes = c]
<1>1. Cleared(xs, file)
  BY ClearedAfter
<1>2. cs \in FileSys /\ Good(Detach(cs, file)) /\ cs.free_inodes \in UInt
  <2>0. cs = clear_entry_in_current_dir(xs, dir, name)
    OBVIOUS
  <2> HIDE DEF xs, cs
  <2>1. cs \in FileSys /\ Good(Detach(cs, file))
    BY <1>1, <2>0, ClearEntryGood
  <2>2. QED
    BY <2>1 DEF FileSys
<1>3. Unlink(fs, file, dir, name) = gs
  BY DEF Unlink, Detach
<1> HIDE DEF xs, cs
<1>4. s \in UInt
  <2>1. cs.inodes[dir].size \in UInt
    BY <1>2 DEF FileSys, Inode
  <2>2. \A x \in UInt : x \in Int
    BY DEF UInt
  <2>3. cs.inodes[dir].size - DIR_ENTRY_SIZE \in Int
    BY <2>1, <2>2 DEF DIR_ENTRY_SIZE
  <2>4. QED
    BY <2>3, WrapType
<1> HIDE DEF s
<1>5. Good(hs)
  <2> DEFINE ys == Detach(cs, file)
             z  == [cs.inodes[dir] EXCEPT !.size = s]
  <2>1. cs.inodes[dir] \in Inode
    BY <1>2 DEF FileSys
  <2>2. /\ z \in Inode /\ z.pointers = cs.inodes[dir].pointers
        /\ z.single = cs.inodes[dir].single /\ z.double = cs.inodes[dir].double
    BY <1>4, <2>1 DEF Inode
  <2>3. ds = [cs EXCEPT !.inodes[dir] = z]
    OBVIOUS
  <2> HIDE DEF z, ds
  <2>4. ds \in FileSys
    BY <1>2, <2>2, <2>3, PutInode
  <2>5. /\ ds.bitmap = cs.bitmap /\ ds.free_blocks = cs.free_blocks
        /\ ds.data_blocks = cs.data_blocks /\ ds.inodes = [cs.inodes EXCEPT ![dir] = z]
    BY <1>2, <2>3 DEF FileSys
  <2>6. ds.inodes[dir] = z /\ \A m \in InodeNum \ {dir} : ds.inodes[m] = cs.inodes[m]
    BY <1>2, <2>5 DEF FileSys
  <2>7. /\ ys.bitmap = cs.bitmap /\ ys.free_blocks = cs.free_blocks
        /\ ys.data_blocks = cs.data_blocks /\ ys.inodes[file] = ZeroInode
        /\ \A m \in InodeNum \ {file} : ys.inodes[m] = cs.inodes[m]
    BY <1>2, DetachFields
  <2>8. /\ hs \in FileSys /\ hs.bitmap = ds.bitmap /\ hs.free_blocks = ds.free_blocks
        /\ hs.data_blocks = ds.data_blocks /\ hs.inodes[file] = ZeroInode
        /\ \A m \in InodeNum \ {file} : hs.inodes[m] = ds.inodes[m]
    BY <2>4, DetachFields
  <2>9. Good(ys)
    BY <1>2
  <2> HIDE DEF ys, hs
  <2>10. ASSUME NEW m \in InodeNum
         PROVE  /\ hs.inodes[m].pointers = ys.inodes[m].pointers
                /\ hs.inodes[m].single = ys.inodes[m].single
                /\ hs.inodes[m].double = ys.inodes[m].double
    <3>1. CASE m = file
      BY <2>7, <2>8, <3>1
    <3>2. CASE m # file /\ m = dir
      BY <2>2, <2>6, <2>7, <2>8, <3>2
    <3>3. CASE m # file /\ m # dir
      BY <2>6, <2>7, <2>8, <3>3
    <3>4. QED
      BY <3>1, <3>2, <3>3
  <2>11. Shrinks(ys, hs)
    <3>1. hs.data_blocks = ys.data_blocks
      BY <2>5, <2>7, <2>8
    <3>2. QED
      BY <2>10, <3>1 DEF Shrinks
  <2>12. hs.bitmap = ys.bitmap /\ hs.free_blocks = ys.free_blocks
    BY <2>5, <2>7, <2>8
  <2>13. QED
    BY <2>8, <2>9, <2>11, <2>12, ShrinkGood
<1>6. c \in UInt
  <2>1. hs.free_inodes \in UInt
    BY <1>5 DEF Good, FileSys
  <2> HIDE DEF hs
  <2>2. hs.free_inodes + 1 \in Int
    BY <2>1 DEF UInt
  <2>3. QED
    BY <2>2, WrapType
<1> HIDE DEF hs, c
<1>7. Good(gs)
  BY <1>5, <1>6, CountGood
<1>8. QED
  BY <1>3, <1>7

-----------------------------------------------------------------------------
(* The calls keep the file system good *)

(* init_file_sys establishes the invariant.                                *)
LEMMA FreshGood == Good(FreshFileSys)
<1> DEFINE fs == FreshFileSys
           root == [ZeroInode EXCEPT !.type = "dir"]
<1>1. root \in Inode /\ root.pointers = ZeroInode.pointers /\ root.single = NULL /\ root.double = NULL
  BY ZeroTypes DEF Inode, ZeroInode
<1>2. /\ fs.free_blocks = DATA_BLOCKS_NUM /\ fs.bitmap = {}
      /\ \A n \in InodeNum : fs.inodes[n] \in {root, ZeroInode}
      /\ \A b \in BlockNum : fs.data_blocks[b] = ZeroBlock
  BY DEF FreshFileSys
<1>3. fs \in FileSys
  <2>1. MAX_NUM_FILE - 1 \in UInt /\ DATA_BLOCKS_NUM \in Nat
    BY DiscosAssumption DEF UInt
  <2>2. [n \in InodeNum |-> IF n = 0 THEN root ELSE ZeroInode] \in [InodeNum -> Inode]
    BY <1>1, ZeroTypes
  <2>3. [b \in BlockNum |-> ZeroBlock] \in [BlockNum -> DataBlock]
    BY ZeroTypes
  <2>4. QED
    BY <2>1, <2>2, <2>3 DEF FreshFileSys, FileSys
<1> HIDE DEF fs, root
<1>4. \A l \in PtrLoc : PtrAt(fs, l) = NULL
  <2> SUFFICES ASSUME NEW l \in PtrLoc PROVE PtrAt(fs, l) = NULL
    OBVIOUS
  <2>1. \A n \in InodeNum : /\ \A i \in DirectIdx : fs.inodes[n].pointers[i] = NULL
                            /\ fs.inodes[n].single = NULL /\ fs.inodes[n].double = NULL
    BY <1>1, <1>2, ZeroPointers
  <2>2. \A b \in BlockNum, k \in PtrIdx : fs.data_blocks[b].index_block[k] = NULL
    BY <1>2, ZeroPointers
  <2>3. CASE \E n \in InodeNum, i \in DirectIdx : l = <<"direct", n, i>>
    BY <2>1, <2>3, LocValues
  <2>4. CASE \E n \in InodeNum : l = <<"single", n, 0>>
    BY <2>1, <2>4, LocValues
  <2>5. CASE \E n \in InodeNum : l = <<"double", n, 0>>
    BY <2>1, <2>5, LocValues
  <2>6. CASE \E b \in BlockNum, k \in PtrIdx : l = <<"index", b, k>>
    BY <2>2, <2>6, LocValues
  <2>7. QED
    BY <2>3, <2>4, <2>5, <2>6, LocCases
<1>5. Owned(fs)
  BY <1>4 DEF Owned, UsedLoc
<1>6. IndexOnly(fs)
  BY <1>2, <1>4, ZeroPointers DEF IndexOnly, UsedLoc, HoldsNoPointer
<1>7. Covered(fs)
  <2>1. Cardinality(BlockNum) = DATA_BLOCKS_NUM
    BY FS_Interval, DiscosAssumption DEF BlockNum
  <2>2. BlockNum \ fs.bitmap = BlockNum
    BY <1>2
  <2>3. QED
    BY <1>2, <2>1, <2>2, DiscosAssumption DEF Covered
<1>8. QED
  BY <1>3, <1>5, <1>6, <1>7 DEF Good, fs

(* get_free_inode_num returns an inode of the array, and the counter can   *)
(* be decremented.                                                         *)
LEMMA FreeInode ==
  ASSUME NEW fs \in FileSys, get_free_inode_num(fs) # NULL
  PROVE  get_free_inode_num(fs) \in InodeNum /\ fs.free_inodes > 0
<1> DEFINE free == {n \in InodeNum \ {0} : fs.inodes[n].type = ""}
<1>1. free # {} /\ fs.free_inodes # 0 /\ get_free_inode_num(fs) = Min(free)
  BY DEF get_free_inode_num
<1>2. free \subseteq InodeNum
  OBVIOUS
<1>3. Min(free) \in InodeNum
  <2>1. InodeNum \subseteq Nat
    BY DEF InodeNum
  <2> HIDE DEF free
  <2>2. QED
    BY <1>1, <1>2, <2>1, MinExists
<1>4. fs.free_inodes \in Nat
  BY DEF FileSys, UInt
<1> HIDE DEF free
<1>5. QED
  BY <1>1, <1>3, <1>4

(* The name that is entered or cleared is the last component.              *)
LEMMA LastComponent ==
  ASSUME NEW path \in Paths
  PROVE  Last(path) \in Names \cup {NoName}
<1>1. CASE path = Root
  BY <1>1 DEF Root, Last
<1>2. CASE \E k \in 1 .. MAX_DEPTH : path \in [1 .. k -> Names]
  <2>1. PICK k \in 1 .. MAX_DEPTH : path \in [1 .. k -> Names]
    BY <1>2
  <2>2. k \in Nat \ {0}
    BY DiscosAssumption
  <2>3. Len(path) = k
    BY <2>1, <2>2
  <2>4. QED
    BY <2>1, <2>2, <2>3 DEF Last
<1>3. QED
  BY <1>1, <1>2 DEF Paths

(* The inductive invariant.                                                *)
GoodState == Good(discos) /\ ret \in {0, NULL}

(* rd_create keeps the inductive invariant, given up half-way or done, even *)
(* if the counters it tested have changed since.                           *)
LEMMA CreateAllocatedGood ==
  ASSUME Good(discos), NEW path \in Paths, NEW type \in {"dir", "reg"}, NEW mode \in Nat,
         create_allocated(path, type, mode)
  PROVE  GoodState'
<1>1. CASE Refused
  BY <1>1 DEF Refused, Returns, GoodState
<1>2. ASSUME NEW parent \in parse_absolute_path(path),
             NEW dir \in InodeNum, NEW e, e = get_next_entry(discos, dir),
             e.block = NULL \/ get_free_inode_num(e.fs) = NULL,
             discos' = e.fs, Returns(NULL)
      PROVE  GoodState'
  <2>1. Searched(e)
    BY <1>2, NextEntryGood DEF GoodState
  <2>2. QED
    BY <1>2, <2>1 DEF Searched, Returns, GoodState
<1>3. ASSUME NEW parent \in parse_absolute_path(path),
             NEW dir \in InodeNum, NEW e, e = get_next_entry(discos, dir),
             NEW n, n = get_free_inode_num(e.fs),
             e.block # NULL, n # NULL,
             discos' = FillEntry(e, dir, n, Last(path), type, mode), Returns(0)
      PROVE  GoodState'
  <2>1. Searched(e)
    BY <1>3, NextEntryGood DEF GoodState
  <2>2. e.block \in BlockNum
    BY <1>3, <2>1 DEF Searched, BlockPtr
  <2>3. e.fs \in FileSys
    BY <2>1 DEF Searched, Good
  <2>4. n \in InodeNum /\ e.fs.free_inodes > 0
    BY <1>3, <2>3, FreeInode
  <2>5. Last(path) \in Names \cup {NoName}
    BY LastComponent
  <2>6. Good(FillEntry(e, dir, n, Last(path), type, mode))
    BY <2>1, <2>2, <2>4, <2>5, FillEntryGood
  <2>7. QED
    BY <1>3, <2>6 DEF Returns, GoodState
<1>4. QED
  BY <1>1, <1>2, <1>3 DEF create_allocated

(* rd_create keeps the inductive invariant.                                *)
LEMMA CreateGood ==
  ASSUME Good(discos), NEW path \in Paths, NEW type \in {"dir", "reg"}, NEW mode \in Nat,
         rd_create(path, type, mode)
  PROVE  GoodState'
<1>1. CASE Refused
  BY <1>1 DEF Refused, Returns, GoodState
<1>2. QED
  BY <1>1, CreateAllocatedGood DEF rd_create

(* rd_mkdir("/") keeps the invariant, also where the superblock counts     *)
(* every inode as free and it makes the root a directory once more.        *)
LEMMA RootMadeGood ==
  ASSUME NEW fs, Good(fs), fs.free_inodes = MAX_NUM_FILE,
         NEW gs, gs = [fs EXCEPT !.free_inodes = @ - 1, !.inodes[0].type = "dir"]
  PROVE  Good(gs)
<1> DEFINE as == [fs EXCEPT !.free_inodes = MAX_NUM_FILE - 1]
           z  == [as.inodes[0] EXCEPT !.type = "dir"]
<1>1. MAX_NUM_FILE - 1 \in UInt /\ 0 \in InodeNum
  BY DiscosAssumption DEF UInt, InodeNum
<1>2. fs \in FileSys
  BY DEF Good
<1>3. gs = [as EXCEPT !.inodes[0] = z]
  BY <1>2 DEF FileSys
<1>4. Good(as)
  BY <1>1, CountGood
<1> HIDE DEF as
<1>5. as.inodes[0] \in Inode
  BY <1>1, <1>4 DEF Good, FileSys
<1>6. /\ z \in Inode /\ z.pointers = as.inodes[0].pointers
      /\ z.single = as.inodes[0].single /\ z.double = as.inodes[0].double
  BY <1>5 DEF Inode
<1> HIDE DEF z
<1>7. QED
  BY <1>1, <1>3, <1>4, <1>6, PutInodeShrinks

(* rd_unlink keeps the inductive invariant, whatever inode it has for the  *)
(* pathname: also one that the pathname leads to no longer.                *)
LEMMA UnlinkAllocatedGood ==
  ASSUME Good(discos), NEW path \in Paths, NEW file \in InodeNum, unlink_allocated(path, file)
  PROVE  GoodState'
<1>1. CASE Refused
  BY <1>1 DEF Refused, Returns, GoodState
<1>2. ASSUME NEW dir \in InodeNum,
             discos' = Unlink(discos, file, dir, Last(path)), Returns(0)
      PROVE  GoodState'
  BY <1>2, UnlinkGood DEF Returns, GoodState
<1>3. QED
  BY <1>1, <1>2 DEF unlink_allocated

(* rd_unlink keeps the inductive invariant.                                *)
LEMMA UnlinkCallGood ==
  ASSUME Good(discos), NEW path \in Paths, rd_unlink(path)
  PROVE  GoodState'
<1>1. CASE Refused
  BY <1>1 DEF Refused, Returns, GoodState
<1>2. ASSUME NEW file \in InodeNum, unlink_allocated(path, file)
      PROVE  GoodState'
  BY <1>2, UnlinkAllocatedGood
<1>3. QED
  BY <1>1, <1>2 DEF rd_unlink, Removable

(* rd_mkdir keeps the inductive invariant, of the root too.                *)
LEMMA MkdirGood ==
  ASSUME Good(discos), NEW path \in Paths, rd_mkdir(path)
  PROVE  GoodState'
<1>1. CASE Refused
  BY <1>1 DEF Refused, Returns, GoodState
<1>2. CASE rd_create(path, "dir", 1)
  BY <1>2, CreateGood
<1>3. CASE /\ discos.free_inodes = MAX_NUM_FILE
           /\ discos' = [discos EXCEPT !.free_inodes = @ - 1, !.inodes[0].type = "dir"]
           /\ Returns(0)
  BY <1>3, RootMadeGood DEF Returns, GoodState
<1>4. QED
  BY <1>1, <1>2, <1>3 DEF rd_mkdir

(* RD_INIT makes a file system that satisfies the inductive invariant.     *)
LEMMA InitCallGood ==
  ASSUME init_file_sys
  PROVE  GoodState'
BY FreshGood DEF init_file_sys, Returns, GoodState

(* The inductive invariant holds at the start ...                          *)
LEMMA InitGood == Init => GoodState
BY FreshGood DEF Init, GoodState

(* ... and every call keeps it.                                            *)
LEMMA NextGood == GoodState /\ [Next]_vars => GoodState'
<1> SUFFICES ASSUME GoodState, [Next]_vars PROVE GoodState'
  OBVIOUS
<1>1. Good(discos)
  BY DEF GoodState
<1>2. ASSUME NEW path \in Paths, NEW mode \in Modes, rd_create(path, "reg", mode)
      PROVE  GoodState'
  <2>1. mode \in Nat
    BY DiscosAssumption
  <2>2. QED
    BY <1>1, <1>2, <2>1, CreateGood
<1>3. ASSUME NEW path \in Paths, rd_mkdir(path) \/ rd_unlink(path)
      PROVE  GoodState'
  BY <1>1, <1>3, MkdirGood, UnlinkCallGood
<1>4. CASE UNCHANGED vars
  BY <1>4 DEF vars, GoodState
<1>5. QED
  BY <1>2, <1>3, <1>4, InitCallGood DEF Next

(* The inductive invariant holds in every reachable state, for every size  *)
(* of the disk, the inode array and the blocks, any names and any leftover *)
(* memory.                                                                 *)
THEOREM AlwaysGood == Spec => []GoodState
BY InitGood, NextGood, PTL DEF Spec

(* The superblock, the inodes, the bitmap and the blocks hold values of    *)
(* their C types after any sequence of rd_create, rd_mkdir, rd_unlink and  *)
(* RD_INIT: no counter goes below zero, no pointer leaves the disk.        *)
THEOREM TypeCorrect == Spec => []TypeOK
<1>1. GoodState => TypeOK
  BY DEF GoodState, Good, TypeOK
<1>2. QED
  BY <1>1, AlwaysGood, PTL

(* After any sequence of calls each block that a pointer leads to is       *)
(* marked and has one owner: get_free_block_num_from_bitmap never hands    *)
(* out a block in use and rd_unlink leaves no pointer to what it gives     *)
(* back.                                                                   *)
THEOREM BlocksOwned == Spec => []BlockOwnership
<1>1. GoodState => BlockOwnership
  BY DEF GoodState, Good, BlockOwnership
<1>2. QED
  BY <1>1, AlwaysGood, PTL

(* After any sequence of calls only a single indirect pointer leads to a   *)
(* block with pointers in it, and free blocks hold none: the untagged      *)
(* union DATA_BLOCK is never read through the wrong view by a pointer      *)
(* walk.                                                                   *)
THEOREM PointersOnlyInIndexBlocks == Spec => []IndexBlocksOnly
<1>1. GoodState => IndexBlocksOnly
  BY DEF GoodState, Good, IndexBlocksOnly
<1>2. QED
  BY <1>1, AlwaysGood, PTL

(* After any sequence of calls the superblock's count of free blocks is    *)
(* covered by unmarked blocks, so a positive count is a sound test for     *)
(* space.                                                                  *)
THEOREM CountCovered == Spec => []FreeBlocksCovered
<1>1. GoodState => FreeBlocksCovered
  BY DEF GoodState, Good, FreeBlocksCovered
<1>2. QED
  BY <1>1, AlwaysGood, PTL

-----------------------------------------------------------------------------
(* The bitmap's bytes: DiscosBitmap                                        *)

(* The bits of a byte come before those of the next.                       *)
LEMMA BytesApart ==
  ASSUME NEW n \in Nat \ {0}, NEW i \in Nat, NEW j \in Nat, i < j
  PROVE  i * n + n <= j * n
<1>1. PICK d \in Nat : j = i + 1 + d
  <2>1. j - i - 1 \in Nat /\ j = i + 1 + (j - i - 1)
    OBVIOUS
  <2>2. QED
    BY <2>1
<1>2. (i + 1 + d) * n = i * n + n + d * n
  OBVIOUS
<1>3. d * n \in Nat /\ i * n \in Nat
  OBVIOUS
<1>4. QED
  BY <1>1, <1>2, <1>3

(* A number is that of one bit of one byte.                                *)
LEMMA OneBit ==
  ASSUME NEW n \in Nat \ {0}, NEW i \in Nat, NEW j \in Nat,
         NEW k \in 0 .. n - 1, NEW l \in 0 .. n - 1, i * n + k = j * n + l
  PROVE  i = j /\ k = l
<1>1. i * n \in Nat /\ j * n \in Nat
  OBVIOUS
<1>2. ~(i < j) /\ ~(j < i)
  BY <1>1, BytesApart
<1>3. i = j
  BY <1>2
<1>4. QED
  BY <1>1, <1>3

(* The bits of the array; where set_bitmap finds that of a block, or of    *)
(* the number behind the last block's.                                     *)
LEMMA BitNumbers ==
  /\ BYTE_BITS \in Nat \ {0} /\ BITMAP_BYTES \in Nat \ {0} /\ DATA_BLOCKS_NUM \in Nat \ {0}
  /\ ByteIdx \subseteq Nat /\ BitIdx \subseteq Nat
  /\ \A i \in ByteIdx, k \in BitIdx : i * BYTE_BITS + k \in Nat
  /\ \A b \in 0 .. DATA_BLOCKS_NUM :
       /\ b \div BYTE_BITS \in ByteIdx /\ b % BYTE_BITS \in BitIdx
       /\ (b \div BYTE_BITS) * BYTE_BITS + (b % BYTE_BITS) = b
<1>1. /\ BYTE_BITS \in Nat \ {0} /\ BITMAP_BYTES \in Nat \ {0} /\ DATA_BLOCKS_NUM \in Nat \ {0}
      /\ DATA_BLOCKS_NUM < BITMAP_BYTES * BYTE_BITS
  BY BitmapAssumption, DiscosAssumption
<1>2. ByteIdx \subseteq Nat /\ BitIdx \subseteq Nat
  BY <1>1 DEF ByteIdx, BitIdx
<1>3. ASSUME NEW i \in ByteIdx, NEW k \in BitIdx
      PROVE  i * BYTE_BITS + k \in Nat
  <2>1. i \in Nat /\ k \in Nat /\ BYTE_BITS \in Nat
    BY <1>1, <1>2
  <2>2. i * BYTE_BITS \in Nat
    BY <2>1
  <2>3. QED
    BY <2>1, <2>2
<1>4. ASSUME NEW b \in 0 .. DATA_BLOCKS_NUM
      PROVE  /\ b \div BYTE_BITS \in ByteIdx /\ b % BYTE_BITS \in BitIdx
             /\ (b \div BYTE_BITS) * BYTE_BITS + (b % BYTE_BITS) = b
  <2> DEFINE n == BYTE_BITS
             i == b \div n
             k == b % n
  <2>1. b \in Nat /\ n \in Nat \ {0} /\ b < BITMAP_BYTES * n
    BY <1>1
  <2> HIDE DEF n
  <2>2. i \in Nat /\ k \in 0 .. n - 1 /\ i * n + k = b
    BY <2>1
  <2> HIDE DEF i, k
  <2>3. ~(BITMAP_BYTES < i) /\ i # BITMAP_BYTES
    <3>1. BITMAP_BYTES \in Nat /\ BITMAP_BYTES * n \in Nat /\ i * n \in Nat
      BY <1>1, <2>1, <2>2
    <3>2. BITMAP_BYTES < i => BITMAP_BYTES * n + n <= i * n
      BY <2>1, <2>2, <3>1, BytesApart
    <3>3. QED
      BY <2>1, <2>2, <3>1, <3>2
  <2>4. i \in ByteIdx /\ k \in BitIdx
    BY <1>1, <2>2, <2>3 DEF ByteIdx, BitIdx, n
  <2>5. QED
    BY <2>2, <2>4 DEF i, k, n
<1>5. QED
  BY <1>1, <1>2, <1>3, <1>4

(* The bits that are 0 are those of the numbers outside the set.           *)
LEMMA BitsOfBytes ==
  ASSUME NEW S, NEW i \in ByteIdx
  PROVE  /\ ZeroBits(BytesOf(S)[i]) = {k \in BitIdx : i * BYTE_BITS + k \notin S}
         /\ i \in NotFull(BytesOf(S)) <=> \E k \in BitIdx : i * BYTE_BITS + k \notin S
<1>1. \A k \in BitIdx : BytesOf(S)[i][k] = IF i * BYTE_BITS + k \in S THEN 1 ELSE 0
  BY DEF BytesOf
<1>2. ZeroBits(BytesOf(S)[i]) = {k \in BitIdx : i * BYTE_BITS + k \notin S}
  BY <1>1 DEF ZeroBits
<1>3. QED
  BY <1>2 DEF NotFull

(* The scan finds the first block outside the set, whatever is behind the  *)
(* last block's bit.                                                       *)
LEMMA ScanIsFirst ==
  ASSUME NEW S
  PROVE  scan(BytesOf(S)) = IF BlockNum \subseteq S THEN NULL ELSE Min(BlockNum \ S)
<1> DEFINE map   == BytesOf(S)
           bytes == NotFull(map)
           i     == Min(bytes)
           zeros == ZeroBits(map[i])
           k     == Min(zeros)
           bit   == i * BYTE_BITS + k
<1>1. scan(map) = IF bytes = {} THEN NULL ELSE IF bit >= DATA_BLOCKS_NUM THEN NULL ELSE bit
  BY DEF scan
<1>2. bytes \subseteq Nat /\ bytes \subseteq ByteIdx /\ zeros \subseteq Nat /\ zeros \subseteq BitIdx
  BY BitNumbers DEF NotFull, ZeroBits
<1>3. ASSUME bytes # {}
      PROVE  /\ i \in ByteIdx /\ i \in Nat /\ \A j \in bytes : i <= j
             /\ k \in BitIdx /\ k \in Nat /\ \A l \in zeros : k <= l
             /\ bit \notin S /\ bit \in Nat
  <2>1. i \in bytes /\ \A j \in bytes : i <= j
    <3> HIDE DEF bytes
    <3>1. QED
      BY <1>2, <1>3, MinExists
  <2>2. i \in ByteIdx /\ i \in Nat
    BY <1>2, <2>1
  <2> HIDE DEF i
  <2>3. zeros # {}
    BY <2>1 DEF NotFull
  <2>4. k \in zeros /\ \A l \in zeros : k <= l
    <3> HIDE DEF zeros
    <3>1. QED
      BY <1>2, <2>3, MinExists
  <2>5. bit \notin S
    BY <2>2, <2>4, BitsOfBytes
  <2>6. k \in BitIdx /\ k \in Nat
    BY <1>2, <2>4
  <2>7. bit \in Nat
    BY <2>2, <2>6, BitNumbers
  <2>8. QED
    BY <2>1, <2>2, <2>4, <2>5, <2>6, <2>7
<1>4. DATA_BLOCKS_NUM \in Nat /\ BYTE_BITS \in Nat \ {0}
  BY BitNumbers
<1>5. CASE BlockNum \subseteq S
  <2>1. ASSUME bytes # {} PROVE bit >= DATA_BLOCKS_NUM
    <3>1. bit \notin BlockNum /\ bit \in Nat
      BY <1>3, <1>5, <2>1
    <3> HIDE DEF bit
    <3>2. QED
      BY <1>4, <3>1 DEF BlockNum
  <2>2. QED
    BY <1>1, <1>5, <2>1
<1>6. CASE ~(BlockNum \subseteq S)
  <2> DEFINE x == Min(BlockNum \ S)
             j == x \div BYTE_BITS
             l == x % BYTE_BITS
  <2>1. x \in BlockNum \ S /\ \A y \in BlockNum \ S : x <= y
    <3>1. BlockNum \ S # {} /\ BlockNum \ S \subseteq Nat
      BY <1>4, <1>6 DEF BlockNum
    <3>2. QED
      BY <3>1, MinExists
  <2>2. x \in 0 .. DATA_BLOCKS_NUM /\ x \in Nat /\ x < DATA_BLOCKS_NUM
    BY <1>4, <2>1 DEF BlockNum
  <2> HIDE DEF x
  <2>3. j \in ByteIdx /\ l \in BitIdx /\ j * BYTE_BITS + l = x /\ j \in Nat /\ l \in Nat
    BY <2>2, BitNumbers
  <2> HIDE DEF j, l
  <2>4. j \in bytes
    BY <2>1, <2>3, BitsOfBytes
  <2> HIDE DEF bytes, zeros
  <2>5. i <= j /\ i \in Nat /\ k \in Nat /\ bit \in Nat /\ bit \notin S /\ i \in ByteIdx /\ k \in BitIdx
    BY <1>3, <2>4
  <2>6. i = j => k <= l
    <3>1. i = j => l \in zeros
      BY <2>1, <2>3, <2>5, BitsOfBytes DEF zeros
    <3>2. QED
      BY <1>3, <2>4, <3>1
  <2> HIDE DEF i, k
  <2>7. bit <= x
    <3>1. i * BYTE_BITS \in Nat /\ j * BYTE_BITS \in Nat
      BY <1>4, <2>3, <2>5
    <3>2. CASE i = j
      BY <2>3, <2>5, <2>6, <3>1, <3>2
    <3>3. CASE i < j
      <4>1. i * BYTE_BITS + BYTE_BITS <= j * BYTE_BITS
        BY <1>4, <2>3, <2>5, <3>3, BytesApart
      <4>2. k < BYTE_BITS
        BY <1>4, <2>5 DEF BitIdx
      <4>3. QED
        BY <1>4, <2>3, <2>5, <3>1, <4>1, <4>2
    <3>4. QED
      BY <2>3, <2>5, <3>2, <3>3
  <2> HIDE DEF bit
  <2>8. bit \in BlockNum \ S
    BY <1>4, <2>2, <2>5, <2>7 DEF BlockNum
  <2>9. bit = x /\ ~(bit >= DATA_BLOCKS_NUM)
    BY <1>4, <2>1, <2>2, <2>5, <2>7, <2>8
  <2>10. bytes # {}
    BY <2>4
  <2>11. scan(map) = x
    BY <1>1, <2>9, <2>10
  <2>12. QED
    BY <1>6, <2>11 DEF x
<1>7. QED
  BY <1>5, <1>6

(* set_bitmap and clear_bitmap on the array of a set.                      *)
LEMMA OneBitChanged ==
  ASSUME NEW S, NEW b \in 0 .. DATA_BLOCKS_NUM
  PROVE  /\ set_bitmap(BytesOf(S), b) = BytesOf(S \cup {b})
         /\ clear_bitmap(BytesOf(S), b) = BytesOf(S \ {b})
<1> DEFINE j == b \div BYTE_BITS
           l == b % BYTE_BITS
<1>1. /\ j \in ByteIdx /\ l \in BitIdx /\ j * BYTE_BITS + l = b
      /\ BYTE_BITS \in Nat \ {0} /\ ByteIdx \subseteq Nat
  BY BitNumbers
<1>2. ASSUME NEW i \in ByteIdx, NEW k \in BitIdx
      PROVE  i * BYTE_BITS + k = b <=> i = j /\ k = l
  <2> HIDE DEF j, l
  <2>1. i * BYTE_BITS + k = j * BYTE_BITS + l => i = j /\ k = l
    <3>1. i \in Nat /\ j \in Nat /\ k \in 0 .. BYTE_BITS - 1 /\ l \in 0 .. BYTE_BITS - 1
      BY <1>1 DEF BitIdx
    <3>2. QED
      BY <1>1, <3>1, OneBit
  <2>2. QED
    BY <1>1, <2>1
<1>3. InRange(b)
  BY DEF InRange
<1>4. ASSUME NEW v
      PROVE  [BytesOf(S) EXCEPT ![j][l] = v]
               = [i \in ByteIdx |-> [k \in BitIdx |->
                    IF i * BYTE_BITS + k = b THEN v ELSE BytesOf(S)[i][k]]]
  <2> DEFINE map == BytesOf(S)
             new == [map EXCEPT ![j][l] = v]
  <2>1. map = [i \in ByteIdx |-> map[i]] /\ \A i \in ByteIdx : map[i] = [k \in BitIdx |-> map[i][k]]
    BY DEF BytesOf
  <2> HIDE DEF map, j, l
  <2>2. /\ new = [i \in ByteIdx |-> new[i]]
        /\ \A i \in ByteIdx : new[i] = IF i = j THEN [map[j] EXCEPT ![l] = v] ELSE map[i]
    BY <1>1, <2>1
  <2>3. ASSUME NEW i \in ByteIdx
        PROVE  new[i] = [k \in BitIdx |-> IF i * BYTE_BITS + k = b THEN v ELSE map[i][k]]
    <3> HIDE DEF new
    <3>1. CASE i = j
      <4>1. new[i] = [k \in BitIdx |-> IF k = l THEN v ELSE map[i][k]]
        BY <2>1, <2>2, <3>1
      <4>2. QED
        BY <1>2, <3>1, <4>1
    <3>2. CASE i # j
      BY <1>2, <2>1, <2>2, <3>2
    <3>3. QED
      BY <3>1, <3>2
  <2>4. QED
    BY <2>2, <2>3 DEF map
<1>5. ASSUME NEW v, NEW T,
             \A i \in ByteIdx, k \in BitIdx :
               (IF i * BYTE_BITS + k \in T THEN 1 ELSE 0)
                 = IF i * BYTE_BITS + k = b THEN v
                   ELSE IF i * BYTE_BITS + k \in S THEN 1 ELSE 0
      PROVE  [BytesOf(S) EXCEPT ![j][l] = v] = BytesOf(T)
  <2> HIDE DEF j, l
  <2>1. \A i \in ByteIdx, k \in BitIdx :
          BytesOf(S)[i][k] = IF i * BYTE_BITS + k \in S THEN 1 ELSE 0
    BY DEF BytesOf
  <2>2. BytesOf(T) = [i \in ByteIdx |-> [k \in BitIdx |->
                        IF i * BYTE_BITS + k = b THEN v ELSE BytesOf(S)[i][k]]]
    BY <1>5, <2>1 DEF BytesOf
  <2>3. QED
    BY <1>4, <2>2
<1>6. set_bitmap(BytesOf(S), b) = [BytesOf(S) EXCEPT ![j][l] = 1]
  BY <1>3 DEF set_bitmap
<1>7. clear_bitmap(BytesOf(S), b) = [BytesOf(S) EXCEPT ![j][l] = 0]
  BY <1>3 DEF clear_bitmap
<1> HIDE DEF j, l
<1>8. [BytesOf(S) EXCEPT ![j][l] = 1] = BytesOf(S \cup {b})
  BY <1>5
<1>9. [BytesOf(S) EXCEPT ![j][l] = 0] = BytesOf(S \ {b})
  BY <1>5
<1>10. QED
  BY <1>6, <1>7, <1>8, <1>9

(* get_free_block_num_from_bitmap finds the first free block, for every    *)
(* number of blocks, width of a byte and length of the array, also when    *)
(* the bit behind the last block's is set.                                 *)
THEOREM ScanCorrect == Spec => []ScanFindsFirstFree
<1> DEFINE taken == discos.bitmap
           map   == BytesOf(taken)
           first == IF BlockNum \subseteq taken THEN NULL ELSE Min(BlockNum \ taken)
<1>1. DATA_BLOCKS_NUM \in 0 .. DATA_BLOCKS_NUM /\ DATA_BLOCKS_NUM \notin BlockNum
  BY DiscosAssumption DEF BlockNum
<1>2. set_bitmap(map, DATA_BLOCKS_NUM) = BytesOf(taken \cup {DATA_BLOCKS_NUM})
  BY <1>1, OneBitChanged
<1>3. scan(map) = first
  BY ScanIsFirst
<1>4. scan(BytesOf(taken \cup {DATA_BLOCKS_NUM})) = first
  <2>1. /\ BlockNum \ (taken \cup {DATA_BLOCKS_NUM}) = BlockNum \ taken
        /\ BlockNum \subseteq taken \cup {DATA_BLOCKS_NUM} <=> BlockNum \subseteq taken
    BY <1>1
  <2>2. QED
    BY <2>1, ScanIsFirst
<1>5. ASSUME NEW m, scan(m) = first
      PROVE  get_free_block_num(discos.free_blocks, m) = get_free_block_num_from_bitmap(discos)
  BY <1>5 DEF get_free_block_num, get_free_block_num_from_bitmap
<1>6. ScanFindsFirstFree
  BY <1>2, <1>3, <1>4, <1>5 DEF ScanFindsFirstFree
<1>7. QED
  BY <1>6, PTL

(* set_bitmap and clear_bitmap change the mark of their block only, in     *)
(* whatever byte it is.                                                    *)
THEOREM BitsMarkBlocks == Spec => []BitsAreBlocks
<1>1. BlockNum \subseteq 0 .. DATA_BLOCKS_NUM
  BY DiscosAssumption DEF BlockNum
<1>2. BitsAreBlocks
  BY <1>1, OneBitChanged DEF BitsAreBlocks
<1>3. QED
  BY <1>2, PTL

=============================================================================
