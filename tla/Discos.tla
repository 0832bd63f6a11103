------------------------------- MODULE Discos -------------------------------
(***************************************************************************)
(* The namespace and the storage of DISCOS, the ramdisk file system of     *)
(* Jiaqian-Ramdisk-Final/kernelspace/discos.c: the superblock counters,    *)
(* the block bitmap, the inode array, the data blocks, and the calls that  *)
(* change them without a file descriptor: init_file_sys, rd_create,        *)
(* rd_mkdir and rd_unlink.                                                 *)
(*                                                                         *)
(* One variable holds the global `discos'; the functions of the C code     *)
(* that take and change it are operators from one file system to the next, *)
(* under the names they have in C.  A call runs to its end in one step:    *)
(* the calls of the kernel module run under the big kernel lock (what      *)
(* happens when they sleep in the middle is another module's subject).     *)
(***************************************************************************)
EXTENDS Integers, FiniteSets, Sequences, SequencesExt

CONSTANTS
  Names,                \* the component names that callers put in a pathname
  NoName,               \* the empty string: the name field of a free entry
  Residue,              \* <<x, y>>: a copy of x without its final zero may read as y
  Modes,                \* the access modes passed to rd_create
  MAX_DEPTH,            \* bound: components in the longest pathname
  INODE_NUM_DIRECT_PTR, \* 8 in the code
  PTRS_PER_BLOCK,       \* BLOCK_SIZE/4: 64 in the code
  ENTRIES_PER_BLOCK,    \* BLOCK_SIZE/16: 16 in the code
  DATA_BLOCKS_NUM,      \* 7931 in the code
  MAX_NUM_FILE,         \* 1024 in the code
  UINT_RANGE            \* 2^32: the range of an unsigned int

ASSUME DiscosAssumption ==
  /\ MAX_DEPTH \in Nat \ {0}
  /\ INODE_NUM_DIRECT_PTR \in Nat \ {0}
  /\ PTRS_PER_BLOCK \in Nat \ {0}
  /\ ENTRIES_PER_BLOCK \in Nat \ {0}
  /\ DATA_BLOCKS_NUM \in Nat \ {0}
  /\ MAX_NUM_FILE \in Nat \ {0}
  /\ UINT_RANGE \in Nat \ {0}
  /\ MAX_NUM_FILE <= UINT_RANGE
  /\ Modes \subseteq Nat

VARIABLES
  discos,   \* the file system: superblock, inodes, bitmap, data blocks
  ret       \* what the last call returned

vars == <<discos, ret>>

-----------------------------------------------------------------------------
(* Types *)

NULL == -1                       \* a null pointer; the failure value -1
DIR_ENTRY_SIZE == 16
BLOCK_SIZE == ENTRIES_PER_BLOCK * DIR_ENTRY_SIZE

InodeNum  == 0 .. MAX_NUM_FILE - 1
BlockNum  == 0 .. DATA_BLOCKS_NUM - 1
BlockPtr  == BlockNum \cup {NULL}
DirectIdx == 0 .. INODE_NUM_DIRECT_PTR - 1
PtrIdx    == 0 .. PTRS_PER_BLOCK - 1
EntryIdx  == 0 .. ENTRIES_PER_BLOCK - 1
UInt      == 0 .. UINT_RANGE - 1

DirEntry == [name : Names \cup {NoName}, inode_num : InodeNum]

(* A data block is a union: a block of a directory is read through         *)
(* `entries', an index block through `index_block'.  IndexBlocksOnly below *)
(* is why the two views can be kept apart.                                 *)
DataBlock == [entries : [EntryIdx -> DirEntry], index_block : [PtrIdx -> BlockPtr]]

Inode == [type : {"", "dir", "reg"}, size : UInt, pointers : [DirectIdx -> BlockPtr],
          single : BlockPtr, double : BlockPtr, access : Nat]

(* `bitmap' is the set of the blocks whose bit is 1. *)
FileSys == [free_blocks : Nat, free_inodes : UInt, inodes : [InodeNum -> Inode],
            bitmap : SUBSET BlockNum, data_blocks : [BlockNum -> DataBlock]]

(* What memset(., 0, .) leaves. *)
ZeroEntry == [name |-> NoName, inode_num |-> 0]
ZeroBlock == [entries |-> [j \in EntryIdx |-> ZeroEntry],
              index_block |-> [k \in PtrIdx |-> NULL]]
ZeroInode == [type |-> "", size |-> 0, pointers |-> [i \in DirectIdx |-> NULL],
              single |-> NULL, double |-> NULL, access |-> 0]

(* init_file_sys with the rd_mkdir("/") at its end. *)
FreshFileSys ==
  [free_blocks |-> DATA_BLOCKS_NUM,
   free_inodes |-> MAX_NUM_FILE - 1,
   inodes      |-> [n \in InodeNum |-> IF n = 0 THEN [ZeroInode EXCEPT !.type = "dir"]
                                                ELSE ZeroInode],
   bitmap      |-> {},
   data_blocks |-> [b \in BlockNum |-> ZeroBlock]]

-----------------------------------------------------------------------------
(* Pathnames.  A pathname is the sequence of its components, and "/", with *)
(* nothing after the slash, is the sequence of one empty component.        *)

Root  == <<NoName>>
Paths == {Root} \cup UNION {[1 .. k -> Names] : k \in 1 .. MAX_DEPTH}

(* The directory parts that parse_absolute_path can hand back.  strncpy    *)
(* copies the parent's characters without the terminating zero into fresh, *)
(* uninitialised memory, so the parent's last component x may read on into *)
(* what is left there, as a longer name y; a parent of "/" is copied with  *)
(* strcpy.                                                                 *)
parse_absolute_path(path) ==
  IF Len(path) = 1
  THEN {Root}
  ELSE LET parent == Front(path)
       IN  {parent} \cup {Append(Front(parent), r[2]) : r \in {r \in Residue : r[1] = Last(parent)}}

-----------------------------------------------------------------------------
(* Free blocks and free inodes *)

\* Seeded fault: the superblock's counter is not looked at.
get_free_block_num_from_bitmap_uncounted(fs) ==
  IF BlockNum \subseteq fs.bitmap THEN NULL ELSE Min(BlockNum \ fs.bitmap)

get_free_block_num_from_bitmap(fs) ==
  IF fs.free_blocks = 0 \/ BlockNum \subseteq fs.bitmap
  THEN NULL
  ELSE Min(BlockNum \ fs.bitmap)

\* Seeded fault: the bit of the new block is not set.
allocate_data_block_unmarked(fs, b) ==
  [fs EXCEPT !.free_blocks = @ - 1, !.data_blocks[b] = ZeroBlock]

\* Seeded fault: the superblock's counter is not decremented.
allocate_data_block_uncounted(fs, b) ==
  [fs EXCEPT !.bitmap = @ \cup {b}, !.data_blocks[b] = ZeroBlock]

allocate_data_block(fs, b) ==
  [fs EXCEPT !.bitmap = @ \cup {b}, !.free_blocks = @ - 1, !.data_blocks[b] = ZeroBlock]

get_free_inode_num(fs) ==
  LET free == {n \in InodeNum \ {0} : fs.inodes[n].type = ""}
  IN  IF fs.free_inodes = 0 \/ free = {} THEN NULL ELSE Min(free)

allocate_inode(fs, n) ==
  [fs EXCEPT !.free_inodes = @ - 1, !.inodes[n] = ZeroInode]

-----------------------------------------------------------------------------
(* Looking a name up *)

(* The k-th block of inode n in the order in which the code walks them:    *)
(* direct pointers, single indirect, double indirect.                      *)
BlockIdx == 0 .. INODE_NUM_DIRECT_PTR + PTRS_PER_BLOCK + PTRS_PER_BLOCK * PTRS_PER_BLOCK - 1

Index(fs, b, k) == IF b = NULL THEN NULL ELSE fs.data_blocks[b].index_block[k]

BlockAt(fs, n, k) ==
  LET inode == fs.inodes[n]
      s     == k - INODE_NUM_DIRECT_PTR
      d     == s - PTRS_PER_BLOCK
  IN  IF s < 0 THEN inode.pointers[k]
      ELSE IF d < 0 THEN Index(fs, inode.single, s)
      ELSE Index(fs, Index(fs, inode.double, d \div PTRS_PER_BLOCK), d % PTRS_PER_BLOCK)

Matches(fs, b, name) == {j \in EntryIdx : fs.data_blocks[b].entries[j].name = name}

(* One component of a pathname.  The first match in a block counts, and it *)
(* is a hit if it leads to another inode than the one searched (the code   *)
(* tells found from not found by cur_node_num != pre_node_num).  The name  *)
(* of a free slot is the empty string and leads to inode 0.  The type of   *)
(* the inode searched is not looked at.                                    *)
Lookup(fs, dir, name) ==
  LET first(b) == fs.data_blocks[b].entries[Min(Matches(fs, b, name))].inode_num
      hits == {k \in BlockIdx : LET b == BlockAt(fs, dir, k)
                                IN  /\ b # NULL
                                    /\ Matches(fs, b, name) # {}
                                    /\ first(b) # dir}
  IN  IF hits = {} THEN NULL ELSE first(BlockAt(fs, dir, Min(hits)))

my_find_inode_number(fs, path) ==
  LET step(dir, name) == IF dir = NULL THEN NULL ELSE Lookup(fs, dir, name)
  IN  IF path = Root THEN 0 ELSE FoldLeft(step, 0, path)

-----------------------------------------------------------------------------
(* Finding, and making, a free directory entry.  The result is the file    *)
(* system after the search, and the block and slot of the entry; block is  *)
(* NULL if there is none (blocks attached on the way stay attached).       *)

Found(fs, b, j) == [fs |-> fs, block |-> b, slot |-> j]
NotFound(fs)    == [fs |-> fs, block |-> NULL, slot |-> 0]

FreeSlots(fs, b) == {j \in EntryIdx : fs.data_blocks[b].entries[j].inode_num = 0}

\* Seeded fault: a full block yields its last slot.
get_next_dir_entry_overwriting(fs, b) ==
  IF FreeSlots(fs, b) = {} THEN Found(fs, b, ENTRIES_PER_BLOCK - 1)
                           ELSE Found(fs, b, Min(FreeSlots(fs, b)))

get_next_dir_entry(fs, b) ==
  IF FreeSlots(fs, b) = {} THEN NotFound(fs) ELSE Found(fs, b, Min(FreeSlots(fs, b)))

get_next_dir_entry_single(fs, index, seg) ==
  LET block == fs.data_blocks[index].index_block[seg]
      fresh == get_free_block_num_from_bitmap(fs)
  IN  IF block # NULL THEN get_next_dir_entry(fs, block)
      ELSE IF fresh = NULL THEN NotFound(fs)
      ELSE Found([allocate_data_block(fs, fresh) EXCEPT
                    !.data_blocks[index].index_block[seg] = fresh], fresh, 0)

(* A new index block is used but never linked from the double indirect     *)
(* block: the assignment is commented out.                                 *)
get_next_dir_entry_double(fs, index, seg) ==
  LET block == fs.data_blocks[index].index_block[seg \div PTRS_PER_BLOCK]
      fresh == get_free_block_num_from_bitmap(fs)
  IN  IF block # NULL THEN get_next_dir_entry_single(fs, block, seg % PTRS_PER_BLOCK)
      ELSE IF fresh = NULL THEN NotFound(fs)
      ELSE get_next_dir_entry_single(allocate_data_block(fs, fresh), fresh,
                                     seg % PTRS_PER_BLOCK)

(* The first of the direct blocks from seg on that is missing or has room. *)
NextInDirect(fs, n, i) ==
  LET block == fs.inodes[n].pointers[i]
      fresh == get_free_block_num_from_bitmap(fs)
  IN  IF block # NULL THEN get_next_dir_entry(fs, block)
      ELSE IF fresh = NULL THEN NotFound(fs)
      ELSE Found([allocate_data_block(fs, fresh) EXCEPT
                    !.inodes[n].pointers[i] = fresh], fresh, 0)

NextInSingle(fs, n, seg) ==
  LET fresh == get_free_block_num_from_bitmap(fs)
  IN  IF fs.inodes[n].single # NULL
      THEN get_next_dir_entry_single(fs, fs.inodes[n].single, seg)
      ELSE IF fresh = NULL THEN NotFound(fs)
      ELSE get_next_dir_entry_single(
             [allocate_data_block(fs, fresh) EXCEPT !.inodes[n].single = fresh], fresh, seg)

NextInDouble(fs, n, seg) ==
  LET fresh == get_free_block_num_from_bitmap(fs)
  IN  IF fs.inodes[n].double # NULL
      THEN get_next_dir_entry_double(fs, fs.inodes[n].double, seg)
      ELSE IF fresh = NULL THEN NotFound(fs)
      ELSE get_next_dir_entry_double(
             [allocate_data_block(fs, fresh) EXCEPT !.inodes[n].double = fresh], fresh, seg)

(* The search starts at the block the size points to, not at a block with  *)
(* room.  When the single indirect range has no entry the code goes on     *)
(* with the first block of the double indirect range (seg = 72).           *)
get_next_entry(fs, n) ==
  LET seg    == fs.inodes[n].size \div BLOCK_SIZE
      lo     == INODE_NUM_DIRECT_PTR
      hi     == lo + PTRS_PER_BLOCK
      top    == hi + PTRS_PER_BLOCK * PTRS_PER_BLOCK
      direct == {i \in DirectIdx : /\ i >= seg
                                   /\ \/ fs.inodes[n].pointers[i] = NULL
                                      \/ FreeSlots(fs, fs.inodes[n].pointers[i]) # {}}
      single == NextInSingle(fs, n, seg - lo)
  IN  IF direct # {} THEN NextInDirect(fs, n, Min(direct))
      ELSE IF seg \in lo .. hi - 1
      THEN IF \/ single.block # NULL
              \/ single.fs.inodes[n].single = NULL
           THEN single
           ELSE NextInDouble(single.fs, n, 0)
      ELSE IF seg \in hi .. top - 1 THEN NextInDouble(fs, n, seg - hi)
      ELSE NotFound(fs)

-----------------------------------------------------------------------------
(* Giving storage back *)

IndexTargets(fs, b) == {Index(fs, b, k) : k \in PtrIdx} \ {NULL}

(* The blocks of an inode, its index blocks included. *)
BlocksOf(fs, n) ==
  LET inode == fs.inodes[n]
  IN  (({inode.pointers[i] : i \in DirectIdx} \cup {inode.single, inode.double}) \ {NULL})
      \cup IndexTargets(fs, inode.single)
      \cup IndexTargets(fs, inode.double)
      \cup UNION {IndexTargets(fs, b) : b \in IndexTargets(fs, inode.double)}

(* my_clear_inode with its two helpers: each block the inode reaches is    *)
(* unmarked, zeroed and counted.  They are counted once each because no    *)
(* two pointers lead to one block (BlockOwnership).                        *)
my_clear_inode(fs, n) ==
  [fs EXCEPT !.bitmap = @ \ BlocksOf(fs, n),
             !.free_blocks = @ + Cardinality(BlocksOf(fs, n)),
             !.data_blocks = [b \in BlockNum |->
                                IF b \in BlocksOf(fs, n) THEN ZeroBlock ELSE @[b]]]

(* Clearing an entry, one region (the direct pointers, or the single       *)
(* indirect block) at a time.  ptrs is the region's array of pointers.     *)
Hits(fs, ptrs, name) ==
  {i \in DOMAIN ptrs : ptrs[i] # NULL /\ Matches(fs, ptrs[i], name) # {}}

(* findEntry stays 1 once the name was seen: from the first hit on, every  *)
(* block with exactly one live entry is given back.                        *)
Emptied(fs, ptrs, name) ==
  {i \in DOMAIN ptrs :
     /\ ptrs[i] # NULL
     /\ \E h \in Hits(fs, ptrs, name) : h <= i
     /\ Cardinality(EntryIdx \ FreeSlots(fs, ptrs[i])) = 1}

(* Every match in the region is zeroed; the emptied blocks are unmarked,   *)
(* but the superblock does not count them.                                 *)
EraseEntries(fs, ptrs, name) ==
  LET blocks == {ptrs[i] : i \in Hits(fs, ptrs, name)}
      erased(entries) == [j \in EntryIdx |-> IF entries[j].name = name THEN ZeroEntry
                                                                       ELSE entries[j]]
      block(b) == IF b \in blocks THEN [fs.data_blocks[b] EXCEPT !.entries = erased(@)]
                                  ELSE fs.data_blocks[b]
  IN  [fs EXCEPT !.bitmap = @ \ {ptrs[i] : i \in Emptied(fs, ptrs, name)},
                 !.data_blocks = [b \in BlockNum |-> block(b)]]

\* Seeded fault: the pointers to the blocks given back stay.
Without_nothing(ptrs, S) == ptrs

Without(ptrs, S) == [i \in DOMAIN ptrs |-> IF i \in S THEN NULL ELSE ptrs[i]]

ClearInDirect(fs, dir, name) ==
  LET ptrs == fs.inodes[dir].pointers
  IN  [EraseEntries(fs, ptrs, name) EXCEPT
         !.inodes[dir].pointers = Without(ptrs, Emptied(fs, ptrs, name))]

(* The single indirect block goes too if its only block was emptied. *)
ClearInSingle(fs, dir, name) ==
  LET index   == fs.inodes[dir].single
      ptrs    == fs.data_blocks[index].index_block
      emptied == Emptied(fs, ptrs, name)
      cleared == [EraseEntries(fs, ptrs, name) EXCEPT
                    !.data_blocks[index].index_block = Without(ptrs, emptied)]
  IN  IF emptied # {} /\ Cardinality(IndexTargets(fs, index)) = 1
      THEN [cleared EXCEPT !.bitmap = @ \ {index}, !.inodes[dir].single = NULL]
      ELSE cleared

\* Seeded fault: only the direct blocks are searched.
clear_entry_in_current_dir_direct(fs, dir, name) == ClearInDirect(fs, dir, name)

(* An entry in the double indirect range is found but not cleared. *)
clear_entry_in_current_dir(fs, dir, name) ==
  IF Hits(fs, fs.inodes[dir].pointers, name) # {} THEN ClearInDirect(fs, dir, name)
  ELSE IF fs.inodes[dir].single # NULL THEN ClearInSingle(fs, dir, name)
  ELSE fs

-----------------------------------------------------------------------------
(* The calls *)

(* What rd_create does once it has an entry e and a free inode n. *)
Filled(e, n, name, type, mode) ==
  [allocate_inode(e.fs, n) EXCEPT
     !.data_blocks[e.block].entries[e.slot] = [name |-> name, inode_num |-> n],
     !.inodes[n] = [ZeroInode EXCEPT !.type = type, !.access = mode]]

\* Seeded fault: the directory's size is not updated.
FillEntry_unsized(e, dir, n, name, type, mode) == Filled(e, n, name, type, mode)

FillEntry(e, dir, n, name, type, mode) ==
  [Filled(e, n, name, type, mode) EXCEPT
     !.inodes[dir].size = (@ + DIR_ENTRY_SIZE) % UINT_RANGE]

Returns(value) == ret' = value
Refused        == UNCHANGED discos /\ Returns(NULL)

(* rd_create from where it has memory for the two parts of the pathname.   *)
create_allocated(path, type, mode) ==
  \E parent \in parse_absolute_path(path) :
    LET dir == my_find_inode_number(discos, parent)
        e   == get_next_entry(discos, dir)
        n   == get_free_inode_num(e.fs)
    IN  \/ /\ dir \notin InodeNum
           /\ Refused
        \/ /\ dir \in InodeNum
           /\ e.block = NULL \/ n = NULL
           /\ discos' = e.fs
           /\ Returns(NULL)
        \/ /\ dir \in InodeNum
           /\ e.block # NULL /\ n # NULL
           /\ discos' = FillEntry(e, dir, n, Last(path), type, mode)
           /\ Returns(0)

HasSpace(fs) == fs.free_inodes > 0 /\ fs.free_blocks > 0

(* Nothing asks whether the name is taken, or whether the parent is a      *)
(* directory.                                                              *)
rd_create(path, type, mode) ==
  \/ ~HasSpace(discos) /\ Refused
  \/ HasSpace(discos) /\ create_allocated(path, type, mode)

(* The root directory exists if the count says that any inode is in use. *)
rd_mkdir(path) ==
  \/ /\ path = Root
     /\ IF discos.free_inodes # MAX_NUM_FILE
        THEN Refused
        ELSE /\ discos' = [discos EXCEPT !.free_inodes = @ - 1, !.inodes[0].type = "dir"]
             /\ Returns(0)
  \/ path # Root /\ rd_create(path, "dir", 1)

(* The inode and its blocks are cleared, then the entry, then the counts. *)
\* Seeded fault: the inode is not counted as free.
Unlink_uncounted(fs, file, dir, name) ==
  [clear_entry_in_current_dir(my_clear_inode(fs, file), dir, name) EXCEPT
     !.inodes[dir].size = (@ - DIR_ENTRY_SIZE) % UINT_RANGE,
     !.inodes[file]     = ZeroInode]

Unlink(fs, file, dir, name) ==
  [clear_entry_in_current_dir(my_clear_inode(fs, file), dir, name) EXCEPT
     !.inodes[dir].size = (@ - DIR_ENTRY_SIZE) % UINT_RANGE,
     !.inodes[file]     = ZeroInode,
     !.free_inodes      = (@ + 1) % UINT_RANGE]

(* rd_unlink from where it has memory for the two parts of the pathname.   *)
unlink_allocated(path, file) ==
  \E parent \in parse_absolute_path(path) :
    LET dir == my_find_inode_number(discos, parent)
    IN  \/ dir \notin InodeNum /\ Refused
        \/ /\ dir \in InodeNum
           /\ discos' = Unlink(discos, file, dir, Last(path))
           /\ Returns(0)

\* Seeded fault: a directory with entries is not refused.
Removable_nonempty(fs, path, file) == path # Root /\ file \in InodeNum

(* Not the root directory, nor a directory with entries. *)
Removable(fs, path, file) ==
  /\ path # Root /\ file \in InodeNum
  /\ fs.inodes[file].type # "dir" \/ fs.inodes[file].size = 0

rd_unlink(path) ==
  LET file == my_find_inode_number(discos, path)
  IN  \/ ~Removable(discos, path, file) /\ Refused
      \/ Removable(discos, path, file) /\ unlink_allocated(path, file)

(* RD_INIT, which any process may issue again at any time. *)
init_file_sys == discos' = FreshFileSys /\ Returns(0)

Init == discos = FreshFileSys /\ ret = 0

Next ==
  \/ \E path \in Paths :
       \/ \E mode \in Modes : rd_create(path, "reg", mode)
       \/ rd_mkdir(path)
       \/ rd_unlink(path)
  \/ init_file_sys

Spec == Init /\ [][Next]_vars

-----------------------------------------------------------------------------
(* Type invariant: the superblock, the inodes, the bitmap and the blocks   *)
(* hold values of their C types, whatever calls were made (discos.h).      *)
TypeOK == discos \in FileSys /\ ret \in {0, NULL}

(* The places where a block pointer is stored: the pointers of the inodes  *)
(* and the slots of the index blocks.                                      *)
PtrLoc == ({"direct"} \X InodeNum \X DirectIdx)
     \cup ({"single", "double"} \X InodeNum \X {0})
     \cup ({"index"} \X BlockNum \X PtrIdx)

PtrAt(fs, l) ==
  CASE l[1] = "direct" -> fs.inodes[l[2]].pointers[l[3]]
    [] l[1] = "single" -> fs.inodes[l[2]].single
    [] l[1] = "double" -> fs.inodes[l[2]].double
    [] l[1] = "index"  -> fs.data_blocks[l[2]].index_block[l[3]]

UsedLoc(fs) == {l \in PtrLoc : PtrAt(fs, l) # NULL}

(* Every pointer leads to a marked block, and no two lead to one. *)
Owned(fs) ==
  /\ \A l \in UsedLoc(fs) : PtrAt(fs, l) \in fs.bitmap
  /\ \A l, m \in UsedLoc(fs) : PtrAt(fs, l) = PtrAt(fs, m) => l = m

HoldsNoPointer(fs, b) == \A k \in PtrIdx : fs.data_blocks[b].index_block[k] = NULL

(* Only a single indirect pointer leads to a block with pointers in it. *)
IndexOnly(fs) ==
  /\ \A l \in UsedLoc(fs) : l[1] # "single" => HoldsNoPointer(fs, PtrAt(fs, l))
  /\ \A b \in BlockNum \ fs.bitmap : HoldsNoPointer(fs, b)

(* The superblock counts no block that the bitmap does not have. *)
Covered(fs) == fs.free_blocks <= Cardinality(BlockNum \ fs.bitmap)

(* get_free_block_num_from_bitmap never hands out a block in use, and      *)
(* my_clear_inode and clear_entry_in_current_dir leave no pointer to a     *)
(* block they give back: each block has one owner, in every reachable      *)
(* state, and a write through one inode never lands in another.            *)
BlockOwnership == Owned(discos)

(* The code never reads directory entries as pointers or the other way     *)
(* round (the union DATA_BLOCK has no tag), a block that is given back     *)
(* holds no pointer, and so a block that is reused brings none with it.    *)
(* That even a double indirect block holds none is CreatedIsReachable's    *)
(* subject.                                                                *)
IndexBlocksOnly == IndexOnly(discos)

(* A positive count in the superblock, which rd_create and rd_write take   *)
(* as their test for space, means that the scan of the bitmap finds a      *)
(* block, however often clear_entry_in_current_dir forgot to count.        *)
FreeBlocksCovered == Covered(discos)

Allocated(fs) == {n \in InodeNum : fs.inodes[n].type # ""}

(* The live entries of the allocated inodes, as <<inode, block, slot>>. *)
LiveEntries(fs) ==
  {e \in Allocated(fs) \X BlockIdx \X EntryIdx :
     LET b == BlockAt(fs, e[1], e[2])
     IN  b # NULL /\ fs.data_blocks[b].entries[e[3]].inode_num # 0}

EntryInode(fs, e) == fs.data_blocks[BlockAt(fs, e[1], e[2])].entries[e[3]].inode_num

(* Every directory entry names an allocated inode and no two entries name  *)
(* the same one, so rd_unlink never frees an inode that another entry      *)
(* still leads to, and get_free_inode_num never revives a name.            *)
EntryTargets ==
  /\ \A e \in LiveEntries(discos) : EntryInode(discos, e) \in Allocated(discos)
  /\ \A e, f \in LiveEntries(discos) :
       EntryInode(discos, e) = EntryInode(discos, f) => e = f

(* The superblock's count of free inodes is the number of inodes that      *)
(* get_free_inode_num would find, after any sequence of calls.             *)
FreeInodesExact ==
  discos.free_inodes = Cardinality(InodeNum \ Allocated(discos))

(* The size that rd_unlink takes as its test of emptiness and that         *)
(* get_next_entry takes as its starting point never falls below the live   *)
(* entries of the inode (and never wraps around below zero).               *)
SizeCoversEntries ==
  \A n \in Allocated(discos) :
    DIR_ENTRY_SIZE * Cardinality({e \in LiveEntries(discos) : e[1] = n})
      <= discos.inodes[n].size

(* rd_unlink's error (2): no call but RD_INIT removes a directory that     *)
(* still has an entry.                                                     *)
NonEmptyDirectoryKept ==
  [][\A n \in Allocated(discos) :
       \/ discos.inodes[n].type # "dir"
       \/ discos'.inodes[n].type = "dir"
       \/ discos' = FreshFileSys
       \/ \A e \in LiveEntries(discos) : e[1] # n]_discos

(* rd_create and rd_mkdir disturb one name at most, whatever blocks and    *)
(* inodes they attach and whether they succeed or fail half-way: every     *)
(* other name of every directory leads where it led before.                *)
CreateKeepsOthers ==
  [][\/ discos' = discos
     \/ discos'.free_inodes > discos.free_inodes
     \/ Cardinality({l \in Allocated(discos) \X Names :
                       Lookup(discos', l[1], l[2]) # Lookup(discos, l[1], l[2])}) <= 1]_discos

-----------------------------------------------------------------------------
(* What the documentation says of the code, and the code does not do.      *)

(* discos.c:792: rd_unlink is to "remove the filename with absolute        *)
(* pathname".  Every other name should still lead where it led.            *)
UnlinkKeepsOthers ==
  [][\A path \in Paths :
       rd_unlink(path) /\ ret' = 0 =>
         LET file == my_find_inode_number(discos, path)
         IN  \A n \in Allocated(discos) \ {file}, y \in Names :
               Lookup(discos, n, y) \in {file, Lookup(discos', n, y)}]_vars

(* discos.c:411: "On success, you should return 0".  A file that rd_create *)
(* reports as created can be found again.                                  *)
CreatedIsReachable ==
  [][\A path \in Paths, mode \in Modes :
       rd_create(path, "reg", mode) /\ ret' = 0
         => my_find_inode_number(discos', path) # NULL]_vars

=============================================================================
