-------------------------- MODULE DiscosNamesProofs --------------------------
(***************************************************************************)
(* Proofs about the namespace of Discos: which inodes are in use, how      *)
(* many, what entries there are and where they lead.                       *)
(*                                                                         *)
(* EntryTargets, FreeInodesExact, SizeCoversEntries and                    *)
(* NonEmptyDirectoryKept are not inductive, alone or together: rd_unlink   *)
(* frees an inode by the size that it finds in it, so an entry keeps its   *)
(* target only if the directory that counts the entry also counts no less  *)
(* than it holds. What is inductive (Named) is that some function par,     *)
(* from an inode to the directory whose size counts it, agrees with the    *)
(* disk: every size is exact in the inodes that par sends there, an entry  *)
(* that is not free leads to an inode that par sends to the entry's own    *)
(* directory, no directory has two entries for one inode, and an inode     *)
(* that is not in use is zero and nobody's. An inode may be counted and    *)
(* have no entry: clear_entry_in_current_dir gives a block back with other *)
(* entries still in it. NamesState adds that the superblock's count of     *)
(* free inodes is exact and that the root is a directory.                  *)
(*                                                                         *)
(* The proof follows the calls on one file system value: the search for an *)
(* entry keeps the entries, wherever it attaches blocks (Kept); rd_create  *)
(* enters one name; a pathname leads to an inode that can be searched, or  *)
(* nowhere; the directory that rd_unlink takes for the parent is the one   *)
(* that the pathname leads through; and rd_unlink takes one inode from     *)
(* par. Then the actions and the theorems.                                 *)
(*                                                                         *)
(* Two hypotheses are about the constants. SizesFit: the size of a         *)
(* directory of all files fits an unsigned int (16 * 1024 in the code);    *)
(* beyond it the size would wrap to zero and rd_unlink take the directory  *)
(* for an empty one. MemoryUnambiguous: the empty string is no name, and   *)
(* what parse_absolute_path reads beyond the last byte that it copied      *)
(* makes the parent's name no other name in use. Without it rd_unlink may  *)
(* clear the entry in a directory that is not the parent and free the      *)
(* inode all the same, so that an entry is left that leads to no file.     *)
(***************************************************************************)
EXTENDS DiscosProofs

-----------------------------------------------------------------------------
(* The blocks that an inode is searched in *)

(* Only the direct and the single indirect range of an inode lead to       *)
(* blocks: its double indirect block holds no pointer (IndexOnly).         *)
LEMMA BlockAtIs ==
  ASSUME NEW fs, Good(fs), NEW n \in InodeNum, NEW k \in BlockIdx
  PROVE  /\ k \in DirectIdx => BlockAt(fs, n, k) = fs.inodes[n].pointers[k]
         /\ k - INODE_NUM_DIRECT_PTR \in PtrIdx =>
              BlockAt(fs, n, k) = Index(fs, fs.inodes[n].single, k - INODE_NUM_DIRECT_PTR)
         /\ k \notin DirectIdx /\ k - INODE_NUM_DIRECT_PTR \notin PtrIdx =>
              BlockAt(fs, n, k) = NULL
<1> DEFINE s == k - INODE_NUM_DIRECT_PTR
           d == s - PTRS_PER_BLOCK
           double == fs.inodes[n].double
<1>0. /\ k \in Int /\ k >= 0 /\ INODE_NUM_DIRECT_PTR \in Nat /\ PTRS_PER_BLOCK \in Nat
      /\ s \in Int /\ d \in Int /\ d < PTRS_PER_BLOCK * PTRS_PER_BLOCK
  BY DiscosAssumption DEF BlockIdx
<1>1. /\ k \in DirectIdx <=> s < 0
      /\ s \in PtrIdx <=> s >= 0 /\ d < 0
  BY <1>0 DEF DirectIdx, PtrIdx
<1>2. BlockAt(fs, n, k) = IF s < 0 THEN fs.inodes[n].pointers[k]
                          ELSE IF d < 0 THEN Index(fs, fs.inodes[n].single, s)
                          ELSE Index(fs, Index(fs, double, d \div PTRS_PER_BLOCK),
                                     d % PTRS_PER_BLOCK)
  BY DEF BlockAt
<1>3. ASSUME s >= 0, d >= 0 PROVE BlockAt(fs, n, k) = NULL
  <2>1. d \div PTRS_PER_BLOCK \in PtrIdx
    <3>1. d \in 0 .. PTRS_PER_BLOCK * PTRS_PER_BLOCK - 1
      BY <1>0, <1>3
    <3> HIDE DEF d
    <3>2. QED
      BY <3>1, DivInRange, DiscosAssumption DEF PtrIdx
  <2>2. Index(fs, double, d \div PTRS_PER_BLOCK) = NULL
    <3>1. CASE double = NULL
      BY <3>1 DEF Index
    <3>2. CASE double # NULL
      <4>1. <<"double", n, 0>> \in UsedLoc(fs) /\ PtrAt(fs, <<"double", n, 0>>) = double
        BY <3>2, LocMembers, LocValues DEF UsedLoc
      <4>2. HoldsNoPointer(fs, double)
        BY <4>1 DEF Good, IndexOnly
      <4>3. QED
        BY <2>1, <3>2, <4>2 DEF Index, HoldsNoPointer
    <3>3. QED
      BY <3>1, <3>2
  <2>3. BlockAt(fs, n, k) = Index(fs, NULL, d % PTRS_PER_BLOCK)
    BY <1>0, <1>2, <1>3, <2>2
  <2>4. QED
    BY <2>3 DEF Index
<1> HIDE DEF s, d
<1>4. k \in DirectIdx => BlockAt(fs, n, k) = fs.inodes[n].pointers[k]
  BY <1>1, <1>2
<1>5. s \in PtrIdx => BlockAt(fs, n, k) = Index(fs, fs.inodes[n].single, s)
  BY <1>0, <1>1, <1>2
<1>6. k \notin DirectIdx /\ s \notin PtrIdx => BlockAt(fs, n, k) = NULL
  BY <1>0, <1>1, <1>3
<1>7. QED
  BY <1>4, <1>5, <1>6 DEF s

(* Where the pointer to the k-th block is stored.                          *)
BlockSpot(fs, n, k) ==
  IF k \in DirectIdx THEN <<"direct", n, k>>
                     ELSE <<"index", fs.inodes[n].single, k - INODE_NUM_DIRECT_PTR>>

(* A block of an inode is a marked block, and its pointer is stored there. *)
LEMMA BlockSpotIs ==
  ASSUME NEW fs, Good(fs), NEW n \in InodeNum, NEW k \in BlockIdx, BlockAt(fs, n, k) # NULL
  PROVE  /\ BlockSpot(fs, n, k) \in UsedLoc(fs)
         /\ PtrAt(fs, BlockSpot(fs, n, k)) = BlockAt(fs, n, k)
         /\ BlockAt(fs, n, k) \in fs.bitmap
         /\ BlockAt(fs, n, k) \in BlockNum
         /\ k \notin DirectIdx => fs.inodes[n].single \in BlockNum
                                  /\ k - INODE_NUM_DIRECT_PTR \in PtrIdx
<1> DEFINE l == BlockSpot(fs, n, k)
<1>0. fs \in FileSys
  BY DEF Good
<1>1. k \notin DirectIdx => fs.inodes[n].single \in BlockNum
                            /\ k - INODE_NUM_DIRECT_PTR \in PtrIdx
  <2> SUFFICES ASSUME k \notin DirectIdx
               PROVE  fs.inodes[n].single \in BlockNum /\ k - INODE_NUM_DIRECT_PTR \in PtrIdx
    OBVIOUS
  <2>1. k - INODE_NUM_DIRECT_PTR \in PtrIdx
    BY BlockAtIs
  <2>2. fs.inodes[n].single # NULL
    BY <2>1, BlockAtIs DEF Index
  <2>3. QED
    BY <1>0, <2>1, <2>2 DEF FileSys, Inode, BlockPtr
<1>2. l \in PtrLoc /\ PtrAt(fs, l) = BlockAt(fs, n, k)
  <2>1. CASE k \in DirectIdx
    <3>1. l = <<"direct", n, k>>
      BY <2>1 DEF BlockSpot
    <3>2. l \in PtrLoc
      BY <2>1, <3>1, LocMembers
    <3>3. PtrAt(fs, l) = fs.inodes[n].pointers[k]
      BY <3>1 DEF PtrAt
    <3>4. QED
      BY <2>1, <3>2, <3>3, BlockAtIs
  <2>2. CASE k \notin DirectIdx
    <3>1. l = <<"index", fs.inodes[n].single, k - INODE_NUM_DIRECT_PTR>>
      BY <2>2 DEF BlockSpot
    <3>2. fs.inodes[n].single # NULL
      BY <1>1, <2>2 DEF BlockNum, NULL
    <3>3. BlockAt(fs, n, k)
            = fs.data_blocks[fs.inodes[n].single].index_block[k - INODE_NUM_DIRECT_PTR]
      BY <1>1, <2>2, <3>2, BlockAtIs DEF Index
    <3>4. PtrAt(fs, l) = BlockAt(fs, n, k)
      BY <3>1, <3>3 DEF PtrAt
    <3>5. l \in PtrLoc
      BY <1>1, <2>2, <3>1, LocMembers
    <3>6. QED
      BY <3>4, <3>5
  <2>3. QED
    BY <2>1, <2>2
<1> HIDE DEF l
<1>3. l \in UsedLoc(fs)
  BY <1>2 DEF UsedLoc
<1>4. BlockAt(fs, n, k) \in fs.bitmap
  BY <1>2, <1>3 DEF Good, Owned
<1>5. BlockAt(fs, n, k) \in BlockNum
  BY <1>0, <1>4 DEF FileSys
<1>6. QED
  BY <1>1, <1>2, <1>3, <1>4, <1>5 DEF l

(* Two inodes do not share a block, and an inode does not have one twice.  *)
LEMMA BlockAtOwned ==
  ASSUME NEW fs, Good(fs), NEW n \in InodeNum, NEW k \in BlockIdx,
         NEW m \in InodeNum, NEW l \in BlockIdx,
         BlockAt(fs, n, k) # NULL, BlockAt(fs, m, l) = BlockAt(fs, n, k)
  PROVE  m = n /\ l = k
<1>1. BlockSpot(fs, m, l) = BlockSpot(fs, n, k)
  BY BlockSpotIs DEF Good, Owned
<1>2. CASE k \in DirectIdx
  BY <1>1, <1>2 DEF BlockSpot
<1>3. CASE k \notin DirectIdx
  <2>1. l \notin DirectIdx
    BY <1>1, <1>3 DEF BlockSpot
  <2>2. /\ fs.inodes[m].single = fs.inodes[n].single
        /\ l - INODE_NUM_DIRECT_PTR = k - INODE_NUM_DIRECT_PTR
    BY <1>1, <1>3, <2>1 DEF BlockSpot
  <2>3. fs.inodes[n].single \in BlockNum
    BY <1>3, BlockSpotIs
  <2>4. /\ <<"single", n, 0>> \in UsedLoc(fs) /\ <<"single", m, 0>> \in UsedLoc(fs)
        /\ PtrAt(fs, <<"single", n, 0>>) = PtrAt(fs, <<"single", m, 0>>)
    <3>1. /\ PtrAt(fs, <<"single", n, 0>>) = fs.inodes[n].single
          /\ PtrAt(fs, <<"single", m, 0>>) = fs.inodes[m].single
      BY DEF PtrAt
    <3>2. fs.inodes[n].single # NULL
      BY <2>3 DEF BlockNum, NULL
    <3>3. <<"single", n, 0>> \in PtrLoc /\ <<"single", m, 0>> \in PtrLoc
      BY LocMembers
    <3>4. QED
      BY <2>2, <3>1, <3>2, <3>3 DEF UsedLoc
  <2>5. <<"single", n, 0>> = <<"single", m, 0>>
    BY <2>4 DEF Good, Owned
  <2>6. k \in Int /\ l \in Int /\ INODE_NUM_DIRECT_PTR \in Int
    BY DiscosAssumption DEF BlockIdx
  <2>7. QED
    BY <2>2, <2>5, <2>6
<1>4. QED
  BY <1>2, <1>3

-----------------------------------------------------------------------------
(* What the search for an entry leaves as it was *)

(* The k-th block of inode n holds the entries that it held; where there   *)
(* was no block there may be a new one, empty.                             *)
Carried(fs, gs, n, k) ==
  LET b == BlockAt(fs, n, k)
      c == BlockAt(gs, n, k)
  IN  IF b = NULL
      THEN c = NULL \/ gs.data_blocks[c].entries = ZeroBlock.entries
      ELSE c = b /\ gs.data_blocks[c].entries = fs.data_blocks[b].entries

(* Only pointers of dir are new, and no entry is.                          *)
SameInodes(fs, gs, dir) ==
  /\ gs.free_inodes = fs.free_inodes
  /\ gs.inodes[dir].type = fs.inodes[dir].type
  /\ gs.inodes[dir].size = fs.inodes[dir].size
  /\ \A n \in InodeNum \ {dir} : gs.inodes[n] = fs.inodes[n]

(* From fs to gs nothing happened but that dir got blocks, all of them     *)
(* empty.                                                                  *)
Kept(fs, gs, dir) ==
  /\ SameInodes(fs, gs, dir)
  /\ \A n \in InodeNum, k \in BlockIdx : Carried(fs, gs, n, k)

(* A call that changes nothing keeps the entries ...                       *)
LEMMA KeptSelf ==
  ASSUME NEW fs, NEW dir
  PROVE  Kept(fs, fs, dir)
BY DEF Kept, SameInodes, Carried

(* ... and so do two steps, one after the other.                           *)
LEMMA KeptTwice ==
  ASSUME NEW fs, NEW gs, NEW hs, NEW dir, Kept(fs, gs, dir), Kept(gs, hs, dir)
  PROVE  Kept(fs, hs, dir)
<1>1. SameInodes(fs, hs, dir)
  BY DEF Kept, SameInodes
<1>2. ASSUME NEW n \in InodeNum, NEW k \in BlockIdx PROVE Carried(fs, hs, n, k)
  <2>1. Carried(fs, gs, n, k) /\ Carried(gs, hs, n, k)
    BY DEF Kept
  <2>2. QED
    BY <2>1 DEF Carried
<1>3. QED
  BY <1>1, <1>2 DEF Kept

(* allocate_data_block disturbs no entry of an inode: the block was        *)
(* nobody's.                                                               *)
LEMMA AllocKeeps ==
  ASSUME NEW fs, Good(fs), NEW b \in BlockNum \ fs.bitmap, fs.free_blocks > 0,
         NEW gs, gs = allocate_data_block(fs, b), NEW dir
  PROVE  /\ Kept(fs, gs, dir)
         /\ gs.inodes = fs.inodes
         /\ gs.data_blocks[b].entries = ZeroBlock.entries
<1>0. fs \in FileSys
  BY DEF Good
<1>1. gs.inodes = fs.inodes /\ gs.data_blocks = [fs.data_blocks EXCEPT ![b] = ZeroBlock]
  BY <1>0, AllocType
<1>2. gs.free_inodes = fs.free_inodes
  BY <1>0 DEF allocate_data_block, FileSys
<1>3. gs.data_blocks[b] = ZeroBlock /\ \A c \in BlockNum \ {b} : gs.data_blocks[c] = fs.data_blocks[c]
  BY <1>0, <1>1 DEF FileSys
<1>4. Good(gs) /\ \A l \in PtrLoc : PtrAt(gs, l) = PtrAt(fs, l)
  BY AllocGood, AllocPtr
<1>5. ASSUME NEW n \in InodeNum, NEW k \in BlockIdx PROVE Carried(fs, gs, n, k)
  <2> DEFINE s == fs.inodes[n].single
             j == k - INODE_NUM_DIRECT_PTR
  <2>1. BlockAt(gs, n, k) = BlockAt(fs, n, k)
    <3>1. CASE k \in DirectIdx
      BY <1>1, <1>4, <3>1, BlockAtIs
    <3>2. CASE j \in PtrIdx
      <4>1. /\ BlockAt(fs, n, k) = Index(fs, s, j)
            /\ BlockAt(gs, n, k) = Index(gs, s, j)
        BY <1>1, <1>4, <3>2, BlockAtIs
      <4>2. CASE s = NULL
        BY <4>1, <4>2 DEF Index
      <4>3. CASE s # NULL
        <5>1. s \in BlockNum
          BY <1>0, <4>3 DEF FileSys, Inode, BlockPtr
        <5>2. <<"index", s, j>> \in PtrLoc
          BY <3>2, <5>1, LocMembers
        <5> HIDE DEF s, j
        <5>3. /\ PtrAt(fs, <<"index", s, j>>) = fs.data_blocks[s].index_block[j]
              /\ PtrAt(gs, <<"index", s, j>>) = gs.data_blocks[s].index_block[j]
          BY DEF PtrAt
        <5>4. QED
          BY <1>4, <4>1, <4>3, <5>2, <5>3 DEF Index
      <4>4. QED
        BY <4>2, <4>3
    <3>3. CASE k \notin DirectIdx /\ j \notin PtrIdx
      BY <1>4, <3>3, BlockAtIs
    <3>4. QED
      BY <3>1, <3>2, <3>3
  <2>2. BlockAt(fs, n, k) # NULL => BlockAt(fs, n, k) \in BlockNum \ {b}
    BY BlockSpotIs
  <2>3. QED
    BY <1>3, <2>1, <2>2 DEF Carried
<1>6. SameInodes(fs, gs, dir)
  BY <1>1, <1>2 DEF SameInodes
<1>7. QED
  BY <1>1, <1>3, <1>5, <1>6 DEF Kept

(* Storing the pointer to a new, empty block disturbs no entry either.     *)
LEMMA LinkKeeps ==
  ASSUME NEW fs, Good(fs), NEW l0, NEW b, NEW gs, Good(gs),
         Linkable(fs, l0, b), Linked(fs, l0, b, gs),
         fs.data_blocks[b].entries = ZeroBlock.entries,
         \A c \in BlockNum : gs.data_blocks[c].entries = fs.data_blocks[c].entries,
         NEW dir, SameInodes(fs, gs, dir)
  PROVE  Kept(fs, gs, dir)
<1>0. fs \in FileSys /\ gs \in FileSys /\ b \in BlockNum
  BY DEF Good, FileSys, Linkable
<1> SUFFICES ASSUME NEW n \in InodeNum, NEW k \in BlockIdx PROVE Carried(fs, gs, n, k)
  BY DEF Kept
<1>1. ASSUME BlockAt(gs, n, k) = BlockAt(fs, n, k) PROVE Carried(fs, gs, n, k)
  <2>1. BlockAt(fs, n, k) # NULL => BlockAt(fs, n, k) \in BlockNum
    BY BlockSpotIs
  <2>2. QED
    BY <1>1, <2>1 DEF Carried
<1>2. ASSUME BlockAt(fs, n, k) = NULL, BlockAt(gs, n, k) = b PROVE Carried(fs, gs, n, k)
  BY <1>0, <1>2 DEF Carried
<1>3. CASE k \in DirectIdx
  <2> DEFINE l == <<"direct", n, k>>
  <2>1. l \in PtrLoc
    BY <1>3, LocMembers
  <2>2. PtrAt(fs, l) = fs.inodes[n].pointers[k] /\ PtrAt(gs, l) = gs.inodes[n].pointers[k]
    BY DEF PtrAt
  <2>3. BlockAt(fs, n, k) = PtrAt(fs, l) /\ BlockAt(gs, n, k) = PtrAt(gs, l)
    BY <1>3, <2>2, BlockAtIs
  <2> HIDE DEF l
  <2>4. QED
    BY <1>1, <1>2, <2>1, <2>3 DEF Linkable, Linked
<1>4. CASE k - INODE_NUM_DIRECT_PTR \in PtrIdx
  <2> DEFINE j == k - INODE_NUM_DIRECT_PTR
             s == fs.inodes[n].single
             t == gs.inodes[n].single
             p == <<"single", n, 0>>
  <2>1. /\ BlockAt(fs, n, k) = Index(fs, s, j)
        /\ BlockAt(gs, n, k) = Index(gs, t, j)
        /\ j \in PtrIdx
    BY <1>4, BlockAtIs
  <2>2. p \in PtrLoc /\ PtrAt(fs, p) = s /\ PtrAt(gs, p) = t
    BY LocMembers DEF PtrAt
  <2>3. s \in BlockPtr /\ t \in BlockPtr
    BY <1>0 DEF FileSys, Inode
  <2> HIDE DEF j, s, t
  <2>4. CASE p = l0
    <3>1. s = NULL /\ t = b
      BY <2>2, <2>4 DEF Linkable, Linked
    <3>2. <<"index", b, j>> \in PtrLoc \ {l0}
      BY <1>0, <2>1, <2>4, LocMembers
    <3>3. PtrAt(fs, <<"index", b, j>>) = NULL
      BY <1>0, <2>1, NoPointer DEF Linkable
    <3>4. PtrAt(gs, <<"index", b, j>>) = gs.data_blocks[b].index_block[j]
      BY DEF PtrAt
    <3>5. gs.data_blocks[b].index_block[j] = NULL
      BY <3>2, <3>3, <3>4 DEF Linked
    <3>6. BlockAt(fs, n, k) = NULL /\ BlockAt(gs, n, k) = NULL
      BY <2>1, <3>1, <3>5 DEF Index
    <3>7. QED
      BY <1>1, <3>6
  <2>5. CASE p # l0 /\ s = NULL
    <3>1. t = NULL
      BY <2>2, <2>5 DEF Linked
    <3>2. BlockAt(fs, n, k) = NULL /\ BlockAt(gs, n, k) = NULL
      BY <2>1, <2>5, <3>1 DEF Index
    <3>3. QED
      BY <1>1, <3>2
  <2>6. CASE p # l0 /\ s # NULL
    <3>1. t = s /\ s \in BlockNum
      BY <2>2, <2>3, <2>6 DEF Linked, BlockPtr
    <3>2. <<"index", s, j>> \in PtrLoc
      BY <2>1, <3>1, LocMembers
    <3>3. /\ PtrAt(fs, <<"index", s, j>>) = fs.data_blocks[s].index_block[j]
          /\ PtrAt(gs, <<"index", s, j>>) = gs.data_blocks[s].index_block[j]
      BY DEF PtrAt
    <3>4. /\ BlockAt(fs, n, k) = PtrAt(fs, <<"index", s, j>>)
          /\ BlockAt(gs, n, k) = PtrAt(gs, <<"index", s, j>>)
      BY <2>1, <2>6, <3>1, <3>3 DEF Index
    <3>5. QED
      BY <1>1, <1>2, <3>2, <3>4 DEF Linkable, Linked
  <2>7. QED
    BY <2>4, <2>5, <2>6
<1>5. CASE k \notin DirectIdx /\ k - INODE_NUM_DIRECT_PTR \notin PtrIdx
  BY <1>1, <1>5, BlockAtIs
<1>6. QED
  BY <1>3, <1>4, <1>5

-----------------------------------------------------------------------------
(* The search for an entry finds a free one that only dir is searched for  *)

(* No inode but dir is searched for entries in block b.                    *)
ReadBy(fs, b, dir) ==
  \A m \in InodeNum, k \in BlockIdx : BlockAt(fs, m, k) = b => m = dir

(* What a search in dir returns: nothing of dir or of another inode is     *)
(* disturbed, and the entry is free and not in a block of another inode.   *)
(* (It may be in no block of any inode: the index block above it was never *)
(* linked.)                                                                *)
Lands(r, dir) ==
  r.block # NULL => /\ r.fs.data_blocks[r.block].entries[r.slot].inode_num = 0
                    /\ ReadBy(r.fs, r.block, dir)

(* What a search from fs on must leave: the entries as they were, and the  *)
(* entry that it found, if it found one, in reach of dir alone.            *)
FoundKept(fs, dir, r) == Kept(fs, r.fs, dir) /\ Lands(r, dir)

(* A search that goes on where another one has stopped.                    *)
LEMMA FoundAfter ==
  ASSUME NEW fs, NEW gs, NEW dir, Kept(fs, gs, dir), NEW r, FoundKept(gs, dir, r)
  PROVE  FoundKept(fs, dir, r)
BY KeptTwice DEF FoundKept

(* A search that finds nothing must only keep the entries.                 *)
LEMMA NotFoundKept ==
  ASSUME NEW fs, NEW dir
  PROVE  FoundKept(fs, dir, NotFound(fs))
BY KeptSelf DEF FoundKept, Lands, NotFound

(* A block that was just attached is empty.                                *)
LEMMA FreshFound ==
  ASSUME NEW fs, NEW gs, NEW dir, Kept(fs, gs, dir), NEW b,
         gs.data_blocks[b].entries = ZeroBlock.entries, ReadBy(gs, b, dir)
  PROVE  FoundKept(fs, dir, Found(gs, b, 0))
<1>1. gs.data_blocks[b].entries[0].inode_num = 0
  BY SlotZero DEF ZeroBlock, ZeroEntry
<1>2. Lands(Found(gs, b, 0), dir)
  BY <1>1 DEF Lands, Found
<1>3. QED
  BY <1>2 DEF FoundKept, Found

(* get_next_dir_entry: the first free entry of a block that dir is         *)
(* searched in already.                                                    *)
LEMMA DirEntryKept ==
  ASSUME NEW fs, NEW b, NEW dir, ReadBy(fs, b, dir)
  PROVE  FoundKept(fs, dir, get_next_dir_entry(fs, b))
<1>1. CASE FreeSlots(fs, b) = {}
  BY <1>1, NotFoundKept DEF get_next_dir_entry
<1>2. CASE FreeSlots(fs, b) # {}
  <2>1. FreeSlots(fs, b) \subseteq Nat
    BY DEF FreeSlots, EntryIdx
  <2>2. Min(FreeSlots(fs, b)) \in FreeSlots(fs, b)
    BY <1>2, <2>1, MinExists
  <2>3. fs.data_blocks[b].entries[Min(FreeSlots(fs, b))].inode_num = 0
    BY <2>2 DEF FreeSlots
  <2> DEFINE r == Found(fs, b, Min(FreeSlots(fs, b)))
  <2>4. r.fs = fs /\ r.block = b /\ r.slot = Min(FreeSlots(fs, b))
    BY DEF Found
  <2>5. get_next_dir_entry(fs, b) = r
    BY <1>2 DEF get_next_dir_entry
  <2> HIDE DEF r
  <2>6. QED
    BY <2>3, <2>4, <2>5, KeptSelf DEF FoundKept, Lands
<1>3. QED
  BY <1>1, <1>2

(* Only a slot of dir's single indirect block leads to a block that is     *)
(* stored in such a slot.                                                  *)
LEMMA ReadThroughIndex ==
  ASSUME NEW fs, Good(fs), NEW index \in BlockNum, NEW seg \in PtrIdx, NEW dir,
         \A m \in InodeNum : fs.inodes[m].single = index => m = dir,
         NEW b, b # NULL, fs.data_blocks[index].index_block[seg] = b
  PROVE  ReadBy(fs, b, dir)
<1> SUFFICES ASSUME NEW m \in InodeNum, NEW k \in BlockIdx, BlockAt(fs, m, k) = b PROVE m = dir
  BY DEF ReadBy
<1> DEFINE l == <<"index", index, seg>>
<1>1. PtrAt(fs, l) = b
  BY DEF PtrAt
<1>2. l \in UsedLoc(fs)
  BY <1>1, LocMembers DEF UsedLoc
<1>3. BlockSpot(fs, m, k) = l
  <2> HIDE DEF l
  <2>1. BlockSpot(fs, m, k) \in UsedLoc(fs) /\ PtrAt(fs, BlockSpot(fs, m, k)) = b
    BY BlockSpotIs
  <2>2. QED
    BY <1>1, <1>2, <2>1 DEF Good, Owned
<1>4. fs.inodes[m].single = index
  BY <1>3 DEF BlockSpot
<1>5. QED
  BY <1>4

(* get_next_dir_entry_single: the block behind one slot of dir's single    *)
(* indirect block, or an empty one that is attached there.                 *)
LEMMA SingleKept ==
  ASSUME NEW fs, Good(fs), NEW index \in BlockNum, SingleIndex(fs, index),
         NEW seg \in PtrIdx, NEW dir,
         \A m \in InodeNum : fs.inodes[m].single = index => m = dir
  PROVE  FoundKept(fs, dir, get_next_dir_entry_single(fs, index, seg))
<1> DEFINE block == fs.data_blocks[index].index_block[seg]
           fresh == get_free_block_num_from_bitmap(fs)
           as    == allocate_data_block(fs, fresh)
           gs    == [as EXCEPT !.data_blocks[index].index_block[seg] = fresh]
           r     == get_next_dir_entry_single(fs, index, seg)
<1>0. fs \in FileSys
  BY DEF Good
<1>2. CASE block # NULL
  <2>1. ReadBy(fs, block, dir)
    BY <1>2, ReadThroughIndex
  <2>2. QED
    BY <1>2, <2>1, DirEntryKept DEF get_next_dir_entry_single
<1>3. CASE block = NULL /\ fresh = NULL
  BY <1>3, NotFoundKept DEF get_next_dir_entry_single
<1>4. CASE block = NULL /\ fresh # NULL
  <2>1. fresh \in BlockNum \ fs.bitmap /\ fs.free_blocks > 0
    BY <1>0, <1>4, FreeBlock
  <2>2. r = Found(gs, fresh, 0)
    BY <1>4 DEF get_next_dir_entry_single
  <2>3. /\ Good(as) /\ fresh \in as.bitmap /\ HoldsNoPointer(as, fresh)
        /\ \A l \in PtrLoc : PtrAt(as, l) # fresh
    BY <2>1, AllocGood
  <2>4. \A l \in PtrLoc : PtrAt(as, l) = PtrAt(fs, l)
    BY <2>1, AllocPtr
  <2>5. as \in FileSys /\ as.bitmap = fs.bitmap \cup {fresh}
    BY <1>0, <2>1, AllocType
  <2>12. /\ Kept(fs, as, dir) /\ as.inodes = fs.inodes
         /\ as.data_blocks[fresh].entries = ZeroBlock.entries
    BY <2>1, AllocKeeps
  <2>6. fresh \in BlockPtr /\ fresh # index
    BY <2>1 DEF BlockPtr, SingleIndex
  <2>0. gs = [as EXCEPT !.data_blocks[index].index_block[seg] = fresh]
    OBVIOUS
  <2> HIDE DEF fresh, as, gs
  <2>7. Linked(as, <<"index", index, seg>>, fresh, gs)
    BY <2>0, <2>5, <2>6, SetIndex
  <2>8. <<"index", index, seg>> \in PtrLoc /\ PtrAt(as, <<"index", index, seg>>) = NULL
    <3>1. <<"index", index, seg>> \in PtrLoc
      BY LocMembers
    <3>2. PtrAt(fs, <<"index", index, seg>>) = block
      BY DEF PtrAt
    <3>3. QED
      BY <1>4, <2>4, <3>1, <3>2
  <2>9. Linkable(as, <<"index", index, seg>>, fresh)
    <3>1. SingleIndex(as, index)
      BY <2>4, <2>5 DEF SingleIndex, UsedLoc
    <3>2. QED
      BY <2>3, <2>6, <2>8, <3>1 DEF Linkable
  <2>10. Good(gs)
    BY <2>3, <2>7, <2>9, LinkGood
  <2>13. /\ gs.inodes = as.inodes /\ gs.free_inodes = as.free_inodes
         /\ \A c \in BlockNum : gs.data_blocks[c].entries = as.data_blocks[c].entries
         /\ gs.data_blocks[index].index_block[seg] = fresh
    <3> DEFINE z == [as.data_blocks[index] EXCEPT !.index_block[seg] = fresh]
    <3>1. as.data_blocks[index] \in DataBlock
      BY <2>5 DEF FileSys
    <3>2. z.entries = as.data_blocks[index].entries /\ z.index_block[seg] = fresh
      BY <3>1 DEF DataBlock
    <3>3. gs = [as EXCEPT !.data_blocks[index] = z]
      BY <2>0
    <3> HIDE DEF z
    <3>4. /\ gs.inodes = as.inodes /\ gs.free_inodes = as.free_inodes
          /\ gs.data_blocks = [as.data_blocks EXCEPT ![index] = z]
      BY <2>5, <3>3 DEF FileSys
    <3>5. as.data_blocks \in [BlockNum -> DataBlock]
      BY <2>5 DEF FileSys
    <3>6. QED
      BY <3>2, <3>4, <3>5
  <2>14. Kept(as, gs, dir)
    <3>1. SameInodes(as, gs, dir)
      BY <2>13 DEF SameInodes
    <3>2. QED
      BY <2>3, <2>7, <2>9, <2>10, <2>12, <2>13, <3>1, LinkKeeps
  <2>15. ReadBy(gs, fresh, dir)
    <3>1. \A m \in InodeNum : gs.inodes[m].single = index => m = dir
      BY <2>12, <2>13
    <3>2. fresh # NULL
      BY <1>4 DEF fresh
    <3>3. QED
      BY <2>10, <2>13, <3>1, <3>2, ReadThroughIndex
  <2>16. Kept(fs, gs, dir)
    BY <2>12, <2>14, KeptTwice
  <2>17. gs.data_blocks[fresh].entries = ZeroBlock.entries
    BY <2>1, <2>12, <2>13
  <2>18. QED
    BY <2>2, <2>15, <2>16, <2>17, FreshFound
<1>5. QED
  BY <1>2, <1>3, <1>4

(* get_next_dir_entry_double, below a block that holds no pointer: what is *)
(* attached there is in nobody's reach.                                    *)
LEMMA DoubleKept ==
  ASSUME NEW fs, Good(fs), NEW index \in BlockNum, HoldsNoPointer(fs, index),
         NEW seg \in 0 .. PTRS_PER_BLOCK * PTRS_PER_BLOCK - 1, NEW dir
  PROVE  FoundKept(fs, dir, get_next_dir_entry_double(fs, index, seg))
<1> DEFINE block == fs.data_blocks[index].index_block[seg \div PTRS_PER_BLOCK]
           fresh == get_free_block_num_from_bitmap(fs)
           as    == allocate_data_block(fs, fresh)
<1>0. fs \in FileSys
  BY DEF Good
<1>1. seg \div PTRS_PER_BLOCK \in PtrIdx /\ seg % PTRS_PER_BLOCK \in PtrIdx
  BY DivInRange, DiscosAssumption DEF PtrIdx
<1>2. block = NULL
  BY <1>1 DEF HoldsNoPointer
<1>3. CASE fresh = NULL
  BY <1>2, <1>3, NotFoundKept DEF get_next_dir_entry_double
<1>4. CASE fresh # NULL
  <2>1. fresh \in BlockNum \ fs.bitmap /\ fs.free_blocks > 0
    BY <1>0, <1>4, FreeBlock
  <2>2. get_next_dir_entry_double(fs, index, seg)
          = get_next_dir_entry_single(as, fresh, seg % PTRS_PER_BLOCK)
    BY <1>2, <1>4 DEF get_next_dir_entry_double
  <2>3. /\ Good(as) /\ fresh \in as.bitmap
        /\ \A l \in PtrLoc : PtrAt(as, l) # fresh
    BY <2>1, AllocGood
  <2>4. SingleIndex(as, fresh)
    BY <2>3 DEF SingleIndex, UsedLoc
  <2>5. Kept(fs, as, dir)
    BY <2>1, AllocKeeps
  <2> HIDE DEF fresh, as
  <2>6. \A m \in InodeNum : as.inodes[m].single # fresh
    <3> SUFFICES ASSUME NEW m \in InodeNum PROVE as.inodes[m].single # fresh
      OBVIOUS
    <3>1. PtrAt(as, <<"single", m, 0>>) = as.inodes[m].single
      BY DEF PtrAt
    <3>2. QED
      BY <2>3, <3>1, LocMembers
  <2>7. FoundKept(as, dir, get_next_dir_entry_single(as, fresh, seg % PTRS_PER_BLOCK))
    BY <1>1, <2>1, <2>3, <2>4, <2>6, SingleKept
  <2>8. QED
    BY <2>2, <2>5, <2>7, FoundAfter
<1>5. QED
  BY <1>3, <1>4

(* get_next_entry among the direct pointers of dir ...                     *)
LEMMA InDirectKept ==
  ASSUME NEW fs, Good(fs), NEW n \in InodeNum, NEW i \in DirectIdx
  PROVE  FoundKept(fs, n, NextInDirect(fs, n, i))
<1> DEFINE block == fs.inodes[n].pointers[i]
           fresh == get_free_block_num_from_bitmap(fs)
           as    == allocate_data_block(fs, fresh)
           gs    == [as EXCEPT !.inodes[n].pointers[i] = fresh]
           l0    == <<"direct", n, i>>
<1>0. fs \in FileSys
  BY DEF Good
<1>1. i \in BlockIdx /\ BlockAt(fs, n, i) = block
  <2>1. i \in BlockIdx
    BY DiscosAssumption DEF DirectIdx, BlockIdx
  <2>2. QED
    BY <2>1, BlockAtIs
<1>2. CASE block # NULL
  <2>1. ReadBy(fs, block, n)
    BY <1>1, <1>2, BlockAtOwned DEF ReadBy
  <2>2. FoundKept(fs, n, get_next_dir_entry(fs, block))
    BY <2>1, DirEntryKept
  <2>3. QED
    BY <1>2, <2>2 DEF NextInDirect
<1>3. CASE block = NULL /\ fresh = NULL
  BY <1>3, NotFoundKept DEF NextInDirect
<1>4. CASE block = NULL /\ fresh # NULL
  <2>1. fresh \in BlockNum \ fs.bitmap /\ fs.free_blocks > 0
    BY <1>0, <1>4, FreeBlock
  <2>2. NextInDirect(fs, n, i) = Found(gs, fresh, 0)
    BY <1>4 DEF NextInDirect
  <2>3. /\ Good(as) /\ fresh \in as.bitmap /\ HoldsNoPointer(as, fresh)
        /\ \A l \in PtrLoc : PtrAt(as, l) # fresh
    BY <2>1, AllocGood
  <2>4. \A l \in PtrLoc : PtrAt(as, l) = PtrAt(fs, l)
    BY <2>1, AllocPtr
  <2>5. as \in FileSys /\ fresh \in BlockPtr
    BY <1>0, <2>1, AllocType DEF BlockPtr
  <2>12. /\ Kept(fs, as, n) /\ as.data_blocks[fresh].entries = ZeroBlock.entries
    BY <2>1, AllocKeeps
  <2>0. gs = [as EXCEPT !.inodes[n].pointers[i] = fresh] /\ fresh # NULL
    BY <1>4
  <2> HIDE DEF fresh, as, gs
  <2>6. Linked(as, l0, fresh, gs)
    BY <2>0, <2>5, SetDirect
  <2>7. l0 \in PtrLoc /\ PtrAt(as, l0) = NULL /\ l0[1] # "index"
    <3>1. l0 \in PtrLoc /\ l0[1] # "index"
      BY LocMembers
    <3>2. PtrAt(fs, l0) = block
      BY DEF PtrAt
    <3>3. QED
      BY <1>4, <2>4, <3>1, <3>2
  <2>13. /\ gs.data_blocks = as.data_blocks /\ SameInodes(as, gs, n)
         /\ gs.inodes[n].pointers[i] = fresh
    <3> DEFINE z == [as.inodes[n] EXCEPT !.pointers[i] = fresh]
    <3>1. as.inodes[n] \in Inode
      BY <2>5 DEF FileSys
    <3>2. /\ z.type = as.inodes[n].type /\ z.size = as.inodes[n].size
          /\ z.pointers[i] = fresh
      BY <3>1 DEF Inode
    <3>3. gs = [as EXCEPT !.inodes[n] = z]
      BY <2>0
    <3> HIDE DEF z
    <3>4. /\ gs.data_blocks = as.data_blocks /\ gs.free_inodes = as.free_inodes
          /\ gs.inodes = [as.inodes EXCEPT ![n] = z]
      BY <2>5, <3>3 DEF FileSys
    <3>5. as.inodes \in [InodeNum -> Inode]
      BY <2>5 DEF FileSys
    <3>6. QED
      BY <3>2, <3>4, <3>5 DEF SameInodes
  <2>14. BlockSpot(gs, n, i) = l0
    BY DEF BlockSpot
  <2> HIDE DEF l0
  <2>8. Good(gs) /\ Kept(as, gs, n)
    <3>1. Linkable(as, l0, fresh)
      BY <2>3, <2>7 DEF Linkable
    <3>2. Good(gs)
      BY <2>3, <2>6, <3>1, LinkGood
    <3>3. QED
      BY <2>3, <2>6, <2>12, <2>13, <3>1, <3>2, LinkKeeps
  <2>15. BlockAt(gs, n, i) = fresh
    BY <1>1, <2>8, <2>13, BlockAtIs
  <2>16. ReadBy(gs, fresh, n)
    BY <1>1, <2>0, <2>8, <2>15, BlockAtOwned DEF ReadBy
  <2>17. Kept(fs, gs, n)
    BY <2>8, <2>12, KeptTwice
  <2>18. gs.data_blocks[fresh].entries = ZeroBlock.entries
    BY <2>12, <2>13
  <2>9. QED
    BY <2>2, <2>16, <2>17, <2>18, FreshFound
<1>5. QED
  BY <1>2, <1>3, <1>4

(* ... then below its single indirect block, which may be new ...          *)
LEMMA InSingleKept ==
  ASSUME NEW fs, Good(fs), NEW n \in InodeNum, NEW seg \in PtrIdx
  PROVE  FoundKept(fs, n, NextInSingle(fs, n, seg))
<1> DEFINE index == fs.inodes[n].single
           fresh == get_free_block_num_from_bitmap(fs)
           as    == allocate_data_block(fs, fresh)
           gs    == [as EXCEPT !.inodes[n].single = fresh]
           l0    == <<"single", n, 0>>
<1>0. fs \in FileSys
  BY DEF Good
<1>1. l0 \in PtrLoc /\ l0[1] = "single" /\ PtrAt(fs, l0) = index
  BY LocMembers DEF PtrAt
<1>6. ASSUME NEW hs, Good(hs), NEW b \in BlockNum, hs.inodes[n].single = b,
             NEW m \in InodeNum, hs.inodes[m].single = b
      PROVE  m = n
  <2>1. PtrAt(hs, <<"single", m, 0>>) = b /\ PtrAt(hs, <<"single", n, 0>>) = b
    BY <1>6 DEF PtrAt
  <2>2. <<"single", m, 0>> \in UsedLoc(hs) /\ <<"single", n, 0>> \in UsedLoc(hs)
    <3>1. b # NULL
      BY DEF BlockNum, NULL
    <3>2. <<"single", m, 0>> \in PtrLoc /\ <<"single", n, 0>> \in PtrLoc
      BY LocMembers
    <3>3. QED
      BY <2>1, <3>1, <3>2 DEF UsedLoc
  <2>3. <<"single", m, 0>> = <<"single", n, 0>>
    BY <1>6, <2>1, <2>2 DEF Good, Owned
  <2>4. QED
    BY <2>3
<1>2. CASE index # NULL
  <2>1. index \in BlockNum
    BY <1>0, <1>2 DEF BlockPtr, FileSys, Inode
  <2>2. SingleIndex(fs, index)
    <3> HIDE DEF l0, index
    <3>1. l0 \in UsedLoc(fs)
      BY <1>1, <1>2 DEF UsedLoc
    <3>2. QED
      BY <1>1, <3>1 DEF SingleIndex, Good, Owned
  <2>3. FoundKept(fs, n, get_next_dir_entry_single(fs, index, seg))
    BY <1>6, <2>1, <2>2, SingleKept
  <2>4. QED
    BY <1>2, <2>3 DEF NextInSingle
<1>3. CASE index = NULL /\ fresh = NULL
  BY <1>3, NotFoundKept DEF NextInSingle
<1>4. CASE index = NULL /\ fresh # NULL
  <2>1. fresh \in BlockNum \ fs.bitmap /\ fs.free_blocks > 0
    BY <1>0, <1>4, FreeBlock
  <2>2. NextInSingle(fs, n, seg) = get_next_dir_entry_single(gs, fresh, seg)
    BY <1>4 DEF NextInSingle
  <2>3. /\ Good(as) /\ fresh \in as.bitmap /\ HoldsNoPointer(as, fresh)
        /\ \A l \in PtrLoc : PtrAt(as, l) # fresh
    BY <2>1, AllocGood
  <2>4. \A l \in PtrLoc : PtrAt(as, l) = PtrAt(fs, l)
    BY <2>1, AllocPtr
  <2>5. as \in FileSys /\ fresh \in BlockPtr
    BY <1>0, <2>1, AllocType DEF BlockPtr
  <2>12. /\ Kept(fs, as, n) /\ as.data_blocks[fresh].entries = ZeroBlock.entries
    BY <2>1, AllocKeeps
  <2>0. gs = [as EXCEPT !.inodes[n].single = fresh]
    OBVIOUS
  <2> HIDE DEF fresh, as, gs
  <2>6. Linked(as, l0, fresh, gs)
    BY <2>0, <2>5, SetSingle
  <2>7. PtrAt(as, l0) = NULL
    BY <1>1, <1>4, <2>4
  <2>13. /\ gs.data_blocks = as.data_blocks /\ SameInodes(as, gs, n)
         /\ gs.inodes[n].single = fresh
    <3> DEFINE z == [as.inodes[n] EXCEPT !.single = fresh]
    <3>1. as.inodes[n] \in Inode
      BY <2>5 DEF FileSys
    <3>2. /\ z.type = as.inodes[n].type /\ z.size = as.inodes[n].size
          /\ z.single = fresh
      BY <3>1 DEF Inode
    <3>3. gs = [as EXCEPT !.inodes[n] = z]
      BY <2>0
    <3> HIDE DEF z
    <3>4. /\ gs.data_blocks = as.data_blocks /\ gs.free_inodes = as.free_inodes
          /\ gs.inodes = [as.inodes EXCEPT ![n] = z]
      BY <2>5, <3>3 DEF FileSys
    <3>5. as.inodes \in [InodeNum -> Inode]
      BY <2>5 DEF FileSys
    <3>6. QED
      BY <3>2, <3>4, <3>5 DEF SameInodes
  <2> HIDE DEF l0
  <2>14. Linkable(as, l0, fresh)
    BY <1>1, <2>3, <2>7 DEF Linkable
  <2>8. Good(gs) /\ \A l \in PtrLoc : PtrAt(gs, l) = fresh => l = l0
    BY <2>3, <2>6, <2>14, LinkGood
  <2>9. SingleIndex(gs, fresh)
    BY <1>1, <2>3, <2>6, <2>8 DEF SingleIndex, UsedLoc, Linked
  <2>15. Kept(as, gs, n)
    BY <2>3, <2>6, <2>8, <2>12, <2>13, <2>14, LinkKeeps
  <2>16. \A m \in InodeNum : gs.inodes[m].single = fresh => m = n
    BY <1>6, <2>1, <2>8, <2>13
  <2>17. FoundKept(gs, n, get_next_dir_entry_single(gs, fresh, seg))
    BY <2>1, <2>8, <2>9, <2>16, SingleKept
  <2>18. Kept(fs, gs, n)
    BY <2>12, <2>15, KeptTwice
  <2>10. QED
    BY <2>2, <2>17, <2>18, FoundAfter
<1>5. QED
  BY <1>2, <1>3, <1>4

(* ... and then below its double indirect block.                           *)
LEMMA InDoubleKept ==
  ASSUME NEW fs, Good(fs), NEW n \in InodeNum,
         NEW seg \in 0 .. PTRS_PER_BLOCK * PTRS_PER_BLOCK - 1
  PROVE  FoundKept(fs, n, NextInDouble(fs, n, seg))
<1> DEFINE index == fs.inodes[n].double
           fresh == get_free_block_num_from_bitmap(fs)
           as    == allocate_data_block(fs, fresh)
           gs    == [as EXCEPT !.inodes[n].double = fresh]
           l0    == <<"double", n, 0>>
<1>0. fs \in FileSys
  BY DEF Good
<1>1. l0 \in PtrLoc /\ l0[1] = "double" /\ PtrAt(fs, l0) = index
  BY LocMembers DEF PtrAt
<1>2. CASE index # NULL
  <2>1. index \in BlockNum
    BY <1>0, <1>2 DEF BlockPtr, FileSys, Inode
  <2> HIDE DEF l0
  <2>2. HoldsNoPointer(fs, index)
    <3>1. l0 \in UsedLoc(fs) /\ l0[1] # "single"
      BY <1>1, <1>2 DEF UsedLoc
    <3>2. QED
      BY <1>1, <3>1 DEF Good, IndexOnly
  <2>3. FoundKept(fs, n, get_next_dir_entry_double(fs, index, seg))
    BY <2>1, <2>2, DoubleKept
  <2>4. QED
    BY <1>2, <2>3 DEF NextInDouble
<1>3. CASE index = NULL /\ fresh = NULL
  BY <1>3, NotFoundKept DEF NextInDouble
<1>4. CASE index = NULL /\ fresh # NULL
  <2>1. fresh \in BlockNum \ fs.bitmap /\ fs.free_blocks > 0
    BY <1>0, <1>4, FreeBlock
  <2>2. NextInDouble(fs, n, seg) = get_next_dir_entry_double(gs, fresh, seg)
    BY <1>4 DEF NextInDouble
  <2>3. /\ Good(as) /\ fresh \in as.bitmap /\ HoldsNoPointer(as, fresh)
        /\ \A l \in PtrLoc : PtrAt(as, l) # fresh
    BY <2>1, AllocGood
  <2>4. \A l \in PtrLoc : PtrAt(as, l) = PtrAt(fs, l)
    BY <2>1, AllocPtr
  <2>5. as \in FileSys /\ fresh \in BlockPtr
    BY <1>0, <2>1, AllocType DEF BlockPtr
  <2>12. /\ Kept(fs, as, n) /\ as.data_blocks[fresh].entries = ZeroBlock.entries
    BY <2>1, AllocKeeps
  <2>0. gs = [as EXCEPT !.inodes[n].double = fresh]
    OBVIOUS
  <2> HIDE DEF fresh, as, gs
  <2>6. Linked(as, l0, fresh, gs)
    BY <2>0, <2>5, SetDouble
  <2>7. PtrAt(as, l0) = NULL
    BY <1>1, <1>4, <2>4
  <2>13. gs.data_blocks = as.data_blocks /\ SameInodes(as, gs, n)
    <3> DEFINE z == [as.inodes[n] EXCEPT !.double = fresh]
    <3>1. as.inodes[n] \in Inode
      BY <2>5 DEF FileSys
    <3>2. z.type = as.inodes[n].type /\ z.size = as.inodes[n].size
      BY <3>1 DEF Inode
    <3>3. gs = [as EXCEPT !.inodes[n] = z]
      BY <2>0
    <3> HIDE DEF z
    <3>4. /\ gs.data_blocks = as.data_blocks /\ gs.free_inodes = as.free_inodes
          /\ gs.inodes = [as.inodes EXCEPT ![n] = z]
      BY <2>5, <3>3 DEF FileSys
    <3>5. as.inodes \in [InodeNum -> Inode]
      BY <2>5 DEF FileSys
    <3>6. QED
      BY <3>2, <3>4, <3>5 DEF SameInodes
  <2> HIDE DEF l0
  <2>14. Linkable(as, l0, fresh)
    BY <1>1, <2>3, <2>7 DEF Linkable
  <2>8. Good(gs) /\ HoldsNoPointer(gs, fresh)
    BY <2>3, <2>6, <2>14, LinkGood
  <2>15. Kept(as, gs, n)
    BY <2>3, <2>6, <2>8, <2>12, <2>13, <2>14, LinkKeeps
  <2>16. Kept(fs, gs, n)
    BY <2>12, <2>15, KeptTwice
  <2>17. FoundKept(gs, n, get_next_dir_entry_double(gs, fresh, seg))
    BY <2>1, <2>8, DoubleKept
  <2>9. QED
    BY <2>2, <2>16, <2>17, FoundAfter
<1>5. QED
  BY <1>2, <1>3, <1>4

(* get_next_entry disturbs nothing, however many blocks it attaches.       *)
LEMMA EntryKept ==
  ASSUME NEW fs, Good(fs), NEW n \in InodeNum
  PROVE  FoundKept(fs, n, get_next_entry(fs, n))
<1> DEFINE seg    == fs.inodes[n].size \div BLOCK_SIZE
           lo     == INODE_NUM_DIRECT_PTR
           hi     == lo + PTRS_PER_BLOCK
           top    == hi + PTRS_PER_BLOCK * PTRS_PER_BLOCK
           direct == {i \in DirectIdx : /\ i >= seg
                                        /\ \/ fs.inodes[n].pointers[i] = NULL
                                           \/ FreeSlots(fs, fs.inodes[n].pointers[i]) # {}}
           single == NextInSingle(fs, n, seg - lo)
<1>1. CASE direct # {}
  <2>1. direct \subseteq DirectIdx /\ DirectIdx \subseteq Nat
    BY DEF DirectIdx
  <2>2. Min(direct) \in DirectIdx
    BY <1>1, <2>1, MinExists
  <2>3. get_next_entry(fs, n) = NextInDirect(fs, n, Min(direct))
    BY <1>1 DEF get_next_entry
  <2>4. QED
    BY <2>2, <2>3, InDirectKept
<1>2. CASE direct = {} /\ seg \in lo .. hi - 1
  <2>1. seg - lo \in PtrIdx
    BY <1>2, DiscosAssumption DEF PtrIdx
  <2>2. Searched(single) /\ FoundKept(fs, n, single)
    BY <2>1, NextInSingleGood, InSingleKept
  <2>3. 0 \in 0 .. PTRS_PER_BLOCK * PTRS_PER_BLOCK - 1
    BY DiscosAssumption
  <2>4. Good(single.fs) /\ Kept(fs, single.fs, n)
    BY <2>2 DEF Searched, FoundKept
  <2>5. get_next_entry(fs, n) \in {single, NextInDouble(single.fs, n, 0)}
    BY <1>2 DEF get_next_entry
  <2> HIDE DEF single
  <2>6. FoundKept(fs, n, NextInDouble(single.fs, n, 0))
    BY <2>3, <2>4, InDoubleKept, FoundAfter
  <2>7. QED
    BY <2>2, <2>5, <2>6
<1>3. CASE direct = {} /\ seg \notin lo .. hi - 1 /\ seg \in hi .. top - 1
  <2>1. seg - hi \in 0 .. PTRS_PER_BLOCK * PTRS_PER_BLOCK - 1
    BY <1>3, DiscosAssumption
  <2>2. get_next_entry(fs, n) = NextInDouble(fs, n, seg - hi)
    BY <1>3 DEF get_next_entry
  <2>3. QED
    BY <2>1, <2>2, InDoubleKept
<1>4. CASE direct = {} /\ seg \notin lo .. hi - 1 /\ seg \notin hi .. top - 1
  <2>1. get_next_entry(fs, n) = NotFound(fs)
    BY <1>4 DEF get_next_entry
  <2>2. QED
    BY <2>1, NotFoundKept
<1>5. QED
  BY <1>1, <1>2, <1>3, <1>4

-----------------------------------------------------------------------------
(* The invariant of the namespace *)

(* The memory that parse_absolute_path copies into does not turn a name    *)
(* into another one that is in use, and the empty string is not a name.    *)
MemoryUnambiguous ==
  /\ NoName \notin Names
  /\ \A r \in Residue : r[2] \notin Names \cup {NoName}

(* An unsigned int can hold the size of a directory of all files.          *)
SizesFit == DIR_ENTRY_SIZE * MAX_NUM_FILE <= UINT_RANGE

(* The j-th entry in the k-th block of inode n.                            *)
EntryAt(fs, n, k, j) == fs.data_blocks[BlockAt(fs, n, k)].entries[j]

(* That entry leads to an inode.                                           *)
HasEntry(fs, n, k, j) == BlockAt(fs, n, k) # NULL /\ EntryAt(fs, n, k, j).inode_num # 0

(* par: the directory whose size counts an inode, if one does.  It need    *)
(* not have an entry for it any more (clear_entry_in_current_dir may have  *)
(* cleared two entries of one name, or given back a block with another     *)
(* entry in it).                                                           *)
Forest(par) ==
  /\ par \in [InodeNum -> InodeNum \cup {NULL}]
  /\ par[0] = NULL
  /\ \A n \in InodeNum : par[n] # n

(* The inodes that the size of n counts.                                   *)
Children(par, n) == {m \in InodeNum : par[m] = n}

(* Free inodes are zero and nobody's.                                      *)
FreeBlank(fs, par) ==
  \A n \in InodeNum \ {0} :
    fs.inodes[n].type = "" => fs.inodes[n] = ZeroInode /\ par[n] = NULL

(* The size of an inode counts its children.                               *)
SizeCounts(fs, par) ==
  \A n \in InodeNum : fs.inodes[n].size = DIR_ENTRY_SIZE * Cardinality(Children(par, n))

(* An entry that is free has no name, and one that is not leads to a child *)
(* of its inode.                                                           *)
EntriesLead(fs, par) ==
  \A n \in InodeNum, k \in BlockIdx, j \in EntryIdx :
    BlockAt(fs, n, k) # NULL =>
      LET e == EntryAt(fs, n, k, j)
      IN  /\ e.inode_num = 0 => e.name = NoName
          /\ e.inode_num # 0 => par[e.inode_num] = n

(* No inode has two entries for another one.                               *)
EntriesOnce(fs) ==
  \A n \in InodeNum, k, l \in BlockIdx, j, i \in EntryIdx :
    /\ HasEntry(fs, n, k, j) /\ HasEntry(fs, n, l, i)
    /\ EntryAt(fs, n, k, j).inode_num = EntryAt(fs, n, l, i).inode_num
    => k = l /\ j = i

(* The namespace of fs is the one that par describes.                      *)
Named(fs, par) ==
  /\ Forest(par)
  /\ FreeBlank(fs, par)
  /\ SizeCounts(fs, par)
  /\ EntriesLead(fs, par)
  /\ EntriesOnce(fs)

(* The superblock's count of free inodes is right.                         *)
Counted(fs) == fs.free_inodes = Cardinality(InodeNum \ Allocated(fs))

(* Directories that exist: the root need not, on a disk not yet ready.     *)
IsParent(fs, dir) == dir \in InodeNum /\ (dir = 0 \/ fs.inodes[dir].type # "")

(* The numbers that inodes have.                                           *)
LEMMA InodeFacts ==
  /\ 0 \in InodeNum
  /\ IsFiniteSet(InodeNum) /\ Cardinality(InodeNum) = MAX_NUM_FILE
  /\ NULL \notin InodeNum
  /\ \A n \in InodeNum : n \in Nat
<1>1. IsFiniteSet(InodeNum)
  BY FS_Interval, DiscosAssumption DEF InodeNum
<1>2. Cardinality(InodeNum) = MAX_NUM_FILE
  BY FS_Interval, DiscosAssumption DEF InodeNum
<1>3. QED
  BY <1>1, <1>2, DiscosAssumption DEF InodeNum, NULL

(* Any set of inodes can be counted.                                       *)
LEMMA InodesFinite ==
  ASSUME NEW S, S \subseteq InodeNum
  PROVE  IsFiniteSet(S) /\ Cardinality(S) \in Nat /\ Cardinality(S) <= MAX_NUM_FILE
<1>1. IsFiniteSet(InodeNum) /\ Cardinality(InodeNum) = MAX_NUM_FILE
  BY InodeFacts
<1>2. IsFiniteSet(S) /\ Cardinality(S) <= Cardinality(InodeNum)
  BY <1>1, FS_Subset
<1>3. QED
  BY <1>1, <1>2, FS_CardinalityType

(* The search for an entry keeps the invariant.                            *)
LEMMA KeptEntries ==
  ASSUME NEW fs, NEW gs, NEW dir, Kept(fs, gs, dir),
         NEW n \in InodeNum, NEW k \in BlockIdx, NEW j \in EntryIdx,
         BlockAt(gs, n, k) # NULL
  PROVE  \/ EntryAt(gs, n, k, j) = ZeroEntry
         \/ BlockAt(fs, n, k) # NULL /\ EntryAt(gs, n, k, j) = EntryAt(fs, n, k, j)
<1>1. Carried(fs, gs, n, k)
  BY DEF Kept
<1>2. ZeroBlock.entries[j] = ZeroEntry
  BY DEF ZeroBlock
<1>3. QED
  BY <1>1, <1>2 DEF Carried, EntryAt

(* A step that keeps the entries keeps the namespace, with the same par    *)
(* ...                                                                     *)
LEMMA KeptNamed ==
  ASSUME NEW fs, NEW gs, NEW dir, IsParent(fs, dir), Kept(fs, gs, dir), NEW par, Named(fs, par)
  PROVE  Named(gs, par) /\ IsParent(gs, dir)
<1>0. /\ gs.inodes[dir].type = fs.inodes[dir].type
      /\ gs.inodes[dir].size = fs.inodes[dir].size
      /\ \A n \in InodeNum \ {dir} : gs.inodes[n] = fs.inodes[n]
      /\ dir \in InodeNum
  BY DEF Kept, SameInodes, IsParent
<1>1. IsParent(gs, dir)
  BY <1>0 DEF IsParent
<1>2. FreeBlank(gs, par)
  BY <1>0, <1>1 DEF Named, FreeBlank, IsParent
<1>3. SizeCounts(gs, par)
  <2>1. \A n \in InodeNum : gs.inodes[n].size = fs.inodes[n].size
    BY <1>0
  <2>2. QED
    BY <2>1 DEF Named, SizeCounts
<1>4. ZeroEntry.inode_num = 0 /\ ZeroEntry.name = NoName
  BY DEF ZeroEntry
<1>5. EntriesLead(gs, par)
  <2> SUFFICES ASSUME NEW n \in InodeNum, NEW k \in BlockIdx, NEW j \in EntryIdx,
                      BlockAt(gs, n, k) # NULL,
                      NEW e, e = EntryAt(gs, n, k, j)
               PROVE  /\ e.inode_num = 0 => e.name = NoName
                      /\ e.inode_num # 0 => par[e.inode_num] = n
    BY DEF EntriesLead
  <2>1. e = ZeroEntry \/ (BlockAt(fs, n, k) # NULL /\ e = EntryAt(fs, n, k, j))
    BY KeptEntries
  <2>2. QED
    BY <1>4, <2>1 DEF Named, EntriesLead
<1>6. EntriesOnce(gs)
  <2>1. ASSUME NEW n \in InodeNum, NEW k \in BlockIdx, NEW j \in EntryIdx, HasEntry(gs, n, k, j)
        PROVE  HasEntry(fs, n, k, j) /\ EntryAt(gs, n, k, j) = EntryAt(fs, n, k, j)
    BY <1>4, <2>1, KeptEntries DEF HasEntry
  <2>2. QED
    BY <2>1 DEF Named, EntriesOnce
<1>7. QED
  BY <1>1, <1>2, <1>3, <1>5, <1>6 DEF Named

(* ... and the count of free inodes.                                       *)
LEMMA KeptCounted ==
  ASSUME NEW fs, NEW gs, NEW dir \in InodeNum, Kept(fs, gs, dir), Counted(fs)
  PROVE  Counted(gs)
<1>1. gs.free_inodes = fs.free_inodes /\ \A n \in InodeNum : gs.inodes[n].type = fs.inodes[n].type
  BY DEF Kept, SameInodes
<1>2. Allocated(gs) = Allocated(fs)
  BY <1>1 DEF Allocated
<1>3. QED
  BY <1>1, <1>2 DEF Counted


-----------------------------------------------------------------------------
(* The end of rd_create *)

(* get_free_inode_num returns an inode that is not in use, and never the   *)
(* root's.                                                                 *)
LEMMA FreeInodeIs ==
  ASSUME NEW fs \in FileSys, NEW n, n = get_free_inode_num(fs), n # NULL
  PROVE  n \in InodeNum \ {0} /\ fs.inodes[n].type = "" /\ fs.free_inodes > 0
<1> DEFINE free == {m \in InodeNum \ {0} : fs.inodes[m].type = ""}
<1>1. fs.free_inodes # 0 /\ free # {} /\ n = Min(free)
  BY DEF get_free_inode_num
<1>2. free \subseteq Nat
  BY InodeFacts
<1>3. n \in free
  BY <1>1, <1>2, MinExists
<1>4. fs.free_inodes > 0
  BY FreeInode
<1>5. QED
  BY <1>3, <1>4

(* The inode that rd_create makes.                                         *)
NewInode(type, mode) == [ZeroInode EXCEPT !.type = type, !.access = mode]

(* hs is gs with the entry d at slot j of block b, inode n made new, and   *)
(* the size of dir grown by one entry.                                     *)
Entered(gs, b, j, d, dir, n, z, hs) ==
  /\ hs.free_inodes = gs.free_inodes - 1
  /\ hs.inodes[n] = z
  /\ hs.inodes[dir] = [gs.inodes[dir] EXCEPT !.size = (@ + DIR_ENTRY_SIZE) % UINT_RANGE]
  /\ \A m \in InodeNum \ {n, dir} : hs.inodes[m] = gs.inodes[m]
  /\ \A c \in BlockNum : hs.data_blocks[c].index_block = gs.data_blocks[c].index_block
  /\ \A c \in BlockNum, i \in EntryIdx :
       hs.data_blocks[c].entries[i] = IF c = b /\ i = j THEN d
                                                        ELSE gs.data_blocks[c].entries[i]

(* What the end of rd_create changes.                                      *)
LEMMA FillEntryFields ==
  ASSUME NEW e, e.fs \in FileSys, e.block \in BlockNum, e.slot \in EntryIdx,
         NEW dir \in InodeNum, NEW n \in InodeNum, n # dir,
         NEW name, NEW type, NEW mode
  PROVE  Entered(e.fs, e.block, e.slot, [name |-> name, inode_num |-> n], dir, n,
                 NewInode(type, mode), FillEntry(e, dir, n, name, type, mode))
<1> DEFINE fs == e.fs
           b  == e.block
           j  == e.slot
           d  == [name |-> name, inode_num |-> n]
           z  == NewInode(type, mode)
           as == [fs EXCEPT !.free_inodes = @ - 1, !.inodes[n] = ZeroInode]
           bs == [as EXCEPT !.data_blocks[b].entries[j] = d, !.inodes[n] = z]
           s  == (bs.inodes[dir].size + DIR_ENTRY_SIZE) % UINT_RANGE
           hs == [bs EXCEPT !.inodes[dir].size = s]
<1>1. FillEntry(e, dir, n, name, type, mode) = hs
  BY DEF FillEntry, Filled, allocate_inode, NewInode
<1>2. fs \in FileSys /\ b \in BlockNum /\ j \in EntryIdx
  OBVIOUS
<1> HIDE DEF fs, b, j, d, z
<1>3. /\ as.free_inodes = fs.free_inodes - 1
      /\ as.inodes = [fs.inodes EXCEPT ![n] = ZeroInode]
      /\ as.data_blocks = fs.data_blocks
  BY <1>2 DEF FileSys
<1>5. /\ bs.free_inodes = as.free_inodes
      /\ bs.inodes = [as.inodes EXCEPT ![n] = z]
      /\ bs.data_blocks = [as.data_blocks EXCEPT ![b].entries[j] = d]
  BY <1>2 DEF FileSys
<1>6. /\ hs.free_inodes = bs.free_inodes
      /\ hs.inodes = [bs.inodes EXCEPT ![dir].size = s]
      /\ hs.data_blocks = bs.data_blocks
  BY <1>2 DEF FileSys
<1> HIDE DEF as, bs, hs
<1>7. /\ hs.free_inodes = fs.free_inodes - 1
      /\ hs.data_blocks = [fs.data_blocks EXCEPT ![b].entries[j] = d]
  BY <1>3, <1>5, <1>6
<1>8. /\ \A c \in BlockNum : hs.data_blocks[c].index_block = fs.data_blocks[c].index_block
      /\ \A c \in BlockNum, i \in EntryIdx :
           hs.data_blocks[c].entries[i] = IF c = b /\ i = j THEN d
                                                            ELSE fs.data_blocks[c].entries[i]
  BY <1>2, <1>7 DEF FileSys, DataBlock
<1>9. /\ bs.inodes[n] = z
      /\ \A m \in InodeNum \ {n} : bs.inodes[m] = fs.inodes[m]
      /\ DOMAIN bs.inodes = InodeNum
  BY <1>2, <1>3, <1>5 DEF FileSys
<1> DEFINE r == [bs.inodes[dir] EXCEPT !.size = s]
<1>10. r = [fs.inodes[dir] EXCEPT !.size = (@ + DIR_ENTRY_SIZE) % UINT_RANGE]
  BY <1>9
<1>11. hs.inodes = [bs.inodes EXCEPT ![dir] = r]
  BY <1>6
<1> HIDE DEF r
<1>12. /\ hs.inodes[n] = z
       /\ hs.inodes[dir] = r
       /\ \A m \in InodeNum \ {n, dir} : hs.inodes[m] = fs.inodes[m]
  BY <1>9, <1>11
<1>13. Entered(fs, b, j, d, dir, n, z, hs)
  BY <1>7, <1>8, <1>10, <1>12 DEF Entered
<1>14. QED
  BY <1>1, <1>13 DEF fs, b, j, d, z

(* Where the pointers are the same the blocks are.                         *)
LEMMA SameBlocks ==
  ASSUME NEW fs, Good(fs), NEW gs, Good(gs), NEW n \in InodeNum,
         gs.inodes[n].pointers = fs.inodes[n].pointers,
         gs.inodes[n].single = fs.inodes[n].single,
         \A b \in BlockNum : gs.data_blocks[b].index_block = fs.data_blocks[b].index_block
  PROVE  \A k \in BlockIdx : BlockAt(gs, n, k) = BlockAt(fs, n, k)
<1> SUFFICES ASSUME NEW k \in BlockIdx PROVE BlockAt(gs, n, k) = BlockAt(fs, n, k)
  OBVIOUS
<1> DEFINE s == fs.inodes[n].single
           j == k - INODE_NUM_DIRECT_PTR
<1>1. s = NULL \/ s \in BlockNum
  BY DEF Good, FileSys, Inode, BlockPtr
<1>2. Index(gs, s, j) = Index(fs, s, j)
  BY <1>1 DEF Index
<1>3. QED
  BY <1>2, BlockAtIs

(* One more child of dir.                                                  *)
Adopted(par, n, dir) == [par EXCEPT ![n] = dir]

(* What that changes.                                                      *)
LEMMA OneMoreChild ==
  ASSUME NEW par, Forest(par), NEW n \in InodeNum \ {0}, par[n] = NULL,
         NEW dir \in InodeNum, n # dir,
         NEW kin, kin = Adopted(par, n, dir)
  PROVE  /\ Forest(kin)
         /\ \A m \in InodeNum \ {dir} : Children(kin, m) = Children(par, m)
         /\ Cardinality(Children(kin, dir)) = Cardinality(Children(par, dir)) + 1
         /\ Cardinality(Children(kin, dir)) < MAX_NUM_FILE
<1>0. NULL \notin InodeNum /\ 0 \in InodeNum
  BY InodeFacts
<1>1. kin[n] = dir /\ \A m \in InodeNum \ {n} : kin[m] = par[m]
  BY DEF Forest, Adopted
<1>2. Forest(kin)
  BY <1>1 DEF Forest, Adopted
<1>3. \A m \in InodeNum \ {dir} : Children(kin, m) = Children(par, m)
  BY <1>0, <1>1 DEF Children
<1>4. Children(kin, dir) = Children(par, dir) \cup {n} /\ n \notin Children(par, dir)
  BY <1>0, <1>1 DEF Children
<1>5. Cardinality(Children(kin, dir)) = Cardinality(Children(par, dir)) + 1
  <2>1. Children(par, dir) \subseteq InodeNum
    BY DEF Children
  <2>2. IsFiniteSet(Children(par, dir))
    BY <2>1, InodesFinite
  <2>3. QED
    BY <1>4, <2>2, FS_AddElement
<1>6. Cardinality(Children(kin, dir)) < MAX_NUM_FILE
  <2>1. 0 \notin Children(kin, dir) /\ Children(kin, dir) \subseteq InodeNum
    BY <1>0, <1>2 DEF Children, Forest
  <2>2. Cardinality(Children(kin, dir) \cup {0}) = Cardinality(Children(kin, dir)) + 1
    BY <2>1, InodesFinite, FS_AddElement
  <2>3. Cardinality(Children(kin, dir) \cup {0}) <= MAX_NUM_FILE
    BY <1>0, <2>1, InodesFinite
  <2>4. Cardinality(Children(kin, dir)) \in Nat
    BY <2>1, InodesFinite
  <2>5. QED
    BY <2>2, <2>3, <2>4, DiscosAssumption
<1>7. QED
  BY <1>2, <1>3, <1>5, <1>6

(* The file system before and after the end of rd_create, and the new      *)
(* inode.                                                                  *)
Entering(gs, par, b, j, name, dir, n, z, hs) ==
  /\ Good(gs) /\ Good(hs)
  /\ Named(gs, par) /\ IsParent(gs, dir)
  /\ b \in BlockNum /\ j \in EntryIdx
  /\ gs.data_blocks[b].entries[j].inode_num = 0
  /\ ReadBy(gs, b, dir)
  /\ n \in InodeNum \ {0}
  /\ gs.inodes[n].type = ""
  /\ z.type # "" /\ z.size = 0
  /\ z.pointers = ZeroInode.pointers /\ z.single = ZeroInode.single
  /\ Entered(gs, b, j, [name |-> name, inode_num |-> n], dir, n, z, hs)

(* What that amounts to, entry by entry and inode by inode.                *)
LEMMA EnteringIs ==
  ASSUME NEW gs, NEW par, NEW b, NEW j, NEW name, NEW dir, NEW n, NEW z, NEW hs,
         Entering(gs, par, b, j, name, dir, n, z, hs)
  PROVE  /\ n # dir /\ dir \in InodeNum
         /\ par[n] = NULL /\ gs.inodes[n] = ZeroInode
         /\ \A m \in InodeNum \ {n, dir} : hs.inodes[m] = gs.inodes[m]
         /\ hs.inodes[n] = z
         /\ hs.inodes[dir].type = gs.inodes[dir].type
         /\ hs.inodes[dir].size = (gs.inodes[dir].size + DIR_ENTRY_SIZE) % UINT_RANGE
         /\ \A m \in InodeNum, k \in BlockIdx : BlockAt(hs, m, k) = BlockAt(gs, m, k)
<1> DEFINE d == [name |-> name, inode_num |-> n]
<1>0. /\ Good(gs) /\ Good(hs) /\ Named(gs, par) /\ IsParent(gs, dir)
      /\ n \in InodeNum \ {0} /\ gs.inodes[n].type = ""
      /\ z.pointers = ZeroInode.pointers /\ z.single = ZeroInode.single
      /\ Entered(gs, b, j, d, dir, n, z, hs)
  BY DEF Entering
<1> HIDE DEF d
<1>1. n # dir /\ dir \in InodeNum
  BY <1>0 DEF IsParent
<1>2. gs.inodes[n] = ZeroInode /\ par[n] = NULL
  BY <1>0 DEF Named, FreeBlank
<1>3. gs.inodes[dir] \in Inode
  BY <1>0, <1>1 DEF Good, FileSys
<1>4. /\ hs.inodes[dir] = [gs.inodes[dir] EXCEPT !.size = (@ + DIR_ENTRY_SIZE) % UINT_RANGE]
      /\ \A m \in InodeNum \ {n, dir} : hs.inodes[m] = gs.inodes[m]
      /\ hs.inodes[n] = z
      /\ \A c \in BlockNum : hs.data_blocks[c].index_block = gs.data_blocks[c].index_block
  BY <1>0 DEF Entered
<1>5. /\ hs.inodes[dir].size = (gs.inodes[dir].size + DIR_ENTRY_SIZE) % UINT_RANGE
      /\ hs.inodes[dir].type = gs.inodes[dir].type
      /\ hs.inodes[dir].pointers = gs.inodes[dir].pointers
      /\ hs.inodes[dir].single = gs.inodes[dir].single
  BY <1>3, <1>4 DEF Inode
<1>6. \A m \in InodeNum : /\ hs.inodes[m].pointers = gs.inodes[m].pointers
                          /\ hs.inodes[m].single = gs.inodes[m].single
  BY <1>0, <1>2, <1>4, <1>5
<1>7. ASSUME NEW m \in InodeNum
      PROVE  \A k \in BlockIdx : BlockAt(hs, m, k) = BlockAt(gs, m, k)
  <2>1. hs.inodes[m].pointers = gs.inodes[m].pointers /\ hs.inodes[m].single = gs.inodes[m].single
    BY <1>6
  <2>2. \A c \in BlockNum : hs.data_blocks[c].index_block = gs.data_blocks[c].index_block
    BY <1>4
  <2>3. QED
    BY <1>0, <2>1, <2>2, SameBlocks
<1>8. QED
  BY <1>1, <1>2, <1>4, <1>5, <1>7

(* An entry after it is the new one, which dir alone has, or an old one.   *)
LEMMA EnteredEntries ==
  ASSUME NEW gs, NEW par, NEW b, NEW j, NEW name, NEW dir, NEW n, NEW z, NEW hs,
         Entering(gs, par, b, j, name, dir, n, z, hs),
         NEW m \in InodeNum, NEW k \in BlockIdx, NEW i \in EntryIdx,
         BlockAt(hs, m, k) # NULL
  PROVE  \/ /\ m = dir /\ BlockAt(hs, m, k) = b /\ i = j
            /\ EntryAt(hs, m, k, i).inode_num = n
         \/ /\ BlockAt(gs, m, k) # NULL
            /\ EntryAt(hs, m, k, i) = EntryAt(gs, m, k, i)
<1> DEFINE d == [name |-> name, inode_num |-> n]
<1>0. /\ Good(gs) /\ ReadBy(gs, b, dir) /\ Entered(gs, b, j, d, dir, n, z, hs)
  BY DEF Entering
<1>1. BlockAt(hs, m, k) = BlockAt(gs, m, k)
  BY EnteringIs
<1>2. BlockAt(gs, m, k) \in BlockNum
  BY <1>0, <1>1, BlockSpotIs
<1>3. d.inode_num = n
  OBVIOUS
<1> HIDE DEF d
<1>4. EntryAt(hs, m, k, i) = IF BlockAt(hs, m, k) = b /\ i = j THEN d ELSE EntryAt(gs, m, k, i)
  BY <1>0, <1>1, <1>2 DEF Entered, EntryAt
<1>5. BlockAt(hs, m, k) = b => m = dir
  BY <1>0, <1>1 DEF ReadBy
<1>6. QED
  BY <1>1, <1>3, <1>4, <1>5

(* The number in an entry is the number of an inode.                       *)
LEMMA EntryTyped ==
  ASSUME NEW fs, Good(fs), NEW n \in InodeNum, NEW k \in BlockIdx, NEW j \in EntryIdx,
         BlockAt(fs, n, k) # NULL
  PROVE  EntryAt(fs, n, k, j) \in DirEntry /\ EntryAt(fs, n, k, j).inode_num \in InodeNum
<1>1. BlockAt(fs, n, k) \in BlockNum
  BY BlockSpotIs
<1>2. EntryAt(fs, n, k, j) \in DirEntry
  BY <1>1 DEF EntryAt, Good, FileSys, DataBlock
<1>3. QED
  BY <1>2 DEF DirEntry

(* The invariant after the end of rd_create: dir has one more child.       *)
LEMMA EnteredNamed ==
  ASSUME SizesFit,
         NEW gs, NEW par, NEW b, NEW j, NEW name, NEW dir, NEW n, NEW z, NEW hs,
         Entering(gs, par, b, j, name, dir, n, z, hs),
         NEW kin, kin = Adopted(par, n, dir)
  PROVE  Named(hs, kin)
<1>0. /\ Good(gs) /\ Good(hs)
      /\ Forest(par) /\ FreeBlank(gs, par) /\ SizeCounts(gs, par) /\ EntriesLead(gs, par)
      /\ EntriesOnce(gs)
      /\ IsParent(gs, dir) /\ n \in InodeNum \ {0}
      /\ z.type # "" /\ z.size = 0
  BY DEF Entering, Named
<1>1. /\ n # dir /\ dir \in InodeNum /\ par[n] = NULL /\ gs.inodes[n] = ZeroInode
      /\ \A m \in InodeNum \ {n, dir} : hs.inodes[m] = gs.inodes[m]
      /\ hs.inodes[n] = z
      /\ hs.inodes[dir].type = gs.inodes[dir].type
      /\ hs.inodes[dir].size = (gs.inodes[dir].size + DIR_ENTRY_SIZE) % UINT_RANGE
      /\ \A m \in InodeNum, k \in BlockIdx : BlockAt(hs, m, k) = BlockAt(gs, m, k)
  BY EnteringIs
<1>2. kin[n] = dir /\ \A m \in InodeNum \ {n} : kin[m] = par[m]
  BY <1>0 DEF Forest, Adopted
<1>3. /\ Forest(kin)
      /\ \A m \in InodeNum \ {dir} : Children(kin, m) = Children(par, m)
      /\ Cardinality(Children(kin, dir)) = Cardinality(Children(par, dir)) + 1
      /\ Cardinality(Children(kin, dir)) < MAX_NUM_FILE
  <2>1. Forest(par) /\ n \in InodeNum \ {0} /\ par[n] = NULL /\ dir \in InodeNum /\ n # dir
    BY <1>0, <1>1
  <2>2. QED
    BY <2>1, OneMoreChild
<1>4. FreeBlank(hs, kin)
  BY <1>0, <1>1, <1>2 DEF FreeBlank, IsParent
<1>5. SizeCounts(hs, kin)
  <2> SUFFICES ASSUME NEW m \in InodeNum
               PROVE  hs.inodes[m].size = DIR_ENTRY_SIZE * Cardinality(Children(kin, m))
    BY DEF SizeCounts
  <2>1. gs.inodes[m].size = DIR_ENTRY_SIZE * Cardinality(Children(par, m))
    BY <1>0 DEF SizeCounts
  <2>2. CASE m = dir
    <3> DEFINE c == Cardinality(Children(par, dir))
    <3>1. c \in Nat /\ c + 1 < MAX_NUM_FILE
      <4>1. Children(par, dir) \subseteq InodeNum
        BY DEF Children
      <4>2. QED
        BY <1>3, <4>1, InodesFinite
    <3> HIDE DEF c
    <3>2. 16 * c + 16 \in 0 .. UINT_RANGE - 1
      BY <3>1, DiscosAssumption DEF SizesFit, DIR_ENTRY_SIZE
    <3>3. (16 * c + 16) % UINT_RANGE = 16 * (c + 1)
      BY <3>1, <3>2, DiscosAssumption
    <3>4. QED
      BY <1>1, <1>3, <2>1, <2>2, <3>3 DEF c, DIR_ENTRY_SIZE
  <2>3. CASE m = n
    <3>1. ZeroInode.size = 0
      BY DEF ZeroInode
    <3>2. QED
      BY <1>0, <1>1, <1>3, <2>1, <2>3, <3>1
  <2>4. CASE m \notin {n, dir}
    BY <1>1, <1>3, <2>1, <2>4
  <2>5. QED
    BY <2>2, <2>3, <2>4
<1>6. EntriesLead(hs, kin)
  <2> SUFFICES ASSUME NEW m \in InodeNum, NEW k \in BlockIdx, NEW i \in EntryIdx,
                      BlockAt(hs, m, k) # NULL,
                      NEW e, e = EntryAt(hs, m, k, i)
               PROVE  /\ e.inode_num = 0 => e.name = NoName
                      /\ e.inode_num # 0 => kin[e.inode_num] = m
    BY DEF EntriesLead
  <2>1. CASE m = dir /\ e.inode_num = n
    BY <1>0, <1>2, <2>1
  <2>2. CASE BlockAt(gs, m, k) # NULL /\ e = EntryAt(gs, m, k, i)
    <3>1. /\ e.inode_num = 0 => e.name = NoName
          /\ e.inode_num # 0 => par[e.inode_num] = m
      <4>1. EntriesLead(gs, par)
        BY <1>0
      <4>2. QED
        BY <2>2, <4>1 DEF EntriesLead
    <3>2. e.inode_num \in InodeNum
      BY <1>0, <2>2, EntryTyped
    <3>3. e.inode_num # 0 => e.inode_num # n
      BY <1>1, <3>1, InodeFacts
    <3>4. QED
      BY <1>2, <3>1, <3>2, <3>3
  <2>3. QED
    BY <2>1, <2>2, EnteredEntries
<1>7. EntriesOnce(hs)
  <2> SUFFICES ASSUME NEW m \in InodeNum, NEW k \in BlockIdx, NEW l \in BlockIdx,
                      NEW i \in EntryIdx, NEW g \in EntryIdx,
                      HasEntry(hs, m, k, i), HasEntry(hs, m, l, g),
                      EntryAt(hs, m, k, i).inode_num = EntryAt(hs, m, l, g).inode_num
               PROVE  k = l /\ i = g
    BY DEF EntriesOnce
  <2>1. BlockAt(hs, m, k) # NULL /\ BlockAt(hs, m, l) # NULL
    BY DEF HasEntry
  <2>2. ASSUME NEW q \in BlockIdx, NEW o \in EntryIdx, HasEntry(hs, m, q, o),
               HasEntry(gs, m, q, o), EntryAt(hs, m, q, o) = EntryAt(gs, m, q, o)
        PROVE  EntryAt(hs, m, q, o).inode_num # n
    <3>1. par[EntryAt(gs, m, q, o).inode_num] = m
      BY <1>0, <2>2 DEF EntriesLead, HasEntry
    <3>2. QED
      BY <1>1, <2>2, <3>1, InodeFacts
  <2>3. \/ BlockAt(hs, m, k) = b /\ i = j /\ EntryAt(hs, m, k, i).inode_num = n
        \/ HasEntry(gs, m, k, i) /\ EntryAt(hs, m, k, i) = EntryAt(gs, m, k, i)
    BY <2>1, EnteredEntries DEF HasEntry
  <2>4. \/ BlockAt(hs, m, l) = b /\ g = j /\ EntryAt(hs, m, l, g).inode_num = n
        \/ HasEntry(gs, m, l, g) /\ EntryAt(hs, m, l, g) = EntryAt(gs, m, l, g)
    BY <2>1, EnteredEntries DEF HasEntry
  <2>5. CASE EntryAt(hs, m, k, i).inode_num = n
    <3>1. BlockAt(hs, m, k) = b /\ i = j /\ BlockAt(hs, m, l) = b /\ g = j
      BY <2>2, <2>3, <2>4, <2>5
    <3>2. QED
      BY <1>0, <2>1, <3>1, BlockAtOwned
  <2>6. CASE EntryAt(hs, m, k, i).inode_num # n
    BY <1>0, <2>3, <2>4, <2>6 DEF EntriesOnce
  <2>7. QED
    BY <2>5, <2>6
<1>8. QED
  BY <1>3, <1>4, <1>5, <1>6, <1>7 DEF Named

(* And the superblock has counted the new inode.                           *)
LEMMA EnteredCounted ==
  ASSUME NEW gs, NEW par, NEW b, NEW j, NEW name, NEW dir, NEW n, NEW z, NEW hs,
         Entering(gs, par, b, j, name, dir, n, z, hs), Counted(gs)
  PROVE  Counted(hs)
<1>1. /\ n # dir /\ dir \in InodeNum /\ n \in InodeNum
      /\ \A m \in InodeNum \ {n, dir} : hs.inodes[m] = gs.inodes[m]
      /\ hs.inodes[n].type # "" /\ gs.inodes[n].type = ""
      /\ hs.inodes[dir].type = gs.inodes[dir].type
      /\ hs.free_inodes = gs.free_inodes - 1
  <2>1. n \in InodeNum /\ gs.inodes[n].type = "" /\ z.type # ""
    BY DEF Entering
  <2>2. hs.free_inodes = gs.free_inodes - 1
    BY DEF Entering, Entered
  <2>3. /\ n # dir /\ dir \in InodeNum
        /\ \A m \in InodeNum \ {n, dir} : hs.inodes[m] = gs.inodes[m]
        /\ hs.inodes[n] = z
        /\ hs.inodes[dir].type = gs.inodes[dir].type
    BY EnteringIs
  <2>4. QED
    BY <2>1, <2>2, <2>3
<1>2. Allocated(hs) = Allocated(gs) \cup {n}
  BY <1>1 DEF Allocated
<1>3. /\ InodeNum \ Allocated(hs) = (InodeNum \ Allocated(gs)) \ {n}
      /\ n \in InodeNum \ Allocated(gs)
  BY <1>1, <1>2 DEF Allocated
<1>4. Cardinality(InodeNum \ Allocated(hs)) = Cardinality(InodeNum \ Allocated(gs)) - 1
  BY <1>3, InodesFinite, FS_RemoveElement
<1>5. QED
  BY <1>1, <1>4 DEF Counted

(* rd_create keeps the invariant, if it gives up after the search for an   *)
(* entry ...                                                               *)
LEMMA SearchNamed ==
  ASSUME NEW fs, Good(fs), NEW par, Named(fs, par), NEW dir, IsParent(fs, dir),
         NEW e, e = get_next_entry(fs, dir)
  PROVE  /\ Good(e.fs) /\ Named(e.fs, par) /\ IsParent(e.fs, dir)
         /\ Counted(fs) => Counted(e.fs)
<1>1. dir \in InodeNum
  BY DEF IsParent
<1>2. Searched(e) /\ Kept(fs, e.fs, dir)
  BY <1>1, EntryKept, NextEntryGood DEF FoundKept
<1>3. QED
  BY <1>1, <1>2, KeptNamed, KeptCounted DEF Searched

(* ... or if it does not: then it has what the end of rd_create needs.     *)
LEMMA CreateEnters ==
  ASSUME NEW fs, Good(fs), NEW par, Named(fs, par), NEW dir, IsParent(fs, dir),
         NEW e, e = get_next_entry(fs, dir), e.block # NULL,
         NEW n, n = get_free_inode_num(e.fs), n # NULL,
         NEW name \in Names \cup {NoName}, NEW type \in {"dir", "reg"}, NEW mode \in Nat,
         NEW hs, hs = FillEntry(e, dir, n, name, type, mode)
  PROVE  Entering(e.fs, par, e.block, e.slot, name, dir, n, NewInode(type, mode), hs)
<1> DEFINE z == NewInode(type, mode)
<1>1. dir \in InodeNum
  BY DEF IsParent
<1>2. Searched(e) /\ Lands(e, dir)
  BY <1>1, EntryKept, NextEntryGood DEF FoundKept
<1>3. /\ e.fs \in FileSys /\ e.block \in BlockNum /\ e.slot \in EntryIdx
      /\ e.fs.data_blocks[e.block].entries[e.slot].inode_num = 0
      /\ ReadBy(e.fs, e.block, dir)
  BY <1>2 DEF Searched, Good, BlockPtr, Lands
<1>4. Good(e.fs) /\ Named(e.fs, par) /\ IsParent(e.fs, dir)
  BY SearchNamed
<1>5. n \in InodeNum \ {0} /\ e.fs.inodes[n].type = "" /\ e.fs.free_inodes > 0
  BY <1>3, FreeInodeIs
<1>6. /\ z.type # "" /\ z.size = 0
      /\ z.pointers = ZeroInode.pointers /\ z.single = ZeroInode.single
  BY DEF NewInode, ZeroInode
<1>7. Good(hs)
  BY <1>1, <1>2, <1>3, <1>5, FillEntryGood
<1>8. n # dir
  BY <1>4, <1>5 DEF IsParent
<1>9. Entered(e.fs, e.block, e.slot, [name |-> name, inode_num |-> n], dir, n, z, hs)
  BY <1>1, <1>3, <1>5, <1>8, FillEntryFields
<1> HIDE DEF z
<1>10. Entering(e.fs, par, e.block, e.slot, name, dir, n, z, hs)
  BY <1>3, <1>4, <1>5, <1>6, <1>7, <1>9 DEF Entering
<1>11. QED
  BY <1>10 DEF z

-----------------------------------------------------------------------------
(* What rd_unlink clears *)

(* gs has the pointers and the entries of fs, or fewer.                    *)
Trims(fs, gs) ==
  /\ Shrinks(fs, gs)
  /\ \A b \in BlockNum, j \in EntryIdx :
       gs.data_blocks[b].entries[j] \in {ZeroEntry, fs.data_blocks[b].entries[j]}

(* Step after step there are fewer.                                        *)
LEMMA TrimsTwice ==
  ASSUME NEW fs, NEW gs, NEW hs, Trims(fs, gs), Trims(gs, hs)
  PROVE  Trims(fs, hs)
<1>1. Shrinks(fs, hs)
  <2>1. Shrinks(fs, gs) /\ Shrinks(gs, hs)
    BY DEF Trims
  <2>2. QED
    BY <2>1 DEF Shrinks
<1>2. QED
  BY <1>1 DEF Trims

(* Every block of an inode is one that it had, or none ...                 *)
LEMMA TrimmedBlocks ==
  ASSUME NEW fs, Good(fs), NEW gs, Good(gs), Trims(fs, gs),
         NEW n \in InodeNum, NEW k \in BlockIdx
  PROVE  BlockAt(gs, n, k) \in {NULL, BlockAt(fs, n, k)}
<1> DEFINE j == k - INODE_NUM_DIRECT_PTR
           s == fs.inodes[n].single
           t == gs.inodes[n].single
<1>0. Shrinks(fs, gs)
  BY DEF Trims
<1>1. CASE k \in DirectIdx
  <2>1. gs.inodes[n].pointers[k] \in {NULL, fs.inodes[n].pointers[k]}
    BY <1>0, <1>1 DEF Shrinks
  <2>2. QED
    BY <1>1, <2>1, BlockAtIs
<1>2. CASE j \in PtrIdx
  <2>1. BlockAt(fs, n, k) = Index(fs, s, j) /\ BlockAt(gs, n, k) = Index(gs, t, j)
    BY <1>2, BlockAtIs
  <2>2. t \in {NULL, s} /\ t \in BlockPtr
    BY <1>0 DEF Shrinks, Good, FileSys, Inode
  <2> HIDE DEF j, s, t
  <2>3. t # NULL => Index(gs, t, j) \in {NULL, Index(fs, t, j)}
    BY <1>0, <1>2, <2>2 DEF Shrinks, Index, BlockPtr
  <2>4. t = NULL => Index(gs, t, j) = NULL
    BY DEF Index
  <2>5. QED
    BY <2>1, <2>2, <2>3, <2>4
<1>3. CASE k \notin DirectIdx /\ j \notin PtrIdx
  BY <1>3, BlockAtIs
<1>4. QED
  BY <1>1, <1>2, <1>3

(* ... and every entry in it one that it had, or a free one.               *)
LEMMA TrimmedEntries ==
  ASSUME NEW fs, Good(fs), NEW gs, Good(gs), Trims(fs, gs),
         NEW n \in InodeNum, NEW k \in BlockIdx, NEW j \in EntryIdx,
         BlockAt(gs, n, k) # NULL
  PROVE  /\ BlockAt(gs, n, k) = BlockAt(fs, n, k)
         /\ EntryAt(gs, n, k, j) \in {ZeroEntry, EntryAt(fs, n, k, j)}
<1>1. BlockAt(gs, n, k) = BlockAt(fs, n, k)
  BY TrimmedBlocks
<1>2. BlockAt(gs, n, k) \in BlockNum
  BY BlockSpotIs
<1>3. QED
  BY <1>1, <1>2 DEF Trims, EntryAt

(* my_clear_inode zeroes blocks.                                           *)
LEMMA ClearInodeTrims ==
  ASSUME NEW fs \in FileSys, NEW n \in InodeNum, NEW xs, xs = my_clear_inode(fs, n)
  PROVE  /\ Trims(fs, xs)
         /\ \A b \in BlockNum : xs.data_blocks[b] \in {ZeroBlock, fs.data_blocks[b]}
<1>1. /\ xs.inodes = fs.inodes
      /\ \A b \in BlockNum : xs.data_blocks[b] \in {ZeroBlock, fs.data_blocks[b]}
  BY ClearInodeFields
<1>2. /\ \A k \in PtrIdx : ZeroBlock.index_block[k] = NULL
      /\ \A j \in EntryIdx : ZeroBlock.entries[j] = ZeroEntry
  BY DEF ZeroBlock
<1>3. Shrinks(fs, xs)
  BY <1>1, <1>2 DEF Shrinks
<1>4. ASSUME NEW b \in BlockNum, NEW j \in EntryIdx
      PROVE  xs.data_blocks[b].entries[j] \in {ZeroEntry, fs.data_blocks[b].entries[j]}
  BY <1>1, <1>2
<1>5. QED
  BY <1>1, <1>3, <1>4 DEF Trims

(* Every match in the region is zeroed, and nothing else.                  *)
LEMMA ErasedEntries ==
  ASSUME NEW xs \in FileSys, NEW ptrs, NEW name, NEW es, es = EraseEntries(xs, ptrs, name),
         NEW b \in BlockNum, NEW j \in EntryIdx
  PROVE  /\ es.data_blocks[b].entries[j] \in {ZeroEntry, xs.data_blocks[b].entries[j]}
         /\ (/\ \E i \in DOMAIN ptrs : ptrs[i] = b
             /\ b # NULL
             /\ xs.data_blocks[b].entries[j].name = name)
            => es.data_blocks[b].entries[j] = ZeroEntry
<1> DEFINE H == {ptrs[i] : i \in Hits(xs, ptrs, name)}
           R == {ptrs[i] : i \in Emptied(xs, ptrs, name)}
           erased(entries) == [i \in EntryIdx |-> IF entries[i].name = name THEN ZeroEntry
                                                                            ELSE entries[i]]
           blocks == [c \in BlockNum |->
                        IF c \in H THEN [xs.data_blocks[c] EXCEPT !.entries = erased(@)]
                                   ELSE xs.data_blocks[c]]
<1>1. es = [xs EXCEPT !.bitmap = @ \ R, !.data_blocks = blocks]
  BY DEF EraseEntries
<1>2. ASSUME \E i \in DOMAIN ptrs : ptrs[i] = b, b # NULL, xs.data_blocks[b].entries[j].name = name
      PROVE  b \in H
  <2>1. PICK i \in DOMAIN ptrs : ptrs[i] = b
    BY <1>2
  <2>2. j \in Matches(xs, b, name)
    BY <1>2 DEF Matches
  <2>3. i \in Hits(xs, ptrs, name)
    BY <1>2, <2>1, <2>2 DEF Hits
  <2>4. QED
    BY <2>1, <2>3
<1> HIDE DEF H, R
<1>3. xs.data_blocks[b] \in DataBlock
  BY DEF FileSys
<1>4. erased(xs.data_blocks[b].entries)[j]
        = IF xs.data_blocks[b].entries[j].name = name THEN ZeroEntry
                                                      ELSE xs.data_blocks[b].entries[j]
  OBVIOUS
<1> HIDE DEF erased
<1>5. blocks[b].entries = IF b \in H THEN erased(xs.data_blocks[b].entries)
                                     ELSE xs.data_blocks[b].entries
  BY <1>3 DEF DataBlock
<1> HIDE DEF blocks
<1>6. es.data_blocks = blocks
  BY <1>1 DEF FileSys
<1>7. es.data_blocks[b].entries[j]
        = IF b \in H /\ xs.data_blocks[b].entries[j].name = name
          THEN ZeroEntry ELSE xs.data_blocks[b].entries[j]
  BY <1>4, <1>5, <1>6
<1>8. QED
  BY <1>2, <1>7

(* What clear_entry_in_current_dir may change at all.                      *)
ClearsIn(xs, gs, dir) ==
  /\ Trims(xs, gs)
  /\ gs.free_inodes = xs.free_inodes
  /\ \A m \in InodeNum \ {dir} : gs.inodes[m] = xs.inodes[m]
  /\ gs.inodes[dir].type = xs.inodes[dir].type
  /\ gs.inodes[dir].size = xs.inodes[dir].size

(* Every match in a block of the region is gone.                           *)
Swept(xs, gs, ptrs, name) ==
  \A i \in DOMAIN ptrs, j \in EntryIdx :
    ptrs[i] \in BlockNum /\ xs.data_blocks[ptrs[i]].entries[j].name = name
      => gs.data_blocks[ptrs[i]].entries[j] = ZeroEntry

(* Erasing sweeps the region.                                              *)
LEMMA EraseSweeps ==
  ASSUME NEW xs \in FileSys, NEW ptrs, NEW name, NEW es, es = EraseEntries(xs, ptrs, name)
  PROVE  /\ Swept(xs, es, ptrs, name)
         /\ Trims(xs, es)
<1>0. \A b \in BlockNum : b # NULL
  BY DEF BlockNum, NULL
<1>1. Swept(xs, es, ptrs, name)
  BY <1>0, ErasedEntries DEF Swept
<1>2. \A b \in BlockNum, j \in EntryIdx :
        es.data_blocks[b].entries[j] \in {ZeroEntry, xs.data_blocks[b].entries[j]}
  BY ErasedEntries
<1>3. Shrinks(xs, es)
  <2> DEFINE R == {ptrs[i] : i \in Emptied(xs, ptrs, name)}
  <2>1. R = {ptrs[i] : i \in Emptied(xs, ptrs, name)}
    OBVIOUS
  <2> HIDE DEF R
  <2>2. Erased(xs, R, es)
    BY <2>1, EraseFields
  <2>3. QED
    BY <2>2 DEF Erased, Shrinks
<1>4. QED
  BY <1>1, <1>2, <1>3 DEF Trims

(* clear_entry_in_current_dir among the direct blocks.                     *)
LEMMA ClearInDirectSweeps ==
  ASSUME NEW xs \in FileSys, NEW dir \in InodeNum, NEW name,
         NEW gs, gs = ClearInDirect(xs, dir, name)
  PROVE  ClearsIn(xs, gs, dir) /\ Swept(xs, gs, xs.inodes[dir].pointers, name)
<1> DEFINE ptrs == xs.inodes[dir].pointers
           E    == Emptied(xs, ptrs, name)
           es   == EraseEntries(xs, ptrs, name)
           w    == Without(ptrs, E)
           z    == [es.inodes[dir] EXCEPT !.pointers = w]
           R    == {ptrs[i] : i \in E}
<1>1. xs.inodes[dir] \in Inode /\ ptrs \in [DirectIdx -> BlockPtr]
  BY DEF FileSys, Inode
<1>2. gs = [es EXCEPT !.inodes[dir] = z]
  BY DEF ClearInDirect
<1>3. Erased(xs, R, es)
  <2>1. R = {ptrs[i] : i \in Emptied(xs, ptrs, name)} /\ es = EraseEntries(xs, ptrs, name)
    OBVIOUS
  <2> HIDE DEF R, es
  <2>2. QED
    BY <2>1, EraseFields
<1>4. Swept(xs, es, ptrs, name) /\ Trims(xs, es)
  BY EraseSweeps
<1>5. \A i \in DirectIdx : w[i] \in {NULL, ptrs[i]}
  BY <1>1 DEF Without
<1> HIDE DEF ptrs, E, es, w, R
<1>6. es \in FileSys /\ es.inodes = xs.inodes /\ es.free_inodes = xs.free_inodes
  BY <1>3 DEF Erased
<1>7. /\ z.pointers = w /\ z.single = xs.inodes[dir].single /\ z.double = xs.inodes[dir].double
      /\ z.type = xs.inodes[dir].type /\ z.size = xs.inodes[dir].size
  BY <1>1, <1>6 DEF Inode
<1> HIDE DEF z
<1>8. /\ gs.free_inodes = es.free_inodes /\ gs.data_blocks = es.data_blocks
      /\ gs.inodes[dir] = z
      /\ \A m \in InodeNum \ {dir} : gs.inodes[m] = es.inodes[m]
  BY <1>2, <1>6 DEF FileSys
<1>9. Shrinks(es, gs)
  <2>1. ASSUME NEW m \in InodeNum
        PROVE  /\ \A i \in DirectIdx : gs.inodes[m].pointers[i] \in {NULL, es.inodes[m].pointers[i]}
               /\ gs.inodes[m].single \in {NULL, es.inodes[m].single}
               /\ gs.inodes[m].double \in {NULL, es.inodes[m].double}
    <3>1. CASE m = dir
      BY <1>5, <1>6, <1>7, <1>8, <3>1 DEF ptrs
    <3>2. CASE m # dir
      BY <1>8, <3>2
    <3>3. QED
      BY <3>1, <3>2
  <2>2. QED
    BY <1>8, <2>1 DEF Shrinks
<1>10. Trims(es, gs)
  BY <1>8, <1>9 DEF Trims
<1>11. Trims(xs, gs)
  BY <1>4, <1>10, TrimsTwice
<1>12. ClearsIn(xs, gs, dir)
  BY <1>6, <1>7, <1>8, <1>11 DEF ClearsIn
<1>13. Swept(xs, gs, ptrs, name)
  BY <1>4, <1>8 DEF Swept
<1>14. QED
  BY <1>12, <1>13 DEF ptrs

(* The same in the single indirect range.                                  *)
LEMMA ClearInSingleSweeps ==
  ASSUME NEW xs \in FileSys, NEW dir \in InodeNum, NEW name,
         xs.inodes[dir].single # NULL,
         NEW gs, gs = ClearInSingle(xs, dir, name)
  PROVE  /\ ClearsIn(xs, gs, dir)
         /\ Swept(xs, gs, xs.data_blocks[xs.inodes[dir].single].index_block, name)
<1> DEFINE index == xs.inodes[dir].single
           ptrs  == xs.data_blocks[index].index_block
           E     == Emptied(xs, ptrs, name)
           es    == EraseEntries(xs, ptrs, name)
           w     == Without(ptrs, E)
           y     == [es.data_blocks[index] EXCEPT !.index_block = w]
           cs    == [es EXCEPT !.data_blocks[index] = y]
           z     == [cs.inodes[dir] EXCEPT !.single = NULL]
           ds    == [cs EXCEPT !.bitmap = @ \ {index}, !.inodes[dir] = z]
           R     == {ptrs[i] : i \in E}
<1>1. gs \in {cs, ds}
  BY DEF ClearInSingle
<1>2. index \in BlockNum /\ xs.inodes[dir] \in Inode
  BY DEF FileSys, Inode, BlockPtr
<1>3. ptrs \in [PtrIdx -> BlockPtr]
  BY <1>2 DEF FileSys, DataBlock
<1>4. Erased(xs, R, es)
  <2>1. R = {ptrs[i] : i \in Emptied(xs, ptrs, name)} /\ es = EraseEntries(xs, ptrs, name)
    OBVIOUS
  <2> HIDE DEF R, es
  <2>2. QED
    BY <2>1, EraseFields
<1>5. Swept(xs, es, ptrs, name) /\ Trims(xs, es)
  BY EraseSweeps
<1>6. \A k \in PtrIdx : w[k] \in {NULL, ptrs[k]}
  BY <1>3 DEF Without
<1> HIDE DEF E, es, w, R
<1>7. /\ es \in FileSys /\ es.inodes = xs.inodes /\ es.free_inodes = xs.free_inodes
      /\ es.data_blocks[index].index_block = ptrs
      /\ es.data_blocks[index] \in DataBlock
  BY <1>2, <1>4 DEF Erased, FileSys
<1> HIDE DEF ptrs, index
<1>8. y.index_block = w /\ y.entries = es.data_blocks[index].entries
  BY <1>7 DEF DataBlock
<1> HIDE DEF y
<1>9. /\ cs.free_inodes = es.free_inodes /\ cs.inodes = es.inodes
      /\ cs.data_blocks[index] = y
      /\ \A b \in BlockNum \ {index} : cs.data_blocks[b] = es.data_blocks[b]
      /\ DOMAIN cs = DOMAIN es
  BY <1>2, <1>7 DEF FileSys
<1>10. Trims(es, cs) /\ \A b \in BlockNum : cs.data_blocks[b].entries = es.data_blocks[b].entries
  <2>1. \A b \in BlockNum : cs.data_blocks[b].entries = es.data_blocks[b].entries
    BY <1>8, <1>9
  <2>2. ASSUME NEW b \in BlockNum, NEW k \in PtrIdx
        PROVE  cs.data_blocks[b].index_block[k] \in {NULL, es.data_blocks[b].index_block[k]}
    <3>1. CASE b = index
      BY <1>6, <1>7, <1>8, <1>9, <3>1
    <3>2. CASE b # index
      BY <1>9, <3>2
    <3>3. QED
      BY <3>1, <3>2
  <2>3. Shrinks(es, cs)
    BY <1>9, <2>2 DEF Shrinks
  <2>4. QED
    BY <2>1, <2>3 DEF Trims
<1>11. cs.inodes[dir] \in Inode
  BY <1>2, <1>7, <1>9
<1>12. /\ z.pointers = xs.inodes[dir].pointers /\ z.single = NULL
       /\ z.double = xs.inodes[dir].double
       /\ z.type = xs.inodes[dir].type /\ z.size = xs.inodes[dir].size
  BY <1>7, <1>9, <1>11 DEF Inode
<1> HIDE DEF z
<1>13. /\ ds.free_inodes = cs.free_inodes /\ ds.data_blocks = cs.data_blocks
       /\ ds.inodes[dir] = z
       /\ \A m \in InodeNum \ {dir} : ds.inodes[m] = cs.inodes[m]
  BY <1>7, <1>9 DEF FileSys
<1> HIDE DEF cs, ds
<1>14. Trims(cs, ds)
  <2>1. ASSUME NEW m \in InodeNum
        PROVE  /\ \A i \in DirectIdx : ds.inodes[m].pointers[i] \in {NULL, cs.inodes[m].pointers[i]}
               /\ ds.inodes[m].single \in {NULL, cs.inodes[m].single}
               /\ ds.inodes[m].double \in {NULL, cs.inodes[m].double}
    <3>1. CASE m = dir
      BY <1>7, <1>9, <1>12, <1>13, <3>1
    <3>2. CASE m # dir
      BY <1>13, <3>2
    <3>3. QED
      BY <3>1, <3>2
  <2>2. Shrinks(cs, ds)
    BY <1>13, <2>1 DEF Shrinks
  <2>3. QED
    BY <1>13, <2>2 DEF Trims
<1>15. Trims(xs, cs) /\ Trims(xs, ds)
  BY <1>5, <1>10, <1>14, TrimsTwice
<1>16. ClearsIn(xs, cs, dir) /\ ClearsIn(xs, ds, dir)
  BY <1>7, <1>9, <1>12, <1>13, <1>15 DEF ClearsIn
<1>17. Swept(xs, cs, ptrs, name) /\ Swept(xs, ds, ptrs, name)
  BY <1>5, <1>10, <1>13 DEF Swept
<1>18. QED
  BY <1>1, <1>16, <1>17 DEF ptrs, index

(* What rd_unlink changes, up to the entries and pointers it clears.       *)
Unlinked(fs, gs, file, dir) ==
  /\ Trims(fs, gs)
  /\ gs.free_inodes = (fs.free_inodes + 1) % UINT_RANGE
  /\ gs.inodes[file] = ZeroInode
  /\ gs.inodes[dir].type = fs.inodes[dir].type
  /\ gs.inodes[dir].size = (fs.inodes[dir].size - DIR_ENTRY_SIZE) % UINT_RANGE
  /\ \A m \in InodeNum \ {file, dir} : gs.inodes[m] = fs.inodes[m]

(* From the cleared entry on.                                              *)
UnlinkEnd(cs, file, dir) ==
  [cs EXCEPT !.inodes[dir].size = (@ - DIR_ENTRY_SIZE) % UINT_RANGE,
             !.inodes[file]     = ZeroInode,
             !.free_inodes      = (@ + 1) % UINT_RANGE]

(* What that changes.                                                      *)
LEMMA UnlinkTail ==
  ASSUME NEW cs \in FileSys, NEW file \in InodeNum, NEW dir \in InodeNum, dir # file,
         NEW gs, gs = UnlinkEnd(cs, file, dir)
  PROVE  Unlinked(cs, gs, file, dir) /\ gs.data_blocks = cs.data_blocks
<1> DEFINE s  == (cs.inodes[dir].size - DIR_ENTRY_SIZE) % UINT_RANGE
           z  == [cs.inodes[dir] EXCEPT !.size = s]
           is == [[cs.inodes EXCEPT ![dir] = z] EXCEPT ![file] = ZeroInode]
           c  == (cs.free_inodes + 1) % UINT_RANGE
<1>1. gs = [cs EXCEPT !.inodes = is, !.free_inodes = c]
  BY DEF FileSys, UnlinkEnd
<1>2. cs.inodes[dir] \in Inode
  BY DEF FileSys
<1>3. /\ z.pointers = cs.inodes[dir].pointers /\ z.single = cs.inodes[dir].single
      /\ z.double = cs.inodes[dir].double
      /\ z.type = cs.inodes[dir].type /\ z.size = s
  BY <1>2 DEF Inode
<1> HIDE DEF z, s
<1>4. is[file] = ZeroInode /\ is[dir] = z /\ \A m \in InodeNum \ {file, dir} : is[m] = cs.inodes[m]
  BY DEF FileSys
<1> HIDE DEF is, c
<1>5. gs.inodes = is /\ gs.free_inodes = c /\ gs.data_blocks = cs.data_blocks
  BY <1>1 DEF FileSys
<1>6. Trims(cs, gs)
  <2>1. ASSUME NEW m \in InodeNum
        PROVE  /\ \A i \in DirectIdx : gs.inodes[m].pointers[i] \in {NULL, cs.inodes[m].pointers[i]}
               /\ gs.inodes[m].single \in {NULL, cs.inodes[m].single}
               /\ gs.inodes[m].double \in {NULL, cs.inodes[m].double}
    <3>1. CASE m = file
      BY <1>4, <1>5, <3>1, ZeroPointers
    <3>2. CASE m = dir
      BY <1>3, <1>4, <1>5, <3>2
    <3>3. CASE m \notin {file, dir}
      BY <1>4, <1>5, <3>3
    <3>4. QED
      BY <3>1, <3>2, <3>3
  <2>2. Shrinks(cs, gs)
    BY <1>5, <2>1 DEF Shrinks
  <2>3. QED
    BY <1>5, <2>2 DEF Trims
<1>7. QED
  BY <1>3, <1>4, <1>5, <1>6 DEF Unlinked, s, c

(* clear_entry_in_current_dir, in either region.                           *)
LEMMA ClearEntryClears ==
  ASSUME NEW xs \in FileSys, NEW dir \in InodeNum, NEW name,
         NEW gs, gs = clear_entry_in_current_dir(xs, dir, name)
  PROVE  /\ ClearsIn(xs, gs, dir)
         /\ Swept(xs, gs, xs.inodes[dir].pointers, name)
         /\ (Hits(xs, xs.inodes[dir].pointers, name) = {} /\ xs.inodes[dir].single # NULL)
            => Swept(xs, gs, xs.data_blocks[xs.inodes[dir].single].index_block, name)
<1> DEFINE ptrs == xs.inodes[dir].pointers
<1>1. CASE Hits(xs, ptrs, name) # {}
  BY <1>1, ClearInDirectSweeps DEF clear_entry_in_current_dir
<1>2. ASSUME Hits(xs, ptrs, name) = {} PROVE Swept(xs, gs, ptrs, name)
  <2>1. ASSUME NEW i \in DOMAIN ptrs, NEW j \in EntryIdx, ptrs[i] \in BlockNum,
               xs.data_blocks[ptrs[i]].entries[j].name = name
        PROVE  FALSE
    <3>1. j \in Matches(xs, ptrs[i], name)
      BY <2>1 DEF Matches
    <3>2. ptrs[i] # NULL
      BY <2>1 DEF BlockNum, NULL
    <3>3. i \in Hits(xs, ptrs, name)
      BY <3>1, <3>2 DEF Hits
    <3>4. QED
      BY <1>2, <3>3
  <2>2. QED
    BY <2>1 DEF Swept
<1>3. CASE Hits(xs, ptrs, name) = {} /\ xs.inodes[dir].single # NULL
  BY <1>2, <1>3, ClearInSingleSweeps DEF clear_entry_in_current_dir
<1>4. CASE Hits(xs, ptrs, name) = {} /\ xs.inodes[dir].single = NULL
  <2>1. gs = xs
    BY <1>4 DEF clear_entry_in_current_dir
  <2>2. ClearsIn(xs, xs, dir)
    BY DEF ClearsIn, Trims, Shrinks
  <2>3. QED
    BY <1>2, <1>4, <2>1, <2>2
<1>5. QED
  BY <1>1, <1>3, <1>4

(* The entry at slot j of the k-th block of dir has the name, and where    *)
(* only the direct blocks are searched they have it.                       *)
NamedAt(fs, dir, name, k, j) ==
  /\ BlockAt(fs, dir, k) # NULL
  /\ EntryAt(fs, dir, k, j).name = name
  /\ k \notin DirectIdx =>
       \A i \in BlockIdx \cap DirectIdx, l \in EntryIdx :
         BlockAt(fs, dir, i) # NULL => EntryAt(fs, dir, i, l).name # name

(* Direct pointers come first.                                             *)
LEMMA DirectFirst == DirectIdx \subseteq BlockIdx
<1>1. PTRS_PER_BLOCK * PTRS_PER_BLOCK \in Nat
  BY DiscosAssumption
<1>2. QED
  BY <1>1, DiscosAssumption DEF DirectIdx, BlockIdx

(* rd_unlink clears the entry it is for, unless the block of the entry has *)
(* gone with the file.                                                     *)
LEMMA UnlinkErases ==
  ASSUME NEW fs, Good(fs), NEW file \in InodeNum, NEW dir \in InodeNum, dir # file,
         NEW name, name # NoName, NEW k \in BlockIdx, NEW j \in EntryIdx,
         NamedAt(fs, dir, name, k, j),
         NEW gs, gs = Unlink(fs, file, dir, name)
  PROVE  /\ Good(gs) /\ Unlinked(fs, gs, file, dir)
         /\ BlockAt(gs, dir, k) # NULL => EntryAt(gs, dir, k, j) = ZeroEntry
<1> DEFINE xs   == my_clear_inode(fs, file)
           cs   == clear_entry_in_current_dir(xs, dir, name)
           b    == BlockAt(fs, dir, k)
           ptrs == xs.inodes[dir].pointers
           s    == xs.inodes[dir].single
           q    == k - INODE_NUM_DIRECT_PTR
<1>0. fs \in FileSys /\ Good(gs)
  BY UnlinkGood DEF Good
<1>1. /\ xs \in FileSys /\ xs.inodes = fs.inodes /\ xs.free_inodes = fs.free_inodes
      /\ Trims(fs, xs)
      /\ \A c \in BlockNum : xs.data_blocks[c] \in {ZeroBlock, fs.data_blocks[c]}
  BY <1>0, ClearInodeFields, ClearInodeTrims
<1>2. Cleared(xs, file)
  BY ClearedAfter
<1>3. gs = UnlinkEnd(cs, file, dir)
  BY DEF Unlink, UnlinkEnd
<1> HIDE DEF xs
<1>4. cs \in FileSys
  BY <1>2, ClearEntryGood
<1>5. /\ ClearsIn(xs, cs, dir)
      /\ Swept(xs, cs, ptrs, name)
      /\ (Hits(xs, ptrs, name) = {} /\ s # NULL)
         => Swept(xs, cs, xs.data_blocks[s].index_block, name)
  BY <1>1, ClearEntryClears
<1> HIDE DEF cs
<1>6. Unlinked(cs, gs, file, dir) /\ gs.data_blocks = cs.data_blocks
  BY <1>3, <1>4, UnlinkTail
<1>7. Trims(xs, gs) /\ Trims(fs, gs)
  BY <1>1, <1>5, <1>6, TrimsTwice DEF ClearsIn, Unlinked
<1>8. Unlinked(fs, gs, file, dir)
  BY <1>1, <1>5, <1>6, <1>7 DEF ClearsIn, Unlinked
<1>9. ASSUME BlockAt(gs, dir, k) # NULL PROVE EntryAt(gs, dir, k, j) = ZeroEntry
  <2>1. BlockAt(gs, dir, k) = b /\ b # NULL /\ b \in BlockNum
    BY <1>0, <1>7, <1>9, TrimmedBlocks, BlockSpotIs DEF NamedAt
  <2>2. EntryAt(gs, dir, k, j) = gs.data_blocks[b].entries[j]
    BY <2>1 DEF EntryAt
  <2>3. fs.data_blocks[b].entries[j].name = name
    BY DEF NamedAt, EntryAt
  <2>4. /\ ZeroBlock.entries[j] = ZeroEntry
        /\ \A i \in EntryIdx : ZeroBlock.entries[i].name = NoName
        /\ \A i \in PtrIdx : ZeroBlock.index_block[i] = NULL
    BY DEF ZeroBlock, ZeroEntry
  <2>5. CASE xs.data_blocks[b] = ZeroBlock
    <3>1. gs.data_blocks[b].entries[j] \in {ZeroEntry, xs.data_blocks[b].entries[j]}
      BY <1>7, <2>1 DEF Trims
    <3>2. QED
      BY <2>2, <2>4, <2>5, <3>1
  <2>6. CASE xs.data_blocks[b] = fs.data_blocks[b] /\ k \in DirectIdx
    <3>1. ptrs[k] = b /\ k \in DOMAIN ptrs
      <4>1. ptrs = fs.inodes[dir].pointers
        BY <1>1
      <4>2. DOMAIN fs.inodes[dir].pointers = DirectIdx
        BY <1>0 DEF FileSys, Inode
      <4> HIDE DEF ptrs
      <4>3. QED
        BY <2>6, <4>1, <4>2, BlockAtIs
    <3>2. xs.data_blocks[ptrs[k]].entries[j].name = name /\ ptrs[k] \in BlockNum
      BY <2>1, <2>3, <2>6, <3>1
    <3>3. cs.data_blocks[ptrs[k]].entries[j] = ZeroEntry
      BY <1>5, <3>1, <3>2 DEF Swept
    <3>4. QED
      BY <1>6, <2>2, <3>1, <3>3
  <2>7. CASE xs.data_blocks[b] = fs.data_blocks[b] /\ k \notin DirectIdx
    <3>1. s \in BlockNum /\ q \in PtrIdx /\ s # NULL
      BY <1>1, <2>1, <2>7, BlockSpotIs DEF BlockNum, NULL
    <3>2. b = fs.data_blocks[s].index_block[q]
      BY <1>1, <3>1, BlockAtIs DEF Index
    <3>3. Hits(xs, ptrs, name) = {}
      <4> SUFFICES ASSUME NEW i \in Hits(xs, ptrs, name) PROVE FALSE
        OBVIOUS
      <4>1. i \in DirectIdx /\ ptrs[i] = fs.inodes[dir].pointers[i] /\ ptrs[i] # NULL
        BY <1>0, <1>1 DEF Hits, FileSys, Inode
      <4>2. i \in BlockIdx /\ BlockAt(fs, dir, i) = ptrs[i]
        BY <4>1, DirectFirst, BlockAtIs
      <4>3. ptrs[i] \in BlockNum
        BY <4>1, <4>2, BlockSpotIs
      <4>4. PICK l \in EntryIdx : xs.data_blocks[ptrs[i]].entries[l].name = name
        BY DEF Hits, Matches
      <4>5. fs.data_blocks[ptrs[i]].entries[l].name # name
        BY <2>7, <4>1, <4>2 DEF NamedAt, EntryAt
      <4>6. xs.data_blocks[ptrs[i]] = ZeroBlock
        BY <1>1, <4>3, <4>4, <4>5
      <4>7. QED
        BY <2>4, <4>4, <4>6
    <3>4. CASE xs.data_blocks[s] = ZeroBlock
      <4>1. gs.data_blocks[s].index_block[q] = NULL
        <5>1. gs.data_blocks[s].index_block[q] \in {NULL, xs.data_blocks[s].index_block[q]}
          BY <1>7, <3>1 DEF Trims, Shrinks
        <5>2. QED
          BY <2>4, <3>1, <3>4, <5>1
      <4>2. gs.inodes[dir].single \in {NULL, s}
        BY <1>7 DEF Trims, Shrinks
      <4>3. BlockAt(gs, dir, k) = NULL
        BY <1>0, <3>1, <4>1, <4>2, BlockAtIs DEF Index
      <4>4. QED
        BY <1>9, <4>3
    <3>5. CASE xs.data_blocks[s] = fs.data_blocks[s]
      <4> DEFINE blocks == xs.data_blocks[s].index_block
      <4>1. blocks[q] = b /\ q \in DOMAIN blocks
        BY <1>0, <3>1, <3>2, <3>5 DEF FileSys, DataBlock
      <4>2. Swept(xs, cs, blocks, name)
        BY <1>5, <3>1, <3>3
      <4> HIDE DEF blocks, b, q
      <4>3. xs.data_blocks[blocks[q]].entries[j].name = name /\ blocks[q] \in BlockNum
        BY <2>1, <2>3, <2>7, <4>1
      <4>4. cs.data_blocks[blocks[q]].entries[j] = ZeroEntry
        BY <4>1, <4>2, <4>3 DEF Swept
      <4>5. QED
        BY <1>6, <2>2, <4>1, <4>4
    <3>6. QED
      BY <1>1, <3>1, <3>4, <3>5
  <2>8. QED
    BY <1>1, <2>1, <2>5, <2>6, <2>7
<1>10. QED
  BY <1>0, <1>8, <1>9

(* The children of file are nobody's, and file is.                         *)
Orphaned(par, file) ==
  [m \in InodeNum |-> IF m = file \/ par[m] = file THEN NULL ELSE par[m]]

(* The directory of file has one child less.                               *)
LEMMA OneChildLess ==
  ASSUME NEW par, Forest(par), NEW file \in InodeNum, NEW dir \in InodeNum, par[file] = dir,
         NEW kin, kin = Orphaned(par, file)
  PROVE  /\ Forest(kin)
         /\ kin[file] = NULL
         /\ \A m \in InodeNum \ {file} : kin[m] = IF par[m] = file THEN NULL ELSE par[m]
         /\ Children(kin, file) = {}
         /\ \A m \in InodeNum \ {file, dir} : Children(kin, m) = Children(par, m)
         /\ Cardinality(Children(kin, dir)) = Cardinality(Children(par, dir)) - 1
         /\ Cardinality(Children(par, dir)) > 0
<1>0. NULL \notin InodeNum /\ 0 \in InodeNum
  BY InodeFacts
<1>1. /\ kin[file] = NULL
      /\ \A m \in InodeNum \ {file} : kin[m] = IF par[m] = file THEN NULL ELSE par[m]
      /\ DOMAIN kin = InodeNum
      /\ kin \in [InodeNum -> InodeNum \cup {NULL}]
  BY DEF Forest, Orphaned
<1>2. Forest(kin)
  BY <1>0, <1>1 DEF Forest
<1>3. Children(kin, file) = {}
  BY <1>0, <1>1 DEF Children
<1>4. \A m \in InodeNum \ {file, dir} : Children(kin, m) = Children(par, m)
  BY <1>0, <1>1 DEF Children
<1>5. /\ Children(kin, dir) = Children(par, dir) \ {file}
      /\ file \in Children(par, dir) /\ Children(par, dir) \subseteq InodeNum
  BY <1>0, <1>1 DEF Children, Forest
<1>6. Cardinality(Children(kin, dir)) = Cardinality(Children(par, dir)) - 1
  BY <1>5, InodesFinite, FS_RemoveElement
<1>7. Cardinality(Children(par, dir)) > 0
  <2>1. Children(kin, dir) \subseteq InodeNum
    BY <1>5
  <2>2. Cardinality(Children(kin, dir)) \in Nat /\ Cardinality(Children(par, dir)) \in Nat
    BY <1>5, <2>1, InodesFinite
  <2>3. QED
    BY <1>6, <2>2
<1>8. QED
  BY <1>1, <1>2, <1>3, <1>4, <1>6, <1>7

(* rd_unlink's file, its directory and the entry between them.             *)
Unlinking(fs, par, file, dir, name, k, j, gs) ==
  /\ Good(fs) /\ Named(fs, par) /\ IsParent(fs, dir)
  /\ file \in InodeNum \ {0}
  /\ name # NoName /\ k \in BlockIdx /\ j \in EntryIdx
  /\ NamedAt(fs, dir, name, k, j)
  /\ EntryAt(fs, dir, k, j).inode_num = file
  /\ gs = Unlink(fs, file, dir, name)

(* What rd_unlink has done, in terms of the invariant.                     *)
LEMMA UnlinkingIs ==
  ASSUME NEW fs, NEW par, NEW file, NEW dir, NEW name, NEW k, NEW j, NEW gs,
         Unlinking(fs, par, file, dir, name, k, j, gs)
  PROVE  /\ dir \in InodeNum /\ dir # file /\ par[file] = dir
         /\ Good(gs) /\ Unlinked(fs, gs, file, dir)
         /\ BlockAt(gs, dir, k) # NULL => EntryAt(gs, dir, k, j) = ZeroEntry
<1>1. /\ dir \in InodeNum /\ k \in BlockIdx /\ j \in EntryIdx
      /\ file \in InodeNum \ {0}
  BY DEF Unlinking, IsParent
<1>2. par[file] = dir
  BY <1>1 DEF Unlinking, Named, EntriesLead, NamedAt
<1>3. dir # file
  BY <1>1, <1>2 DEF Unlinking, Named, Forest
<1>4. /\ Good(gs) /\ Unlinked(fs, gs, file, dir)
      /\ BlockAt(gs, dir, k) # NULL => EntryAt(gs, dir, k, j) = ZeroEntry
  BY <1>1, <1>3, UnlinkErases DEF Unlinking
<1>5. QED
  BY <1>1, <1>2, <1>3, <1>4

(* The file has no block any more.                                         *)
LEMMA NoBlockLeft ==
  ASSUME NEW gs, Good(gs), NEW n \in InodeNum, gs.inodes[n] = ZeroInode, NEW k \in BlockIdx
  PROVE  BlockAt(gs, n, k) = NULL
<1>1. /\ k \in DirectIdx => gs.inodes[n].pointers[k] = NULL
      /\ Index(gs, gs.inodes[n].single, k - INODE_NUM_DIRECT_PTR) = NULL
  BY ZeroPointers DEF Index
<1>2. QED
  BY <1>1, BlockAtIs

(* The invariant after rd_unlink.                                          *)
LEMMA UnlinkNamed ==
  ASSUME SizesFit,
         NEW fs, NEW par, NEW file, NEW dir, NEW name, NEW k0, NEW j0, NEW gs,
         Unlinking(fs, par, file, dir, name, k0, j0, gs),
         NEW kin, kin = Orphaned(par, file)
  PROVE  Named(gs, kin)
<1>0. /\ Good(fs) /\ IsParent(fs, dir) /\ file \in InodeNum \ {0}
      /\ Forest(par) /\ FreeBlank(fs, par) /\ SizeCounts(fs, par) /\ EntriesLead(fs, par)
      /\ EntriesOnce(fs)
      /\ k0 \in BlockIdx /\ j0 \in EntryIdx
      /\ BlockAt(fs, dir, k0) # NULL /\ EntryAt(fs, dir, k0, j0).inode_num = file
  BY DEF Unlinking, Named, NamedAt
<1>1. /\ dir \in InodeNum /\ dir # file /\ par[file] = dir
      /\ Good(gs) /\ Unlinked(fs, gs, file, dir)
      /\ BlockAt(gs, dir, k0) # NULL => EntryAt(gs, dir, k0, j0) = ZeroEntry
  BY UnlinkingIs
<1>2. /\ Trims(fs, gs)
      /\ gs.inodes[file] = ZeroInode
      /\ gs.inodes[dir].type = fs.inodes[dir].type
      /\ gs.inodes[dir].size = (fs.inodes[dir].size - DIR_ENTRY_SIZE) % UINT_RANGE
      /\ \A m \in InodeNum \ {file, dir} : gs.inodes[m] = fs.inodes[m]
  BY <1>1 DEF Unlinked
<1>3. /\ Forest(kin)
      /\ kin[file] = NULL
      /\ \A m \in InodeNum \ {file} : kin[m] = IF par[m] = file THEN NULL ELSE par[m]
      /\ Children(kin, file) = {}
      /\ \A m \in InodeNum \ {file, dir} : Children(kin, m) = Children(par, m)
      /\ Cardinality(Children(kin, dir)) = Cardinality(Children(par, dir)) - 1
      /\ Cardinality(Children(par, dir)) > 0
  <2>1. Forest(par) /\ file \in InodeNum /\ dir \in InodeNum /\ par[file] = dir
    BY <1>0, <1>1
  <2>2. QED
    BY <2>1, OneChildLess
<1>4. FreeBlank(gs, kin)
  BY <1>0, <1>1, <1>2, <1>3 DEF FreeBlank, IsParent
<1>5. SizeCounts(gs, kin)
  <2> SUFFICES ASSUME NEW m \in InodeNum
               PROVE  gs.inodes[m].size = DIR_ENTRY_SIZE * Cardinality(Children(kin, m))
    BY DEF SizeCounts
  <2>1. fs.inodes[m].size = DIR_ENTRY_SIZE * Cardinality(Children(par, m))
    BY <1>0 DEF SizeCounts
  <2>2. CASE m = file
    <3>1. ZeroInode.size = 0
      BY DEF ZeroInode
    <3>2. Cardinality(Children(kin, file)) = 0
      BY <1>3, FS_EmptySet
    <3>3. QED
      BY <1>2, <2>2, <3>1, <3>2 DEF DIR_ENTRY_SIZE
  <2>3. CASE m = dir
    <3> DEFINE c == Cardinality(Children(par, dir))
    <3>1. c \in Nat /\ c > 0
      <4>1. Children(par, dir) \subseteq InodeNum
        BY DEF Children
      <4>2. QED
        BY <1>3, <4>1, InodesFinite
    <3>2. fs.inodes[dir].size = 16 * c /\ 16 * c \in UInt
      <4>1. fs.inodes[dir].size \in UInt
        BY <1>0, <1>1 DEF Good, FileSys, Inode
      <4>2. QED
        BY <2>1, <2>3, <4>1 DEF DIR_ENTRY_SIZE
    <3> HIDE DEF c
    <3>3. 16 * c - 16 \in 0 .. UINT_RANGE - 1
      BY <3>1, <3>2, DiscosAssumption DEF UInt
    <3>4. (16 * c - 16) % UINT_RANGE = 16 * (c - 1)
      BY <3>1, <3>3, DiscosAssumption
    <3>5. QED
      BY <1>2, <1>3, <2>3, <3>2, <3>4 DEF c, DIR_ENTRY_SIZE
  <2>4. CASE m \notin {file, dir}
    BY <1>2, <1>3, <2>1, <2>4
  <2>5. QED
    BY <2>2, <2>3, <2>4
<1>6. ZeroEntry.inode_num = 0 /\ ZeroEntry.name = NoName
  BY DEF ZeroEntry
<1>7. ASSUME NEW n \in InodeNum, NEW k \in BlockIdx, NEW j \in EntryIdx,
             BlockAt(gs, n, k) # NULL
      PROVE  /\ n # file
             /\ EntryAt(gs, n, k, j) # ZeroEntry =>
                  /\ BlockAt(fs, n, k) # NULL
                  /\ EntryAt(gs, n, k, j) = EntryAt(fs, n, k, j)
                  /\ EntryAt(fs, n, k, j).inode_num # file
  <2>1. n # file
    BY <1>1, <1>2, <1>7, NoBlockLeft
  <2>2. /\ BlockAt(gs, n, k) = BlockAt(fs, n, k)
        /\ EntryAt(gs, n, k, j) \in {ZeroEntry, EntryAt(fs, n, k, j)}
    BY <1>0, <1>1, <1>2, <1>7, TrimmedEntries
  <2>3. ASSUME EntryAt(gs, n, k, j) # ZeroEntry, EntryAt(fs, n, k, j).inode_num = file
        PROVE  FALSE
    <3>1. par[file] = n
      BY <1>0, <1>7, <2>2, <2>3 DEF EntriesLead
    <3>2. n = dir
      BY <1>1, <3>1
    <3>3. HasEntry(fs, dir, k, j) /\ HasEntry(fs, dir, k0, j0)
      BY <1>0, <1>7, <2>2, <2>3, <3>2 DEF HasEntry
    <3>4. k = k0 /\ j = j0
      BY <1>0, <1>1, <2>3, <3>2, <3>3 DEF EntriesOnce
    <3>5. QED
      BY <1>1, <1>7, <2>3, <3>2, <3>4
  <2>4. QED
    BY <1>7, <2>1, <2>2, <2>3
<1>8. EntriesLead(gs, kin)
  <2> SUFFICES ASSUME NEW n \in InodeNum, NEW k \in BlockIdx, NEW j \in EntryIdx,
                      BlockAt(gs, n, k) # NULL,
                      NEW e, e = EntryAt(gs, n, k, j)
               PROVE  /\ e.inode_num = 0 => e.name = NoName
                      /\ e.inode_num # 0 => kin[e.inode_num] = n
    BY DEF EntriesLead
  <2>1. CASE e = ZeroEntry
    BY <1>6, <2>1
  <2>2. CASE e # ZeroEntry
    <3>1. /\ n # file /\ BlockAt(fs, n, k) # NULL /\ e = EntryAt(fs, n, k, j)
          /\ e.inode_num # file
      BY <1>7, <2>2
    <3>2. e.inode_num \in InodeNum
      BY <1>0, <3>1, EntryTyped
    <3>3. /\ e.inode_num = 0 => e.name = NoName
          /\ e.inode_num # 0 => par[e.inode_num] = n
      <4>1. EntriesLead(fs, par)
        BY <1>0
      <4>2. QED
        BY <3>1, <4>1 DEF EntriesLead
    <3>4. e.inode_num # 0 => kin[e.inode_num] = n
      BY <1>3, <3>1, <3>2, <3>3
    <3>5. QED
      BY <3>3, <3>4
  <2>3. QED
    BY <2>1, <2>2
<1>9. EntriesOnce(gs)
  <2>1. ASSUME NEW n \in InodeNum, NEW k \in BlockIdx, NEW j \in EntryIdx, HasEntry(gs, n, k, j)
        PROVE  HasEntry(fs, n, k, j) /\ EntryAt(gs, n, k, j) = EntryAt(fs, n, k, j)
    BY <1>6, <1>7, <2>1 DEF HasEntry
  <2>2. EntriesOnce(fs)
    BY <1>0
  <2>3. QED
    BY <2>1, <2>2 DEF EntriesOnce
<1>10. QED
  BY <1>3, <1>4, <1>5, <1>8, <1>9 DEF Named

(* And the superblock has counted the inode.                               *)
LEMMA UnlinkCounted ==
  ASSUME SizesFit,
         NEW fs, NEW par, NEW file, NEW dir, NEW name, NEW k, NEW j, NEW gs,
         Unlinking(fs, par, file, dir, name, k, j, gs), Counted(fs)
  PROVE  Counted(gs)
<1>1. /\ dir \in InodeNum /\ dir # file /\ par[file] = dir /\ Unlinked(fs, gs, file, dir)
  BY UnlinkingIs
<1>2. file \in InodeNum \ {0} /\ FreeBlank(fs, par)
  BY DEF Unlinking, Named
<1>3. fs.inodes[file].type # ""
  BY <1>1, <1>2, InodeFacts DEF FreeBlank
<1>4. /\ gs.free_inodes = (fs.free_inodes + 1) % UINT_RANGE
      /\ gs.inodes[file].type = ""
      /\ \A m \in InodeNum \ {file} : gs.inodes[m].type = fs.inodes[m].type
  <2>1. /\ gs.free_inodes = (fs.free_inodes + 1) % UINT_RANGE
        /\ gs.inodes[file] = ZeroInode
        /\ gs.inodes[dir].type = fs.inodes[dir].type
        /\ \A m \in InodeNum \ {file, dir} : gs.inodes[m] = fs.inodes[m]
    BY <1>1 DEF Unlinked
  <2>2. ZeroInode.type = ""
    BY DEF ZeroInode
  <2>3. QED
    BY <2>1, <2>2
<1>5. /\ InodeNum \ Allocated(gs) = (InodeNum \ Allocated(fs)) \cup {file}
      /\ file \notin InodeNum \ Allocated(fs)
  BY <1>2, <1>3, <1>4 DEF Allocated
<1>6. /\ Cardinality(InodeNum \ Allocated(gs)) = Cardinality(InodeNum \ Allocated(fs)) + 1
      /\ Cardinality(InodeNum \ Allocated(gs)) <= MAX_NUM_FILE
      /\ Cardinality(InodeNum \ Allocated(fs)) \in Nat
  <2>1. IsFiniteSet(InodeNum \ Allocated(fs)) /\ Cardinality(InodeNum \ Allocated(fs)) \in Nat
    BY InodesFinite
  <2>2. Cardinality(InodeNum \ Allocated(gs)) <= MAX_NUM_FILE
    <3>1. InodeNum \ Allocated(gs) \subseteq InodeNum
      OBVIOUS
    <3>2. QED
      BY <3>1, InodesFinite
  <2>3. QED
    BY <1>5, <2>1, <2>2, FS_AddElement
<1>7. fs.free_inodes = Cardinality(InodeNum \ Allocated(fs))
  BY DEF Counted
<1>8. MAX_NUM_FILE < UINT_RANGE
  BY DiscosAssumption DEF SizesFit, DIR_ENTRY_SIZE
<1>9. gs.free_inodes = fs.free_inodes + 1
  <2> DEFINE c == fs.free_inodes + 1
  <2>1. c \in 0 .. UINT_RANGE - 1
    BY <1>6, <1>7, <1>8, DiscosAssumption
  <2> HIDE DEF c
  <2>2. c % UINT_RANGE = c
    BY <2>1, DiscosAssumption
  <2>3. QED
    BY <1>4, <2>2 DEF c
<1>10. QED
  BY <1>6, <1>7, <1>9 DEF Counted

-----------------------------------------------------------------------------
(* Following a pathname *)

(* One component; nothing is below what was not found.                     *)
After(fs, dir, name) == IF dir = NULL THEN NULL ELSE Lookup(fs, dir, name)

(* my_find_inode_number: one component after another, from the root.       *)
Walk(fs, q) ==
  FoldLeft(LAMBDA dir, name : IF dir = NULL THEN NULL ELSE Lookup(fs, dir, name), 0, q)

(* The function that the fold is defined by: of the components whose       *)
(* numbers are in s, the one with the greatest number comes last.          *)
WalkOf(fs, q, S, g) ==
  g = [s \in SUBSET S |-> IF s = {} THEN 0 ELSE After(fs, g[s \ {Max(s)}], q[Max(s)])]

(* my_find_inode_number is that walk.                                      *)
LEMMA FindIsWalk ==
  ASSUME NEW fs, NEW q
  PROVE  /\ q # Root => my_find_inode_number(fs, q) = Walk(fs, q)
         /\ q = Root => my_find_inode_number(fs, q) = 0
BY DEF my_find_inode_number, Walk

(* And the walk is the value of that function for all components.          *)
LEMMA WalkIsChosen ==
  ASSUME NEW fs, NEW q
  PROVE  Walk(fs, q) = (CHOOSE g : WalkOf(fs, q, DOMAIN q, g))[DOMAIN q]
BY DEF Walk, FoldLeft, MapThenFoldSet, WalkOf, After

(* A set of numbers up to m that has m in it has m as its greatest.        *)
LEMMA MaxIs ==
  ASSUME NEW m \in Nat, NEW s, s \subseteq 1 .. m, m \in s
  PROVE  Max(s) = m
<1>1. \A y \in s : m >= y
  OBVIOUS
<1>2. \A x \in s : (\A y \in s : x >= y) => x = m
  OBVIOUS
<1>3. QED
  BY <1>1, <1>2 DEF Max

(* One more component.                                                     *)
WalkMore(fs, q, m, g) ==
  [s \in SUBSET (1 .. m) |-> IF m \in s THEN After(fs, g[s \ {m}], q[m]) ELSE g[s]]

(* It extends the function.                                                *)
LEMMA WalkExtends ==
  ASSUME NEW fs, NEW q, NEW m \in Nat \ {0}, NEW g, WalkOf(fs, q, 1 .. (m - 1), g),
         NEW h, h = WalkMore(fs, q, m, g)
  PROVE  WalkOf(fs, q, 1 .. m, h)
<1>1. \A s \in SUBSET (1 .. m) : h[s] = IF m \in s THEN After(fs, g[s \ {m}], q[m]) ELSE g[s]
  BY DEF WalkMore
<1>2. ASSUME NEW s \in SUBSET (1 .. m)
      PROVE  h[s] = IF s = {} THEN 0 ELSE After(fs, h[s \ {Max(s)}], q[Max(s)])
  <2>1. CASE m \in s
    <3>1. Max(s) = m
      BY <2>1, MaxIs
    <3>2. s \ {m} \in SUBSET (1 .. m) /\ m \notin s \ {m} /\ s # {}
      BY <2>1
    <3>3. h[s \ {m}] = g[s \ {m}]
      BY <1>1, <3>2
    <3>4. QED
      BY <1>1, <2>1, <3>1, <3>2, <3>3
  <2>2. CASE m \notin s
    <3>1. s \in SUBSET (1 .. (m - 1))
      BY <2>2
    <3>2. h[s] = g[s]
      BY <1>1, <2>2
    <3>3. g[s] = IF s = {} THEN 0 ELSE After(fs, g[s \ {Max(s)}], q[Max(s)])
      BY <3>1 DEF WalkOf
    <3>4. s \ {Max(s)} \in SUBSET (1 .. m) /\ m \notin s \ {Max(s)}
      BY <2>2
    <3>5. h[s \ {Max(s)}] = g[s \ {Max(s)}]
      BY <1>1, <3>4
    <3>6. QED
      BY <3>2, <3>3, <3>5
  <2>3. QED
    BY <2>1, <2>2
<1>3. h = [s \in SUBSET (1 .. m) |-> h[s]]
  BY DEF WalkMore
<1>4. QED
  BY <1>2, <1>3 DEF WalkOf

(* There is such a function.                                               *)
LEMMA WalkExists ==
  ASSUME NEW fs, NEW q, NEW k \in Nat
  PROVE  \E g : WalkOf(fs, q, 1 .. k, g)
<1> DEFINE Bad == {m \in Nat : ~ \E g : WalkOf(fs, q, 1 .. m, g)}
<1>1. Bad = {}
  <2> SUFFICES ASSUME Bad # {} PROVE FALSE
    OBVIOUS
  <2>1. Min(Bad) \in Bad /\ \A x \in Bad : Min(Bad) <= x
    BY MinExists
  <2>2. PICK m \in Bad : \A x \in Bad : m <= x
    BY <2>1
  <2>3. m # 0
    <3> DEFINE g == [s \in SUBSET {} |-> 0]
    <3>1. 1 .. 0 = {}
      OBVIOUS
    <3>2. \A s \in SUBSET {} : s = {}
      OBVIOUS
    <3>3. g = [s \in SUBSET {} |-> IF s = {} THEN 0 ELSE After(fs, g[s \ {Max(s)}], q[Max(s)])]
      BY <3>2
    <3>4. WalkOf(fs, q, 1 .. 0, g)
      BY <3>1, <3>3 DEF WalkOf
    <3>5. QED
      BY <3>4
  <2>4. m - 1 \in Nat /\ m - 1 \notin Bad
    BY <2>2, <2>3
  <2>5. PICK g : WalkOf(fs, q, 1 .. (m - 1), g)
    BY <2>4
  <2>6. WalkOf(fs, q, 1 .. m, WalkMore(fs, q, m, g))
    BY <2>3, <2>5, WalkExtends
  <2>7. QED
    BY <2>6
<1>2. QED
  BY <1>1

(* Its value for the first i components.                                   *)
StepByStep(fs, q, k, g) ==
  /\ g[1 .. 0] = 0
  /\ \A i \in 1 .. k : g[1 .. i] = After(fs, g[1 .. (i - 1)], q[i])

(* It is reached one component at a time.                                  *)
LEMMA WalkValues ==
  ASSUME NEW fs, NEW q, NEW k \in Nat, NEW g, WalkOf(fs, q, 1 .. k, g)
  PROVE  StepByStep(fs, q, k, g)
<1>1. \A s \in SUBSET (1 .. k) :
        g[s] = IF s = {} THEN 0 ELSE After(fs, g[s \ {Max(s)}], q[Max(s)])
  BY DEF WalkOf
<1>2. g[1 .. 0] = 0
  <2>1. 1 .. 0 = {} /\ {} \in SUBSET (1 .. k)
    OBVIOUS
  <2>2. QED
    BY <1>1, <2>1
<1>3. ASSUME NEW i \in 1 .. k PROVE g[1 .. i] = After(fs, g[1 .. (i - 1)], q[i])
  <2>0. i \in Nat /\ i >= 1 /\ i <= k
    OBVIOUS
  <2>1. (1 .. i) \in SUBSET (1 .. k) /\ 1 .. i # {} /\ i \in 1 .. i
    <3>1. 1 .. i \subseteq 1 .. k
      BY <2>0
    <3>2. i \in 1 .. i
      BY <2>0
    <3>3. QED
      BY <3>1, <3>2
  <2>2. Max(1 .. i) = i
    BY <2>1, MaxIs
  <2>3. (1 .. i) \ {i} = 1 .. (i - 1)
    OBVIOUS
  <2>4. QED
    BY <1>1, <2>1, <2>2, <2>3
<1>4. QED
  BY <1>2, <1>3 DEF StepByStep

(* Where the components are the same the walks are.                        *)
LEMMA WalksAgree ==
  ASSUME NEW fs, NEW p, NEW q, NEW k \in Nat, NEW m \in Nat, k <= m,
         \A i \in 1 .. k : p[i] = q[i],
         NEW g, WalkOf(fs, p, 1 .. k, g), NEW h, WalkOf(fs, q, 1 .. m, h)
  PROVE  g[1 .. k] = h[1 .. k]
<1> DEFINE Bad == {i \in Nat : i <= k /\ g[1 .. i] # h[1 .. i]}
<1>1. /\ g[1 .. 0] = 0
      /\ \A i \in 1 .. k : g[1 .. i] = After(fs, g[1 .. (i - 1)], p[i])
  <2>1. StepByStep(fs, p, k, g)
    BY WalkValues
  <2>2. QED
    BY <2>1 DEF StepByStep
<1>2. /\ h[1 .. 0] = 0
      /\ \A i \in 1 .. m : h[1 .. i] = After(fs, h[1 .. (i - 1)], q[i])
  <2>1. StepByStep(fs, q, m, h)
    BY WalkValues
  <2>2. QED
    BY <2>1 DEF StepByStep
<1>3. Bad = {}
  <2> SUFFICES ASSUME Bad # {} PROVE FALSE
    OBVIOUS
  <2>1. Min(Bad) \in Bad /\ \A x \in Bad : Min(Bad) <= x
    BY MinExists
  <2>2. PICK i \in Bad : \A x \in Bad : i <= x
    BY <2>1
  <2>3. i # 0
    BY <1>1, <1>2
  <2>4. i \in 1 .. k /\ i \in 1 .. m /\ i - 1 \in Nat /\ i - 1 <= k
    BY <2>3
  <2>5. i - 1 \notin Bad
    BY <2>2, <2>4
  <2>6. g[1 .. (i - 1)] = h[1 .. (i - 1)]
    BY <2>4, <2>5
  <2>7. g[1 .. i] = h[1 .. i]
    BY <1>1, <1>2, <2>4, <2>6
  <2>8. QED
    BY <2>2, <2>7
<1>4. QED
  BY <1>3

(* Nothing to follow, and one component more.                              *)
LEMMA WalkSteps ==
  ASSUME NEW fs, NEW q, NEW k \in Nat, DOMAIN q = 1 .. k
  PROVE  /\ k = 0 => Walk(fs, q) = 0
         /\ \A p : (k > 0 /\ DOMAIN p = 1 .. (k - 1) /\ \A i \in 1 .. (k - 1) : p[i] = q[i])
                     => Walk(fs, q) = After(fs, Walk(fs, p), q[k])
<1> DEFINE g == CHOOSE g : WalkOf(fs, q, 1 .. k, g)
<1>1. WalkOf(fs, q, 1 .. k, g)
  BY WalkExists
<1>2. Walk(fs, q) = g[1 .. k]
  BY WalkIsChosen
<1> HIDE DEF g
<1>3. /\ g[1 .. 0] = 0
      /\ \A i \in 1 .. k : g[1 .. i] = After(fs, g[1 .. (i - 1)], q[i])
  <2>1. StepByStep(fs, q, k, g)
    BY <1>1, WalkValues
  <2>2. QED
    BY <2>1 DEF StepByStep
<1>4. ASSUME NEW p, k > 0, DOMAIN p = 1 .. (k - 1), \A i \in 1 .. (k - 1) : p[i] = q[i]
      PROVE  Walk(fs, q) = After(fs, Walk(fs, p), q[k])
  <2> DEFINE h == CHOOSE h : WalkOf(fs, p, 1 .. (k - 1), h)
  <2>0. k - 1 \in Nat
    BY <1>4
  <2>1. WalkOf(fs, p, 1 .. (k - 1), h)
    BY <2>0, WalkExists
  <2>2. Walk(fs, p) = h[1 .. (k - 1)]
    BY <1>4, WalkIsChosen
  <2> HIDE DEF h
  <2>3. h[1 .. (k - 1)] = g[1 .. (k - 1)]
    <3> DEFINE l == k - 1
    <3>1. l \in Nat /\ l <= k /\ \A i \in 1 .. l : p[i] = q[i]
      BY <1>4, <2>0
    <3>2. WalkOf(fs, p, 1 .. l, h)
      BY <2>1
    <3> HIDE DEF l
    <3>3. h[1 .. l] = g[1 .. l]
      BY <1>1, <3>1, <3>2, WalksAgree
    <3>4. QED
      BY <3>3 DEF l
  <2>4. g[1 .. k] = After(fs, g[1 .. (k - 1)], q[k])
    BY <1>3, <1>4
  <2>5. QED
    BY <1>2, <2>2, <2>3, <2>4
<1>5. QED
  BY <1>2, <1>3, <1>4

(* A name that is found is the name of a live entry, and rd_unlink looks   *)
(* for it in the same range of blocks.                                     *)
LEMMA LookupFinds ==
  ASSUME NEW fs, Good(fs), NEW par, Named(fs, par), NEW dir \in InodeNum, NEW name,
         Lookup(fs, dir, name) # NULL
  PROVE  \E k \in BlockIdx, j \in EntryIdx :
           /\ BlockAt(fs, dir, k) # NULL
           /\ EntryAt(fs, dir, k, j).name = name
           /\ EntryAt(fs, dir, k, j).inode_num = Lookup(fs, dir, name)
           /\ name # NoName => NamedAt(fs, dir, name, k, j)
<1> DEFINE first(b) == fs.data_blocks[b].entries[Min(Matches(fs, b, name))].inode_num
           hits == {i \in BlockIdx : LET b == BlockAt(fs, dir, i)
                                     IN  /\ b # NULL
                                         /\ Matches(fs, b, name) # {}
                                         /\ first(b) # dir}
           k == Min(hits)
           c == BlockAt(fs, dir, k)
           j == Min(Matches(fs, c, name))
<1>1. hits # {} /\ Lookup(fs, dir, name) = first(c)
  BY DEF Lookup
<1>2. k \in hits /\ \A i \in hits : k <= i
  <2>1. hits \subseteq Nat
    BY DEF BlockIdx
  <2> HIDE DEF hits
  <2>2. QED
    BY <1>1, <2>1, MinExists
<1>3. k \in BlockIdx /\ c # NULL /\ Matches(fs, c, name) # {}
  BY <1>2
<1>4. \A b : Matches(fs, b, name) # {} => /\ Min(Matches(fs, b, name)) \in EntryIdx
                                          /\ fs.data_blocks[b].entries[Min(Matches(fs, b, name))].name = name
  <2> SUFFICES ASSUME NEW b, NEW S, S = Matches(fs, b, name), S # {}
               PROVE  Min(S) \in EntryIdx /\ fs.data_blocks[b].entries[Min(S)].name = name
    OBVIOUS
  <2>1. S \subseteq Nat
    BY DEF Matches, EntryIdx
  <2>2. Min(S) \in S
    BY <2>1, MinExists
  <2>3. QED
    BY <2>2 DEF Matches
<1>5. j \in EntryIdx /\ EntryAt(fs, dir, k, j).name = name
  BY <1>3, <1>4 DEF EntryAt
<1>6. EntryAt(fs, dir, k, j).inode_num = Lookup(fs, dir, name)
  BY <1>1 DEF EntryAt
<1>7. ASSUME name # NoName, k \notin DirectIdx, NEW i \in BlockIdx \cap DirectIdx, NEW l \in EntryIdx,
             BlockAt(fs, dir, i) # NULL, EntryAt(fs, dir, i, l).name = name
      PROVE  FALSE
  <2> DEFINE b == BlockAt(fs, dir, i)
             m == Min(Matches(fs, b, name))
  <2>1. l \in Matches(fs, b, name)
    BY <1>7 DEF Matches, EntryAt
  <2>2. m \in EntryIdx /\ EntryAt(fs, dir, i, m).name = name
    BY <1>4, <2>1 DEF EntryAt
  <2>3. EntryAt(fs, dir, i, m).inode_num # 0 /\ par[EntryAt(fs, dir, i, m).inode_num] = dir
    <3>1. EntriesLead(fs, par)
      BY DEF Named
    <3> HIDE DEF m
    <3>2. QED
      BY <1>7, <2>2, <3>1 DEF EntriesLead
  <2>4. EntryAt(fs, dir, i, m).inode_num # dir
    BY <2>3 DEF Named, Forest
  <2>5. i \in hits
    BY <1>7, <2>1, <2>4 DEF EntryAt
  <2> HIDE DEF hits, k
  <2>6. k <= i
    BY <1>2, <2>5
  <2>7. k \in Nat /\ i \in Nat /\ i < INODE_NUM_DIRECT_PTR
    <3>1. k \in BlockIdx
      BY <1>3
    <3>2. \A x \in BlockIdx : x \in Nat
      BY DEF BlockIdx
    <3>3. \A x \in DirectIdx : x < INODE_NUM_DIRECT_PTR
      BY DiscosAssumption DEF DirectIdx
    <3>4. QED
      BY <3>1, <3>2, <3>3
  <2>8. k \in DirectIdx
    BY <2>6, <2>7, DiscosAssumption DEF DirectIdx
  <2>9. QED
    BY <1>7, <2>8
<1> HIDE DEF k, j
<1>8. name # NoName => NamedAt(fs, dir, name, k, j)
  BY <1>3, <1>5, <1>7 DEF NamedAt
<1>9. QED
  BY <1>3, <1>5, <1>6, <1>8

(* What a name leads to can be searched in turn; only the empty string     *)
(* leads to the root.                                                      *)
LEMMA LookupLeads ==
  ASSUME NEW fs, Good(fs), NEW par, Named(fs, par), NEW dir \in InodeNum, NEW name,
         Lookup(fs, dir, name) # NULL
  PROVE  /\ IsParent(fs, Lookup(fs, dir, name))
         /\ name \in Names \cup {NoName}
         /\ name # NoName => Lookup(fs, dir, name) # 0
<1>1. PICK k \in BlockIdx, j \in EntryIdx :
           /\ BlockAt(fs, dir, k) # NULL
           /\ EntryAt(fs, dir, k, j).name = name
           /\ EntryAt(fs, dir, k, j).inode_num = Lookup(fs, dir, name)
  BY LookupFinds
<1> DEFINE t == Lookup(fs, dir, name)
<1>2. t \in InodeNum /\ name \in Names \cup {NoName}
  BY <1>1, EntryTyped DEF DirEntry
<1>3. /\ t = 0 => name = NoName
      /\ t # 0 => par[t] = dir
  BY <1>1 DEF Named, EntriesLead
<1> HIDE DEF t
<1>4. t # 0 => fs.inodes[t].type # ""
  BY <1>2, <1>3, InodeFacts DEF Named, FreeBlank
<1>5. QED
  BY <1>2, <1>3, <1>4 DEF IsParent, t

(* A pathname leads to an inode that can be searched, or nowhere.          *)
LEMMA WalkLeads ==
  ASSUME NEW fs, Good(fs), NEW par, Named(fs, par), NEW k \in Nat, NEW q, DOMAIN q = 1 .. k
  PROVE  Walk(fs, q) = NULL \/ IsParent(fs, Walk(fs, q))
<1> DEFINE Ends(p)   == Walk(fs, p) = NULL \/ IsParent(fs, Walk(fs, p))
           Bad == {m \in Nat : \E p : DOMAIN p = 1 .. m /\ ~ Ends(p)}
<1>0. IsParent(fs, 0)
  BY InodeFacts DEF IsParent
<1>1. Bad = {}
  <2> SUFFICES ASSUME Bad # {} PROVE FALSE
    OBVIOUS
  <2>1. Min(Bad) \in Bad /\ \A x \in Bad : Min(Bad) <= x
    BY MinExists
  <2>2. PICK m \in Bad : \A x \in Bad : m <= x
    BY <2>1
  <2>3. PICK p : DOMAIN p = 1 .. m /\ ~ Ends(p)
    BY <2>2
  <2>4. m \in Nat
    OBVIOUS
  <2>5. m # 0
    <3>1. m = 0 => Walk(fs, p) = 0
      BY <2>3, <2>4, WalkSteps
    <3>2. QED
      BY <1>0, <2>3, <3>1
  <2> DEFINE r == [i \in 1 .. (m - 1) |-> p[i]]
  <2>6. m - 1 \in Nat /\ m - 1 \notin Bad
    BY <2>2, <2>4, <2>5
  <2>7. DOMAIN r = 1 .. (m - 1) /\ \A i \in 1 .. (m - 1) : r[i] = p[i]
    OBVIOUS
  <2> HIDE DEF r
  <2>8. Ends(r)
    BY <2>6, <2>7
  <2>9. Walk(fs, p) = After(fs, Walk(fs, r), p[m])
    BY <2>3, <2>4, <2>5, <2>7, WalkSteps
  <2>10. CASE Walk(fs, r) = NULL
    BY <2>3, <2>9, <2>10 DEF After
  <2>11. CASE Walk(fs, r) # NULL
    <3>1. Walk(fs, r) \in InodeNum
      BY <2>8, <2>11 DEF IsParent
    <3>2. Walk(fs, p) = Lookup(fs, Walk(fs, r), p[m])
      BY <2>9, <2>11 DEF After
    <3>3. QED
      BY <2>3, <3>1, <3>2, LookupLeads
  <2>12. QED
    BY <2>10, <2>11
<1>2. QED
  BY <1>1

(* A pathname but for the root's is a sequence of names.                   *)
LEMMA PathIs ==
  ASSUME NEW path \in Paths, path # Root
  PROVE  \E k \in Nat \ {0} :
           /\ path \in [1 .. k -> Names]
           /\ Len(path) = k /\ Last(path) = path[k]
           /\ Front(path) \in [1 .. (k - 1) -> Names]
           /\ \A i \in 1 .. (k - 1) : Front(path)[i] = path[i]
<1>1. PICK k \in 1 .. MAX_DEPTH : path \in [1 .. k -> Names]
  BY DEF Paths
<1>2. k \in Nat \ {0}
  BY DiscosAssumption
<1>3. Len(path) = k
  BY <1>1, <1>2
<1>4. Last(path) = path[k]
  BY <1>3 DEF Last
<1>5. path \in Seq(Names)
  BY <1>1, <1>2
<1>6. Front(path) = SubSeq(path, 1, k - 1)
  BY <1>3 DEF Front
<1>7. /\ Front(path) \in [1 .. (k - 1) -> Names]
      /\ \A i \in 1 .. (k - 1) : Front(path)[i] = path[i]
  <2> DEFINE l == k - 1
             f == SubSeq(path, 1, l)
  <2>1. l \in Nat /\ l <= Len(path)
    BY <1>2, <1>3
  <2>2. Len(f) = l
    BY <1>5, <2>1
  <2>3. \A i \in 1 .. l : f[i] = path[i]
    BY <1>5, <2>1
  <2>4. f \in Seq(Names)
    BY <1>5, <2>1
  <2> HIDE DEF f, l
  <2>5. f \in [1 .. l -> Names]
    BY <2>2, <2>4
  <2>6. Front(path) = f
    BY <1>6 DEF f, l
  <2>7. Front(path) \in [1 .. l -> Names] /\ \A i \in 1 .. l : Front(path)[i] = path[i]
    BY <2>3, <2>5, <2>6
  <2>8. QED
    BY <2>7 DEF l
<1>8. QED
  BY <1>1, <1>2, <1>3, <1>4, <1>7

(* The empty string is nobody's name, so that a sequence of names is not   *)
(* "/".                                                                    *)
LEMMA NotRoot ==
  ASSUME NEW q, NEW k \in Nat, DOMAIN q = 1 .. k, k > 0 => q[k] # NoName
  PROVE  q # Root
<1>1. DOMAIN Root = 1 .. 1 /\ Root[1] = NoName
  BY DEF Root
<1>2. ASSUME q = Root PROVE FALSE
  <2>1. 1 .. k = 1 .. 1
    BY <1>1, <1>2
  <2>2. k = 1
    BY <2>1
  <2>3. QED
    BY <1>1, <1>2, <2>2
<1>3. QED
  BY <1>2

(* The parent that the pathname names.                                     *)
ParentOf(path) == IF Len(path) = 1 THEN Root ELSE Front(path)

(* It is "/" or a sequence of names, one shorter.                          *)
LEMMA ParentOfIs ==
  ASSUME NoName \notin Names, NEW path \in Paths, path # Root
  PROVE  \/ ParentOf(path) = Root /\ Len(path) = 1
         \/ \E k \in Nat \ {0} :
              /\ Len(path) = k + 1
              /\ ParentOf(path) \in [1 .. k -> Names] /\ ParentOf(path) # Root
              /\ \A i \in 1 .. k : ParentOf(path)[i] = path[i]
<1>1. CASE Len(path) = 1
  BY <1>1 DEF ParentOf
<1>2. CASE Len(path) # 1
  <2>1. PICK l \in Nat \ {0} :
           /\ Len(path) = l
           /\ Front(path) \in [1 .. (l - 1) -> Names]
           /\ \A i \in 1 .. (l - 1) : Front(path)[i] = path[i]
    BY PathIs
  <2> DEFINE k == l - 1
  <2>2. k \in Nat \ {0} /\ Len(path) = k + 1
    BY <1>2, <2>1
  <2>3. ParentOf(path) \in [1 .. k -> Names] /\ \A i \in 1 .. k : ParentOf(path)[i] = path[i]
    BY <1>2, <2>1 DEF ParentOf
  <2> HIDE DEF k
  <2>4. ParentOf(path)[k] \in Names /\ DOMAIN ParentOf(path) = 1 .. k
    BY <2>2, <2>3
  <2>5. ParentOf(path) # Root
    BY <2>2, <2>4, NotRoot
  <2>6. QED
    BY <2>2, <2>3, <2>5
<1>3. QED
  BY <1>1, <1>2

(* What parse_absolute_path hands back: that parent, or it with another    *)
(* last component.                                                         *)
LEMMA ParentIs ==
  ASSUME NoName \notin Names, NEW path \in Paths, NEW parent \in parse_absolute_path(path)
  PROVE  \/ parent = ParentOf(path) /\ \E k \in Nat \ {0} : DOMAIN parent = 1 .. k
         \/ \E k \in Nat \ {0}, r \in Residue : DOMAIN parent = 1 .. k /\ parent[k] = r[2]
<1>1. CASE Len(path) = 1
  <2>1. parent = ParentOf(path) /\ DOMAIN parent = 1 .. 1
    BY <1>1 DEF parse_absolute_path, ParentOf, Root
  <2>2. QED
    BY <2>1
<1>2. CASE Len(path) # 1
  <2>1. path # Root
    BY <1>2 DEF Root
  <2>2. PICK k \in Nat \ {0} : ParentOf(path) \in [1 .. k -> Names]
    BY <1>2, <2>1, ParentOfIs
  <2> DEFINE p == ParentOf(path)
  <2>3. parent = p \/ \E r \in Residue : parent = Append(Front(p), r[2])
    BY <1>2 DEF parse_absolute_path, ParentOf
  <2> HIDE DEF p
  <2>4. p \in [1 .. k -> Names] /\ p = ParentOf(path)
    BY <2>2 DEF p
  <2>5. CASE parent = p
    BY <2>4, <2>5
  <2>6. CASE \E r \in Residue : parent = Append(Front(p), r[2])
    <3>1. PICK r \in Residue : parent = Append(Front(p), r[2])
      BY <2>6
    <3>2. p \in Seq(Names) /\ Len(p) = k
      BY <2>4
    <3>3. Front(p) = SubSeq(p, 1, k - 1)
      BY <3>2 DEF Front
    <3>4. Front(p) \in Seq(Names) /\ Len(Front(p)) = k - 1
      BY <2>2, <3>2, <3>3
    <3>5. DOMAIN parent = 1 .. k /\ parent[k] = r[2]
      BY <2>2, <3>1, <3>4
    <3>6. QED
      BY <3>5
  <2>7. QED
    BY <2>3, <2>5, <2>6
<1>3. QED
  BY <1>1, <1>2

(* The directory that rd_create and rd_unlink find for a pathname, be it   *)
(* the right one or not.                                                   *)
LEMMA ParentLeads ==
  ASSUME NoName \notin Names, NEW fs, Good(fs), NEW par, Named(fs, par),
         NEW path \in Paths, NEW parent \in parse_absolute_path(path),
         NEW dir, dir = my_find_inode_number(fs, parent), dir \in InodeNum
  PROVE  IsParent(fs, dir)
<1>1. CASE parent = Root
  BY <1>1, FindIsWalk, InodeFacts DEF IsParent
<1>2. CASE parent # Root
  <2>1. PICK k \in Nat \ {0} : DOMAIN parent = 1 .. k
    BY ParentIs
  <2>2. dir = Walk(fs, parent)
    BY <1>2, FindIsWalk
  <2>3. Walk(fs, parent) = NULL \/ IsParent(fs, Walk(fs, parent))
    BY <2>1, WalkLeads
  <2>4. QED
    BY <2>2, <2>3, InodeFacts
<1>3. QED
  BY <1>1, <1>2

(* A name that is nobody's leads nowhere.                                  *)
LEMMA StrangerLeadsNowhere ==
  ASSUME NEW fs, Good(fs), NEW par, Named(fs, par), NEW k \in Nat \ {0},
         NEW q, DOMAIN q = 1 .. k, q[k] \notin Names \cup {NoName}
  PROVE  Walk(fs, q) = NULL
<1> DEFINE r == [i \in 1 .. (k - 1) |-> q[i]]
<1>1. DOMAIN r = 1 .. (k - 1) /\ (\A i \in 1 .. (k - 1) : r[i] = q[i]) /\ k - 1 \in Nat
  OBVIOUS
<1> HIDE DEF r
<1>2. Walk(fs, q) = After(fs, Walk(fs, r), q[k])
  BY <1>1, WalkSteps
<1>3. Walk(fs, r) = NULL \/ IsParent(fs, Walk(fs, r))
  BY <1>1, WalkLeads
<1>4. CASE Walk(fs, r) = NULL
  BY <1>2, <1>4 DEF After
<1>5. CASE Walk(fs, r) # NULL
  <2>1. Walk(fs, r) \in InodeNum
    BY <1>3, <1>5 DEF IsParent
  <2>2. Walk(fs, q) = Lookup(fs, Walk(fs, r), q[k])
    BY <1>2, <1>5 DEF After
  <2>3. QED
    BY <2>1, <2>2, LookupLeads
<1>6. QED
  BY <1>4, <1>5

(* The file that rd_unlink has for the pathname is the one that the name   *)
(* leads to in the directory of the pathname.                              *)
LEMMA FileBelow ==
  ASSUME NoName \notin Names, NEW fs, Good(fs), NEW par, Named(fs, par),
         NEW path \in Paths, path # Root,
         NEW file, file = my_find_inode_number(fs, path), file \in InodeNum,
         NEW dir, dir = my_find_inode_number(fs, ParentOf(path))
  PROVE  /\ dir \in InodeNum
         /\ file = Lookup(fs, dir, Last(path))
         /\ Last(path) \in Names
<1> DEFINE parent == ParentOf(path)
<1>0. file # NULL /\ 0 # NULL /\ 0 \in InodeNum
  BY InodeFacts
<1>1. PICK k \in Nat \ {0} :
           path \in [1 .. k -> Names] /\ Len(path) = k /\ Last(path) = path[k]
  BY PathIs
<1>2. Last(path) \in Names /\ DOMAIN path = 1 .. k /\ file = Walk(fs, path)
  BY <1>1, FindIsWalk
<1>3. CASE parent = Root /\ Len(path) = 1
  <2> DEFINE r == [i \in 1 .. (k - 1) |-> path[i]]
  <2>1. k = 1
    BY <1>1, <1>3
  <2>2. DOMAIN r = 1 .. 0 /\ \A i \in 1 .. 0 : r[i] = path[i]
    BY <2>1
  <2> HIDE DEF r
  <2>3. Walk(fs, r) = 0
    BY <2>2, WalkSteps
  <2>4. Walk(fs, path) = After(fs, Walk(fs, r), path[1])
    <3>1. DOMAIN r = 1 .. (k - 1) /\ (\A i \in 1 .. (k - 1) : r[i] = path[i])
      BY <2>1, <2>2
    <3>2. Walk(fs, path) = After(fs, Walk(fs, r), path[k])
      BY <1>1, <1>2, <3>1, WalkSteps
    <3>3. QED
      BY <2>1, <3>2
  <2>5. dir = 0
    BY <1>3, FindIsWalk
  <2>6. QED
    BY <1>0, <1>1, <1>2, <2>1, <2>3, <2>4, <2>5 DEF After
<1>4. CASE \E l \in Nat \ {0} :
              /\ Len(path) = l + 1
              /\ parent \in [1 .. l -> Names] /\ parent # Root
              /\ \A i \in 1 .. l : parent[i] = path[i]
  <2>1. PICK l \in Nat \ {0} :
              /\ Len(path) = l + 1
              /\ parent \in [1 .. l -> Names] /\ parent # Root
              /\ \A i \in 1 .. l : parent[i] = path[i]
    BY <1>4
  <2>2. k - 1 = l
    BY <1>1, <2>1
  <2>3. dir = Walk(fs, parent)
    BY <2>1, FindIsWalk
  <2>4. DOMAIN parent = 1 .. (k - 1) /\ (\A i \in 1 .. (k - 1) : parent[i] = path[i])
    BY <2>1, <2>2
  <2> HIDE DEF parent
  <2>5. Walk(fs, path) = After(fs, Walk(fs, parent), path[k])
    BY <1>1, <1>2, <2>4, WalkSteps
  <2>6. Walk(fs, parent) # NULL
    BY <1>0, <1>2, <2>5 DEF After
  <2>7. dir \in InodeNum
    <3>1. k - 1 \in Nat
      BY <2>2
    <3>2. IsParent(fs, Walk(fs, parent))
      BY <2>4, <2>6, <3>1, WalkLeads
    <3>3. QED
      BY <2>3, <3>2 DEF IsParent
  <2>8. QED
    BY <1>1, <1>2, <2>3, <2>5, <2>6, <2>7 DEF After
<1>5. QED
  BY <1>3, <1>4, ParentOfIs

(* A directory that rd_unlink finds is that one, if what is left in memory *)
(* makes no name.                                                          *)
LEMMA ParentFound ==
  ASSUME MemoryUnambiguous, NEW fs, Good(fs), NEW par, Named(fs, par),
         NEW path \in Paths, NEW parent \in parse_absolute_path(path),
         my_find_inode_number(fs, parent) \in InodeNum
  PROVE  parent = ParentOf(path)
<1>1. NoName \notin Names /\ \A r \in Residue : r[2] \notin Names \cup {NoName}
  BY DEF MemoryUnambiguous
<1>2. ASSUME NEW k \in Nat \ {0}, NEW r \in Residue, DOMAIN parent = 1 .. k, parent[k] = r[2]
      PROVE  FALSE
  <2>1. parent[k] \notin Names \cup {NoName}
    BY <1>1, <1>2
  <2>2. parent # Root
    BY <1>2, <2>1, NotRoot
  <2>3. my_find_inode_number(fs, parent) = NULL
    BY <1>2, <2>1, <2>2, StrangerLeadsNowhere, FindIsWalk
  <2>4. QED
    BY <2>3, InodeFacts
<1>3. QED
  BY <1>1, <1>2, ParentIs

-----------------------------------------------------------------------------
(* The calls                                                               *)

(* A file system whose entries and sizes agree with some tree.             *)
Treelike(fs) == \E par : Named(fs, par)

(* What rd_create does: nothing, or it searches and gives up, or it makes  *)
(* an entry.                                                               *)
Searches(fs, dir, gs) == IsParent(fs, dir) /\ gs = get_next_entry(fs, dir).fs

(* Or it searches, and enters a new inode under this name in what it       *)
(* found.                                                                  *)
Creates(fs, gs, par, name) ==
  \E dir, n, z, e :
    /\ Searches(fs, dir, e.fs)
    /\ Entering(e.fs, par, e.block, e.slot, name, dir, n, z, gs)

(* No other outcome of rd_create is possible.                              *)
LEMMA CreateAllocatedIs ==
  ASSUME NoName \notin Names, Good(discos), NEW par, Named(discos, par),
         NEW path \in Paths, NEW type \in {"dir", "reg"}, NEW mode \in Nat,
         create_allocated(path, type, mode)
  PROVE  \/ discos' = discos
         \/ \E dir : Searches(discos, dir, discos')
         \/ Creates(discos, discos', par, Last(path))
<1>1. CASE Refused
  BY <1>1 DEF Refused
<1>2. ASSUME NEW parent \in parse_absolute_path(path),
             NEW dir \in InodeNum, dir = my_find_inode_number(discos, parent),
             discos' = get_next_entry(discos, dir).fs
      PROVE  Searches(discos, dir, discos')
  BY <1>2, ParentLeads DEF Searches
<1>3. ASSUME NEW parent \in parse_absolute_path(path),
             NEW dir \in InodeNum, dir = my_find_inode_number(discos, parent),
             NEW e, e = get_next_entry(discos, dir),
             NEW n, n = get_free_inode_num(e.fs), e.block # NULL, n # NULL,
             discos' = FillEntry(e, dir, n, Last(path), type, mode)
      PROVE  Creates(discos, discos', par, Last(path))
  <2>1. IsParent(discos, dir)
    BY <1>3, ParentLeads
  <2>2. Last(path) \in Names \cup {NoName}
    BY LastComponent
  <2>3. Entering(e.fs, par, e.block, e.slot, Last(path), dir, n, NewInode(type, mode), discos')
    BY <1>3, <2>1, <2>2, CreateEnters
  <2>4. Searches(discos, dir, e.fs)
    BY <1>3, <2>1 DEF Searches
  <2>5. QED
    BY <2>3, <2>4 DEF Creates
<1>4. QED
  BY <1>1, <1>2, <1>3 DEF create_allocated

(* Searching keeps the invariant, ...                                      *)
LEMMA SearchesNamed ==
  ASSUME NEW fs, Good(fs), NEW par, Named(fs, par), NEW dir, NEW gs, Searches(fs, dir, gs)
  PROVE  /\ Named(gs, par)
         /\ Counted(fs) => Counted(gs)
         /\ dir \in InodeNum /\ Kept(fs, gs, dir)
<1>1. IsParent(fs, dir) /\ dir \in InodeNum
  BY DEF Searches, IsParent
<1>2. Kept(fs, gs, dir)
  BY <1>1, EntryKept DEF FoundKept, Searches
<1>3. QED
  BY <1>1, <1>2, KeptNamed, KeptCounted

(* ... and so does making an entry.                                        *)
LEMMA CreatesNamed ==
  ASSUME SizesFit, NEW fs, Good(fs), NEW par, Named(fs, par), NEW gs, NEW name,
         Creates(fs, gs, par, name)
  PROVE  /\ Treelike(gs)
         /\ Counted(fs) => Counted(gs)
<1>1. PICK dir, n, z, e :
           /\ Searches(fs, dir, e.fs)
           /\ Entering(e.fs, par, e.block, e.slot, name, dir, n, z, gs)
  BY DEF Creates
<1>2. Counted(fs) => Counted(e.fs)
  BY <1>1, SearchesNamed
<1>3. Named(gs, Adopted(par, n, dir)) /\ (Counted(e.fs) => Counted(gs))
  BY <1>1, EnteredNamed, EnteredCounted
<1>4. QED
  BY <1>2, <1>3 DEF Treelike

(* rd_create keeps the invariant, done or given up half-way, whatever the  *)
(* parent's copy reads as.                                                 *)
LEMMA CreateAllocatedNamed ==
  ASSUME NoName \notin Names, SizesFit, Good(discos), Treelike(discos),
         NEW path \in Paths, NEW type \in {"dir", "reg"}, NEW mode \in Nat,
         create_allocated(path, type, mode)
  PROVE  /\ Treelike(discos)'
         /\ Counted(discos) => Counted(discos)'
<1>1. PICK par : Named(discos, par)
  BY DEF Treelike
<1>2. CASE discos' = discos
  BY <1>2 DEF Treelike, Named, Counted
<1>3. CASE \E dir : Searches(discos, dir, discos')
  <2>1. Named(discos', par) /\ (Counted(discos) => Counted(discos'))
    BY <1>1, <1>3, SearchesNamed
  <2>2. QED
    BY <2>1 DEF Treelike
<1>4. CASE Creates(discos, discos', par, Last(path))
  <2>1. Treelike(discos') /\ (Counted(discos) => Counted(discos'))
    BY <1>1, <1>4, CreatesNamed
  <2>2. QED
    BY <2>1
<1>5. QED
  BY <1>1, <1>2, <1>3, <1>4, CreateAllocatedIs

(* rd_unlink does too, on the parent that the pathname names, as long as   *)
(* the pathname still leads to the inode.                                  *)
LEMMA UnlinkParentNamed ==
  ASSUME NoName \notin Names, SizesFit, NEW fs, Good(fs), NEW par, Named(fs, par),
         NEW path \in Paths, path # Root,
         NEW file \in InodeNum, file = my_find_inode_number(fs, path),
         NEW dir, dir = my_find_inode_number(fs, ParentOf(path)),
         NEW gs, gs = Unlink(fs, file, dir, Last(path))
  PROVE  /\ file # 0
         /\ \E k, j : Unlinking(fs, par, file, dir, Last(path), k, j, gs)
         /\ Treelike(gs)
         /\ Counted(fs) => Counted(gs)
<1>1. file = Lookup(fs, dir, Last(path)) /\ Last(path) \in Names /\ dir \in InodeNum
  BY FileBelow
<1>2. IsParent(fs, dir)
  <2>1. ParentOf(path) \in parse_absolute_path(path)
    BY DEF ParentOf, parse_absolute_path
  <2>2. QED
    BY <1>1, <2>1, ParentLeads
<1>3. file # NULL /\ Last(path) # NoName
  BY <1>1, InodeFacts
<1>4. file # 0
  BY <1>1, <1>3, LookupLeads
<1>5. PICK k \in BlockIdx, j \in EntryIdx :
         /\ EntryAt(fs, dir, k, j).inode_num = file
         /\ NamedAt(fs, dir, Last(path), k, j)
  BY <1>1, <1>3, LookupFinds
<1>6. Unlinking(fs, par, file, dir, Last(path), k, j, gs)
  BY <1>2, <1>3, <1>4, <1>5 DEF Unlinking
<1>7. Named(gs, Orphaned(par, file)) /\ (Counted(fs) => Counted(gs))
  BY <1>6, UnlinkNamed, UnlinkCounted
<1>8. QED
  BY <1>4, <1>6, <1>7 DEF Treelike

(* rd_mkdir("/") is only done where no inode is in use; with a right count *)
(* that includes the root's.                                               *)
LEMMA RootMadeNamed ==
  ASSUME NEW fs, Good(fs), NEW par, Named(fs, par), Counted(fs),
         fs.free_inodes = MAX_NUM_FILE,
         NEW gs, gs = [fs EXCEPT !.free_inodes = @ - 1, !.inodes[0].type = "dir"]
  PROVE  Named(gs, par) /\ Counted(gs)
<1> DEFINE z == [fs.inodes[0] EXCEPT !.type = "dir"]
<1>0. fs \in FileSys /\ 0 \in InodeNum
  BY InodeFacts DEF Good
<1>1. fs.inodes[0] \in Inode
  BY <1>0 DEF FileSys
<1>2. /\ z.type = "dir" /\ z.size = fs.inodes[0].size
      /\ z.pointers = fs.inodes[0].pointers /\ z.single = fs.inodes[0].single
  BY <1>1 DEF Inode
<1>3. gs = [fs EXCEPT !.free_inodes = @ - 1, !.inodes[0] = z]
  OBVIOUS
<1> HIDE DEF z
<1>4. /\ gs.free_inodes = fs.free_inodes - 1
      /\ gs.inodes = [fs.inodes EXCEPT ![0] = z]
      /\ gs.data_blocks = fs.data_blocks
  BY <1>0, <1>3 DEF FileSys
<1>5. gs.inodes[0] = z /\ \A n \in InodeNum \ {0} : gs.inodes[n] = fs.inodes[n]
  BY <1>0, <1>4 DEF FileSys
<1>6. Good(gs)
  BY RootMadeGood
<1>7. ASSUME NEW n \in InodeNum PROVE \A k \in BlockIdx : BlockAt(gs, n, k) = BlockAt(fs, n, k)
  <2>1. /\ gs.inodes[n].pointers = fs.inodes[n].pointers
        /\ gs.inodes[n].single = fs.inodes[n].single
    BY <1>2, <1>5
  <2>2. \A b \in BlockNum : gs.data_blocks[b].index_block = fs.data_blocks[b].index_block
    BY <1>4
  <2>3. QED
    BY <1>6, <2>1, <2>2, SameBlocks
<1>8. \A n \in InodeNum, k \in BlockIdx, j \in EntryIdx : EntryAt(gs, n, k, j) = EntryAt(fs, n, k, j)
  BY <1>4, <1>7 DEF EntryAt
<1>9. Named(gs, par)
  <2>1. FreeBlank(gs, par)
    BY <1>5 DEF Named, FreeBlank
  <2>2. SizeCounts(gs, par)
    BY <1>2, <1>5 DEF Named, SizeCounts
  <2>3. EntriesLead(gs, par)
    BY <1>7, <1>8 DEF Named, EntriesLead
  <2>4. EntriesOnce(gs)
    BY <1>7, <1>8 DEF Named, EntriesOnce, HasEntry
  <2>5. QED
    BY <2>1, <2>2, <2>3, <2>4 DEF Named
<1>10. Counted(gs)
  <2>1. InodeNum \ Allocated(fs) = InodeNum
    <3>1. InodeNum \ Allocated(fs) \subseteq InodeNum
      OBVIOUS
    <3>2. Cardinality(InodeNum \ Allocated(fs)) = Cardinality(InodeNum)
      BY InodeFacts DEF Counted
    <3>3. QED
      BY <3>1, <3>2, InodeFacts, FS_Subset
  <2>2. \A n \in InodeNum : fs.inodes[n].type = ""
    BY <2>1 DEF Allocated
  <2>6. gs.inodes[0].type # "" /\ \A n \in InodeNum \ {0} : gs.inodes[n].type = ""
    BY <1>2, <1>5, <2>2
  <2>3. Allocated(gs) = {0}
    BY <1>0, <2>6 DEF Allocated
  <2>4. Cardinality(InodeNum \ {0}) = MAX_NUM_FILE - 1
    BY InodeFacts, FS_RemoveElement
  <2>5. QED
    BY <1>4, <2>3, <2>4 DEF Counted
<1>11. QED
  BY <1>9, <1>10

(* A disk without files.                                                   *)
LEMMA EmptyNamed ==
  ASSUME NEW fs, Good(fs),
         fs.inodes[0].pointers = ZeroInode.pointers, fs.inodes[0].single = NULL,
         fs.inodes[0].size = 0,
         \A n \in InodeNum \ {0} : fs.inodes[n] = ZeroInode
  PROVE  Treelike(fs)
<1> DEFINE par == [n \in InodeNum |-> NULL]
<1>1. /\ \A n \in InodeNum : par[n] = NULL
      /\ par \in [InodeNum -> InodeNum \cup {NULL}]
  OBVIOUS
<1> HIDE DEF par
<1>2. Forest(par)
  BY <1>1, InodeFacts DEF Forest
<1>3. FreeBlank(fs, par)
  BY <1>1 DEF FreeBlank
<1>4. ZeroInode.size = 0 /\ ZeroInode.single = NULL
  BY DEF ZeroInode
<1>5. SizeCounts(fs, par)
  <2>1. \A n \in InodeNum : Children(par, n) = {}
    BY <1>1, InodeFacts DEF Children
  <2>2. \A n \in InodeNum : fs.inodes[n].size = 0
    BY <1>4
  <2>3. QED
    BY <2>1, <2>2, FS_EmptySet DEF SizeCounts, DIR_ENTRY_SIZE
<1>6. ASSUME NEW n \in InodeNum, NEW k \in BlockIdx PROVE BlockAt(fs, n, k) = NULL
  <2>1. fs.inodes[n].pointers = ZeroInode.pointers /\ fs.inodes[n].single = NULL
    BY <1>4
  <2>2. \A i \in DirectIdx : ZeroInode.pointers[i] = NULL
    BY DEF ZeroInode
  <2>3. QED
    BY <2>1, <2>2, BlockAtIs DEF Index
<1>7. EntriesLead(fs, par) /\ EntriesOnce(fs)
  BY <1>6 DEF EntriesLead, EntriesOnce, HasEntry
<1>8. Named(fs, par)
  BY <1>2, <1>3, <1>5, <1>7 DEF Named
<1>9. QED
  BY <1>8 DEF Treelike

(* RD_INIT makes one, and counts its inodes.                               *)
LEMMA FreshNamed == Treelike(FreshFileSys) /\ Counted(FreshFileSys)
<1> DEFINE fs == FreshFileSys
           z  == [ZeroInode EXCEPT !.type = "dir"]
<1>1. /\ fs.inodes = [n \in InodeNum |-> IF n = 0 THEN z ELSE ZeroInode]
      /\ fs.free_inodes = MAX_NUM_FILE - 1
  BY DEF FreshFileSys
<1>2. /\ z.pointers = ZeroInode.pointers /\ z.single = NULL /\ z.size = 0 /\ z.type = "dir"
      /\ ZeroInode.type = ""
  BY DEF ZeroInode
<1>3. Good(fs)
  BY FreshGood
<1> HIDE DEF fs, z
<1>4. fs.inodes[0] = z /\ \A n \in InodeNum \ {0} : fs.inodes[n] = ZeroInode
  BY <1>1, InodeFacts
<1>5. Treelike(fs)
  BY <1>2, <1>3, <1>4, EmptyNamed
<1>6. Counted(fs)
  <2>1. Allocated(fs) = {0}
    BY <1>2, <1>4, InodeFacts DEF Allocated
  <2>2. Cardinality(InodeNum \ {0}) = MAX_NUM_FILE - 1
    BY InodeFacts, FS_RemoveElement
  <2>3. QED
    BY <1>1, <2>1, <2>2 DEF Counted
<1>7. QED
  BY <1>5, <1>6 DEF fs

-----------------------------------------------------------------------------
(* What the calls leave as it was                                          *)

(* The inodes in use keep their types, and the root its own.               *)
TypesKept(fs, gs) ==
  \A n \in InodeNum : n = 0 \/ fs.inodes[n].type # "" => gs.inodes[n].type = fs.inodes[n].type

(* rd_create changes the type of no inode in use.                          *)
LEMMA CreateKeepsTypes ==
  ASSUME NoName \notin Names, Good(discos), Treelike(discos),
         NEW path \in Paths, NEW type \in {"dir", "reg"}, NEW mode \in Nat,
         create_allocated(path, type, mode)
  PROVE  TypesKept(discos, discos')
<1>1. PICK par : Named(discos, par)
  BY DEF Treelike
<1>2. ASSUME NEW dir, NEW gs, Searches(discos, dir, gs)
      PROVE  \A n \in InodeNum : gs.inodes[n].type = discos.inodes[n].type
  BY <1>1, <1>2, SearchesNamed DEF Kept, SameInodes
<1>3. CASE Creates(discos, discos', par, Last(path))
  <2>1. PICK dir, n, z, e :
           /\ Searches(discos, dir, e.fs)
           /\ Entering(e.fs, par, e.block, e.slot, Last(path), dir, n, z, discos')
    BY <1>3 DEF Creates
  <2>2. \A m \in InodeNum \ {n} : discos'.inodes[m].type = e.fs.inodes[m].type
    BY <2>1, EnteringIs
  <2>3. n # 0 /\ e.fs.inodes[n].type = "" /\ n \in InodeNum
    BY <2>1 DEF Entering
  <2>4. \A m \in InodeNum : e.fs.inodes[m].type = discos.inodes[m].type
    BY <1>2, <2>1
  <2>5. QED
    BY <2>2, <2>3, <2>4 DEF TypesKept
<1>4. QED
  BY <1>1, <1>2, <1>3, CreateAllocatedIs DEF TypesKept

(* The k-th block of m shows a name as it did before: where it was, to     *)
(* where it led.                                                           *)
Shows(fs, gs, m, k, name) ==
  LET b == BlockAt(fs, m, k)
      c == BlockAt(gs, m, k)
  IN  \/ /\ b = NULL \/ Matches(fs, b, name) = {}
         /\ c = NULL \/ Matches(gs, c, name) = {}
      \/ /\ b # NULL /\ c # NULL
         /\ Matches(gs, c, name) = Matches(fs, b, name)
         /\ \A j \in Matches(fs, b, name) :
              EntryAt(gs, m, k, j).inode_num = EntryAt(fs, m, k, j).inode_num

(* If all blocks do, the name leads where it led.                          *)
LEMMA LookupShown ==
  ASSUME NEW fs, NEW gs, NEW m, NEW name, \A k \in BlockIdx : Shows(fs, gs, m, k, name)
  PROVE  Lookup(gs, m, name) = Lookup(fs, m, name)
<1> DEFINE first(hs, b) == hs.data_blocks[b].entries[Min(Matches(hs, b, name))].inode_num
           hits(hs) == {k \in BlockIdx : LET b == BlockAt(hs, m, k)
                                         IN  /\ b # NULL
                                             /\ Matches(hs, b, name) # {}
                                             /\ first(hs, b) # m}
<1>1. ASSUME NEW hs
      PROVE  Lookup(hs, m, name)
               = IF hits(hs) = {} THEN NULL ELSE first(hs, BlockAt(hs, m, Min(hits(hs))))
  BY DEF Lookup
<1>2. ASSUME NEW k \in BlockIdx,
             \/ BlockAt(fs, m, k) # NULL /\ Matches(fs, BlockAt(fs, m, k), name) # {}
             \/ BlockAt(gs, m, k) # NULL /\ Matches(gs, BlockAt(gs, m, k), name) # {}
      PROVE  /\ BlockAt(fs, m, k) # NULL /\ Matches(fs, BlockAt(fs, m, k), name) # {}
             /\ BlockAt(gs, m, k) # NULL /\ Matches(gs, BlockAt(gs, m, k), name) # {}
             /\ first(gs, BlockAt(gs, m, k)) = first(fs, BlockAt(fs, m, k))
  <2> DEFINE b == BlockAt(fs, m, k)
             c == BlockAt(gs, m, k)
             S == Matches(fs, b, name)
  <2>1. Shows(fs, gs, m, k, name)
    OBVIOUS
  <2>2. /\ b # NULL /\ c # NULL /\ S # {} /\ Matches(gs, c, name) = S
        /\ \A j \in S : gs.data_blocks[c].entries[j].inode_num = fs.data_blocks[b].entries[j].inode_num
    BY <1>2, <2>1 DEF Shows, EntryAt
  <2>3. S \subseteq Nat
    BY DEF Matches, EntryIdx
  <2> HIDE DEF b, c, S
  <2>4. Min(S) \in S
    BY <2>2, <2>3, MinExists
  <2>5. gs.data_blocks[c].entries[Min(S)].inode_num = fs.data_blocks[b].entries[Min(S)].inode_num
    BY <2>2, <2>4
  <2>6. first(gs, c) = first(fs, b)
    BY <2>2, <2>5 DEF S
  <2>7. QED
    BY <2>2, <2>6 DEF b, c, S
<1>3. hits(gs) = hits(fs)
  <2> HIDE DEF first
  <2>1. QED
    BY <1>2
<1>4. CASE hits(fs) = {}
  BY <1>1, <1>3, <1>4
<1>5. CASE hits(fs) # {}
  <2> DEFINE k == Min(hits(fs))
  <2>1. k \in BlockIdx /\ BlockAt(fs, m, k) # NULL /\ Matches(fs, BlockAt(fs, m, k), name) # {}
    <3>1. hits(fs) \subseteq Nat
      BY DEF BlockIdx
    <3>2. k \in hits(fs)
      <4> DEFINE S == hits(fs)
      <4>1. S \subseteq Nat /\ S # {}
        BY <1>5, <3>1
      <4> HIDE DEF S
      <4>2. Min(S) \in S
        BY <4>1, MinExists
      <4>3. QED
        BY <4>2 DEF S
    <3>3. QED
      BY <3>2
  <2> HIDE DEF k
  <2>2. first(gs, BlockAt(gs, m, k)) = first(fs, BlockAt(fs, m, k))
    BY <1>2, <2>1
  <2> HIDE DEF first, hits
  <2>3. /\ Lookup(fs, m, name) = first(fs, BlockAt(fs, m, k))
        /\ Lookup(gs, m, name) = first(gs, BlockAt(gs, m, k))
    BY <1>1, <1>3, <1>5 DEF k
  <2>4. QED
    BY <2>2, <2>3
<1>6. QED
  BY <1>4, <1>5

(* The search for an entry changes no name.                                *)
LEMMA SearchShows ==
  ASSUME NEW fs, NEW gs, NEW dir, Kept(fs, gs, dir), NEW m \in InodeNum,
         NEW name, name # NoName
  PROVE  Lookup(gs, m, name) = Lookup(fs, m, name)
<1> SUFFICES ASSUME NEW k \in BlockIdx PROVE Shows(fs, gs, m, k, name)
  BY LookupShown
<1>1. Carried(fs, gs, m, k)
  BY DEF Kept
<1>2. \A j \in EntryIdx : ZeroBlock.entries[j].name = NoName
  BY DEF ZeroBlock, ZeroEntry
<1>3. QED
  BY <1>1, <1>2 DEF Carried, Shows, Matches, EntryAt

(* Making an entry changes the name it is given, in its directory, alone.  *)
LEMMA EnterShows ==
  ASSUME NEW gs, NEW par, NEW b, NEW j, NEW name, NEW dir, NEW n, NEW z, NEW hs,
         Entering(gs, par, b, j, name, dir, n, z, hs),
         NEW m \in InodeNum, NEW other, other # NoName, m # dir \/ other # name
  PROVE  Lookup(hs, m, other) = Lookup(gs, m, other)
<1> SUFFICES ASSUME NEW k \in BlockIdx PROVE Shows(gs, hs, m, k, other)
  BY LookupShown
<1> DEFINE c == BlockAt(gs, m, k)
           d == [name |-> name, inode_num |-> n]
<1>1. BlockAt(hs, m, k) = c
  BY EnteringIs
<1>2. /\ Good(gs) /\ ReadBy(gs, b, dir) /\ Entered(gs, b, j, d, dir, n, z, hs)
      /\ gs.data_blocks[b].entries[j].inode_num = 0
      /\ EntriesLead(gs, par) /\ j \in EntryIdx
  BY DEF Entering, Named
<1>3. CASE c = NULL
  BY <1>1, <1>3 DEF Shows
<1>4. CASE c # NULL
  <2>1. c \in BlockNum
    BY <1>2, <1>4, BlockSpotIs
  <2>2. d.name = name
    OBVIOUS
  <2> HIDE DEF d
  <2>3. \A i \in EntryIdx : hs.data_blocks[c].entries[i] =
                              IF c = b /\ i = j THEN d ELSE gs.data_blocks[c].entries[i]
    BY <1>2, <2>1 DEF Entered
  <2>4. c = b => m = dir /\ gs.data_blocks[c].entries[j].name = NoName
    <3>1. c = b => m = dir
      BY <1>2 DEF ReadBy
    <3>2. c = b => gs.data_blocks[c].entries[j].name = NoName
      BY <1>2, <1>4 DEF EntriesLead, EntryAt
    <3>3. QED
      BY <3>1, <3>2
  <2>5. \A i \in EntryIdx :
          hs.data_blocks[c].entries[i].name = other => hs.data_blocks[c].entries[i] = gs.data_blocks[c].entries[i]
    BY <2>2, <2>3, <2>4
  <2>6. \A i \in EntryIdx :
          gs.data_blocks[c].entries[i].name = other => hs.data_blocks[c].entries[i] = gs.data_blocks[c].entries[i]
    BY <2>3, <2>4
  <2> HIDE DEF c
  <2>7. Matches(hs, c, other) = Matches(gs, c, other)
    BY <2>5, <2>6 DEF Matches
  <2>8. \A i \in Matches(gs, c, other) : hs.data_blocks[c].entries[i] = gs.data_blocks[c].entries[i]
    BY <2>6 DEF Matches
  <2>9. QED
    BY <1>1, <1>4, <2>7, <2>8 DEF Shows, EntryAt, c
<1>5. QED
  BY <1>3, <1>4

(* rd_create changes where one name leads at most.                         *)
OneNameChanged(fs, gs) ==
  Cardinality({l \in Allocated(fs) \X Names : Lookup(gs, l[1], l[2]) # Lookup(fs, l[1], l[2])}) <= 1

(* Whether it fails or succeeds.                                           *)
LEMMA CreateKeepsNames ==
  ASSUME NoName \notin Names, Good(discos), Treelike(discos),
         NEW path \in Paths, NEW type \in {"dir", "reg"}, NEW mode \in Nat,
         create_allocated(path, type, mode)
  PROVE  OneNameChanged(discos, discos')
<1>1. PICK par : Named(discos, par)
  BY DEF Treelike
<1>2. \A n \in Allocated(discos) : n \in InodeNum
  BY DEF Allocated
<1>3. ASSUME NEW dir, NEW gs, Searches(discos, dir, gs)
      PROVE  \A n \in InodeNum, name \in Names : Lookup(gs, n, name) = Lookup(discos, n, name)
  <2>1. Kept(discos, gs, dir)
    BY <1>1, <1>3, SearchesNamed
  <2>2. QED
    BY <2>1, SearchShows
<1>4. ASSUME NEW d, {l \in Allocated(discos) \X Names :
                       Lookup(discos', l[1], l[2]) # Lookup(discos, l[1], l[2])} \subseteq {d}
      PROVE  OneNameChanged(discos, discos')
  <2> DEFINE S == {l \in Allocated(discos) \X Names :
                     Lookup(discos', l[1], l[2]) # Lookup(discos, l[1], l[2])}
  <2>1. S \subseteq {d}
    BY <1>4
  <2>2. OneNameChanged(discos, discos') <=> Cardinality(S) <= 1
    BY DEF OneNameChanged
  <2> HIDE DEF S
  <2>3. IsFiniteSet({d}) /\ Cardinality({d}) = 1
    BY FS_Singleton
  <2>4. Cardinality(S) <= 1
    BY <2>1, <2>3, FS_Subset
  <2>5. QED
    BY <2>2, <2>4
<1>5. CASE discos' = discos \/ \E dir : Searches(discos, dir, discos')
  <2>1. \A n \in InodeNum, name \in Names : Lookup(discos', n, name) = Lookup(discos, n, name)
    BY <1>3, <1>5
  <2>2. \A l \in Allocated(discos) \X Names : Lookup(discos', l[1], l[2]) = Lookup(discos, l[1], l[2])
    BY <1>2, <2>1
  <2>3. {l \in Allocated(discos) \X Names :
           Lookup(discos', l[1], l[2]) # Lookup(discos, l[1], l[2])} \subseteq {0}
    BY <2>2
  <2>4. QED
    BY <1>4, <2>3
<1>6. CASE Creates(discos, discos', par, Last(path))
  <2>1. PICK dir, n, z, e :
           /\ Searches(discos, dir, e.fs)
           /\ Entering(e.fs, par, e.block, e.slot, Last(path), dir, n, z, discos')
    BY <1>6 DEF Creates
  <2>2. \A m \in InodeNum, name \in Names : Lookup(e.fs, m, name) = Lookup(discos, m, name)
    BY <1>3, <2>1
  <2>3. \A m \in InodeNum, name \in Names :
          m # dir \/ name # Last(path) => Lookup(discos', m, name) = Lookup(e.fs, m, name)
    BY <2>1, EnterShows
  <2>4. ASSUME NEW l \in Allocated(discos) \X Names,
               Lookup(discos', l[1], l[2]) # Lookup(discos, l[1], l[2])
        PROVE  l = <<dir, Last(path)>>
    <3>1. l[1] \in InodeNum /\ l[2] \in Names /\ l = <<l[1], l[2]>>
      BY <1>2
    <3>2. QED
      BY <2>2, <2>3, <2>4, <3>1
  <2>5. {l \in Allocated(discos) \X Names :
           Lookup(discos', l[1], l[2]) # Lookup(discos, l[1], l[2])} \subseteq {<<dir, Last(path)>>}
    BY <2>4
  <2>6. QED
    BY <1>4, <2>5
<1>7. QED
  BY <1>1, <1>5, <1>6, CreateAllocatedIs

-----------------------------------------------------------------------------
(* The invariant of Discos                                                 *)

(* The inductive invariant, of the state of Discos.                        *)
NamesState ==
  /\ GoodState
  /\ Treelike(discos)
  /\ Counted(discos)
  /\ discos.inodes[0].type = "dir"

(* It holds at the start ...                                               *)
LEMMA InitNames == Init => NamesState
<1> SUFFICES ASSUME Init PROVE NamesState
  OBVIOUS
<1>1. FreshFileSys.inodes[0].type = "dir"
  BY InodeFacts DEF FreshFileSys, ZeroInode
<1>2. QED
  BY <1>1, InitGood, FreshNamed DEF Init, NamesState

(* ... and after RD_INIT.                                                  *)
LEMMA InitCallNames ==
  ASSUME init_file_sys
  PROVE  NamesState'
<1>1. FreshFileSys.inodes[0].type = "dir"
  BY InodeFacts DEF FreshFileSys, ZeroInode
<1>2. GoodState' /\ discos' = FreshFileSys
  BY InitCallGood DEF init_file_sys
<1>3. Treelike(discos') /\ Counted(discos') /\ discos'.inodes[0].type = "dir"
  BY <1>1, <1>2, FreshNamed
<1>4. QED
  BY <1>2, <1>3 DEF NamesState

(* Where the counts are right "/" is there.                                *)
LEMMA RootThere ==
  ASSUME NamesState
  PROVE  discos.free_inodes # MAX_NUM_FILE
<1>1. Cardinality(InodeNum \ Allocated(discos)) = discos.free_inodes /\ 0 \in Allocated(discos)
  BY InodeFacts DEF NamesState, Counted, Allocated
<1> DEFINE S == InodeNum \ Allocated(discos)
<1>2. S \subseteq InodeNum \ {0}
  BY <1>1
<1>3. Cardinality(InodeNum \ {0}) = MAX_NUM_FILE - 1 /\ IsFiniteSet(InodeNum \ {0})
  BY InodeFacts, FS_RemoveElement
<1> HIDE DEF S
<1>4. Cardinality(S) <= MAX_NUM_FILE - 1 /\ Cardinality(S) \in Nat
  BY <1>2, <1>3, FS_Subset, FS_CardinalityType
<1>5. QED
  BY <1>1, <1>4, DiscosAssumption DEF S

(* What a call is: nothing, rd_create from where it has memory, rd_unlink  *)
(* of what its pathname leads to, or RD_INIT.                              *)
Creating(path) ==
  \E type \in {"dir", "reg"}, mode \in Nat : create_allocated(path, type, mode)

(* Every step of Next, or a stuttering one, is one of these.               *)
LEMMA CallIs ==
  ASSUME NamesState, [Next]_vars
  PROVE  \/ UNCHANGED discos
         \/ \E path \in Paths : Creating(path)
         \/ \E path \in Paths :
              LET file == my_find_inode_number(discos, path)
              IN  Removable(discos, path, file) /\ unlink_allocated(path, file)
         \/ init_file_sys
<1>1. ASSUME NEW path \in Paths, NEW type \in {"dir", "reg"}, NEW mode \in Nat,
             rd_create(path, type, mode)
      PROVE  UNCHANGED discos \/ Creating(path)
  BY <1>1 DEF rd_create, Refused, Creating
<1>2. ASSUME NEW path \in Paths, NEW mode \in Modes, rd_create(path, "reg", mode)
      PROVE  UNCHANGED discos \/ Creating(path)
  <2>1. mode \in Nat
    BY DiscosAssumption
  <2>2. QED
    BY <1>1, <1>2, <2>1
<1>3. ASSUME NEW path \in Paths, rd_mkdir(path)
      PROVE  UNCHANGED discos \/ Creating(path)
  <2>1. CASE rd_create(path, "dir", 1)
    BY <1>1, <2>1
  <2>2. CASE Refused
    BY <2>2 DEF Refused
  <2>3. QED
    BY <1>3, <2>1, <2>2, RootThere DEF rd_mkdir
<1>4. CASE UNCHANGED vars
  BY <1>4 DEF vars
<1>5. QED
  BY <1>2, <1>3, <1>4 DEF Next, rd_unlink, Refused

(* rd_unlink clears the inode of the file, the entry in its directory and  *)
(* their counts.                                                           *)
UnlinksOne(fs, par, file, gs) ==
  \E dir, name, k, j : Unlinking(fs, par, file, dir, name, k, j, gs)

(* Any rd_unlink that is not refused does so.                              *)
LEMMA UnlinkCallIs ==
  ASSUME MemoryUnambiguous, SizesFit, Good(discos), NEW par, Named(discos, par),
         NEW path \in Paths, path # Root,
         NEW file \in InodeNum, file = my_find_inode_number(discos, path),
         unlink_allocated(path, file)
  PROVE  UNCHANGED discos \/ UnlinksOne(discos, par, file, discos')
<1>1. CASE Refused
  BY <1>1 DEF Refused
<1>2. ASSUME NEW parent \in parse_absolute_path(path),
             NEW dir \in InodeNum, dir = my_find_inode_number(discos, parent),
             discos' = Unlink(discos, file, dir, Last(path))
      PROVE  UnlinksOne(discos, par, file, discos')
  <2>1. NoName \notin Names
    BY DEF MemoryUnambiguous
  <2>2. parent = ParentOf(path)
    BY <1>2, ParentFound
  <2>3. QED
    BY <1>2, <2>1, <2>2, UnlinkParentNamed DEF UnlinksOne
<1>3. QED
  BY <1>1, <1>2 DEF unlink_allocated

(* What that leaves of the inodes: the file's is free, the others keep     *)
(* their types, and the count is one more.                                 *)
FreesOne(fs, file, gs) ==
  /\ file \in InodeNum \ {0}
  /\ fs.inodes[file].type # ""
  /\ \A n \in InodeNum \ {file} : gs.inodes[n].type = fs.inodes[n].type
  /\ gs.free_inodes = (fs.free_inodes + 1) % UINT_RANGE

(* It follows from what is cleared.                                        *)
LEMMA UnlinksOneFrees ==
  ASSUME NEW fs, NEW par, NEW file, NEW gs, UnlinksOne(fs, par, file, gs)
  PROVE  FreesOne(fs, file, gs)
<1>1. PICK dir, name, k, j : Unlinking(fs, par, file, dir, name, k, j, gs)
  BY DEF UnlinksOne
<1>2. Unlinked(fs, gs, file, dir) /\ dir \in InodeNum /\ par[file] = dir
  BY <1>1, UnlinkingIs
<1>3. file \in InodeNum \ {0} /\ FreeBlank(fs, par)
  BY <1>1 DEF Unlinking, Named
<1>4. fs.inodes[file].type # ""
  BY <1>2, <1>3, InodeFacts DEF FreeBlank
<1>5. QED
  BY <1>2, <1>3, <1>4 DEF Unlinked, FreesOne

(* What it leaves of the invariant.                                        *)
LEMMA UnlinksOneNamed ==
  ASSUME SizesFit, NEW fs, NEW par, NEW file, NEW gs, UnlinksOne(fs, par, file, gs)
  PROVE  Treelike(gs) /\ (Counted(fs) => Counted(gs))
<1>1. PICK dir, name, k, j : Unlinking(fs, par, file, dir, name, k, j, gs)
  BY DEF UnlinksOne
<1>2. Named(gs, Orphaned(par, file)) /\ (Counted(fs) => Counted(gs))
  BY <1>1, UnlinkNamed, UnlinkCounted
<1>3. QED
  BY <1>2 DEF Treelike

(* Every call keeps the invariant.                                         *)
LEMMA NextNames ==
  ASSUME MemoryUnambiguous, SizesFit, NamesState, [Next]_vars
  PROVE  NamesState'
<1>0. GoodState' /\ Good(discos) /\ NoName \notin Names
  BY NextGood DEF NamesState, GoodState, MemoryUnambiguous
<1>1. PICK par : Named(discos, par)
  BY DEF NamesState, Treelike
<1>2. CASE UNCHANGED discos
  BY <1>0, <1>2 DEF NamesState, Treelike, Named, Counted
<1>3. ASSUME NEW path \in Paths, NEW type \in {"dir", "reg"}, NEW mode \in Nat,
             create_allocated(path, type, mode)
      PROVE  NamesState'
  <2>1. Treelike(discos)' /\ Counted(discos)'
    BY <1>0, <1>3, CreateAllocatedNamed DEF NamesState
  <2>2. TypesKept(discos, discos')
    BY <1>0, <1>3, CreateKeepsTypes DEF NamesState
  <2>3. discos'.inodes[0].type = "dir"
    BY <2>2, InodeFacts DEF TypesKept, NamesState
  <2>4. QED
    BY <1>0, <2>1, <2>3 DEF NamesState
<1>4. ASSUME NEW path \in Paths, NEW file, file = my_find_inode_number(discos, path),
             Removable(discos, path, file), unlink_allocated(path, file)
      PROVE  NamesState'
  <2>1. path # Root /\ file \in InodeNum
    BY <1>4 DEF Removable
  <2>2. CASE UnlinksOne(discos, par, file, discos')
    <3>1. Counted(discos) /\ discos.inodes[0].type = "dir" /\ 0 \in InodeNum
      BY InodeFacts DEF NamesState
    <3>2. FreesOne(discos, file, discos') /\ Treelike(discos') /\ Counted(discos')
      BY <2>2, <3>1, UnlinksOneFrees, UnlinksOneNamed
    <3>3. discos'.inodes[0].type = "dir"
      BY <3>1, <3>2 DEF FreesOne
    <3>4. QED
      BY <1>0, <3>1, <3>2, <3>3 DEF NamesState
  <2>3. QED
    BY <1>0, <1>1, <1>2, <1>4, <2>1, <2>2, UnlinkCallIs
<1>5. QED
  BY <1>2, <1>3, <1>4, InitCallNames, CallIs DEF Creating

(* The invariant holds in every reachable state, for every size of the     *)
(* disk, of a block and of the inode array.                                *)
THEOREM AlwaysNamed ==
  ASSUME MemoryUnambiguous, SizesFit
  PROVE  Spec => []NamesState
<1>1. NamesState /\ [Next]_vars => NamesState'
  BY NextNames
<1>2. QED
  BY <1>1, InitNames, PTL DEF Spec

-----------------------------------------------------------------------------
(* What follows from it                                                    *)

(* A live entry is one of the invariant's.                                 *)
LEMMA LiveEntryIs ==
  ASSUME NEW fs, NEW e \in LiveEntries(fs)
  PROVE  /\ e[1] \in InodeNum /\ e[2] \in BlockIdx /\ e[3] \in EntryIdx
         /\ e = <<e[1], e[2], e[3]>>
         /\ HasEntry(fs, e[1], e[2], e[3])
         /\ EntryInode(fs, e) = EntryAt(fs, e[1], e[2], e[3]).inode_num
<1>1. e \in Allocated(fs) \X BlockIdx \X EntryIdx
  BY DEF LiveEntries
<1>2. /\ e[1] \in Allocated(fs) /\ e[2] \in BlockIdx /\ e[3] \in EntryIdx
      /\ e = <<e[1], e[2], e[3]>>
  BY <1>1
<1>3. e[1] \in InodeNum
  BY <1>2 DEF Allocated
<1>4. EntryInode(fs, e) = EntryAt(fs, e[1], e[2], e[3]).inode_num
  BY DEF EntryInode, EntryAt
<1>5. HasEntry(fs, e[1], e[2], e[3])
  BY DEF LiveEntries, HasEntry, EntryAt
<1>6. QED
  BY <1>2, <1>3, <1>4, <1>5

(* It leads to a child of its inode, ...                                   *)
LEMMA LiveEntryLeads ==
  ASSUME NEW fs, Good(fs), NEW par, Named(fs, par), NEW e \in LiveEntries(fs)
  PROVE  /\ EntryInode(fs, e) \in Children(par, e[1])
         /\ EntryInode(fs, e) \in Allocated(fs)
<1> DEFINE t == EntryInode(fs, e)
<1>1. /\ e[1] \in InodeNum /\ e[2] \in BlockIdx /\ e[3] \in EntryIdx
      /\ BlockAt(fs, e[1], e[2]) # NULL
      /\ t = EntryAt(fs, e[1], e[2], e[3]).inode_num /\ t # 0
  BY LiveEntryIs DEF HasEntry
<1>2. t \in InodeNum
  BY <1>1, EntryTyped DEF DirEntry
<1>3. par[t] = e[1]
  BY <1>1 DEF Named, EntriesLead
<1> HIDE DEF t
<1>4. fs.inodes[t].type # ""
  BY <1>1, <1>2, <1>3, InodeFacts DEF Named, FreeBlank
<1>5. QED
  BY <1>2, <1>3, <1>4 DEF Children, Allocated, t

(* ... and no other entry does.                                            *)
LEMMA LiveEntryOnce ==
  ASSUME NEW fs, Good(fs), NEW par, Named(fs, par),
         NEW e \in LiveEntries(fs), NEW f \in LiveEntries(fs),
         EntryInode(fs, e) = EntryInode(fs, f)
  PROVE  e = f
<1>1. e[1] = f[1]
  BY LiveEntryLeads DEF Children
<1>2. /\ e[1] \in InodeNum /\ e[2] \in BlockIdx /\ e[3] \in EntryIdx
      /\ f[1] \in InodeNum /\ f[2] \in BlockIdx /\ f[3] \in EntryIdx
      /\ e = <<e[1], e[2], e[3]>> /\ f = <<f[1], f[2], f[3]>>
      /\ HasEntry(fs, e[1], e[2], e[3]) /\ HasEntry(fs, f[1], f[2], f[3])
      /\ EntryAt(fs, e[1], e[2], e[3]).inode_num = EntryAt(fs, f[1], f[2], f[3]).inode_num
  BY LiveEntryIs
<1>3. EntriesOnce(fs)
  BY DEF Named
<1>4. e[2] = f[2] /\ e[3] = f[3]
  BY <1>1, <1>2, <1>3 DEF EntriesOnce
<1>5. QED
  BY <1>1, <1>2, <1>4

(* The three properties of a file system whose entries agree with a tree.  *)
LEMMA TargetsOfTree ==
  ASSUME Good(discos), Treelike(discos)
  PROVE  EntryTargets
BY LiveEntryLeads, LiveEntryOnce DEF EntryTargets, Treelike

(* An inode has as many live entries as children, or fewer.                *)
LEMMA SizesOfTree ==
  ASSUME Good(discos), Treelike(discos)
  PROVE  SizeCoversEntries
<1>1. PICK par : Named(discos, par)
  BY DEF Treelike
<1> SUFFICES ASSUME NEW n \in Allocated(discos)
             PROVE  DIR_ENTRY_SIZE * Cardinality({e \in LiveEntries(discos) : e[1] = n})
                      <= discos.inodes[n].size
  BY DEF SizeCoversEntries
<1> DEFINE S == {e \in LiveEntries(discos) : e[1] = n}
           f == [e \in S |-> EntryInode(discos, e)]
           T == Children(par, n)
<1>2. f \in Injection(S, T)
  <2>1. f \in [S -> T]
    BY <1>1, LiveEntryLeads
  <2>2. \A e, g \in S : f[e] = f[g] => e = g
    BY <1>1, LiveEntryOnce
  <2>3. QED
    BY <2>1, <2>2 DEF Injection, IsInjective
<1>3. n \in InodeNum
  BY DEF Allocated
<1>4. discos.inodes[n].size = DIR_ENTRY_SIZE * Cardinality(T)
  BY <1>1, <1>3 DEF Named, SizeCounts
<1>5. T \subseteq InodeNum
  BY DEF Children
<1> HIDE DEF S, T, f
<1>6. IsFiniteSet(T) /\ Cardinality(T) \in Nat
  BY <1>5, InodesFinite
<1>7. Cardinality(S) <= Cardinality(T) /\ Cardinality(S) \in Nat
  BY <1>2, <1>6, FS_Injection, FS_CardinalityType
<1>8. DIR_ENTRY_SIZE * Cardinality(S) <= DIR_ENTRY_SIZE * Cardinality(T)
  BY <1>6, <1>7 DEF DIR_ENTRY_SIZE
<1>9. QED
  BY <1>4, <1>8 DEF S

(* An inode of size zero has no live entry.                                *)
LEMMA EmptyOfTree ==
  ASSUME NEW fs, Good(fs), NEW par, Named(fs, par), NEW n \in InodeNum, fs.inodes[n].size = 0,
         NEW e \in LiveEntries(fs)
  PROVE  e[1] # n
<1>1. EntryInode(fs, e) \in Children(par, e[1])
  BY LiveEntryLeads
<1>2. Children(par, n) = {}
  <2>1. DIR_ENTRY_SIZE * Cardinality(Children(par, n)) = 0
    BY DEF Named, SizeCounts
  <2>2. Children(par, n) \subseteq InodeNum
    BY DEF Children
  <2>3. IsFiniteSet(Children(par, n)) /\ Cardinality(Children(par, n)) \in Nat
    BY <2>2, InodesFinite
  <2>4. Cardinality(Children(par, n)) = 0
    BY <2>1, <2>3 DEF DIR_ENTRY_SIZE
  <2>5. QED
    BY <2>3, <2>4, FS_EmptySet
<1>3. QED
  BY <1>1, <1>2

(* Each live directory entry leads to an inode in use, and to one of its   *)
(* own, after any sequence of rd_create, rd_mkdir, rd_unlink and RD_INIT:  *)
(* rd_unlink never frees an inode that another entry still names, and      *)
(* get_free_inode_num never revives a name.                                *)
THEOREM TargetsHeld ==
  ASSUME MemoryUnambiguous, SizesFit
  PROVE  Spec => []EntryTargets
<1>1. NamesState => EntryTargets
  BY TargetsOfTree DEF NamesState, GoodState
<1>2. QED
  BY <1>1, AlwaysNamed, PTL

(* The superblock's count of free inodes is the number of inodes that      *)
(* get_free_inode_num can find.                                            *)
THEOREM FreeInodesCounted ==
  ASSUME MemoryUnambiguous, SizesFit
  PROVE  Spec => []FreeInodesExact
<1>1. NamesState => FreeInodesExact
  BY DEF NamesState, Counted, FreeInodesExact
<1>2. QED
  BY <1>1, AlwaysNamed, PTL

(* The size by which rd_unlink tells an empty directory counts at least    *)
(* the live entries, and never wraps around.                               *)
THEOREM SizesCover ==
  ASSUME MemoryUnambiguous, SizesFit
  PROVE  Spec => []SizeCoversEntries
<1>1. NamesState => SizeCoversEntries
  BY SizesOfTree DEF NamesState, GoodState
<1>2. QED
  BY <1>1, AlwaysNamed, PTL

(* One step of the two action properties.                                  *)
EmptyIfRemoved ==
  \A n \in Allocated(discos) :
    \/ discos.inodes[n].type # "dir"
    \/ discos'.inodes[n].type = "dir"
    \/ discos' = FreshFileSys
    \/ \A e \in LiveEntries(discos) : e[1] # n

(* And CreateKeepsOthers: one name at most leads elsewhere.                *)
OthersKept ==
  \/ discos' = discos
  \/ discos'.free_inodes > discos.free_inodes
  \/ Cardinality({l \in Allocated(discos) \X Names :
                    Lookup(discos', l[1], l[2]) # Lookup(discos, l[1], l[2])}) <= 1

(* A directory that stops being one was empty: its size was zero.          *)
LEMMA RemovedEmpty ==
  ASSUME MemoryUnambiguous, SizesFit, NamesState, [Next]_vars
  PROVE  EmptyIfRemoved
<1>0. Good(discos) /\ NoName \notin Names
  BY DEF NamesState, GoodState, MemoryUnambiguous
<1>1. PICK par : Named(discos, par)
  BY DEF NamesState, Treelike
<1>2. \A n \in Allocated(discos) : n \in InodeNum /\ discos.inodes[n].type # ""
  BY DEF Allocated
<1>3. CASE UNCHANGED discos
  BY <1>3 DEF EmptyIfRemoved
<1>4. ASSUME NEW path \in Paths, NEW type \in {"dir", "reg"}, NEW mode \in Nat,
             create_allocated(path, type, mode)
      PROVE  EmptyIfRemoved
  <2>1. TypesKept(discos, discos')
    BY <1>0, <1>4, CreateKeepsTypes DEF NamesState
  <2>2. QED
    BY <1>2, <2>1 DEF TypesKept, EmptyIfRemoved
<1>5. ASSUME NEW path \in Paths, NEW file, file = my_find_inode_number(discos, path),
             Removable(discos, path, file), unlink_allocated(path, file)
      PROVE  EmptyIfRemoved
  <2>1. /\ path # Root /\ file \in InodeNum
        /\ discos.inodes[file].type # "dir" \/ discos.inodes[file].size = 0
    BY <1>5 DEF Removable
  <2>2. CASE UnlinksOne(discos, par, file, discos')
    <3>1. FreesOne(discos, file, discos')
      BY <2>2, UnlinksOneFrees
    <3>2. \A n \in InodeNum \ {file} : discos'.inodes[n].type = discos.inodes[n].type
      BY <3>1 DEF FreesOne
    <3>3. discos.inodes[file].size = 0 => \A e \in LiveEntries(discos) : e[1] # file
      BY <1>0, <1>1, <2>1, EmptyOfTree
    <3>4. QED
      BY <1>2, <2>1, <3>2, <3>3 DEF EmptyIfRemoved
  <2>3. QED
    BY <1>0, <1>1, <1>3, <1>5, <2>1, <2>2, UnlinkCallIs
<1>6. CASE init_file_sys
  BY <1>6 DEF init_file_sys, EmptyIfRemoved
<1>7. QED
  BY <1>3, <1>4, <1>5, <1>6, CallIs DEF Creating

(* A file system with no inode in use but the root's has no names.         *)
LEMMA NothingNamed ==
  ASSUME NEW fs, Good(fs), Treelike(fs), Allocated(fs) = {0}, NoName \notin Names,
         NEW name \in Names
  PROVE  Lookup(fs, 0, name) = NULL
<1>1. PICK par : Named(fs, par)
  BY DEF Treelike
<1>2. ASSUME Lookup(fs, 0, name) # NULL PROVE FALSE
  <2>1. IsParent(fs, Lookup(fs, 0, name)) /\ Lookup(fs, 0, name) # 0
    BY <1>1, <1>2, InodeFacts, LookupLeads
  <2>2. Lookup(fs, 0, name) \in Allocated(fs)
    BY <2>1 DEF IsParent, Allocated
  <2>3. QED
    BY <2>1, <2>2
<1>3. QED
  BY <1>2

(* A call that frees no inode changes one name at most.                    *)
LEMMA StepKeepsNames ==
  ASSUME MemoryUnambiguous, SizesFit, NamesState, [Next]_vars
  PROVE  OthersKept
<1>0. Good(discos) /\ NoName \notin Names /\ discos.free_inodes \in Nat
  BY DEF NamesState, GoodState, Good, FileSys, UInt, MemoryUnambiguous
<1>1. PICK par : Named(discos, par)
  BY DEF NamesState, Treelike
<1>2. 0 \in Allocated(discos) /\ Allocated(discos) \subseteq InodeNum
  BY InodeFacts DEF NamesState, Allocated
<1>3. CASE UNCHANGED discos
  BY <1>3 DEF OthersKept
<1>4. ASSUME NEW path \in Paths, NEW type \in {"dir", "reg"}, NEW mode \in Nat,
             create_allocated(path, type, mode)
      PROVE  OthersKept
  BY <1>0, <1>4, CreateKeepsNames DEF NamesState, OthersKept, OneNameChanged
<1>5. ASSUME NEW path \in Paths, NEW file, file = my_find_inode_number(discos, path),
             Removable(discos, path, file), unlink_allocated(path, file)
      PROVE  OthersKept
  <2>1. path # Root /\ file \in InodeNum
    BY <1>5 DEF Removable
  <2>2. CASE UnlinksOne(discos, par, file, discos')
    <3>1. FreesOne(discos, file, discos')
      BY <2>2, UnlinksOneFrees
    <3>2. file # 0 /\ file \in Allocated(discos)
      BY <3>1 DEF FreesOne, Allocated
    <3>3. discos.free_inodes + 1 < MAX_NUM_FILE
      <4> DEFINE S == InodeNum \ Allocated(discos)
      <4>1. S \subseteq (InodeNum \ {0}) \ {file}
        BY <1>2, <3>2
      <4>2. Cardinality(InodeNum \ {0}) = MAX_NUM_FILE - 1 /\ IsFiniteSet(InodeNum \ {0})
        BY InodeFacts, FS_RemoveElement
      <4>3. /\ Cardinality((InodeNum \ {0}) \ {file}) = MAX_NUM_FILE - 1 - 1
            /\ IsFiniteSet((InodeNum \ {0}) \ {file})
        BY <2>1, <3>2, <4>2, FS_RemoveElement
      <4>4. Cardinality(S) = discos.free_inodes
        BY DEF NamesState, Counted
      <4> HIDE DEF S
      <4>5. Cardinality(S) <= MAX_NUM_FILE - 1 - 1
        BY <4>1, <4>3, FS_Subset
      <4>6. QED
        BY <1>0, <4>4, <4>5, DiscosAssumption
    <3>4. (discos.free_inodes + 1) % UINT_RANGE = discos.free_inodes + 1
      <4>1. discos.free_inodes + 1 < UINT_RANGE /\ discos.free_inodes + 1 \in Nat
        BY <1>0, <3>3, DiscosAssumption
      <4>2. QED
        BY <4>1, DiscosAssumption
    <3>5. discos'.free_inodes > discos.free_inodes
      <4>1. discos'.free_inodes = discos.free_inodes + 1
        BY <3>1, <3>4 DEF FreesOne
      <4>2. QED
        BY <1>0, <4>1
    <3>6. QED
      BY <3>5 DEF OthersKept
  <2>3. QED
    BY <1>0, <1>1, <1>3, <1>5, <2>1, <2>2, UnlinkCallIs
<1>6. CASE init_file_sys
  <2>1. NamesState' /\ discos'.free_inodes = MAX_NUM_FILE - 1
    BY <1>6, InitCallNames DEF init_file_sys, FreshFileSys
  <2>2. CASE discos.free_inodes < MAX_NUM_FILE - 1
    BY <2>1, <2>2 DEF OthersKept
  <2>3. CASE ~ (discos.free_inodes < MAX_NUM_FILE - 1)
    <3>1. ASSUME NEW x \in Allocated(discos) \ {0} PROVE FALSE
      <4> DEFINE S == InodeNum \ Allocated(discos)
      <4>1. S \subseteq (InodeNum \ {0}) \ {x} /\ x \in InodeNum \ {0}
        BY <1>2
      <4>2. Cardinality(InodeNum \ {0}) = MAX_NUM_FILE - 1 /\ IsFiniteSet(InodeNum \ {0})
        BY InodeFacts, FS_RemoveElement
      <4>3. /\ Cardinality((InodeNum \ {0}) \ {x}) = MAX_NUM_FILE - 1 - 1
            /\ IsFiniteSet((InodeNum \ {0}) \ {x})
        BY <4>1, <4>2, FS_RemoveElement
      <4>4. Cardinality(S) = discos.free_inodes
        BY DEF NamesState, Counted
      <4> HIDE DEF S
      <4>5. Cardinality(S) <= MAX_NUM_FILE - 1 - 1
        BY <4>1, <4>3, FS_Subset
      <4>6. QED
        BY <1>0, <2>3, <4>4, <4>5, DiscosAssumption
    <3>2. Allocated(discos) = {0}
      BY <1>2, <3>1
    <3>3. Allocated(FreshFileSys) = {0}
      BY InodeFacts DEF Allocated, FreshFileSys, ZeroInode
    <3>4. \A name \in Names : Lookup(discos, 0, name) = NULL
      BY <1>0, <3>2, NothingNamed DEF NamesState
    <3>5. \A name \in Names : Lookup(FreshFileSys, 0, name) = NULL
      BY <1>0, <3>3, FreshGood, FreshNamed, NothingNamed
    <3>6. discos' = FreshFileSys
      BY <1>6 DEF init_file_sys
    <3>7. \A l \in Allocated(discos) \X Names : Lookup(discos', l[1], l[2]) = Lookup(discos, l[1], l[2])
      <4>1. \A l \in Allocated(discos) \X Names : l[1] = 0 /\ l[2] \in Names
        BY <3>2
      <4>2. QED
        BY <3>4, <3>5, <3>6, <4>1
    <3>8. {l \in Allocated(discos) \X Names :
             Lookup(discos', l[1], l[2]) # Lookup(discos, l[1], l[2])} = {}
      BY <3>7
    <3>9. QED
      BY <3>8, FS_EmptySet DEF OthersKept
  <2>4. QED
    BY <2>2, <2>3
<1>7. QED
  BY <1>3, <1>4, <1>5, <1>6, CallIs DEF Creating

(* rd_unlink's error (2): no call but RD_INIT removes a directory that     *)
(* still has an entry.                                                     *)
THEOREM DirectoriesKept ==
  ASSUME MemoryUnambiguous, SizesFit
  PROVE  Spec => NonEmptyDirectoryKept
<1>1. NamesState /\ [Next]_vars => [EmptyIfRemoved]_discos
  BY RemovedEmpty
<1>2. Spec => [][EmptyIfRemoved]_discos
  BY <1>1, AlwaysNamed, PTL DEF Spec
<1>3. QED
  BY <1>2 DEF NonEmptyDirectoryKept, EmptyIfRemoved

(* rd_create and rd_mkdir change where one name leads at most, whatever    *)
(* blocks they attach, whether they succeed or fail half-way.              *)
THEOREM OtherNamesKept ==
  ASSUME MemoryUnambiguous, SizesFit
  PROVE  Spec => CreateKeepsOthers
<1>1. NamesState /\ [Next]_vars => [OthersKept]_discos
  BY StepKeepsNames
<1>2. Spec => [][OthersKept]_discos
  BY <1>1, AlwaysNamed, PTL DEF Spec
<1>3. QED
  BY <1>2, PTL DEF CreateKeepsOthers, OthersKept
=============================================================================
