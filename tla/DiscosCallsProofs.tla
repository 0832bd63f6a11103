--------------------------- MODULE DiscosCallsProofs ---------------------------
(***************************************************************************)
(* Proofs about the calls on DISCOS: those on file descriptors (DiscosFd), *)
(* for every number of processes, tables and file objects; and those of    *)
(* the processes in discos_ioctl that sleep in the middle of a call        *)
(* (DiscosIoctl), from the lemmas about the calls of DiscosProofs and      *)
(* DiscosNamesProofs: what each half of a call keeps, whatever the other   *)
(* processes did to the disk meanwhile.                                    *)
(*                                                                         *)
(* The inductive invariant of DiscosFd joins the file system's own (Good)  *)
(* to what rd_open and rd_close make of the file objects: one in use has   *)
(* its own slot as its position and an inode, and one not in use is all    *)
(* zero.  DescriptorsExact says what the searches then find; it is not     *)
(* inductive, because it does not say which object the next rd_open takes. *)
(***************************************************************************)
EXTENDS DiscosFd, DiscosIoctl, DiscosNamesProofs

-----------------------------------------------------------------------------
(* File descriptors                                                        *)

(* What rd_open and rd_close leave of a file object.                       *)
Sound(object, s) ==
  IF object.usable = 1 THEN object.pos = s /\ object.inode_ptr \in InodeNum
                       ELSE object = ZeroObject

(* Every file object of every table is.                                    *)
TablesSound == \A t \in Pool, s \in Slots : Sound(Object(t, s), s)

(* The inductive invariant.                                                *)
FdGood ==
  /\ Good(discos) /\ ret \in Slots \cup {NULL}
  /\ p_fd_table \in FdTables /\ TablesSound

-----------------------------------------------------------------------------
(* The searches *)

(* The indices of tables and objects are numbers, and NULL is none of them. *)
LEMMA PoolSlots ==
  /\ Pool \subseteq Nat /\ 0 \in Pool /\ NULL \notin Pool
  /\ Slots \subseteq Nat /\ 0 \in Slots /\ NULL \notin Slots
BY DiscosFdAssumption DEF Pool, Slots, NULL

(* A scan from the low end returns the first match, or NULL if there is    *)
(* none.                                                                   *)
LEMMA FirstMatch ==
  ASSUME NEW S, S \subseteq Nat
  PROVE  /\ S = {} => First(S) = NULL
         /\ S # {} => /\ First(S) \in S /\ First(S) # NULL
                      /\ \A x \in S : First(S) <= x
<1>1. CASE S = {}
  BY <1>1 DEF First
<1>2. CASE S # {}
  <2>1. First(S) = Min(S)
    BY <1>2 DEF First
  <2>2. Min(S) \in S /\ \A x \in S : Min(S) <= x
    BY <1>2, MinExists
  <2>3. Min(S) # NULL
    BY <2>2 DEF NULL
  <2>4. QED
    BY <1>2, <2>1, <2>2, <2>3
<1>3. QED
  BY <1>1, <1>2

(* get_fd_table returns an entry of p_fd_table, or no table.               *)
LEMMA TableFound ==
  ASSUME NEW pid
  PROVE  get_fd_table(pid) \in Pool \cup {NULL}
<1> DEFINE with(p) == {i \in Pool : p_fd_table[i].pid = p}
<1>1. with(pid) \subseteq Nat /\ with(0) \subseteq Nat
  BY PoolSlots
<1>2. with(pid) # {} => Min(with(pid)) \in with(pid)
  <2> HIDE DEF with
  <2>1. QED
    BY <1>1, MinExists
<1>3. First(with(0)) \in with(0) \cup {NULL}
  <2> HIDE DEF with
  <2>1. QED
    BY <1>1, FirstMatch
<1>4. get_fd_table(pid) = IF with(pid) # {} THEN Min(with(pid)) ELSE First(with(0))
  BY DEF get_fd_table
<1>5. QED
  BY <1>2, <1>3, <1>4

(* create_file_object returns an object of the table that is not in use.   *)
LEMMA FreeObject ==
  ASSUME NEW t \in Pool, create_file_object(t) # NULL
  PROVE  create_file_object(t) \in Slots /\ Object(t, create_file_object(t)).usable = 0
<1> DEFINE free == {s \in Slots : p_fd_table[t].file_objects[s].usable = 0}
<1>1. free \subseteq Nat
  BY PoolSlots
<1>2. create_file_object(t) = First(free)
  BY DEF create_file_object
<1>3. First(free) \in free
  <2> HIDE DEF free
  <2>1. QED
    BY <1>1, <1>2, FirstMatch
<1>4. QED
  BY <1>2, <1>3 DEF Object

(* The object of a descriptor is one whose position it is, and the first.  *)
LEMMA ObjectFound ==
  ASSUME NEW t \in Pool, NEW fd
  PROVE  /\ ObjectOf(t, fd) \in Slots \cup {NULL}
         /\ ObjectOf(t, fd) # NULL => Object(t, ObjectOf(t, fd)).pos = fd
         /\ \A s \in Slots : Object(t, s).pos = fd => /\ ObjectOf(t, fd) # NULL
                                                      /\ ObjectOf(t, fd) <= s
<1> DEFINE found == {s \in Slots : p_fd_table[t].file_objects[s].pos = fd}
<1>1. found \subseteq Nat
  BY PoolSlots
<1>2. ObjectOf(t, fd) = First(found)
  BY DEF ObjectOf
<1>3. /\ found = {} => First(found) = NULL
      /\ found # {} => /\ First(found) \in found /\ First(found) # NULL
                       /\ \A x \in found : First(found) <= x
  <2> HIDE DEF found
  <2>1. QED
    BY <1>1, FirstMatch
<1>4. \A s \in Slots : Object(t, s).pos = fd <=> s \in found
  BY DEF Object
<1>5. found \subseteq Slots
  OBVIOUS
<1> HIDE DEF found
<1>6. QED
  BY <1>2, <1>3, <1>4, <1>5

(* What the searches find, given the inductive invariant.                  *)
LEMMA SearchesExact ==
  ASSUME FdGood
  PROVE  DescriptorsExact
<1> SUFFICES ASSUME NEW t \in Pool, NEW fd \in Slots
             PROVE  /\ InUse(t, fd) => ObjectOf(t, fd) = fd
                    /\ LET s == ObjectOf(t, fd)
                       IN  s # NULL /\ Object(t, s).inode_ptr # NULL => s = fd /\ InUse(t, s)
  BY DEF DescriptorsExact
<1> DEFINE o == ObjectOf(t, fd)
<1>1. /\ o \in Slots \cup {NULL}
      /\ o # NULL => Object(t, o).pos = fd
      /\ \A s \in Slots : Object(t, s).pos = fd => o # NULL /\ o <= s
  BY ObjectFound
<1>2. \A s \in Slots : Sound(Object(t, s), s)
  BY DEF FdGood, TablesSound
<1>3. ZeroObject.inode_ptr = NULL /\ ZeroObject.pos = 0
  BY DEF ZeroObject
<1> HIDE DEF o
<1>4. ASSUME InUse(t, fd) PROVE o = fd
  <2>1. o \in Slots /\ o <= fd /\ Object(t, o).pos = fd
    BY <1>1, <1>2, <1>4 DEF InUse, Sound
  <2>2. CASE Object(t, o).usable = 1
    BY <1>2, <2>1, <2>2 DEF Sound
  <2>3. CASE Object(t, o).usable # 1
    <3>1. fd = 0
      BY <1>2, <1>3, <2>1, <2>3 DEF Sound
    <3>2. QED
      BY <2>1, <3>1, PoolSlots
  <2>4. QED
    BY <2>2, <2>3
<1>5. ASSUME o # NULL, Object(t, o).inode_ptr # NULL PROVE o = fd /\ InUse(t, o)
  <2>1. o \in Slots /\ Object(t, o).pos = fd
    BY <1>1, <1>5
  <2>2. Object(t, o).usable = 1
    BY <1>2, <1>3, <1>5, <2>1 DEF Sound
  <2>3. QED
    BY <1>2, <2>1, <2>2 DEF Sound, InUse
<1>6. QED
  BY <1>4, <1>5 DEF o

-----------------------------------------------------------------------------
(* Each call keeps it *)

(* Where no file object changes, the tables stay sound.                    *)
LEMMA TablesKept ==
  ASSUME p_fd_table \in FdTables, TablesSound, UNCHANGED p_fd_table
  PROVE  (p_fd_table \in FdTables)' /\ TablesSound'
BY DEF TablesSound, Object

(* A call that returns 0 or fails, and leaves the tables alone, keeps the  *)
(* inductive invariant if it keeps the file system's.                      *)
LEMMA CallKeepsTables ==
  ASSUME FdGood, GoodState', UNCHANGED p_fd_table
  PROVE  FdGood'
BY TablesKept, PoolSlots DEF FdGood, GoodState

(* A new access mode keeps the file system's invariant.                    *)
LEMMA AccessGood ==
  ASSUME NEW fs, Good(fs), NEW n \in InodeNum, NEW mode \in Nat,
         NEW gs, gs = [fs EXCEPT !.inodes[n].access = mode]
  PROVE  Good(gs)
<1> DEFINE z == [fs.inodes[n] EXCEPT !.access = mode]
<1>1. fs.inodes[n] \in Inode
  BY DEF Good, FileSys
<1>2. /\ z \in Inode /\ z.pointers = fs.inodes[n].pointers
      /\ z.single = fs.inodes[n].single /\ z.double = fs.inodes[n].double
  BY <1>1 DEF Inode
<1>3. gs = [fs EXCEPT !.inodes[n] = z]
  OBVIOUS
<1> HIDE DEF z
<1>4. QED
  BY <1>2, <1>3, PutInodeShrinks

(* rd_create, rd_mkdir and rd_unlink keep the inductive invariant.         *)
LEMMA NameCallGood ==
  ASSUME FdGood, NEW path \in Paths, NameCall(path)
  PROVE  FdGood'
<1>1. Good(discos)
  BY DEF FdGood
<1>2. ASSUME NEW mode \in Modes, rd_create(path, "reg", mode) PROVE GoodState'
  <2>1. mode \in Nat
    BY DiscosAssumption
  <2>2. QED
    BY <1>1, <1>2, <2>1, CreateGood
<1>3. GoodState'
  BY <1>1, <1>2, MkdirGood, UnlinkCallGood DEF NameCall
<1>4. QED
  BY <1>3, CallKeepsTables DEF NameCall

(* rd_chmod keeps it: it changes the access mode of one inode.             *)
LEMMA ChmodGood ==
  ASSUME FdGood, NEW path \in Paths, NEW mode \in Modes, rd_chmod(path, mode)
  PROVE  FdGood'
<1>1. ASSUME NEW file \in InodeNum,
             discos' = [discos EXCEPT !.inodes[file].access = mode], Returns(0)
      PROVE  GoodState'
  <2>1. mode \in Nat /\ Good(discos)
    BY DiscosAssumption DEF FdGood
  <2>2. Good(discos')
    BY <1>1, <2>1, AccessGood
  <2>3. QED
    BY <1>1, <2>2 DEF Returns, GoodState
<1>2. GoodState'
  <2>1. CASE Refused
    BY <2>1 DEF Refused, Returns, GoodState, FdGood
  <2>2. QED
    BY <1>1, <2>1 DEF rd_chmod
<1>3. QED
  BY <1>2, CallKeepsTables DEF rd_chmod

(* Putting a sound object into a slot keeps the tables sound.              *)
LEMMA PutObject ==
  ASSUME FdGood, NEW t \in Pool, NEW s \in Slots, NEW object \in FileObject, Sound(object, s),
         p_fd_table' = [p_fd_table EXCEPT ![t].file_objects[s] = object]
  PROVE  /\ p_fd_table' \in FdTables /\ TablesSound'
         /\ \A u \in Pool, r \in Slots : u # t \/ r # s => Object(u, r)' = Object(u, r)
<1>1. p_fd_table \in FdTables
  BY DEF FdGood
<1>2. p_fd_table' \in FdTables
  BY <1>1 DEF FdTables
<1>3. \A u \in Pool, r \in Slots :
        Object(u, r)' = IF u = t /\ r = s THEN object ELSE Object(u, r)
  BY <1>1 DEF FdTables, Object
<1>4. TablesSound'
  BY <1>3 DEF FdGood, TablesSound
<1>5. QED
  BY <1>2, <1>3, <1>4

(* What rd_open does to the tables: it fills an object that is not in use. *)
LEMMA OpenEffect ==
  ASSUME FdGood, NEW path \in Paths, NEW flags \in Flags, NEW pid \in Pids,
         rd_open(path, flags, pid)
  PROVE  /\ FdGood'
         /\ \A u \in Pool, r \in Slots : InUse(u, r) => Object(u, r)' = Object(u, r)
<1> DEFINE file == my_find_inode_number(discos, path)
           t    == get_fd_table(pid)
           fd   == create_file_object(t)
           object == [inode_ptr |-> file, status |-> flags, pos |-> fd, usable |-> 1]
<1>1. CASE Refused /\ UNCHANGED p_fd_table
  <2>1. GoodState'
    BY <1>1 DEF Refused, Returns, GoodState, FdGood
  <2>2. QED
    BY <1>1, <2>1, CallKeepsTables DEF Object
<1>2. CASE /\ file \in InodeNum /\ t # NULL /\ fd # NULL
           /\ p_fd_table' = [p_fd_table EXCEPT ![t].file_objects[fd] = object]
           /\ Returns(fd) /\ UNCHANGED discos
  <2>1. t \in Pool
    BY <1>2, TableFound
  <2>2. fd \in Slots /\ Object(t, fd).usable = 0
    BY <1>2, <2>1, FreeObject
  <2>3. object \in FileObject /\ Sound(object, fd)
    BY <1>2, <2>2 DEF FileObject, Sound
  <2>4. p_fd_table' = [p_fd_table EXCEPT ![t].file_objects[fd] = object]
    BY <1>2
  <2>5. Good(discos') /\ ret' \in Slots
    BY <1>2, <2>2 DEF FdGood, Returns
  <2> HIDE DEF object, fd, t, file
  <2>6. /\ p_fd_table' \in FdTables /\ TablesSound'
        /\ \A u \in Pool, r \in Slots : u # t \/ r # fd => Object(u, r)' = Object(u, r)
    BY <2>1, <2>2, <2>3, <2>4, PutObject
  <2>7. FdGood'
    BY <2>5, <2>6 DEF FdGood
  <2>8. QED
    BY <2>2, <2>6, <2>7 DEF InUse
<1>3. QED
  BY <1>1, <1>2 DEF rd_open

(* What rd_close does to the tables: it releases the object of its         *)
(* descriptor, in the caller's table, and no other.                        *)
LEMMA CloseEffect ==
  ASSUME FdGood, NEW fd \in Slots, NEW pid \in Pids, rd_close(fd, pid)
  PROVE  /\ FdGood'
         /\ \A u \in Pool, r \in Slots :
              u # get_fd_table(pid) \/ r # fd => Object(u, r)' = Object(u, r)
<1> DEFINE t == get_fd_table(pid)
           s == ObjectOf(t, fd)
<1>1. CASE Refused /\ UNCHANGED p_fd_table
  <2>1. GoodState'
    BY <1>1 DEF Refused, Returns, GoodState, FdGood
  <2>2. QED
    BY <1>1, <2>1, CallKeepsTables DEF Object
<1>2. CASE /\ t # NULL /\ s # NULL
           /\ p_fd_table[t].file_objects[s].inode_ptr # NULL
           /\ p_fd_table' = [p_fd_table EXCEPT ![t].file_objects[s] = ZeroObject]
           /\ Returns(0) /\ UNCHANGED discos
  <2>1. t \in Pool
    BY <1>2, TableFound
  <2>2. s = fd
    <3>1. Object(t, s).inode_ptr # NULL
      BY <1>2 DEF Object
    <3>2. QED
      BY <1>2, <2>1, <3>1, SearchesExact DEF DescriptorsExact
  <2>3. ZeroObject \in FileObject /\ Sound(ZeroObject, fd)
    BY PoolSlots DEF FileObject, Sound, ZeroObject
  <2>4. p_fd_table' = [p_fd_table EXCEPT ![t].file_objects[fd] = ZeroObject]
    BY <1>2, <2>2
  <2>5. Good(discos') /\ ret' \in Slots
    BY <1>2, PoolSlots DEF FdGood, Returns
  <2> HIDE DEF t, s
  <2>6. /\ p_fd_table' \in FdTables /\ TablesSound'
        /\ \A u \in Pool, r \in Slots : u # t \/ r # fd => Object(u, r)' = Object(u, r)
    BY <2>1, <2>3, <2>4, PutObject
  <2>7. FdGood'
    BY <2>5, <2>6 DEF FdGood
  <2>8. QED
    BY <2>6, <2>7 DEF t
<1>3. QED
  BY <1>1, <1>2 DEF rd_close, Released

(* The tables that init_file_sys leaves are sound.                         *)
LEMMA FreshTablesGood == FreshTables \in FdTables /\ (p_fd_table = FreshTables => TablesSound)
<1>1. ZeroObject \in FileObject
  BY PoolSlots DEF FileObject, ZeroObject
<1>2. FreshTables \in FdTables
  BY <1>1 DEF FreshTables, FdTables
<1>3. ZeroObject.usable # 1
  BY DEF ZeroObject
<1>4. p_fd_table = FreshTables => \A t \in Pool, s \in Slots : Object(t, s) = ZeroObject
  BY DEF FreshTables, Object
<1>5. QED
  BY <1>2, <1>3, <1>4 DEF TablesSound, Sound

(* RD_INIT establishes the inductive invariant from any state.             *)
LEMMA RdInitGood ==
  ASSUME RD_INIT
  PROVE  FdGood'
<1>1. GoodState'
  BY InitCallGood DEF RD_INIT
<1>2. FreshTables \in FdTables
  BY FreshTablesGood
<1>3. \A t \in Pool, s \in Slots : Object(t, s)' = ZeroObject
  BY DEF RD_INIT, FreshTables, Object
<1>4. ZeroObject.usable # 1
  BY DEF ZeroObject
<1>5. TablesSound'
  BY <1>3, <1>4 DEF TablesSound, Sound
<1>6. QED
  BY <1>1, <1>2, <1>5, PoolSlots DEF RD_INIT, GoodState, FdGood

(* The inductive invariant holds at the start ...                          *)
LEMMA InitFdGood == InitFd => FdGood
BY FreshGood, FreshTablesGood, PoolSlots DEF InitFd, Init, FdGood

(* ... and every call keeps it.                                            *)
LEMMA NextFdGood == FdGood /\ [NextFd]_vars_fd => FdGood'
<1> SUFFICES ASSUME FdGood, [NextFd]_vars_fd PROVE FdGood'
  OBVIOUS
<1>1. CASE UNCHANGED vars_fd
  BY <1>1, TablesKept DEF vars_fd, FdGood
<1>2. QED
  BY <1>1, NameCallGood, ChmodGood, OpenEffect, CloseEffect, RdInitGood DEF NextFd

-----------------------------------------------------------------------------
(* The theorems *)

(* The inductive invariant holds after any calls of any processes, for     *)
(* every number of tables and file objects.                                *)
THEOREM FdAlwaysGood == SpecFd => []FdGood
BY InitFdGood, NextFdGood, PTL DEF SpecFd

(* The file system and the tables of file objects keep their types, and a  *)
(* call returns a descriptor, 0 or -1, whatever is opened, closed, created *)
(* and unlinked: create_file_object never goes beyond its table.           *)
THEOREM FdTypeCorrect == SpecFd => []TypeOKFd
<1>1. FdGood => TypeOKFd
  BY DEF FdGood, Good, TypeOKFd
<1>2. QED
  BY <1>1, FdAlwaysGood, PTL

(* The search that begins rd_read, rd_write, rd_lseek and rd_close finds   *)
(* the object of its own descriptor, though the position of a released     *)
(* object is the descriptor 0.                                             *)
THEOREM DescriptorsFindTheirOwn == SpecFd => []DescriptorsExact
BY SearchesExact, FdAlwaysGood, PTL

(* No call but rd_close of its own descriptor, by a process whose table it *)
(* is, and RD_INIT changes a file object that is in use.                   *)
THEOREM ObjectsKept == SpecFd => ObjectKeptUntilClosed
<1> DEFINE Stays == \A t \in Pool, fd \in Slots :
                     InUse(t, fd) =>
                       \/ Object(t, fd)' = Object(t, fd)
                       \/ \E pid \in Pids : get_fd_table(pid) = t /\ rd_close(fd, pid)
                       \/ RD_INIT
<1>1. FdGood /\ [NextFd]_vars_fd => [Stays]_vars_fd
  <2> SUFFICES ASSUME FdGood, NextFd,
                      NEW t \in Pool, NEW fd \in Slots, InUse(t, fd)
               PROVE  \/ Object(t, fd)' = Object(t, fd)
                      \/ \E pid \in Pids : get_fd_table(pid) = t /\ rd_close(fd, pid)
                      \/ RD_INIT
    OBVIOUS
  <2>1. ASSUME NEW path \in Paths, NameCall(path) \/ \E mode \in Modes : rd_chmod(path, mode)
        PROVE  Object(t, fd)' = Object(t, fd)
    BY <2>1 DEF NameCall, rd_chmod, Object
  <2>2. ASSUME NEW path \in Paths, NEW flags \in Flags, NEW pid \in Pids,
               rd_open(path, flags, pid)
        PROVE  Object(t, fd)' = Object(t, fd)
    BY <2>2, OpenEffect
  <2>3. ASSUME NEW d \in Slots, NEW pid \in Pids, rd_close(d, pid),
               Object(t, fd)' # Object(t, fd)
        PROVE  get_fd_table(pid) = t /\ rd_close(fd, pid)
    BY <2>3, CloseEffect
  <2>4. QED
    BY <2>1, <2>2, <2>3 DEF NextFd
<1>2. QED
  BY <1>1, FdAlwaysGood, PTL DEF SpecFd, ObjectKeptUntilClosed

-----------------------------------------------------------------------------
(* The disk that RD_INIT has zeroed and not yet counted *)

(* init_bitmap has not run: no block is free by the counter or marked in   *)
(* the bitmap.                                                             *)
Uncounted(fs) == fs.free_blocks = 0 /\ fs.bitmap = {}

(* No pointer leads anywhere while no block is marked.                     *)
LEMMA NoPointers ==
  ASSUME NEW fs, Good(fs), fs.bitmap = {}
  PROVE  \A n \in InodeNum : /\ \A i \in DirectIdx : fs.inodes[n].pointers[i] = NULL
                             /\ fs.inodes[n].single = NULL
                             /\ fs.inodes[n].double = NULL
<1>1. \A l \in PtrLoc : PtrAt(fs, l) = NULL
  BY DEF Good, Owned, UsedLoc
<1> SUFFICES ASSUME NEW n \in InodeNum
             PROVE  /\ \A i \in DirectIdx : fs.inodes[n].pointers[i] = NULL
                    /\ fs.inodes[n].single = NULL
                    /\ fs.inodes[n].double = NULL
  OBVIOUS
<1>2. ASSUME NEW i \in DirectIdx PROVE fs.inodes[n].pointers[i] = NULL
  <2>1. <<"direct", n, i>> \in PtrLoc
    BY LocMembers
  <2>2. QED
    BY <1>1, <2>1, LocValues
<1>3. <<"single", n, 0>> \in PtrLoc /\ <<"double", n, 0>> \in PtrLoc
  BY LocMembers
<1>4. fs.inodes[n].single = NULL /\ fs.inodes[n].double = NULL
  BY <1>1, <1>3, LocValues
<1>5. QED
  BY <1>2, <1>4

(* On such a disk rd_create finds no entry and attaches no block ...       *)
LEMMA NextOnUncounted ==
  ASSUME NEW fs, Good(fs), Uncounted(fs), NEW n \in InodeNum
  PROVE  get_next_entry(fs, n) = NotFound(fs)
<1>1. get_free_block_num_from_bitmap(fs) = NULL
  BY DEF get_free_block_num_from_bitmap, Uncounted
<1>2. /\ \A i \in DirectIdx : fs.inodes[n].pointers[i] = NULL
      /\ fs.inodes[n].single = NULL /\ fs.inodes[n].double = NULL
  BY NoPointers DEF Uncounted
<1>3. \A i \in DirectIdx : NextInDirect(fs, n, i) = NotFound(fs)
  BY <1>1, <1>2 DEF NextInDirect
<1>4. \A seg : NextInSingle(fs, n, seg) = NotFound(fs)
  BY <1>1, <1>2 DEF NextInSingle
<1>5. \A seg : NextInDouble(fs, n, seg) = NotFound(fs)
  BY <1>1, <1>2 DEF NextInDouble
<1> DEFINE seg    == fs.inodes[n].size \div BLOCK_SIZE
           direct == {i \in DirectIdx : /\ i >= seg
                                        /\ \/ fs.inodes[n].pointers[i] = NULL
                                           \/ FreeSlots(fs, fs.inodes[n].pointers[i]) # {}}
<1>6. ASSUME direct # {} PROVE Min(direct) \in DirectIdx
  <2>1. direct \subseteq DirectIdx /\ \A i \in DirectIdx : i \in Nat
    BY DEF DirectIdx
  <2> HIDE DEF direct
  <2>2. Min(direct) \in direct
    BY <1>6, <2>1, MinExists
  <2>3. QED
    BY <2>1, <2>2
<1>7. (NotFound(fs)).fs = fs /\ (NotFound(fs)).block = NULL
  BY DEF NotFound
<1>8. QED
  BY <1>2, <1>3, <1>4, <1>5, <1>6, <1>7 DEF get_next_entry

(* ... so that the second half of rd_create leaves it as it is.            *)
LEMMA CreateOnUncounted ==
  ASSUME GoodState, Uncounted(discos),
         NEW path, NEW type, NEW mode, create_allocated(path, type, mode)
  PROVE  discos' = discos
<1>1. PICK parent \in parse_absolute_path(path) :
        LET dir == my_find_inode_number(discos, parent)
            e   == get_next_entry(discos, dir)
            n   == get_free_inode_num(e.fs)
        IN  \/ /\ dir \notin InodeNum
               /\ Refused
            \/ /\ dir \in InodeNum
               /\ e.block = NULL \/ n = NULL
               /\ discos' = e.fs
               /\ Returns(NULL)
            \/ /\ dir \in InodeNum
               /\ e.block # NULL /\ n # NULL
               /\ discos' = FillEntry(e, dir, n, Last(path), type, mode)
               /\ Returns(0)
  BY DEF create_allocated
<1> DEFINE dir == my_find_inode_number(discos, parent)
<1>2. dir \in InodeNum => get_next_entry(discos, dir) = NotFound(discos)
  BY NextOnUncounted DEF GoodState
<1> HIDE DEF dir
<1>3. (NotFound(discos)).fs = discos /\ (NotFound(discos)).block = NULL
  BY DEF NotFound
<1>4. QED
  BY <1>1, <1>2, <1>3 DEF Refused, dir

(* rd_unlink gives no block back there, whatever inode it clears.          *)
LEMMA UnlinkOnUncounted ==
  ASSUME NEW fs, Good(fs), Uncounted(fs), NEW file \in InodeNum, NEW dir \in InodeNum, NEW name
  PROVE  Uncounted(Unlink(fs, file, dir, name))
<1> DEFINE xs == my_clear_inode(fs, file)
<1>1. BlocksOf(fs, file) = {}
  <2>1. IndexTargets(fs, NULL) = {}
    BY DEF IndexTargets, Index
  <2>2. /\ \A i \in DirectIdx : fs.inodes[file].pointers[i] = NULL
        /\ fs.inodes[file].single = NULL /\ fs.inodes[file].double = NULL
    BY NoPointers DEF Uncounted
  <2>3. QED
    BY <2>1, <2>2 DEF BlocksOf
<1>2. fs \in FileSys
  BY DEF Good
<1>3. xs.bitmap = {} /\ xs.free_blocks = 0 /\ xs.inodes = fs.inodes
  BY <1>1, <1>2, FS_EmptySet DEF my_clear_inode, Uncounted, FileSys
<1>4. clear_entry_in_current_dir(xs, dir, name) = xs
  <2>1. /\ \A i \in DirectIdx : xs.inodes[dir].pointers[i] = NULL
        /\ xs.inodes[dir].single = NULL
    BY <1>3, NoPointers DEF Uncounted
  <2>2. DOMAIN xs.inodes[dir].pointers = DirectIdx
    BY <1>2, <1>3 DEF FileSys, Inode
  <2> HIDE DEF xs
  <2>3. Hits(xs, xs.inodes[dir].pointers, name) = {}
    BY <2>1, <2>2 DEF Hits
  <2>4. QED
    BY <2>1, <2>3 DEF clear_entry_in_current_dir
<1>5. QED
  <2>1. xs \in FileSys
    BY ClearedAfter DEF Cleared
  <2> HIDE DEF xs
  <2>2. Unlink(fs, file, dir, name) =
          [xs EXCEPT !.inodes[dir].size = (@ - DIR_ENTRY_SIZE) % UINT_RANGE,
                     !.inodes[file]     = ZeroInode,
                     !.free_inodes      = (@ + 1) % UINT_RANGE]
    BY <1>4 DEF Unlink, xs
  <2>3. QED
    BY <1>3, <2>1, <2>2 DEF Uncounted, FileSys

-----------------------------------------------------------------------------
(* The steps of RD_INIT *)

(* The blank disk is good: nothing leads anywhere, and it counts nothing.  *)
LEMMA BlankGood == Good(BlankFileSys) /\ Uncounted(BlankFileSys)
<1> DEFINE as == [FreshFileSys EXCEPT !.free_blocks = 0]
           bs == [as EXCEPT !.free_inodes = 0]
           gs == [bs EXCEPT !.inodes[0] = ZeroInode]
<1>1. FreshFileSys \in FileSys /\ Good(FreshFileSys) /\ FreshFileSys.bitmap = {}
  BY FreshGood DEF Good, FreshFileSys
<1>2. /\ as \in FileSys /\ as.free_blocks = 0 /\ as.bitmap = {}
      /\ as.inodes = FreshFileSys.inodes /\ as.data_blocks = FreshFileSys.data_blocks
  BY <1>1 DEF FileSys
<1> HIDE DEF as
<1>3. Good(as)
  <2>1. \A l : PtrAt(as, l) = PtrAt(FreshFileSys, l)
    BY <1>2 DEF PtrAt
  <2>2. UsedLoc(as) = UsedLoc(FreshFileSys)
    BY <2>1 DEF UsedLoc
  <2>3. Owned(as)
    BY <1>1, <1>2, <2>1, <2>2 DEF Good, Owned
  <2>4. \A b : HoldsNoPointer(as, b) <=> HoldsNoPointer(FreshFileSys, b)
    BY <1>2 DEF HoldsNoPointer
  <2>5. IndexOnly(as)
    BY <1>1, <1>2, <2>1, <2>2, <2>4 DEF Good, IndexOnly
  <2>6. Covered(as)
    <3>1. Cardinality(BlockNum \ as.bitmap) \in Nat
      BY FreeSetFinite
    <3>2. QED
      BY <1>2, <3>1 DEF Covered
  <2>7. QED
    BY <1>2, <2>3, <2>5, <2>6 DEF Good
<1>4. 0 \in UInt /\ 0 \in InodeNum
  BY DiscosAssumption DEF UInt, InodeNum
<1>5. Good(bs)
  BY <1>3, <1>4, CountGood
<1>6. bs.free_blocks = 0 /\ bs.bitmap = {} /\ bs \in FileSys
  BY <1>2, <1>4 DEF FileSys
<1>7. BlankFileSys = gs
  BY DEF BlankFileSys, as
<1> HIDE DEF bs
<1>8. Good(gs)
  BY <1>4, <1>5, ZeroTypes, PutInodeShrinks DEF ZeroInode
<1>9. gs.free_blocks = 0 /\ gs.bitmap = {}
  BY <1>6 DEF FileSys
<1>10. QED
  BY <1>7, <1>8, <1>9 DEF Uncounted

(* The disk has DATA_BLOCKS_NUM blocks.                                    *)
LEMMA BlockCount == Cardinality(BlockNum) = DATA_BLOCKS_NUM
BY FS_Interval, DiscosAssumption DEF BlockNum

(* It stays good when init_file_sys gives it its counts.                   *)
LEMMA CountsGood ==
  ASSUME NEW fs, Good(fs), Uncounted(fs),
         NEW gs, gs = [fs EXCEPT !.free_blocks = DATA_BLOCKS_NUM, !.free_inodes = MAX_NUM_FILE]
  PROVE  Good(gs)
<1>1. fs \in FileSys /\ fs.bitmap = {}
  BY DEF Good, Uncounted
<1>2. DATA_BLOCKS_NUM \in Nat /\ MAX_NUM_FILE \in UInt
  BY DiscosAssumption, IoctlAssumption DEF UInt
<1>3. /\ gs \in FileSys /\ gs.free_blocks = DATA_BLOCKS_NUM /\ gs.bitmap = {}
      /\ gs.inodes = fs.inodes /\ gs.data_blocks = fs.data_blocks
  BY <1>1, <1>2 DEF FileSys
<1>4. \A l : PtrAt(gs, l) = PtrAt(fs, l)
  BY <1>3 DEF PtrAt
<1>5. UsedLoc(gs) = UsedLoc(fs)
  BY <1>4 DEF UsedLoc
<1>6. Owned(gs)
  BY <1>1, <1>3, <1>4, <1>5 DEF Good, Owned
<1>7. \A b : HoldsNoPointer(gs, b) <=> HoldsNoPointer(fs, b)
  BY <1>3 DEF HoldsNoPointer
<1>8. IndexOnly(gs)
  BY <1>1, <1>3, <1>4, <1>5, <1>7 DEF Good, IndexOnly
<1>9. Covered(gs)
  <2>1. Cardinality(BlockNum) = DATA_BLOCKS_NUM
    BY BlockCount
  <2>2. BlockNum \ gs.bitmap = BlockNum
    BY <1>3
  <2>3. QED
    BY <1>2, <1>3, <2>1, <2>2 DEF Covered
<1>10. QED
  BY <1>3, <1>6, <1>8, <1>9 DEF Good

-----------------------------------------------------------------------------
(* The inductive invariant *)

(* Process p is inside RD_INIT.                                            *)
InRdInit(p) == call[p].cmd \in {"init_fd_table", "init_root"}

(* The disk is good whoever sleeps; one process at most is in RD_INIT; and *)
(* until it has counted the disk, no block is marked.                      *)
IoctlGood ==
  /\ GoodState
  /\ call \in [Procs -> Calls] /\ overtaken \in Nat
  /\ \A p, q \in Procs : InRdInit(p) /\ InRdInit(q) => p = q
  /\ \A p \in Procs : call[p].cmd = "init_fd_table" => Uncounted(discos)

(* What a process that sleeps has in its local variables.                  *)
LEMMA CallTypes ==
  ASSUME NEW c \in Calls
  PROVE  /\ c.cmd = "create" => /\ c.path \in Paths /\ c.type \in {"dir", "reg"}
                                /\ c.mode \in Nat
         /\ c.cmd = "unlink" => c.path \in Paths /\ c.file \in InodeNum
<1>1. Modes \cup {1} \subseteq Nat
  BY DiscosAssumption
<1>2. QED
  BY <1>1 DEF Calls

(* A process that changes its own call to one that is not RD_INIT's, on a  *)
(* disk that is as good and as uncounted as before, keeps the invariant.   *)
LEMMA OtherCall ==
  ASSUME IoctlGood, NEW p \in Procs, NEW c \in Calls,
         c.cmd \notin {"init_fd_table", "init_root"} \/ c.cmd = call[p].cmd,
         Sleeps(p, c), GoodState', Uncounted(discos) => Uncounted(discos)', overtaken' \in Nat
  PROVE  IoctlGood'
<1>1. call' \in [Procs -> Calls] /\ call'[p] = c /\ \A q \in Procs \ {p} : call'[q] = call[q]
  BY DEF IoctlGood, Sleeps
<1>2. \A q \in Procs : call'[q].cmd \in {"init_fd_table", "init_root"} => call'[q].cmd = call[q].cmd
  BY <1>1
<1>3. \A q, r \in Procs : InRdInit(q)' /\ InRdInit(r)' => q = r
  BY <1>2 DEF IoctlGood, InRdInit
<1>4. \A q \in Procs : call'[q].cmd = "init_fd_table" => Uncounted(discos)'
  BY <1>2 DEF IoctlGood
<1>5. QED
  BY <1>1, <1>3, <1>4 DEF IoctlGood

(* The same, where nothing is put to sleep and the disk may have changed.  *)
LEMMA SameCall ==
  ASSUME IoctlGood, UNCHANGED call, GoodState', Uncounted(discos) => Uncounted(discos)',
         overtaken' \in Nat
  PROVE  IoctlGood'
BY DEF IoctlGood, InRdInit

(* A process that is in no call.                                           *)
LEMMA IdleIsCall == Idle \in Calls /\ Idle.cmd = "idle"
BY DEF Idle, Calls

-----------------------------------------------------------------------------
(* Each step keeps it *)

(* rd_mkdir("/") on a disk whose inodes are all counted as free.           *)
LEMMA MkdirRootGood ==
  ASSUME GoodState, rd_mkdir(Root)
  PROVE  GoodState' /\ (Uncounted(discos) => Uncounted(discos)')
<1>1. CASE Refused
  BY <1>1 DEF Refused, Returns, GoodState
<1>2. CASE /\ discos.free_inodes = MAX_NUM_FILE
           /\ discos' = [discos EXCEPT !.free_inodes = @ - 1, !.inodes[0].type = "dir"]
           /\ Returns(0)
  <2>1. GoodState'
    BY <1>2, RootMadeGood DEF Returns, GoodState
  <2>2. discos \in FileSys
    BY DEF GoodState, Good
  <2>3. discos'.free_blocks = discos.free_blocks /\ discos'.bitmap = discos.bitmap
    BY <1>2, <2>2 DEF FileSys
  <2>4. QED
    BY <2>1, <2>3 DEF Uncounted
<1>3. QED
  BY <1>1, <1>2 DEF rd_mkdir

(* The half of rd_create and rd_mkdir before the sleep.                    *)
LEMMA CreateBeginKeeps ==
  ASSUME IoctlGood, NEW p \in Procs, NEW path \in Paths, NEW type \in {"dir", "reg"},
         NEW mode \in Modes \cup {1}, create_begin(p, path, type, mode)
  PROVE  IoctlGood'
<1>1. CASE Refused /\ UNCHANGED call
  BY <1>1, SameCall DEF create_begin, Refused, Returns, GoodState, IoctlGood
<1>2. CASE /\ Sleeps(p, [cmd |-> "create", path |-> path, type |-> type, mode |-> mode])
           /\ UNCHANGED <<discos, ret>>
  <2> DEFINE c == [cmd |-> "create", path |-> path, type |-> type, mode |-> mode]
  <2>1. c \in Calls /\ c.cmd = "create"
    BY DEF Calls
  <2>2. GoodState' /\ overtaken' \in Nat /\ discos' = discos
    BY <1>2 DEF create_begin, GoodState, IoctlGood
  <2>3. Sleeps(p, c)
    BY <1>2
  <2> HIDE DEF c
  <2>4. QED
    BY <2>1, <2>2, <2>3, OtherCall
<1>3. QED
  BY <1>1, <1>2 DEF create_begin

(* The half after it.                                                      *)
LEMMA CreateEndKeeps ==
  ASSUME IoctlGood, NEW p \in Procs, create_end(p)
  PROVE  IoctlGood'
<1> DEFINE c == call[p]
<1>1. c \in Calls /\ c.cmd = "create" /\ create_allocated(c.path, c.type, c.mode)
  BY DEF create_end, IoctlGood
<1>2. c.path \in Paths /\ c.type \in {"dir", "reg"} /\ c.mode \in Nat
  BY <1>1, CallTypes
<1>3. GoodState'
  BY <1>1, <1>2, CreateAllocatedGood DEF IoctlGood, GoodState
<1>4. Uncounted(discos) => Uncounted(discos)'
  <2>1. ASSUME Uncounted(discos) PROVE discos' = discos
    BY <1>1, <2>1, CreateOnUncounted DEF IoctlGood
  <2>2. QED
    BY <2>1
<1>5. Sleeps(p, Idle) /\ overtaken' \in Nat
  BY DEF create_end, Ends, Sleeps, IoctlGood
<1>6. QED
  BY <1>3, <1>4, <1>5, IdleIsCall, OtherCall

(* The half of rd_unlink before the sleep.                                 *)
LEMMA UnlinkBeginKeeps ==
  ASSUME IoctlGood, NEW p \in Procs, NEW path \in Paths, unlink_begin(p, path)
  PROVE  IoctlGood'
<1> DEFINE file == my_find_inode_number(discos, path)
           c    == [cmd |-> "unlink", path |-> path, file |-> file]
<1>1. CASE Refused /\ UNCHANGED call
  BY <1>1, SameCall DEF unlink_begin, Refused, Returns, GoodState, IoctlGood
<1>2. CASE /\ Removable(discos, path, file) /\ Sleeps(p, c)
           /\ UNCHANGED <<discos, ret>>
  <2>1. file \in InodeNum
    BY <1>2 DEF Removable
  <2> HIDE DEF file
  <2>2. c \in Calls /\ c.cmd = "unlink"
    BY <2>1 DEF Calls
  <2>3. GoodState' /\ overtaken' \in Nat /\ discos' = discos
    BY <1>2 DEF unlink_begin, GoodState, IoctlGood
  <2>4. Sleeps(p, c)
    BY <1>2
  <2> HIDE DEF c
  <2>5. QED
    BY <2>2, <2>3, <2>4, OtherCall
<1>3. QED
  BY <1>1, <1>2 DEF unlink_begin

(* The half after it, for whatever the inode is by then.                   *)
LEMMA UnlinkEndKeeps ==
  ASSUME IoctlGood, NEW p \in Procs, unlink_end(p)
  PROVE  IoctlGood'
<1> DEFINE c == call[p]
<1>1. c \in Calls /\ c.cmd = "unlink" /\ unlink_allocated(c.path, c.file)
  BY DEF unlink_end, IoctlGood
<1>2. c.path \in Paths /\ c.file \in InodeNum
  BY <1>1, CallTypes
<1>3. GoodState'
  BY <1>1, <1>2, UnlinkAllocatedGood DEF IoctlGood, GoodState
<1>4. Uncounted(discos) => Uncounted(discos)'
  <2> SUFFICES ASSUME Uncounted(discos) PROVE Uncounted(discos)'
    OBVIOUS
  <2> HIDE DEF c
  <2>1. PICK parent \in parse_absolute_path(c.path) :
          LET dir == my_find_inode_number(discos, parent)
          IN  \/ dir \notin InodeNum /\ Refused
              \/ /\ dir \in InodeNum
                 /\ discos' = Unlink(discos, c.file, dir, Last(c.path))
                 /\ Returns(0)
    BY <1>1 DEF unlink_allocated
  <2>2. CASE Refused
    BY <2>2 DEF Refused, Uncounted
  <2>3. ASSUME NEW dir \in InodeNum, discos' = Unlink(discos, c.file, dir, Last(c.path))
        PROVE  Uncounted(discos)'
    <3>1. Uncounted(Unlink(discos, c.file, dir, Last(c.path)))
      BY <1>2, UnlinkOnUncounted DEF IoctlGood, GoodState
    <3>2. QED
      BY <2>3, <3>1 DEF Uncounted
  <2>4. QED
    BY <2>1, <2>2, <2>3
<1>5. Sleeps(p, Idle) /\ overtaken' \in Nat
  BY DEF unlink_end, Ends, Sleeps, IoctlGood
<1>6. QED
  BY <1>3, <1>4, <1>5, IdleIsCall, OtherCall

(* RD_INIT clears the disk.                                                *)
LEMMA InitBeginKeeps ==
  ASSUME IoctlGood, NEW p \in Procs, init_begin(p)
  PROVE  IoctlGood'
<1>1. discos' = BlankFileSys /\ ret' = ret /\ overtaken' = 0
  BY DEF init_begin
<1>2. GoodState' /\ Uncounted(discos)'
  BY <1>1, BlankGood DEF GoodState, IoctlGood, Uncounted
<1>3. [cmd |-> "init_fd_table"] \in Calls
  BY DEF Calls
<1>4. call' \in [Procs -> Calls] /\ \A q \in Procs \ {p} : call'[q] = call[q]
  BY <1>3 DEF init_begin, IoctlGood, Sleeps
<1>5. \A q \in Procs : ~InRdInit(q)
  BY DEF init_begin, Initialising, InRdInit
<1>6. \A q \in Procs : InRdInit(q)' => q = p
  BY <1>4, <1>5 DEF InRdInit
<1>7. QED
  BY <1>1, <1>2, <1>4, <1>6 DEF IoctlGood

(* It counts the disk.                                                     *)
LEMMA InitCountsKeeps ==
  ASSUME IoctlGood, NEW p \in Procs, init_counts(p)
  PROVE  IoctlGood'
<1>1. Good(discos) /\ Uncounted(discos)
  BY DEF init_counts, IoctlGood, GoodState
<1>2. Good(discos') /\ ret' = ret /\ overtaken' = overtaken
  BY <1>1, CountsGood DEF init_counts
<1>3. [cmd |-> "init_root"] \in Calls
  BY DEF Calls
<1>4. /\ call' \in [Procs -> Calls] /\ call'[p].cmd = "init_root"
      /\ \A q \in Procs \ {p} : call'[q] = call[q]
  BY <1>3 DEF init_counts, IoctlGood, Sleeps
<1>5. \A q \in Procs : InRdInit(q) => q = p
  BY DEF IoctlGood, InRdInit, init_counts
<1>6. \A q \in Procs : InRdInit(q)' => q = p
  BY <1>4, <1>5 DEF InRdInit
<1>7. \A q \in Procs : call'[q].cmd # "init_fd_table"
  BY <1>4, <1>6 DEF InRdInit
<1>8. QED
  BY <1>2, <1>4, <1>6, <1>7 DEF IoctlGood, GoodState

(* It makes the root directory.                                            *)
LEMMA InitEndKeeps ==
  ASSUME IoctlGood, NEW p \in Procs, init_end(p)
  PROVE  IoctlGood'
<1>1. GoodState' /\ (Uncounted(discos) => Uncounted(discos)')
  BY MkdirRootGood DEF init_end, IoctlGood
<1>2. Sleeps(p, Idle) /\ overtaken' \in Nat
  BY DEF init_end, Ends, Sleeps, IoctlGood
<1>3. QED
  BY <1>1, <1>2, IdleIsCall, OtherCall

(* The inductive invariant holds at the start.                             *)
LEMMA IoctlInitGood == IoctlInit => IoctlGood
<1> SUFFICES ASSUME IoctlInit PROVE IoctlGood
  OBVIOUS
<1>1. GoodState
  BY InitGood DEF IoctlInit
<1>2. call \in [Procs -> Calls] /\ \A p \in Procs : call[p].cmd = "idle"
  BY IdleIsCall DEF IoctlInit
<1>3. QED
  BY <1>1, <1>2 DEF IoctlInit, IoctlGood, InRdInit

(* Every step of every process keeps it.                                   *)
LEMMA IoctlNextGood == IoctlGood /\ [IoctlNext]_ioctl_vars => IoctlGood'
<1> SUFFICES ASSUME IoctlGood, [IoctlNext]_ioctl_vars PROVE IoctlGood'
  OBVIOUS
<1>1. CASE UNCHANGED ioctl_vars
  BY <1>1, SameCall DEF ioctl_vars, IoctlGood, GoodState
<1>2. ASSUME NEW p \in Procs, ioctl(p) PROVE IoctlGood'
  <2>1. ASSUME NEW path \in Paths, NEW mode \in Modes, create_begin(p, path, "reg", mode)
        PROVE  IoctlGood'
    BY <2>1, CreateBeginKeeps
  <2>2. ASSUME NEW path \in Paths, create_begin(p, path, "dir", 1)
        PROVE  IoctlGood'
    BY <2>2, CreateBeginKeeps
  <2>3. ASSUME NEW path \in Paths, unlink_begin(p, path) PROVE IoctlGood'
    BY <2>3, UnlinkBeginKeeps
  <2>4. CASE mkdir_root(p)
    BY <2>4, MkdirRootGood, SameCall DEF mkdir_root, IoctlGood
  <2>5. CASE create_end(p)
    BY <2>5, CreateEndKeeps
  <2>6. CASE unlink_end(p)
    BY <2>6, UnlinkEndKeeps
  <2>7. CASE init_begin(p)
    BY <2>7, InitBeginKeeps
  <2>8. CASE init_counts(p)
    BY <2>8, InitCountsKeeps
  <2>9. CASE init_end(p)
    BY <2>9, InitEndKeeps
  <2>10. QED
    BY <1>2, <2>1, <2>2, <2>3, <2>4, <2>5, <2>6, <2>7, <2>8, <2>9 DEF ioctl
<1>3. QED
  BY <1>1, <1>2 DEF IoctlNext

-----------------------------------------------------------------------------
(* The invariant holds for any number of processes in discos_ioctl.        *)
THEOREM IoctlAlwaysGood == IoctlSpec => []IoctlGood
BY IoctlInitGood, IoctlNextGood, PTL DEF IoctlSpec

(* Also where calls sleep in the middle and others change the disk, every  *)
(* field keeps its C type and no counter goes below zero.                  *)
THEOREM IoctlTypeCorrect == IoctlSpec => []IoctlTypeOK
<1>1. IoctlGood => IoctlTypeOK
  BY DEF IoctlGood, GoodState, Good, IoctlTypeOK, TypeOK
<1>2. QED
  BY <1>1, IoctlAlwaysGood, PTL

(* No interleaving of calls that sleep, also of an rd_unlink whose file or *)
(* parent is no longer what it looked up, gives a block two owners or      *)
(* leaves a pointer to a block that was given back.                        *)
THEOREM IoctlBlocksOwned == IoctlSpec => []BlockOwnership
<1>1. IoctlGood => BlockOwnership
  BY DEF IoctlGood, GoodState, Good, BlockOwnership
<1>2. QED
  BY <1>1, IoctlAlwaysGood, PTL

(* A positive count of free blocks stays a sound test for space when       *)
(* rd_create sleeps between the test and the search.                       *)
THEOREM IoctlCountCovered == IoctlSpec => []FreeBlocksCovered
<1>1. IoctlGood => FreeBlocksCovered
  BY DEF IoctlGood, GoodState, Good, FreeBlocksCovered
<1>2. QED
  BY <1>1, IoctlAlwaysGood, PTL

-----------------------------------------------------------------------------
(* The names on a disk that other processes change                         *)

(* RD_INIT leaves every inode of the blank disk zero.                      *)
LEMMA BlankInodes == \A n \in InodeNum : BlankFileSys.inodes[n] = ZeroInode
<1> DEFINE as == [FreshFileSys EXCEPT !.free_blocks = 0, !.free_inodes = 0]
<1>1. FreshFileSys \in FileSys
  BY FreshGood DEF Good
<1>2. as.inodes = FreshFileSys.inodes
  BY <1>1 DEF FileSys
<1>3. DOMAIN as.inodes = InodeNum /\ \A n \in InodeNum \ {0} : as.inodes[n] = ZeroInode
  BY <1>2 DEF FreshFileSys
<1>4. BlankFileSys.inodes = [as.inodes EXCEPT ![0] = ZeroInode]
  BY <1>1 DEF BlankFileSys, FileSys
<1>5. QED
  BY <1>3, <1>4, InodeFacts

(* Its entries and sizes are those of an empty disk.                       *)
LEMMA BlankNamed == Treelike(BlankFileSys)
<1>1. ZeroInode.single = NULL /\ ZeroInode.size = 0
  BY DEF ZeroInode
<1>2. QED
  BY <1>1, BlankGood, BlankInodes, InodeFacts, EmptyNamed

(* No name leads anywhere on the blank disk: there is no block to read.    *)
LEMMA BlankNamesNothing ==
  ASSUME NoName \notin Names, NEW path \in Paths, path # Root
  PROVE  my_find_inode_number(BlankFileSys, path) \notin InodeNum
<1> DEFINE fs   == BlankFileSys
           file == my_find_inode_number(fs, path)
           dir  == my_find_inode_number(fs, ParentOf(path))
<1>1. Good(fs) /\ fs.bitmap = {}
  BY BlankGood DEF Uncounted
<1>2. PICK par : Named(fs, par)
  BY BlankNamed DEF Treelike
<1>3. ASSUME file \in InodeNum PROVE FALSE
  <2>1. dir \in InodeNum /\ file = Lookup(fs, dir, Last(path))
    BY <1>1, <1>2, <1>3, FileBelow
  <2> HIDE DEF fs, file, dir
  <2>2. Lookup(fs, dir, Last(path)) # NULL
    BY <1>3, <2>1, InodeFacts
  <2>3. PICK k \in BlockIdx : BlockAt(fs, dir, k) # NULL
    BY <1>1, <1>2, <2>1, <2>2, LookupFinds
  <2>4. BlockAt(fs, dir, k) \in fs.bitmap
    BY <1>1, <2>1, <2>3, BlockSpotIs
  <2>5. QED
    BY <1>1, <2>4
<1>4. QED
  BY <1>3

(* It has its counts right as soon as init_file_sys sets them.             *)
LEMMA CountsNamed ==
  ASSUME NEW gs,
         gs = [BlankFileSys EXCEPT !.free_blocks = DATA_BLOCKS_NUM, !.free_inodes = MAX_NUM_FILE]
  PROVE  Treelike(gs) /\ Counted(gs)
<1>1. Good(gs)
  BY BlankGood, CountsGood
<1>2. BlankFileSys \in FileSys
  BY BlankGood DEF Good
<1>3. gs.inodes = BlankFileSys.inodes /\ gs.free_inodes = MAX_NUM_FILE
  BY <1>2 DEF FileSys
<1>4. \A n \in InodeNum : gs.inodes[n] = ZeroInode
  BY <1>3, BlankInodes
<1>5. ZeroInode.single = NULL /\ ZeroInode.size = 0 /\ ZeroInode.type = ""
  BY DEF ZeroInode
<1>6. Treelike(gs)
  BY <1>1, <1>4, <1>5, InodeFacts, EmptyNamed
<1>7. InodeNum \ Allocated(gs) = InodeNum
  BY <1>4, <1>5 DEF Allocated
<1>8. Counted(gs)
  BY <1>3, <1>7, InodeFacts DEF Counted
<1>9. QED
  BY <1>6, <1>8

(* The disk that a process in RD_INIT has not counted yet.                 *)
Uncounting == \E p \in Procs : call[p].cmd = "init_fd_table"

(* The invariant: such a disk is blank, and nobody is about to unlink on   *)
(* it; and as long as no rd_unlink was overtaken, the entries and sizes    *)
(* are those of a tree, and the inodes are counted.                        *)
IoctlNames ==
  /\ IoctlGood
  /\ Uncounting => discos = BlankFileSys /\ \A p \in Procs : call[p].cmd # "unlink"
  /\ overtaken = 0 => Treelike(discos) /\ (Uncounting \/ Counted(discos))

(* A process that changes its own call, outside of RD_INIT's first half.   *)
LEMMA StepNames ==
  ASSUME IoctlNames, IoctlGood', NEW p \in Procs, NEW c, Sleeps(p, c),
         call[p].cmd # "init_fd_table", c.cmd # "init_fd_table",
         c.cmd = "unlink" => ~ Uncounting,
         Uncounting => discos' = discos,
         overtaken' = 0 => /\ overtaken = 0
                           /\ Treelike(discos)'
                           /\ Counted(discos) => Counted(discos)'
  PROVE  IoctlNames'
<1>1. call'[p] = c /\ \A q \in Procs \ {p} : call'[q] = call[q]
  BY DEF IoctlNames, IoctlGood, Sleeps
<1>2. Uncounting' <=> Uncounting
  BY <1>1 DEF Uncounting
<1>3. Uncounting' => discos' = BlankFileSys /\ \A q \in Procs : call'[q].cmd # "unlink"
  BY <1>1, <1>2 DEF IoctlNames
<1>4. overtaken' = 0 => Treelike(discos)' /\ (Uncounting' \/ Counted(discos)')
  BY <1>2 DEF IoctlNames
<1>5. QED
  BY <1>3, <1>4 DEF IoctlNames

(* The step of a process that stays awake.                                 *)
LEMMA AwakeNames ==
  ASSUME IoctlNames, IoctlGood', NEW p \in Procs, Awake(p), UNCHANGED call,
         Uncounting => discos' = discos,
         overtaken' = 0 => /\ overtaken = 0
                           /\ Treelike(discos)'
                           /\ Counted(discos) => Counted(discos)'
  PROVE  IoctlNames'
<1>1. Sleeps(p, Idle)
  BY DEF Sleeps, Awake, IoctlNames, IoctlGood
<1>2. call[p].cmd # "init_fd_table" /\ Idle.cmd # "init_fd_table" /\ Idle.cmd # "unlink"
  BY IdleIsCall DEF Awake
<1>3. QED
  BY <1>1, <1>2, StepNames

(* A step that leaves the disk and the history.                            *)
LEMMA DiskLeft ==
  ASSUME IoctlNames, UNCHANGED <<discos, overtaken>>
  PROVE  /\ Uncounting => discos' = discos
         /\ overtaken' = 0 => /\ overtaken = 0
                              /\ Treelike(discos)'
                              /\ Counted(discos) => Counted(discos)'
<1>1. Treelike(discos)' <=> Treelike(discos)
  BY DEF Treelike, Named
<1>2. QED
  BY <1>1 DEF IoctlNames, Counted

(* rd_mkdir("/") is refused on the blank disk and adds the root to any     *)
(* other that has none.                                                    *)
LEMMA RootNames ==
  ASSUME IoctlNames, rd_mkdir(Root), UNCHANGED overtaken
  PROVE  /\ Uncounting => discos' = discos
         /\ overtaken' = 0 => /\ overtaken = 0
                              /\ Treelike(discos)'
                              /\ Counted(discos) => Counted(discos)'
<1>1. CASE Refused
  BY <1>1, DiskLeft DEF Refused
<1>2. CASE /\ discos.free_inodes = MAX_NUM_FILE
           /\ discos' = [discos EXCEPT !.free_inodes = @ - 1, !.inodes[0].type = "dir"]
  <2>1. ~ Uncounting
    <3>1. BlankFileSys.free_inodes = 0
      BY DEF BlankFileSys, FreshFileSys
    <3>2. QED
      BY <1>2, <3>1, DiscosAssumption DEF IoctlNames
  <2>2. ASSUME overtaken' = 0
        PROVE  overtaken = 0 /\ Treelike(discos') /\ Counted(discos')
    <3>1. overtaken = 0 /\ Treelike(discos) /\ Counted(discos) /\ Good(discos)
      BY <2>1, <2>2 DEF IoctlNames, IoctlGood, GoodState
    <3>2. PICK par : Named(discos, par)
      BY <3>1 DEF Treelike
    <3>3. Named(discos', par) /\ Counted(discos')
      BY <1>2, <3>1, <3>2, RootMadeNamed
    <3>4. QED
      BY <3>1, <3>3 DEF Treelike
  <2>3. QED
    BY <2>1, <2>2
<1>3. QED
  BY <1>1, <1>2 DEF rd_mkdir

(* The half of rd_create and rd_mkdir before the sleep.                    *)
LEMMA CreateBeginNames ==
  ASSUME IoctlNames, IoctlGood', NEW p \in Procs, NEW path, NEW type, NEW mode,
         create_begin(p, path, type, mode)
  PROVE  IoctlNames'
<1> DEFINE c == [cmd |-> "create", path |-> path, type |-> type, mode |-> mode]
<1>1. UNCHANGED <<discos, overtaken>> /\ Awake(p)
  BY DEF create_begin, Refused
<1>2. CASE UNCHANGED call
  BY <1>1, <1>2, DiskLeft, AwakeNames
<1>3. CASE Sleeps(p, c)
  <2>1. c.cmd = "create" /\ call[p].cmd = "idle"
    BY <1>1, IdleIsCall DEF Awake
  <2> HIDE DEF c
  <2>2. QED
    BY <1>1, <1>3, <2>1, DiskLeft, StepNames
<1>4. QED
  BY <1>2, <1>3 DEF create_begin

(* The half after it.                                                      *)
LEMMA CreateEndNames ==
  ASSUME NoName \notin Names, SizesFit, IoctlNames, IoctlGood', NEW p \in Procs, create_end(p)
  PROVE  IoctlNames'
<1> DEFINE c == call[p]
<1>1. c \in Calls /\ c.cmd = "create" /\ create_allocated(c.path, c.type, c.mode)
  BY DEF create_end, IoctlNames, IoctlGood
<1>2. c.path \in Paths /\ c.type \in {"dir", "reg"} /\ c.mode \in Nat
  BY <1>1, CallTypes
<1>3. GoodState /\ Good(discos) /\ overtaken' = overtaken /\ Sleeps(p, Idle)
  BY DEF IoctlNames, IoctlGood, GoodState, create_end, Ends, Sleeps
<1>4. ASSUME Uncounting PROVE discos' = discos
  <2>1. Uncounted(discos)
    BY <1>4, BlankGood DEF IoctlNames
  <2>2. QED
    BY <1>1, <1>3, <2>1, CreateOnUncounted
<1>5. ASSUME overtaken' = 0
      PROVE  /\ overtaken = 0
             /\ Treelike(discos)'
             /\ Counted(discos) => Counted(discos)'
  <2>1. overtaken = 0 /\ Treelike(discos)
    BY <1>3, <1>5 DEF IoctlNames
  <2> HIDE DEF c
  <2>2. Treelike(discos)' /\ (Counted(discos) => Counted(discos)')
    BY <1>1, <1>2, <1>3, <2>1, CreateAllocatedNamed
  <2>3. QED
    BY <2>1, <2>2
<1>6. call[p].cmd # "init_fd_table" /\ Idle.cmd # "init_fd_table" /\ Idle.cmd # "unlink"
  BY <1>1, IdleIsCall
<1>7. QED
  BY <1>3, <1>4, <1>5, <1>6, StepNames

(* The half of rd_unlink before the sleep: it finds nothing on a blank     *)
(* disk.                                                                   *)
LEMMA UnlinkBeginNames ==
  ASSUME NoName \notin Names, IoctlNames, IoctlGood', NEW p \in Procs, NEW path \in Paths,
         unlink_begin(p, path)
  PROVE  IoctlNames'
<1> DEFINE file == my_find_inode_number(discos, path)
           c    == [cmd |-> "unlink", path |-> path, file |-> file]
<1>1. UNCHANGED <<discos, overtaken>> /\ Awake(p)
  BY DEF unlink_begin, Refused
<1>2. CASE UNCHANGED call
  BY <1>1, <1>2, DiskLeft, AwakeNames
<1>3. CASE Removable(discos, path, file) /\ Sleeps(p, c)
  <2>1. c.cmd = "unlink" /\ call[p].cmd = "idle"
    BY <1>1, IdleIsCall DEF Awake
  <2>2. ~ Uncounting
    BY <1>3, BlankNamesNothing DEF Removable, IoctlNames
  <2> HIDE DEF c, file
  <2>3. QED
    BY <1>1, <1>3, <2>1, <2>2, DiskLeft, StepNames
<1>4. QED
  BY <1>2, <1>3 DEF unlink_begin

(* The half after it: overtaken, or on the file and the directory of the   *)
(* pathname.                                                               *)
LEMMA UnlinkEndNames ==
  ASSUME NoName \notin Names, SizesFit, IoctlNames, IoctlGood', NEW p \in Procs, unlink_end(p)
  PROVE  IoctlNames'
<1> DEFINE c   == call[p]
           dir == my_find_inode_number(discos, ParentOf(c.path))
<1>1. c \in Calls /\ c.cmd = "unlink"
  BY DEF unlink_end, IoctlNames, IoctlGood
<1>2. c.path \in Paths /\ c.file \in InodeNum
  BY <1>1, CallTypes
<1>3. Good(discos) /\ Sleeps(p, Idle) /\ overtaken \in Nat
  BY DEF IoctlNames, IoctlGood, GoodState, unlink_end, Ends, Sleeps
<1>4. ~ Uncounting
  BY <1>1 DEF IoctlNames
<1>5. overtaken' = 0 => overtaken = 0 /\ AsTested(c.path, c.file)
  BY <1>3 DEF unlink_end
<1>6. ASSUME overtaken' = 0
      PROVE  /\ overtaken = 0
             /\ Treelike(discos)'
             /\ Counted(discos) => Counted(discos)'
  <2>1. /\ my_find_inode_number(discos, c.path) = c.file
        /\ c.path # Root
        /\ discos' \in {discos, Unlink(discos, c.file, dir, Last(c.path))}
    BY <1>5, <1>6 DEF AsTested, Removable, ParentOf
  <2>2. overtaken = 0 /\ Treelike(discos)
    BY <1>5, <1>6 DEF IoctlNames
  <2>3. PICK par : Named(discos, par)
    BY <2>2 DEF Treelike
  <2> HIDE DEF c
  <2>4. CASE discos' = discos
    BY <2>2, <2>4 DEF Treelike, Named, Counted
  <2>5. CASE discos' = Unlink(discos, c.file, dir, Last(c.path))
    <3>1. Treelike(discos') /\ (Counted(discos) => Counted(discos'))
      BY <1>2, <1>3, <2>1, <2>3, <2>5, UnlinkParentNamed
    <3>2. QED
      BY <2>2, <3>1
  <2>6. QED
    BY <2>1, <2>4, <2>5
<1>7. call[p].cmd # "init_fd_table" /\ Idle.cmd # "init_fd_table" /\ Idle.cmd # "unlink"
  BY <1>1, IdleIsCall
<1>8. QED
  BY <1>3, <1>4, <1>6, <1>7, StepNames

(* RD_INIT's steps.                                                        *)
LEMMA InitBeginNames ==
  ASSUME IoctlNames, IoctlGood', NEW p \in Procs, init_begin(p)
  PROVE  IoctlNames'
<1>1. discos' = BlankFileSys /\ \A q \in Procs : call[q].cmd # "unlink"
  BY DEF init_begin
<1>2. /\ call'[p] = [cmd |-> "init_fd_table"]
      /\ \A q \in Procs \ {p} : call'[q] = call[q]
  BY DEF init_begin, Sleeps, IoctlNames, IoctlGood
<1>3. call'[p].cmd = "init_fd_table" /\ \A q \in Procs : call'[q].cmd # "unlink"
  BY <1>1, <1>2
<1>4. Uncounting'
  BY <1>3 DEF Uncounting
<1>5. Treelike(discos)'
  BY <1>1, BlankNamed
<1>6. QED
  BY <1>1, <1>3, <1>4, <1>5 DEF IoctlNames

(* It counts the disk.                                                     *)
LEMMA InitCountsNames ==
  ASSUME IoctlNames, IoctlGood', NEW p \in Procs, init_counts(p)
  PROVE  IoctlNames'
<1>1. discos = BlankFileSys
  BY DEF IoctlNames, Uncounting, init_counts
<1>2. Treelike(discos') /\ Counted(discos')
  BY <1>1, CountsNamed DEF init_counts
<1>3. call'[p].cmd = "init_root" /\ \A q \in Procs \ {p} : call'[q] = call[q]
  BY DEF init_counts, Sleeps, IoctlNames, IoctlGood
<1>4. \A q \in Procs \ {p} : call[q].cmd # "init_fd_table"
  BY DEF IoctlNames, IoctlGood, InRdInit, init_counts
<1>5. ~ Uncounting'
  BY <1>3, <1>4 DEF Uncounting
<1>6. QED
  BY <1>2, <1>5 DEF IoctlNames

(* It makes the root directory.                                            *)
LEMMA InitEndNames ==
  ASSUME IoctlNames, IoctlGood', NEW p \in Procs, init_end(p)
  PROVE  IoctlNames'
<1>1. Sleeps(p, Idle) /\ rd_mkdir(Root) /\ UNCHANGED overtaken /\ call[p].cmd = "init_root"
  BY DEF init_end, Ends, Sleeps
<1>2. call[p].cmd # "init_fd_table" /\ Idle.cmd # "init_fd_table" /\ Idle.cmd # "unlink"
  BY <1>1, IdleIsCall
<1>3. QED
  BY <1>1, <1>2, RootNames, StepNames

(* The invariant holds at the start ...                                    *)
LEMMA IoctlInitNames == IoctlInit => IoctlNames
<1> SUFFICES ASSUME IoctlInit PROVE IoctlNames
  OBVIOUS
<1>1. IoctlGood
  BY IoctlInitGood
<1>2. Treelike(discos) /\ Counted(discos)
  BY FreshNamed DEF IoctlInit, Init
<1>3. ~ Uncounting
  BY IdleIsCall DEF IoctlInit, Uncounting
<1>4. QED
  BY <1>1, <1>2, <1>3 DEF IoctlNames

(* ... and every step of every process keeps it.                           *)
LEMMA IoctlNextNames ==
  ASSUME NoName \notin Names, SizesFit, IoctlNames, [IoctlNext]_ioctl_vars
  PROVE  IoctlNames'
<1>0. IoctlGood'
  BY IoctlNextGood DEF IoctlNames
<1>1. CASE UNCHANGED ioctl_vars
  BY <1>0, <1>1 DEF ioctl_vars, IoctlNames, Uncounting, Treelike, Named, Counted
<1>2. ASSUME NEW p \in Procs, ioctl(p) PROVE IoctlNames'
  <2>1. ASSUME NEW path, NEW type, NEW mode, create_begin(p, path, type, mode)
        PROVE  IoctlNames'
    BY <1>0, <2>1, CreateBeginNames
  <2>2. ASSUME NEW path \in Paths, unlink_begin(p, path) PROVE IoctlNames'
    BY <1>0, <2>2, UnlinkBeginNames
  <2>3. CASE mkdir_root(p)
    <3>1. Awake(p) /\ rd_mkdir(Root) /\ UNCHANGED call /\ UNCHANGED overtaken
      BY <2>3 DEF mkdir_root
    <3>2. QED
      BY <1>0, <3>1, RootNames, AwakeNames
  <2>4. CASE create_end(p)
    BY <1>0, <2>4, CreateEndNames
  <2>5. CASE unlink_end(p)
    BY <1>0, <2>5, UnlinkEndNames
  <2>6. CASE init_begin(p)
    BY <1>0, <2>6, InitBeginNames
  <2>7. CASE init_counts(p)
    BY <1>0, <2>7, InitCountsNames
  <2>8. CASE init_end(p)
    BY <1>0, <2>8, InitEndNames
  <2>9. QED
    BY <1>2, <2>1, <2>2, <2>3, <2>4, <2>5, <2>6, <2>7, <2>8 DEF ioctl
<1>3. QED
  BY <1>1, <1>2 DEF IoctlNext

(* The invariant of the names holds for any number of processes, whatever  *)
(* is left in the memory that parse_absolute_path copies into.             *)
THEOREM IoctlAlwaysNamed ==
  ASSUME NoName \notin Names, SizesFit
  PROVE  IoctlSpec => []IoctlNames
<1>1. IoctlNames /\ [IoctlNext]_ioctl_vars => IoctlNames'
  BY IoctlNextNames
<1>2. QED
  BY <1>1, IoctlInitNames, PTL DEF IoctlSpec

(* As long as no rd_unlink was overtaken in its sleep by what made its     *)
(* look-up wrong, no order of the calls' halves gives an inode two entries *)
(* or an entry a free inode, loses count of the inodes or makes a size too *)
(* small: the sleeps of rd_create and RD_INIT do no harm.                  *)
THEOREM IoctlSound ==
  ASSUME NoName \notin Names, SizesFit
  PROVE  IoctlSpec => []SoundUnlessOvertaken
<1>1. IoctlNames => SoundUnlessOvertaken
  <2> SUFFICES ASSUME IoctlNames, ~ (overtaken > 0) PROVE SoundUnlessOvertaken
    BY DEF SoundUnlessOvertaken
  <2>1. overtaken = 0 /\ Good(discos)
    BY DEF IoctlNames, IoctlGood, GoodState
  <2>2. Treelike(discos) /\ (Uncounting \/ Counted(discos))
    BY <2>1 DEF IoctlNames
  <2>3. EntryTargets /\ SizeCoversEntries
    BY <2>1, <2>2, TargetsOfTree, SizesOfTree
  <2>4. Initialising \/ FreeInodesExact
    BY <2>2 DEF Uncounting, Initialising, Counted, FreeInodesExact
  <2>5. QED
    BY <2>3, <2>4 DEF SoundUnlessOvertaken
<1>2. QED
  BY <1>1, IoctlAlwaysNamed, PTL

(* Until RD_INIT gives the new disk its counts no call that tested the     *)
(* counters of the old one changes it.                                     *)
THEOREM IoctlBlank ==
  ASSUME NoName \notin Names, SizesFit
  PROVE  IoctlSpec => []BlankUntilCounted
<1>1. IoctlNames => BlankUntilCounted
  BY DEF IoctlNames, Uncounting, BlankUntilCounted
<1>2. QED
  BY <1>1, IoctlAlwaysNamed, PTL
=============================================================================
