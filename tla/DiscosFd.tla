------------------------------- MODULE DiscosFd -------------------------------
(***************************************************************************)
(* The file descriptors of DISCOS: rd_open, rd_close, rd_chmod and the     *)
(* search for file objects of kernelspace/discos.c, together with the      *)
(* calls of Discos, which remove and create the files that descriptors are *)
(* open on.  The cursor of a file object, and what is read and written     *)
(* through it, are in DiscosIO.                                            *)
(***************************************************************************)
EXTENDS Discos

CONSTANTS
  Pids,               \* the processes: each passes its own id with a call
  THERAD_POOL_SIZE,   \* entries of p_fd_table: 10 in the code
  FD_TABLE_SIZE       \* file objects of a table: 1024 in the code

ASSUME DiscosFdAssumption ==
  /\ Pids \subseteq Nat \ {0}
  /\ THERAD_POOL_SIZE \in Nat \ {0} /\ FD_TABLE_SIZE \in Nat \ {0}

VARIABLE
  p_fd_table    \* the tables: a pid and the file objects of each

vars_fd == <<discos, ret, p_fd_table>>

RD == 292       \* 0444, S_IRUSR | S_IRGRP | S_IROTH
RW == 420       \* 0644
WR == 164       \* 0244
Flags == {RD, RW, WR}

Pool  == 0 .. THERAD_POOL_SIZE - 1
Slots == 0 .. FD_TABLE_SIZE - 1

FileObject == [inode_ptr : InodeNum \cup {NULL}, status : Flags \cup {0}, pos : Slots,
               usable : {0, 1}]
FdTables   == [Pool -> [pid : {0} \cup Pids, file_objects : [Slots -> FileObject]]]

(* What init_file_sys leaves; pid is 0 too. *)
ZeroObject  == [inode_ptr |-> NULL, status |-> 0, pos |-> 0, usable |-> 0]
FreshTables == [i \in Pool |-> [pid |-> 0, file_objects |-> [s \in Slots |-> ZeroObject]]]

-----------------------------------------------------------------------------
First(set) == IF set = {} THEN NULL ELSE Min(set)

(* The table of a process, or one that no process has. *)
get_fd_table(pid) ==
  LET with(p) == {i \in Pool : p_fd_table[i].pid = p}
  IN  IF with(pid) # {} THEN Min(with(pid)) ELSE First(with(0))

\* Seeded fault: the search goes one object too far.
create_file_object_beyond(t) ==
  First({s \in Slots : p_fd_table[t].file_objects[s].usable = 0} \cup {FD_TABLE_SIZE})

\* Seeded fault: an object is taken as free by its position.
create_file_object_by_pos(t) ==
  First({s \in Slots : p_fd_table[t].file_objects[s].pos = 0})

(* The first object that is not in use. *)
create_file_object(t) ==
  First({s \in Slots : p_fd_table[t].file_objects[s].usable = 0})

(* The object of a descriptor: the first one whose position it is, in use  *)
(* or not.  Every call that takes a descriptor begins with this search.    *)
ObjectOf(t, fd) == First({s \in Slots : p_fd_table[t].file_objects[s].pos = fd})

-----------------------------------------------------------------------------
rd_chmod(path, mode) ==
  LET file == my_find_inode_number(discos, path)
  IN  /\ \/ (path = Root \/ file \notin InodeNum) /\ Refused
         \/ /\ path # Root /\ file \in InodeNum
            /\ discos' = [discos EXCEPT !.inodes[file].access = mode]
            /\ Returns(0)
      /\ UNCHANGED p_fd_table

Denied(flags, access) ==
  \/ flags = RD /\ access = WR
  \/ flags = WR /\ access = RD
  \/ flags = RW /\ access # RW

(* A directory can be opened like any other file. *)
rd_open(path, flags, pid) ==
  LET file == my_find_inode_number(discos, path)
      t    == get_fd_table(pid)
      fd   == IF t = NULL THEN NULL ELSE create_file_object(t)
      opens == /\ path # Root /\ file \in InodeNum
               /\ ~Denied(flags, discos.inodes[file].access)
               /\ fd # NULL
  IN  \/ ~opens /\ Refused /\ UNCHANGED p_fd_table
      \/ /\ opens
         /\ p_fd_table' = [p_fd_table EXCEPT ![t].file_objects[fd] =
                             [inode_ptr |-> file, status |-> flags, pos |-> fd, usable |-> 1]]
         /\ Returns(fd) /\ UNCHANGED discos

\* Seeded fault: the pointer to the inode is not cleared.
Released_pointing(object) == [ZeroObject EXCEPT !.inode_ptr = object.inode_ptr]

Released(object) == ZeroObject

rd_close(fd, pid) ==
  LET t == get_fd_table(pid)
      s == IF t = NULL THEN NULL ELSE ObjectOf(t, fd)
      object  == p_fd_table[t].file_objects[s]
      closes  == /\ s # NULL
                 /\ object.inode_ptr # NULL /\ object.usable = 1
                 /\ discos.inodes[object.inode_ptr].type # "dir"
  IN  \/ ~closes /\ Refused /\ UNCHANGED p_fd_table
      \/ /\ closes
         /\ p_fd_table' = [p_fd_table EXCEPT ![t].file_objects[s] = Released(object)]
         /\ Returns(0) /\ UNCHANGED discos

(* rd_create, rd_mkdir and rd_unlink know nothing of descriptors. *)
NameCall(path) ==
  /\ \/ \E mode \in Modes : rd_create(path, "reg", mode)
     \/ rd_mkdir(path)
     \/ rd_unlink(path)
  /\ UNCHANGED p_fd_table

RD_INIT == init_file_sys /\ p_fd_table' = FreshTables

InitFd == Init /\ p_fd_table = FreshTables

NextFd ==
  \/ \E path \in Paths :
       \/ NameCall(path)
       \/ \E mode \in Modes : rd_chmod(path, mode)
       \/ \E flags \in Flags, pid \in Pids : rd_open(path, flags, pid)
  \/ \E fd \in Slots, pid \in Pids : rd_close(fd, pid)
  \/ RD_INIT

SpecFd == InitFd /\ [][NextFd]_vars_fd

-----------------------------------------------------------------------------
Object(t, s) == p_fd_table[t].file_objects[s]
InUse(t, s)  == Object(t, s).usable = 1

(* Type invariant. *)
TypeOKFd ==
  /\ discos \in FileSys /\ ret \in Slots \cup {NULL}
  /\ p_fd_table \in FdTables

(* A descriptor finds its own object and no other: positions are set to 0  *)
(* when an object is released, and 0 is also a descriptor; and an object   *)
(* that is found with an inode is in use, which rd_write does not ask.     *)
DescriptorsExact ==
  \A t \in Pool, fd \in Slots :
    /\ InUse(t, fd) => ObjectOf(t, fd) = fd
    /\ LET s == ObjectOf(t, fd)
       IN  s # NULL /\ Object(t, s).inode_ptr # NULL => s = fd /\ InUse(t, s)

(* An object stays as rd_open made it, on its inode and with its status,   *)
(* whatever else is opened, closed, created or unlinked, until rd_close of *)
(* its own descriptor or RD_INIT releases it.                              *)
ObjectKeptUntilClosed ==
  [][\A t \in Pool, fd \in Slots :
       InUse(t, fd) => \/ Object(t, fd)' = Object(t, fd)
                       \/ \E pid \in Pids : get_fd_table(pid) = t /\ rd_close(fd, pid)
                       \/ RD_INIT]_vars_fd

=============================================================================
