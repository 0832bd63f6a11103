----------------------------- MODULE DiscosIoctl -----------------------------
(***************************************************************************)
(* Processes in discos_ioctl, the entry point of DISCOS in                 *)
(* kernelspace/discosModule.c, with the calls of Discos it dispatches to.  *)
(*                                                                         *)
(* discos_ioctl takes no lock of its own (its spinlock is commented out).  *)
(* It is an `ioctl' file operation, so the kernel runs it under the big    *)
(* kernel lock, which is given up while a process sleeps; and a process    *)
(* may sleep in vmalloc, kmalloc and copy_from_user.  What discos_ioctl    *)
(* itself copies, and what rd_mkdir allocates, comes before the call looks *)
(* at the disk and needs no step of its own.  After a look at the disk     *)
(* rd_create may sleep behind its test of the counters, rd_unlink behind   *)
(* its tests of the file, and init_file_sys with a disk that is not ready. *)
(***************************************************************************)
EXTENDS Discos

CONSTANTS
  Procs,           \* the processes that have /proc/discos open
  MAX_OVERTAKEN    \* bound: no new rd_unlink on a disk with so many overtaken ones

ASSUME IoctlAssumption == MAX_OVERTAKEN \in Nat /\ MAX_NUM_FILE < UINT_RANGE

VARIABLES
  call,       \* the call each process sleeps in, and its local variables
  overtaken   \* history: how often on this disk rd_unlink acted on what was no longer so

ioctl_vars == <<discos, ret, call, overtaken>>

Idle == [cmd |-> "idle"]

Calls ==
  [cmd : {"idle", "init_fd_table", "init_root"}]
    \cup [cmd : {"create"}, path : Paths, type : {"dir", "reg"}, mode : Modes \cup {1}]
    \cup [cmd : {"unlink"}, path : Paths, file : InodeNum]

Awake(p) == call[p] = Idle

\* p goes to sleep in the call c, or wakes up and returns.
Sleeps(p, c) == call' = [call EXCEPT ![p] = c]
Ends(p)      == call' = [call EXCEPT ![p] = Idle]

-----------------------------------------------------------------------------
(* RD_CREATE and RD_MKDIR, before and after the sleep *)

create_begin(p, path, type, mode) ==
  /\ Awake(p)
  /\ \/ ~HasSpace(discos) /\ Refused /\ UNCHANGED call
     \/ /\ HasSpace(discos)
        /\ Sleeps(p, [cmd |-> "create", path |-> path, type |-> type, mode |-> mode])
        /\ UNCHANGED <<discos, ret>>
  /\ UNCHANGED overtaken

create_end(p) ==
  /\ call[p].cmd = "create"
  /\ create_allocated(call[p].path, call[p].type, call[p].mode)
  /\ Ends(p)
  /\ UNCHANGED overtaken

mkdir_root(p) == Awake(p) /\ rd_mkdir(Root) /\ UNCHANGED <<call, overtaken>>

-----------------------------------------------------------------------------
(* RD_UNLINK *)

unlink_begin(p, path) ==
  /\ Awake(p) /\ overtaken < MAX_OVERTAKEN
  /\ LET file == my_find_inode_number(discos, path)
     IN  \/ ~Removable(discos, path, file) /\ Refused /\ UNCHANGED call
         \/ /\ Removable(discos, path, file)
            /\ Sleeps(p, [cmd |-> "unlink", path |-> path, file |-> file])
            /\ UNCHANGED <<discos, ret>>
  /\ UNCHANGED overtaken

(* The tests before the sleep would have the same outcome now, and what is *)
(* done now is done to the parent that the pathname names.                 *)
AsTested(path, file) ==
  LET dir == my_find_inode_number(discos, IF Len(path) = 1 THEN Root ELSE Front(path))
  IN  /\ my_find_inode_number(discos, path) = file
      /\ Removable(discos, path, file)
      /\ discos' \in {discos, Unlink(discos, file, dir, Last(path))}

unlink_end(p) ==
  /\ call[p].cmd = "unlink"
  /\ unlink_allocated(call[p].path, call[p].file)
  /\ Ends(p)
  /\ overtaken' = IF AsTested(call[p].path, call[p].file) THEN overtaken ELSE overtaken + 1

-----------------------------------------------------------------------------
(* RD_INIT.  The new disk is the disk from the first allocation on; there  *)
(* it is blank, then it has its counts, then a root directory.  The old    *)
(* one is not freed, but a pointer into it must not be used with the new   *)
(* one: RD_INIT is taken not to be issued while rd_unlink sleeps, nor      *)
(* while another RD_INIT does.                                             *)

BlankFileSys ==
  [FreshFileSys EXCEPT !.free_blocks = 0, !.free_inodes = 0, !.inodes[0] = ZeroInode]

Initialising == \E p \in Procs : call[p].cmd \in {"init_fd_table", "init_root"}

init_begin(p) ==
  /\ Awake(p)
  /\ ~Initialising /\ \A q \in Procs : call[q].cmd # "unlink"
  /\ discos' = BlankFileSys
  /\ Sleeps(p, [cmd |-> "init_fd_table"])
  /\ overtaken' = 0
  /\ UNCHANGED ret

init_counts(p) ==
  /\ call[p].cmd = "init_fd_table"
  /\ discos' = [discos EXCEPT !.free_blocks = DATA_BLOCKS_NUM, !.free_inodes = MAX_NUM_FILE]
  /\ Sleeps(p, [cmd |-> "init_root"])
  /\ UNCHANGED <<ret, overtaken>>

init_end(p) ==
  /\ call[p].cmd = "init_root"
  /\ rd_mkdir(Root)
  /\ Ends(p)
  /\ UNCHANGED overtaken

-----------------------------------------------------------------------------
IoctlInit ==
  /\ Init
  /\ call = [p \in Procs |-> Idle]
  /\ overtaken = 0

ioctl(p) ==
  \/ \E path \in Paths :
       \/ \E mode \in Modes : create_begin(p, path, "reg", mode)
       \/ path # Root /\ create_begin(p, path, "dir", 1)
       \/ unlink_begin(p, path)
  \/ mkdir_root(p)
  \/ create_end(p) \/ unlink_end(p)
  \/ init_begin(p) \/ init_counts(p) \/ init_end(p)

IoctlNext == \E p \in Procs : ioctl(p)

IoctlSpec == IoctlInit /\ [][IoctlNext]_ioctl_vars

-----------------------------------------------------------------------------
(* Type invariant. *)
IoctlTypeOK == TypeOK /\ call \in [Procs -> Calls] /\ overtaken \in Nat

(* The disk survives the sleeps of the calls, but for one: unless the      *)
(* pathname that rd_unlink has looked up comes to mean something else, or  *)
(* gets entries, while it sleeps (or it takes another directory for the    *)
(* parent), every entry leads to an inode of its own, the count of free    *)
(* inodes is exact and no size is too small, in every order in which the   *)
(* calls of several processes are interrupted.                             *)
SoundUnlessOvertaken ==
  overtaken > 0 \/ (EntryTargets /\ SizeCoversEntries /\ (Initialising \/ FreeInodesExact))

(* A disk that RD_INIT has not yet given its counts stays blank: no call   *)
(* that tested the counters of the disk before finds room on it.           *)
BlankUntilCounted ==
  (\E p \in Procs : call[p].cmd = "init_fd_table") => discos = BlankFileSys

=============================================================================
