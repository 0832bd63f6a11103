# DISCOS and FIFOS in TLA+

This directory holds TLA+ specifications of the repository's code, the TLC
configurations that check them, and machine-checked proofs (TLAPS): of the
ramdisk file system DISCOS the namespace and the storage, the file descriptors,
the contents of files, and processes whose calls interrupt each other; of the
kernel FIFOS the heap, the ready queue, the threads, the scheduler and the
screen.

Paths below are relative to `src/`; `discos.c` without a path is
`Jiaqian-Ramdisk-Final/kernelspace/discos.c`.

## The system

The repository holds two programs and one earlier version of the first.

* **DISCOS**, `Jiaqian-Ramdisk-Final/`: a 2 MB ramdisk file system in a Linux
  kernel module, driven by `ioctl` on a `/proc` entry.
* **FIFOS**, `FileSystem-v3/`: a small kernel with a heap, a ready queue and
  threads that a timer preempts.
* `Ramdisk/userspace/`: DISCOS as it was before it moved into the kernel.

### Inventory

| Component | State | Operations | What is hard | What makes it correct |
|---|---|---|---|---|
| Namespace and storage (`discos.c`, `discos.h`) | `discos`: counters of free blocks and inodes, 1024 inodes (8 direct pointers, a single and a double indirect one), bitmap, 7931 blocks | `init_file_sys`, `rd_create`, `rd_mkdir`, `rd_unlink`, and the searches and clean-ups they call | counters and bitmap updated apart from each other; calls that fail half-way; directory entries and pointers in one untagged union; sizes used as a search position | a block has one owner; an entry leads to an allocated inode and no two to one; counters sound; no call disturbs names it was not given |
| Bitmap scan (`discos.c:23-69`, `319-349`) | 1024 bytes | find, set, clear a bit | the limit 7931 is inside a byte; off by one in the range tests | finds a free block if and only if there is one |
| File descriptors (`discos.c:886-1023`, `1672-1727`) | `p_fd_table`: 10 tables of 1024 file objects (`usable`, `pos`, `cursor`, `status`, pointer to the inode) | `rd_open`, `rd_close`, `rd_chmod`, `get_fd_table`, `create_file_object` | `pid` is never stored, so processes share one table; slots are found by `pos`, which is 0 in unused slots; an open file can be unlinked | a descriptor stays with the file it was opened for; a closed one can be used again |
| File contents (`rd_write`, `rd_lseek`, `rd_read`) | size, cursor, data blocks | write, seek, read | writes that end when space runs out; `size - 1` of an empty file | what is read is what was written; cursor within the file |
| ioctl entry (`discosModule.c`) | none of its own; the kernel copy of the path | dispatch of ten commands | the handlers run under the big kernel lock, which is dropped when `vmalloc` or a user copy sleeps; the module's own lock is commented out; RD_INIT at any time | calls of two processes do not mix |
| User space (`userspace/`, `test_file.c`) | none | wrappers around `ioctl`, sequences of calls | | |
| FIFOS heap (`heap.c`) | buffer with boundary tags, pointer to the last block | `malloc`, `free`, `Combine` | splitting, merging on both sides, the last block; not re-entrant | blocks do not overlap and tile the buffer; free neighbours are merged |
| FIFOS queue (`queue.c`) | ring buffer, head, tail | `add`, `poll`, full, empty | one slot is never used; wrap-around | a bounded FIFO |
| FIFOS threads (`thread.c`, `context.s`, `init.c`) | thread pool, `current_tid`, ready queue, stacks | `thread_create`, `yield`, `schedule`, `finish` | the timer interrupts `finish` between marking the thread empty and leaving its stack | every thread runs and finishes; a thread is in the queue at most once; no running thread's stack is free |
| FIFOS screen (`print.c`) | cursor | `put_char`, `newline` | preempted writers share the cursor | the cursor stays on the screen |
| FIFOS boot (`boot.s`, `interrupt.c`, `memos.c`) | hardware tables | set-up, timer handler | | |

Interaction.  A user process calls a wrapper, which issues an `ioctl`;
`discos_ioctl` copies the arguments and calls the handler in `discos.c`.
Create, mkdir and unlink work on `discos` alone and always go through the same
functions: `parse_absolute_path` splits the path, `my_find_inode_number` walks
it, `get_next_entry` finds or makes an entry, `get_free_block_num_from_bitmap`
and `allocate_data_block` attach blocks, and `my_clear_inode` and
`clear_entry_in_current_dir` give things back.  Open and close keep pointers
into `discos->inodes` outside the disk.  In FIFOS the timer's handler calls
`schedule`, which moves threads between the pool and the queue, and threads
print and free their stacks with interrupts on.

`PROJECT.json` lists the hazards of all of this at their lines, with the
properties that cover them or the reason why none does yet.

## Plan

| | Modules | Subject | State |
|---|---|---|---|
| 1 | `Discos`, `MCDiscos`, `DiscosProofs`, `DiscosNamesProofs` | namespace and storage | done, proved |
| 2 | `DiscosFd`, `MCDiscosFd`, `DiscosCallsProofs` | descriptor tables, on top of `Discos`: open, close, chmod, unlinking of open files | done, proved |
| 3 | `DiscosIO`, `MCDiscosIO` | write, read and seek on one file | done, proved with 9 |
| 4 | `RingQueue`, `BoundedFifo`, `ReadyQueue`, `RingQueueProofs`, `ReadyQueueProofs` | `queue.c` refines a bounded FIFO | done, proved |
| 5 | `Fifos`, `FifosProofs` | threads, scheduler and timer, on top of `RingQueue` | done, its safety proved |
| 6 | `Allocator`, `Heap` | `heap.c` refines disjoint allocation | done, proved with 11 |
| 7 | `DiscosBitmap`, `MCDiscosFlat` | the scan by bytes and bits with its limit, against the set that `Discos` has | done, proved with 1 |
| 8 | `DiscosIoctl`, `MCDiscosIoctl`, `DiscosCallsProofs` | several processes, with the points where a call may sleep as steps of their own | done, proved |
| 9 | `DiscosRead`, `DiscosIOProofs` | the copy of what was read through the shared `read_buffer`, on top of `DiscosIO` | done, proved |
| 10 | `HeapFrees` | calls of `free` interleaved statement by statement, on top of `Heap` | done, proved with 11 |
| 11 | `Screen`, `ThreadBodies`, `ThreadBodiesProofs` | the cursor shared by preempted writers; with 10, what threads do between switches | done, proved |
| 12 | `DiscosFiles` | `Discos`, `DiscosFd` and the block side of `DiscosIO` composed: several files written, unlinked and reused | to do |

`DiscosFd`, `DiscosBitmap` and `DiscosIoctl` extend `Discos`; `DiscosRead` extends
`DiscosIO`; `Fifos` and `ReadyQueue` extend `RingQueue`; `ReadyQueue` instantiates
`BoundedFifo`, and `Heap` instantiates `Allocator`; `HeapFrees` extends `Heap`,
and `ThreadBodies` puts it next to `Screen`.  `DiscosIO` stands alone: its file is
seen by itself, with pointers to index blocks in both indirect ranges, which
`Discos` never has for directories.

## Discos

One variable, `discos`, is the C global of the same name; `ret` is what the
last call returned.  C functions that read and change the global are operators
from one file system to the next, under their C names, so that a call is the
composition the code has, and their failures half-way are in the result
(`get_next_entry` returns the file system *and* the slot; when there is no slot
the index blocks attached on the way stay attached).

| In the model | In the code |
|---|---|
| `fs.inodes[n]`: `type`, `size`, `pointers`, `single`, `double`, `access` | `inode_struct` |
| `fs.data_blocks[b]`: `entries`, `index_block` | the union `DATA_BLOCK`; the two views are kept apart, and `IndexBlocksOnly` is the property that justifies it for the pointers |
| `fs.bitmap` | the set of blocks whose bit is 1 |
| a path: a sequence of names; `<<NoName>>` for `/` | the string |
| `BlockAt`, `Lookup`, `my_find_inode_number` | the three nested loops over direct, single and double indirect blocks |
| `NextInDirect`, `NextInSingle`, `NextInDouble`, `get_next_entry` | `get_next_entry` and its helpers |
| `my_clear_inode`, `clear_entry_in_current_dir`, `Unlink` | the same, and the second half of `rd_unlink` |
| `rd_create`, `rd_mkdir`, `rd_unlink`, `init_file_sys` | the actions, one per ioctl |

Kept on purpose, because the code does it: the counter of free blocks is not
raised when an emptied directory block is given back; `findEntry` is not reset
from block to block; an entry in the double indirect range is neither linked nor
cleared; nothing asks whether a name exists or whether a parent is a directory;
`rd_unlink` decides by `size` whether a directory is empty; the search for a
free entry starts at `size / BLOCK_SIZE`; `rd_mkdir("/")` tests the counter of
free inodes; sizes and the inode counter wrap around at 2^w.

### Assumptions of the model

* A call is one step.  The handlers run under the big kernel lock; what happens
  when they sleep is the subject of `DiscosIoctl`.
* The initial state is the one after the first RD_INIT with memory granted.
  RD_INIT may come again at any time.
* `parse_absolute_path` copies the parent with `strncpy`, which writes no final
  zero, into memory from `vmalloc`, which is not cleared beyond its first zero
  byte.  So the last component of the parent may read on into leftovers, as a
  longer name.  The constant `Residue` holds the pairs of a name and what it may
  read as; the theorems about blocks and descriptors hold for every `Residue`,
  those about the namespace for every one in which no name reads as another that
  is in use (`MemoryUnambiguous`).
* Pointers have 4 bytes, as in the code's own comments, so an index block holds
  `BLOCK_SIZE/4` of them.
* Component names are shorter than 14 bytes, and paths have no doubled or
  trailing slash.  (With one, `/d/` resolves to the root by way of an empty slot;
  such paths are not among the inputs.)
* `name` fields, `strsep` and the `printk`s are not modelled further than names
  being equal or not.

### The properties

| Property | Says |
|---|---|
| `TypeOK` | counters, pointers and sizes stay in their types: no counter goes below zero |
| `BlockOwnership` | a pointer leads to a marked block, and no two lead to the same |
| `IndexBlocksOnly` | only single indirect pointers lead to blocks that hold pointers, and free blocks hold none |
| `FreeBlocksCovered` | the superblock never counts more free blocks than the bitmap has |
| `EntryTargets` | a directory entry leads to an allocated inode and no other entry leads there |
| `FreeInodesExact` | the count of free inodes is exact |
| `SizeCoversEntries` | a directory's size is never below its live entries |
| `NonEmptyDirectoryKept` | no call but RD_INIT removes a directory that has an entry |
| `CreateKeepsOthers` | a create or mkdir, also one that fails half-way, changes what at most one name leads to |

### The runs

Sizes are chosen so that each region of an inode and each kind of exhaustion is
reached with few blocks.  "unknown" in the column of leftovers lets the parent
read as a name nobody uses (the call is refused).

| Run | Names | Depth | Leftovers | Direct / pointers per block / entries per block | Blocks | Inodes | Distinct states | Shows |
|---|---|---|---|---|---|---|---|---|
| `tree` | 2 | 2 | unknown | 1 / 2 / 2 | 6 | 4 | 76,231 | the properties of calls one after the other, with directories in directories, duplicate names, files below files |
| `flat` | 3 | 1 | unknown | 1 / 2 / 1 | 8 | 6 | 11,916 | one directory through the direct, single and double indirect ranges until blocks run out; one entry per block, so each unlink gives a block back |

In `flat` the bitmap of each state is also looked at as the bytes it is in the
code (see DiscosBitmap).  `BlockOwnership` and `FreeBlocksCovered` are proved for
`Discos`, and checked in the larger run `ioctl`, which has a leftover that reads
as another name and numbers of inodes and sizes that wrap around.

Why these bounds.  The operations touch at most two inodes, one directory
region and three fresh blocks at a time, so what they can get wrong shows with a
directory that has one block more than a region holds, and a second owner.  In
`flat` a directory passes through all regions; in `tree` there are two owners,
and blocks that are partly full. The counters reach zero in each run.
`UINT_RANGE` is 4096, as no wrap-around can happen in the bounds. Names are
compared and nothing else, which makes the symmetry sound.

No fairness is assumed and no liveness is stated for `Discos`: it answers calls
and owes nobody a step.  Deadlock is checked in all runs.

### What the documentation says and the code does not do

Each of these runs checks one sentence of the repository's documentation and
ends in a counterexample; `PROJECT.json` quotes the sentence under `findings`.

| Run | Property | What happens |
|---|---|---|
| `unlink` | `UnlinkKeepsOthers` | a later block with one live entry is dropped with its entry, because `findEntry` is still 1 |
| `reachable` | `CreatedIsReachable` | a file in the double indirect range is reported as created and cannot be found |

Other disagreements are part of the model and have no run of their own.  A block
emptied by unlink is never added to the superblock's count again, so
`FreeBlocksCovered` is an inequality.  A name can be created twice, and a file
below a regular file; `EntryTargets`, `FreeInodesExact` and `SizeCoversEntries`
are checked with both.  A create is refused when the blocks from
`size / BLOCK_SIZE` on have no free entry, although an earlier one has.  A
misread parent makes unlink clear an entry of another directory, or none, and
return 0; the properties about entries are checked with memory whose leftovers
name no file, as they do not hold otherwise.

## DiscosBitmap

The bitmap as the array of bytes it is in the code, in units of `BYTE_BITS` bits:
`scan` is the loop over bytes for one that is not full and the loop over its bits
for one that is 0, `set_bitmap` and `clear_bitmap` are the operations with their
range test, which lets `DATA_BLOCKS_NUM` itself pass.  `BytesOf(S)` is the array
that stands for the set `S` of blocks that `Discos` has in its place.

| Property | Says |
|---|---|
| `ScanFindsFirstFree` | in every reachable state the scan finds the first block that is not in use, and none if there is none, also when the bit that the range test lets pass was set |
| `BitsAreBlocks` | setting or clearing a bit is adding or removing that block and no other |

They are invariants of the run `flat`, so they are checked for every bitmap that
calls of `Discos` bring about: three bytes of three bits for eight blocks, which
leaves one bit behind the last block in its own byte, as the code's 7931 does.

## DiscosIoctl

`discos_ioctl` has no lock of its own: its spinlock is commented out.  As an
`ioctl` file operation it runs under the big kernel lock, which the kernel takes
from a process that sleeps, and `vmalloc`, `kmalloc` and the copies from and to
user space may sleep.  A process is `Awake`, or sleeps in a call, and `call` holds
the call's local variables.  Every call of `Discos` that sleeps after it looked at
the disk is cut there in two; what happens before the first look (the copies in
`discos_ioctl`, the allocations of `rd_mkdir` and the first one of `rd_unlink`)
needs no step.

| In the model | In the code |
|---|---|
| `create_begin`, `create_end` | `rd_create` up to its tests of the counters (419-427), and from its `vmalloc`s on |
| `mkdir_root` | `rd_mkdir("/")` by a process |
| `unlink_begin`, `unlink_end` | `rd_unlink` up to its tests of the file (832), and from the `vmalloc`s at 834 on, for the inode it found |
| `init_begin`, `init_counts`, `init_end` | `init_file_sys`: a blank disk is `discos` from 74 on; it sleeps in the `vmalloc` at 76, and in those of `rd_mkdir("/")` |
| `overtaken` | history: how often on this disk `rd_unlink` went on when its tests would no longer have had the same outcome, or with another directory as the parent |

RD_INIT is taken not to be issued while `rd_unlink` or another RD_INIT sleeps
(`init_begin` has a guard that the code does not have): `rd_unlink` holds a pointer
into the old disk, which nobody frees, and would mix the two.  What this section
and the theorems say of every interleaving is said of those without such a call.  `MAX_OVERTAKEN` is a bound: no further `rd_unlink` begins on a disk that
had so many.  A pathname's leftovers are those of `Discos`.

| Property | Says |
|---|---|
| `IoctlTypeOK` | types and counters |
| `BlockOwnership`, `FreeBlocksCovered` | as in `Discos`, now whatever sleeps in between, under that assumption |
| `SoundUnlessOvertaken` | entries, sizes and the count of inodes survive every interleaving in which no unlink is overtaken |
| `BlankUntilCounted` | a disk that RD_INIT has not given its counts stays blank: a create that tested the counters of the old disk finds no room on it |

The run `ioctl`: two processes, two names, paths of two components, two blocks,
three inodes, `MAX_OVERTAKEN` 2, a name that reads on as the other (722,223
states).  Two processes are enough to put any step of one between any two of the
other; two blocks and two free inodes are what two creates compete for.
`UINT_RANGE` is 64, so that sizes wrap below zero after an overtaken unlink.
Deadlock is checked; no fairness, no liveness: whether a sleeper wakes is the
kernel's matter.

What an overtaken `rd_unlink` does, and `SoundUnlessOvertaken` leaves out: it
frees the inode it looked up, which meanwhile can be a new file, or a directory
that got entries; it counts the inode as free a second time, so that
`rd_mkdir("/")` may take the disk for a fresh one; it clears the entry of another
file that has got the name.  Blocks stay sound all the same, and that is proved.

## DiscosFd

`DiscosFd` adds `p_fd_table` to the variables of `Discos`, and its next-state
relation has the calls of `Discos`, which leave the tables alone, next to
`rd_open`, `rd_close`, `rd_chmod` and RD_INIT, which clears the tables with the
disk.

| In the model | In the code |
|---|---|
| `p_fd_table[t].pid`, `.file_objects[s]` | `process_fd_table`, `file_object`; the inode pointer is the inode's number |
| `get_fd_table`, `create_file_object` | the same |
| `ObjectOf` | the loop for `pos == fd` at the beginning of every call that takes a descriptor |
| `Denied` | the three tests of flags against access rights in `rd_open` |
| `Released` | the assignments at the end of `rd_close` |

`RD`, `RW` and `WR` have the values of `discos.h`, as `rd_mkdir` gives
directories the mode 1, which is none of them, and `rd_open` compares them with
it.  The cursor is left to `DiscosIO`: here nothing reads it.

| Property | Says |
|---|---|
| `TypeOKFd` | types; a call returns a descriptor within the table or -1, also when the table is full |
| `DescriptorsExact` | the search by position finds the caller's own object, and an object that is found with an inode is in use, although released objects all have position 0 and `rd_write` does not look at `usable` |
| `ObjectKeptUntilClosed` | nothing but closing its own descriptor, or RD_INIT, changes an object in use |

The run `fd` has two names, two modes, two processes, two tables of two objects,
three inodes and two blocks: both tables could be used, a table fills up, objects
are released and reused in either order, and inodes are freed and reused under
open objects (34,908 states).  No fairness, no liveness; deadlock is checked.

Three things are so in the model because they are in the code, and no run states
them.  `rd_unlink` removes a file that is open, which the comment at
`discos.c:798` says it refuses, so an object may point to a cleared or reused
inode.  A directory can be opened and its descriptor never closed.  All processes
share the first table, as no code stores a `pid`, so one can close what another
one opened.

## DiscosIO

One regular file with its size, its pointers, the data blocks and the bitmap,
and a cursor for each file object that is open on it.  The loops of the code over
direct, single and double indirect blocks are one fold over *places*: paths of
slots from the inode to a data block.  The three `...Places` operators say which
places each loop visits from which segment on, including the repeated division
`seg/64`; `WriteAt` and `ReadAt` are the loop bodies.

| In the model | In the code |
|---|---|
| `Step`, `Store` | follow a pointer, or get a block from the bitmap, clear it and attach it; without a free block the call returns -1 with what it wrote so far |
| `Fill` | the loop over the cells of one block: it stops at the end of the call, and at a `'\0'` it goes on to the next block without writing |
| `Written` | the three ranges; the first by the cursor, the others by the size, and what is returned |
| `Bytes`, `ReadAt`, `Read` | the loops of `rd_read`: `'\0'` is skipped, blocks that do not exist are passed over, the count is tested for equality |
| `rd_lseek` | a negative offset is refused; the rest is unsigned, so past the end of an empty file is `UINT_RANGE - 1` |
| `Offsets` | what `rd_lseek` is called with: `Counts`, and -1 for all negative offsets |
| `ReadOnly` | the descriptors for which `rd_write` refuses access |
| `log`, `inOrder` | history: what was written, as long as each write goes on where the last one ended |

Left out: other files (so the counter of the superblock, which is `Discos`'
subject, is taken not to be at its limit before the bitmap), the tests at the
beginning of the calls for bad descriptors (`DiscosFd` has the search), the copy
of what is written (of what is read: `DiscosRead`), and calls of `rd_write` for no bytes, which
would run beyond the buffer.  `MAX_SIZE` bounds the size before a write; it is
named as a bound and stands for nothing in the code.

| Property | Says |
|---|---|
| `TypeOK` | types; the cursor stays an unsigned number |
| `OneBlockOnePlace` | pointers lead to marked blocks, no two to one, and each marked block is in the file, however the ranges were filled |
| `SizeCoversContents` | the size, by which the later ranges and the reader go, is at least the bytes there are |
| `SequentialWritesKept` | writes one after the other, none crossing a block's boundary unless it begins at one, are the contents of the file |
| `AlignedReadsBack` | a read within a block, or from the start of one, of such a file gives what was written there |

The two conditions on boundaries are where the code is right; what happens
otherwise is in the violated run below.  With one direct block, two pointers in
an index block and two bytes in a block the ranges hold 2, 4 and 8 bytes, so the
input of 15 bytes crosses all of them.

The run `io` has a writer and a reader, four buffers (a byte, a block, one with a
`'\0'` in the middle, and the one of 15 bytes), three counts (0, 1 and 3, so that
reads within a block and reads across blocks follow each other), these and -1 as
offsets, and ten blocks, one less than the largest file needs with its index blocks, so
the disk runs out (724,410 states with the copies of `DiscosRead`).  The branch of `rd_write` for a file that has
its largest size, which ends without touching a block, is therefore in the model
and not reached in the run.  No fairness, no liveness; deadlock is checked (a
file of `MAX_SIZE` can still be read and sought).

| Violated run | Property | What happens |
|---|---|---|
| `io_append` | `AppendedBytesKept` | a write of more bytes than are left in its block uses the offset of the first block in the next one, too, and bytes are lost |

`rd_read` has the same fault: a read that crosses a boundary and does not begin
at one skips the beginning of the next block.  Further disagreements that the
model has and no run states: asking for more than is left returns -1, asking for
0 bytes reads some, a write that ends because its loops do returns 0,
overwriting makes the size grow, and seeking in an empty file moves the cursor to
2^32-1.

## DiscosRead

The second half of `rd_read`: what was read is in `read_buffer`, one global array,
and `copy_to_user` hands it over, and may sleep at every byte of a page that is
not in memory.  Each descriptor is used by a process of its own; `copy[fd]` is the
copy its process is in.

| In the model | In the code |
|---|---|
| `Refilled` | the `memset` at 1497, which clears `sizeof(int)` bytes (`CLEARED`), and the bytes that are read over it |
| `read_begin`, `copy_to_user`, `read_end` | `rd_read` up to the copy, the copy of any number of bytes up to the next sleep, its end |
| `LEFT` | a byte that an earlier read left in the buffer; which one makes no difference |
| `mine`, `shared` | history: what this read put into the buffer, and whether another read has begun since |

`GetsWhatItRead` says that a process whose copy no other read ran into gets what
it read, whatever is written and sought meanwhile, and zeros up to `CLEARED`
behind it; reads that ended before it began, or begin after it ended, do not
matter, although the buffer is the same.  Where the code is weaker is in the property's conditions: reads that
overlap mix their bytes; and when fewer bytes were read than asked for (a zero
byte in the file, or a boundary that was skipped), the process gets what earlier
reads left behind the first four.  In the run `io` copies sleep only while the
file is smaller than `MAX_ASLEEP` (3 of its 8 bytes: a bound for TLC); `CLEARED`
is 1, as reads are of three bytes at most.

## RingQueue, BoundedFifo and ReadyQueue

`RingQueue` has `queue.c` as operators on a record (`elements`, `size`, `head`,
`tail`); `Fifos` uses them.  `ReadyQueue` is the queue by itself, under calls of
`add` and `poll` in any order.  `BoundedFifo` is what `queue.h` promises: a
sequence of at most `Capacity` elements.  The refinement mapping takes the
elements from `head` to `tail` (`Items`) for the sequence; `ImplementsFifo` is
`BoundedFifo`'s specification under that mapping, checked by the run
`ready_queue` for a small capacity (603 states, all positions of head and tail)
and proved for every one.

## Fifos

The threads of FIFOS on one CPU.  `pc` is the place in the code, `thread_pool`
the TCBs with the context each saved `esp` leads to, `ptr_current_esp` where the
next `stash` will save, `ready_queue` the ring of `RingQueue`.

| In the model | In the code |
|---|---|
| `thread_create`, `yield`, `print_all_finished` | `init` of `init.c`, interrupts off up to `sti` |
| `stash`, `schedule` | `stash`, and the `schedule` it calls, with interrupts off up to `resume` or `start`: one step |
| `timer` | the handler in `boot.s`: the interrupt, wherever interrupts are on |
| `run_body`, `return_from_body` | `thread1_run` to `thread3_run`: a number of rounds, then `finish` |
| `finish` | its four parts, with interrupts on |
| `schedule_poll`, `schedule_thread`, `schedule_main` | the `schedule` that `finish` reaches through `trap`, with interrupts on: one step for each read or write of what it shares with the handler |
| `Entered` | `start` and `resume`: a saved context leads back to its place; a stack with something else on it leads astray (`"crashed"`) |
| `"overwritten"` | a context saved on the main thread's stack while `ptr_current_esp` was a thread's: the next `schedule` runs on that stack from the top and writes over it |
| `finished`, `dead` | history: whose body has returned; who has cleared `current_tid` in `finish` |

Left out: registers and printing (both are in `Screen`), and the heap behind
`malloc` and `free` (`thread_create` may find memory for a stack or none; a stack is
`held` or `freed`; the heap's side of it is in `HeapFrees`).  The pool and the ring
are taken to be allocated.  `mark` reads and writes the state of the polled thread
in one step: the handler changes the state of the current thread only, and
`current_tid` is 0 there.

| Property | Says |
|---|---|
| `TypeOK` | types; only threads, and never the main one, are in the queue |
| `QueueSound` | a thread is in the queue at most once and not while it runs, and the queue always has room |
| `DeadNotQueued` | a thread that has cleared `current_tid` in `finish` is never current again and never in the queue, wherever the timer hits |
| `StackHeld` | a thread that is queued or current has its stack, unless it stands at `clear_tid`, between the `free` in `finish` and the store to `current_tid`, or its saved context was overwritten |
| `LostOnlyByFinish` | `schedule` loses a thread only in the window of the `schedule` called by `finish` between `queue_poll` and setting `current_tid` |
| `EachGetsTheCpu` | liveness: a thread in the queue leaves it to run, unless the CPU has gone astray; and when no thread is left the main thread comes to its last line, unless its saved place is that of `resume_main` |

The thread at `clear_tid` is not a rare case: it has freed the stack that it stands
on, and if the timer comes there it waits in the queue, is resumed from that stack
and goes on to clear `current_tid`.  Nothing allocates after `init`, so the memory
is still as it was, but for what `free` writes into headers.

Fairness is weak fairness of `instruction`: the CPU executes.  Nothing is asked
of the timer, which may fire always or never.  `EachGetsTheCpu` holds under both:
with the timer firing all the time the queue goes round, without it threads run
to their end.

The run `fifos` has a pool of three TCBs for three calls of `thread_create`: the
third is refused, as when the pool is full, and each may be refused for lack of
memory; two threads (27,840 states) are
enough for one to be interrupted in `finish` while the other is being polled, or
waits.  Deadlock is not checked: the main thread ends in `cli; hlt`, and a CPU
gone astray is the end of what is modelled.

| Violated run | Property | What happens |
|---|---|---|
| `fifos_resumes` | `ResumesWhereItStopped` | the timer comes in that `schedule` at `set_ptr`, after the store to `current_tid` and before the one to `ptr_current_esp` |

In the run thread 1 has finished and thread 2, which never ran, has been polled.  At
`set_ptr` the handler saves the scheduler's place through `ptr_current_esp`, in the
TCB of thread 1, takes `current_tid` for the running thread, marks thread 2 ready and
puts it back into the queue, polls it and, as it is no longer new, resumes it: from
the stack that `thread_create` made for `start`, on which no registers were saved.
If the timer comes one statement later, at `switch`, the scheduler's place is saved as
the context of thread 2 itself, on the main thread's stack, which the next `schedule`
writes over, and thread 2 is resumed from there; the model has that case, too, and the
property is violated by it in longer traces.

The main thread can be lost as well.  At `resume_main` `ptr_current_esp` is its own
already, and a timer there saves the scheduler's place as its context: from then on
resuming the main thread leads back to that place, which resumes the main thread
again, and "All threads finished." is never printed.  The second half of
`EachGetsTheCpu` excludes this case and no other: `main_esp = "resume_main"`.
When a thread was lost (`LostOnlyByFinish` says where), the line is printed all the
same.

## Allocator and Heap

`Heap` is `heap.c` in cells of 8 bytes, to which `malloc` rounds everything: a
header is one cell, and so is `LASTPTR` in front of the first block.

| In the model | In the code |
|---|---|
| `header[c]`: `size`, `alloc`, `prev` | the two words at `c`, taken as a header: the size with its lowest bit, and the size of the block before |
| `Junk` | what the user of a region may leave in its cells: words that read as a free block |
| `Blocks`, `Fits`, `Placed` | the loop of `malloc` for the first fit, and the splitting |
| `Announce` | the words behind a block that changed its size: `prev` of the next block, or `LASTPTR` |
| `Combine`, `WithNext`, `WithPrev` | `Combine`, and the two halves of `free` |
| `live`, `result` | history: the regions that were returned and not freed, and the last return value |

The headers of blocks that were combined stay behind in the buffer, as in the
code; only what the walk from `baseptr` and the words of the headers reach
matters.

`Allocator` is what `heap.h` promises, over `live` and `result`: a region that
overlaps no other and no header, or `NULL` if there is no gap for it.

| Property | Says |
|---|---|
| `TypeOK` | sizes and pointers stay within the buffer |
| `TiledAtRest` (`Tiled`) | the blocks lie one behind the other to the end of the buffer, forwards and backwards, and `LASTPTR` is the last one |
| `MergedAtRest` (`Merged`) | no two free blocks are neighbours |
| `ImplementsAllocator` | each call is a call of `Allocator`; in particular `NULL` is returned only when no gap is large enough |

Left out: `malloc(0)` and `free(NULL)`, which do nothing, and requests so large
that rounding them overflows.

## HeapFrees

In FIFOS `malloc` is called by `init` with interrupts off, and `free` by each
thread in `finish` with interrupts on, for its stack.  So a behaviour of
`HeapFrees` is one of `Heap`, calls one after the other, or some mallocs and then
frees that interrupt each other between any two statements: `freeing` has the
local variables of each call under way.

| In the model | In the code |
|---|---|
| `free_begin`, `free_end` | the call and the return |
| `free_tests` | `NEXT_BLKP`, `GET_ALLOC(next)`, `PREV_BLKP`, `GET_ALLOC(prev)`: a read each |
| `free_alone` | the size is read, and written without its lowest bit |
| `combine` | `Combine`: the sum, the block behind, and the two writes |

`TiledAtRest` and `MergedAtRest` are `Tiled` and `Merged` whenever no `free` is
under way; `ImplementsAllocator` is checked for these behaviours, too.  They hold
as long as any two blocks that are being freed at the same time have something
allocated between them (`Apart`).  The model stops (`clashed`) where two are not:
then each may find the other still allocated, and two free neighbours stay; or
one combines with a block while the other combines it with the next, a sum counts
a block twice, and a free block overlaps a region in use.  The stacks of FIFOS'
threads lie next to each other, so there it depends on when the timer fires.

## Screen

The cursor of `print.c` and the threads that print, at the level of the
instructions the build has (no `-O`): an increment is a load, an addition and a
store, and each test loads its variable again.  `eax` is each thread's register.
`tick` is the timer's handler with all it calls: it puts `EOI` (0x20) into the low
byte of the interrupted thread's `%eax` before `stash` saves it (`LowByte`; the
others stay), and lets any thread go on.

| Property | Says |
|---|---|
| `CursorStrays` | `xpos` is at most `COLUMNS`, and `ypos` at most `EOI`, plus one for each tick that came inside a call; where that does not fit into a byte, plus `EOI + 1` for each (`Reach`) |
| `NewlineRepairs` | after a `newline` that nobody interrupts the cursor is on the screen, however far it was off, and stays there until the next tick |

So the cursor does leave the screen, but not for long: an increment of an old
value brings back what another thread has reset, and a test on the replaced byte
lets the end of a line pass; and both heal because the code tests with `>=`.  As
long as the cursor fits into a byte the handler makes a register smaller or puts
`EOI` there, which is on the screen's side of the column's bound; above that it can
also make it larger (0x100 becomes 0x120), and a tick may add `EOI + 1`.  In the code
that takes 176 ticks inside calls, each at the right instruction.
`WidthAssumption` says that no such sum leaves an `int`.  What
is printed meanwhile goes to cells behind the last line.  Left out: the
characters, the cells they go to, and the loop of `cls` that clears them.

## ThreadBodies

What threads do between the context switches of `Fifos`, in one specification:
`job` chooses between printing and freeing, as the heap and the screen share
nothing.  The run `heap` has ten cells and regions of one, two and four of them:
up to four blocks at a time, rests that are split off and rests that are too
small, and blocks combined on either side, on both and on none, at the end of the
buffer and before it; frees of up to three blocks at a time; and three threads on
a screen of four columns and two lines, with three ticks inside calls
(`MAX_TICKS`, a bound) and any number outside (680,523 states).  `EOI` lies
between the number of lines and that of columns, as in the code, and a byte has six
values (`BYTE`), so that three ticks bring the cursor out of a byte: `xpos` reaches 8
in the run, which is more than `COLUMNS` and one for each tick.  Deadlock is not checked: threads end.
No fairness, no liveness.

## What is proved

`DiscosProofs` proves, for every number of blocks and inodes, every block size,
any names, depth and leftovers (`DiscosAssumption` asks for positive sizes and
for a counter that can hold the number of inodes):

| Theorem | Statement |
|---|---|
| `AlwaysGood` | `Spec => []GoodState`, the inductive invariant |
| `TypeCorrect` | `Spec => []TypeOK` |
| `BlocksOwned` | `Spec => []BlockOwnership` |
| `PointersOnlyInIndexBlocks` | `Spec => []IndexBlocksOnly` |
| `CountCovered` | `Spec => []FreeBlocksCovered` |
| `ScanCorrect`, `BitsMarkBlocks` | `Spec => []ScanFindsFirstFree`, `Spec => []BitsAreBlocks` |

The inductive invariant is `Good(fs) == fs \in FileSys /\ Owned(fs) /\
IndexOnly(fs) /\ Covered(fs)`.  The types are inductive by themselves; the other
three parts need each other:

* `Owned` needs `IndexOnly`: a fresh block must bring no pointers with it, or
  attaching it would add owners, and a block given back must hold none, or its
  targets would be freed while something still points to them.
* `IndexOnly` needs `Owned`: zeroing a block or writing an index block changes
  what one owner sees only because there is one.
* `Covered` needs `Owned`: what `my_clear_inode` adds to the counter, one for
  each pointer, is what it unmarks only because every pointer leads to a block
  that was marked, and no two to the same.

The argument is by operator.  `AllocGood` and `LinkGood` say what a new block
does, `SetDirect`, `SetSingle`, `SetDouble` and `SetIndex` attach it in each of
the four places, and the lemmas named after the searches follow the code's
branches.  Giving back is `ShrinkGood` (pointers only go), `FreedGood` (bits of
blocks without pointers go) and their uses in `ClearInodeGood`,
`ClearInDirectGood`, `ClearInSingleGood` and `DropSingleGood`.  While an inode is
being unlinked its pointers still lead to blocks already given back; `Detach`,
the file system with that inode zeroed, is what stays good in between.
`NextGood` has one step per call.

The last two are about the bytes of the bitmap (`DiscosBitmap`), for any number of
bits in a byte and any number of bytes that has bits behind the last block's
(`BitmapAssumption`).  `OneBit` says that a number is that of one bit of one byte,
which is why `set_bitmap` and `clear_bitmap` leave the other marks alone
(`OneBitChanged`), and `ScanIsFirst` that the first bit 0 of the first byte that
is not full comes before every other bit 0, for any set of numbers that the bits
stand for.  The set is that of the marked blocks, or these and the number behind
the last block, which the range test lets pass.

`DiscosNamesProofs` proves, for every number of blocks and inodes, every block
size, any names and any depth:

| Theorem | Statement |
|---|---|
| `AlwaysNamed` | `Spec => []NamesState`, the inductive invariant |
| `TargetsHeld` | `Spec => []EntryTargets` |
| `FreeInodesCounted` | `Spec => []FreeInodesExact` |
| `SizesCover` | `Spec => []SizeCoversEntries` |
| `DirectoriesKept` | `Spec => NonEmptyDirectoryKept`, an action property |
| `OtherNamesKept` | `Spec => CreateKeepsOthers`, an action property |

under two hypotheses, which are named and stand in each theorem:

* `SizesFit`: an unsigned int holds the size of a directory of all files.  The code
  has 1024 inodes and entries of 16 bytes, so it does.  Otherwise a size would wrap to
  zero, and `rd_unlink` take a full directory for an empty one.
* `MemoryUnambiguous`: the empty string is no name, and leftovers of memory behind
  the parent's copy (`Residue`) do not turn its name into another name in use.  The
  code does not ensure this: it holds as long as what follows in the memory makes no
  name that some file has.  Otherwise `rd_unlink` clears the entry in a directory
  that is not the parent, or none, and frees the inode all the same.

The three invariants are not inductive, alone or together.  `rd_unlink`
frees an inode when the size in it is zero; entries do not come into it.  So an
entry keeps its target only if a size never counts less than there is, and a size
stays right only if an entry that is cleared was counted in that directory and
not in another.  `Named(fs, par)` says so with a function `par`, from an inode to
the directory whose size counts it:

* `SizeCounts`: every size is exactly the number of inodes that `par` sends there.
* `EntriesLead`: an entry that is not free leads to an inode that `par` sends to
  the directory of the entry, and a free one has the empty name.
* `EntriesOnce`: no directory has two entries for one inode.
* `FreeBlank`: an inode that is not in use is zero and nobody's, so that a reused
  inode number revives nothing.
* `Forest`: the root is nobody's, and nobody its own.

`NamesState` is `Treelike(discos)`, which is `\E par : Named(discos, par)`, with
`GoodState`, the exact count of free inodes (`Counted`) and a root that is a
directory.  That an entry is there for every inode that is counted is not part of
it, and is false: `clear_entry_in_current_dir` gives a block back when its first
entry is cleared, with what else is in it (run `unlink`).

The argument follows the calls.  `Kept(fs, gs, dir)` is what the search for an
entry may do: blocks are attached to `dir`, empty, and no entry of any inode is
disturbed (`EntryKept`, from one lemma for each part of the search).  `Entering` is
the end of `rd_create`: one more inode, one more entry, one more in the size.
`WalkLeads` says that a pathname leads to an inode that can be searched or
nowhere; as `my_find_inode_number` is a fold, the proof unfolds it once
(`WalkSteps`) and takes a shortest pathname that is wrong.  `ParentLeads` and
`ParentFound` say that the directory that `rd_unlink` takes for the parent is the
one the pathname leads through, which is where `MemoryUnambiguous` is used.
`Unlinking` is the end of `rd_unlink`: one inode less in `par`.  `CreateKeepsOthers`
is about look-ups, the first entry of a name: `EnterShows` says which single name
the new entry can show.

`DiscosCallsProofs` proves, of `DiscosIoctl`, for any number of processes and of
overtaken unlinks (`IoctlAssumption` asks for a counter that can hold the number of
inodes):

| Theorem | Statement |
|---|---|
| `IoctlAlwaysGood` | `IoctlSpec => []IoctlGood`, the inductive invariant of the blocks |
| `IoctlTypeCorrect` | `IoctlSpec => []IoctlTypeOK` |
| `IoctlBlocksOwned` | `IoctlSpec => []BlockOwnership` |
| `IoctlCountCovered` | `IoctlSpec => []FreeBlocksCovered` |
| `IoctlAlwaysNamed` | `IoctlSpec => []IoctlNames`, the inductive invariant of the names |
| `IoctlSound` | `IoctlSpec => []SoundUnlessOvertaken` |
| `IoctlBlank` | `IoctlSpec => []BlankUntilCounted` |

`IoctlGood` adds to `GoodState` that at most one process is in RD_INIT, and that
while it has not counted the disk no block is marked and none is counted
(`Uncounted`).  The second is needed for `init_counts`: the number of all blocks is
covered only by an empty bitmap.  The halves of the calls are the lemmas of
`DiscosProofs` without the tests before the sleep (`CreateAllocatedGood`,
`UnlinkAllocatedGood`, for any inode that is in the array): the proof shows that
blocks do not depend on those tests.  On an uncounted disk `NoPointers` follows
from `Owned`, so creates find nothing (`CreateOnUncounted`) and unlinks give
nothing back (`UnlinkOnUncounted`).

`IoctlNames` adds the namespace.  While RD_INIT has not counted the disk it is blank,
and every call that wakes up on it finds no inode but the root's and gives up;
afterwards `Treelike` holds until an `rd_unlink` has been overtaken, and so does
`Counted`.  The last three theorems need `SizesFit` and
that the empty string is no name, but nothing of `Residue`: an `rd_unlink` that took
another directory for the parent is counted as overtaken (`AsTested`).

Of `DiscosFd` it proves, for every number of processes, tables and file objects,
over any file system that `DiscosProofs` covers:

| Theorem | Statement |
|---|---|
| `FdAlwaysGood` | `SpecFd => []FdGood`, the inductive invariant |
| `FdTypeCorrect` | `SpecFd => []TypeOKFd` |
| `DescriptorsFindTheirOwn` | `SpecFd => []DescriptorsExact` |
| `ObjectsKept` | `SpecFd => ObjectKeptUntilClosed` |

`DescriptorsExact` is about what the search by position finds, and every object
that is not in use has the position 0, too.  `TablesSound` is what makes it
inductive: an object in use has its own slot as its position, and one that is not
is all zero, so that the test of `usable` after the search is enough.  `Good` is
part of the invariant because `rd_open` stores what the lookup returns and
`rd_unlink` may be called in between.

`ReadyQueueProofs` proves, for every capacity and every set of elements:

| Theorem | Statement |
|---|---|
| `RingKept` | `Spec => [](ready_queue \in Ring(Capacity + 1))` |
| `RingImplementsFifo` | `Spec => ImplementsFifo`, the refinement |

The invariant is the shape of the ring: its size is `Capacity + 1`, head and tail
are slots of it.  `Slot(n, x)` is the slot of an index that may have passed the
end of the `n` slots once, and `Ahead(n, h, t)` the number of places from `h` to
`t`; lemmas without any `%` in their
statements (`Moves`, `FullAhead`, `EmptyAhead`, `LastPlace`, `PlaceOfElement`,
`PlaceFromNextHead`) are what the solver can use.  `AddAppends` and
`PollTakesOldest` are the two cases of the step: a new element comes to the place
that was free and leaves the others alone; after a poll every element is one
place nearer.

They are in `RingQueueProofs`, where `FifosProofs` finds them, too, with
what the ring holds as a set: `Elements` after a call, and `Once`, that nothing is
in it twice.

`FifosProofs` proves, for any number of threads and of TCBs, wherever the timer
fires:

| Theorem | Statement |
|---|---|
| `SchedulerSound` | `Spec => []IInv`, the inductive invariant |
| `TypeCorrect`, `QueueIsSound`, `DeadStayOut`, `StacksHeld` | `[]TypeOK`, `[]QueueSound`, `[]DeadNotQueued`, `[]StackHeld` |
| `LostByTimerOnly` | `Spec => LostOnlyByFinish`, an action property |

`QueueSound` is not inductive: it does not say what `current_tid` and
`ptr_current_esp`, which the handler reads, are at the instruction that is
interrupted.  `CpuInv` says it for each value of `pc`; `QueueInv` says that
neither is queued, nor what has been polled and has not got the CPU;
`DeadInv` says the same of what has cleared `current_tid`;
`WaitInv` and `RunInv` say of what waits and of what runs which context it
may have and whether its stack is still held.  There is a lemma for each action;
`QueueTakes` and its neighbours bring the ring's lemmas into the scheduler's
terms.  For `LostByTimerOnly` the steps are sorted by what they do to a thread
that is queued or runs: only one of them leaves it neither.

`ThreadBodiesProofs` proves, for any number of threads, any screen with at least
one line and fewer columns than a byte has values (`ScreenAssumption`), and any number
of ticks, under `Spec_bodies` (on the machine as long as the cursor fits an `int`,
`WidthAssumption`):

| Theorem | Statement |
|---|---|
| `ScreenSound` | `[]ScreenInv`, the inductive invariant |
| `StraysByTicks`, `NewlineBringsBack` | `[]CursorStrays`, `[]NewlineRepairs` |
| `HeapSound` | `[]FreesInv`, the inductive invariant of the heap |
| `HeapTypeCorrect`, `HeapStaysTiled`, `HeapStaysMerged` | `[]TypeOK`, `[]TiledAtRest`, `[]MergedAtRest` |
| `HeapIsAnAllocator` | `ImplementsAllocator`, the refinement |

`CursorStrays` bounds the cursor by the ticks so far; the store and the reset
that brings it back are several instructions apart, so `ColumnInv` and `LineInv`
have a bound that is one lower outside of these instructions, and bound the
register in the same way (`XTop` and `YTop`, which only ticks move: `Tops`).
`WaitersInv` is where the ticks come in: a thread that waits has something in its
register that is below the bounds, one tick higher, whatever it had loaded and
whatever the handler made of its low byte (`LowByteType`, `MoreTicks`, `TickKeeps`).

The heap is proved for any size of the buffer and any sizes that are
asked for (`HeapAssumption`: positive, and room for one header).  `Tiled` and
`Merged` speak of `Blocks`, the walk by `NEXT_BLKP`, which trusts `LASTPTR`.  The
proofs speak of a set `B` instead:

* `AtRest(h, B)`: the blocks `B` tile the buffer by their sizes, and each has told
  its size to the one behind, or to `LASTPTR`.  Then the walk of `malloc` collects
  `B` (`RestNext`, by induction on the walk's steps).
* `Booked(h, B, regions)`: besides, no two free blocks are neighbours, and the
  live regions are those of the taken blocks.  It is inductive for calls one after
  the other (`MallocEffect`, `FreeEffect`).  That `NULL` means no gap needs the
  merging: free cells side by side all lie in one block (`RoomIsABlock`).
* `Shared(h, B, frees, S)` takes its place while calls of `free` are under way, `S`
  being the taken blocks that nobody gives back.  The buffer is tiled all the time,
  as `Combine` changes one size in one write.  The rest is owed: a block has told
  its size, or a call is at the write that tells it (`ToldOrTelling`); a free block
  has a taken one behind it, or a call is going to join the two
  (`MergedOrJoining`).  `Knows` says what a call has found out before each of its
  statements, and that it is still so: the size it read, the block it found.
  Something in `S` lies between any two of the calls (`Between`), so no statement
  writes a word that another call knows (`OthersKnow`): what a call reads and
  writes lies between the next block of `S` below it and the one above.

The reads keep `Shared` by `ReadingShared`, the three writes by `MarkingShared`,
`PuttingShared` (where a block leaves `B`) and `TellingShared`; a call that begins
takes its block out of `S` (`BeginShared`), and when the last one has ended nothing
is owed (`SharedRests`).  Where two calls clash the model stops, and so does what
is claimed: only that headers are still sizes and bits.

`DiscosIOProofs` proves, for any number of descriptors, whatever they read, write
and seek, and any finite set of numbers of bytes (`DiscosReadAssumption`; they are
`int`s):

| Theorem | Statement |
|---|---|
| `CopiesSound` | `ReadSpec => []CopyInv`, the inductive invariant |
| `CopiesWhatWasRead` | `ReadSpec => []GetsWhatItRead` |
| `FileSound` | `ReadSpec => []FileInv`, the inductive invariant of the file |
| `TypeCorrect` | `ReadSpec => []TypeOK` |
| `BlocksInOnePlace` | `ReadSpec => []OneBlockOnePlace` |
| `SizeCovers` | `ReadSpec => []SizeCoversContents`, where `SizesHold` |
| `WritesKept` | `ReadSpec => []SequentialWritesKept`, where `FileFits` |
| `ReadsBack` | `ReadSpec => AlignedReadsBack`, where `FileFits`, an action property |

`GetsWhatItRead` is about the bytes that a process has got; `CopyInv` adds those
that it has still to get: while no other read ran into a copy, `read_buffer` holds
what its own read put there, and the zeros of the `memset` where that is
narrower (`CopySound`).  A read that begins marks every copy under way as shared
(`BeginKeeps`), and the end of a copy gives the buffer up only when no other is
under way (`EndKeeps`).  `CopyKeeps` needs that the copy stays within the cells of
the buffer, and so that there is a greatest number of bytes (`MaxExists`).

`FileInv` is `TypeOK /\ OneBlockOnePlace`, for any sizes of blocks, index blocks and
disk.  It is inductive, but a `rd_write` is a fold in a fold in a fold, and between
two steps of a walk more has to hold: a walk on which a block was attached is at a
slot of the inode or of an index block (`Slots`), and a pointer that leads to an
index block is followed before a pointer is stored in it (`LeadsToIndex`).
`StepOnePlace` says that one step keeps this, whether it finds a pointer, attaches
a block or runs out of them: a block that is not marked is nowhere in the file
(`StoreOnePlace`).  `PlaceOnePlace` takes the one, two or three steps of a place,
`FillSound` the bytes, which change no pointer (`SamePointers`), and `WrittenSound`
the loops.  For these, "Loops" shows that every fold of the model is a sequence of
passes (`LoopExists`, from the least number of passes without one) and that what each
pass keeps holds at the end (`LoopKeeps`), and `PlacesAre` that all three ranges visit
places of the file only, also after the repeated divisions of the double indirect one.

`SizeCovers` counts.  `CoversInv` says more than the property: the size is at least
the number of cells of marked blocks that hold a byte (`Full`), whether or not
reading comes to them, so each step of a `rd_write` can be taken alone.  Attaching a
block adds no such cell, since its contents are zeroed (`StoreIs`); the bytes of a block add at
most as many as they add to the size (`FillSound`).  That the bytes of the file are
no more than these cells is `ContentsCount`: reading comes to each place once
(`AllPlacesOnce`) and a block is at one place (`OwnBlock`, from `OneBlockOnePlace`),
so no cell is read twice (`BytesCount`).  The hypothesis `SizesHold` is that a write of a file
smaller than `MAX_SIZE` does not carry the size beyond an unsigned int; in the run
5 + 15 stays below 4096.  It is needed: the code adds the bytes that are written
over once more, so a file that is rewritten often enough wraps its size around, and
then holds more than the size says.

`WritesKept` and `ReadsBack` are about files that were written in order (`GoesOn`).
Their hypothesis `FileFits` is that an unsigned int holds the size of a full file, as
in the code, where that is about a million bytes.  Neither property is inductive:
what a write adds and what a read finds is known only if every cell is, those behind
the end too.  `LogInv` adds to `FileInv` that the cells, taken in the order of the
ranges, hold the bytes of the log and nothing behind them (`Shows`), and that their
number is the size.  Within a `rd_write`, `InStep` says of each block of a range that
the file still ends right where the write goes on, or nothing is left to be written;
`FillShows` does one block, `WriteAtShows` a range and `RangeShows` its entry:
`Ready` has the write enter the third range at its start, because the code does not
find its way into the middle of it.  `GoesOn` leaves such writes out, and so the
log ends within one write there.  When the blocks run out or a '\0' comes, the write
ends with a shorter text (`Text`), not another one.  `ContentsShow` reads the file from its start.

For `ReadsBack`, `CursorInv` adds the cursors: none is behind the end of such a file,
except the -1 that `rd_lseek` sets in an empty one, which is larger than any file and
finds nothing (`ReadNothing`).  `ReadTo` is what a `rd_read` has found when it comes to a
position: no more than is there, and all of it if the read is aligned, which
`BlockReadTo`, `ReadAtTo` and `RangeReadTo` keep.  That a read which is not aligned
moves its cursor no further than the end of the file is needed as well, since it may
come between two that are (`ReadCursors`).

Only model-checked: liveness (`EachGetsTheCpu`), which is out of these provers'
reach; and that the runs which expect a violation find one.  ENABLED occurs in no
theorem.  Every other invariant and action property of the passing runs is stated by
a theorem listed in `PROJECT.json`.

## Not modelled

The components with status `not_modelled` in `PROJECT.json`, each with its
reason:

* The user-space wrappers and tests hold no state; the calls they make are the
  actions, in any order.
* The earlier user-space build, `Ramdisk/userspace/`, has the same functions for
  one process, without sleeps and copies; modules of its own would repeat these.
* Boot and hardware set-up are straight-line code.

Of the ioctl entry, the creation of the `/proc` entry, the copies of arguments and
what happens when they fail.  Of files: writes through the descriptor of a file
that was unlinked, whose inode may be another file's or a directory's by then;
that needs bytes and entries in the same blocks, module 12 of the plan.  Memory
that is never freed on error paths, the failure of `vmalloc`, and the text of
messages.

## Running the checks

    tlc -workers 2 -config MCDiscosTree.cfg MCDiscos.tla
    tlc -workers 2 -config MCDiscosFlat.cfg MCDiscosFlat.tla
    tlc -workers 2 -config MCDiscosIoctl.cfg MCDiscosIoctl.tla
    tlc -workers 2 -config MCDiscosIO.cfg MCDiscosIO.tla
    tlc -workers 2 -config ThreadBodies.cfg ThreadBodies.tla
    tlc -workers 2 -config Fifos.cfg Fifos.tla
    tlapm DiscosProofs.tla
    tlapm DiscosNamesProofs.tla
    tlapm DiscosCallsProofs.tla
    tlapm RingQueueProofs.tla
    tlapm ReadyQueueProofs.tla
    tlapm FifosProofs.tla
    tlapm DiscosIOProofs.tla
    tlapm ThreadBodiesProofs.tla
