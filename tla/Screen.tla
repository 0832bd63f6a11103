-------------------------------- MODULE Screen --------------------------------
(***************************************************************************)
(* The cursor of FileSystem-v3/print.c, that the threads of FIFOS share.   *)
(* They print with interrupts on: the timer stops a thread between any two *)
(* instructions and lets another one print.  The build does not optimise   *)
(* (Makefile: no -O), so xpos++ is a load, an addition and a store, and    *)
(* each test loads its variable again.                                     *)
(*                                                                         *)
(* The timer's handler (boot.s) sets %al before stash saves the registers: *)
(* the interrupted thread goes on with another low byte in %eax.           *)
(*                                                                         *)
(* Which characters are printed, and where, is left out: the cursor does   *)
(* not depend on it.                                                       *)
(***************************************************************************)
EXTENDS Naturals

CONSTANTS
  Printers,   \* the threads
  COLUMNS,    \* 80 in the code
  LINES,      \* 24 in the code
  EOI,        \* what the handler puts into %al: 0x20 in the code
  BYTE,       \* values of %al: 256 in the code
  MAX_TICKS   \* bound: ticks of the timer inside a put_char or newline

ASSUME ScreenAssumption ==
  COLUMNS \in Nat /\ LINES \in Nat \ {0} /\ EOI \in LINES .. COLUMNS - 1
  /\ BYTE \in Nat /\ COLUMNS < BYTE

(* No sum of a column and what the ticks add to it leaves a signed int.    *)
ASSUME WidthAssumption ==
  MAX_TICKS \in Nat /\ COLUMNS + (EOI + 1) * MAX_TICKS <= 2147483647

VARIABLES
  xpos, ypos,
  at,      \* the next instruction of each thread
  eax,     \* its register
  cpu,     \* the thread that runs
  ticks,   \* history: ticks that came inside a put_char or newline
  whole    \* history: a newline began and no tick has come since

screen_vars == <<xpos, ypos, at, eax, cpu, ticks, whole>>

Instructions ==
  {"out", "load_x", "add_x", "store_x", "test_x", "branch_x", "zero_x", "load_y", "add_y",
   "store_y", "test_y", "branch_y", "cls_x", "cls_y", "zero_y"}

Exec(from, to) == at[cpu] = from /\ at' = [at EXCEPT ![cpu] = to]
Register(value) == eax' = [eax EXCEPT ![cpu] = value]
LowByte(value)  == value - (value % BYTE) + EOI
Cursor          == UNCHANGED <<xpos, ypos>>

\* Seeded fault: the cursor is caught on the last column only.
Wraps_equal(x) == x = COLUMNS
\* Seeded fault: one line too many.
Scrolls_late(y) == y > LINES

Wraps(x)   == x >= COLUMNS
Scrolls(y) == y >= LINES

-----------------------------------------------------------------------------
(* A thread calls put_char for a character, or newline for the end of a    *)
(* line.                                                                   *)
put_char ==
  \/ Exec("out", "load_x") /\ Cursor /\ UNCHANGED eax
  \/ Exec("load_x", "add_x") /\ Register(xpos) /\ Cursor
  \/ Exec("add_x", "store_x") /\ Register(eax[cpu] + 1) /\ Cursor
  \/ Exec("store_x", "test_x") /\ xpos' = eax[cpu] /\ UNCHANGED <<ypos, eax>>
  \/ Exec("test_x", "branch_x") /\ Register(xpos) /\ Cursor
  \/ Exec("branch_x", IF Wraps(eax[cpu]) THEN "zero_x" ELSE "out") /\ Cursor /\ UNCHANGED eax

newline ==
  \/ Exec("out", "zero_x") /\ Cursor /\ UNCHANGED eax
  \/ Exec("load_y", "add_y") /\ Register(ypos) /\ Cursor
  \/ Exec("add_y", "store_y") /\ Register(eax[cpu] + 1) /\ Cursor
  \/ Exec("store_y", "test_y") /\ ypos' = eax[cpu] /\ UNCHANGED <<xpos, eax>>
  \/ Exec("test_y", "branch_y") /\ Register(ypos) /\ Cursor
  \/ Exec("branch_y", IF Scrolls(eax[cpu]) THEN "cls_x" ELSE "out") /\ Cursor /\ UNCHANGED eax
  \/ Exec("zero_y", "out") /\ ypos' = 0 /\ UNCHANGED <<xpos, eax>>

(* newline begins: the column is set first. *)
newline_begins == Exec("zero_x", "load_y") /\ xpos' = 0 /\ whole' = TRUE /\ UNCHANGED <<ypos, eax>>

(* The end of cls, after it has cleared the screen. *)
cls ==
  \/ Exec("cls_x", "cls_y") /\ xpos' = 0 /\ UNCHANGED <<ypos, eax>>
  \/ Exec("cls_y", "zero_y") /\ ypos' = 0 /\ UNCHANGED <<xpos, eax>>

(* The timer's interrupt.  Any thread may be the next, also the same one   *)
(* if it is the last.                                                      *)
tick ==
  /\ \/ at[cpu] = "out" /\ UNCHANGED ticks
     \/ at[cpu] # "out" /\ ticks < MAX_TICKS /\ ticks' = ticks + 1
  /\ Register(LowByte(eax[cpu]))
  /\ cpu' \in Printers
  /\ whole' = FALSE
  /\ Cursor /\ UNCHANGED at

-----------------------------------------------------------------------------
(* After the cls of init. *)
ScreenInit ==
  /\ xpos = 0 /\ ypos = 0
  /\ at = [t \in Printers |-> "out"] /\ eax = [t \in Printers |-> 0]
  /\ cpu \in Printers
  /\ ticks = 0 /\ whole = FALSE

ScreenNext ==
  \/ (put_char \/ newline \/ cls) /\ UNCHANGED <<cpu, ticks, whole>>
  \/ newline_begins /\ UNCHANGED <<cpu, ticks>>
  \/ tick

-----------------------------------------------------------------------------
(* The cursor leaves the screen, but as long as it fits into %al only by a *)
(* column and a line for each tick of the timer inside a call: an          *)
(* increment of an old value, a test of a byte that the handler replaced.  *)
(* The line can also be what the handler left in %al.  Above a byte the    *)
(* upper bytes stay as they were, and a tick can add what the handler puts *)
(* into %al.                                                               *)
Reach(limit) ==
  IF limit + ticks < BYTE THEN limit + ticks ELSE limit + ((EOI + 1) * ticks)

CursorStrays == xpos <= Reach(COLUMNS) /\ ypos <= Reach(EOI)

(* However far it strayed, a newline that nobody interrupts brings it back *)
(* on the screen, and there it stays until the next tick.                  *)
NewlineRepairs == whole /\ at[cpu] = "out" => xpos < COLUMNS /\ ypos < LINES

=============================================================================
