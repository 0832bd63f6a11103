-------------------------- MODULE ThreadBodiesProofs --------------------------
(***************************************************************************)
(* Proofs about ThreadBodies: the screen and the heap under threads that   *)
(* the timer stops between any two instructions, for any number of         *)
(* threads, any screen, any buffer, any sizes that are asked for and any   *)
(* number of ticks.  First the screen; then Heap and the interrupted calls *)
(* of free of HeapFrees; then the theorems.                                *)
(*                                                                         *)
(* The screen.  The cursor's bound alone is not inductive: it is lower, by *)
(* one, where the thread that runs is not between its store and its reset, *)
(* and the bound of what is stored is that of the register it was loaded   *)
(* into, also while the thread waits: a tick inside a call can raise the   *)
(* low byte of a register, and it raises the bound as much.                *)
(*                                                                         *)
(* The heap.  Blocks(heap) walks by NEXT_BLKP, which trusts LASTPTR.  The  *)
(* proofs say instead of a set B that its blocks tile the buffer by their  *)
(* sizes, and that each has told the one behind, or LASTPTR; then the walk *)
(* collects B.  While calls of free are under way neither the telling nor  *)
(* the merging is complete.  Shared says which call still owes what, what  *)
(* each call knows before each of its statements, and that something that  *)
(* stays taken lies between any two of them, so that no statement writes a *)
(* word that another call relies on.                                       *)
(***************************************************************************)
EXTENDS ThreadBodies, FiniteSetTheorems, WellFoundedInduction, TLAPS

-----------------------------------------------------------------------------
(* The screen                                                              *)

(* The thread that runs stored a new column, or line, and has not reset it *)
(* yet.                                                                    *)
StoredX == {"test_x", "branch_x", "zero_x"}
StoredY == {"test_y", "branch_y", "cls_x", "cls_y"}

(* How far the column and the line can have come. *)
XTop == Reach(COLUMNS)
YTop == Reach(EOI)

ScreenTypes ==
  /\ xpos \in Nat /\ ypos \in Nat /\ ticks \in Nat /\ whole \in BOOLEAN
  /\ cpu \in Printers
  /\ at \in [Printers -> Instructions] /\ eax \in [Printers -> Nat]

(* A thread that waits will store what keeps the bounds.                   *)
WaitersInv ==
  \A t \in Printers \ {cpu} :
    /\ at[t] \in {"add_x", "store_x"} => eax[t] < XTop
    /\ at[t] \in {"add_y", "store_y"} => eax[t] < YTop

(* The bounds of the column and of the register it goes through.           *)
ColumnInv ==
  /\ at[cpu] \notin StoredX => xpos < XTop
  /\ at[cpu] \in StoredX => xpos <= XTop
  /\ at[cpu] = "add_x" => eax[cpu] < XTop
  /\ at[cpu] = "store_x" => eax[cpu] <= XTop
  /\ at[cpu] = "branch_x" => eax[cpu] = xpos \/ xpos < XTop

(* The same of the line.                                                   *)
LineInv ==
  /\ at[cpu] \notin StoredY => ypos < YTop
  /\ at[cpu] \in StoredY => ypos <= YTop
  /\ at[cpu] = "add_y" => eax[cpu] < YTop
  /\ at[cpu] = "store_y" => eax[cpu] <= YTop
  /\ at[cpu] = "branch_y" => eax[cpu] = ypos \/ ypos < YTop

(* Where a newline began and no tick has come since.                       *)
WholeInv ==
  whole =>
    /\ at[cpu] \in {"out", "load_x", "load_y", "add_y", "store_y", "zero_y"} \cup StoredY
         => xpos < COLUMNS
    /\ at[cpu] \in {"out", "load_x", "add_x", "store_x"} \cup StoredX => ypos < LINES
    /\ at[cpu] = "add_x" => eax[cpu] < COLUMNS
    /\ at[cpu] = "store_x" => eax[cpu] <= COLUMNS
    /\ at[cpu] = "branch_x" => eax[cpu] = xpos
    /\ at[cpu] = "branch_y" => eax[cpu] = ypos

(* The inductive invariant.                                                *)
ScreenInv == ScreenTypes /\ WaitersInv /\ ColumnInv /\ LineInv /\ WholeInv

-----------------------------------------------------------------------------
(* Each instruction keeps it *)

(* The bounds are on the far side of the screen's, and only ticks move     *)
(* them.                                                                   *)
LEMMA Tops ==
  ASSUME ScreenTypes
  PROVE  /\ XTop \in Nat /\ XTop >= COLUMNS /\ YTop \in Nat /\ YTop >= EOI
         /\ UNCHANGED ticks => XTop' = XTop /\ YTop' = YTop
<1>1. ASSUME NEW b \in Nat, NEW n \in Nat
      PROVE  b + ((EOI + 1) * n) \in Nat /\ b + ((EOI + 1) * n) >= b
  <2>1. EOI + 1 \in Nat
    BY ScreenAssumption
  <2>2. (EOI + 1) * n \in Nat
    BY <2>1
  <2>3. QED
    BY <2>2
<1>2. COLUMNS \in Nat /\ EOI \in Nat /\ ticks \in Nat
  BY ScreenAssumption DEF ScreenTypes
<1>3. ASSUME NEW b \in Nat PROVE Reach(b) \in Nat /\ Reach(b) >= b
  BY <1>1, <1>2 DEF Reach
<1>4. UNCHANGED ticks => XTop' = XTop /\ YTop' = YTop
  BY DEF XTop, YTop, Reach
<1>5. QED
  BY <1>2, <1>3, <1>4 DEF XTop, YTop

(* An instruction of the thread that runs changes its own place and        *)
(* register, and nobody else's.                                            *)
LEMMA ExecEffect ==
  ASSUME ScreenTypes, NEW from \in Instructions, NEW to \in Instructions, Exec(from, to),
         UNCHANGED eax \/ \E value \in Nat : Register(value),
         UNCHANGED <<cpu, ticks>>
  PROVE  /\ at[cpu] = from /\ at'[cpu] = to
         /\ at' \in [Printers -> Instructions] /\ eax' \in [Printers -> Nat]
         /\ \A value \in Nat : Register(value) => eax'[cpu] = value
         /\ \A t \in Printers \ {cpu} : at'[t] = at[t] /\ eax'[t] = eax[t]
         /\ WaitersInv => WaitersInv'
<1>1. /\ at[cpu] = from /\ at'[cpu] = to /\ at' \in [Printers -> Instructions]
      /\ \A t \in Printers \ {cpu} : at'[t] = at[t]
  BY DEF ScreenTypes, Exec
<1>2. /\ eax' \in [Printers -> Nat]
      /\ \A value \in Nat : Register(value) => eax'[cpu] = value
      /\ \A t \in Printers \ {cpu} : eax'[t] = eax[t]
  BY DEF ScreenTypes, Register
<1>3. WaitersInv => WaitersInv'
  BY <1>1, <1>2, Tops DEF WaitersInv
<1>4. QED
  BY <1>1, <1>2, <1>3

(* The six instructions of put_char.                                       *)
LEMMA PutCharKeeps ==
  ASSUME ScreenInv, put_char, UNCHANGED <<cpu, ticks, whole>>
  PROVE  ScreenInv'
<1>0. /\ XTop \in Nat /\ XTop >= COLUMNS /\ YTop \in Nat /\ YTop >= EOI
      /\ XTop' = XTop /\ YTop' = YTop
  BY Tops DEF ScreenInv
<1> USE ScreenAssumption, <1>0 DEF ScreenInv, StoredX, StoredY, Cursor
<1>1. CASE Exec("out", "load_x") /\ Cursor /\ UNCHANGED eax
  <2>1. ScreenTypes' /\ WaitersInv' /\ at[cpu] = "out" /\ at'[cpu] = "load_x"
    BY <1>1, ExecEffect DEF Instructions, ScreenTypes
  <2>2. QED
    BY <1>1, <2>1 DEF ScreenTypes, ColumnInv, LineInv, WholeInv
<1>2. CASE Exec("load_x", "add_x") /\ Register(xpos) /\ Cursor
  <2>1. /\ ScreenTypes' /\ WaitersInv' /\ at[cpu] = "load_x" /\ at'[cpu] = "add_x"
        /\ eax'[cpu] = xpos
    BY <1>2, ExecEffect DEF Instructions, ScreenTypes
  <2>2. QED
    BY <1>2, <2>1 DEF ScreenTypes, ColumnInv, LineInv, WholeInv
<1>3. CASE Exec("add_x", "store_x") /\ Register(eax[cpu] + 1) /\ Cursor
  <2>1. eax[cpu] \in Nat
    BY DEF ScreenTypes
  <2>2. /\ ScreenTypes' /\ WaitersInv' /\ at[cpu] = "add_x" /\ at'[cpu] = "store_x"
        /\ eax'[cpu] = eax[cpu] + 1
    BY <1>3, <2>1, ExecEffect DEF Instructions, ScreenTypes
  <2>3. QED
    BY <1>3, <2>1, <2>2 DEF ScreenTypes, ColumnInv, LineInv, WholeInv
<1>4. CASE Exec("store_x", "test_x") /\ xpos' = eax[cpu] /\ UNCHANGED <<ypos, eax>>
  <2>1. eax[cpu] \in Nat
    BY DEF ScreenTypes
  <2>2. ScreenTypes' /\ WaitersInv' /\ at[cpu] = "store_x" /\ at'[cpu] = "test_x"
    BY <1>4, <2>1, ExecEffect DEF Instructions, ScreenTypes
  <2>3. QED
    BY <1>4, <2>1, <2>2 DEF ScreenTypes, ColumnInv, LineInv, WholeInv
<1>5. CASE Exec("test_x", "branch_x") /\ Register(xpos) /\ Cursor
  <2>1. /\ ScreenTypes' /\ WaitersInv' /\ at[cpu] = "test_x" /\ at'[cpu] = "branch_x"
        /\ eax'[cpu] = xpos
    BY <1>5, ExecEffect DEF Instructions, ScreenTypes
  <2>2. QED
    BY <1>5, <2>1 DEF ScreenTypes, ColumnInv, LineInv, WholeInv
<1>6. CASE Exec("branch_x", IF Wraps(eax[cpu]) THEN "zero_x" ELSE "out") /\ Cursor /\ UNCHANGED eax
  <2>1. /\ ScreenTypes' /\ WaitersInv' /\ at[cpu] = "branch_x"
        /\ at'[cpu] = IF eax[cpu] >= COLUMNS THEN "zero_x" ELSE "out"
    BY <1>6, ExecEffect DEF Instructions, ScreenTypes, Wraps
  <2>2. eax[cpu] \in Nat
    BY DEF ScreenTypes
  <2>3. QED
    BY <1>6, <2>1, <2>2 DEF ScreenTypes, ColumnInv, LineInv, WholeInv
<1>7. QED
  BY <1>1, <1>2, <1>3, <1>4, <1>5, <1>6 DEF put_char

(* The instructions of newline after its first, and its call.              *)
LEMMA NewlineKeeps ==
  ASSUME ScreenInv, newline, UNCHANGED <<cpu, ticks, whole>>
  PROVE  ScreenInv'
<1>0. /\ XTop \in Nat /\ XTop >= COLUMNS /\ YTop \in Nat /\ YTop >= EOI
      /\ XTop' = XTop /\ YTop' = YTop
  BY Tops DEF ScreenInv
<1> USE ScreenAssumption, <1>0 DEF ScreenInv, StoredX, StoredY, Cursor
<1>1. CASE Exec("out", "zero_x") /\ Cursor /\ UNCHANGED eax
  <2>1. ScreenTypes' /\ WaitersInv' /\ at[cpu] = "out" /\ at'[cpu] = "zero_x"
    BY <1>1, ExecEffect DEF Instructions, ScreenTypes
  <2>2. QED
    BY <1>1, <2>1 DEF ScreenTypes, ColumnInv, LineInv, WholeInv
<1>2. CASE Exec("load_y", "add_y") /\ Register(ypos) /\ Cursor
  <2>1. /\ ScreenTypes' /\ WaitersInv' /\ at[cpu] = "load_y" /\ at'[cpu] = "add_y"
        /\ eax'[cpu] = ypos
    BY <1>2, ExecEffect DEF Instructions, ScreenTypes
  <2>2. QED
    BY <1>2, <2>1 DEF ScreenTypes, ColumnInv, LineInv, WholeInv
<1>3. CASE Exec("add_y", "store_y") /\ Register(eax[cpu] + 1) /\ Cursor
  <2>1. eax[cpu] \in Nat
    BY DEF ScreenTypes
  <2>2. /\ ScreenTypes' /\ WaitersInv' /\ at[cpu] = "add_y" /\ at'[cpu] = "store_y"
        /\ eax'[cpu] = eax[cpu] + 1
    BY <1>3, <2>1, ExecEffect DEF Instructions, ScreenTypes
  <2>3. QED
    BY <1>3, <2>1, <2>2 DEF ScreenTypes, ColumnInv, LineInv, WholeInv
<1>4. CASE Exec("store_y", "test_y") /\ ypos' = eax[cpu] /\ UNCHANGED <<xpos, eax>>
  <2>1. eax[cpu] \in Nat
    BY DEF ScreenTypes
  <2>2. ScreenTypes' /\ WaitersInv' /\ at[cpu] = "store_y" /\ at'[cpu] = "test_y"
    BY <1>4, <2>1, ExecEffect DEF Instructions, ScreenTypes
  <2>3. QED
    BY <1>4, <2>1, <2>2 DEF ScreenTypes, ColumnInv, LineInv, WholeInv
<1>5. CASE Exec("test_y", "branch_y") /\ Register(ypos) /\ Cursor
  <2>1. /\ ScreenTypes' /\ WaitersInv' /\ at[cpu] = "test_y" /\ at'[cpu] = "branch_y"
        /\ eax'[cpu] = ypos
    BY <1>5, ExecEffect DEF Instructions, ScreenTypes
  <2>2. QED
    BY <1>5, <2>1 DEF ScreenTypes, ColumnInv, LineInv, WholeInv
<1>6. CASE Exec("branch_y", IF Scrolls(eax[cpu]) THEN "cls_x" ELSE "out") /\ Cursor /\ UNCHANGED eax
  <2>1. /\ ScreenTypes' /\ WaitersInv' /\ at[cpu] = "branch_y"
        /\ at'[cpu] = IF eax[cpu] >= LINES THEN "cls_x" ELSE "out"
    BY <1>6, ExecEffect DEF Instructions, ScreenTypes, Scrolls
  <2>2. eax[cpu] \in Nat
    BY DEF ScreenTypes
  <2>3. QED
    BY <1>6, <2>1, <2>2 DEF ScreenTypes, ColumnInv, LineInv, WholeInv
<1>7. CASE Exec("zero_y", "out") /\ ypos' = 0 /\ UNCHANGED <<xpos, eax>>
  <2>1. ScreenTypes' /\ WaitersInv' /\ at[cpu] = "zero_y" /\ at'[cpu] = "out"
    BY <1>7, ExecEffect DEF Instructions, ScreenTypes
  <2>2. QED
    BY <1>7, <2>1 DEF ScreenTypes, ColumnInv, LineInv, WholeInv
<1>8. QED
  BY <1>1, <1>2, <1>3, <1>4, <1>5, <1>6, <1>7 DEF newline

(* newline's first instruction, and cls.                                   *)
LEMMA ResetsKeep ==
  ASSUME ScreenInv, UNCHANGED <<cpu, ticks>>,
         newline_begins \/ (cls /\ UNCHANGED whole)
  PROVE  ScreenInv'
<1>0. /\ XTop \in Nat /\ XTop >= COLUMNS /\ YTop \in Nat /\ YTop >= EOI
      /\ XTop' = XTop /\ YTop' = YTop
  BY Tops DEF ScreenInv
<1> USE ScreenAssumption, <1>0 DEF ScreenInv, StoredX, StoredY
<1>1. CASE newline_begins
  <2>1. ScreenTypes' /\ WaitersInv' /\ at[cpu] = "zero_x" /\ at'[cpu] = "load_y"
    BY <1>1, ExecEffect DEF Instructions, ScreenTypes, newline_begins
  <2>2. ypos' < YTop' /\ xpos' = 0
    BY <1>1, <2>1 DEF LineInv, newline_begins
  <2>3. QED
    BY <1>1, <2>1, <2>2 DEF newline_begins, ScreenTypes, ColumnInv, LineInv, WholeInv
<1>2. CASE /\ Exec("cls_x", "cls_y") /\ xpos' = 0 /\ UNCHANGED <<ypos, eax, whole>>
  <2>1. ScreenTypes' /\ WaitersInv' /\ at[cpu] = "cls_x" /\ at'[cpu] = "cls_y"
    BY <1>2, ExecEffect DEF Instructions, ScreenTypes
  <2>2. QED
    BY <1>2, <2>1 DEF ScreenTypes, ColumnInv, LineInv, WholeInv
<1>3. CASE /\ Exec("cls_y", "zero_y") /\ ypos' = 0 /\ UNCHANGED <<xpos, eax, whole>>
  <2>1. ScreenTypes' /\ WaitersInv' /\ at[cpu] = "cls_y" /\ at'[cpu] = "zero_y"
    BY <1>3, ExecEffect DEF Instructions, ScreenTypes
  <2>2. QED
    BY <1>3, <2>1 DEF ScreenTypes, ColumnInv, LineInv, WholeInv
<1>4. QED
  BY <1>1, <1>2, <1>3 DEF cls

(* What the handler leaves in a register is a natural number.              *)
LEMMA LowByteType ==
  ASSUME NEW value \in Nat
  PROVE  LowByte(value) \in Nat
<1> DEFINE m == value % BYTE
<1>1. EOI \in Nat /\ BYTE \in Nat \ {0}
  BY ScreenAssumption
<1>2. m \in Nat /\ m <= value
  BY <1>1
<1>3. LowByte(value) = value - m + EOI
  BY DEF LowByte
<1> HIDE DEF m
<1>4. QED
  BY <1>1, <1>2, <1>3

(* A tick inside a call moves the bound by one at least, and by as much as *)
(* the handler can add to a register.                                      *)
LEMMA MoreTicks ==
  ASSUME NEW b \in Nat, EOI <= b, ticks \in Nat, ticks' = ticks + 1
  PROVE  /\ Reach(b) < Reach(b)'
         /\ \A value \in Nat : value <= Reach(b) => LowByte(value) < Reach(b)'
<1> DEFINE e == EOI + 1
           p == e * ticks
<1>1. EOI \in Nat /\ BYTE \in Nat \ {0} /\ e \in Nat \ {0} /\ EOI < BYTE
  BY ScreenAssumption
<1>2. p \in Nat /\ e * (ticks + 1) = p + e /\ ticks <= p
  BY <1>1
<1>3. /\ Reach(b) = IF b + ticks < BYTE THEN b + ticks ELSE b + p
      /\ Reach(b)' = IF b + (ticks + 1) < BYTE THEN b + (ticks + 1) ELSE b + (p + e)
  BY <1>2 DEF Reach
<1>4. ASSUME NEW value \in Nat
      PROVE  LowByte(value) <= value + EOI /\ (value < BYTE => LowByte(value) = EOI)
  <2>1. value % BYTE \in Nat /\ (value < BYTE => value % BYTE = value)
    BY <1>1
  <2> DEFINE m == value % BYTE
  <2>2. LowByte(value) = value - m + EOI
    BY DEF LowByte
  <2>3. m \in Nat /\ (value < BYTE => m = value)
    BY <2>1
  <2> HIDE DEF m
  <2>4. QED
    BY <1>1, <2>2, <2>3
<1> HIDE DEF p, e
<1>5. CASE b + (ticks + 1) < BYTE
  <2>1. Reach(b) = b + ticks /\ Reach(b)' = b + (ticks + 1) /\ b + ticks < BYTE
    BY <1>1, <1>3, <1>5
  <2>2. ASSUME NEW value \in Nat, value <= Reach(b) PROVE LowByte(value) < Reach(b)'
    <3>1. LowByte(value) = EOI
      BY <1>1, <1>4, <2>1, <2>2
    <3>2. QED
      BY <1>1, <2>1, <3>1
  <2>3. QED
    BY <2>1, <2>2
<1>6. CASE ~(b + (ticks + 1) < BYTE)
  <2>1. Reach(b)' = b + (p + e)
    BY <1>3, <1>6
  <2>2. Reach(b) <= b + p /\ Reach(b) \in Nat
    BY <1>2, <1>3
  <2>3. e = EOI + 1
    BY DEF e
  <2>4. ASSUME NEW value \in Nat, value <= Reach(b) PROVE LowByte(value) < Reach(b)'
    <3>1. LowByte(value) <= value + EOI /\ LowByte(value) \in Nat
      BY <1>4, <2>4, LowByteType
    <3>2. QED
      BY <1>1, <1>2, <2>1, <2>2, <2>3, <2>4, <3>1
  <2>5. QED
    BY <1>1, <1>2, <2>1, <2>2, <2>4
<1>7. QED
  BY <1>5, <1>6

(* The timer's tick: the stopped thread waits with another low byte in its *)
(* register, and the bounds of a stored column hold for the next thread as *)
(* well.                                                                   *)
LEMMA TickKeeps ==
  ASSUME ScreenInv, tick
  PROVE  ScreenInv'
<1>0. /\ COLUMNS \in Nat /\ EOI \in Nat /\ EOI <= COLUMNS
      /\ ticks \in Nat /\ xpos \in Nat /\ ypos \in Nat /\ cpu \in Printers
      /\ eax \in [Printers -> Nat]
  BY ScreenAssumption DEF ScreenInv, ScreenTypes
<1>1. /\ ticks' \in Nat /\ UNCHANGED <<xpos, ypos, at>>
      /\ at[cpu] = "out" => ticks' = ticks
      /\ at[cpu] # "out" => ticks' = ticks + 1
      /\ cpu' \in Printers /\ whole' = FALSE
  BY <1>0 DEF tick, Cursor
<1>2. /\ eax' \in [Printers -> Nat] /\ eax'[cpu] = LowByte(eax[cpu])
      /\ \A t \in Printers \ {cpu} : eax'[t] = eax[t]
  <2>1. eax' = [eax EXCEPT ![cpu] = LowByte(eax[cpu])]
    BY DEF tick, Register
  <2>2. LowByte(eax[cpu]) \in Nat
    BY <1>0, LowByteType
  <2>3. QED
    BY <1>0, <2>1, <2>2
<1>3. ScreenTypes'
  BY <1>0, <1>1, <1>2 DEF ScreenInv, ScreenTypes
<1>4. /\ XTop \in Nat /\ YTop \in Nat /\ XTop' \in Nat /\ YTop' \in Nat
      /\ XTop <= XTop' /\ YTop <= YTop'
      /\ at[cpu] # "out" =>
           /\ XTop < XTop' /\ \A value \in Nat : value <= XTop => LowByte(value) < XTop'
           /\ YTop < YTop' /\ \A value \in Nat : value <= YTop => LowByte(value) < YTop'
  <2>1. XTop \in Nat /\ YTop \in Nat /\ (UNCHANGED ticks => XTop' = XTop /\ YTop' = YTop)
    BY Tops DEF ScreenInv
  <2>2. XTop' \in Nat /\ YTop' \in Nat
    <3>1. ASSUME NEW n \in Nat PROVE (EOI + 1) * n \in Nat
      BY <1>0
    <3>2. (EOI + 1) * ticks' \in Nat
      BY <1>1, <3>1
    <3> DEFINE q == (EOI + 1) * ticks'
    <3>3. /\ XTop' = IF COLUMNS + ticks' < BYTE THEN COLUMNS + ticks' ELSE COLUMNS + q
          /\ YTop' = IF EOI + ticks' < BYTE THEN EOI + ticks' ELSE EOI + q
      BY DEF XTop, YTop, Reach
    <3>4. q \in Nat
      BY <3>2
    <3> HIDE DEF q
    <3>5. /\ COLUMNS + ticks' \in Nat /\ COLUMNS + q \in Nat
          /\ EOI + ticks' \in Nat /\ EOI + q \in Nat
      <4>1. ASSUME NEW b \in Nat, NEW n \in Nat PROVE b + n \in Nat
        OBVIOUS
      <4>2. COLUMNS \in Nat /\ EOI \in Nat /\ ticks' \in Nat
        BY <1>0, <1>1, Zenon
      <4>3. QED
        BY <3>4, <4>1, <4>2, Zenon
    <3>6. QED
      BY <3>3, <3>5, Zenon
  <2>3. ticks' = ticks + 1 =>
          /\ XTop < XTop' /\ \A value \in Nat : value <= XTop => LowByte(value) < XTop'
          /\ YTop < YTop' /\ \A value \in Nat : value <= YTop => LowByte(value) < YTop'
    BY <1>0, MoreTicks DEF XTop, YTop
  <2>4. QED
    BY <1>1, <2>1, <2>2, <2>3
<1>5. xpos < XTop' /\ ypos < YTop'
  <2>1. CASE at[cpu] = "out"
    <3>1. xpos < XTop /\ ypos < YTop
      BY <2>1 DEF ScreenInv, ColumnInv, LineInv, StoredX, StoredY
    <3>2. QED
      BY <1>0, <1>4, <3>1
  <2>2. CASE at[cpu] # "out"
    <3>1. xpos <= XTop /\ ypos <= YTop
      BY <1>0, <1>4 DEF ScreenInv, ColumnInv, LineInv
    <3>2. QED
      BY <1>0, <1>4, <2>2, <3>1
  <2>3. QED
    BY <2>1, <2>2
<1>6. ASSUME NEW t \in Printers
      PROVE  /\ at[t] \in {"add_x", "store_x"} => eax'[t] < XTop'
             /\ at[t] \in {"add_y", "store_y"} => eax'[t] < YTop'
  <2>1. eax[t] \in Nat
    BY <1>0
  <2>2. CASE t = cpu
    <3>1. /\ at[t] \in {"add_x", "store_x"} => eax[t] <= XTop
          /\ at[t] \in {"add_y", "store_y"} => eax[t] <= YTop
      BY <1>4, <2>1, <2>2 DEF ScreenInv, ColumnInv, LineInv
    <3>2. QED
      BY <1>2, <1>4, <2>1, <2>2, <3>1
  <2>3. CASE t # cpu
    <3>1. /\ at[t] \in {"add_x", "store_x"} => eax[t] < XTop
          /\ at[t] \in {"add_y", "store_y"} => eax[t] < YTop
          /\ eax'[t] = eax[t]
      BY <1>2, <2>3 DEF ScreenInv, WaitersInv
    <3>2. QED
      BY <1>4, <2>1, <3>1
  <2>4. QED
    BY <2>2, <2>3
<1>7. WaitersInv'
  BY <1>1, <1>6 DEF WaitersInv
<1>8. ColumnInv' /\ LineInv'
  <2>1. /\ xpos' < XTop' /\ ypos' < YTop' /\ xpos' <= XTop' /\ ypos' <= YTop'
        /\ eax'[cpu'] \in Nat
    BY <1>0, <1>1, <1>2, <1>4, <1>5
  <2>2. /\ at'[cpu'] \in {"add_x", "store_x"} => eax'[cpu'] < XTop' /\ eax'[cpu'] <= XTop'
        /\ at'[cpu'] \in {"add_y", "store_y"} => eax'[cpu'] < YTop' /\ eax'[cpu'] <= YTop'
    BY <1>1, <1>4, <1>6, <2>1
  <2>3. QED
    BY <2>1, <2>2 DEF ColumnInv, LineInv
<1>9. QED
  BY <1>1, <1>3, <1>7, <1>8 DEF WholeInv, ScreenInv

(* The inductive invariant holds at the start ...                          *)
LEMMA ScreenStarts == ScreenInit => ScreenInv
<1> SUFFICES ASSUME ScreenInit PROVE ScreenInv
  OBVIOUS
<1> USE ScreenAssumption
<1>1. ScreenTypes /\ at[cpu] = "out" /\ xpos = 0 /\ ypos = 0 /\ ticks = 0 /\ whole = FALSE
  BY DEF ScreenInit, ScreenTypes, Instructions
<1>2. WaitersInv
  BY DEF ScreenInit, WaitersInv
<1>3. XTop \in Nat /\ XTop >= COLUMNS /\ YTop \in Nat /\ YTop >= EOI
  BY <1>1, Tops
<1>4. ColumnInv /\ LineInv /\ WholeInv
  BY <1>1, <1>3 DEF ColumnInv, LineInv, WholeInv, StoredX, StoredY
<1>5. QED
  BY <1>1, <1>2, <1>4 DEF ScreenInv

(* ... and every instruction of any thread keeps it.                       *)
LEMMA ScreenKept == ScreenInv /\ (ScreenNext \/ UNCHANGED screen_vars) => ScreenInv'
<1>1. ASSUME ScreenInv, UNCHANGED screen_vars PROVE ScreenInv'
  BY <1>1, Tops DEF screen_vars, ScreenInv, ScreenTypes, WaitersInv, ColumnInv, LineInv, WholeInv
<1>2. ASSUME ScreenInv, ScreenNext PROVE ScreenInv'
  <2>1. CASE put_char /\ UNCHANGED <<cpu, ticks, whole>>
    BY <1>2, <2>1, PutCharKeeps
  <2>2. CASE newline /\ UNCHANGED <<cpu, ticks, whole>>
    BY <1>2, <2>2, NewlineKeeps
  <2>3. CASE UNCHANGED <<cpu, ticks>> /\ (newline_begins \/ (cls /\ UNCHANGED whole))
    BY <1>2, <2>3, ResetsKeep
  <2>4. CASE tick
    BY <1>2, <2>4, TickKeeps
  <2>5. QED
    BY <1>2, <2>1, <2>2, <2>3, <2>4 DEF ScreenNext
<1>3. QED
  BY <1>1, <1>2
-----------------------------------------------------------------------------
(* The heap: blocks that lie one behind the other *)

(* What a header can hold, and what a heap is.                             *)
Header == [size : 0 .. MEM, alloc : {0, 1}, prev : 0 .. MEM]
HeapType(h) == h \in [header : [Cell -> Header], last : Cell]

(* The block behind p begins where p ends; the last block ends at MEM.     *)
End(h, p) == p + h.header[p].size

(* The blocks B lie one behind the other, by their sizes, from the first   *)
(* cell to the last.                                                       *)
Tiles(h, B) ==
  /\ B \subseteq Cell /\ baseptr \in B
  /\ \A p \in B : /\ h.header[p].size > 0
                  /\ End(h, p) \in B \cup {MEM}
                  /\ \A q \in B : p < q => End(h, p) <= q

(* Behind p its size is known: to the next block, or to LASTPTR.           *)
Told(h, p) ==
  IF End(h, p) = MEM THEN h.last = p ELSE h.header[End(h, p)].prev = h.header[p].size

AllTold(h, B) == \A p \in B : Told(h, p)

(* The cells of the buffer; NULL is none of them.                          *)
LEMMA Cells ==
  /\ MEM \in Nat /\ MEM > 1 /\ Cell \subseteq Nat /\ baseptr \in Cell /\ NULL \notin Cell
  /\ \A c : c \in Cell <=> c \in Nat /\ 1 <= c /\ c < MEM
BY HeapAssumption DEF Cell, baseptr, NULL

(* A set of numbers has a least member, and FiniteSetsExt's Min is it.     *)
LEMMA Least ==
  ASSUME NEW S, S \subseteq Nat, S # {}
  PROVE  /\ Min(S) \in S
         /\ \A x \in S : Min(S) <= x
<1>1. PICK m \in S : \A y \in S : ~(<<y, m>> \in OpToRel(<, Nat))
  BY NatLessThanWellFounded, WFMin
<1>2. ASSUME NEW y \in S, y < m PROVE FALSE
  <2>1. <<y, m>> \in Nat \X Nat
    OBVIOUS
  <2>2. <<y, m>>[1] < <<y, m>>[2]
    BY <1>2
  <2>3. <<y, m>> \in OpToRel(<, Nat)
    BY <2>1, <2>2 DEF OpToRel
  <2>4. QED
    BY <1>1, <2>3
<1>3. \A y \in S : m <= y
  BY <1>2
<1>4. QED
  BY <1>3 DEF Min

(* The sizes and the ends of the blocks are numbers in range.              *)
LEMMA BlockRange ==
  ASSUME NEW h, HeapType(h), NEW B, Tiles(h, B), NEW p \in B
  PROVE  /\ p \in Nat /\ p \in Cell /\ 1 <= p /\ p < MEM
         /\ h.header[p].size \in Nat /\ h.header[p].size > 0
         /\ End(h, p) \in Nat /\ End(h, p) = p + h.header[p].size
         /\ p < End(h, p) /\ End(h, p) <= MEM
         /\ h.header[p] \in Header
<1>1. p \in Nat /\ p \in Cell /\ 1 <= p /\ p < MEM /\ MEM \in Nat
  BY Cells DEF Tiles
<1>2. h.header[p] \in Header
  BY <1>1 DEF HeapType
<1>3. h.header[p].size \in Nat /\ h.header[p].size > 0
  BY <1>1, <1>2 DEF Header, Tiles
<1>4. End(h, p) \in B \cup {MEM}
  BY DEF Tiles
<1>5. \A q \in B : q \in Nat /\ q < MEM
  BY Cells DEF Tiles
<1>6. End(h, p) \in Nat /\ End(h, p) <= MEM
  <2>1. CASE End(h, p) = MEM
    BY <1>1, <2>1
  <2>2. CASE End(h, p) \in B
    <3>1. \A x, y \in Nat : x < y => x <= y
      OBVIOUS
    <3>2. End(h, p) \in Nat /\ End(h, p) < MEM
      BY <1>5, <2>2
    <3>3. QED
      BY <1>1, <3>1, <3>2
  <2>3. QED
    BY <1>4, <2>1, <2>2
<1>7. \A x, n \in Nat : n > 0 => x < x + n
  OBVIOUS
<1>8. End(h, p) = p + h.header[p].size
  BY DEF End
<1>9. QED
  BY <1>1, <1>2, <1>3, <1>6, <1>7, <1>8

(* Every cell is in a block.                                               *)
LEMMA CellCovered ==
  ASSUME NEW h, HeapType(h), NEW B, Tiles(h, B), NEW c \in Cell
  PROVE  \E p \in B : p <= c /\ c < End(h, p)
<1> DEFINE D == {d \in Nat : c - d \in B}
<1>1. c \in Nat /\ 1 <= c /\ c < MEM /\ MEM \in Nat
  BY Cells
<1>2. c - 1 \in D
  <2>1. c - (c - 1) = 1 /\ c - 1 \in Nat
    BY <1>1
  <2>2. QED
    BY <2>1 DEF Tiles, baseptr
<1>3. Min(D) \in D /\ \A d \in D : Min(D) <= d
  <2>1. D \subseteq Nat /\ D # {}
    BY <1>2
  <2> HIDE DEF D
  <2>2. QED
    BY <2>1, Least
<1>4. PICK d \in Nat : c - d \in B /\ \A f \in Nat : c - f \in B => d <= f
  BY <1>3
<1> DEFINE p == c - d
           e == End(h, p)
<1>5. /\ p \in B /\ p \in Nat /\ p <= c
      /\ e \in Nat /\ p < e /\ e \in B \cup {MEM}
  <2>1. p \in B
    BY <1>4
  <2>2. p \in Nat /\ e \in Nat /\ p < e
    BY <2>1, BlockRange
  <2>3. e \in B \cup {MEM}
    BY <2>1 DEF Tiles
  <2>4. p <= c
    BY <1>1, <1>4
  <2>5. QED
    BY <2>1, <2>2, <2>3, <2>4
<1>6. ASSUME e <= c PROVE FALSE
  <2>1. e \in B
    BY <1>1, <1>5, <1>6
  <2>2. c - e \in Nat /\ c - (c - e) = e /\ c - e < d
    BY <1>1, <1>5, <1>6
  <2>3. d <= c - e
    BY <1>4, <2>1, <2>2
  <2>4. QED
    BY <2>2, <2>3
<1>7. c < e
  BY <1>1, <1>5, <1>6
<1>8. QED
  BY <1>5, <1>7

(* A block other than the first begins where another one ends ...          *)
LEMMA BlockBefore ==
  ASSUME NEW h, HeapType(h), NEW B, Tiles(h, B), NEW p \in B, p # baseptr
  PROVE  \E q \in B : End(h, q) = p
<1>1. p \in Nat /\ 1 <= p /\ p < MEM /\ MEM \in Nat
  BY BlockRange, Cells
<1>2. p - 1 \in Cell
  BY <1>1, Cells DEF baseptr
<1>3. PICK q \in B : q <= p - 1 /\ p - 1 < End(h, q)
  BY <1>2, CellCovered
<1>4. q \in Nat /\ End(h, q) \in Nat
  BY BlockRange
<1>5. q < p => End(h, q) <= p
  BY DEF Tiles
<1>6. End(h, q) = p
  BY <1>1, <1>3, <1>4, <1>5
<1>7. QED
  BY <1>6

(* ... and one block ends at the end of the buffer.                        *)
LEMMA LastBlock ==
  ASSUME NEW h, HeapType(h), NEW B, Tiles(h, B)
  PROVE  \E q \in B : End(h, q) = MEM /\ \A p \in B : p <= q
<1>1. MEM - 1 \in Cell /\ MEM \in Nat
  BY Cells
<1>2. PICK q \in B : q <= MEM - 1 /\ MEM - 1 < End(h, q)
  BY <1>1, CellCovered
<1>3. q \in Nat /\ End(h, q) \in Nat /\ End(h, q) <= MEM
  BY BlockRange
<1>4. End(h, q) = MEM
  BY <1>1, <1>2, <1>3
<1>5. \A p \in B : p \in Nat /\ p < MEM /\ (q < p => End(h, q) <= p)
  BY BlockRange DEF Tiles
<1>6. \A p \in B : p <= q
  BY <1>1, <1>3, <1>4, <1>5
<1>7. QED
  BY <1>4, <1>6

(* No two blocks end at the same place, nor overlap.                       *)
LEMMA BlocksApart ==
  ASSUME NEW h, HeapType(h), NEW B, Tiles(h, B), NEW p \in B, NEW q \in B
  PROVE  /\ End(h, p) = End(h, q) => p = q
         /\ p <= q /\ q < End(h, p) => p = q
<1>1. /\ p \in Nat /\ q \in Nat /\ End(h, p) \in Nat /\ End(h, q) \in Nat
      /\ p < End(h, p) /\ q < End(h, q)
  BY BlockRange
<1>2. (p < q => End(h, p) <= q) /\ (q < p => End(h, q) <= p)
  BY DEF Tiles
<1>3. QED
  BY <1>1, <1>2

(* NEXT_BLKP is the block behind, where LASTPTR is right.                  *)
LEMMA NextBlock ==
  ASSUME NEW h, HeapType(h), NEW B, Tiles(h, B), NEW p \in B,
         \A q \in B : End(h, q) = MEM => h.last = q
  PROVE  NEXT_BLKP(h, p) = IF End(h, p) = MEM THEN NULL ELSE End(h, p)
<1>1. PICK l \in B : End(h, l) = MEM /\ \A q \in B : q <= l
  BY LastBlock
<1>2. h.last = l
  BY <1>1
<1>3. p \in Nat /\ l \in Nat /\ p <= l
  BY <1>1, BlockRange
<1>4. End(h, p) = MEM <=> p = l
  BY <1>1, BlocksApart
<1>5. p < h.last <=> End(h, p) # MEM
  BY <1>2, <1>3, <1>4
<1>6. QED
  BY <1>5 DEF NEXT_BLKP, End

(* PREV_BLKP is the block before, where it has told its size.              *)
LEMMA PrevBlock ==
  ASSUME NEW h, HeapType(h), NEW B, Tiles(h, B), NEW p \in B, AllTold(h, B)
  PROVE  IF p = baseptr THEN PREV_BLKP(h, p) = NULL
         ELSE /\ PREV_BLKP(h, p) \in B /\ PREV_BLKP(h, p) < p
              /\ End(h, PREV_BLKP(h, p)) = p
<1>1. p \in Nat /\ 1 <= p /\ p < MEM /\ MEM \in Nat
  BY BlockRange, Cells
<1>2. CASE p = baseptr
  BY <1>2 DEF PREV_BLKP, baseptr
<1>3. CASE p # baseptr
  <2>1. PICK q \in B : End(h, q) = p
    BY <1>3, BlockBefore
  <2>2. q \in Nat /\ h.header[q].size \in Nat /\ p = q + h.header[q].size /\ q < p
    BY <2>1, BlockRange
  <2>3. h.header[p].prev = h.header[q].size
    BY <1>1, <2>1 DEF AllTold, Told
  <2>4. PREV_BLKP(h, p) = q
    BY <1>1, <1>3, <2>2, <2>3 DEF PREV_BLKP, baseptr
  <2>5. QED
    BY <1>3, <2>1, <2>2, <2>4
<1>4. QED
  BY <1>2, <1>3

-----------------------------------------------------------------------------
(* Walking over the blocks *)

(* The recursive function of Blocks, and that there is one: the function   *)
(* on 0 .. n is made from the one on 0 .. n - 1.                           *)
WalkTo(h, n, w) ==
  w = [i \in 0 .. n |->
         IF i = 0 THEN baseptr
         ELSE LET p == w[i - 1] IN IF p = NULL THEN NULL ELSE NEXT_BLKP(h, p)]

(* malloc's walk is a function on its first n steps.                       *)
LEMMA WalkExists ==
  ASSUME NEW h, NEW n \in Nat
  PROVE  \E w : WalkTo(h, n, w)
<1> DEFINE Missing == {m \in Nat : ~\E w : WalkTo(h, m, w)}
<1>1. SUFFICES ASSUME Missing # {} PROVE FALSE
  OBVIOUS
<1>2. Min(Missing) \in Missing /\ \A m \in Missing : Min(Missing) <= m
  <2>1. Missing \subseteq Nat
    OBVIOUS
  <2> HIDE DEF Missing
  <2>2. QED
    BY <1>1, <2>1, Least
<1>3. PICK m \in Nat : (~\E w : WalkTo(h, m, w)) /\ \A k \in Nat : k < m => \E w : WalkTo(h, k, w)
  <2>1. \A k \in Nat : k < Min(Missing) => k \notin Missing
    <3>1. Min(Missing) \in Nat
      BY <1>2
    <3> HIDE DEF Missing
    <3>2. QED
      BY <1>2, <3>1
  <2>2. QED
    BY <1>2, <2>1
<1>4. m # 0
  <2>1. WalkTo(h, 0, [i \in 0 .. 0 |-> baseptr])
    BY DEF WalkTo
  <2>2. QED
    BY <1>3, <2>1
<1>5. PICK w : WalkTo(h, m - 1, w)
  BY <1>3, <1>4
<1> DEFINE v == [i \in 0 .. m |->
                   IF i = 0 THEN baseptr
                   ELSE LET p == w[i - 1] IN IF p = NULL THEN NULL ELSE NEXT_BLKP(h, p)]
<1>6. \A i \in 0 .. m - 1 : v[i] = w[i]
  BY <1>5 DEF WalkTo
<1>7. \A i \in 0 .. m : i # 0 => i - 1 \in 0 .. m - 1
  OBVIOUS
<1>8. WalkTo(h, m, v)
  BY <1>6, <1>7 DEF WalkTo
<1>9. QED
  BY <1>3, <1>8

(* What Blocks collects is such a walk.                                    *)
LEMMA WalkOfBlocks ==
  ASSUME NEW h
  PROVE  \E w : WalkTo(h, MEM, w) /\ Blocks(h) = {w[i] : i \in 0 .. MEM} \ {NULL}
<1> DEFINE w == CHOOSE w : WalkTo(h, MEM, w)
<1>1. WalkTo(h, MEM, w)
  BY WalkExists, Cells
<1>2. Blocks(h) = {w[i] : i \in 0 .. MEM} \ {NULL}
  BY DEF Blocks, WalkTo
<1>3. QED
  BY <1>1, <1>2

(* The blocks that malloc walks over are those that lie one behind the     *)
(* other in the buffer, where LASTPTR is right.                            *)
LEMMA BlocksAreTiles ==
  ASSUME NEW h, HeapType(h), NEW B, Tiles(h, B), \A q \in B : End(h, q) = MEM => h.last = q
  PROVE  Blocks(h) = B
<1>1. PICK w : WalkTo(h, MEM, w) /\ Blocks(h) = {w[i] : i \in 0 .. MEM} \ {NULL}
  BY WalkOfBlocks
<1>2. /\ w[0] = baseptr
      /\ \A i \in 0 .. MEM - 1 : w[i + 1] = IF w[i] = NULL THEN NULL ELSE NEXT_BLKP(h, w[i])
  <2>1. MEM \in Nat /\ 0 \in 0 .. MEM
    BY Cells
  <2>2. \A i \in 0 .. MEM - 1 : i + 1 \in 0 .. MEM /\ i + 1 # 0 /\ (i + 1) - 1 = i
    BY <2>1
  <2>3. QED
    BY <1>1, <2>1, <2>2 DEF WalkTo
<1>3. \A p \in B : /\ p \in Nat /\ p # NULL /\ 1 <= p /\ p < MEM
                   /\ NEXT_BLKP(h, p) \in B \cup {NULL}
                   /\ NEXT_BLKP(h, p) # NULL => NEXT_BLKP(h, p) = End(h, p) /\ p + 1 <= End(h, p)
  <2>1. SUFFICES ASSUME NEW p \in B
                 PROVE  /\ p \in Nat /\ p # NULL /\ 1 <= p /\ p < MEM
                        /\ NEXT_BLKP(h, p) \in B \cup {NULL}
                        /\ NEXT_BLKP(h, p) # NULL => /\ NEXT_BLKP(h, p) = End(h, p)
                                                     /\ p + 1 <= End(h, p)
    OBVIOUS
  <2>2. p \in Nat /\ End(h, p) \in Nat /\ p < End(h, p) /\ p < MEM /\ 1 <= p /\ p \in Cell
    BY BlockRange
  <2>3. NEXT_BLKP(h, p) = IF End(h, p) = MEM THEN NULL ELSE End(h, p)
    BY NextBlock
  <2>4. End(h, p) \in B \cup {MEM}
    BY DEF Tiles
  <2>5. p + 1 <= End(h, p) /\ p # NULL
    BY <2>2, Cells
  <2>6. QED
    BY <2>2, <2>3, <2>4, <2>5
<1> DEFINE Good(i) == w[i] = NULL \/ (w[i] \in B /\ i + 1 <= w[i])
           Bad == {i \in 0 .. MEM : ~Good(i)}
<1>4. \A i \in 0 .. MEM : Good(i)
  <2>1. SUFFICES ASSUME Bad # {} PROVE FALSE
    OBVIOUS
  <2>2. Min(Bad) \in Bad /\ \A i \in Bad : Min(Bad) <= i
    <3>1. Bad \subseteq Nat
      BY Cells
    <3> HIDE DEF Bad
    <3>2. QED
      BY <2>1, <3>1, Least
  <2>3. PICK m \in 0 .. MEM : m \in Bad /\ \A i \in Bad : m <= i
    BY <2>2
  <2>4. m # 0
    BY <1>2, <2>3 DEF Tiles, baseptr
  <2>5. m \in Nat /\ m - 1 \in 0 .. MEM - 1 /\ m - 1 \in 0 .. MEM /\ (m - 1) + 1 = m /\ ~(m <= m - 1)
    BY <2>4, Cells
  <2>6. Good(m - 1)
    BY <2>3, <2>5
  <2>7. w[m] = IF w[m - 1] = NULL THEN NULL ELSE NEXT_BLKP(h, w[m - 1])
    BY <1>2, <2>5
  <2>8. CASE w[m - 1] = NULL
    BY <2>3, <2>7, <2>8
  <2>9. CASE w[m - 1] \in B /\ m <= w[m - 1]
    <3>1. w[m] \in B \cup {NULL}
      BY <1>3, <2>7, <2>9, Cells
    <3>2. w[m] # NULL => w[m - 1] \in Nat /\ w[m - 1] + 1 <= w[m] /\ w[m] \in Nat
      BY <1>3, <2>7, <2>9, <3>1
    <3>3. w[m] # NULL => m + 1 <= w[m]
      BY <2>5, <2>9, <3>2
    <3>4. QED
      BY <2>3, <3>1, <3>3
  <2>10. QED
    BY <2>5, <2>6, <2>8, <2>9
<1>5. Blocks(h) \subseteq B
  BY <1>1, <1>4
<1> DEFINE Unseen == {p \in B : \A i \in 0 .. MEM : w[i] # p}
<1>6. Unseen = {}
  <2>1. SUFFICES ASSUME Unseen # {} PROVE FALSE
    OBVIOUS
  <2>2. Min(Unseen) \in Unseen /\ \A p \in Unseen : Min(Unseen) <= p
    <3>1. Unseen \subseteq Nat
      BY <1>3
    <3> HIDE DEF Unseen
    <3>2. QED
      BY <2>1, <3>1, Least
  <2>3. PICK p \in B : p \in Unseen /\ \A q \in Unseen : p <= q
    BY <2>2
  <2>4. p # baseptr
    <3>1. 0 \in 0 .. MEM
      BY Cells
    <3>2. QED
      BY <1>2, <2>3, <3>1
  <2>5. PICK q \in B : End(h, q) = p
    BY <2>4, BlockBefore
  <2>6. q \in Nat /\ p \in Nat /\ q < p /\ p < MEM
    BY <1>3, <2>5, BlockRange
  <2>7. ~(p <= q)
    BY <2>6
  <2>8. PICK i \in 0 .. MEM : w[i] = q
    BY <2>3, <2>7
  <2>9. i + 1 <= q /\ q # NULL
    BY <1>3, <1>4, <2>8
  <2>10. i \in 0 .. MEM - 1 /\ i + 1 \in 0 .. MEM
    BY <2>6, <2>9, Cells
  <2>11. w[i + 1] = NEXT_BLKP(h, q)
    BY <1>2, <2>8, <2>9, <2>10
  <2>12. NEXT_BLKP(h, q) = p
    <3>1. p # MEM
      BY <2>6, Cells
    <3>2. NEXT_BLKP(h, q) = IF End(h, q) = MEM THEN NULL ELSE End(h, q)
      BY NextBlock
    <3>3. QED
      BY <2>5, <3>1, <3>2
  <2>13. QED
    BY <2>3, <2>10, <2>11, <2>12
<1>7. B \subseteq Blocks(h)
  BY <1>1, <1>3, <1>6
<1>8. QED
  BY <1>5, <1>7

-----------------------------------------------------------------------------
(* Splitting and joining blocks *)

SameEnds(h, g, S)  == \A r \in S : End(g, r) = End(h, r)
SameSizes(h, g, S) == \A r \in S : g.header[r].size = h.header[r].size

(* Blocks of the same sizes lie where they lay.                            *)
LEMMA SameTiles ==
  ASSUME NEW h, NEW B, Tiles(h, B), NEW g,
         \A p \in B : g.header[p].size = h.header[p].size
  PROVE  Tiles(g, B) /\ \A p \in B : End(g, p) = End(h, p)
BY DEF Tiles, End

(* A block becomes two, of which the first has n cells.                    *)
SplitAt(h, g, p, n, f) ==
  /\ n \in Nat /\ f = p + n /\ 0 < n /\ n < h.header[p].size
  /\ g.header[p].size = n /\ g.header[f].size = h.header[p].size - n

(* A block that is split in two leaves the heap tiled.                     *)
LEMMA SplitTiles ==
  ASSUME NEW h, HeapType(h), NEW B, Tiles(h, B), NEW p \in B,
         NEW n, NEW f, NEW g, SplitAt(h, g, p, n, f),
         SameSizes(h, g, B \ {p})
  PROVE  /\ Tiles(g, B \cup {f}) /\ f \in Cell /\ f \notin B
         /\ End(g, p) = f /\ End(g, f) = End(h, p)
         /\ SameEnds(h, g, B \ {p})
<1>0. /\ n \in Nat /\ f = p + n /\ 0 < n /\ n < h.header[p].size
      /\ g.header[p].size = n /\ g.header[f].size = h.header[p].size - n
  BY DEF SplitAt
<1> DEFINE e == End(h, p)
<1>1. /\ p \in Nat /\ 1 <= p /\ p < MEM /\ MEM \in Nat
      /\ h.header[p].size \in Nat /\ e \in Nat /\ e = p + h.header[p].size /\ e <= MEM
  BY BlockRange, Cells
<1>2. f \in Nat /\ p < f /\ f < e /\ f < MEM /\ 1 <= f
  <2>1. \A a, b, s, m \in Nat : 0 < b /\ b < s /\ a + s <= m /\ 1 <= a
          => a + b \in Nat /\ a < a + b /\ a + b < a + s /\ a + b < m /\ 1 <= a + b
    OBVIOUS
  <2>2. QED
    BY <1>0, <1>1, <2>1
<1>3. f \in Cell
  BY <1>2, Cells
<1>4. \A q \in B : q \in Nat /\ End(h, q) \in Nat /\ (p < q => e <= q) /\ (q < p => End(h, q) <= p)
  BY BlockRange DEF Tiles
<1>5. f \notin B
  BY <1>1, <1>2, <1>4
<1>6. End(g, p) = f /\ End(g, f) = e
  <2>1. \A a, b, s \in Nat : (a + b) + (s - b) = a + s
    OBVIOUS
  <2>2. QED
    BY <1>0, <1>1, <2>1 DEF End
<1>7. \A q \in B \ {p} : End(g, q) = End(h, q) /\ g.header[q].size = h.header[q].size
  BY DEF End, SameSizes
<1>8. g.header[f].size > 0 /\ g.header[p].size > 0
  BY <1>0, <1>1
<1>9. \A q \in B \cup {f} : g.header[q].size > 0 /\ End(g, q) \in B \cup {f} \cup {MEM}
  BY <1>5, <1>6, <1>7, <1>8 DEF Tiles
<1>10. ASSUME NEW q \in B \cup {f}, NEW r \in B \cup {f}, q < r PROVE End(g, q) <= r
  <2>1. CASE q = p
    <3>1. r \in B => f <= r
      BY <1>1, <1>2, <1>4, <1>10, <2>1
    <3>2. QED
      BY <1>2, <1>6, <2>1, <3>1
  <2>2. CASE q = f
    <3>1. r \in B
      BY <1>2, <1>10, <2>2
    <3>2. p < r
      BY <1>1, <1>2, <1>4, <1>10, <2>2, <3>1
    <3>3. QED
      BY <1>4, <1>6, <2>2, <3>1, <3>2
  <2>3. CASE q \in B \ {p} /\ r \in B
    BY <1>7, <1>10, <2>3 DEF Tiles
  <2>4. CASE q \in B \ {p} /\ r = f
    <3>1. q < p
      <4>1. \A a, b, c \in Nat : a < b /\ b < c => ~(c <= a)
        OBVIOUS
      <4>2. q \in Nat /\ q < f
        BY <1>4, <1>10, <2>4
      <4>3. ~(e <= q)
        BY <1>1, <1>2, <4>1, <4>2
      <4>4. ~(p < q) /\ q # p
        BY <1>4, <2>4, <4>3
      <4>5. QED
        BY <1>1, <4>2, <4>4
    <3>2. End(h, q) <= p /\ End(h, q) \in Nat
      BY <1>4, <2>4, <3>1
    <3>3. QED
      BY <1>1, <1>2, <1>7, <2>4, <3>2
  <2>5. QED
    BY <1>10, <2>1, <2>2, <2>3, <2>4
<1>11. Tiles(g, B \cup {f})
  BY <1>3, <1>9, <1>10 DEF Tiles
<1>12. QED
  BY <1>3, <1>5, <1>6, <1>7, <1>11 DEF SameEnds

(* Two blocks, one behind the other, become one.                           *)
SizeOfBoth(h, p, q) == h.header[p].size + h.header[q].size

(* So does a block that is joined with the one behind.                     *)
LEMMA JoinTiles ==
  ASSUME NEW h, HeapType(h), NEW B, Tiles(h, B), NEW p \in B, NEW q \in B, End(h, p) = q,
         NEW g, g.header[p].size = SizeOfBoth(h, p, q),
         SameSizes(h, g, B \ {p, q})
  PROVE  /\ Tiles(g, B \ {q}) /\ p < q
         /\ End(g, p) = End(h, q)
         /\ SameEnds(h, g, B \ {p, q})
         /\ SizeOfBoth(h, p, q) \in 0 .. MEM
<1> DEFINE e == End(h, q)
           sp == h.header[p].size
           sq == h.header[q].size
<1>1. /\ p \in Nat /\ q \in Nat /\ p < q /\ e \in Nat /\ q < e /\ e <= MEM /\ MEM \in Nat
      /\ sp \in Nat /\ sq \in Nat /\ sp > 0 /\ q = p + sp /\ e = q + sq
  BY BlockRange, Cells
<1>2. e = p + (sp + sq) /\ sp + sq \in Nat /\ sp + sq <= MEM /\ sp + sq > 0
  BY <1>1
<1>3. End(g, p) = e /\ g.header[p].size > 0
  BY <1>2 DEF End, SizeOfBoth
<1>4. \A r \in B \ {p, q} : End(g, r) = End(h, r) /\ g.header[r].size = h.header[r].size
  BY DEF End, SameSizes
<1>5. baseptr # q /\ baseptr \in B
  <2>1. 1 <= p
    BY BlockRange
  <2>2. QED
    BY <1>1, <2>1 DEF Tiles, baseptr
<1>6. \A r \in B \ {q} : g.header[r].size > 0 /\ End(g, r) \in (B \ {q}) \cup {MEM}
  <2>1. e \in B \cup {MEM} /\ e # q
    BY <1>1 DEF Tiles
  <2>2. \A r \in B \ {p, q} : End(h, r) \in B \cup {MEM} /\ End(h, r) # q /\ h.header[r].size > 0
    BY BlocksApart DEF Tiles
  <2>3. QED
    BY <1>3, <1>4, <2>1, <2>2
<1>7. ASSUME NEW r \in B \ {q}, NEW s \in B \ {q}, r < s PROVE End(g, r) <= s
  <2>1. CASE r = p
    <3>1. s \in Nat /\ q <= s /\ s # q
      BY <1>7, <2>1, BlockRange DEF Tiles
    <3>2. q < s
      BY <1>1, <3>1
    <3>3. e <= s
      BY <3>2 DEF Tiles
    <3>4. QED
      BY <1>3, <2>1, <3>3
  <2>2. CASE r # p
    BY <1>4, <1>7, <2>2 DEF Tiles
  <2>3. QED
    BY <2>1, <2>2
<1>8. Tiles(g, B \ {q})
  BY <1>5, <1>6, <1>7 DEF Tiles
<1>9. SizeOfBoth(h, p, q) \in 0 .. MEM
  BY <1>1, <1>2 DEF SizeOfBoth
<1>10. QED
  BY <1>1, <1>3, <1>4, <1>8, <1>9 DEF SameEnds

(* What Announce writes: the word of the block behind, or LASTPTR.         *)
Announced(h, g, next, p, size) ==
  /\ HeapType(g)
  /\ \A c \in Cell : /\ g.header[c].size = h.header[c].size
                     /\ g.header[c].alloc = h.header[c].alloc
                     /\ c # next => g.header[c].prev = h.header[c].prev
  /\ next # NULL => g.header[next].prev = size /\ g.last = h.last
  /\ next = NULL => g.last = p

(* Announce writes that and nothing else.                                  *)
LEMMA AnnounceEffect ==
  ASSUME NEW h, HeapType(h), NEW next \in Cell \cup {NULL}, NEW p \in Cell, NEW size \in 0 .. MEM,
         NEW g, g = Announce(h, next, p, size)
  PROVE  Announced(h, g, next, p, size)
<1>1. CASE next # NULL
  <2>1. g = [h EXCEPT !.header[next].prev = size] /\ next \in Cell
    BY <1>1 DEF Announce
  <2>2. /\ g.header = [h.header EXCEPT ![next] = [h.header[next] EXCEPT !.prev = size]]
        /\ g.last = h.last
    BY <2>1 DEF HeapType
  <2>3. [h.header[next] EXCEPT !.prev = size] \in Header
    BY <2>1 DEF HeapType, Header
  <2>4. HeapType(g)
    BY <2>1, <2>2, <2>3 DEF HeapType
  <2>5. ASSUME NEW c \in Cell
        PROVE  /\ g.header[c].size = h.header[c].size
               /\ g.header[c].alloc = h.header[c].alloc
               /\ c # next => g.header[c].prev = h.header[c].prev
    <3>1. h.header \in [Cell -> Header]
      BY DEF HeapType
    <3>2. h.header[c] \in Header
      BY <3>1
    <3>3. CASE c = next
      <4>1. g.header[c] = [h.header[c] EXCEPT !.prev = size]
        BY <2>2, <3>1, <3>3
      <4>2. QED
        BY <3>2, <3>3, <4>1 DEF Header
    <3>4. CASE c # next
      BY <2>2, <3>1, <3>4
    <3>5. QED
      BY <3>3, <3>4
  <2>6. g.header[next].prev = size
    BY <2>1, <2>2 DEF HeapType, Header
  <2>7. QED
    BY <1>1, <2>2, <2>4, <2>5, <2>6 DEF Announced
<1>2. CASE next = NULL
  <2>1. g = [h EXCEPT !.last = p]
    BY <1>2 DEF Announce
  <2>2. QED
    BY <1>2, <2>1, Cells DEF HeapType, Announced
<1>3. QED
  BY <1>1, <1>2

(* Writing the size and the bit of a block, and nothing else.              *)
Marked(h, p, size, bit) == [h EXCEPT !.header[p].size = size, !.header[p].alloc = bit]

(* What marking a block changes, and what it does not.                     *)
LEMMA MarkEffect ==
  ASSUME NEW h, HeapType(h), NEW p \in Cell, NEW size \in 0 .. MEM, NEW bit \in {0, 1},
         NEW g, g = Marked(h, p, size, bit)
  PROVE  /\ HeapType(g) /\ g.last = h.last
         /\ g.header[p].size = size /\ g.header[p].alloc = bit
         /\ \A c \in Cell : g.header[c].prev = h.header[c].prev
         /\ \A c \in Cell \ {p} : g.header[c] = h.header[c]
<1>1. g.header = [h.header EXCEPT ![p] = [h.header[p] EXCEPT !.size = size, !.alloc = bit]]
  BY DEF HeapType, Marked
<1>2. h.header[p] \in Header
  BY DEF HeapType
<1>3. [h.header[p] EXCEPT !.size = size, !.alloc = bit] \in Header
  BY <1>2 DEF Header
<1>4. HeapType(g) /\ g.last = h.last
  BY <1>1, <1>3 DEF HeapType, Marked
<1>5. QED
  BY <1>1, <1>2, <1>4 DEF HeapType, Header

-----------------------------------------------------------------------------
(* The calls on a heap *)

(* A heap at rest: blocks, and each has told its size.                     *)
AtRest(h, B) == HeapType(h) /\ Tiles(h, B) /\ AllTold(h, B)

(* Between calls NEXT_BLKP and the walk of malloc find the blocks.         *)
LEMMA RestNext ==
  ASSUME NEW h, NEW B, AtRest(h, B), NEW p \in B
  PROVE  /\ NEXT_BLKP(h, p) = IF End(h, p) = MEM THEN NULL ELSE End(h, p)
         /\ NEXT_BLKP(h, p) \in B \cup {NULL}
         /\ Blocks(h) = B
<1>1. \A q \in B : End(h, q) = MEM => h.last = q
  BY DEF AtRest, AllTold, Told
<1>2. NEXT_BLKP(h, p) = IF End(h, p) = MEM THEN NULL ELSE End(h, p)
  BY <1>1, NextBlock DEF AtRest
<1>3. End(h, p) \in B \cup {MEM}
  BY DEF AtRest, Tiles
<1>4. Blocks(h) = B
  BY <1>1, BlocksAreTiles DEF AtRest
<1>5. QED
  BY <1>2, <1>3, <1>4

(* A block whose end, size and word behind did not change has still told   *)
(* its size.                                                               *)
LEMMA StillTold ==
  ASSUME NEW h, NEW p, Told(h, p), NEW g,
         End(g, p) = End(h, p), g.header[p].size = h.header[p].size,
         End(h, p) = MEM => g.last = h.last,
         End(h, p) # MEM => g.header[End(h, p)].prev = h.header[End(h, p)].prev
  PROVE  Told(g, p)
BY DEF Told

(* Combine makes one free block of two, and the block behind is told.      *)
LEMMA CombineEffect ==
  ASSUME NEW h, NEW B, AtRest(h, B), NEW p \in B, NEW q \in B, End(h, p) = q,
         NEW g, g = Combine(h, p, q)
  PROVE  /\ AtRest(g, B \ {q}) /\ p < q /\ p \in B \ {q}
         /\ End(g, p) = End(h, q) /\ g.header[p].alloc = 0
         /\ \A r \in B \ {p, q} : /\ g.header[r].size = h.header[r].size
                                  /\ g.header[r].alloc = h.header[r].alloc
<1> DEFINE size == SizeOfBoth(h, p, q)
           next == NEXT_BLKP(h, q)
           m    == Marked(h, p, size, 0)
<1>1. HeapType(h) /\ Tiles(h, B) /\ AllTold(h, B)
  BY DEF AtRest
<1>2. B \subseteq Cell
  BY <1>1 DEF Tiles
<1>3. g = Announce(m, next, p, size)
  BY DEF Combine, Marked, SizeOfBoth
<1>4. /\ next = IF End(h, q) = MEM THEN NULL ELSE End(h, q)
      /\ next \in B \cup {NULL}
  BY RestNext
<1> HIDE DEF next
<1>5. size \in 0 .. MEM
  <2>1. /\ p \in Nat /\ q \in Nat /\ h.header[p].size \in Nat /\ h.header[q].size \in Nat
        /\ q = p + h.header[p].size /\ End(h, q) \in Nat /\ End(h, q) = q + h.header[q].size
        /\ End(h, q) <= MEM /\ MEM \in Nat
    BY <1>1, BlockRange, Cells
  <2>2. QED
    BY <2>1 DEF SizeOfBoth
<1>6. /\ HeapType(m) /\ m.last = h.last
      /\ m.header[p].size = size /\ m.header[p].alloc = 0
      /\ \A c \in Cell : m.header[c].prev = h.header[c].prev
      /\ \A c \in Cell \ {p} : m.header[c] = h.header[c]
  <2>1. p \in Cell /\ 0 \in {0, 1}
    BY <1>2
  <2>2. m = Marked(h, p, size, 0)
    OBVIOUS
  <2> HIDE DEF m, size
  <2>3. QED
    BY <1>1, <1>5, <2>1, <2>2, MarkEffect
<1> HIDE DEF m
<1>7. /\ HeapType(g)
      /\ \A c \in Cell : /\ g.header[c].size = m.header[c].size
                         /\ g.header[c].alloc = m.header[c].alloc
                         /\ c # next => g.header[c].prev = m.header[c].prev
      /\ next # NULL => g.header[next].prev = size /\ g.last = m.last
      /\ next = NULL => g.last = p
  <2>1. next \in Cell \cup {NULL} /\ p \in Cell
    BY <1>2, <1>4
  <2> HIDE DEF size
  <2>2. Announced(m, g, next, p, size)
    BY <1>3, <1>5, <1>6, <2>1, AnnounceEffect
  <2>3. QED
    BY <2>2 DEF Announced
<1>8. /\ g.header[p].size = size /\ g.header[p].alloc = 0
      /\ \A r \in B \ {p, q} : /\ g.header[r].size = h.header[r].size
                               /\ g.header[r].alloc = h.header[r].alloc
  BY <1>2, <1>6, <1>7
<1>9. /\ Tiles(g, B \ {q}) /\ p < q /\ End(g, p) = End(h, q)
      /\ \A r \in B \ {p, q} : End(g, r) = End(h, r)
  <2>1. g.header[p].size = SizeOfBoth(h, p, q)
    BY <1>8
  <2>2. SameSizes(h, g, B \ {p, q})
    BY <1>8 DEF SameSizes
  <2>3. Tiles(g, B \ {q}) /\ p < q /\ SameEnds(h, g, B \ {p, q})
    BY <1>1, <2>1, <2>2, JoinTiles
  <2>4. /\ p \in Nat /\ h.header[p].size \in Nat /\ q = p + h.header[p].size
        /\ h.header[q].size \in Nat /\ End(h, q) = q + h.header[q].size
    BY <1>1, BlockRange
  <2>5. End(g, p) = End(h, q)
    BY <2>1, <2>4 DEF End, SizeOfBoth
  <2>6. QED
    BY <2>3, <2>5 DEF SameEnds
<1> HIDE DEF size
<1>10. ASSUME NEW r \in B \ {q} PROVE Told(g, r)
  <2>1. CASE r = p
    <3>1. CASE End(h, q) = MEM
      BY <1>4, <1>7, <1>9, <2>1, <3>1 DEF Told
    <3>2. CASE End(h, q) # MEM
      <4>1. next = End(h, q) /\ next # NULL
        BY <1>1, <1>4, <3>2, BlockRange, Cells
      <4>2. QED
        BY <1>7, <1>8, <1>9, <2>1, <3>2, <4>1 DEF Told
    <3>3. QED
      BY <3>1, <3>2
  <2>2. CASE r # p
    <3>1. r \in B \ {p, q}
      BY <2>2
    <3>2. End(h, r) # End(h, q)
      BY <1>1, <3>1, BlocksApart
    <3>3. End(h, r) \in B \cup {MEM}
      BY <1>1 DEF Tiles
    <3>4. End(h, r) = MEM => g.last = h.last
      <4>1. ASSUME End(h, r) = MEM PROVE next # NULL
        <5>1. End(h, q) # MEM
          BY <3>2, <4>1
        <5>2. End(h, q) \in Nat
          BY <1>1, BlockRange
        <5>3. QED
          BY <1>4, <5>1, <5>2, Cells DEF NULL
      <4>2. QED
        BY <1>6, <1>7, <4>1
    <3>5. End(h, r) # MEM => g.header[End(h, r)].prev = h.header[End(h, r)].prev
      <4>1. ASSUME End(h, r) # MEM PROVE End(h, r) \in Cell /\ End(h, r) # next
        <5>1. End(h, r) \in Cell
          BY <1>2, <3>3, <4>1
        <5>2. QED
          BY <1>4, <3>2, <5>1, Cells
      <4>2. QED
        BY <1>6, <1>7, <4>1
    <3>6. Told(h, r)
      BY <1>1 DEF AllTold
    <3>7. QED
      BY <1>8, <1>9, <3>1, <3>4, <3>5, <3>6, StillTold
  <2>3. QED
    BY <2>1, <2>2
<1>11. AtRest(g, B \ {q})
  BY <1>7, <1>9, <1>10 DEF AtRest, AllTold
<1>12. p \in B \ {q}
  <2>1. p \in Nat
    BY <1>1, BlockRange
  <2>2. QED
    BY <1>9, <2>1
<1>13. QED
  BY <1>8, <1>9, <1>11, <1>12

(* Setting a block's bit leaves the blocks as they are.                    *)
LEMMA MarkedAtRest ==
  ASSUME NEW h, NEW B, AtRest(h, B), NEW p \in B, NEW bit \in {0, 1},
         NEW s, s = h.header[p].size, NEW g, g = Marked(h, p, s, bit)
  PROVE  /\ AtRest(g, B) /\ g.header[p].alloc = bit
         /\ \A r \in B : g.header[r].size = h.header[r].size /\ End(g, r) = End(h, r)
         /\ \A r \in B \ {p} : g.header[r].alloc = h.header[r].alloc
<1>1. HeapType(h) /\ Tiles(h, B) /\ AllTold(h, B) /\ B \subseteq Cell
  BY DEF AtRest, Tiles
<1>2. h.header[p].size \in 0 .. MEM
  BY <1>1 DEF HeapType, Header
<1>3. /\ HeapType(g) /\ g.last = h.last
      /\ g.header[p].size = h.header[p].size /\ g.header[p].alloc = bit
      /\ \A c \in Cell : g.header[c].prev = h.header[c].prev
      /\ \A c \in Cell \ {p} : g.header[c] = h.header[c]
  <2> DEFINE size == h.header[p].size
  <2>1. p \in Cell /\ size \in 0 .. MEM /\ g = Marked(h, p, size, bit)
    BY <1>1, <1>2
  <2> HIDE DEF size
  <2>2. /\ HeapType(g) /\ g.last = h.last
        /\ g.header[p].size = size /\ g.header[p].alloc = bit
        /\ \A c \in Cell : g.header[c].prev = h.header[c].prev
        /\ \A c \in Cell \ {p} : g.header[c] = h.header[c]
    BY <1>1, <2>1, MarkEffect
  <2>3. QED
    BY <2>2 DEF size
<1>4. \A r \in B : g.header[r].size = h.header[r].size
  BY <1>1, <1>3
<1>5. Tiles(g, B) /\ \A r \in B : End(g, r) = End(h, r)
  <2>1. Tiles(h, B)
    BY <1>1
  <2>2. QED
    BY <1>4, <2>1, SameTiles
<1>6. \A r \in B : End(h, r) # MEM => End(h, r) \in Cell
  BY <1>1 DEF Tiles
<1>7. AllTold(g, B)
  BY <1>1, <1>3, <1>4, <1>5, <1>6, StillTold DEF AllTold
<1>8. QED
  BY <1>1, <1>3, <1>4, <1>5, <1>7 DEF AtRest

-----------------------------------------------------------------------------
(* free *)

Taken(h, p)  == h.header[p].alloc = 1

(* The block behind p is not free.                                         *)
Bounded(h, p) == End(h, p) = MEM \/ Taken(h, End(h, p))

(* No two free blocks are neighbours, but perhaps p and the one before it. *)
CoalescedBut(h, B, p) == \A q \in B : Taken(h, q) \/ Bounded(h, q) \/ End(h, q) = p

(* The blocks taken in h are those taken in g, with their sizes, except p. *)
SameTakenBut(h, B, g, C, p) ==
  /\ \A q \in C : Taken(g, q) /\ q # p => q \in B /\ Taken(h, q)
  /\ \A q \in B : Taken(h, q) /\ q # p => /\ q \in C /\ Taken(g, q)
                                          /\ g.header[q].size = h.header[q].size

(* The blocks of a heap are in the buffer, one behind the other.           *)
LEMMA RestEnds ==
  ASSUME NEW h, NEW B, AtRest(h, B), NEW p \in B
  PROVE  /\ p \in Cell /\ p \in Nat /\ End(h, p) \in Nat /\ p < End(h, p)
         /\ End(h, p) \in B \/ End(h, p) = MEM
         /\ \A q \in B : End(h, q) = End(h, p) => q = p
         /\ h.header[p].alloc \in {0, 1}
         /\ h.header[p].size \in Nat /\ End(h, p) = p + h.header[p].size
         /\ MEM \notin B /\ NULL \notin B
<1>1. HeapType(h) /\ Tiles(h, B) /\ B \subseteq Cell
  BY DEF AtRest, Tiles
<1>2. /\ p \in Nat /\ End(h, p) \in Nat /\ p < End(h, p)
      /\ h.header[p].size \in Nat /\ End(h, p) = p + h.header[p].size
  BY <1>1, BlockRange
<1>3. End(h, p) \in B \/ End(h, p) = MEM
  BY <1>1 DEF Tiles
<1>4. \A q \in B : End(h, q) = End(h, p) => q = p
  BY <1>1, BlocksApart
<1>5. h.header[p].alloc \in {0, 1}
  BY <1>1 DEF HeapType, Header
<1>6. MEM \notin B /\ NULL \notin B
  <2>1. ASSUME MEM \in Cell PROVE FALSE
    <3>1. MEM \in Nat /\ MEM < MEM
      BY <2>1, Cells
    <3>2. QED
      BY <3>1
  <2>2. NULL \notin B
    BY <1>1, Cells
  <2>3. QED
    BY <1>1, <2>1, <2>2
<1>7. QED
  BY <1>1, <1>2, <1>3, <1>4, <1>5, <1>6

(* The first half of free: p is free, joined with a free block behind.     *)
LEMMA WithNextEffect ==
  ASSUME NEW h, NEW B, AtRest(h, B), CoalescedBut(h, B, MEM), NEW p \in B, Taken(h, p),
         NEW g, g = WithNext(h, p)
  PROVE  \E C : /\ AtRest(g, C) /\ p \in C /\ C \subseteq B
                /\ g.header[p].alloc = 0 /\ Bounded(g, p)
                /\ CoalescedBut(g, C, p) /\ SameTakenBut(h, B, g, C, p)
<1> DEFINE next == NEXT_BLKP(h, p)
<1>1. next = (IF End(h, p) = MEM THEN NULL ELSE End(h, p)) /\ next \in B \cup {NULL}
  BY RestNext
<1>2. CASE IsFree(h, next)
  <2>1. next \in B /\ next = End(h, p) /\ h.header[next].alloc = 0 /\ next # p
    <3>1. End(h, p) # p
      BY RestEnds
    <3>2. QED
      BY <1>1, <1>2, <3>1 DEF IsFree
  <2>2. g = Combine(h, p, next)
    BY <1>2 DEF WithNext
  <2> DEFINE C == B \ {next}
  <2> HIDE DEF next
  <2>3. /\ AtRest(g, C) /\ p < next /\ p \in C
        /\ End(g, p) = End(h, next) /\ g.header[p].alloc = 0
        /\ \A r \in B \ {p, next} : /\ g.header[r].size = h.header[r].size
                                    /\ g.header[r].alloc = h.header[r].alloc
    BY <2>1, <2>2, CombineEffect
  <2>4. End(h, next) \in (B \ {p, next}) \cup {MEM}
    BY <2>1, <2>3, RestEnds
  <2>5. Bounded(h, next)
    <3>1. End(h, next) # MEM \/ Bounded(h, next)
      BY DEF Bounded
    <3>2. ~Taken(h, next)
      BY <2>1 DEF Taken
    <3>3. QED
      BY <2>1, <3>1, <3>2 DEF CoalescedBut
  <2>6. Bounded(g, p)
    <3>1. CASE End(h, next) = MEM
      BY <2>3, <3>1 DEF Bounded
    <3>2. CASE End(h, next) # MEM
      <4>1. Taken(h, End(h, next)) /\ End(h, next) \in B \ {p, next}
        BY <2>4, <2>5, <3>2 DEF Bounded
      <4>2. Taken(g, End(h, next))
        BY <2>3, <4>1 DEF Taken
      <4>3. QED
        BY <2>3, <4>2 DEF Bounded
    <3>3. QED
      BY <3>1, <3>2
  <2>7. ASSUME NEW q \in C PROVE Taken(g, q) \/ Bounded(g, q) \/ End(g, q) = p
    <3>1. CASE q = p
      BY <2>6, <3>1
    <3>2. CASE q # p /\ ~Taken(h, q)
      <4>1. (q \in B \ {p, next} /\ End(h, q) # MEM) \/ Bounded(g, q)
        <5>1. q \in B \ {p, next}
          BY <3>2
        <5>2. End(g, q) = End(h, q)
          BY <2>3, <5>1 DEF End
        <5>3. QED
          BY <5>1, <5>2 DEF Bounded
      <4>2. SUFFICES ASSUME q \in B \ {p, next}, End(h, q) # MEM
                     PROVE  Bounded(g, q) \/ End(g, q) = p
        BY <4>1
      <4>3. End(g, q) = End(h, q)
        BY <2>3, <4>2 DEF End
      <4>4. Taken(h, End(h, q))
        BY <3>2, <4>2 DEF CoalescedBut, Bounded
      <4>5. End(h, q) \in B /\ End(h, q) # next
        BY <2>1, <4>2, <4>4, RestEnds DEF Taken
      <4>6. CASE End(h, q) # p
        <5>1. Taken(g, End(h, q))
          BY <2>3, <4>4, <4>5, <4>6 DEF Taken
        <5>2. QED
          BY <4>3, <5>1 DEF Bounded
      <4>7. QED
        BY <4>3, <4>6
    <3>3. CASE q # p /\ Taken(h, q)
      BY <2>3, <3>3 DEF Taken
    <3>4. QED
      BY <3>1, <3>2, <3>3
  <2>8. SameTakenBut(h, B, g, C, p)
    <3>1. ASSUME NEW q \in C, Taken(g, q), q # p PROVE q \in B /\ Taken(h, q)
      BY <2>3, <3>1 DEF Taken
    <3>2. ASSUME NEW q \in B, Taken(h, q), q # p
          PROVE  q \in C /\ Taken(g, q) /\ g.header[q].size = h.header[q].size
      BY <2>1, <2>3, <3>2 DEF Taken
    <3>3. QED
      BY <3>1, <3>2 DEF SameTakenBut
  <2>9. QED
    BY <2>3, <2>6, <2>7, <2>8 DEF CoalescedBut
<1>3. CASE ~IsFree(h, next)
  <2> DEFINE size == h.header[p].size
  <2>1. g = Marked(h, p, size, 0)
    <3>1. g = [h EXCEPT !.header[p].alloc = 0]
      BY <1>3 DEF WithNext
    <3>2. h.header \in [Cell -> Header] /\ p \in Cell
      BY DEF AtRest, HeapType, Tiles
    <3>3. [h EXCEPT !.header[p].alloc = 0] =
            [h EXCEPT !.header[p].size = h.header[p].size, !.header[p].alloc = 0]
      BY <3>2 DEF Header, AtRest, HeapType
    <3>4. QED
      BY <3>1, <3>3 DEF Marked
  <2> HIDE DEF size
  <2>2. /\ AtRest(g, B) /\ g.header[p].alloc = 0
        /\ \A r \in B : g.header[r].size = h.header[r].size /\ End(g, r) = End(h, r)
        /\ \A r \in B \ {p} : g.header[r].alloc = h.header[r].alloc
    <3>1. size = h.header[p].size /\ 0 \in {0, 1}
      BY DEF size
    <3>2. QED
      BY <2>1, <3>1, MarkedAtRest
  <2>3. Bounded(g, p)
    <3>1. CASE End(h, p) = MEM
      BY <2>2, <3>1 DEF Bounded
    <3>2. CASE End(h, p) # MEM
      <4>1. End(h, p) \in B /\ next = End(h, p) /\ End(h, p) # p /\ next # NULL
        BY <1>1, <3>2, RestEnds
      <4>2. h.header[End(h, p)].alloc = 1
        BY <1>3, <4>1, RestEnds DEF IsFree
      <4>3. Taken(g, End(h, p))
        BY <2>2, <4>1, <4>2 DEF Taken
      <4>4. QED
        BY <2>2, <4>3 DEF Bounded
    <3>3. QED
      BY <3>1, <3>2
  <2>4. ASSUME NEW q \in B PROVE Taken(g, q) \/ Bounded(g, q) \/ End(g, q) = p
    <3>1. CASE q # p /\ ~Taken(h, q) /\ End(h, q) # MEM
      <4>1. Taken(h, End(h, q)) /\ End(h, q) \in B
        BY <3>1, RestEnds DEF CoalescedBut, Bounded
      <4>2. End(h, q) # p => Taken(g, End(h, q))
        BY <2>2, <4>1 DEF Taken
      <4>3. QED
        BY <2>2, <4>2 DEF Bounded
    <3>2. CASE q # p /\ Taken(h, q)
      BY <2>2, <3>2 DEF Taken
    <3>3. CASE End(h, q) = MEM
      BY <2>2, <3>3 DEF Bounded
    <3>4. QED
      BY <2>3, <3>1, <3>2, <3>3
  <2>5. SameTakenBut(h, B, g, B, p)
    BY <2>2 DEF SameTakenBut, Taken
  <2>6. QED
    BY <2>2, <2>3, <2>4, <2>5 DEF CoalescedBut
<1>4. QED
  BY <1>2, <1>3

(* The second half: p is joined with a free block before it.               *)
LEMMA WithPrevEffect ==
  ASSUME NEW h, NEW B, AtRest(h, B), NEW p \in B, h.header[p].alloc = 0, Bounded(h, p),
         CoalescedBut(h, B, p), NEW g, g = WithPrev(h, p)
  PROVE  \E C : /\ AtRest(g, C) /\ C \subseteq B
                /\ CoalescedBut(g, C, MEM) /\ SameTakenBut(h, B, g, C, p)
                /\ p \in C => ~Taken(g, p)
<1> DEFINE prev == PREV_BLKP(h, p)
<1>0. HeapType(h) /\ Tiles(h, B) /\ AllTold(h, B)
  BY DEF AtRest
<1>1. IF p = baseptr THEN prev = NULL ELSE prev \in B /\ prev < p /\ End(h, prev) = p
  BY <1>0, PrevBlock
<1>2. CASE ~IsFree(h, prev)
  <2>1. g = h
    BY <1>2 DEF WithPrev
  <2>2. ASSUME NEW q \in B PROVE Taken(h, q) \/ Bounded(h, q) \/ End(h, q) = MEM
    <3>1. CASE End(h, q) = p
      <4>1. p # baseptr
        <5>1. q \in Nat /\ 1 <= q /\ q < End(h, q) /\ End(h, q) \in Nat
          BY <1>0, BlockRange
        <5>2. QED
          BY <3>1, <5>1 DEF baseptr
      <4>2. q = prev /\ q # NULL
        BY <1>1, <3>1, <4>1, RestEnds
      <4>3. h.header[q].alloc = 1
        BY <1>2, <4>2, RestEnds DEF IsFree
      <4>4. QED
        BY <4>3 DEF Taken
    <3>2. QED
      BY <3>1 DEF CoalescedBut
  <2>3. SameTakenBut(h, B, h, B, p)
    BY DEF SameTakenBut
  <2>4. ~Taken(h, p)
    BY DEF Taken
  <2>5. QED
    BY <2>1, <2>2, <2>3, <2>4 DEF CoalescedBut
<1>3. CASE IsFree(h, prev)
  <2>1. prev \in B /\ End(h, prev) = p /\ h.header[prev].alloc = 0 /\ prev # p
    <3>1. prev # NULL /\ h.header[prev].alloc = 0
      BY <1>3 DEF IsFree
    <3>2. prev \in B /\ End(h, prev) = p
      BY <1>1, <3>1
    <3>3. prev # p
      BY <3>2, RestEnds
    <3>4. QED
      BY <3>1, <3>2, <3>3
  <2>2. g = Combine(h, prev, p)
    BY <1>3 DEF WithPrev
  <2> DEFINE C == B \ {p}
  <2> HIDE DEF prev
  <2>3. /\ AtRest(g, C) /\ prev \in C
        /\ End(g, prev) = End(h, p) /\ g.header[prev].alloc = 0
        /\ \A r \in B \ {prev, p} : /\ g.header[r].size = h.header[r].size
                                    /\ g.header[r].alloc = h.header[r].alloc
    BY <2>1, <2>2, CombineEffect
  <2>4. Bounded(g, prev)
    <3>1. CASE End(h, p) = MEM
      BY <2>3, <3>1 DEF Bounded
    <3>2. CASE End(h, p) # MEM
      <4>1. Taken(h, End(h, p)) /\ End(h, p) \in B
        BY <3>2, RestEnds DEF Bounded
      <4>2. End(h, p) # prev /\ End(h, p) # p
        BY <2>1, <4>1 DEF Taken
      <4>3. Taken(g, End(h, p))
        BY <2>3, <4>1, <4>2 DEF Taken
      <4>4. QED
        BY <2>3, <4>3 DEF Bounded
    <3>3. QED
      BY <3>1, <3>2
  <2>5. ASSUME NEW q \in C PROVE Taken(g, q) \/ Bounded(g, q) \/ End(g, q) = MEM
    <3>1. CASE q = prev
      BY <2>4, <3>1
    <3>2. CASE q # prev /\ ~Taken(h, q) /\ End(h, q) # MEM
      <4>1. q \in B \ {prev, p}
        BY <3>2
      <4>2. End(g, q) = End(h, q)
        BY <2>3, <4>1 DEF End
      <4>3. End(h, q) # p
        BY <2>1, <3>2, RestEnds
      <4>4. Taken(h, End(h, q)) /\ End(h, q) \in B
        BY <3>2, <4>3, RestEnds DEF CoalescedBut, Bounded
      <4>5. End(h, q) # prev
        BY <2>1, <4>4 DEF Taken
      <4>6. Taken(g, End(h, q))
        BY <2>3, <4>3, <4>4, <4>5 DEF Taken
      <4>7. QED
        BY <4>2, <4>6 DEF Bounded
    <3>3. CASE q # prev /\ Taken(h, q)
      BY <2>3, <3>3 DEF Taken
    <3>4. CASE q # prev /\ End(h, q) = MEM
      <4>1. End(g, q) = End(h, q)
        BY <2>3, <3>4 DEF End
      <4>2. QED
        BY <3>4, <4>1
    <3>5. QED
      BY <3>1, <3>2, <3>3, <3>4
  <2>6. SameTakenBut(h, B, g, C, p)
    <3>1. ASSUME NEW q \in C, Taken(g, q), q # p PROVE q \in B /\ Taken(h, q)
      BY <2>3, <3>1 DEF Taken
    <3>2. ASSUME NEW q \in B, Taken(h, q), q # p
          PROVE  q \in C /\ Taken(g, q) /\ g.header[q].size = h.header[q].size
      BY <2>1, <2>3, <3>2 DEF Taken
    <3>3. QED
      BY <3>1, <3>2 DEF SameTakenBut
  <2>7. QED
    BY <2>3, <2>5, <2>6 DEF CoalescedBut
<1>4. QED
  BY <1>2, <1>3

-----------------------------------------------------------------------------
(* malloc *)

(* The two headers that a split writes.                                    *)
Rest(h, p, n) == [size |-> h.header[p].size - n, alloc |-> 0, prev |-> n]
Split(h, p, n, f) == [h EXCEPT !.header[p].size = n, !.header[p].alloc = 1,
                               !.header[f] = Rest(h, p, n)]

(* A split makes a taken block and a free one of a block, and leaves the   *)
(* other headers and LASTPTR as they were.                                 *)
LEMMA SplitEffect ==
  ASSUME NEW h, HeapType(h), NEW p \in Cell, NEW n \in 1 .. MEM, Rest(h, p, n) \in Header,
         NEW f \in Cell, f # p, NEW g, g = Split(h, p, n, f)
  PROVE  /\ HeapType(g) /\ g.last = h.last
         /\ g.header[p].size = n /\ g.header[p].alloc = 1
         /\ g.header[p].prev = h.header[p].prev
         /\ g.header[f] = Rest(h, p, n)
         /\ \A c \in Cell \ {p, f} : g.header[c] = h.header[c]
<1>1. n \in 0 .. MEM
  BY Cells
<1> DEFINE first == [h.header[p] EXCEPT !.size = n, !.alloc = 1]
           rest  == Rest(h, p, n)
<1>2. h.header \in [Cell -> Header] /\ h.header[p] \in Header
  BY DEF HeapType
<1>3. first \in Header
  BY <1>1, <1>2 DEF Header
<1>4. first.size = n /\ first.alloc = 1 /\ first.prev = h.header[p].prev
  BY <1>2 DEF Header
<1>5. rest \in Header
  OBVIOUS
<1>6. g.header = [h.header EXCEPT ![p] = first, ![f] = rest] /\ g.last = h.last
  BY DEF HeapType, Split
<1>7. g = [h EXCEPT !.header = g.header]
  BY <1>6 DEF HeapType, Split
<1> HIDE DEF first, rest
<1>8. g.header \in [Cell -> Header]
  BY <1>2, <1>3, <1>5, <1>6
<1>9. HeapType(g)
  BY <1>7, <1>8 DEF HeapType
<1>10. g.header[p] = first /\ g.header[f] = rest /\ \A c \in Cell \ {p, f} : g.header[c] = h.header[c]
  BY <1>2, <1>6
<1>11. QED
  BY <1>4, <1>6, <1>9, <1>10 DEF rest

(* What malloc does to the free block p: it is taken whole, or its end     *)
(* stays a free block; the blocks behind and before know.                  *)
LEMMA PlacedEffect ==
  ASSUME NEW h, NEW B, AtRest(h, B), CoalescedBut(h, B, MEM), NEW p \in B, ~Taken(h, p),
         NEW n \in Nat, 1 < n, n <= h.header[p].size,
         NEW g, g = Placed(h, p, n)
  PROVE  \E C : /\ AtRest(g, C) /\ B \subseteq C /\ Taken(g, p)
                /\ g.header[p].size >= n
                /\ CoalescedBut(g, C, MEM) /\ SameTakenBut(h, B, g, C, p)
<1> DEFINE s    == h.header[p].size
           f    == p + n
           next == NEXT_BLKP(h, p)
<1>1. HeapType(h) /\ Tiles(h, B) /\ AllTold(h, B) /\ B \subseteq Cell
  BY DEF AtRest, Tiles
<1>2. /\ s \in Nat /\ s \in 0 .. MEM /\ p \in Cell /\ p \in Nat /\ MEM \in Nat
      /\ End(h, p) = p + s /\ End(h, p) <= MEM
  BY <1>1, BlockRange, Cells DEF HeapType, Header
<1>3. \A q \in B : Taken(h, q) \/ Bounded(h, q)
  <2>1. \A q \in B : End(h, q) = MEM => Bounded(h, q)
    BY DEF Bounded
  <2>2. QED
    BY <2>1 DEF CoalescedBut
<1>4. CASE s - n <= DSIZE
  <2>1. g = Marked(h, p, s, 1)
    <3>1. g = [h EXCEPT !.header[p].alloc = 1]
      BY <1>4 DEF Placed
    <3>2. h.header \in [Cell -> Header]
      BY <1>1 DEF HeapType
    <3>3. [h EXCEPT !.header[p].alloc = 1] =
            [h EXCEPT !.header[p].size = h.header[p].size, !.header[p].alloc = 1]
      BY <1>1, <1>2, <3>2 DEF Header, HeapType
    <3>4. QED
      BY <3>1, <3>3 DEF Marked
  <2>2. /\ AtRest(g, B) /\ g.header[p].alloc = 1
        /\ \A r \in B : g.header[r].size = h.header[r].size /\ End(g, r) = End(h, r)
        /\ \A r \in B \ {p} : g.header[r].alloc = h.header[r].alloc
    <3>1. s = h.header[p].size /\ 1 \in {0, 1}
      OBVIOUS
    <3> HIDE DEF s
    <3>2. QED
      BY <2>1, <3>1, MarkedAtRest
  <2>3. Taken(g, p) /\ \A q \in B : Taken(h, q) => Taken(g, q)
    BY <2>2 DEF Taken
  <2>4. ASSUME NEW q \in B PROVE Taken(g, q) \/ Bounded(g, q)
    <3>1. CASE Taken(h, q)
      BY <2>3, <3>1
    <3>2. CASE End(h, q) = MEM
      BY <2>2, <3>2 DEF Bounded
    <3>3. CASE End(h, q) # MEM /\ Taken(h, End(h, q))
      <4>1. Taken(g, End(h, q))
        BY <2>3, <3>3, RestEnds
      <4>2. QED
        BY <2>2, <4>1 DEF Bounded
    <3>4. QED
      BY <1>3, <3>1, <3>2, <3>3 DEF Bounded
  <2>5. SameTakenBut(h, B, g, B, p)
    BY <2>2 DEF SameTakenBut, Taken
  <2>6. g.header[p].size >= n
    BY <1>2, <2>2
  <2>7. QED
    BY <2>2, <2>3, <2>4, <2>5, <2>6 DEF CoalescedBut
<1>5. CASE ~(s - n <= DSIZE)
  <2> DEFINE d == Split(h, p, n, f)
             C == B \cup {f}
  <2>1. n < s /\ n \in 1 .. MEM /\ s - n \in 0 .. MEM /\ 0 < n
    BY <1>2, <1>5 DEF DSIZE
  <2>2. g = Announce(d, next, f, s - n)
    BY <1>5 DEF Placed, Split, Rest
  <2>3. f \in Cell /\ f # p /\ f \in Nat
    <3>1. \A a, b, t, m \in Nat : 0 < b /\ b < t /\ a + t <= m => a + b \in Nat /\ a < a + b /\ a + b < m
      OBVIOUS
    <3>2. f \in Nat /\ p < f /\ f < MEM
      BY <1>2, <2>1, <3>1
    <3>3. 1 <= p
      BY <1>2, Cells
    <3>4. QED
      BY <1>2, <3>2, <3>3, Cells
  <2>4. /\ HeapType(d) /\ d.last = h.last
        /\ d.header[p].size = n /\ d.header[p].alloc = 1
        /\ d.header[f].size = s - n /\ d.header[f].alloc = 0 /\ d.header[f].prev = n
        /\ \A c \in Cell \ {p, f} : d.header[c] = h.header[c]
    <3>1. /\ HeapType(d) /\ d.last = h.last
          /\ d.header[p].size = n /\ d.header[p].alloc = 1
          /\ d.header[f] = Rest(h, p, n)
          /\ \A c \in Cell \ {p, f} : d.header[c] = h.header[c]
      <4>1. Rest(h, p, n) \in Header
        <5>1. n \in 0 .. MEM
          BY <2>1, <1>2
        <5>2. QED
          BY <2>1, <5>1 DEF Rest, Header
      <4> HIDE DEF f, d
      <4>2. d = Split(h, p, n, f)
        BY DEF d
      <4>3. QED
        BY <1>1, <1>2, <2>1, <2>3, <4>1, <4>2, SplitEffect
    <3> HIDE DEF d
    <3>2. QED
      BY <3>1 DEF Rest
  <2>5. next = (IF End(h, p) = MEM THEN NULL ELSE End(h, p)) /\ next \in B \cup {NULL}
    BY RestNext
  <2> HIDE DEF d, next
  <2>6. /\ HeapType(g)
        /\ \A c \in Cell : /\ g.header[c].size = d.header[c].size
                           /\ g.header[c].alloc = d.header[c].alloc
                           /\ c # next => g.header[c].prev = d.header[c].prev
        /\ next # NULL => g.header[next].prev = s - n /\ g.last = h.last
        /\ next = NULL => g.last = f
    <3>1. next \in Cell \cup {NULL}
      BY <1>1, <2>5
    <3> DEFINE size == s - n
    <3>2. size \in 0 .. MEM /\ g = Announce(d, next, f, size)
      BY <2>1, <2>2
    <3> HIDE DEF size, f
    <3>3. /\ HeapType(g)
          /\ \A c \in Cell : /\ g.header[c].size = d.header[c].size
                             /\ g.header[c].alloc = d.header[c].alloc
                             /\ c # next => g.header[c].prev = d.header[c].prev
          /\ next # NULL => g.header[next].prev = size /\ g.last = d.last
          /\ next = NULL => g.last = f
      <4>1. /\ HeapType(d) /\ next \in Cell \cup {NULL} /\ f \in Cell /\ size \in 0 .. MEM
            /\ g = Announce(d, next, f, size)
        BY <2>3, <2>4, <3>1, <3>2
      <4>2. Announced(d, g, next, f, size)
        BY <4>1, AnnounceEffect
      <4>3. QED
        BY <4>2 DEF Announced
    <3>4. QED
      BY <2>4, <3>3 DEF size
  <2>7. /\ Tiles(g, C) /\ f \notin B
        /\ End(g, p) = f /\ End(g, f) = End(h, p)
        /\ SameEnds(h, g, B \ {p})
    <3>1. g.header[p].size = n /\ g.header[f].size = s - n
      BY <1>2, <2>3, <2>4, <2>6
    <3>3. /\ f \notin B
      <4>1. \A q \in B : q # p => ~(p <= q /\ q < End(h, p))
        BY <1>1, BlocksApart
      <4>2. p <= f /\ f < End(h, p)
        BY <1>2, <2>1
      <4>3. QED
        BY <2>3, <4>1, <4>2
    <3>4. SameSizes(h, g, B \ {p})
      <4>1. \A r \in B \ {p} : r \in Cell \ {p, f}
        BY <1>1, <3>3
      <4>2. QED
        BY <2>4, <2>6, <4>1 DEF SameSizes
    <3>5. SplitAt(h, g, p, n, f)
      BY <2>1, <3>1 DEF SplitAt
    <3> HIDE DEF f
    <3>6. QED
      BY <1>1, <3>4, <3>5, SplitTiles
  <2>8. f # MEM /\ f # NULL /\ f # next
    <3>1. f # MEM /\ f # NULL
      <4>1. f < MEM /\ MEM \in Nat
        BY <2>3, Cells
      <4>2. QED
        BY <2>3, <4>1, Cells
    <3>2. QED
      BY <2>5, <2>7, <3>1
  <2> HIDE DEF f
  <2>9. \A r \in B \ {p} : /\ End(g, r) = End(h, r) /\ g.header[r].size = h.header[r].size
                           /\ g.header[r].alloc = h.header[r].alloc
    <3>1. \A r \in B \ {p} : r \in Cell \ {p, f}
      BY <1>1, <2>7
    <3>2. QED
      BY <2>4, <2>6, <2>7, <3>1 DEF SameEnds
  <2>10. /\ g.header[p].size = n /\ g.header[p].alloc = 1
         /\ g.header[f].size = s - n /\ g.header[f].alloc = 0
         /\ g.header[f].prev = n
    BY <1>2, <2>3, <2>4, <2>6, <2>8
  <2>11. ASSUME NEW r \in C PROVE Told(g, r)
    <3>1. CASE r = p
      BY <2>7, <2>8, <2>10, <3>1 DEF Told
    <3>2. CASE r = f
      <4>1. CASE End(h, p) = MEM
        BY <2>5, <2>6, <2>7, <3>2, <4>1 DEF Told
      <4>2. CASE End(h, p) # MEM
        <5>1. next = End(h, p) /\ next # NULL
          BY <1>2, <2>5, <4>2, RestEnds
        <5>2. QED
          BY <2>6, <2>7, <2>10, <3>2, <4>2, <5>1 DEF Told
      <4>3. QED
        BY <4>1, <4>2
    <3>3. CASE r \in B \ {p}
      <4>1. End(h, r) # End(h, p)
        BY <1>1, <3>3, BlocksApart
      <4>2. End(h, r) \in B \/ End(h, r) = MEM
        BY <3>3, RestEnds
      <4>3. End(h, r) = MEM => g.last = h.last
        <5>1. ASSUME End(h, r) = MEM PROVE next # NULL
          <6>1. End(h, p) # MEM
            BY <4>1, <5>1
          <6>2. End(h, p) # NULL
            BY RestEnds, <6>1
          <6>3. QED
            BY <2>5, <6>1, <6>2
        <5>2. QED
          BY <2>6, <5>1
      <4>4. End(h, r) # MEM => g.header[End(h, r)].prev = h.header[End(h, r)].prev
        <5>1. SUFFICES ASSUME End(h, r) # MEM
                       PROVE  g.header[End(h, r)].prev = h.header[End(h, r)].prev
          OBVIOUS
        <5>2. End(h, r) \in B /\ End(h, r) \in Cell /\ End(h, r) # f
          BY <1>1, <2>7, <4>2, <5>1
        <5>3. End(h, r) # next
          BY <1>1, <2>5, <4>1, <5>2, Cells
        <5>4. g.header[End(h, r)].prev = d.header[End(h, r)].prev
          BY <2>6, <5>2, <5>3
        <5>5. CASE End(h, r) # p
          BY <2>4, <5>2, <5>4, <5>5
        <5>6. CASE End(h, r) = p
          <6>1. d.header[p].prev = h.header[p].prev
            <7>1. Rest(h, p, n) \in Header
              <8>1. n \in 0 .. MEM
                BY <2>1, <1>2
              <8>2. QED
                BY <2>1, <8>1 DEF Rest, Header
            <7>2. d = Split(h, p, n, f)
              BY DEF d
            <7>3. QED
              BY <1>1, <1>2, <2>1, <2>3, <7>1, <7>2, SplitEffect
          <6>2. QED
            BY <5>4, <5>6, <6>1
        <5>7. QED
          BY <5>5, <5>6
      <4>5. Told(h, r)
        BY <1>1, <3>3 DEF AllTold
      <4>6. QED
        BY <2>9, <3>3, <4>3, <4>4, <4>5, StillTold
    <3>4. QED
      BY <3>1, <3>2, <3>3
  <2>12. AtRest(g, C)
    BY <2>6, <2>7, <2>11 DEF AtRest, AllTold
  <2>13. Taken(g, p) /\ ~Taken(g, f) /\ \A q \in B \ {p} : Taken(g, q) <=> Taken(h, q)
    BY <2>9, <2>10 DEF Taken
  <2>14. ASSUME NEW q \in C PROVE Taken(g, q) \/ Bounded(g, q)
    <3>1. CASE q = p
      BY <2>13, <3>1
    <3>2. CASE q = f
      <4>1. CASE End(h, p) = MEM
        BY <2>7, <3>2, <4>1 DEF Bounded
      <4>2. CASE End(h, p) # MEM
        <5>1. Taken(h, End(h, p)) /\ End(h, p) \in B
          BY <1>3, <4>2, RestEnds DEF Bounded
        <5>2. Taken(g, End(h, p))
          BY <2>13, <5>1
        <5>3. QED
          BY <2>7, <3>2, <5>2 DEF Bounded
      <4>3. QED
        BY <4>1, <4>2
    <3>3. CASE q \in B \ {p} /\ ~Taken(h, q)
      <4>1. CASE End(h, q) = MEM
        BY <2>9, <3>3, <4>1 DEF Bounded
      <4>2. CASE End(h, q) # MEM
        <5>1. Taken(h, End(h, q)) /\ End(h, q) \in B
          BY <1>3, <3>3, <4>2, RestEnds DEF Bounded
        <5>2. Taken(g, End(h, q))
          BY <2>13, <5>1
        <5>3. QED
          BY <2>9, <3>3, <5>2 DEF Bounded
      <4>3. QED
        BY <4>1, <4>2
    <3>4. CASE q \in B \ {p} /\ Taken(h, q)
      BY <2>13, <3>4
    <3>5. QED
      BY <3>1, <3>2, <3>3, <3>4
  <2>15. SameTakenBut(h, B, g, C, p)
    <3>1. ASSUME NEW q \in C, Taken(g, q), q # p PROVE q \in B /\ Taken(h, q)
      BY <2>13, <3>1
    <3>2. ASSUME NEW q \in B, Taken(h, q), q # p
          PROVE  q \in C /\ Taken(g, q) /\ g.header[q].size = h.header[q].size
      BY <2>9, <2>13, <3>2
    <3>3. QED
      BY <3>1, <3>2 DEF SameTakenBut
  <2>16. g.header[p].size >= n
    BY <2>10
  <2>17. QED
    BY <2>12, <2>13, <2>14, <2>15, <2>16 DEF CoalescedBut
<1>6. QED
  BY <1>4, <1>5

(* What the user of the block p may write into it hits no header.          *)
WithJunk(h, region) ==
  [header |-> [c \in Cell |-> IF c \in region THEN Junk ELSE h.header[c]], last |-> h.last]

(* What a user writes into its region disturbs no block.                   *)
LEMMA JunkKept ==
  ASSUME NEW h, NEW B, AtRest(h, B), NEW p \in B, NEW region,
         region = p + DSIZE .. p + h.header[p].size - 1,
         NEW g, g = WithJunk(h, region)
  PROVE  AtRest(g, B) /\ \A r \in B : g.header[r] = h.header[r]
<1>1. HeapType(h) /\ Tiles(h, B) /\ AllTold(h, B) /\ B \subseteq Cell
  BY DEF AtRest, Tiles
<1>2. \A r \in B : r \notin region
  <2>1. SUFFICES ASSUME NEW r \in B, r \in region PROVE FALSE
    OBVIOUS
  <2>2. /\ p \in Nat /\ r \in Nat /\ h.header[p].size \in Nat /\ End(h, p) = p + h.header[p].size
    BY <1>1, BlockRange
  <2>3. p <= r /\ r < End(h, p) /\ r # p
    BY <2>1, <2>2 DEF DSIZE
  <2>4. QED
    BY <1>1, <2>3, BlocksApart
<1>3. g.last = h.last /\ \A r \in B : g.header[r] = h.header[r]
  BY <1>1, <1>2 DEF WithJunk
<1>4. HeapType(g)
  <2>1. Junk \in Header
    BY Cells DEF Junk, Header
  <2>2. QED
    BY <1>1, <2>1 DEF HeapType, WithJunk
<1>5. Tiles(g, B) /\ \A r \in B : End(g, r) = End(h, r)
  <2>1. Tiles(h, B) /\ \A r \in B : g.header[r].size = h.header[r].size
    BY <1>1, <1>3
  <2>2. QED
    BY <2>1, SameTiles
<1>6. \A r \in B : End(h, r) = MEM \/ End(h, r) \in B
  BY RestEnds
<1>7. AllTold(g, B)
  BY <1>1, <1>3, <1>5, <1>6, StillTold DEF AllTold
<1>8. QED
  BY <1>3, <1>4, <1>5, <1>7 DEF AtRest
-----------------------------------------------------------------------------
(* The regions handed out *)

(* The region of a taken block: what the user has got of it.               *)
Region(h, p)  == [addr |-> p + DSIZE, size |-> h.header[p].size - DSIZE]
Regions(h, B) == {Region(h, p) : p \in {q \in B : Taken(h, q)}}

(* A heap between two calls, and the regions that its users have.          *)
Booked(h, B, regions) ==
  AtRest(h, B) /\ CoalescedBut(h, B, MEM) /\ regions = Regions(h, B)

(* Blocks of the same sizes have the same regions.                         *)
LEMMA SameRegion ==
  ASSUME NEW h, NEW g, NEW p, g.header[p].size = h.header[p].size
  PROVE  Region(g, p) = Region(h, p)
BY DEF Region

(* The regions when one more block is taken.                               *)
LEMMA RegionsGrow ==
  ASSUME NEW h, NEW B, NEW g, NEW C, NEW p \in C, SameTakenBut(h, B, g, C, p),
         ~Taken(h, p), Taken(g, p)
  PROVE  Regions(g, C) = Regions(h, B) \cup {Region(g, p)}
<1>1. ASSUME NEW q \in C, Taken(g, q), q # p
      PROVE  q \in B /\ Taken(h, q) /\ Region(g, q) = Region(h, q)
  <2>1. q \in B /\ Taken(h, q)
    BY <1>1 DEF SameTakenBut
  <2>2. g.header[q].size = h.header[q].size
    BY <1>1, <2>1 DEF SameTakenBut
  <2>3. QED
    BY <2>1, <2>2, SameRegion
<1>2. ASSUME NEW q \in B, Taken(h, q)
      PROVE  q \in C /\ Taken(g, q) /\ Region(g, q) = Region(h, q)
  <2>1. q # p
    BY <1>2
  <2>2. q \in C /\ Taken(g, q) /\ g.header[q].size = h.header[q].size
    BY <1>2, <2>1 DEF SameTakenBut
  <2>3. QED
    BY <2>2, SameRegion
<1>3. QED
  BY <1>1, <1>2 DEF Regions

(* The regions when a block is taken no more.                              *)
LEMMA RegionsShrink ==
  ASSUME NEW h, NEW B, AtRest(h, B), NEW g, NEW C, NEW p \in B, SameTakenBut(h, B, g, C, p),
         ~(p \in C /\ Taken(g, p))
  PROVE  Regions(g, C) = Regions(h, B) \ {Region(h, p)}
<1>1. ASSUME NEW q \in C, Taken(g, q)
      PROVE  q \in B /\ Taken(h, q) /\ q # p /\ Region(g, q) = Region(h, q)
  <2>1. q # p
    BY <1>1
  <2>2. q \in B /\ Taken(h, q)
    BY <1>1, <2>1 DEF SameTakenBut
  <2>3. g.header[q].size = h.header[q].size
    BY <1>1, <2>1, <2>2 DEF SameTakenBut
  <2>4. QED
    BY <2>1, <2>2, <2>3, SameRegion
<1>2. ASSUME NEW q \in B, Taken(h, q), q # p
      PROVE  q \in C /\ Taken(g, q) /\ Region(g, q) = Region(h, q)
  <2>1. q \in C /\ Taken(g, q) /\ g.header[q].size = h.header[q].size
    BY <1>2 DEF SameTakenBut
  <2>2. QED
    BY <2>1, SameRegion
<1>3. ASSUME NEW q \in B, q # p PROVE Region(h, q) # Region(h, p)
  <2>1. Region(h, q).addr = q + DSIZE /\ Region(h, p).addr = p + DSIZE
    BY DEF Region
  <2>2. q + DSIZE # p + DSIZE
    BY <1>3, RestEnds DEF DSIZE
  <2>3. QED
    BY <2>1, <2>2
<1>4. QED
  BY <1>1, <1>2, <1>3 DEF Regions

(* The blocks of a heap, and the bounds of a taken one's region.           *)
LEMMA BlocksInCell ==
  ASSUME NEW h, NEW B, AtRest(h, B)
  PROVE  B \in SUBSET Cell /\ B \subseteq Nat
BY Cells DEF AtRest, Tiles

(* The block p has the n cells that malloc needs; the cells of its user.    *)
Enough(h, p, n) == n \in Nat /\ 1 < n /\ n <= h.header[p].size
UserCells(h, p) == p + DSIZE .. p + h.header[p].size - 1

(* malloc's new heap has the regions of the old one and the new region.    *)
LEMMA MallocEffect ==
  ASSUME NEW h, NEW B, NEW regions, Booked(h, B, regions), NEW p \in B, ~Taken(h, p),
         NEW n, Enough(h, p, n), NEW g, g = Placed(h, p, n),
         NEW cells, cells = UserCells(g, p),
         NEW k, k = WithJunk(g, cells)
  PROVE  \E C \in SUBSET Cell :
           /\ Booked(k, C, regions \cup {Region(k, p)})
           /\ p \in C /\ Taken(k, p) /\ B \subseteq C
           /\ Enough(k, p, n) /\ k.header[p].size = g.header[p].size
           /\ SameTakenBut(h, B, k, C, p)
<1>1. AtRest(h, B) /\ CoalescedBut(h, B, MEM) /\ regions = Regions(h, B)
  BY DEF Booked
<1>2. PICK C : /\ AtRest(g, C) /\ B \subseteq C /\ Taken(g, p)
               /\ g.header[p].size >= n
               /\ CoalescedBut(g, C, MEM) /\ SameTakenBut(h, B, g, C, p)
  BY <1>1, PlacedEffect DEF Enough
<1>3. p \in C
  BY <1>2
<1>4. AtRest(k, C) /\ \A r \in C : k.header[r] = g.header[r]
  BY <1>2, <1>3, JunkKept DEF UserCells
<1>5. \A r \in C : (Taken(k, r) <=> Taken(g, r)) /\ End(k, r) = End(g, r)
  BY <1>4 DEF Taken, End
<1>6. CoalescedBut(k, C, MEM)
  <2>1. ASSUME NEW q \in C PROVE Taken(k, q) \/ Bounded(k, q) \/ End(k, q) = MEM
    <3>1. CASE Taken(g, q)
      BY <1>5, <3>1
    <3>2. CASE End(g, q) = MEM
      BY <1>5, <3>2
    <3>3. CASE End(g, q) # MEM /\ Taken(g, End(g, q))
      <4>1. End(g, q) \in C
        BY <1>2, <3>3, RestEnds
      <4>2. QED
        BY <1>5, <3>3, <4>1 DEF Bounded
    <3>4. QED
      BY <1>2, <3>1, <3>2, <3>3 DEF CoalescedBut, Bounded
  <2>2. QED
    BY <2>1 DEF CoalescedBut
<1>7. SameTakenBut(h, B, k, C, p)
  <2>1. ASSUME NEW q \in C, Taken(k, q), q # p PROVE q \in B /\ Taken(h, q)
    BY <1>2, <1>5, <2>1 DEF SameTakenBut
  <2>2. ASSUME NEW q \in B, Taken(h, q), q # p
        PROVE  q \in C /\ Taken(k, q) /\ k.header[q].size = h.header[q].size
    BY <1>2, <1>4, <1>5, <2>2 DEF SameTakenBut
  <2>3. QED
    BY <2>1, <2>2 DEF SameTakenBut
<1>8. Taken(k, p)
  BY <1>2, <1>3, <1>5
<1>9. Regions(k, C) = regions \cup {Region(k, p)}
  BY <1>1, <1>3, <1>7, <1>8, RegionsGrow
<1>10. C \in SUBSET Cell
  BY <1>2, BlocksInCell
<1>11. Booked(k, C, regions \cup {Region(k, p)})
  BY <1>4, <1>6, <1>9 DEF Booked
<1>12. Enough(k, p, n) /\ k.header[p].size = g.header[p].size
  <2>1. k.header[p].size = g.header[p].size
    BY <1>3, <1>4
  <2>2. g.header[p].size \in Nat
    BY <1>2, <1>3, RestEnds
  <2>3. QED
    BY <1>2, <2>1, <2>2 DEF Enough
<1>13. QED
  BY <1>2, <1>3, <1>7, <1>8, <1>10, <1>11, <1>12

(* free's new heap has the regions of the old one but the one given back.  *)
LEMMA FreeEffect ==
  ASSUME NEW h, NEW B, NEW regions, Booked(h, B, regions), NEW p \in B, Taken(h, p),
         NEW g, g = WithPrev(WithNext(h, p), p)
  PROVE  \E C \in SUBSET Cell : Booked(g, C, regions \ {Region(h, p)})
<1> DEFINE k == WithNext(h, p)
<1>1. AtRest(h, B) /\ CoalescedBut(h, B, MEM) /\ regions = Regions(h, B)
  BY DEF Booked
<1>2. g = WithPrev(k, p)
  OBVIOUS
<1>3. k = WithNext(h, p)
  OBVIOUS
<1> HIDE DEF k
<1>4. PICK D : /\ AtRest(k, D) /\ p \in D /\ D \subseteq B
               /\ k.header[p].alloc = 0 /\ Bounded(k, p)
               /\ CoalescedBut(k, D, p) /\ SameTakenBut(h, B, k, D, p)
  BY <1>1, <1>3, WithNextEffect
<1>5. PICK C : /\ AtRest(g, C) /\ C \subseteq D
               /\ CoalescedBut(g, C, MEM) /\ SameTakenBut(k, D, g, C, p)
               /\ p \in C => ~Taken(g, p)
  BY <1>2, <1>4, WithPrevEffect
<1>6. SameTakenBut(h, B, g, C, p)
  <2>1. ASSUME NEW q \in C, Taken(g, q), q # p PROVE q \in B /\ Taken(h, q)
    <3>1. q \in D /\ Taken(k, q)
      BY <1>5, <2>1 DEF SameTakenBut
    <3>2. QED
      BY <1>4, <2>1, <3>1 DEF SameTakenBut
  <2>2. ASSUME NEW q \in B, Taken(h, q), q # p
        PROVE  q \in C /\ Taken(g, q) /\ g.header[q].size = h.header[q].size
    <3>1. q \in D /\ Taken(k, q) /\ k.header[q].size = h.header[q].size
      BY <1>4, <2>2 DEF SameTakenBut
    <3>2. q \in C /\ Taken(g, q) /\ g.header[q].size = k.header[q].size
      BY <1>5, <2>2, <3>1 DEF SameTakenBut
    <3>3. QED
      BY <3>1, <3>2
  <2>3. QED
    BY <2>1, <2>2 DEF SameTakenBut
<1>7. B \subseteq Nat /\ C \in SUBSET Cell
  BY <1>1, <1>5, BlocksInCell
<1>8. Regions(g, C) = regions \ {Region(h, p)}
  <2>1. ~(p \in C /\ Taken(g, p))
    BY <1>5
  <2>2. Regions(g, C) = Regions(h, B) \ {Region(h, p)}
    BY <1>1, <1>6, <2>1, RegionsShrink
  <2>3. QED
    BY <1>1, <2>2
<1>9. QED
  BY <1>5, <1>7, <1>8 DEF Booked

(* Nothing is handed out twice: two taken blocks' regions, with their      *)
(* headers, share no cell.                                                 *)
LEMMA RegionCells ==
  ASSUME NEW h, NEW B, AtRest(h, B), NEW p \in B
  PROVE  /\ Abstract!Taken(Region(h, p)) = p .. End(h, p) - 1
         /\ Abstract!Taken(Region(h, p)) \subseteq Cell
         /\ \A q \in B : q # p => Abstract!Taken(Region(h, p)) \cap Abstract!Taken(Region(h, q)) = {}
<1>1. ASSUME NEW q \in B
      PROVE  /\ Abstract!Taken(Region(h, q)) = q .. End(h, q) - 1
             /\ q \in Nat /\ 1 <= q /\ End(h, q) \in Nat /\ q < End(h, q) /\ End(h, q) <= MEM
  <2>1. /\ q \in Nat /\ 1 <= q /\ End(h, q) \in Nat /\ q < End(h, q) /\ End(h, q) <= MEM
        /\ h.header[q].size \in Nat /\ End(h, q) = q + h.header[q].size
    BY BlockRange DEF AtRest
  <2>2. Region(h, q).addr = q + 1 /\ Region(h, q).size = h.header[q].size - 1
    BY DEF Region, DSIZE
  <2>3. /\ Region(h, q).addr - DSIZE = q
        /\ Region(h, q).addr + Region(h, q).size - 1 = End(h, q) - 1
    BY <2>1, <2>2 DEF DSIZE
  <2>4. QED
    BY <2>1, <2>3 DEF Abstract!Taken
<1>2. MEM \in Nat /\ \A c \in Nat : 1 <= c /\ c < MEM => c \in Cell
  BY Cells
<1>3. p .. End(h, p) - 1 \subseteq Cell
  <2>1. SUFFICES ASSUME NEW c \in p .. End(h, p) - 1 PROVE c \in Cell
    OBVIOUS
  <2>2. p \in Nat /\ 1 <= p /\ End(h, p) \in Nat /\ End(h, p) <= MEM
    BY <1>1
  <2>3. c \in Nat /\ 1 <= c /\ c < MEM
    BY <1>2, <2>2
  <2>4. QED
    BY <1>2, <2>3
<1>4. ASSUME NEW q \in B, q # p, NEW c \in p .. End(h, p) - 1, c \in q .. End(h, q) - 1 PROVE FALSE
  <2>1. /\ p \in Nat /\ q \in Nat /\ End(h, p) \in Nat /\ End(h, q) \in Nat
    BY <1>1
  <2>2. (p < q => End(h, p) <= q) /\ (q < p => End(h, q) <= p)
    BY DEF AtRest, Tiles
  <2>3. p <= c /\ c < End(h, p) /\ q <= c /\ c < End(h, q) /\ c \in Nat
    BY <1>4, <2>1
  <2>4. QED
    BY <1>4, <2>1, <2>2, <2>3
<1>5. QED
  BY <1>1, <1>3, <1>4
(* A block big enough is found where there is room: free cells side by     *)
(* side all lie in one free block.                                         *)
LEMMA RoomIsABlock ==
  ASSUME NEW B, Booked(heap, B, live), NEW size \in Sizes, Abstract!HasRoom(size)
  PROVE  \E p \in B : Fits(heap, p, size + DSIZE)
<1> DEFINE h == heap
<1>1. AtRest(h, B) /\ CoalescedBut(h, B, MEM) /\ live = Regions(h, B) /\ HeapType(h) /\ Tiles(h, B)
  BY DEF Booked, AtRest
<1>2. /\ size \in Nat /\ size > 0 /\ MEM \in Nat
      /\ baseptr .. MEM - 1 = Cell
  BY HeapAssumption, Cells DEF Cell
<1>3. PICK a \in Cell : a .. a + size \subseteq Abstract!FreeCells
  <2>1. PICK a \in baseptr .. MEM - 1 : a .. a + size + DSIZE - 1 \subseteq Abstract!FreeCells
    BY DEF Abstract!HasRoom
  <2>2. a \in Nat /\ a \in Cell
    BY <1>2, <2>1, Cells
  <2>3. a + size + DSIZE - 1 = a + size
    BY <1>2, <2>2 DEF DSIZE
  <2>4. QED
    BY <2>1, <2>2, <2>3
<1> HIDE DEF h
<1>4. ASSUME NEW q \in B, Taken(h, q), NEW c \in q .. End(h, q) - 1
      PROVE  c \notin Abstract!FreeCells
  <2>1. Abstract!Taken(Region(h, q)) = q .. End(h, q) - 1
    BY <1>1, RegionCells
  <2>2. Region(h, q) \in live
    BY <1>1, <1>4 DEF Regions
  <2>3. QED
    BY <1>4, <2>1, <2>2 DEF Abstract!FreeCells
<1>5. PICK p \in B : p <= a /\ a < End(h, p)
  BY <1>1, CellCovered
<1>6. /\ p \in Nat /\ a \in Nat /\ End(h, p) \in Nat /\ End(h, p) <= MEM /\ p < End(h, p)
      /\ h.header[p].size \in Nat /\ End(h, p) = p + h.header[p].size
      /\ h.header[p].alloc \in {0, 1}
  BY <1>1, BlockRange, Cells, RestEnds
<1>7. ~Taken(h, p)
  <2>1. a \in p .. End(h, p) - 1
    BY <1>5, <1>6
  <2>2. a \in a .. a + size
    BY <1>2, <1>6
  <2>3. QED
    BY <1>3, <1>4, <2>1, <2>2
<1>8. h.header[p].size >= size + DSIZE
  <2>1. SUFFICES ASSUME h.header[p].size <= size PROVE FALSE
    BY <1>2, <1>6 DEF DSIZE
  <2>2. End(h, p) \in a .. a + size
    BY <1>2, <1>5, <1>6, <2>1
  <2>3. End(h, p) \in Cell
    BY <1>2, <1>3, <2>2 DEF Abstract!FreeCells
  <2>4. End(h, p) # MEM
    BY <1>2, <2>3, Cells
  <2>5. Taken(h, End(h, p)) /\ End(h, p) \in B
    BY <1>1, <1>7, <2>4, RestEnds DEF CoalescedBut, Bounded
  <2>6. End(h, p) \in End(h, p) .. End(h, End(h, p)) - 1
    <3>1. End(h, End(h, p)) \in Nat /\ End(h, p) < End(h, End(h, p))
      BY <1>1, <2>5, BlockRange
    <3>2. QED
      BY <1>6, <3>1
  <2>7. QED
    BY <1>3, <1>4, <2>2, <2>5, <2>6
<1>9. h.header[p].alloc = 0
  BY <1>6, <1>7 DEF Taken
<1>10. Fits(h, p, size + DSIZE)
  BY <1>8, <1>9 DEF Fits
<1>11. QED
  BY <1>10 DEF h

-----------------------------------------------------------------------------
(* The calls one after the other *)

(* The heap that init_heap makes is one free block.                        *)
LEMMA HeapStarts ==
  ASSUME Init
  PROVE  Booked(heap, {baseptr}, live) /\ {baseptr} \in SUBSET Cell
<1>1. MEM \in Nat /\ MEM > 1 /\ baseptr \in Cell /\ baseptr = 1 /\ DSIZE = 1
  BY Cells DEF baseptr, DSIZE
<1>2. /\ heap.header = header /\ heap.last = baseptr
      /\ heap.header[baseptr] = [size |-> MEM - DSIZE, alloc |-> 0, prev |-> 0]
  BY <1>1 DEF Init, heap
<1>3. HeapType(heap)
  <2>1. MEM - DSIZE \in 0 .. MEM /\ 0 \in 0 .. MEM
    BY <1>1
  <2>2. header \in [Cell -> Header]
    BY <2>1 DEF Init, Header
  <2>3. QED
    BY <1>1, <2>2 DEF HeapType, heap, Init
<1>4. End(heap, baseptr) = MEM /\ heap.header[baseptr].size > 0
  BY <1>1, <1>2 DEF End
<1>5. Tiles(heap, {baseptr})
  BY <1>1, <1>4 DEF Tiles
<1>6. AllTold(heap, {baseptr})
  BY <1>2, <1>4 DEF AllTold, Told
<1>7. CoalescedBut(heap, {baseptr}, MEM)
  BY <1>4 DEF CoalescedBut
<1>8. ~Taken(heap, baseptr)
  BY <1>2 DEF Taken
<1>9. live = Regions(heap, {baseptr})
  BY <1>8 DEF Init, Regions
<1>10. QED
  BY <1>1, <1>3, <1>5, <1>6, <1>7, <1>9 DEF Booked, AtRest

(* malloc keeps the heap's books, and is Malloc of the abstract allocator. *)
LEMMA MallocKept ==
  ASSUME NEW B, Booked(heap, B, live), NEW size \in Sizes, malloc(size)
  PROVE  /\ \E C \in SUBSET Cell : Booked(heap', C, live')
         /\ result' \in Cell \cup {NULL}
         /\ Abstract!Malloc(size)
<1> DEFINE n       == size + DSIZE
           fitting == {p \in B : Fits(heap, p, n)}
<1>1. /\ size \in Nat /\ size > 0 /\ n \in Nat /\ 1 < n /\ n = size + 1
      /\ MEM \in Nat
  BY HeapAssumption, Cells DEF DSIZE
<1>2. AtRest(heap, B) /\ live = Regions(heap, B) /\ B \in SUBSET Cell /\ B \subseteq Nat
  BY BlocksInCell DEF Booked
<1>3. Blocks(heap) = B
  <2>1. baseptr \in B
    BY <1>2 DEF AtRest, Tiles
  <2>2. QED
    BY <1>2, <2>1, RestNext
<1>4. CASE fitting = {}
  <2>1. result' = NULL /\ UNCHANGED <<header, LASTPTR, live>>
    <3>1. {p \in Blocks(heap) : Fits(heap, p, n)} = {}
      BY <1>3, <1>4
    <3>2. QED
      BY <3>1 DEF malloc
  <2>2. heap' = heap
    BY <2>1 DEF heap
  <2>3. ~Abstract!HasRoom(size)
    BY <1>4, RoomIsABlock
  <2>4. Abstract!Malloc(size)
    BY <2>1, <2>3 DEF Abstract!Malloc
  <2>5. QED
    BY <1>2, <2>1, <2>2, <2>4
<1>5. CASE fitting # {}
  <2> DEFINE p     == Min(fitting)
             g     == Placed(heap, p, n)
             cells == UserCells(g, p)
             k     == WithJunk(g, cells)
  <2>1. p \in fitting
    <3>1. fitting \subseteq Nat
      BY <1>2
    <3> HIDE DEF fitting
    <3>2. QED
      BY <1>5, <3>1, Least
  <2>2. p \in B /\ ~Taken(heap, p) /\ n <= heap.header[p].size
    <3>1. p \in B /\ Fits(heap, p, n)
      BY <2>1
    <3>2. heap.header[p].size \in Nat
      BY <1>2, <3>1, RestEnds
    <3> HIDE DEF p, n
    <3>3. QED
      BY <1>1, <3>1, <3>2 DEF Fits, Taken
  <2>3. /\ header' = k.header /\ LASTPTR' = k.last
        /\ live' = live \cup {[addr |-> p + DSIZE, size |-> Cardinality(cells)]}
        /\ result' = p + DSIZE
    <3>1. {q \in Blocks(heap) : Fits(heap, q, n)} = fitting
      BY <1>3
    <3>2. QED
      BY <1>5, <3>1 DEF malloc, WithJunk, UserCells
  <2>4. heap' = k
    BY <2>3 DEF heap, WithJunk
  <2>5. g = Placed(heap, p, n) /\ cells = UserCells(g, p) /\ k = WithJunk(g, cells)
    OBVIOUS
  <2> HIDE DEF p, g, cells, k, n, fitting
  <2>6. PICK C \in SUBSET Cell :
           /\ Booked(k, C, live \cup {Region(k, p)})
           /\ p \in C /\ Taken(k, p) /\ B \subseteq C
           /\ Enough(k, p, n) /\ k.header[p].size = g.header[p].size
           /\ SameTakenBut(heap, B, k, C, p)
    <3>1. Enough(heap, p, n)
      BY <1>1, <2>2 DEF Enough
    <3>2. QED
      BY <2>2, <2>5, <3>1, MallocEffect
  <2>7. /\ AtRest(k, C) /\ p \in Nat /\ k.header[p].size \in Nat /\ 1 <= p
        /\ End(k, p) = p + k.header[p].size /\ End(k, p) <= MEM /\ End(k, p) \in Nat
        /\ n <= k.header[p].size
    BY <2>6, BlockRange DEF Booked, AtRest, Enough
  <2>8. Cardinality(cells) = k.header[p].size - DSIZE
    <3>1. cells = p + 1 .. p + k.header[p].size - 1
      BY <2>5, <2>6 DEF DSIZE, UserCells
    <3>2. p + 1 \in Int /\ p + k.header[p].size - 1 \in Int /\ p + 1 <= p + k.header[p].size - 1
      BY <1>1, <2>6, <2>7
    <3>3. Cardinality(cells) = (p + k.header[p].size - 1) - (p + 1) + 1
      BY <3>1, <3>2, FS_Interval
    <3>4. QED
      BY <2>7, <3>3 DEF DSIZE
  <2>9. live' = live \cup {Region(k, p)} /\ result' = Region(k, p).addr
    BY <2>3, <2>8 DEF Region
  <2>10. Region(k, p) \in [addr : baseptr + DSIZE .. MEM - 1, size : size .. MEM - 1 - baseptr + 1]
    <3>1. /\ Region(k, p).addr \in baseptr + DSIZE .. MEM - 1
          /\ Region(k, p).size \in size .. MEM - 1 - baseptr + 1
      BY <1>1, <2>6, <2>7 DEF Region, baseptr, DSIZE
    <3>2. QED
      BY <3>1 DEF Region
  <2>11. Abstract!Taken(Region(k, p)) \subseteq Abstract!FreeCells
    <3>1. Abstract!Taken(Region(k, p)) \subseteq baseptr .. MEM - 1
      BY <2>6, <2>7, RegionCells DEF Cell
    <3>2. ASSUME NEW r \in live PROVE Abstract!Taken(Region(k, p)) \cap Abstract!Taken(r) = {}
      <4>1. PICK q \in B : Taken(heap, q) /\ r = Region(heap, q)
        BY <1>2, <3>2 DEF Regions
      <4>2. q # p /\ q \in C /\ k.header[q].size = heap.header[q].size
        BY <2>2, <2>6, <4>1 DEF SameTakenBut
      <4>3. Region(k, q) = r
        BY <4>1, <4>2, SameRegion
      <4>4. Abstract!Taken(Region(k, p)) \cap Abstract!Taken(Region(k, q)) = {}
        BY <2>6, <2>7, <4>2, RegionCells
      <4>5. QED
        BY <4>3, <4>4
    <3>3. QED
      BY <3>1, <3>2 DEF Abstract!FreeCells
  <2>12. Abstract!Malloc(size)
    BY <2>9, <2>10, <2>11 DEF Abstract!Malloc
  <2>13. result' \in Cell
    <3>1. p + 1 \in Nat /\ 1 <= p + 1 /\ p + 1 < MEM
      BY <1>1, <2>6, <2>7
    <3>2. QED
      BY <2>3, <3>1, Cells DEF DSIZE
  <2>14. QED
    BY <2>4, <2>6, <2>9, <2>12, <2>13
<1>6. QED
  BY <1>4, <1>5

(* free keeps the heap's books.                                            *)
LEMMA FreeKept ==
  ASSUME NEW B, Booked(heap, B, live), NEW r \in live, free(r)
  PROVE  \E C \in SUBSET Cell : Booked(heap', C, live')
<1>1. B \subseteq Nat /\ live = Regions(heap, B)
  BY BlocksInCell DEF Booked
<1>2. PICK p \in B : Taken(heap, p) /\ r = Region(heap, p)
  BY <1>1 DEF Regions
<1>3. r.addr - DSIZE = p
  BY <1>1, <1>2 DEF Region, DSIZE
<1> DEFINE g == WithPrev(WithNext(heap, p), p)
<1>4. header' = g.header /\ LASTPTR' = g.last /\ live' = live \ {r}
  BY <1>3 DEF free
<1> HIDE DEF g
<1>5. PICK C \in SUBSET Cell : Booked(g, C, live \ {r})
  BY <1>2, FreeEffect DEF g
<1>6. heap' = g
  BY <1>4, <1>5 DEF heap, Booked, AtRest, HeapType
<1>7. QED
  BY <1>4, <1>5, <1>6
-----------------------------------------------------------------------------
(* Calls of free that interrupt each other *)

(* The block that NEXT_BLKP should find behind q.                          *)
NextOf(h, q) == IF End(h, q) = MEM THEN NULL ELSE End(h, q)

(* left and right lie one behind the other and are free, but for p if it   *)
(* is the left one and still taken.                                        *)
Pair(h, B, f) ==
  /\ f.left \in B /\ f.right \in B /\ End(h, f.left) = f.right /\ ~Taken(h, f.right)
  /\ \/ f.left = f.p /\ Taken(h, f.p)
     \/ f.right = f.p /\ ~Taken(h, f.left) /\ Bounded(h, f.p)

(* What a call of free knows of the heap before each of its statements, f  *)
(* being its local variables.                                              *)
Knows(h, B, f) ==
  /\ f.at \in {"next", "next_alloc", "size", "mark", "prev", "prev_alloc"} => f.p \in B
  /\ f.at \in {"next", "next_alloc", "size", "mark"} => Taken(h, f.p)
  /\ f.at = "next_alloc" => f.next \in B /\ f.next = End(h, f.p)
  /\ f.at \in {"size", "mark", "prev", "prev_alloc"} => Bounded(h, f.p)
  /\ f.at = "mark" => f.size = h.header[f.p].size
  /\ f.at \in {"prev", "prev_alloc"} => ~Taken(h, f.p)
  /\ f.at = "prev_alloc" => f.left \in B /\ End(h, f.left) = f.p /\ f.right = f.p
  /\ f.at \in {"sum", "behind", "put"} => Pair(h, B, f)
  /\ f.at \in {"behind", "put"} => f.size = SizeOfBoth(h, f.left, f.right)
  /\ f.at = "put" => f.next = NextOf(h, f.right)
  /\ f.at = "tell" =>
       /\ f.left \in B /\ ~Taken(h, f.left) /\ Bounded(h, f.left)
       /\ f.size = h.header[f.left].size /\ f.next = NextOf(h, f.left)
       /\ f.left <= f.p /\ f.p < End(h, f.left)

Statements == {"next", "next_alloc", "size", "mark", "prev", "prev_alloc",
               "sum", "behind", "put", "tell", "end"}
Locals == [at : Statements, p : Int, left : Int, right : Int, size : Int, next : Int]

(* Something that stays taken lies between the blocks p and q.             *)
Between(S, p, q) == \E m \in S : (p < m /\ m < q) \/ (q < m /\ m < p)

(* The size of q is known behind it, or the one that is going to tell it   *)
(* is under way; q's neighbour is taken, or q is going to be joined.       *)
ToldOrTelling(h, frees, q) ==
  Told(h, q) \/ \E r \in DOMAIN frees : frees[r].at = "tell" /\ frees[r].left = q
MergedOrJoining(h, frees, q) ==
  Taken(h, q) \/ Bounded(h, q)
    \/ \E r \in DOMAIN frees : frees[r].at # "end" /\ End(h, q) = frees[r].p

(* The heap h with the blocks B while the calls frees are under way: S are *)
(* the taken blocks that nobody is giving back.                            *)
Shared(h, B, frees, S) ==
  /\ HeapType(h) /\ Tiles(h, B)
  /\ \A q \in B : q <= h.last
  /\ S \subseteq B /\ \A m \in S : Taken(h, m)
  /\ \A r \in DOMAIN frees : frees[r] \in Locals /\ frees[r].p \in Cell \ S /\ Knows(h, B, frees[r])
  /\ \A r, s \in DOMAIN frees : r # s => Between(S, frees[r].p, frees[s].p)
  /\ \A q \in B : ToldOrTelling(h, frees, q) /\ MergedOrJoining(h, frees, q)

(* The blocks of the regions.                                              *)
BlockOf(r) == r.addr - DSIZE

ThreadsInv(B) ==
  /\ Shared(heap, B, freeing, {BlockOf(m) : m \in live \ Busy})
  /\ Busy \subseteq live
  /\ \A r \in live : r.addr \in Nat /\ BlockOf(r) \in Cell
  /\ \A r, s \in live : r.addr = s.addr => r = s
  /\ \A r \in Busy : freeing[r].p = BlockOf(r)

(* One after the other, or interrupting each other, until two clash.       *)
FreesInv ==
  /\ phase \in {"init", "alone", "threads"} /\ result \in Cell \cup {NULL}
  /\ phase # "threads" => Busy = {} /\ \E B \in SUBSET Cell : Booked(heap, B, live)
  /\ phase = "threads" /\ ~clashed => \E B \in SUBSET Cell : ThreadsInv(B)
  /\ clashed => HeapType(heap) /\ Busy # {} /\ Busy \subseteq live

(* No block begins inside another one.                                     *)
LEMMA NoneInside ==
  ASSUME NEW h, HeapType(h), NEW B, Tiles(h, B), NEW q \in B, NEW m \in B
  PROVE  q < m => End(h, q) <= m
BY DEF Tiles

(* The blocks of the heap, their ends and headers.                         *)
LEMMA SharedBlocks ==
  ASSUME NEW h, NEW B, NEW frees, NEW S, Shared(h, B, frees, S), NEW q \in B
  PROVE  /\ HeapType(h) /\ Tiles(h, B) /\ B \subseteq Cell /\ q \in Cell /\ q \in Nat
         /\ End(h, q) \in Nat /\ q < End(h, q) /\ End(h, q) <= MEM
         /\ End(h, q) \in B \/ End(h, q) = MEM
         /\ MEM \notin B /\ NULL \notin B /\ MEM \in Nat /\ MEM # NULL
         /\ \A m \in B : /\ m \in Nat
                         /\ q < m => End(h, q) <= m
                         /\ End(h, m) = End(h, q) => m = q
<1>1. HeapType(h) /\ Tiles(h, B) /\ B \subseteq Cell
  BY DEF Shared, Tiles
<1>2. q \in Cell /\ q \in Nat /\ End(h, q) \in Nat /\ q < End(h, q) /\ End(h, q) <= MEM
  BY <1>1, BlockRange
<1>3. End(h, q) \in B \/ End(h, q) = MEM
  BY <1>1 DEF Tiles
<1>4. MEM \in Nat /\ NULL \notin B /\ MEM # NULL
  BY <1>1, Cells DEF NULL
<1>5. MEM \notin B
  <2>1. ASSUME MEM \in Cell PROVE FALSE
    <3>1. MEM < MEM
      BY <2>1, Cells
    <3>2. QED
      BY <1>4, <3>1
  <2>2. QED
    BY <1>1, <2>1
<1>6. ASSUME NEW m \in B
      PROVE  m \in Nat /\ (q < m => End(h, q) <= m) /\ (End(h, m) = End(h, q) => m = q)
  <2>1. m \in Nat
    BY <1>1, Cells
  <2>2. q < m => End(h, q) <= m
    BY <1>1, NoneInside
  <2>3. End(h, m) = End(h, q) => m = q
    BY <1>1, BlocksApart
  <2>4. QED
    BY <2>1, <2>2, <2>3
<1>7. QED
  BY <1>1, <1>2, <1>3, <1>4, <1>5, <1>6

(* The block that another call is going to announce lies beyond something  *)
(* that stays taken.                                                       *)
LEMMA TellingElsewhere ==
  ASSUME NEW h, NEW B, NEW frees, NEW S, Shared(h, B, frees, S),
         NEW r \in DOMAIN frees, NEW s \in DOMAIN frees, r # s, frees[s].at = "tell"
  PROVE  \E m \in S : \/ frees[r].p < m /\ m < frees[s].left
                      \/ End(h, frees[s].left) <= m /\ m < frees[r].p
<1> DEFINE l == frees[s].left
<1>1. PICK m \in S : (frees[r].p < m /\ m < frees[s].p) \/ (frees[s].p < m /\ m < frees[r].p)
  BY DEF Shared, Between
<1>2. /\ l \in B /\ ~Taken(h, l) /\ l <= frees[s].p /\ frees[s].p < End(h, l)
      /\ m \in B /\ Taken(h, m) /\ frees[s].p \in Nat /\ frees[r].p \in Nat
  <2>1. Knows(h, B, frees[s])
    BY DEF Shared
  <2>2. l \in B /\ ~Taken(h, l) /\ l <= frees[s].p /\ frees[s].p < End(h, l)
    BY <2>1 DEF Knows
  <2>3. m \in B /\ Taken(h, m)
    BY DEF Shared
  <2>4. frees[s].p \in Nat /\ frees[r].p \in Nat
    BY Cells DEF Shared
  <2>5. QED
    BY <2>2, <2>3, <2>4
<1>3. /\ l \in Nat /\ End(h, l) \in Nat /\ m \in Nat /\ l # m
      /\ l < m => End(h, l) <= m
  BY <1>2, SharedBlocks
<1>4. CASE frees[r].p < m /\ m < frees[s].p
  BY <1>2, <1>3, <1>4
<1>5. CASE frees[s].p < m /\ m < frees[r].p
  BY <1>2, <1>3, <1>5
<1>6. QED
  BY <1>1, <1>4, <1>5

(* So p and its neighbours have told their sizes, unless p's own call is   *)
(* about to.                                                               *)
LEMMA ToldHere ==
  ASSUME NEW h, NEW B, NEW frees, NEW S, Shared(h, B, frees, S),
         NEW r \in DOMAIN frees, frees[r].at # "tell", NEW p, p = frees[r].p, p \in B,
         NEW q \in B, q = p \/ q = End(h, p) \/ End(h, q) = p
  PROVE  Told(h, q)
<1>1. SUFFICES ASSUME NEW s \in DOMAIN frees, frees[s].at = "tell", frees[s].left = q PROVE FALSE
  BY DEF Shared, ToldOrTelling
<1>2. r # s
  BY <1>1
<1>3. PICK m \in S : (p < m /\ m < q) \/ (End(h, q) <= m /\ m < p)
  BY <1>1, <1>2, TellingElsewhere
<1>4. m \in B
  BY DEF Shared
<1>5. /\ p \in Nat /\ End(h, p) \in Nat /\ p < End(h, p) /\ m \in Nat
      /\ p < m => End(h, p) <= m
  BY <1>4, SharedBlocks
<1>6. q \in Nat /\ End(h, q) \in Nat /\ q < End(h, q)
  BY SharedBlocks
<1>7. QED
  BY <1>3, <1>5, <1>6

(* NEXT_BLKP of p, and of the block behind, finds what it should.          *)
LEMMA NextFound ==
  ASSUME NEW h, NEW B, NEW frees, NEW S, Shared(h, B, frees, S),
         NEW r \in DOMAIN frees, frees[r].at # "tell", NEW p, p = frees[r].p, p \in B,
         NEW q \in B, q = p \/ q = End(h, p)
  PROVE  NEXT_BLKP(h, q) = NextOf(h, q) /\ NextOf(h, q) \in B \cup {NULL}
<1>1. Told(h, q)
  BY ToldHere
<1>2. q \in Nat /\ (End(h, q) \in B \/ End(h, q) = MEM)
  BY SharedBlocks
<1>3. HeapType(h) /\ Tiles(h, B) /\ q <= h.last /\ h.last \in Nat /\ q \in Nat /\ B \subseteq Nat
  BY Cells DEF Shared, HeapType, Tiles
<1>4. PICK l \in B : End(h, l) = MEM /\ \A x \in B : x <= l
  BY <1>3, LastBlock
<1>5. l \in Nat /\ l <= h.last /\ q <= l
  BY <1>3, <1>4 DEF Shared
<1>6. CASE End(h, q) = MEM
  <2>1. h.last = q
    BY <1>1, <1>6 DEF Told
  <2>2. ~(q < h.last)
    BY <1>3, <2>1
  <2>3. QED
    BY <1>6, <2>2 DEF NEXT_BLKP, NextOf
<1>7. CASE End(h, q) # MEM
  <2>1. q # l
    BY <1>4, <1>7
  <2>2. q < h.last
    BY <1>3, <1>5, <2>1
  <2>3. NEXT_BLKP(h, q) = End(h, q)
    BY <2>2 DEF NEXT_BLKP, End
  <2>4. QED
    BY <1>2, <1>7, <2>3 DEF NextOf
<1>8. QED
  BY <1>6, <1>7

(* And PREV_BLKP of p.                                                     *)
LEMMA PrevFound ==
  ASSUME NEW h, NEW B, NEW frees, NEW S, Shared(h, B, frees, S),
         NEW r \in DOMAIN frees, frees[r].at # "tell", NEW p, p = frees[r].p, p \in B
  PROVE  IF p = baseptr THEN PREV_BLKP(h, p) = NULL
         ELSE /\ PREV_BLKP(h, p) \in B /\ End(h, PREV_BLKP(h, p)) = p
<1>1. HeapType(h) /\ Tiles(h, B) /\ p \in Nat /\ 1 <= p
  BY SharedBlocks, Cells
<1>2. CASE p = baseptr
  BY <1>2 DEF PREV_BLKP, baseptr
<1>3. CASE p # baseptr
  <2>1. PICK q \in B : End(h, q) = p
    BY <1>1, <1>3, BlockBefore
  <2>2. Told(h, q) /\ p # MEM
    BY <2>1, ToldHere, SharedBlocks
  <2>3. q \in Nat /\ h.header[q].size \in Nat /\ p = q + h.header[q].size
    BY <1>1, <2>1, BlockRange
  <2>4. h.header[p].prev = h.header[q].size
    BY <2>1, <2>2 DEF Told
  <2>5. PREV_BLKP(h, p) = q
    BY <1>1, <1>3, <2>3, <2>4 DEF PREV_BLKP, baseptr
  <2>6. QED
    BY <1>3, <2>1, <2>5
<1>4. QED
  BY <1>2, <1>3

-----------------------------------------------------------------------------
(* What calls that are apart leave of each other's knowledge               *)

(* The blocks that Knows is about, and those that the next statement may   *)
(* change: their sizes, their bits, or that they are blocks.               *)
Reads_of(h, f, c) ==
  \/ c = f.p
  \/ f.at \in {"prev_alloc", "sum", "behind", "put", "tell"} /\ c = f.left
  \/ f.at \in {"sum", "behind", "put"} /\ c = f.right
  \/ f.at \notin {"tell", "end"} /\ c = End(h, f.p)
  \/ f.at = "tell" /\ c = End(h, f.left)
Writes_of(f, c) ==
  \/ f.at = "mark" /\ c = f.p
  \/ f.at = "put" /\ (c = f.left \/ c = f.right)

(* c is the same block in h and in g, or in neither.                       *)
Alike(h, B, g, C, c) ==
  /\ c \in B <=> c \in C
  /\ g.header[c].size = h.header[c].size
  /\ Taken(g, c) <=> Taken(h, c)

(* A call still knows what it knew where the words it relies on stay.      *)
LEMMA KnowsKept ==
  ASSUME NEW h, NEW B, NEW f, Knows(h, B, f), NEW g, NEW C, f.p # MEM, MEM \notin B,
         \A c : Reads_of(h, f, c) /\ c # MEM => Alike(h, B, g, C, c)
  PROVE  Knows(g, C, f)
<1>1. /\ f.p \in B <=> f.p \in C
      /\ g.header[f.p].size = h.header[f.p].size /\ End(g, f.p) = End(h, f.p)
      /\ Taken(g, f.p) <=> Taken(h, f.p)
  <2>1. Alike(h, B, g, C, f.p)
    BY DEF Reads_of
  <2>2. QED
    BY <2>1 DEF Alike, End
<1>2. f.at \notin {"tell", "end"} /\ Bounded(h, f.p) => Bounded(g, f.p)
  <2>1. SUFFICES ASSUME f.at \notin {"tell", "end"}, Taken(h, End(h, f.p)), End(h, f.p) # MEM
                 PROVE  Bounded(g, f.p)
    BY <1>1 DEF Bounded
  <2>2. Alike(h, B, g, C, End(h, f.p))
    BY <2>1 DEF Reads_of
  <2>3. QED
    BY <1>1, <2>1, <2>2 DEF Alike, Bounded
<1>3. CASE f.at \in {"next", "size", "mark", "prev", "end"}
  BY <1>1, <1>2, <1>3 DEF Knows
<1>4. CASE f.at = "next_alloc"
  <2>1. f.next \in B /\ f.next = End(h, f.p) /\ f.next # MEM
    BY <1>4 DEF Knows
  <2>2. Alike(h, B, g, C, f.next)
    BY <1>4, <2>1 DEF Reads_of
  <2>3. f.next \in C /\ f.next = End(g, f.p)
    BY <1>1, <2>1, <2>2 DEF Alike
  <2>4. QED
    BY <1>1, <1>4, <2>3 DEF Knows
<1>5. CASE f.at = "prev_alloc"
  <2>1. f.left \in B /\ End(h, f.left) = f.p /\ f.right = f.p /\ f.left # MEM
    BY <1>5 DEF Knows
  <2>2. Alike(h, B, g, C, f.left)
    BY <1>5, <2>1 DEF Reads_of
  <2>3. f.left \in C /\ End(g, f.left) = f.p
    BY <2>1, <2>2 DEF Alike, End
  <2>4. QED
    BY <1>1, <1>2, <1>5, <2>1, <2>3 DEF Knows
<1>6. CASE f.at \in {"sum", "behind", "put"}
  <2>1. Pair(h, B, f) /\ f.left # MEM /\ f.right # MEM
    BY <1>6 DEF Knows, Pair
  <2>2. Alike(h, B, g, C, f.left) /\ Alike(h, B, g, C, f.right)
    BY <1>6, <2>1 DEF Reads_of
  <2>3. Pair(g, C, f)
    <3>1. f.left \in C /\ f.right \in C /\ End(g, f.left) = f.right /\ ~Taken(g, f.right)
      BY <2>1, <2>2 DEF Pair, Alike, End
    <3>2. \/ f.left = f.p /\ Taken(g, f.p)
          \/ f.right = f.p /\ ~Taken(g, f.left) /\ Bounded(g, f.p)
      BY <1>1, <1>2, <1>6, <2>1, <2>2 DEF Pair, Alike
    <3>3. QED
      BY <3>1, <3>2 DEF Pair
  <2>4. SizeOfBoth(g, f.left, f.right) = SizeOfBoth(h, f.left, f.right)
    BY <2>2 DEF Alike, SizeOfBoth
  <2>5. NextOf(g, f.right) = NextOf(h, f.right)
    BY <2>2 DEF Alike, NextOf, End
  <2>6. QED
    BY <1>6, <2>3, <2>4, <2>5 DEF Knows
<1>7. CASE f.at = "tell"
  <2>1. /\ f.left \in B /\ ~Taken(h, f.left) /\ Bounded(h, f.left)
        /\ f.size = h.header[f.left].size /\ f.next = NextOf(h, f.left)
        /\ f.left <= f.p /\ f.p < End(h, f.left) /\ f.left # MEM
    BY <1>7 DEF Knows
  <2>2. Alike(h, B, g, C, f.left)
    BY <1>7, <2>1 DEF Reads_of
  <2>3. End(g, f.left) = End(h, f.left) /\ NextOf(g, f.left) = NextOf(h, f.left)
    BY <2>2 DEF Alike, End, NextOf
  <2>4. Bounded(g, f.left)
    <3>1. SUFFICES ASSUME Taken(h, End(h, f.left)), End(h, f.left) # MEM PROVE Bounded(g, f.left)
      BY <2>1, <2>3 DEF Bounded
    <3>2. Alike(h, B, g, C, End(h, f.left))
      BY <1>7, <3>1 DEF Reads_of
    <3>3. QED
      BY <2>3, <3>1, <3>2 DEF Alike, Bounded
  <2>5. f.left \in C /\ ~Taken(g, f.left) /\ f.size = g.header[f.left].size
    BY <2>1, <2>2 DEF Alike
  <2>6. f.next = NextOf(g, f.left) /\ f.left <= f.p /\ f.p < End(g, f.left)
    BY <2>1, <2>3
  <2>7. QED
    BY <1>7, <2>4, <2>5, <2>6 DEF Knows
<1>8. QED
  BY <1>3, <1>4, <1>5, <1>6, <1>7 DEF Knows

(* On either side of a block that stays taken, a call changes only blocks  *)
(* on its own side, and reads no block on the other.                       *)
LEMMA OwnSide ==
  ASSUME NEW h, NEW B, NEW frees, NEW S, Shared(h, B, frees, S), NEW r \in DOMAIN frees,
         NEW m \in S
  PROVE  /\ \A c : Writes_of(frees[r], c) =>
              c \in Nat /\ (frees[r].p < m => c < m) /\ (m < frees[r].p => m < c)
         /\ frees[r].at # "end" =>
              \A c : Reads_of(h, frees[r], c) =>
                c \in Nat /\ (frees[r].p < m => c <= m) /\ (m < frees[r].p => m <= c)
<1> DEFINE f == frees[r]
<1>1. /\ Knows(h, B, f) /\ f \in Locals /\ f.p \in Cell \ S /\ m \in B /\ Taken(h, m)
  BY DEF Shared
<1> HIDE DEF f
<1>2. m \in Nat /\ f.p \in Nat /\ f.p # m /\ MEM \in Nat /\ m < MEM
  BY <1>1, SharedBlocks, Cells
<1>3. ASSUME NEW q \in B
      PROVE  /\ q \in Nat /\ End(h, q) \in Nat /\ q < End(h, q) /\ End(h, q) <= MEM
             /\ q < m => End(h, q) <= m
             /\ m < q => m <= q /\ m <= End(h, q)
             /\ ~Taken(h, q) => q # m
  BY <1>1, <1>2, <1>3, SharedBlocks
<1>4. ASSUME f.p \in B, f.at # "end", f.at # "tell"
      PROVE  f.at \in {"prev_alloc", "sum", "behind", "put"} \/
               \A c : Reads_of(h, f, c) => c \in Nat /\ (f.p < m => c <= m) /\ (m < f.p => m <= c)
  <2>1. SUFFICES ASSUME NEW c, c = f.p \/ c = End(h, f.p)
                 PROVE  c \in Nat /\ (f.p < m => c <= m) /\ (m < f.p => m <= c)
    BY <1>4 DEF Reads_of
  <2>2. QED
    BY <1>2, <1>3, <1>4, <2>1
<1>5. CASE f.at \in {"next", "next_alloc", "size", "mark", "prev"}
  <2>1. f.p \in B
    BY <1>1, <1>5 DEF Knows
  <2>2. \A c : Writes_of(f, c) => c = f.p
    BY <1>5 DEF Writes_of
  <2>3. \A c : Writes_of(f, c) => c \in Nat /\ (f.p < m => c < m) /\ (m < f.p => m < c)
    BY <1>2, <2>2
  <2>4. \A c : Reads_of(h, f, c) => c \in Nat /\ (f.p < m => c <= m) /\ (m < f.p => m <= c)
    BY <1>4, <1>5, <2>1
  <2>5. QED
    BY <2>3, <2>4 DEF f
<1>6. CASE f.at = "prev_alloc"
  <2>1. f.p \in B /\ f.left \in B /\ End(h, f.left) = f.p
    BY <1>1, <1>6 DEF Knows
  <2>2. \A c : ~Writes_of(f, c)
    BY <1>6 DEF Writes_of
  <2>3. ASSUME NEW c, Reads_of(h, f, c)
        PROVE  c \in Nat /\ (f.p < m => c <= m) /\ (m < f.p => m <= c)
    <3>1. c = f.p \/ c = f.left \/ c = End(h, f.p)
      BY <1>6, <2>3 DEF Reads_of
    <3>2. /\ f.left \in Nat /\ f.left < f.p
          /\ f.left < m => f.p <= m
      BY <1>3, <2>1
    <3>3. End(h, f.p) \in Nat /\ f.p < End(h, f.p) /\ (f.p < m => End(h, f.p) <= m)
      BY <1>3, <2>1
    <3>4. QED
      BY <1>2, <3>1, <3>2, <3>3
  <2>4. QED
    BY <2>2, <2>3 DEF f
<1>7. CASE f.at \in {"sum", "behind", "put"}
  <2>1. Pair(h, B, f)
    BY <1>1, <1>7 DEF Knows
  <2>2. /\ f.left \in B /\ f.right \in B /\ End(h, f.left) = f.right /\ ~Taken(h, f.right)
        /\ f.p \in B /\ (f.left = f.p \/ (f.right = f.p /\ ~Taken(h, f.left)))
    BY <2>1 DEF Pair
  <2>3. /\ f.left \in Nat /\ f.right \in Nat /\ f.left < f.right
        /\ f.right # m /\ f.left # m
        /\ f.left < m => f.right <= m
        /\ f.right < m => End(h, f.right) <= m
        /\ End(h, f.right) \in Nat /\ f.right < End(h, f.right)
    BY <1>2, <1>3, <2>2
  <2>4. /\ f.p < m => f.left < m /\ f.right < m /\ End(h, f.p) <= m
        /\ m < f.p => m < f.left /\ m < f.right /\ m < End(h, f.p)
        /\ End(h, f.p) \in Nat
    BY <1>2, <2>2, <2>3
  <2>5. \A c : Writes_of(f, c) => c \in Nat /\ (f.p < m => c < m) /\ (m < f.p => m < c)
    BY <1>7, <2>3, <2>4 DEF Writes_of
  <2>6. ASSUME NEW c, Reads_of(h, f, c)
        PROVE  c \in Nat /\ (f.p < m => c <= m) /\ (m < f.p => m <= c)
    <3>1. c = f.p \/ c = f.left \/ c = f.right \/ c = End(h, f.p)
      BY <1>7, <2>6 DEF Reads_of
    <3>2. QED
      BY <1>2, <2>3, <2>4, <3>1
  <2>7. QED
    BY <2>5, <2>6 DEF f
<1>8. CASE f.at = "tell"
  <2>1. /\ f.left \in B /\ ~Taken(h, f.left)
        /\ f.left <= f.p /\ f.p < End(h, f.left)
    BY <1>1, <1>8 DEF Knows
  <2>2. \A c : ~Writes_of(f, c)
    BY <1>8 DEF Writes_of
  <2>3. ASSUME NEW c, Reads_of(h, f, c)
        PROVE  c \in Nat /\ (f.p < m => c <= m) /\ (m < f.p => m <= c)
    <3>1. c = f.p \/ c = f.left \/ c = End(h, f.left)
      BY <1>8, <2>3 DEF Reads_of
    <3>2. /\ f.left \in Nat /\ f.left # m /\ End(h, f.left) \in Nat
          /\ f.left < m => End(h, f.left) <= m
      BY <1>3, <2>1
    <3>3. QED
      BY <1>2, <2>1, <3>1, <3>2
  <2>4. QED
    BY <2>2, <2>3 DEF f
<1>9. CASE f.at = "end"
  <2>1. \A c : ~Writes_of(f, c)
    BY <1>9 DEF Writes_of
  <2>2. QED
    BY <1>9, <2>1 DEF f
<1>10. f.at \in Statements
  BY <1>1 DEF Locals
<1>11. QED
  BY <1>5, <1>6, <1>7, <1>8, <1>9, <1>10 DEF Statements

(* What a call reads of is in the buffer.                                  *)
LEMMA ReadsCells ==
  ASSUME NEW h, NEW B, NEW frees, NEW S, Shared(h, B, frees, S), NEW r \in DOMAIN frees,
         frees[r].at # "end", NEW c, Reads_of(h, frees[r], c)
  PROVE  c \in Cell \/ c = MEM
<1> DEFINE f == frees[r]
<1>1. Knows(h, B, f) /\ f \in Locals /\ f.p \in Cell /\ B \subseteq Cell
  BY DEF Shared, Tiles
<1>2. \A q \in B : End(h, q) \in Cell \/ End(h, q) = MEM
  BY <1>1, SharedBlocks
<1> HIDE DEF f
<1>3. f.at \in Statements /\ f.at # "end" /\ Reads_of(h, f, c)
  BY <1>1 DEF Locals, f
<1>4. f.at # "tell" => f.p \in B
  BY <1>1, <1>3 DEF Knows, Pair, Statements
<1>5. f.at \in {"prev_alloc", "sum", "behind", "put", "tell"} => f.left \in B
  BY <1>1 DEF Knows, Pair
<1>6. f.at \in {"sum", "behind", "put"} => f.right \in B
  BY <1>1 DEF Knows, Pair
<1>7. QED
  BY <1>1, <1>2, <1>3, <1>4, <1>5, <1>6 DEF Reads_of

(* So a call knows what it knew, after a statement of another one.         *)
LEMMA OthersKnow ==
  ASSUME NEW h, NEW B, NEW frees, NEW S, Shared(h, B, frees, S),
         NEW r \in DOMAIN frees, NEW s \in DOMAIN frees, s # r, NEW g, NEW C,
         \A c \in Cell : ~Writes_of(frees[r], c) => Alike(h, B, g, C, c)
  PROVE  Knows(g, C, frees[s])
<1> DEFINE f == frees[s]
<1>1. Knows(h, B, f) /\ f.p \in Cell /\ f.p \in Nat /\ frees[r].p \in Nat /\ MEM \in Nat
  BY Cells DEF Shared
<1>2. MEM \notin Cell
  <2>1. ASSUME MEM \in Cell PROVE FALSE
    <3>1. MEM < MEM
      BY <2>1, Cells
    <3>2. QED
      BY <1>1, <3>1
  <2>2. QED
    BY <2>1
<1>3. CASE f.at = "end"
  BY <1>3 DEF Knows
<1>4. CASE f.at # "end"
  <2>1. PICK m \in S : (frees[r].p < m /\ m < f.p) \/ (f.p < m /\ m < frees[r].p)
    BY DEF Shared, Between
  <2>2. m \in Nat /\ m \in Cell
    BY Cells DEF Shared, Tiles
  <2>3. ASSUME NEW c, Reads_of(h, f, c), c # MEM PROVE Alike(h, B, g, C, c)
    <3>1. c \in Nat /\ (f.p < m => c <= m) /\ (m < f.p => m <= c)
      BY <1>4, <2>3, OwnSide
    <3>2. ASSUME Writes_of(frees[r], c) PROVE FALSE
      <4>1. (frees[r].p < m => c < m) /\ (m < frees[r].p => m < c)
        BY <3>2, OwnSide
      <4>2. QED
        BY <2>1, <2>2, <3>1, <4>1
    <3>3. c \in Cell
      BY <1>4, <2>3, ReadsCells
    <3>4. QED
      BY <3>2, <3>3
  <2>4. f.p # MEM /\ MEM \notin B
    BY <1>1, <1>2 DEF Shared, Tiles
  <2> HIDE DEF f
  <2>5. Knows(g, C, f)
    BY <1>1, <2>3, <2>4, KnowsKept
  <2>6. QED
    BY <2>5 DEF f
<1>5. QED
  BY <1>3, <1>4

-----------------------------------------------------------------------------
(* The statements of free and Combine                                      *)

(* A statement changes nothing but what Writes_of says, and leaves every   *)
(* block told and merged, or somebody on the way to it.                    *)
Untouched(h, B, g, C, f) == \A c \in Cell : ~Writes_of(f, c) => Alike(h, B, g, C, c)
Attended(g, C, frees)    == \A q \in C : ToldOrTelling(g, frees, q) /\ MergedOrJoining(g, frees, q)
Laid(g, C)               == HeapType(g) /\ Tiles(g, C) /\ \A q \in C : q <= g.last

(* The call r goes on from its local variables e to f.                     *)
GoesOn(frees, r, f, k) ==
  /\ r \in DOMAIN frees /\ f \in Locals /\ f.p = frees[r].p /\ frees[r].at # "end"
  /\ k = [frees EXCEPT ![r] = f]

(* A statement of one call keeps Shared if it writes on its own side.      *)
LEMMA StatementShared ==
  ASSUME NEW h, NEW B, NEW frees, NEW S, Shared(h, B, frees, S),
         NEW r, NEW f, NEW k, GoesOn(frees, r, f, k),
         NEW g, NEW C, Laid(g, C), Untouched(h, B, g, C, frees[r]),
         Knows(g, C, f), Attended(g, C, k)
  PROVE  Shared(g, C, k, S)
<1>1. /\ r \in DOMAIN frees /\ f \in Locals /\ f.p = frees[r].p
      /\ DOMAIN k = DOMAIN frees /\ k[r] = f
      /\ \A s \in DOMAIN frees : s # r => k[s] = frees[s]
  BY DEF GoesOn
<1>2. \A s \in DOMAIN k : k[s].p = frees[s].p
  BY <1>1
<1>3. ASSUME NEW m \in S PROVE m \in C /\ Taken(g, m)
  <2>1. m \in Cell /\ m \in B /\ Taken(h, m) /\ m # frees[r].p /\ m \in Nat /\ frees[r].p \in Nat
    BY <1>1, Cells DEF Shared, Tiles
  <2>2. ~Writes_of(frees[r], m)
    <3>1. Writes_of(frees[r], m) => (frees[r].p < m => m < m) /\ (m < frees[r].p => m < m)
      BY <1>1, OwnSide
    <3>2. QED
      BY <2>1, <3>1
  <2>3. Alike(h, B, g, C, m)
    BY <2>1, <2>2 DEF Untouched
  <2>4. QED
    BY <2>1, <2>3 DEF Alike
<1>4. ASSUME NEW s \in DOMAIN k PROVE k[s] \in Locals /\ k[s].p \in Cell \ S /\ Knows(g, C, k[s])
  <2>1. k[s].p \in Cell \ S
    BY <1>1, <1>2 DEF Shared
  <2>2. CASE s = r
    BY <1>1, <2>1, <2>2
  <2>3. CASE s # r
    <3>1. Knows(g, C, frees[s])
      <4>1. \A c \in Cell : ~Writes_of(frees[r], c) => Alike(h, B, g, C, c)
        BY DEF Untouched
      <4>2. QED
        BY <1>1, <2>3, <4>1, OthersKnow
    <3>2. k[s] = frees[s] /\ frees[s] \in Locals
      BY <1>1, <2>3 DEF Shared
    <3>3. QED
      BY <2>1, <3>1, <3>2
  <2>4. QED
    BY <2>2, <2>3
<1>5. \A s, t \in DOMAIN k : s # t => Between(S, k[s].p, k[t].p)
  BY <1>1, <1>2 DEF Shared
<1>6. QED
  BY <1>3, <1>4, <1>5 DEF Shared, Laid, Attended

(* What the others are going to tell and to join they still are.           *)
LEMMA StillAttended ==
  ASSUME NEW frees, NEW r, NEW f, NEW k, GoesOn(frees, r, f, k), NEW h, NEW g, NEW q,
         End(g, q) = End(h, q)
  PROVE  /\ ToldOrTelling(h, frees, q) =>
              \/ Told(h, q) \/ ToldOrTelling(g, k, q)
              \/ frees[r].at = "tell" /\ q = frees[r].left
         /\ MergedOrJoining(h, frees, q) =>
              \/ Taken(h, q) \/ Bounded(h, q) \/ MergedOrJoining(g, k, q)
              \/ End(h, q) = f.p /\ f.at = "end"
<1>1. /\ r \in DOMAIN frees /\ f.p = frees[r].p
      /\ DOMAIN k = DOMAIN frees /\ k[r] = f
      /\ \A s \in DOMAIN frees : s # r => k[s] = frees[s]
  BY DEF GoesOn
<1>2. ASSUME NEW s \in DOMAIN frees, frees[s].at = "tell", frees[s].left = q
      PROVE  ToldOrTelling(g, k, q) \/ (frees[r].at = "tell" /\ q = frees[r].left)
  <2>1. CASE s = r
    BY <1>2, <2>1
  <2>2. CASE s # r
    BY <1>1, <1>2, <2>2 DEF ToldOrTelling
  <2>3. QED
    BY <2>1, <2>2
<1>3. ASSUME NEW s \in DOMAIN frees, frees[s].at # "end", End(h, q) = frees[s].p
      PROVE  MergedOrJoining(g, k, q) \/ (End(h, q) = f.p /\ f.at = "end")
  <2>1. CASE s = r
    BY <1>1, <1>3, <2>1 DEF MergedOrJoining
  <2>2. CASE s # r
    BY <1>1, <1>3, <2>2 DEF MergedOrJoining
  <2>3. QED
    BY <2>1, <2>2
<1>4. QED
  BY <1>2, <1>3 DEF ToldOrTelling, MergedOrJoining

(* A statement that only reads.                                            *)
LEMMA ReadingShared ==
  ASSUME NEW h, NEW B, NEW frees, NEW S, Shared(h, B, frees, S),
         NEW r, NEW f, NEW k, GoesOn(frees, r, f, k), Knows(h, B, f), frees[r].at # "tell",
         f.at = "end" => \A q \in B : End(h, q) = f.p => Taken(h, q)
  PROVE  Shared(h, B, k, S)
<1>1. Laid(h, B)
  BY DEF Shared, Laid
<1>2. Untouched(h, B, h, B, frees[r])
  BY DEF Untouched, Alike
<1>3. ASSUME NEW q \in B PROVE ToldOrTelling(h, k, q) /\ MergedOrJoining(h, k, q)
  <2>1. ToldOrTelling(h, frees, q) /\ MergedOrJoining(h, frees, q)
    BY DEF Shared
  <2>2. ToldOrTelling(h, k, q)
    BY <2>1, StillAttended DEF ToldOrTelling
  <2>3. MergedOrJoining(h, k, q)
    BY <2>1, StillAttended DEF MergedOrJoining
  <2>4. QED
    BY <2>2, <2>3
<1>4. Attended(h, B, k)
  BY <1>3 DEF Attended
<1>5. QED
  BY <1>1, <1>2, <1>4, StatementShared

(* "mark": p becomes free as it is.                                        *)
LEMMA MarkingShared ==
  ASSUME NEW h, NEW B, NEW frees, NEW S, Shared(h, B, frees, S),
         NEW r, NEW f, NEW k, GoesOn(frees, r, f, k),
         frees[r].at = "mark", f.at = "prev",
         NEW g, g = Marked(h, f.p, frees[r].size, 0)
  PROVE  Shared(g, B, k, S)
<1> DEFINE p == f.p
           s == frees[r].size
<1>0. g = Marked(h, p, s, 0)
  OBVIOUS
<1>1. r \in DOMAIN frees /\ p = frees[r].p /\ f.p = p
  BY DEF GoesOn
<1>2. Knows(h, B, frees[r])
  BY <1>1 DEF Shared
<1>3. p \in B /\ Taken(h, p) /\ Bounded(h, p) /\ s = h.header[p].size
  BY <1>1, <1>2 DEF Knows
<1>4. HeapType(h) /\ Tiles(h, B) /\ p \in Cell /\ B \subseteq Cell
  BY <1>3, SharedBlocks
<1>5. s \in 0 .. MEM
  BY <1>3, <1>4 DEF HeapType, Header
<1>6. /\ HeapType(g) /\ g.last = h.last
      /\ g.header[p].size = s /\ g.header[p].alloc = 0
      /\ \A c \in Cell : g.header[c].prev = h.header[c].prev
      /\ \A c \in Cell \ {p} : g.header[c] = h.header[c]
  <2>1. 0 \in {0, 1}
    OBVIOUS
  <2> HIDE DEF p, s
  <2>2. QED
    BY <1>0, <1>4, <1>5, <2>1, MarkEffect
<1>7. \A c \in Cell : g.header[c].size = h.header[c].size
  BY <1>3, <1>6
<1>8. Tiles(g, B) /\ \A q \in B : End(g, q) = End(h, q)
  <2>1. \A q \in B : g.header[q].size = h.header[q].size
    BY <1>4, <1>7
  <2>2. QED
    BY <1>4, <2>1, SameTiles
<1>9. ~Taken(g, p) /\ \A c \in Cell \ {p} : Taken(g, c) <=> Taken(h, c)
  BY <1>6 DEF Taken
<1>10. Laid(g, B)
  BY <1>6, <1>8 DEF Laid, Shared
<1>11. Untouched(h, B, g, B, frees[r])
  <2>1. \A c \in Cell : ~Writes_of(frees[r], c) => c # p
    BY <1>1 DEF Writes_of
  <2>2. QED
    BY <1>7, <1>9, <2>1 DEF Untouched, Alike
<1>12. ASSUME NEW q \in B, Bounded(h, q), End(h, q) # p PROVE Bounded(g, q)
  <2>1. End(h, q) \in Cell \/ End(h, q) = MEM
    BY <1>4, SharedBlocks
  <2>2. QED
    BY <1>8, <1>9, <1>12, <2>1 DEF Bounded
<1>13. Bounded(g, p)
  <2>1. End(h, p) # p
    BY <1>3, SharedBlocks
  <2>2. QED
    BY <1>3, <1>12, <2>1
<1>14. Knows(g, B, f)
  BY <1>1, <1>3, <1>9, <1>13 DEF Knows
<1>15. ASSUME NEW q \in B PROVE ToldOrTelling(g, k, q) /\ MergedOrJoining(g, k, q)
  <2>1. ToldOrTelling(h, frees, q) /\ MergedOrJoining(h, frees, q) /\ End(g, q) = End(h, q)
    BY <1>8 DEF Shared
  <2>2. Told(h, q) => Told(g, q)
    <3>1. End(h, q) \in Cell \/ End(h, q) = MEM
      BY <1>4, SharedBlocks
    <3>2. q \in Cell
      BY <1>4
    <3>3. QED
      BY <1>6, <1>7, <2>1, <3>1, <3>2, StillTold
  <2>3. ToldOrTelling(g, k, q)
    <3>1. Told(h, q) \/ ToldOrTelling(g, k, q)
      BY <2>1, StillAttended
    <3>2. QED
      BY <2>2, <3>1 DEF ToldOrTelling
  <2>4. Taken(h, q) \/ Bounded(h, q) \/ MergedOrJoining(g, k, q)
    BY <2>1, StillAttended
  <2>5. MergedOrJoining(g, k, q)
    <3>1. CASE q = p
      BY <1>13, <3>1 DEF MergedOrJoining
    <3>2. CASE Taken(h, q) /\ q # p
      BY <1>4, <1>9, <3>2 DEF MergedOrJoining
    <3>3. CASE Bounded(h, q) /\ End(h, q) # p
      BY <1>12, <3>3 DEF MergedOrJoining
    <3>4. CASE End(h, q) = p
      <4>1. r \in DOMAIN k /\ k[r] = f
        BY DEF GoesOn
      <4>2. QED
        BY <1>1, <2>1, <3>4, <4>1 DEF MergedOrJoining
    <3>5. QED
      BY <2>4, <3>1, <3>2, <3>3, <3>4
  <2>6. QED
    BY <2>3, <2>5
<1>16. Attended(g, B, k)
  BY <1>15 DEF Attended
<1>17. QED
  BY <1>10, <1>11, <1>14, <1>16, StatementShared

(* What Combine writes, first in the header of left, then behind.          *)
PutSum(h, e)  == Marked(h, e.left, e.size, 0)
TellSum(h, e) == Announce(h, e.next, e.left, e.size)

(* What Combine's write of the sum changes.                                *)
LEMMA PutEffect ==
  ASSUME NEW h, HeapType(h), NEW B, Tiles(h, B), NEW left \in B, NEW right \in B,
         End(h, left) = right, NEW s, s = SizeOfBoth(h, left, right),
         NEW g, g = Marked(h, left, s, 0)
  PROVE  /\ HeapType(g) /\ g.last = h.last
         /\ g.header[left].size = s /\ g.header[left].alloc = 0
         /\ \A c \in Cell : g.header[c].prev = h.header[c].prev
         /\ \A c \in Cell \ {left} : g.header[c] = h.header[c]
<1>1. left \in Cell
  BY DEF Tiles
<1>2. s \in 0 .. MEM
  <2>1. /\ h.header[left].size \in Nat /\ h.header[right].size \in Nat /\ left \in Nat
        /\ right = left + h.header[left].size /\ End(h, right) = right + h.header[right].size
        /\ End(h, right) <= MEM
    BY BlockRange
  <2>2. MEM \in Nat
    BY Cells
  <2>3. QED
    BY <2>1, <2>2 DEF SizeOfBoth
<1>3. 0 \in {0, 1}
  OBVIOUS
<1>4. QED
  BY <1>1, <1>2, <1>3, MarkEffect

SizeOf(h, p) == h.header[p].size

(* What its announcement to the block behind changes.                      *)
LEMMA TellEffect ==
  ASSUME NEW h, HeapType(h), NEW B, Tiles(h, B), NEW left \in B, NEW s, s = SizeOf(h, left),
         NEW next \in B \cup {NULL}, NEW g, g = Announce(h, next, left, s)
  PROVE  /\ HeapType(g)
         /\ \A c \in Cell : /\ g.header[c].size = h.header[c].size
                            /\ g.header[c].alloc = h.header[c].alloc
                            /\ c # next => g.header[c].prev = h.header[c].prev
         /\ next # NULL => g.header[next].prev = s /\ g.last = h.last
         /\ next = NULL => g.last = left
<1>1. left \in Cell /\ next \in Cell \cup {NULL}
  BY DEF Tiles
<1>2. ASSUME NEW size \in 0 .. MEM, NEW f, f = Announce(h, next, left, size)
      PROVE  Announced(h, f, next, left, size)
  BY <1>1, <1>2, AnnounceEffect
<1>3. s \in 0 .. MEM
  BY <1>1 DEF HeapType, Header, SizeOf
<1>4. Announced(h, g, next, left, s)
  BY <1>2, <1>3
<1>5. QED
  BY <1>4 DEF Announced

(* "put": left and right become one free block; who tells its size is on   *)
(* the way.                                                                *)
LEMMA PuttingShared ==
  ASSUME NEW h, NEW B, NEW frees, NEW S, Shared(h, B, frees, S),
         NEW r, NEW f, NEW k, GoesOn(frees, r, f, k),
         frees[r].at = "put", f.at = "tell", f.left = frees[r].left, f.size = frees[r].size,
         f.next = frees[r].next,
         NEW g, g = PutSum(h, frees[r])
  PROVE  Shared(g, B \ {frees[r].right}, k, S)
<1> DEFINE e     == frees[r]
           p     == e.p
           left  == e.left
           right == e.right
           s     == e.size
           C     == B \ {right}
<1>18. g = Marked(h, left, s, 0)
  BY DEF PutSum
<1>0. /\ f.p = p /\ f.left = left /\ f.size = s /\ f.next = e.next
      /\ e.at = "put" /\ f.at = "tell" /\ f.at # "end" /\ e.at # "tell"
      /\ \A c : ~Writes_of(e, c) <=> c # left /\ c # right
  BY DEF GoesOn, Writes_of
<1>1. r \in DOMAIN frees /\ Knows(h, B, e) /\ p \in Cell
  BY DEF GoesOn, Shared
<1>2. /\ left \in B /\ right \in B /\ End(h, left) = right /\ ~Taken(h, right)
      /\ \/ left = p /\ Taken(h, p)
         \/ right = p /\ ~Taken(h, left) /\ Bounded(h, p)
      /\ s = SizeOfBoth(h, left, right) /\ e.next = NextOf(h, right)
  BY <1>0, <1>1 DEF Knows, Pair
<1> HIDE DEF e, p, left, right, s, C
<1>3. /\ HeapType(h) /\ Tiles(h, B) /\ B \subseteq Cell /\ left \in Cell /\ right \in Cell
      /\ left \in Nat /\ right \in Nat /\ left < right
      /\ End(h, right) \in Nat /\ right < End(h, right) /\ End(h, right) <= MEM
  BY <1>2, SharedBlocks
<1>5. /\ HeapType(g) /\ g.last = h.last
      /\ g.header[left].size = s /\ g.header[left].alloc = 0
      /\ \A c \in Cell : g.header[c].prev = h.header[c].prev
      /\ \A c \in Cell \ {left} : g.header[c] = h.header[c]
  <2>1. HeapType(h) /\ Tiles(h, B)
    BY <1>3
  <2>2. QED
    BY <1>2, <1>18, <2>1, PutEffect
<1>6. /\ Tiles(g, C) /\ End(g, left) = End(h, right)
      /\ \A q \in C \ {left} : End(g, q) = End(h, q) /\ g.header[q].size = h.header[q].size
  <2>1. SameSizes(h, g, B \ {left, right})
    BY <1>3, <1>5 DEF SameSizes
  <2>2. g.header[left].size = SizeOfBoth(h, left, right)
    BY <1>2, <1>5
  <2>3. Tiles(g, B \ {right}) /\ End(g, left) = End(h, right) /\ SameEnds(h, g, B \ {left, right})
    BY <1>2, <1>3, <2>1, <2>2, JoinTiles
  <2>4. QED
    BY <2>1, <2>3 DEF C, SameEnds, SameSizes
<1>7. ~Taken(g, left) /\ \A c \in Cell \ {left} : Taken(g, c) <=> Taken(h, c)
  BY <1>5 DEF Taken
<1>8. Laid(g, C)
  BY <1>5, <1>6 DEF Laid, Shared, C
<1>9. Untouched(h, B, g, C, e)
  BY <1>0, <1>5, <1>7 DEF Untouched, Alike, C
<1>10. Bounded(h, right)
  <2>1. CASE right = p /\ Bounded(h, p)
    BY <2>1
  <2>2. CASE left = p
    <3>1. MergedOrJoining(h, frees, right)
      BY <1>2 DEF Shared
    <3>2. SUFFICES ASSUME NEW t \in DOMAIN frees, End(h, right) = frees[t].p PROVE FALSE
      BY <1>2, <3>1 DEF MergedOrJoining
    <3>3. t # r
      BY <1>3, <2>2, <3>2 DEF e, p
    <3>4. PICK m \in S : (p < m /\ m < End(h, right)) \/ (End(h, right) < m /\ m < p)
      BY <1>1, <3>2, <3>3 DEF Shared, Between, e, p
    <3>5. m \in B /\ Taken(h, m)
      BY DEF Shared
    <3>6. m \in Nat /\ (left < m => right <= m) /\ (right < m => End(h, right) <= m) /\ m # right
      BY <1>2, <3>5, SharedBlocks
    <3>7. QED
      BY <1>3, <2>2, <3>4, <3>6
  <2>3. QED
    BY <1>2, <2>1, <2>2
<1>11. Bounded(g, left)
  <2>1. SUFFICES ASSUME Taken(h, End(h, right)), End(h, right) # MEM PROVE Bounded(g, left)
    BY <1>6, <1>10 DEF Bounded
  <2>2. End(h, right) \in Cell \ {left}
    <3>1. End(h, right) \in B
      BY <1>2, <2>1, SharedBlocks
    <3>2. QED
      BY <1>3, <3>1
  <2>3. QED
    BY <1>6, <1>7, <2>1, <2>2 DEF Bounded
<1>12. Knows(g, C, f)
  <2>1. left \in C
    BY <1>2, <1>3 DEF C
  <2>2. f.next = NextOf(g, left)
    BY <1>0, <1>2, <1>6 DEF NextOf
  <2>3. left <= p /\ p < End(g, left)
    BY <1>2, <1>3, <1>6
  <2>4. QED
    BY <1>0, <1>5, <1>7, <1>11, <2>1, <2>2, <2>3 DEF Knows
<1>13. r \in DOMAIN k /\ k[r] = f
  BY DEF GoesOn
<1>14. ASSUME NEW q \in C PROVE ToldOrTelling(g, k, q) /\ MergedOrJoining(g, k, q)
  <2>1. CASE q = left
    BY <1>0, <1>11, <1>13, <2>1 DEF ToldOrTelling, MergedOrJoining
  <2>2. CASE q # left
    <3>1. /\ q \in B /\ q # right /\ q \in Cell
          /\ End(g, q) = End(h, q) /\ g.header[q].size = h.header[q].size
      BY <1>3, <1>6, <2>2 DEF C
    <3>2. End(h, q) \in Cell \/ End(h, q) = MEM
      BY <1>3, <3>1, SharedBlocks
    <3>3. ToldOrTelling(h, frees, q) /\ MergedOrJoining(h, frees, q)
      BY <3>1 DEF Shared
    <3>4. Told(h, q) => Told(g, q)
      BY <1>5, <3>1, <3>2, StillTold
    <3>5. ToldOrTelling(g, k, q)
      <4>1. Told(h, q) \/ ToldOrTelling(g, k, q)
        BY <1>0, <3>1, <3>3, StillAttended DEF e
      <4>2. QED
        BY <3>4, <4>1 DEF ToldOrTelling
    <3>6. MergedOrJoining(g, k, q)
      <4>1. Taken(h, q) \/ Bounded(h, q) \/ MergedOrJoining(g, k, q)
        BY <1>0, <3>1, <3>3, StillAttended
      <4>2. CASE Taken(h, q)
        BY <1>7, <2>2, <3>1, <4>2 DEF MergedOrJoining
      <4>3. CASE Bounded(h, q) /\ End(h, q) # left
        BY <1>7, <3>1, <3>2, <4>3 DEF MergedOrJoining, Bounded
      <4>4. CASE Bounded(h, q) /\ End(h, q) = left
        <5>1. left # MEM
          BY <1>2, SharedBlocks
        <5>2. Taken(h, left)
          BY <4>4, <5>1 DEF Bounded
        <5>3. left = p
          BY <1>2, <5>2
        <5>4. QED
          BY <1>0, <1>13, <3>1, <4>4, <5>3 DEF MergedOrJoining
      <4>5. QED
        BY <4>1, <4>2, <4>3, <4>4
    <3>7. QED
      BY <3>5, <3>6
  <2>3. QED
    BY <2>1, <2>2
<1>15. Attended(g, C, k)
  BY <1>14 DEF Attended
<1>16. Shared(g, C, k, S)
  <2>1. Untouched(h, B, g, C, frees[r])
    BY <1>9 DEF e
  <2>2. QED
    BY <1>8, <1>12, <1>15, <2>1, StatementShared
<1>17. QED
  BY <1>16 DEF C, right, e

(* "tell": the block behind, or LASTPTR, learns the size.                  *)
LEMMA TellingShared ==
  ASSUME NEW h, NEW B, NEW frees, NEW S, Shared(h, B, frees, S),
         NEW r, NEW f, NEW k, GoesOn(frees, r, f, k),
         frees[r].at = "tell", f.at = IF frees[r].left = f.p THEN "prev" ELSE "end",
         NEW g, g = TellSum(h, frees[r])
  PROVE  Shared(g, B, k, S)
<1> DEFINE e    == frees[r]
           p    == e.p
           left == e.left
           next == e.next
           s    == e.size
<1>18. g = Announce(h, next, left, s)
  BY DEF TellSum
<1>0. /\ f.p = p /\ e.at = "tell"
      /\ f.at = IF left = p THEN "prev" ELSE "end"
  BY DEF GoesOn
<1>1. r \in DOMAIN frees /\ Knows(h, B, e) /\ p \in Cell
  BY DEF GoesOn, Shared
<1>2. /\ left \in B /\ ~Taken(h, left) /\ Bounded(h, left)
      /\ s = h.header[left].size /\ next = NextOf(h, left)
      /\ left <= p /\ p < End(h, left)
  BY <1>0, <1>1 DEF Knows
<1> HIDE DEF e, p, left, next, s
<1>3. /\ HeapType(h) /\ Tiles(h, B) /\ B \subseteq Cell /\ left \in Cell /\ left \in Nat
      /\ End(h, left) \in Nat /\ left < End(h, left)
      /\ End(h, left) \in B \/ End(h, left) = MEM
      /\ MEM \in Nat /\ MEM \notin B /\ NULL \notin B
  BY <1>2, SharedBlocks
<1>5. next \in B \cup {NULL} /\ (next = NULL <=> End(h, left) = MEM)
      /\ (next # NULL => next = End(h, left))
  BY <1>2, <1>3 DEF NextOf
<1>6. /\ HeapType(g)
      /\ \A c \in Cell : /\ g.header[c].size = h.header[c].size
                         /\ g.header[c].alloc = h.header[c].alloc
                         /\ c # next => g.header[c].prev = h.header[c].prev
      /\ next # NULL => g.header[next].prev = s /\ g.last = h.last
      /\ next = NULL => g.last = left
  <2>1. HeapType(h) /\ Tiles(h, B) /\ left \in B /\ s = SizeOf(h, left)
    BY <1>2, <1>3 DEF SizeOf
  <2>2. QED
    BY <1>5, <1>18, <2>1, TellEffect
<1>7. Tiles(g, B) /\ \A q \in B : End(g, q) = End(h, q) /\ g.header[q].size = h.header[q].size
  <2>1. Tiles(h, B) /\ \A q \in B : g.header[q].size = h.header[q].size
    BY <1>3, <1>6
  <2>2. Tiles(g, B) /\ \A q \in B : End(g, q) = End(h, q)
    BY <2>1, SameTiles
  <2>3. QED
    BY <2>1, <2>2
<1>8. \A c \in Cell : Taken(g, c) <=> Taken(h, c)
  BY <1>6 DEF Taken
<1>9. \A q \in B : End(h, q) \in Cell \/ End(h, q) = MEM
  BY <1>3, SharedBlocks
<1>10. \A q \in B : Bounded(h, q) => Bounded(g, q)
  BY <1>7, <1>8, <1>9 DEF Bounded
<1>11. Laid(g, B)
  <2>1. ASSUME NEW q \in B PROVE q <= g.last
    <3>1. CASE next # NULL
      BY <1>6, <3>1 DEF Shared
    <3>2. CASE next = NULL
      <4>1. q \in Nat /\ (left < q => MEM <= q) /\ q < MEM
        <5>1. q \in Cell /\ left < q => End(h, left) <= q
          BY <1>2, SharedBlocks
        <5>2. q \in Cell
          BY <1>3
        <5>3. QED
          BY <1>5, <3>2, <5>1, <5>2, Cells
      <4>2. q <= left
        BY <1>3, <4>1
      <4>3. QED
        BY <1>6, <3>2, <4>2
    <3>3. QED
      BY <3>1, <3>2
  <2>2. QED
    BY <1>6, <1>7, <2>1 DEF Laid
<1>12. Untouched(h, B, g, B, e)
  BY <1>6, <1>8 DEF Untouched, Alike
<1>13. Knows(g, B, f)
  <2>1. CASE left = p
    BY <1>0, <1>2, <1>3, <1>8, <1>10, <2>1 DEF Knows
  <2>2. CASE left # p
    BY <1>0, <2>2 DEF Knows
  <2>3. QED
    BY <2>1, <2>2
<1>14. ASSUME NEW q \in B PROVE ToldOrTelling(g, k, q) /\ MergedOrJoining(g, k, q)
  <2>1. ToldOrTelling(h, frees, q) /\ MergedOrJoining(h, frees, q) /\ End(g, q) = End(h, q)
    BY <1>7 DEF Shared
  <2>2. ToldOrTelling(g, k, q)
    <3>1. CASE q = left
      <4>1. Told(g, left)
        BY <1>2, <1>5, <1>6, <1>7 DEF Told
      <4>2. QED
        BY <3>1, <4>1 DEF ToldOrTelling
    <3>2. CASE q # left
      <4>1. Told(h, q) \/ ToldOrTelling(g, k, q)
        BY <2>1, <3>2, StillAttended DEF left, e
      <4>2. Told(h, q) => Told(g, q)
        <5>1. End(h, q) # End(h, left)
          BY <1>2, <3>2, SharedBlocks
        <5>2. End(h, q) = MEM => g.last = h.last
          BY <1>5, <1>6, <5>1
        <5>3. End(h, q) # MEM => g.header[End(h, q)].prev = h.header[End(h, q)].prev
          <6>1. ASSUME End(h, q) # MEM PROVE End(h, q) \in Cell /\ End(h, q) # next
            <7>1. End(h, q) \in Cell
              BY <1>9, <6>1
            <7>2. QED
              BY <1>5, <5>1, <7>1, Cells
          <6>2. QED
            BY <1>6, <6>1
        <5>4. QED
          BY <1>7, <2>1, <5>2, <5>3, StillTold
      <4>3. QED
        BY <4>1, <4>2 DEF ToldOrTelling
    <3>3. QED
      BY <3>1, <3>2
  <2>3. MergedOrJoining(g, k, q)
    <3>1. Taken(h, q) \/ Bounded(h, q) \/ MergedOrJoining(g, k, q) \/ (End(h, q) = p /\ f.at = "end")
      BY <1>0, <2>1, StillAttended
    <3>2. ~(End(h, q) = p /\ f.at = "end")
      <4>1. SUFFICES ASSUME End(h, q) = p, left # p PROVE FALSE
        BY <1>0
      <4>2. p \in Nat /\ p # MEM
        <5>1. p \in Nat /\ p < MEM
          BY <1>1, Cells
        <5>2. QED
          BY <1>3, <5>1
      <4>3. p \in B
        BY <4>1, <4>2, SharedBlocks
      <4>4. left < p => End(h, left) <= p
        BY <1>2, <4>3, SharedBlocks
      <4>5. QED
        BY <1>2, <1>3, <4>1, <4>2, <4>4
    <3>3. QED
      BY <1>3, <1>8, <1>10, <3>1, <3>2 DEF MergedOrJoining
  <2>4. QED
    BY <2>2, <2>3
<1>15. Attended(g, B, k)
  BY <1>14 DEF Attended
<1>16. Untouched(h, B, g, B, frees[r])
  BY <1>12 DEF e
<1>17. QED
  BY <1>11, <1>13, <1>15, <1>16, StatementShared

(* A call of free begins, for a block that nobody else is near.            *)
LEMMA BeginShared ==
  ASSUME NEW h, NEW B, NEW frees, NEW S, Shared(h, B, frees, S),
         NEW r, r \notin DOMAIN frees, NEW f \in Locals, f.at = "next", f.p \in S,
         \A s \in DOMAIN frees : Between(S, f.p, frees[s].p),
         NEW k, DOMAIN k = DOMAIN frees \cup {r}, k[r] = f,
         \A s \in DOMAIN frees : k[s] = frees[s]
  PROVE  Shared(h, B, k, S \ {f.p})
<1> DEFINE p == f.p
           T == S \ {p}
<1>1. /\ HeapType(h) /\ Tiles(h, B) /\ \A q \in B : q <= h.last
      /\ T \subseteq B /\ \A m \in T : Taken(h, m)
      /\ S \subseteq Cell /\ S \subseteq Nat /\ p \in Cell /\ p \in Nat
  BY Cells DEF Shared, Tiles
<1>2. Knows(h, B, f)
  BY DEF Shared, Knows
<1>3. ASSUME NEW s \in DOMAIN frees
      PROVE  /\ frees[s] \in Locals /\ frees[s].p \in Cell \ S /\ Knows(h, B, frees[s])
             /\ frees[s].p \in Nat
  BY Cells DEF Shared
<1>4. ASSUME NEW s \in DOMAIN k PROVE k[s] \in Locals /\ k[s].p \in Cell \ T /\ Knows(h, B, k[s])
  <2>1. CASE s = r
    BY <1>1, <1>2, <2>1
  <2>2. CASE s # r
    BY <1>3, <2>2
  <2>3. QED
    BY <2>1, <2>2
<1>5. ASSUME NEW s \in DOMAIN frees PROVE Between(T, p, frees[s].p) /\ Between(T, frees[s].p, p)
  <2>1. PICK m \in S : (p < m /\ m < frees[s].p) \/ (frees[s].p < m /\ m < p)
    BY DEF Between
  <2>2. m \in T
    BY <1>1, <1>3, <2>1
  <2>3. QED
    BY <2>1, <2>2 DEF Between
<1>6. ASSUME NEW s \in DOMAIN frees, NEW t \in DOMAIN frees, s # t
      PROVE  Between(T, frees[s].p, frees[t].p)
  <2>1. PICK m \in S : \/ frees[s].p < m /\ m < frees[t].p
                       \/ frees[t].p < m /\ m < frees[s].p
    BY <1>6 DEF Shared, Between
  <2>2. CASE m # p
    BY <2>1, <2>2 DEF Between
  <2>3. CASE m = p
    <3>1. PICK n \in T : (p < n /\ n < frees[s].p) \/ (frees[s].p < n /\ n < p)
      BY <1>5 DEF Between
    <3>2. n \in Nat /\ frees[s].p \in Nat /\ frees[t].p \in Nat /\ m \in Nat
      BY <1>1, <1>3
    <3>3. \/ frees[s].p < n /\ n < frees[t].p
          \/ frees[t].p < n /\ n < frees[s].p
      BY <2>1, <2>3, <3>1, <3>2
    <3>4. QED
      BY <3>3 DEF Between
  <2>4. QED
    BY <2>2, <2>3
<1>7. ASSUME NEW s \in DOMAIN k, NEW t \in DOMAIN k, s # t PROVE Between(T, k[s].p, k[t].p)
  <2>1. CASE s = r /\ t \in DOMAIN frees
    BY <1>5, <2>1
  <2>2. CASE t = r /\ s \in DOMAIN frees
    BY <1>5, <2>2
  <2>3. CASE s \in DOMAIN frees /\ t \in DOMAIN frees
    BY <1>6, <1>7, <2>3
  <2>4. QED
    BY <1>7, <2>1, <2>2, <2>3
<1>8. ASSUME NEW q \in B PROVE ToldOrTelling(h, k, q) /\ MergedOrJoining(h, k, q)
  BY DEF Shared, ToldOrTelling, MergedOrJoining
<1>9. QED
  BY <1>1, <1>4, <1>7, <1>8 DEF Shared

(* A call of free returns.                                                 *)
LEMMA EndShared ==
  ASSUME NEW h, NEW B, NEW frees, NEW S, Shared(h, B, frees, S),
         NEW r \in DOMAIN frees, frees[r].at = "end",
         NEW k, k = [s \in DOMAIN frees \ {r} |-> frees[s]]
  PROVE  Shared(h, B, k, S)
<1>1. DOMAIN k = DOMAIN frees \ {r} /\ \A s \in DOMAIN k : s \in DOMAIN frees /\ k[s] = frees[s]
  OBVIOUS
<1>2. ASSUME NEW q \in B PROVE ToldOrTelling(h, k, q) /\ MergedOrJoining(h, k, q)
  <2>1. ToldOrTelling(h, frees, q) /\ MergedOrJoining(h, frees, q)
    BY DEF Shared
  <2>2. \A s \in DOMAIN frees : frees[s].at # "end" => s \in DOMAIN k /\ k[s] = frees[s]
    BY <1>1
  <2>3. QED
    BY <2>1, <2>2 DEF ToldOrTelling, MergedOrJoining
<1>3. QED
  BY <1>1, <1>2 DEF Shared

(* Calls one after the other leave a heap on which calls can interrupt     *)
(* each other; and when none is under way any more the heap is at rest.    *)
LEMMA RestShared ==
  ASSUME NEW h, NEW B, AtRest(h, B), CoalescedBut(h, B, MEM), NEW frees, DOMAIN frees = {},
         NEW S, S = {p \in B : Taken(h, p)}
  PROVE  Shared(h, B, frees, S)
<1>1. HeapType(h) /\ Tiles(h, B) /\ AllTold(h, B)
  BY DEF AtRest
<1>2. ASSUME NEW q \in B PROVE q <= h.last
  <2>1. PICK l \in B : End(h, l) = MEM /\ \A p \in B : p <= l
    BY <1>1, LastBlock
  <2>2. h.last = l
    BY <1>1, <2>1 DEF AllTold, Told
  <2>3. QED
    BY <2>1, <2>2
<1>3. \A q \in B : ToldOrTelling(h, frees, q) /\ MergedOrJoining(h, frees, q)
  BY <1>1 DEF AllTold, ToldOrTelling, MergedOrJoining, CoalescedBut, Bounded
<1>4. QED
  BY <1>1, <1>2, <1>3 DEF Shared

(* When the last call has returned, the heap is at rest.                   *)
LEMMA SharedRests ==
  ASSUME NEW h, NEW B, NEW frees, DOMAIN frees = {}, NEW S, Shared(h, B, frees, S)
  PROVE  AtRest(h, B) /\ CoalescedBut(h, B, MEM)
<1>1. \A q \in B : Told(h, q) /\ (Taken(h, q) \/ Bounded(h, q))
  BY DEF Shared, ToldOrTelling, MergedOrJoining
<1>2. QED
  BY <1>1 DEF Shared, AtRest, AllTold, CoalescedBut

-----------------------------------------------------------------------------
(* The statements as actions                                               *)

(* A statement that keeps Shared keeps the invariant of the threads.       *)
LEMMA ThreadsStep ==
  ASSUME NEW B, ThreadsInv(B), NEW r \in Busy, NEW f, GoesOn(freeing, r, f, freeing'),
         UNCHANGED live, NEW C,
         Shared(heap, B, freeing, {BlockOf(m) : m \in live \ Busy}) =>
           Shared(heap', C, freeing', {BlockOf(m) : m \in live \ Busy})
  PROVE  ThreadsInv(C)' /\ C \in SUBSET Cell
<1>1. /\ DOMAIN freeing' = DOMAIN freeing /\ freeing'[r] = f /\ f.p = freeing[r].p
      /\ \A s \in DOMAIN freeing : s # r => freeing'[s] = freeing[s]
  BY DEF GoesOn
<1>2. Busy' = Busy
  BY <1>1 DEF Busy
<1>3. Shared(heap', C, freeing', {BlockOf(m) : m \in live \ Busy})
  BY DEF ThreadsInv
<1>4. \A s \in Busy : freeing'[s].p = freeing[s].p
  BY <1>1 DEF Busy
<1>5. ThreadsInv(C)'
  <2>1. {BlockOf(m) : m \in live' \ Busy'} = {BlockOf(m) : m \in live \ Busy}
    BY <1>2
  <2>2. Shared(heap, C, freeing, {BlockOf(m) : m \in live \ Busy})'
    BY <1>3, <2>1 DEF BlockOf
  <2>3. Busy' \subseteq live' /\ \A s \in Busy' : freeing'[s].p = BlockOf(s)
    BY <1>2, <1>4 DEF ThreadsInv
  <2>4. /\ \A s \in live' : s.addr \in Nat /\ BlockOf(s) \in Cell
        /\ \A s, t \in live' : s.addr = t.addr => s = t
    BY DEF ThreadsInv
  <2>5. QED
    BY <2>2, <2>3, <2>4 DEF ThreadsInv, BlockOf
<1>6. C \in SUBSET Cell
  BY <1>3 DEF Shared, Tiles
<1>7. QED
  BY <1>5, <1>6

(* The same for a statement that only reads.                               *)
LEMMA ReadingStep ==
  ASSUME NEW B, ThreadsInv(B), NEW r \in Busy, NEW f, GoesOn(freeing, r, f, freeing'),
         UNCHANGED live, Reads, Knows(heap, B, f), freeing[r].at # "tell",
         f.at = "end" => \A q \in B : End(heap, q) = f.p => Taken(heap, q)
  PROVE  \E C \in SUBSET Cell : ThreadsInv(C)'
<1>1. heap' = heap
  BY DEF Reads, heap
<1> DEFINE S == {BlockOf(m) : m \in live \ Busy}
<1>2. Shared(heap, B, freeing, S)
  BY DEF ThreadsInv
<1> HIDE DEF S
<1>3. Shared(heap, B, freeing', S)
  BY <1>2, ReadingShared
<1>4. QED
  BY <1>1, <1>3, ThreadsStep DEF S

(* What the call r knows; its local variables.                             *)
LEMMA CallKnows ==
  ASSUME NEW h, NEW B, NEW frees, NEW S, Shared(h, B, frees, S), NEW r \in DOMAIN frees
  PROVE  Knows(h, B, frees[r]) /\ frees[r] \in Locals
BY DEF Shared

(* The header of a block.                                                  *)
LEMMA BlockHeader ==
  ASSUME NEW h, NEW B, NEW frees, NEW S, Shared(h, B, frees, S), NEW q \in B
  PROVE  /\ h.header[q].size \in Int /\ h.header[q].alloc \in {0, 1} /\ q \in Int
         /\ ~Taken(h, q) <=> h.header[q].alloc = 0
<1>1. h.header[q] \in Header /\ q \in Int
  BY Cells DEF Shared, HeapType, Tiles
<1>2. QED
  BY <1>1, Cells DEF Header, Taken

(* The local variables after a statement that reads.                       *)
AfterNext(h, e) == [e EXCEPT !.next = NEXT_BLKP(h, e.p),
                             !.at = IF NEXT_BLKP(h, e.p) = NULL THEN "size" ELSE "next_alloc"]
AfterNextAlloc(h, e) == IF h.header[e.next].alloc = 0
                        THEN [e EXCEPT !.left = e.p, !.right = e.next, !.at = "sum"]
                        ELSE [e EXCEPT !.at = "size"]
AfterPrev(h, e) == [e EXCEPT !.left = PREV_BLKP(h, e.p), !.right = e.p,
                             !.at = IF PREV_BLKP(h, e.p) = NULL THEN "end" ELSE "prev_alloc"]
AfterPrevAlloc(h, e) == [e EXCEPT !.at = IF h.header[e.left].alloc = 0 THEN "sum" ELSE "end"]
AfterSize(h, e) == [e EXCEPT !.size = h.header[e.p].size, !.at = "mark"]
AfterSum(h, e) == [e EXCEPT !.size = h.header[e.left].size + h.header[e.right].size,
                            !.at = "behind"]
AfterBehind(h, e) == [e EXCEPT !.next = NEXT_BLKP(h, e.right), !.at = "put"]

(* The block behind p, as NEXT_BLKP finds it, is the one behind.           *)
LEMMA TestNext ==
  ASSUME NEW h, NEW B, NEW frees, NEW S, Shared(h, B, frees, S), NEW r \in DOMAIN frees,
         frees[r].at = "next", NEW f, f = AfterNext(h, frees[r])
  PROVE  f \in Locals /\ f.p = frees[r].p /\ Knows(h, B, f) /\ f.at # "end"
<1> DEFINE e == frees[r]
           next == NEXT_BLKP(h, e.p)
<1>1. Knows(h, B, e) /\ e \in Locals
  BY CallKnows
<1>2. e.p \in B /\ Taken(h, e.p)
  BY <1>1 DEF Knows
<1>3. next = NextOf(h, e.p) /\ next \in B \cup {NULL}
  <2> DEFINE p == e.p
  <2>1. p = frees[r].p /\ p \in B /\ frees[r].at # "tell"
    BY <1>2
  <2> HIDE DEF p
  <2>2. NEXT_BLKP(h, p) = NextOf(h, p) /\ NextOf(h, p) \in B \cup {NULL}
    BY <2>1, NextFound
  <2>3. QED
    BY <2>2 DEF p
<1>4. next \in Int
  BY <1>2, <1>3, BlockHeader DEF NULL
<1>5. /\ f.p = e.p /\ f.next = next /\ f.at = IF next = NULL THEN "size" ELSE "next_alloc"
      /\ f \in Locals
  BY <1>1, <1>4 DEF Locals, Statements, AfterNext
<1>6. CASE next = NULL
  <2>1. Bounded(h, e.p)
    BY <1>2, <1>3, <1>6, SharedBlocks DEF NextOf, Bounded
  <2>2. QED
    BY <1>2, <1>5, <1>6, <2>1 DEF Knows
<1>7. CASE next # NULL
  <2>1. next \in B /\ next = End(h, e.p)
    BY <1>3, <1>7 DEF NextOf
  <2>2. QED
    BY <1>2, <1>5, <1>7, <2>1 DEF Knows
<1>8. QED
  BY <1>6, <1>7

(* Its header tells whether to combine p with it.                          *)
LEMMA TestNextAlloc ==
  ASSUME NEW h, NEW B, NEW frees, NEW S, Shared(h, B, frees, S), NEW r \in DOMAIN frees,
         frees[r].at = "next_alloc", NEW f, f = AfterNextAlloc(h, frees[r])
  PROVE  f \in Locals /\ f.p = frees[r].p /\ Knows(h, B, f) /\ f.at # "end"
<1> DEFINE e == frees[r]
<1>1. Knows(h, B, e) /\ e \in Locals
  BY CallKnows
<1>2. e.p \in B /\ Taken(h, e.p) /\ e.next \in B /\ e.next = End(h, e.p)
  BY <1>1 DEF Knows
<1>3. ~Taken(h, e.next) <=> h.header[e.next].alloc = 0
  BY <1>2, BlockHeader
<1>4. CASE h.header[e.next].alloc = 0
  <2>1. /\ f.p = e.p /\ f.left = e.p /\ f.right = e.next /\ f.at = "sum" /\ f \in Locals
    BY <1>1, <1>4 DEF Locals, Statements, AfterNextAlloc
  <2>2. Pair(h, B, f)
    BY <1>2, <1>3, <1>4, <2>1 DEF Pair
  <2>3. QED
    BY <2>1, <2>2 DEF Knows
<1>5. CASE h.header[e.next].alloc # 0
  <2>1. f.p = e.p /\ f.at = "size" /\ f \in Locals
    BY <1>1, <1>5 DEF Locals, Statements, AfterNextAlloc
  <2>2. Bounded(h, e.p)
    BY <1>2, <1>3, <1>5 DEF Bounded
  <2>3. QED
    BY <1>2, <2>1, <2>2 DEF Knows
<1>6. QED
  BY <1>4, <1>5

(* The block before p, as PREV_BLKP finds it, is the one before.           *)
LEMMA TestPrev ==
  ASSUME NEW h, NEW B, NEW frees, NEW S, Shared(h, B, frees, S), NEW r \in DOMAIN frees,
         frees[r].at = "prev", NEW f, f = AfterPrev(h, frees[r])
  PROVE  /\ f \in Locals /\ f.p = frees[r].p /\ Knows(h, B, f)
         /\ f.at = "end" => \A q \in B : End(h, q) = f.p => Taken(h, q)
<1> DEFINE e == frees[r]
           prev == PREV_BLKP(h, e.p)
<1>1. Knows(h, B, e) /\ e \in Locals
  BY CallKnows
<1>2. e.p \in B /\ ~Taken(h, e.p) /\ Bounded(h, e.p)
  BY <1>1 DEF Knows
<1>3. IF e.p = baseptr THEN prev = NULL ELSE prev \in B /\ End(h, prev) = e.p
  <2> DEFINE p == e.p
  <2>1. p = frees[r].p /\ p \in B /\ frees[r].at # "tell"
    BY <1>2
  <2> HIDE DEF p
  <2>2. IF p = baseptr THEN PREV_BLKP(h, p) = NULL
        ELSE PREV_BLKP(h, p) \in B /\ End(h, PREV_BLKP(h, p)) = p
    BY <2>1, PrevFound
  <2>3. QED
    BY <2>2 DEF p
<1>4. prev \in Int /\ (prev \in B => prev # NULL)
  BY <1>2, <1>3, BlockHeader, SharedBlocks DEF NULL
<1>5. /\ f.p = e.p /\ f.left = prev /\ f.right = e.p
      /\ f.at = (IF prev = NULL THEN "end" ELSE "prev_alloc")
      /\ f \in Locals
  BY <1>1, <1>4 DEF Locals, Statements, AfterPrev
<1>6. CASE prev = NULL
  <2>1. e.p = baseptr
    BY <1>3, <1>4, <1>6
  <2>2. ASSUME NEW q \in B PROVE End(h, q) # e.p
    <3>1. q \in Nat /\ End(h, q) \in Nat /\ q < End(h, q) /\ 1 <= q
      BY SharedBlocks, Cells
    <3>2. QED
      BY <2>1, <3>1 DEF baseptr
  <2>3. QED
    BY <1>5, <1>6, <2>2 DEF Knows
<1>7. CASE prev # NULL
  <2>1. prev \in B /\ End(h, prev) = e.p
    BY <1>3, <1>7
  <2>2. QED
    BY <1>2, <1>5, <1>7, <2>1 DEF Knows
<1>8. QED
  BY <1>6, <1>7

(* Its header tells whether to combine it with p.                          *)
LEMMA TestPrevAlloc ==
  ASSUME NEW h, NEW B, NEW frees, NEW S, Shared(h, B, frees, S), NEW r \in DOMAIN frees,
         frees[r].at = "prev_alloc", NEW f, f = AfterPrevAlloc(h, frees[r])
  PROVE  /\ f \in Locals /\ f.p = frees[r].p /\ Knows(h, B, f)
         /\ f.at = "end" => \A q \in B : End(h, q) = f.p => Taken(h, q)
<1> DEFINE e == frees[r]
<1>1. Knows(h, B, e) /\ e \in Locals
  BY CallKnows
<1>2. /\ e.p \in B /\ ~Taken(h, e.p) /\ Bounded(h, e.p)
      /\ e.left \in B /\ End(h, e.left) = e.p /\ e.right = e.p
  BY <1>1 DEF Knows
<1>3. ~Taken(h, e.left) <=> h.header[e.left].alloc = 0
  BY <1>2, BlockHeader
<1>4. /\ f.p = e.p /\ f.left = e.left /\ f.right = e.right
      /\ f.at = (IF h.header[e.left].alloc = 0 THEN "sum" ELSE "end")
      /\ f \in Locals
  BY <1>1 DEF Locals, Statements, AfterPrevAlloc
<1>5. CASE h.header[e.left].alloc = 0
  <2>1. Pair(h, B, f)
    BY <1>2, <1>3, <1>4, <1>5 DEF Pair
  <2>2. QED
    BY <1>4, <1>5, <2>1 DEF Knows
<1>6. CASE h.header[e.left].alloc # 0
  <2>1. \A q \in B : End(h, q) = e.p => q = e.left
    BY <1>2, SharedBlocks
  <2>2. QED
    BY <1>3, <1>4, <1>6, <2>1 DEF Knows
<1>7. QED
  BY <1>5, <1>6

(* The size that p is going to be marked with is its own.                  *)
LEMMA ReadSize ==
  ASSUME NEW h, NEW B, NEW frees, NEW S, Shared(h, B, frees, S), NEW r \in DOMAIN frees,
         frees[r].at = "size", NEW f, f = AfterSize(h, frees[r])
  PROVE  f \in Locals /\ f.p = frees[r].p /\ Knows(h, B, f) /\ f.at # "end"
<1> DEFINE e == frees[r]
<1>1. Knows(h, B, e) /\ e \in Locals
  BY CallKnows
<1>2. e.p \in B /\ Taken(h, e.p) /\ Bounded(h, e.p)
  BY <1>1 DEF Knows
<1>3. h.header[e.p].size \in Int
  BY <1>2, BlockHeader
<1>4. f.p = e.p /\ f.size = h.header[e.p].size /\ f.at = "mark" /\ f \in Locals
  BY <1>1, <1>3 DEF Locals, Statements, AfterSize
<1>5. QED
  BY <1>2, <1>4 DEF Knows

(* The sum that Combine reads is that of both blocks.                      *)
LEMMA ReadSum ==
  ASSUME NEW h, NEW B, NEW frees, NEW S, Shared(h, B, frees, S), NEW r \in DOMAIN frees,
         frees[r].at = "sum", NEW f, f = AfterSum(h, frees[r])
  PROVE  f \in Locals /\ f.p = frees[r].p /\ Knows(h, B, f) /\ f.at # "end"
<1> DEFINE e == frees[r]
<1>1. Knows(h, B, e) /\ e \in Locals
  BY CallKnows
<1>2. Pair(h, B, e)
  BY <1>1 DEF Knows
<1>3. h.header[e.left].size + h.header[e.right].size \in Int
  <2>1. h.header[e.left].size \in Int /\ h.header[e.right].size \in Int
    BY <1>2, BlockHeader DEF Pair
  <2>2. QED
    BY <2>1
<1>4. /\ f.p = e.p /\ f.left = e.left /\ f.right = e.right /\ f.at = "behind"
      /\ f.size = SizeOfBoth(h, e.left, e.right) /\ f \in Locals
  BY <1>1, <1>3 DEF Locals, Statements, AfterSum, SizeOfBoth
<1>5. Pair(h, B, f)
  BY <1>2, <1>4 DEF Pair
<1>6. QED
  BY <1>4, <1>5 DEF Knows

(* The block behind both is the one that is going to be told.              *)
LEMMA ReadBehind ==
  ASSUME NEW h, NEW B, NEW frees, NEW S, Shared(h, B, frees, S), NEW r \in DOMAIN frees,
         frees[r].at = "behind", NEW f, f = AfterBehind(h, frees[r])
  PROVE  f \in Locals /\ f.p = frees[r].p /\ Knows(h, B, f) /\ f.at # "end"
<1> DEFINE e == frees[r]
<1>1. Knows(h, B, e) /\ e \in Locals
  BY CallKnows
<1>2. Pair(h, B, e) /\ e.size = SizeOfBoth(h, e.left, e.right)
  BY <1>1 DEF Knows
<1>3. NEXT_BLKP(h, e.right) = NextOf(h, e.right) /\ NextOf(h, e.right) \in B \cup {NULL}
  <2> DEFINE p == e.p
             q == e.right
  <2>1. p = frees[r].p /\ p \in B /\ q \in B /\ (q = p \/ q = End(h, p)) /\ frees[r].at # "tell"
    BY <1>2 DEF Pair
  <2> HIDE DEF p, q
  <2>2. NEXT_BLKP(h, q) = NextOf(h, q) /\ NextOf(h, q) \in B \cup {NULL}
    BY <2>1, NextFound
  <2>3. QED
    BY <2>2 DEF q
<1>4. NEXT_BLKP(h, e.right) \in Int
  BY <1>3, BlockHeader DEF NULL
<1>5. /\ f.p = e.p /\ f.left = e.left /\ f.right = e.right /\ f.at = "put" /\ f.size = e.size
      /\ f.next = NextOf(h, e.right) /\ f \in Locals
  BY <1>1, <1>3, <1>4 DEF Locals, Statements, AfterBehind
<1>6. Pair(h, B, f)
  BY <1>2, <1>5 DEF Pair
<1>7. QED
  BY <1>2, <1>5, <1>6 DEF Knows

(* The tests of free, and what it reads.                                   *)
LEMMA TestsKept ==
  ASSUME NEW B, ThreadsInv(B), NEW r \in Busy, free_tests(r)
  PROVE  \E C \in SUBSET Cell : ThreadsInv(C)'
<1> DEFINE e    == freeing[r]
           h    == heap
           next == NEXT_BLKP(h, e.p)
           prev == PREV_BLKP(h, e.p)
           S    == {BlockOf(m) : m \in live \ Busy}
<1>1. Shared(h, B, freeing, S) /\ r \in DOMAIN freeing
  BY DEF ThreadsInv, Busy
<1>2. UNCHANGED live /\ Reads
  BY DEF free_tests
<1>3. \E f : /\ f \in Locals /\ f.p = e.p /\ Knows(h, B, f) /\ e.at \notin {"end", "tell"}
             /\ f.at = "end" => \A q \in B : End(h, q) = f.p => Taken(h, q)
             /\ freeing' = [freeing EXCEPT ![r] = f]
  <2>1. CASE /\ e.at = "next"
             /\ Goes(r, [e EXCEPT !.next = next, !.at = IF next = NULL THEN "size" ELSE "next_alloc"])
    <3> DEFINE f == AfterNext(h, e)
    <3>1. freeing' = [freeing EXCEPT ![r] = f] /\ e.at \notin {"end", "tell"}
      BY <2>1 DEF Goes, heap, AfterNext
    <3> HIDE DEF S, h
    <3>2. f \in Locals /\ f.p = e.p /\ Knows(h, B, f) /\ f.at # "end"
      BY <1>1, <2>1, TestNext
    <3> HIDE DEF f
    <3>3. QED
      BY <3>1, <3>2
  <2>2. CASE /\ e.at = "next_alloc"
             /\ Goes(r, IF header[e.next].alloc = 0
                        THEN [e EXCEPT !.left = e.p, !.right = e.next, !.at = "sum"]
                        ELSE [e EXCEPT !.at = "size"])
    <3> DEFINE f == AfterNextAlloc(h, e)
    <3>1. freeing' = [freeing EXCEPT ![r] = f] /\ e.at \notin {"end", "tell"}
      BY <2>2 DEF Goes, heap, AfterNextAlloc
    <3> HIDE DEF S, h
    <3>2. f \in Locals /\ f.p = e.p /\ Knows(h, B, f) /\ f.at # "end"
      BY <1>1, <2>2, TestNextAlloc
    <3> HIDE DEF f
    <3>3. QED
      BY <3>1, <3>2
  <2>3. CASE /\ e.at = "prev"
             /\ Goes(r, [e EXCEPT !.left = prev, !.right = e.p,
                                  !.at = IF prev = NULL THEN "end" ELSE "prev_alloc"])
    <3> DEFINE f == AfterPrev(h, e)
    <3>1. freeing' = [freeing EXCEPT ![r] = f] /\ e.at \notin {"end", "tell"}
      BY <2>3 DEF Goes, heap, AfterPrev
    <3> HIDE DEF S, h
    <3>2. /\ f \in Locals /\ f.p = e.p /\ Knows(h, B, f)
          /\ f.at = "end" => \A q \in B : End(h, q) = f.p => Taken(h, q)
      BY <1>1, <2>3, TestPrev
    <3> HIDE DEF f
    <3>3. QED
      BY <3>1, <3>2
  <2>4. CASE /\ e.at = "prev_alloc"
             /\ Goes(r, [e EXCEPT !.at = IF header[e.left].alloc = 0 THEN "sum" ELSE "end"])
    <3> DEFINE f == AfterPrevAlloc(h, e)
    <3>1. freeing' = [freeing EXCEPT ![r] = f] /\ e.at \notin {"end", "tell"}
      BY <2>4 DEF Goes, heap, AfterPrevAlloc
    <3> HIDE DEF S, h
    <3>2. /\ f \in Locals /\ f.p = e.p /\ Knows(h, B, f)
          /\ f.at = "end" => \A q \in B : End(h, q) = f.p => Taken(h, q)
      BY <1>1, <2>4, TestPrevAlloc
    <3> HIDE DEF f
    <3>3. QED
      BY <3>1, <3>2
  <2>5. QED
    BY <2>1, <2>2, <2>3, <2>4 DEF free_tests
<1>4. PICK f : /\ f \in Locals /\ f.p = e.p /\ Knows(h, B, f) /\ e.at \notin {"end", "tell"}
               /\ f.at = "end" => \A q \in B : End(h, q) = f.p => Taken(h, q)
               /\ freeing' = [freeing EXCEPT ![r] = f]
  BY <1>3
<1>5. GoesOn(freeing, r, f, freeing')
  BY <1>1, <1>4 DEF GoesOn
<1>6. QED
  BY <1>2, <1>4, <1>5, ReadingStep

(* p marked free as it is.                                                 *)
LEMMA AloneKept ==
  ASSUME NEW B, ThreadsInv(B), NEW r \in Busy, free_alone(r)
  PROVE  \E C \in SUBSET Cell : ThreadsInv(C)'
<1> DEFINE e == freeing[r]
           h == heap
           S == {BlockOf(m) : m \in live \ Busy}
<1>1. Shared(h, B, freeing, S) /\ r \in DOMAIN freeing
  BY DEF ThreadsInv, Busy
<1>2. UNCHANGED live
  BY DEF free_alone
<1>3. CASE e.at = "size" /\ Goes(r, [e EXCEPT !.size = header[e.p].size, !.at = "mark"]) /\ Reads
  <2> DEFINE f == AfterSize(h, e)
  <2>1. freeing' = [freeing EXCEPT ![r] = f] /\ e.at \notin {"end", "tell"}
    BY <1>3 DEF Goes, heap, AfterSize
  <2>2. f \in Locals /\ f.p = e.p /\ Knows(h, B, f) /\ f.at # "end"
    <3> HIDE DEF S, h
    <3>1. QED
      BY <1>1, <1>3, ReadSize
  <2> HIDE DEF f
  <2>3. GoesOn(freeing, r, f, freeing')
    BY <1>1, <2>1, <2>2 DEF GoesOn
  <2>4. QED
    BY <1>2, <1>3, <2>1, <2>2, <2>3, ReadingStep
<1>4. CASE /\ e.at = "mark" /\ Goes(r, [e EXCEPT !.at = "prev"])
           /\ Puts([h EXCEPT !.header[e.p].size = e.size, !.header[e.p].alloc = 0])
  <2> DEFINE f == [e EXCEPT !.at = "prev"]
             g == Marked(h, e.p, e.size, 0)
  <2>1. e \in Locals /\ freeing' = [freeing EXCEPT ![r] = f] /\ e.at = "mark"
    BY <1>1, <1>4, CallKnows DEF Goes
  <2>2. f \in Locals /\ f.p = e.p /\ f.at = "prev"
    BY <2>1 DEF Locals, Statements
  <2>3. header' = g.header /\ LASTPTR' = g.last
    BY <1>4 DEF Puts, Marked
  <2>4. g = Marked(h, f.p, freeing[r].size, 0)
    BY <2>2
  <2> HIDE DEF f, g
  <2>5. GoesOn(freeing, r, f, freeing')
    BY <1>1, <2>1, <2>2 DEF GoesOn
  <2>6. Shared(g, B, freeing', S)
    <3> HIDE DEF S, h
    <3>1. QED
      BY <1>1, <2>1, <2>2, <2>4, <2>5, MarkingShared
  <2>7. heap' = g
    BY <2>3, <2>6 DEF heap, Shared, HeapType
  <2>8. QED
    BY <1>2, <2>5, <2>6, <2>7, ThreadsStep
<1>5. QED
  BY <1>3, <1>4 DEF free_alone

(* Two blocks combined.                                                    *)
LEMMA CombineKept ==
  ASSUME NEW B, ThreadsInv(B), NEW r \in Busy, combine(r)
  PROVE  \E C \in SUBSET Cell : ThreadsInv(C)'
<1> DEFINE e == freeing[r]
           h == heap
           S == {BlockOf(m) : m \in live \ Busy}
<1>1. Shared(h, B, freeing, S) /\ r \in DOMAIN freeing
  BY DEF ThreadsInv, Busy
<1>2. UNCHANGED live
  BY DEF combine
<1>3. CASE /\ e.at = "sum" /\ Reads
           /\ Goes(r, [e EXCEPT !.size = header[e.left].size + header[e.right].size,
                                !.at = "behind"])
  <2> DEFINE f == AfterSum(h, e)
  <2>1. freeing' = [freeing EXCEPT ![r] = f] /\ e.at \notin {"end", "tell"}
    BY <1>3 DEF Goes, heap, AfterSum
  <2>2. f \in Locals /\ f.p = e.p /\ Knows(h, B, f) /\ f.at # "end"
    <3> HIDE DEF S, h
    <3>1. QED
      BY <1>1, <1>3, ReadSum
  <2> HIDE DEF f
  <2>3. GoesOn(freeing, r, f, freeing')
    BY <1>1, <2>1, <2>2 DEF GoesOn
  <2>4. QED
    BY <1>2, <1>3, <2>1, <2>2, <2>3, ReadingStep
<1>4. CASE /\ e.at = "behind" /\ Reads
           /\ Goes(r, [e EXCEPT !.next = NEXT_BLKP(h, e.right), !.at = "put"])
  <2> DEFINE f == AfterBehind(h, e)
  <2>1. freeing' = [freeing EXCEPT ![r] = f] /\ e.at \notin {"end", "tell"}
    BY <1>4 DEF Goes, heap, AfterBehind
  <2>2. f \in Locals /\ f.p = e.p /\ Knows(h, B, f) /\ f.at # "end"
    <3> HIDE DEF S, h
    <3>1. QED
      BY <1>1, <1>4, ReadBehind
  <2> HIDE DEF f
  <2>3. GoesOn(freeing, r, f, freeing')
    BY <1>1, <2>1, <2>2 DEF GoesOn
  <2>4. QED
    BY <1>2, <1>4, <2>1, <2>2, <2>3, ReadingStep
<1>5. CASE /\ e.at = "put" /\ Goes(r, [e EXCEPT !.at = "tell"])
           /\ Puts([h EXCEPT !.header[e.left].size = e.size, !.header[e.left].alloc = 0])
  <2> DEFINE f == [e EXCEPT !.at = "tell"]
             g == PutSum(h, e)
             C == B \ {e.right}
  <2>1. e \in Locals /\ freeing' = [freeing EXCEPT ![r] = f] /\ e.at = "put"
    BY <1>1, <1>5, CallKnows DEF Goes
  <2>2. /\ f \in Locals /\ f.p = e.p /\ f.at = "tell" /\ f.left = e.left /\ f.size = e.size
        /\ f.next = e.next
    BY <2>1 DEF Locals, Statements
  <2>3. header' = g.header /\ LASTPTR' = g.last
    BY <1>5 DEF Puts, PutSum, Marked
  <2>4. g = PutSum(h, freeing[r])
    OBVIOUS
  <2> HIDE DEF f, g
  <2>5. GoesOn(freeing, r, f, freeing')
    BY <1>1, <2>1, <2>2 DEF GoesOn
  <2>6. Shared(g, C, freeing', S)
    <3> HIDE DEF S, h
    <3>1. QED
      BY <1>1, <2>1, <2>2, <2>4, <2>5, PuttingShared
  <2>7. heap' = g
    BY <2>3, <2>6 DEF heap, Shared, HeapType
  <2> HIDE DEF C
  <2>8. QED
    BY <1>2, <2>5, <2>6, <2>7, ThreadsStep
<1>6. CASE /\ e.at = "tell"
           /\ Goes(r, [e EXCEPT !.at = IF e.left = e.p THEN "prev" ELSE "end"])
           /\ Puts(Announce(h, e.next, e.left, e.size))
  <2> DEFINE f == [e EXCEPT !.at = IF e.left = e.p THEN "prev" ELSE "end"]
             g == TellSum(h, e)
  <2>1. e \in Locals /\ freeing' = [freeing EXCEPT ![r] = f] /\ e.at = "tell"
    BY <1>1, <1>6, CallKnows DEF Goes
  <2>2. f \in Locals /\ f.p = e.p /\ f.at = IF freeing[r].left = f.p THEN "prev" ELSE "end"
    BY <2>1 DEF Locals, Statements
  <2>3. header' = g.header /\ LASTPTR' = g.last
    BY <1>6 DEF Puts, TellSum
  <2>4. g = TellSum(h, freeing[r])
    OBVIOUS
  <2> HIDE DEF f, g
  <2>5. GoesOn(freeing, r, f, freeing')
    BY <1>1, <2>1, <2>2 DEF GoesOn
  <2>6. Shared(g, B, freeing', S)
    <3> HIDE DEF S, h
    <3>1. QED
      BY <1>1, <2>1, <2>2, <2>4, <2>5, TellingShared
  <2>7. heap' = g
    BY <2>3, <2>6 DEF heap, Shared, HeapType
  <2>8. QED
    BY <1>2, <2>5, <2>6, <2>7, ThreadsStep
<1>7. QED
  BY <1>3, <1>4, <1>5, <1>6 DEF combine

(* Another call begins.  It is apart from those under way, or the threads  *)
(* have clashed.                                                           *)
LEMMA BeginKept ==
  ASSUME NEW B, ThreadsInv(B), NEW r \in live, free_begin(r)
  PROVE  /\ ~clashed' => \E C \in SUBSET Cell : ThreadsInv(C)'
         /\ HeapType(heap') /\ Busy' # {} /\ Busy' \subseteq live'
<1> DEFINE f == [at |-> "next", p |-> r.addr - DSIZE, left |-> NULL, right |-> NULL,
                 size |-> 0, next |-> NULL]
           S == {BlockOf(m) : m \in live \ Busy}
           k == [s \in Busy \cup {r} |-> IF s = r THEN f ELSE freeing[s]]
<1>1. /\ Shared(heap, B, freeing, S) /\ Busy \subseteq live
      /\ \A m \in live : m.addr \in Nat /\ BlockOf(m) \in Cell
      /\ \A m, n \in live : m.addr = n.addr => m = n
      /\ \A s \in Busy : freeing[s].p = BlockOf(s)
  BY DEF ThreadsInv
<1>2. /\ r \in live \ Busy /\ r \notin Busy /\ heap' = heap /\ live' = live /\ freeing' = k
      /\ clashed' = \E s \in Busy : ~Apart(r, s)
  BY DEF free_begin, Reads, heap
<1>3. /\ DOMAIN k = Busy \cup {r} /\ k[r] = f
      /\ \A s \in Busy : k[s] = freeing[s]
  BY <1>2
<1>4. f \in Locals /\ f.at = "next" /\ f.p = BlockOf(r)
  <2>1. f.p \in Int /\ NULL \in Int
    BY <1>1, <1>2 DEF DSIZE, NULL
  <2>2. QED
    BY <2>1 DEF Locals, Statements, BlockOf
<1>5. Busy' = Busy \cup {r} /\ f.p \in S
  BY <1>2, <1>3, <1>4 DEF Busy
<1> HIDE DEF f, k
<1>6. HeapType(heap') /\ Busy' # {} /\ Busy' \subseteq live'
  BY <1>1, <1>2, <1>5 DEF Shared
<1>7. ASSUME ~clashed' PROVE ThreadsInv(B)' /\ B \in SUBSET Cell
  <2>1. ASSUME NEW s \in Busy PROVE Between(S, f.p, freeing[s].p)
    <3>1. Apart(r, s)
      BY <1>2, <1>7
    <3>2. PICK m \in live \ Busy :
            (r.addr < m.addr /\ m.addr < s.addr) \/ (s.addr < m.addr /\ m.addr < r.addr)
      BY <3>1 DEF Apart
    <3>3. /\ BlockOf(m) \in S /\ f.p = r.addr - 1 /\ freeing[s].p = s.addr - 1
          /\ BlockOf(m) = m.addr - 1
      BY <1>1, <1>4 DEF BlockOf, DSIZE
    <3>4. r.addr \in Nat /\ m.addr \in Nat /\ s.addr \in Nat
      BY <1>1
    <3>5. \/ f.p < BlockOf(m) /\ BlockOf(m) < freeing[s].p
          \/ freeing[s].p < BlockOf(m) /\ BlockOf(m) < f.p
      BY <3>2, <3>3, <3>4
    <3>6. QED
      BY <3>3, <3>5 DEF Between
  <2>2. {BlockOf(m) : m \in live' \ Busy'} = S \ {f.p}
    <3>1. ASSUME NEW m \in live, BlockOf(m) = BlockOf(r) PROVE m = r
      BY <1>1, <1>2, <3>1 DEF BlockOf, DSIZE
    <3>2. QED
      BY <1>2, <1>4, <1>5, <3>1
  <2> HIDE DEF S
  <2>3. Shared(heap, B, k, S \ {f.p})
    BY <1>1, <1>2, <1>3, <1>4, <1>5, <2>1, BeginShared DEF Busy
  <2>4. Shared(heap', B, freeing', {BlockOf(m) : m \in live' \ Busy'})
    BY <1>2, <2>2, <2>3
  <2>5. \A s \in Busy' : freeing'[s].p = BlockOf(s)
    BY <1>1, <1>2, <1>3, <1>4, <1>5
  <2>6. Shared(heap, B, freeing, {BlockOf(m) : m \in live \ Busy})'
    BY <2>4 DEF BlockOf
  <2>7. B \in SUBSET Cell
    BY <1>1 DEF Shared, Tiles
  <2>8. QED
    BY <1>1, <1>2, <1>6, <2>5, <2>6, <2>7 DEF ThreadsInv, BlockOf
<1>8. QED
  BY <1>6, <1>7

(* A call returns.                                                         *)
LEMMA EndKept ==
  ASSUME NEW B, ThreadsInv(B), NEW r \in Busy, free_end(r)
  PROVE  \E C \in SUBSET Cell : ThreadsInv(C)'
<1> DEFINE S == {BlockOf(m) : m \in live \ Busy}
           k == [s \in Busy \ {r} |-> freeing[s]]
<1>1. /\ Shared(heap, B, freeing, S) /\ Busy \subseteq live
      /\ \A m \in live : m.addr \in Nat /\ BlockOf(m) \in Cell
      /\ \A m, n \in live : m.addr = n.addr => m = n
      /\ \A s \in Busy : freeing[s].p = BlockOf(s)
  BY DEF ThreadsInv
<1>2. /\ freeing[r].at = "end" /\ freeing' = k /\ live' = live \ {r} /\ heap' = heap
  BY DEF free_end, Reads, heap
<1>3. Busy' = Busy \ {r} /\ \A s \in Busy' : freeing'[s] = freeing[s]
  BY <1>2 DEF Busy
<1>4. {BlockOf(m) : m \in live' \ Busy'} = S
  BY <1>2, <1>3
<1> HIDE DEF S
<1>5. Shared(heap, B, k, S)
  <2>1. k = [s \in DOMAIN freeing \ {r} |-> freeing[s]] /\ r \in DOMAIN freeing
    BY DEF Busy
  <2> HIDE DEF k
  <2>2. QED
    BY <1>1, <1>2, <2>1, EndShared
<1> HIDE DEF k
<1>6. Shared(heap', B, freeing', {BlockOf(m) : m \in live' \ Busy'})
  BY <1>2, <1>4, <1>5
<1>7. Shared(heap, B, freeing, {BlockOf(m) : m \in live \ Busy})'
  BY <1>6 DEF BlockOf
<1>8. B \in SUBSET Cell
  BY <1>1 DEF Shared, Tiles
<1>9. ThreadsInv(B)'
  BY <1>1, <1>2, <1>3, <1>7 DEF ThreadsInv, BlockOf
<1>10. QED
  BY <1>8, <1>9

(* The calls that interrupt each other.                                    *)
LEMMA InterruptedKept ==
  ASSUME FreesInv, threads
  PROVE  FreesInv' /\ UNCHANGED result
         /\ (live' = live \/ \E r \in live : live' = live \ {r})
<1>1. /\ phase = "threads" /\ ~clashed /\ phase' = "threads" /\ result' = result
      /\ result \in Cell \cup {NULL}
  BY DEF threads, FreesInv
<1>2. PICK B \in SUBSET Cell : ThreadsInv(B)
  BY <1>1 DEF FreesInv
<1>3. ASSUME NEW r \in live, free_begin(r)
      PROVE  FreesInv' /\ live' = live
  <2>1. /\ ~clashed' => \E C \in SUBSET Cell : ThreadsInv(C)'
        /\ HeapType(heap') /\ Busy' # {} /\ Busy' \subseteq live'
    BY <1>2, <1>3, BeginKept
  <2>2. live' = live
    BY <1>3 DEF free_begin
  <2>3. QED
    BY <1>1, <2>1, <2>2 DEF FreesInv, HeapType
<1>4. ASSUME NEW r \in Busy, free_tests(r) \/ free_alone(r) \/ combine(r)
      PROVE  FreesInv' /\ live' = live
  <2>1. \E C \in SUBSET Cell : ThreadsInv(C)'
    BY <1>2, <1>4, TestsKept, AloneKept, CombineKept
  <2>2. UNCHANGED <<live, clashed>>
    BY <1>4 DEF free_tests, free_alone, combine
  <2>3. QED
    BY <1>1, <2>1, <2>2 DEF FreesInv
<1>5. ASSUME NEW r \in Busy, free_end(r)
      PROVE  FreesInv' /\ r \in live /\ live' = live \ {r}
  <2>1. \E C \in SUBSET Cell : ThreadsInv(C)'
    BY <1>2, <1>5, EndKept
  <2>2. UNCHANGED clashed /\ live' = live \ {r} /\ r \in live
    BY <1>2, <1>5 DEF free_end, ThreadsInv
  <2>3. QED
    BY <1>1, <2>1, <2>2 DEF FreesInv
<1>6. QED
  BY <1>1, <1>3, <1>4, <1>5 DEF threads

-----------------------------------------------------------------------------
(* The heap in every behaviour *)

(* It holds at the start.                                                  *)
LEMMA FreesStart == FreesInit => FreesInv
<1>1. SUFFICES ASSUME Init, phase = "init", freeing = <<>>, clashed = FALSE PROVE FreesInv
  BY DEF FreesInit
<1>2. Busy = {}
  BY <1>1 DEF Busy
<1>3. \E B \in SUBSET Cell : Booked(heap, B, live)
  BY <1>1, HeapStarts
<1>4. result = NULL
  BY <1>1 DEF Init
<1>5. QED
  BY <1>1, <1>2, <1>3, <1>4 DEF FreesInv

(* The threads start with every taken block in the hands of its user.      *)
LEMMA ThreadsStart ==
  ASSUME NEW B, Booked(heap, B, live), Busy = {}
  PROVE  ThreadsInv(B)
<1>1. /\ AtRest(heap, B) /\ CoalescedBut(heap, B, MEM) /\ live = Regions(heap, B)
      /\ B \subseteq Nat /\ B \subseteq Cell
  BY BlocksInCell DEF Booked, AtRest, Tiles
<1>2. \A m \in live : \E p \in B : Taken(heap, p) /\ m = Region(heap, p)
  BY <1>1 DEF Regions
<1>3. \A p \in B : BlockOf(Region(heap, p)) = p /\ Region(heap, p).addr = p + 1
  BY <1>1 DEF BlockOf, Region, DSIZE
<1>4. {BlockOf(m) : m \in live \ Busy} = {p \in B : Taken(heap, p)}
  <2>1. \A p \in B : Taken(heap, p) => Region(heap, p) \in live
    BY <1>1 DEF Regions
  <2>2. QED
    BY <1>2, <1>3, <2>1
<1>5. Shared(heap, B, freeing, {BlockOf(m) : m \in live \ Busy})
  BY <1>1, <1>4, RestShared DEF Busy
<1>6. ASSUME NEW m \in live PROVE m.addr \in Nat /\ BlockOf(m) \in Cell
  BY <1>1, <1>2, <1>3
<1>7. ASSUME NEW m \in live, NEW n \in live, m.addr = n.addr PROVE m = n
  <2>1. PICK p \in B : m = Region(heap, p)
    BY <1>2
  <2>2. PICK q \in B : n = Region(heap, q)
    BY <1>2
  <2>3. p + 1 = q + 1 /\ p \in Nat /\ q \in Nat
    BY <1>1, <1>3, <1>7, <2>1, <2>2
  <2>4. QED
    BY <2>1, <2>2, <2>3
<1>8. QED
  BY <1>5, <1>6, <1>7 DEF ThreadsInv

(* The calls that nobody interrupts.                                       *)
LEMMA UninterruptedKept ==
  ASSUME FreesInv, uninterrupted
  PROVE  /\ FreesInv'
         /\ Abstract!Next \/ UNCHANGED <<live, result>>
<1>1. UNCHANGED <<freeing, clashed>> /\ result \in Cell \cup {NULL}
  BY DEF uninterrupted, FreesInv
<1>2. SUFFICES ASSUME phase \in {"init", "alone"},
                      \/ (\E size \in Sizes : malloc(size)) /\ UNCHANGED phase
                      \/ (\E r \in live : free(r)) /\ phase' = "alone"
                      \/ phase' = "threads" /\ UNCHANGED vars
               PROVE  /\ FreesInv'
                      /\ Abstract!Next \/ UNCHANGED <<live, result>>
  BY DEF uninterrupted
<1>3. PICK B \in SUBSET Cell : Booked(heap, B, live)
  BY <1>2 DEF FreesInv
<1>4. Busy = {} /\ Busy' = {} /\ ~clashed /\ ~clashed'
  <2>1. Busy = {} /\ ~clashed
    BY <1>2 DEF FreesInv
  <2>2. QED
    BY <1>1, <2>1 DEF Busy
<1>5. ASSUME NEW size \in Sizes, malloc(size), UNCHANGED phase
      PROVE  FreesInv' /\ Abstract!Next
  <2>1. /\ \E C \in SUBSET Cell : Booked(heap', C, live')
        /\ result' \in Cell \cup {NULL}
        /\ Abstract!Malloc(size)
    BY <1>3, <1>5, MallocKept
  <2>2. FreesInv'
    BY <1>2, <1>4, <1>5, <2>1 DEF FreesInv
  <2>3. QED
    BY <2>1, <2>2 DEF Abstract!Next
<1>6. ASSUME NEW r \in live, free(r), phase' = "alone"
      PROVE  FreesInv' /\ Abstract!Next
  <2>1. \E C \in SUBSET Cell : Booked(heap', C, live')
    BY <1>3, <1>6, FreeKept
  <2>2. live' = live \ {r} /\ result' = result
    BY <1>6 DEF free
  <2>3. FreesInv'
    BY <1>1, <1>4, <1>6, <2>1, <2>2 DEF FreesInv
  <2>4. QED
    BY <2>2, <2>3 DEF Abstract!Next, Abstract!Free
<1>7. ASSUME phase' = "threads", UNCHANGED vars
      PROVE  FreesInv' /\ UNCHANGED <<live, result>>
  <2>1. heap' = heap /\ live' = live /\ result' = result /\ freeing' = freeing
    BY <1>1, <1>7 DEF vars, heap
  <2>2. ThreadsInv(B)
    BY <1>3, <1>4, ThreadsStart
  <2>3. ThreadsInv(B)'
    BY <2>1, <2>2 DEF ThreadsInv, Busy, BlockOf
  <2>4. QED
    BY <1>1, <1>4, <1>7, <2>1, <2>3 DEF FreesInv
<1>8. QED
  BY <1>2, <1>5, <1>6, <1>7

(* Between calls the heap is one of blocks that all know their neighbours. *)
LEMMA HeapRests ==
  ASSUME FreesInv, Busy = {}
  PROVE  \E B \in SUBSET Cell : AtRest(heap, B) /\ CoalescedBut(heap, B, MEM)
<1>1. CASE phase # "threads"
  BY <1>1 DEF FreesInv, Booked
<1>2. CASE phase = "threads"
  <2>1. PICK B \in SUBSET Cell : ThreadsInv(B)
    BY <1>2 DEF FreesInv
  <2>2. DOMAIN freeing = {} /\ \E S : Shared(heap, B, freeing, S)
    BY <2>1 DEF ThreadsInv, Busy
  <2>3. QED
    BY <2>2, SharedRests
<1>3. QED
  BY <1>1, <1>2

(* What the inductive invariant gives.                                     *)
LEMMA FreesSafe == FreesInv => TypeOK /\ TiledAtRest /\ MergedAtRest
<1>1. SUFFICES ASSUME FreesInv PROVE TypeOK /\ TiledAtRest /\ MergedAtRest
  OBVIOUS
<1>2. TypeOK
  <2>1. HeapType(heap)
    <3>1. CASE clashed \/ Busy = {}
      BY <1>1, <3>1, HeapRests DEF FreesInv, AtRest
    <3>2. CASE ~clashed /\ Busy # {}
      BY <1>1, <3>2 DEF FreesInv, ThreadsInv, Shared
    <3>3. QED
      BY <3>1, <3>2
  <2>2. header \in [Cell -> Header] /\ LASTPTR \in Cell
    BY <2>1 DEF HeapType, heap
  <2>3. QED
    BY <1>1, <2>2 DEF TypeOK, FreesInv, Header
<1>3. ASSUME Busy = {} PROVE Tiled /\ Merged
  <2>1. PICK B \in SUBSET Cell : AtRest(heap, B) /\ CoalescedBut(heap, B, MEM)
    BY <1>1, <1>3, HeapRests
  <2>2. /\ HeapType(heap) /\ Tiles(heap, B) /\ heap.last = LASTPTR /\ heap.header = header
        /\ \A q \in B : Told(heap, q)
    BY <2>1 DEF AtRest, AllTold, heap
  <2>3. Blocks(heap) = B
    <3>1. baseptr \in B
      BY <2>2 DEF Tiles
    <3>2. QED
      BY <2>1, <3>1, RestNext
  <2>4. LASTPTR \in B /\ End(heap, LASTPTR) = MEM
    <3>1. PICK l \in B : End(heap, l) = MEM
      BY <2>2, LastBlock
    <3>2. heap.last = l
      BY <2>2, <3>1 DEF Told
    <3>3. QED
      BY <2>2, <3>1, <3>2
  <2>5. ASSUME NEW p \in B \ {LASTPTR}
        PROVE  /\ End(heap, p) \in B /\ header[End(heap, p)].prev = header[p].size
               /\ Taken(heap, p) \/ Taken(heap, End(heap, p))
    <3>1. End(heap, p) # MEM
      BY <2>2, <2>5 DEF Told
    <3>2. End(heap, p) \in B
      BY <2>2, <3>1 DEF Tiles
    <3>3. heap.header[End(heap, p)].prev = heap.header[p].size
      BY <2>2, <3>1 DEF Told
    <3>4. Taken(heap, p) \/ Taken(heap, End(heap, p))
      BY <2>1, <3>1 DEF CoalescedBut, Bounded
    <3>5. QED
      BY <2>2, <3>2, <3>3, <3>4
  <2>6. Tiled
    <3>1. \A p \in B : header[p].size > 0
      BY <2>2 DEF Tiles
    <3>2. QED
      BY <2>2, <2>3, <2>4, <2>5, <3>1 DEF Tiled, End
  <2>7. Merged
    BY <2>2, <2>3, <2>5 DEF Merged, End, Taken
  <2>8. QED
    BY <2>6, <2>7
<1>4. QED
  BY <1>2, <1>3 DEF TiledAtRest, MergedAtRest

(* Every step of the threads keeps the invariant, and is one of the        *)
(* abstract allocator or changes nothing that it sees.                     *)
LEMMA FreesStep ==
  ASSUME FreesInv, [FreesNext]_frees_vars
  PROVE  /\ FreesInv'
         /\ [Abstract!Next]_<<live, result>>
<1>1. CASE UNCHANGED frees_vars
  <2>1. /\ heap' = heap /\ live' = live /\ result' = result /\ freeing' = freeing
        /\ phase' = phase /\ clashed' = clashed
    BY <1>1 DEF frees_vars, vars, heap
  <2>2. \A B : ThreadsInv(B)' <=> ThreadsInv(B)
    BY <2>1 DEF ThreadsInv, Busy, BlockOf
  <2>3. Busy' = Busy
    BY <2>1 DEF Busy
  <2>4. QED
    BY <2>1, <2>2, <2>3 DEF FreesInv
<1>2. CASE uninterrupted
  BY <1>2, UninterruptedKept
<1>3. CASE threads
  <2>1. /\ FreesInv' /\ UNCHANGED result
        /\ live' = live \/ \E r \in live : live' = live \ {r}
    BY <1>3, InterruptedKept
  <2>2. QED
    BY <2>1 DEF Abstract!Next, Abstract!Free
<1>4. QED
  BY <1>1, <1>2, <1>3 DEF FreesNext

-----------------------------------------------------------------------------
(* The theorems *)

(* The inductive invariant holds whatever the threads print and wherever   *)
(* the timer stops them.                                                   *)
THEOREM ScreenSound == Spec_bodies => []ScreenInv
<1>1. Init_bodies => ScreenInv
  BY ScreenStarts DEF Init_bodies
<1>2. ScreenInv /\ [Next_bodies]_<<frees_vars, screen_vars, job>> => ScreenInv'
  BY ScreenKept DEF Next_bodies
<1>3. QED
  BY <1>1, <1>2, PTL DEF Spec_bodies

(* put_char and newline of threads that interrupt each other move the      *)
(* cursor off the screen by at most a column and a line for each tick that *)
(* came inside a call as long as that fits into %al, and by at most EOI    *)
(* more for each above that, whatever the number of threads.               *)
THEOREM StraysByTicks == Spec_bodies => []CursorStrays
<1>1. ScreenInv => CursorStrays
  BY Tops DEF ScreenInv, ScreenTypes, ColumnInv, LineInv, CursorStrays, XTop, YTop
<1>2. QED
  BY <1>1, ScreenSound, PTL

(* A newline that is not interrupted brings the cursor back on the screen, *)
(* and put_char keeps it there until the next tick.                        *)
THEOREM NewlineBringsBack == Spec_bodies => []NewlineRepairs
<1>1. ScreenInv => NewlineRepairs
  BY DEF ScreenInv, WholeInv, NewlineRepairs
<1>2. QED
  BY <1>1, ScreenSound, PTL

(* The inductive invariant of the heap holds wherever the timer stops the  *)
(* calls of free, for any buffer and any sizes that are asked for.         *)
THEOREM HeapSound == Spec_bodies => []FreesInv
<1>1. Init_bodies => FreesInv
  BY FreesStart DEF Init_bodies
<1>2. FreesInv /\ [Next_bodies]_<<frees_vars, screen_vars, job>> => FreesInv'
  BY FreesStep DEF Next_bodies, frees_vars
<1>3. QED
  BY <1>1, <1>2, PTL DEF Spec_bodies

(* The words of the headers are always sizes and bits, and malloc returns  *)
(* an address in the buffer or NULL.                                       *)
THEOREM HeapTypeCorrect == Spec_bodies => []TypeOK
<1>1. FreesInv => TypeOK
  BY FreesSafe
<1>2. QED
  BY <1>1, HeapSound, PTL

(* Splits and combinations leave blocks that lie one behind the other from *)
(* the start of the buffer to its end, forwards and backwards, even when   *)
(* the calls of free interrupt each other between any two statements.      *)
THEOREM HeapStaysTiled == Spec_bodies => []TiledAtRest
<1>1. FreesInv => TiledAtRest
  BY FreesSafe
<1>2. QED
  BY <1>1, HeapSound, PTL

(* No two free blocks are ever left side by side when no call is under     *)
(* way: whichever of two calls came last has seen what the other freed.    *)
THEOREM HeapStaysMerged == Spec_bodies => []MergedAtRest
<1>1. FreesInv => MergedAtRest
  BY FreesSafe
<1>2. QED
  BY <1>1, HeapSound, PTL

(* malloc and free implement the allocator that heap.h promises: live      *)
(* regions never overlap, each other or the headers, and NULL means that   *)
(* no gap is large enough.                                                 *)
THEOREM HeapIsAnAllocator == Spec_bodies => ImplementsAllocator
<1>1. Init_bodies => Abstract!Init
  BY DEF Init_bodies, FreesInit, Init, Abstract!Init
<1>2. FreesInv /\ [Next_bodies]_<<frees_vars, screen_vars, job>> => [Abstract!Next]_<<live, result>>
  BY FreesStep DEF Next_bodies, frees_vars
<1>3. QED
  BY <1>1, <1>2, HeapSound, PTL DEF Spec_bodies, ImplementsAllocator, Abstract!Spec

=============================================================================
