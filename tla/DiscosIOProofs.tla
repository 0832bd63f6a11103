---------------------------- MODULE DiscosIOProofs ----------------------------
(***************************************************************************)
(* Proofs about DiscosRead, for any number of processes, any calls, any    *)
(* length of read_buffer and any sizes of blocks, index blocks and disk:   *)
(* first the copies through read_buffer, then the blocks of the file, its  *)
(* size, and at last the bytes of a file that was written in order.        *)
(*                                                                         *)
(* The loops of the model are folds, whose value is not an induction that  *)
(* the provers can do.  "Loops" below shows once, from the least number of *)
(* passes that would fail, that what every pass keeps holds at the end.    *)
(***************************************************************************)
EXTENDS DiscosRead, FiniteSetTheorems, SequenceTheorems, WellFoundedInduction, TLAPS

(* The least of a set of numbers.                                          *)
LEMMA MinExists ==
  ASSUME NEW S, S \subseteq Nat, S # {}
  PROVE  \E m \in S : \A x \in S : m <= x
<1>1. PICK m \in S : \A y \in S : ~(<<y, m>> \in OpToRel(<, Nat))
  BY NatLessThanWellFounded, WFMin
<1>2. ASSUME NEW y \in S, y < m PROVE FALSE
  <2>1. <<y, m>> \in Nat \X Nat
    OBVIOUS
  <2>2. <<y, m>>[1] < <<y, m>>[2]
    BY <1>2
  <2>3. <<y, m>> \in OpToRel(<, Nat)
    BY <2>1, <2>2 DEF OpToRel
  <2>4. QED
    BY <1>1, <2>3
<1>3. QED
  BY <1>2

(* And the greatest of a finite one.                                       *)
LEMMA MaxExists ==
  ASSUME NEW S, S \subseteq Nat, S # {}, IsFiniteSet(S)
  PROVE  /\ Max(S) \in S
         /\ \A x \in S : x <= Max(S)
<1> DEFINE Above(x) == {y \in S : x < y}
           Sizes == {Cardinality(Above(x)) : x \in S}
<1>1. \A x \in S : IsFiniteSet(Above(x)) /\ Cardinality(Above(x)) \in Nat
  BY FS_Subset, FS_CardinalityType
<1>2. PICK m \in S : \A x \in S : Cardinality(Above(m)) <= Cardinality(Above(x))
  <2>1. Sizes \subseteq Nat /\ Sizes # {}
    BY <1>1
  <2> HIDE DEF Above
  <2>2. PICK n \in Sizes : \A k \in Sizes : n <= k
    <3> HIDE DEF Sizes
    <3>1. QED
      BY <2>1, MinExists
  <2>3. QED
    BY <2>2
<1>3. ASSUME NEW x \in S, m < x PROVE FALSE
  <2>1. Above(x) \subseteq Above(m) /\ x \in Above(m) /\ x \notin Above(x)
    <3>1. m \in Nat /\ x \in Nat /\ \A y \in S : y \in Nat
      OBVIOUS
    <3>2. \A y \in S : x < y => m < y
      BY <1>3, <3>1
    <3>3. ~(x < x)
      BY <3>1
    <3>4. QED
      BY <1>3, <3>2, <3>3
  <2> HIDE DEF Above
  <2>2. Cardinality(Above(x)) < Cardinality(Above(m))
    <3>1. /\ Cardinality(Above(x)) <= Cardinality(Above(m))
          /\ Cardinality(Above(x)) = Cardinality(Above(m)) => Above(x) = Above(m)
      BY <1>1, <2>1, FS_Subset
    <3>2. QED
      BY <1>1, <2>1, <3>1
  <2>3. QED
    BY <1>1, <1>2, <2>2
<1>4. \E n \in S : \A y \in S : n >= y
  BY <1>3
<1>5. QED
  BY <1>4 DEF Max

-----------------------------------------------------------------------------
(* The copies through read_buffer                                          *)

(* The byte of cell k is that of a read that put `bytes' there, or a zero  *)
(* of its memset.                                                          *)
IsByteOf(byte, bytes, k) ==
  IF k <= Len(bytes) THEN byte = bytes[k] ELSE k <= CLEARED => byte = ZERO

(* A copy under way: where it is, and what it has got if no other read ran *)
(* into it.                                                                *)
CopyType(c) ==
  /\ c = [want |-> c.want, got |-> c.got, mine |-> c.mine, shared |-> c.shared]
  /\ c.want \in Nat /\ c.shared \in BOOLEAN
  /\ (\E V : c.got \in Seq(V)) /\ Len(c.got) <= c.want
  /\ c # NoCopy => c.want \in Counts \ {0}

(* A copy whose buffer no other read has used has taken bytes of its own   *)
(* file, and the buffer holds no others.                                   *)
CopySound(c, buffer) ==
  \/ c.shared
  \/ /\ \A i \in DOMAIN c.got : IsByteOf(c.got[i], c.mine, i)
     /\ c # NoCopy => \A k \in Cells : IsByteOf(buffer[k], c.mine, k)

(* The inductive invariant: what an undisturbed copy has still to take is  *)
(* in read_buffer.                                                         *)
CopyInv ==
  /\ copy = [fd \in Fd |-> copy[fd]]
  /\ \A fd \in Fd : CopyType(copy[fd]) /\ CopySound(copy[fd], read_buffer)

(* The records of copies, of which one field changes at a time.            *)
LEMMA CopyBegun ==
  ASSUME NEW n, NEW m
  PROVE  [NoCopy EXCEPT !.want = n, !.mine = m]
           = [want |-> n, got |-> <<>>, mine |-> m, shared |-> FALSE]
<1> DEFINE e == <<>>
           f == FALSE
           d == [NoCopy EXCEPT !.want = n]
<1>1. NoCopy = [want |-> 0, got |-> e, mine |-> e, shared |-> f]
  BY DEF NoCopy
<1> SUFFICES [NoCopy EXCEPT !.want = n, !.mine = m] = [want |-> n, got |-> e, mine |-> m, shared |-> f]
  OBVIOUS
<1> HIDE DEF e, f
<1>2. NoCopy \in [want : {0}, got : {e}, mine : {e}, shared : {f}]
  BY <1>1
<1>3. d = [want |-> n, got |-> NoCopy.got, mine |-> NoCopy.mine, shared |-> NoCopy.shared]
  BY <1>2
<1>4. d = [want |-> n, got |-> e, mine |-> e, shared |-> f]
  BY <1>1, <1>3
<1>5. [d EXCEPT !.mine = m] = [want |-> n, got |-> e, mine |-> m, shared |-> f]
  <2> HIDE DEF d
  <2>1. d \in [want : {n}, got : {e}, mine : {e}, shared : {f}]
    BY <1>4
  <2>2. [d EXCEPT !.mine = m] = [want |-> d.want, got |-> d.got, mine |-> m, shared |-> d.shared]
    BY <2>1
  <2>3. QED
    BY <1>4, <2>2
<1>6. QED
  BY <1>5

(* The same for a copy that another read runs into, or does not.           *)
LEMMA CopyShared ==
  ASSUME NEW c, c = [want |-> c.want, got |-> c.got, mine |-> c.mine, shared |-> c.shared],
         NEW f
  PROVE  [c EXCEPT !.shared = f] = [want |-> c.want, got |-> c.got, mine |-> c.mine, shared |-> f]
<1>1. c \in [want : {c.want}, got : {c.got}, mine : {c.mine}, shared : {c.shared}]
  OBVIOUS
<1>2. QED
  BY <1>1

(* And for one that goes on.                                               *)
LEMMA CopyGone ==
  ASSUME NEW c, c = [want |-> c.want, got |-> c.got, mine |-> c.mine, shared |-> c.shared],
         NEW s
  PROVE  [c EXCEPT !.got = s] = [want |-> c.want, got |-> s, mine |-> c.mine, shared |-> c.shared]
<1>1. c \in [want : {c.want}, got : {c.got}, mine : {c.mine}, shared : {c.shared}]
  OBVIOUS
<1>2. QED
  BY <1>1

(* No copy is sound.                                                       *)
LEMMA NoCopySound ==
  CopyType(NoCopy) /\ \A buffer : CopySound(NoCopy, buffer)
<1>1. <<>> \in Seq({}) /\ Len(<<>>) = 0 /\ DOMAIN <<>> = {}
  OBVIOUS
<1>2. CopyType(NoCopy)
  <2>1. /\ NoCopy.want = 0 /\ NoCopy.got = <<>> /\ NoCopy.mine = <<>> /\ NoCopy.shared = FALSE
        /\ NoCopy = [want |-> 0, got |-> <<>>, mine |-> <<>>, shared |-> FALSE]
    BY DEF NoCopy
  <2>2. Len(NoCopy.got) <= NoCopy.want
    BY <1>1, <2>1
  <2>3. \E V : NoCopy.got \in Seq(V)
    BY <1>1, <2>1
  <2>4. QED
    BY <2>1, <2>2, <2>3 DEF CopyType
<1>3. QED
  BY <1>1, <1>2 DEF CopySound, NoCopy

(* The bytes of a read are in read_buffer when its copy begins.            *)
LEMMA RefilledBuffer ==
  ASSUME NEW bytes, NEW k \in Cells
  PROVE  IsByteOf(Refilled(bytes)[k], bytes, k)
BY DEF Refilled, IsByteOf

(* The step that enters a call keeps the invariant.                        *)
LEMMA BeginKeeps ==
  ASSUME CopyInv, NEW fd \in Fd, ~Asleep(fd), NEW num_bytes \in Counts,
         read_begin(fd, num_bytes)
  PROVE  CopyInv'
<1>1. CASE UNCHANGED <<read_buffer, copy>>
  BY <1>1 DEF CopyInv
<1>2. CASE ~UNCHANGED <<read_buffer, copy>>
  <2> DEFINE mine == last'.bytes
             new  == [NoCopy EXCEPT !.want = num_bytes, !.mine = mine]
  <2>1. /\ copy' = [g \in Fd |->
                      IF g # fd THEN [copy[g] EXCEPT !.shared = Asleep(g)]
                      ELSE IF num_bytes = 0 THEN NoCopy ELSE new]
        /\ read_buffer' = IF \A g \in Fd : copy'[g] = NoCopy THEN OldBuffer ELSE Refilled(mine)
    BY <1>2 DEF read_begin
  <2> HIDE DEF mine
  <2>2. num_bytes \in Nat
    BY DiscosIOAssumption
  <2>3. ASSUME num_bytes # 0
        PROVE  CopyType(new) /\ CopySound(new, Refilled(mine)) /\ new # NoCopy
    <3>1. /\ new = [want |-> num_bytes, got |-> <<>>, mine |-> mine, shared |-> FALSE]
          /\ NoCopy.want = 0
      <4>1. NoCopy.want = 0
        BY DEF NoCopy
      <4>2. QED
        BY <4>1, CopyBegun
    <3>2. <<>> \in Seq({}) /\ Len(<<>>) = 0 /\ DOMAIN <<>> = {}
      OBVIOUS
    <3> HIDE DEF new
    <3>3. new.want = num_bytes /\ new.got = <<>> /\ new.mine = mine /\ new.shared = FALSE
      BY <3>1
    <3>4. (\E V : new.got \in Seq(V)) /\ Len(new.got) <= new.want
      BY <2>2, <3>2, <3>3
    <3>5. CopyType(new)
      BY <2>2, <2>3, <3>1, <3>3, <3>4 DEF CopyType
    <3>6. CopySound(new, Refilled(mine))
      BY <3>2, <3>3, RefilledBuffer DEF CopySound
    <3>7. QED
      BY <2>3, <3>1, <3>3, <3>5, <3>6
  <2> HIDE DEF new
  <2>4. ASSUME NEW g \in Fd, g # fd
        PROVE  /\ CopyType(copy'[g])
               /\ copy'[g] = NoCopy \/ copy'[g].shared
    <3>1. copy'[g] = [copy[g] EXCEPT !.shared = Asleep(g)] /\ CopyType(copy[g])
      BY <2>1, <2>4 DEF CopyInv
    <3>2. CASE Asleep(g)
      <4>1. /\ copy'[g].want = copy[g].want /\ copy'[g].got = copy[g].got
            /\ copy'[g].mine = copy[g].mine /\ copy'[g].shared = TRUE
            /\ copy'[g] = [want |-> copy'[g].want, got |-> copy'[g].got,
                           mine |-> copy'[g].mine, shared |-> copy'[g].shared]
        <5>1. copy[g] = [want |-> copy[g].want, got |-> copy[g].got,
                         mine |-> copy[g].mine, shared |-> copy[g].shared]
          BY <3>1 DEF CopyType
        <5>2. copy'[g] = [want |-> copy[g].want, got |-> copy[g].got,
                          mine |-> copy[g].mine, shared |-> Asleep(g)]
          BY <3>1, <5>1, CopyShared
        <5>3. Asleep(g) = TRUE
          BY <3>2 DEF Asleep
        <5>4. QED
          BY <5>2, <5>3
      <4>2. copy[g].want \in Counts \ {0}
        BY <3>1, <3>2 DEF CopyType, Asleep
      <4>3. QED
        BY <3>1, <4>1, <4>2 DEF CopyType
    <3>3. CASE ~Asleep(g)
      <4>1. copy[g] = NoCopy
        BY <3>3 DEF Asleep
      <4>2. copy'[g] = NoCopy
        <5>1. copy[g] = [want |-> copy[g].want, got |-> copy[g].got,
                         mine |-> copy[g].mine, shared |-> copy[g].shared]
          BY <3>1 DEF CopyType
        <5>2. copy'[g] = [want |-> copy[g].want, got |-> copy[g].got,
                          mine |-> copy[g].mine, shared |-> Asleep(g)]
          BY <3>1, <5>1, CopyShared
        <5>3. NoCopy.shared = FALSE
          BY DEF NoCopy
        <5>4. Asleep(g) = FALSE
          BY <3>3
        <5>5. copy'[g] = copy[g]
          BY <4>1, <5>1, <5>2, <5>3, <5>4
        <5>6. QED
          BY <4>1, <5>5
      <4>3. QED
        BY <4>2, NoCopySound
    <3>4. QED
      BY <3>2, <3>3
  <2>5. copy'[fd] = IF num_bytes = 0 THEN NoCopy ELSE new
    BY <2>1
  <2>6. num_bytes # 0 => read_buffer' = Refilled(mine)
    BY <2>1, <2>3, <2>5
  <2>7. ASSUME NEW g \in Fd PROVE CopyType(copy'[g]) /\ CopySound(copy'[g], read_buffer')
    <3>1. CASE g = fd
      BY <2>3, <2>5, <2>6, <3>1, NoCopySound
    <3>2. CASE g # fd
      <4>1. copy'[g].shared => CopySound(copy'[g], read_buffer')
        BY DEF CopySound
      <4>2. QED
        BY <2>4, <3>2, <4>1, NoCopySound
    <3>3. QED
      BY <3>1, <3>2
  <2>8. copy' = [g \in Fd |-> copy'[g]]
    BY <2>1
  <2>9. QED
    BY <2>7, <2>8 DEF CopyInv, CopySound
<1>3. QED
  BY <1>1, <1>2

(* What copy_to_user appends.                                              *)
CopiedOn(s, k, f) == s \o [i \in 1 .. k |-> f[Len(s) + i]]

(* It is as long as it should be, and comes from the next cells.           *)
LEMMA Appended ==
  ASSUME NEW V, NEW s \in Seq(V), NEW k \in Nat, NEW f,
         NEW t, t = CopiedOn(s, k, f)
  PROVE  /\ \E W : t \in Seq(W)
         /\ Len(t) = Len(s) + k /\ DOMAIN t = 1 .. Len(s) + k
         /\ \A i \in DOMAIN t : t[i] = IF i <= Len(s) THEN s[i] ELSE f[i]
<1> DEFINE n == Len(s)
           u == [i \in 1 .. k |-> f[n + i]]
           W == V \cup {f[n + i] : i \in 1 .. k}
<1>1. n \in Nat /\ s \in Seq(W) /\ u \in Seq(W) /\ Len(u) = k
  <2>1. n \in Nat
    OBVIOUS
  <2>2. s \in Seq(W)
    OBVIOUS
  <2>3. u \in [1 .. k -> W]
    <3> HIDE DEF n
    <3>1. QED
      OBVIOUS
  <2> HIDE DEF u, W, n
  <2>4. u \in Seq(W) /\ Len(u) = k
    BY <2>3
  <2>5. QED
    BY <2>1, <2>2, <2>4
<1>0. t = s \o u
  BY DEF CopiedOn
<1> HIDE DEF n, W
<1>2. t \in Seq(W) /\ Len(t) = n + k
  BY <1>0, <1>1 DEF n
<1>3. DOMAIN t = 1 .. n + k
  BY <1>1, <1>2
<1>4. ASSUME NEW i \in 1 .. n + k PROVE t[i] = IF i <= n THEN s[i] ELSE f[i]
  <2>1. CASE i <= n
    BY <1>0, <1>1, <2>1 DEF n
  <2>2. CASE ~(i <= n)
    <3>1. i - n \in 1 .. k /\ n + (i - n) = i
      BY <1>1, <2>2
    <3>2. t[i] = u[i - n]
      BY <1>0, <1>1, <2>2, <3>1 DEF n
    <3>3. QED
      BY <2>2, <3>1, <3>2
  <2>3. QED
    BY <2>1, <2>2
<1>5. QED
  BY <1>2, <1>3, <1>4 DEF n

(* Copying on, up to the next sleep, keeps the invariant.                  *)
LEMMA CopyKeeps ==
  ASSUME CopyInv, NEW fd \in Fd, copy_to_user(fd)
  PROVE  CopyInv'
<1> DEFINE c  == copy[fd]
           at == Len(c.got)
<1>1. PICK k \in 1 .. c.want - at :
         copy' = [copy EXCEPT ![fd].got = @ \o [i \in 1 .. k |-> read_buffer[at + i]]]
  BY DEF copy_to_user
<1>2. read_buffer' = read_buffer /\ c # NoCopy
  BY DEF copy_to_user, Asleep
<1>3. /\ CopyType(c) /\ CopySound(c, read_buffer) /\ c.want \in Counts \ {0} /\ c.want \in Nat
      /\ copy = [g \in Fd |-> copy[g]]
  BY <1>2 DEF CopyInv, CopyType
<1> DEFINE t == c.got \o [i \in 1 .. k |-> read_buffer[at + i]]
           d == [c EXCEPT !.got = t]
<1>4. copy' = [copy EXCEPT ![fd] = d]
  BY <1>1
<1>5. /\ \E W : t \in Seq(W)
      /\ Len(t) = at + k /\ DOMAIN t = 1 .. at + k
      /\ \A i \in DOMAIN t : t[i] = IF i <= at THEN c.got[i] ELSE read_buffer[i]
      /\ at \in Nat /\ k \in Nat /\ at + k <= c.want /\ DOMAIN c.got = 1 .. at
  <2>1. PICK V : c.got \in Seq(V)
    BY <1>3 DEF CopyType
  <2>2. at \in Nat /\ k \in Nat /\ at + k <= c.want /\ DOMAIN c.got = 1 .. at
    BY <1>3, <2>1
  <2>3. /\ \E W : t \in Seq(W)
        /\ Len(t) = Len(c.got) + k /\ DOMAIN t = 1 .. Len(c.got) + k
        /\ \A i \in DOMAIN t : t[i] = IF i <= Len(c.got) THEN c.got[i] ELSE read_buffer[i]
    <3>1. t = CopiedOn(c.got, k, read_buffer)
      BY DEF CopiedOn
    <3> HIDE DEF t, c
    <3>2. QED
      BY <2>1, <2>2, <3>1, Appended
  <2>4. QED
    BY <2>2, <2>3
<1> HIDE DEF t
<1>6. /\ d = [want |-> c.want, got |-> t, mine |-> c.mine, shared |-> c.shared]
  <2>1. c = [want |-> c.want, got |-> c.got, mine |-> c.mine, shared |-> c.shared]
    BY <1>3 DEF CopyType
  <2>2. QED
    BY <2>1
<1>7. /\ d.want = c.want /\ d.got = t /\ d.mine = c.mine /\ d.shared = c.shared
      /\ d = [want |-> d.want, got |-> d.got, mine |-> d.mine, shared |-> d.shared]
  BY <1>6
<1> HIDE DEF d, c, at
<1>8. CopyType(d)
  <2>1. c.shared \in BOOLEAN
    BY <1>3 DEF CopyType
  <2>2. Len(d.got) <= d.want /\ \E W : d.got \in Seq(W)
    BY <1>5, <1>7
  <2>3. QED
    BY <1>3, <1>7, <2>1, <2>2 DEF CopyType
<1>9. ASSUME ~c.shared PROVE CopySound(d, read_buffer)
  <2>1. /\ \A i \in DOMAIN c.got : IsByteOf(c.got[i], c.mine, i)
        /\ \A i \in Cells : IsByteOf(read_buffer[i], c.mine, i)
    BY <1>2, <1>3, <1>9 DEF CopySound
  <2>2. c.want <= Max(Counts) /\ Max(Counts) \in Nat
    <3>1. Counts \subseteq Nat /\ Counts # {} /\ IsFiniteSet(Counts)
      BY <1>3, DiscosIOAssumption, DiscosReadAssumption
    <3>2. QED
      BY <1>3, <3>1, MaxExists
  <2>3. ASSUME NEW i \in DOMAIN t PROVE IsByteOf(t[i], c.mine, i)
    <3>1. i \in 1 .. at + k
      BY <1>5
    <3>2. CASE i <= at
      <4>1. i \in DOMAIN c.got /\ t[i] = c.got[i]
        BY <1>5, <3>1, <3>2
      <4>2. QED
        BY <2>1, <4>1
    <3>3. CASE ~(i <= at)
      <4>1. t[i] = read_buffer[i]
        BY <1>5, <3>3
      <4>2. i \in Cells
        BY <1>3, <1>5, <2>2, <3>1, <3>3 DEF Cells
      <4>3. QED
        BY <2>1, <4>1, <4>2
    <3>4. QED
      BY <3>2, <3>3
  <2>4. QED
    BY <1>7, <2>1, <2>3 DEF CopySound
<1>10. CopySound(d, read_buffer)
  <2>1. c.shared => CopySound(d, read_buffer)
    BY <1>7 DEF CopySound
  <2>2. QED
    BY <1>9, <2>1
<1>11. ASSUME NEW g \in Fd PROVE CopyType(copy'[g]) /\ CopySound(copy'[g], read_buffer')
  <2>1. copy'[g] = IF g = fd THEN d ELSE copy[g]
    BY <1>3, <1>4
  <2>2. QED
    BY <1>2, <1>8, <1>10, <2>1 DEF CopyInv
<1>12. copy' = [g \in Fd |-> copy'[g]]
  BY <1>3, <1>4
<1>13. QED
  BY <1>11, <1>12 DEF CopyInv, CopySound

(* The step that returns keeps the invariant.                              *)
LEMMA EndKeeps ==
  ASSUME CopyInv, NEW fd \in Fd, read_end(fd)
  PROVE  CopyInv'
<1>1. /\ copy' = [copy EXCEPT ![fd] = NoCopy] /\ copy = [g \in Fd |-> copy[g]]
      /\ read_buffer' = IF \A g \in Fd : copy'[g] = NoCopy THEN OldBuffer ELSE read_buffer
  BY DEF read_end, CopyInv
<1>2. copy' = [g \in Fd |-> copy'[g]] /\ \A g \in Fd : copy'[g] = NoCopy \/ copy'[g] = copy[g]
  BY <1>1
<1>3. ASSUME NEW g \in Fd PROVE CopyType(copy'[g]) /\ CopySound(copy'[g], read_buffer')
  <2>1. CASE copy'[g] = NoCopy
    BY <2>1, NoCopySound
  <2>2. CASE copy'[g] # NoCopy
    <3>1. copy'[g] = copy[g] /\ read_buffer' = read_buffer
      BY <1>1, <1>2, <2>2
    <3>2. QED
      BY <3>1 DEF CopyInv
  <2>3. QED
    BY <2>1, <2>2
<1>4. QED
  BY <1>2, <1>3 DEF CopyInv, CopySound

(* The inductive invariant holds whatever is read, written and sought      *)
(* while copies sleep.                                                     *)
THEOREM CopiesSound == ReadSpec => []CopyInv
<1>1. ReadInit => CopyInv
  <2>1. SUFFICES ASSUME copy = [fd \in Fd |-> NoCopy] PROVE CopyInv
    BY DEF ReadInit
  <2>2. \A fd \in Fd : copy[fd] = NoCopy
    BY <2>1
  <2>3. QED
    BY <2>1, <2>2, NoCopySound DEF CopyInv
<1>2. CopyInv /\ [ReadNext]_io_vars => CopyInv'
  <2>1. SUFFICES ASSUME CopyInv, [ReadNext]_io_vars PROVE CopyInv'
    OBVIOUS
  <2>2. CASE UNCHANGED <<read_buffer, copy>>
    BY <2>1, <2>2 DEF CopyInv
  <2>3. ASSUME NEW fd \in Fd, call(fd) PROVE CopyInv'
    <3>1. CASE UNCHANGED <<read_buffer, copy>>
      BY <2>2, <3>1
    <3>2. ASSUME NEW num_bytes \in Counts, read_begin(fd, num_bytes) PROVE CopyInv'
      <4>1. ~Asleep(fd)
        BY <2>3 DEF call
      <4>2. QED
        BY <2>1, <3>2, <4>1, BeginKeeps
    <3>3. QED
      BY <2>3, <3>1, <3>2 DEF call
  <2>4. ASSUME NEW fd \in Fd, copy_to_user(fd) PROVE CopyInv'
    BY <2>1, <2>4, CopyKeeps
  <2>5. ASSUME NEW fd \in Fd, read_end(fd) PROVE CopyInv'
    BY <2>1, <2>5, EndKeeps
  <2>6. QED
    BY <2>1, <2>2, <2>3, <2>4, <2>5 DEF ReadNext, io_vars
<1>3. QED
  BY <1>1, <1>2, PTL DEF ReadSpec

(* A process whose copy no other read ran into gets the bytes that its own *)
(* read put into read_buffer, and the memset's zeros behind them.          *)
THEOREM CopiesWhatWasRead == ReadSpec => []GetsWhatItRead
<1>1. CopyInv => GetsWhatItRead
  BY DEF CopyInv, CopySound, IsByteOf, GetsWhatItRead
<1>2. QED
  BY <1>1, CopiesSound, PTL

-----------------------------------------------------------------------------
(* Loops                                                                   *)

(* The loops of DiscosIO are folds of different operators.  What one pass  *)
(* of each does to the state v of the loop, with what c holds of the call: *)

(* the loop over the blocks of a range in rd_write, ...                    *)
WriteBlock(c, w, place) ==
  LET v == FoldLeft(Step, [w EXCEPT !.at = NULL], place)
  IN  IF v.out = "on" THEN Fill(v, c.data, c.num_bytes, c.offset) ELSE v

(* ... the three ranges in turn, ...                                       *)
WriteRange(c, w, range) ==
  LET at  == IF range = 1 THEN c.pos ELSE w.size
      seg == at \div BLOCK_SIZE
  IN  IF w.out = "on" /\ InRange(seg, range)
      THEN WriteAt(w, Places(seg, range), at % BLOCK_SIZE, c.data, c.num_bytes)
      ELSE [w EXCEPT !.out = IF @ = "on" /\ range = 3 /\ seg >= MAX_BLOCKS
                             THEN "limit" ELSE @]

(* ... and the same two of rd_read.                                        *)
ReadBlock(c, r, place) ==
  LET b     == BlockAt(c.f, place)
      here  == IF b = NULL THEN <<>> ELSE Bytes(c.f, b, c.offset)
      wanted == c.num_bytes - Len(r.bytes)
      got   == IF wanted > 0 /\ wanted < Len(here) THEN SubSeq(here, 1, wanted)
                                                   ELSE here
  IN  IF r.done THEN r
      ELSE [bytes |-> r.bytes \o got,
            done  |-> Len(r.bytes \o got) = c.num_bytes]

ReadRange(c, r, range) ==
  LET at  == (c.pos + Len(r.bytes)) % UINT_RANGE
      seg == at \div BLOCK_SIZE
  IN  IF InRange(seg, range) /\ (range # 1 => Len(r.bytes) < c.num_bytes)
      THEN ReadAt(c.f, r, Places(seg, range), at % BLOCK_SIZE, c.num_bytes)
      ELSE r

(* One pass of the loop of that name: also of those that find a block,     *)
(* divide for each index block, join the places below them, and skip '\0'. *)
Pass(loop, c, v, x) ==
  CASE loop = "step"   -> Step(v, x)
    [] loop = "write"  -> WriteBlock(c, v, x)
    [] loop = "ranges" -> WriteRange(c, v, x)
    [] loop = "follow" -> IF v = NULL THEN NULL ELSE Pointer(c, v, x)
    [] loop = "divide" -> (IF x = 1 THEN c ELSE v) \div PTRS_PER_BLOCK
    [] loop = "join"   -> IF x = 1 THEN c[x] ELSE v \o c[x]
    [] loop = "select" -> IF x # ZERO THEN Append(v, x) ELSE v
    [] loop = "read"   -> ReadBlock(c, v, x)
    [] loop = "reads"  -> ReadRange(c, v, x)

(* A function from the passes that are over to the state after them, of a  *)
(* loop over the k elements of q that begins with v.                       *)
Loop(loop, c, v, q, k, g) ==
  g = [s \in SUBSET (1 .. k) |->
         IF s = {} THEN v ELSE Pass(loop, c, g[s \ {Max(s)}], q[Max(s)])]

(* A set of numbers up to m that has m in it has m as its greatest.        *)
LEMMA MaxIs ==
  ASSUME NEW m \in Nat, NEW s, s \subseteq 1 .. m, m \in s
  PROVE  Max(s) = m
<1>1. \A y \in s : m >= y
  OBVIOUS
<1>2. \A x \in s : (\A y \in s : x >= y) => x = m
  OBVIOUS
<1>3. QED
  BY <1>1, <1>2 DEF Max

(* One pass more ...                                                       *)
OneMore(loop, c, q, m, g) ==
  [s \in SUBSET (1 .. m) |-> IF m \in s THEN Pass(loop, c, g[s \ {m}], q[m]) ELSE g[s]]

(* ... extends the function.                                               *)
LEMMA LoopExtends ==
  ASSUME NEW loop, NEW c, NEW v, NEW q, NEW m \in Nat \ {0}, NEW g,
         Loop(loop, c, v, q, m - 1, g), NEW h, h = OneMore(loop, c, q, m, g)
  PROVE  Loop(loop, c, v, q, m, h)
<1>1. \A s \in SUBSET (1 .. m) : h[s] = IF m \in s THEN Pass(loop, c, g[s \ {m}], q[m]) ELSE g[s]
  BY DEF OneMore
<1>2. ASSUME NEW s \in SUBSET (1 .. m)
      PROVE  h[s] = IF s = {} THEN v ELSE Pass(loop, c, h[s \ {Max(s)}], q[Max(s)])
  <2>1. CASE m \in s
    <3>1. Max(s) = m
      BY <2>1, MaxIs
    <3>2. s \ {m} \in SUBSET (1 .. m) /\ m \notin s \ {m} /\ s # {}
      BY <2>1
    <3>3. h[s \ {m}] = g[s \ {m}]
      BY <1>1, <3>2
    <3>4. QED
      BY <1>1, <2>1, <3>1, <3>2, <3>3
  <2>2. CASE m \notin s
    <3>1. s \in SUBSET (1 .. (m - 1))
      BY <2>2
    <3>2. h[s] = g[s]
      BY <1>1, <2>2
    <3>3. g[s] = IF s = {} THEN v ELSE Pass(loop, c, g[s \ {Max(s)}], q[Max(s)])
      BY <3>1 DEF Loop
    <3>4. s \ {Max(s)} \in SUBSET (1 .. m) /\ m \notin s \ {Max(s)}
      BY <2>2
    <3>5. h[s \ {Max(s)}] = g[s \ {Max(s)}]
      BY <1>1, <3>4
    <3>6. QED
      BY <3>2, <3>3, <3>5
  <2>3. QED
    BY <2>1, <2>2
<1>3. h = [s \in SUBSET (1 .. m) |-> h[s]]
  BY DEF OneMore
<1>4. QED
  BY <1>2, <1>3 DEF Loop

(* There is such a function for every loop.                                *)
LEMMA LoopExists ==
  ASSUME NEW loop, NEW c, NEW v, NEW q, NEW k \in Nat
  PROVE  \E g : Loop(loop, c, v, q, k, g)
<1> DEFINE Bad == {m \in Nat : ~ \E g : Loop(loop, c, v, q, m, g)}
<1>1. Bad = {}
  <2> SUFFICES ASSUME Bad # {} PROVE FALSE
    OBVIOUS
  <2>1. PICK m \in Bad : \A x \in Bad : m <= x
    BY MinExists
  <2>2. m # 0
    <3> DEFINE g == [s \in SUBSET {} |-> v]
    <3>1. 1 .. 0 = {}
      OBVIOUS
    <3>2. \A s \in SUBSET {} : s = {}
      OBVIOUS
    <3>3. g = [s \in SUBSET {} |-> IF s = {} THEN v ELSE Pass(loop, c, g[s \ {Max(s)}], q[Max(s)])]
      BY <3>2
    <3>4. Loop(loop, c, v, q, 0, g)
      BY <3>1, <3>3 DEF Loop
    <3>5. QED
      BY <3>4
  <2>3. m \in Nat \ {0} /\ m - 1 \in Nat /\ m - 1 \notin Bad
    BY <2>1, <2>2
  <2>4. PICK g : Loop(loop, c, v, q, m - 1, g)
    BY <2>3
  <2>5. Loop(loop, c, v, q, m, OneMore(loop, c, q, m, g))
    BY <2>3, <2>4, LoopExtends
  <2>6. QED
    BY <2>5
<1>2. QED
  BY <1>1

(* The states after each pass.                                             *)
Passes(loop, c, v, q, k, g) ==
  /\ g[1 .. 0] = v
  /\ \A i \in 1 .. k : g[1 .. i] = Pass(loop, c, g[1 .. (i - 1)], q[i])

(* One comes from the other.                                               *)
LEMMA LoopPasses ==
  ASSUME NEW loop, NEW c, NEW v, NEW q, NEW k \in Nat, NEW g, Loop(loop, c, v, q, k, g)
  PROVE  Passes(loop, c, v, q, k, g)
<1>1. \A s \in SUBSET (1 .. k) :
        g[s] = IF s = {} THEN v ELSE Pass(loop, c, g[s \ {Max(s)}], q[Max(s)])
  BY DEF Loop
<1>2. g[1 .. 0] = v
  <2>1. 1 .. 0 = {} /\ {} \in SUBSET (1 .. k)
    OBVIOUS
  <2>2. QED
    BY <1>1, <2>1
<1>3. ASSUME NEW i \in 1 .. k PROVE g[1 .. i] = Pass(loop, c, g[1 .. (i - 1)], q[i])
  <2>0. i \in Nat /\ i >= 1 /\ i <= k
    OBVIOUS
  <2>1. (1 .. i) \in SUBSET (1 .. k) /\ 1 .. i # {} /\ i \in 1 .. i
    <3>1. 1 .. i \subseteq 1 .. k
      BY <2>0
    <3>2. i \in 1 .. i
      BY <2>0
    <3>3. QED
      BY <3>1, <3>2
  <2>2. Max(1 .. i) = i
    BY <2>1, MaxIs
  <2>3. (1 .. i) \ {i} = 1 .. (i - 1)
    OBVIOUS
  <2>4. QED
    BY <1>1, <2>1, <2>2, <2>3
<1>4. QED
  BY <1>2, <1>3 DEF Passes

(* What each pass hands on to the next one holds at the end, ...           *)
LEMMA LoopReaches ==
  ASSUME NEW loop, NEW c, NEW v, NEW q, NEW k \in Nat, NEW g, Passes(loop, c, v, q, k, g),
         NEW Inv, v \in Inv[0],
         \A i \in 1 .. k : \A u \in Inv[i - 1] : Pass(loop, c, u, q[i]) \in Inv[i]
  PROVE  \A i \in 0 .. k : g[1 .. i] \in Inv[i]
<1> DEFINE Bad == {i \in Nat : i <= k /\ g[1 .. i] \notin Inv[i]}
<1>1. /\ g[1 .. 0] = v
      /\ \A i \in 1 .. k : g[1 .. i] = Pass(loop, c, g[1 .. (i - 1)], q[i])
  BY DEF Passes
<1>2. Bad = {}
  <2> SUFFICES ASSUME Bad # {} PROVE FALSE
    OBVIOUS
  <2>1. PICK i \in Bad : \A x \in Bad : i <= x
    BY MinExists
  <2>2. i # 0
    BY <1>1, <2>1
  <2>3. i \in 1 .. k /\ i - 1 \in Nat /\ i - 1 <= k /\ i - 1 \notin Bad
    BY <2>1, <2>2
  <2>4. g[1 .. (i - 1)] \in Inv[i - 1]
    BY <2>3
  <2>5. g[1 .. i] \in Inv[i]
    BY <1>1, <2>3, <2>4
  <2>6. QED
    BY <2>5
<1>3. QED
  BY <1>2

(* ... and so does what every pass keeps.                                  *)
LEMMA LoopKeeps ==
  ASSUME NEW loop, NEW c, NEW v, NEW q, NEW k \in Nat, NEW g, Passes(loop, c, v, q, k, g),
         NEW Inv, v \in Inv, \A u \in Inv : \A i \in 1 .. k : Pass(loop, c, u, q[i]) \in Inv
  PROVE  \A i \in 0 .. k : g[1 .. i] \in Inv
<1> DEFINE Same == [i \in 0 .. k |-> Inv]
<1>1. Same[0] = Inv /\ \A i \in 1 .. k : Same[i] = Inv /\ Same[i - 1] = Inv
  OBVIOUS
<1> HIDE DEF Same
<1>2. v \in Same[0] /\ \A i \in 1 .. k : \A u \in Same[i - 1] : Pass(loop, c, u, q[i]) \in Same[i]
  BY <1>1
<1>3. \A i \in 0 .. k : g[1 .. i] \in Same[i]
  BY <1>2, LoopReaches
<1>4. QED
  BY <1>3 DEF Same

(* Each of the loops of DiscosIO is one: that of Step, ...                 *)
LEMMA StepsLoop ==
  ASSUME NEW w, NEW q, NEW k \in Nat, DOMAIN q = 1 .. k
  PROVE  \E g : Passes("step", 0, w, q, k, g) /\ FoldLeft(Step, w, q) = g[1 .. k]
<1> DEFINE P(g) == g = [s \in SUBSET DOMAIN q |->
                          IF s = {} THEN w ELSE Step(g[s \ {Max(s)}], q[Max(s)])]
<1>1. FoldLeft(Step, w, q) = (CHOOSE g : P(g))[DOMAIN q]
  BY DEF FoldLeft, MapThenFoldSet
<1>2. \A g : P(g) <=> Loop("step", 0, w, q, k, g)
  BY DEF Loop, Pass
<1> HIDE DEF P
<1>3. \E g : P(g)
  BY <1>2, LoopExists
<1>4. P(CHOOSE g : P(g))
  BY <1>3
<1>5. QED
  BY <1>1, <1>2, <1>4, LoopPasses

(* ... that of WriteAt, ...                                                *)
LEMMA WriteLoop ==
  ASSUME NEW w, NEW q, NEW k \in Nat, DOMAIN q = 1 .. k, NEW offset, NEW data, NEW num_bytes
  PROVE  \E g : /\ Passes("write", [data |-> data, num_bytes |-> num_bytes, offset |-> offset],
                          w, q, k, g)
                /\ WriteAt(w, q, offset, data, num_bytes) = g[1 .. k]
<1> DEFINE c == [data |-> data, num_bytes |-> num_bytes, offset |-> offset]
           One(u, place) == LET v == FoldLeft(Step, [u EXCEPT !.at = NULL], place)
                            IN  IF v.out = "on" THEN Fill(v, data, num_bytes, offset) ELSE v
           P(g) == g = [s \in SUBSET DOMAIN q |->
                          IF s = {} THEN w ELSE One(g[s \ {Max(s)}], q[Max(s)])]
<1>1. WriteAt(w, q, offset, data, num_bytes) = (CHOOSE g : P(g))[DOMAIN q]
  BY DEF WriteAt, FoldLeft, MapThenFoldSet
<1>0. \A u, place : One(u, place) = Pass("write", c, u, place)
  BY DEF Pass, WriteBlock
<1> HIDE DEF One
<1>2. \A g : P(g) <=> Loop("write", c, w, q, k, g)
  BY <1>0 DEF Loop
<1> HIDE DEF P
<1>3. \E g : P(g)
  BY <1>2, LoopExists
<1>4. P(CHOOSE g : P(g))
  BY <1>3
<1>5. QED
  BY <1>1, <1>2, <1>4, LoopPasses

(* The state in which a rd_write begins.                                   *)
Begun(f) == [size |-> f.size, pointers |-> f.pointers, bitmap |-> f.bitmap,
             data_blocks |-> f.data_blocks, n |-> 0, out |-> "on", at |-> NULL]

(* ... in which the ranges are written in turn, ...                        *)
LEMMA RangesLoop ==
  ASSUME NEW f, NEW pos, NEW data, NEW num_bytes
  PROVE  \E g : /\ Passes("ranges", [pos |-> pos, data |-> data, num_bytes |-> num_bytes],
                          Begun(f), <<1, 2, 3>>, 3, g)
                /\ Written(f, pos, data, num_bytes) = g[1 .. 3]
<1> DEFINE c == [pos |-> pos, data |-> data, num_bytes |-> num_bytes]
           w0 == Begun(f)
           q == <<1, 2, 3>>
           One(w, range) ==
             LET at  == IF range = 1 THEN pos ELSE w.size
                 seg == at \div BLOCK_SIZE
             IN  IF w.out = "on" /\ InRange(seg, range)
                 THEN WriteAt(w, Places(seg, range), at % BLOCK_SIZE, data, num_bytes)
                 ELSE [w EXCEPT !.out = IF @ = "on" /\ range = 3 /\ seg >= MAX_BLOCKS
                                        THEN "limit" ELSE @]
           P(g) == g = [s \in SUBSET DOMAIN q |->
                          IF s = {} THEN w0 ELSE One(g[s \ {Max(s)}], q[Max(s)])]
<1>1. Written(f, pos, data, num_bytes) = (CHOOSE g : P(g))[DOMAIN q]
  BY DEF Written, Begun, FoldLeft, MapThenFoldSet
<1>0. \A w, range : One(w, range) = Pass("ranges", c, w, range)
  BY DEF Pass, WriteRange
<1>6. DOMAIN q = 1 .. 3
  OBVIOUS
<1> HIDE DEF One, w0, q
<1>2. \A g : P(g) <=> Loop("ranges", c, w0, q, 3, g)
  BY <1>0, <1>6 DEF Loop
<1> HIDE DEF P
<1>3. \E g : P(g)
  BY <1>2, LoopExists
<1>4. P(CHOOSE g : P(g))
  BY <1>3
<1>7. PICK g : Loop("ranges", c, w0, q, 3, g) /\ Written(f, pos, data, num_bytes) = g[DOMAIN q]
  BY <1>1, <1>2, <1>4
<1>8. Passes("ranges", c, w0, q, 3, g)
  BY <1>7, LoopPasses
<1>9. QED
  BY <1>6, <1>7, <1>8 DEF w0, q

(* ... that of BlockAt, ...                                                *)
LEMMA FollowLoop ==
  ASSUME NEW f, NEW place, NEW k \in Nat, DOMAIN Tail(place) = 1 .. k
  PROVE  \E g : /\ Passes("follow", f, Pointer(f, NULL, Head(place)), Tail(place), k, g)
                /\ BlockAt(f, place) = g[1 .. k]
<1> DEFINE q == Tail(place)
           b == Pointer(f, NULL, Head(place))
           One(at, i) == IF at = NULL THEN NULL ELSE Pointer(f, at, i)
           P(g) == g = [s \in SUBSET DOMAIN q |->
                          IF s = {} THEN b ELSE One(g[s \ {Max(s)}], q[Max(s)])]
<1>1. BlockAt(f, place) = (CHOOSE g : P(g))[DOMAIN q]
  BY DEF BlockAt, FoldLeft, MapThenFoldSet
<1>0. \A at, i : One(at, i) = Pass("follow", f, at, i)
  BY DEF Pass
<1> HIDE DEF One, b, q
<1>2. \A g : P(g) <=> Loop("follow", f, b, q, k, g)
  BY <1>0 DEF Loop, q
<1> HIDE DEF P
<1>3. \E g : P(g)
  BY <1>2, LoopExists
<1>4. P(CHOOSE g : P(g))
  BY <1>3
<1>5. QED
  BY <1>1, <1>2, <1>4, LoopPasses DEF b, q

(* ... that of ReadAt, ...                                                 *)
LEMMA ReadLoop ==
  ASSUME NEW f, NEW r, NEW q, NEW k \in Nat, DOMAIN q = 1 .. k, NEW offset, NEW num_bytes
  PROVE  \E g : /\ Passes("read", [f |-> f, num_bytes |-> num_bytes, offset |-> offset],
                          r, q, k, g)
                /\ ReadAt(f, r, q, offset, num_bytes) = g[1 .. k]
<1> DEFINE c == [f |-> f, num_bytes |-> num_bytes, offset |-> offset]
           One(u, place) ==
             LET b     == BlockAt(f, place)
                 here  == IF b = NULL THEN <<>> ELSE Bytes(f, b, offset)
                 wanted == num_bytes - Len(u.bytes)
                 got   == IF wanted > 0 /\ wanted < Len(here) THEN SubSeq(here, 1, wanted)
                                                              ELSE here
             IN  IF u.done THEN u
                 ELSE [bytes |-> u.bytes \o got,
                       done  |-> Len(u.bytes \o got) = num_bytes]
           P(g) == g = [s \in SUBSET DOMAIN q |->
                          IF s = {} THEN r ELSE One(g[s \ {Max(s)}], q[Max(s)])]
<1>1. ReadAt(f, r, q, offset, num_bytes) = (CHOOSE g : P(g))[DOMAIN q]
  BY DEF ReadAt, FoldLeft, MapThenFoldSet
<1>0. \A u, place : One(u, place) = Pass("read", c, u, place)
  <2>1. c.f = f /\ c.num_bytes = num_bytes /\ c.offset = offset
    OBVIOUS
  <2> HIDE DEF c
  <2>2. \A u, place : One(u, place) = ReadBlock(c, u, place)
    BY <2>1, Zenon DEF ReadBlock
  <2> HIDE DEF One
  <2>3. \A u, place : Pass("read", c, u, place) = ReadBlock(c, u, place)
    BY DEF Pass
  <2>4. QED
    BY <2>2, <2>3
<1> HIDE DEF One
<1>2. \A g : P(g) <=> Loop("read", c, r, q, k, g)
  BY <1>0 DEF Loop
<1> HIDE DEF P
<1>3. \E g : P(g)
  BY <1>2, LoopExists
<1>4. P(CHOOSE g : P(g))
  BY <1>3
<1>5. QED
  BY <1>1, <1>2, <1>4, LoopPasses

(* ... and in which the ranges are read in turn.                           *)
LEMMA ReadsLoop ==
  ASSUME NEW f, NEW pos, NEW num_bytes
  PROVE  \E g : /\ Passes("reads", [f |-> f, pos |-> pos, num_bytes |-> num_bytes],
                          [bytes |-> <<>>, done |-> FALSE], <<1, 2, 3>>, 3, g)
                /\ Read(f, pos, num_bytes) = g[1 .. 3].bytes
<1> DEFINE c == [f |-> f, pos |-> pos, num_bytes |-> num_bytes]
           r0 == [bytes |-> <<>>, done |-> FALSE]
           q == <<1, 2, 3>>
           One(r, range) ==
             LET at  == (pos + Len(r.bytes)) % UINT_RANGE
                 seg == at \div BLOCK_SIZE
             IN  IF InRange(seg, range) /\ (range # 1 => Len(r.bytes) < num_bytes)
                 THEN ReadAt(f, r, Places(seg, range), at % BLOCK_SIZE, num_bytes)
                 ELSE r
           P(g) == g = [s \in SUBSET DOMAIN q |->
                          IF s = {} THEN r0 ELSE One(g[s \ {Max(s)}], q[Max(s)])]
<1>1. Read(f, pos, num_bytes) = (CHOOSE g : P(g))[DOMAIN q].bytes
  BY DEF Read, FoldLeft, MapThenFoldSet
<1>0. \A r, range : One(r, range) = Pass("reads", c, r, range)
  BY DEF Pass, ReadRange
<1>6. DOMAIN q = 1 .. 3
  OBVIOUS
<1> HIDE DEF One, r0, q
<1>2. \A g : P(g) <=> Loop("reads", c, r0, q, 3, g)
  BY <1>0, <1>6 DEF Loop
<1> HIDE DEF P
<1>3. \E g : P(g)
  BY <1>2, LoopExists
<1>4. P(CHOOSE g : P(g))
  BY <1>3
<1>7. PICK g : Loop("reads", c, r0, q, 3, g) /\ Read(f, pos, num_bytes) = g[DOMAIN q].bytes
  BY <1>1, <1>2, <1>4
<1>8. Passes("reads", c, r0, q, 3, g)
  BY <1>7, LoopPasses
<1>9. QED
  BY <1>6, <1>7, <1>8 DEF r0, q

-----------------------------------------------------------------------------
(* Places                                                                  *)

(* The places of a file, as the ranges have them.                          *)
Direct(p) == \E i \in InodeIdx : i < SINGLE /\ p = <<i>>
Single(p) == \E k \in PtrIdx : p = <<SINGLE, k>>
Double(p) == \E i, k \in PtrIdx : p = <<DOUBLE, i, k>>
IsPlace(p) == Direct(p) \/ Single(p) \/ Double(p)

(* The loop of rd_write and rd_read that divides the segment again for     *)
(* each index block stays within the index blocks' slots.                  *)
LEMMA FirstsInRange ==
  ASSUME NEW seg \in DOUBLE_START .. MAX_BLOCKS - 1, NEW first,
         first = [i \in 0 .. PTRS_PER_BLOCK - 1 |->
           (IF i = 0 THEN seg - DOUBLE_START ELSE first[i - 1]) \div PTRS_PER_BLOCK]
  PROVE  \A i \in PtrIdx : first[i] \in PtrIdx
<1> DEFINE P == PTRS_PER_BLOCK
           Bad == {i \in Nat : i <= P - 1 /\ first[i] \notin PtrIdx}
<1>0. P \in Nat \ {0} /\ seg - DOUBLE_START \in 0 .. P * P - 1
  BY DiscosIOAssumption DEF DOUBLE_START, SINGLE_START, MAX_BLOCKS
<1>1. \A x \in 0 .. P * P - 1 : x \div P \in PtrIdx
  <2> SUFFICES ASSUME NEW x \in 0 .. P * P - 1 PROVE x \div P \in 0 .. P - 1
    BY DEF PtrIdx
  <2> HIDE DEF P
  <2>1. x = P * (x \div P) + (x % P) /\ x % P \in 0 .. P - 1 /\ x \div P \in Int
    BY <1>0
  <2> DEFINE q == x \div P
  <2>2. q \in Int /\ P * q <= x /\ x < P * q + P
    BY <1>0, <2>1
  <2> HIDE DEF q
  <2>3. x >= 0 /\ x < P * P
    BY <1>0
  <2>4. q >= 0
    <3>1. ASSUME q <= -1 PROVE FALSE
      <4>1. P * q <= P * (-1)
        BY <1>0, <2>2, <3>1, Z3
      <4>2. QED
        BY <1>0, <2>2, <2>3, <4>1
    <3>2. QED
      BY <2>2, <3>1
  <2>5. q < P
    <3>1. ASSUME q >= P PROVE FALSE
      <4>1. P * q >= P * P
        BY <1>0, <2>2, <3>1, Z3
      <4>2. QED
        BY <1>0, <2>2, <2>3, <4>1
    <3>2. QED
      BY <1>0, <2>2, <3>1
  <2>6. QED
    BY <1>0, <2>2, <2>4, <2>5 DEF q
<1>2. \A x \in PtrIdx : x \in 0 .. P * P - 1
  <2> SUFFICES ASSUME NEW x \in 0 .. P - 1 PROVE x <= P * P - 1
    BY <1>0 DEF PtrIdx
  <2> HIDE DEF P
  <2>1. P <= P * P
    BY <1>0, Z3
  <2>2. QED
    BY <1>0, <2>1
<1>3. /\ first[0] = (seg - DOUBLE_START) \div P
      /\ \A i \in 1 .. P - 1 : first[i] = first[i - 1] \div P
  <2>1. \A i \in 0 .. P - 1 : first[i] = (IF i = 0 THEN seg - DOUBLE_START ELSE first[i - 1]) \div P
    OBVIOUS
  <2>2. 0 \in 0 .. P - 1 /\ \A i \in 1 .. P - 1 : i \in 0 .. P - 1 /\ i # 0
    BY <1>0
  <2> HIDE DEF P
  <2>3. QED
    BY <2>1, <2>2
<1> HIDE DEF P
<1>4. Bad = {}
  <2> SUFFICES ASSUME Bad # {} PROVE FALSE
    OBVIOUS
  <2>1. PICK i \in Bad : \A x \in Bad : i <= x
    BY MinExists
  <2>2. i # 0
    BY <1>0, <1>1, <1>3, <2>1
  <2>3. i \in 1 .. P - 1 /\ i - 1 \in Nat /\ i - 1 <= P - 1 /\ i - 1 \notin Bad
    BY <1>0, <2>1, <2>2
  <2>4. first[i - 1] \in PtrIdx
    BY <2>3
  <2>5. first[i] \in PtrIdx
    BY <1>1, <1>2, <1>3, <2>3, <2>4
  <2>6. QED
    BY <2>5
<1>5. ASSUME NEW i \in PtrIdx PROVE first[i] \in PtrIdx
  <2>1. i \in Nat /\ i <= P - 1
    BY <1>0 DEF PtrIdx, P
  <2>2. QED
    BY <1>4, <2>1
<1>6. QED
  BY <1>5

(* That loop can be run: there is such a function.                         *)
LEMMA FirstsExist ==
  ASSUME NEW seg
  PROVE  \E first : first = [i \in 0 .. PTRS_PER_BLOCK - 1 |->
           (IF i = 0 THEN seg - DOUBLE_START ELSE first[i - 1]) \div PTRS_PER_BLOCK]
<1> DEFINE P == PTRS_PER_BLOCK
           x == seg - DOUBLE_START
           q == [i \in 1 .. P |-> i]
<1>0. P \in Nat \ {0}
  BY DiscosIOAssumption
<1>1. PICK g : Loop("divide", x, 0, q, P, g)
  BY <1>0, LoopExists
<1>2. Passes("divide", x, 0, q, P, g)
  BY <1>0, <1>1, LoopPasses
<1> HIDE DEF x
<1>3. \A i \in 1 .. P : g[1 .. i] = (IF i = 1 THEN x ELSE g[1 .. (i - 1)]) \div P
  BY <1>2 DEF Passes, Pass
<1> HIDE DEF P
<1> DEFINE first == [i \in 0 .. P - 1 |-> g[1 .. (i + 1)]]
<1>4. ASSUME NEW i \in 0 .. P - 1
      PROVE  first[i] = (IF i = 0 THEN x ELSE first[i - 1]) \div P
  <2>1. i + 1 \in 1 .. P /\ (i + 1) - 1 = i /\ (i + 1 = 1 <=> i = 0)
    BY <1>0
  <2>2. first[i] = (IF i = 0 THEN x ELSE g[1 .. i]) \div P
    BY <1>3, <2>1
  <2>3. i # 0 => i - 1 \in 0 .. P - 1 /\ (i - 1) + 1 = i
    BY <1>0
  <2>4. i # 0 => first[i - 1] = g[1 .. i]
    BY <2>3
  <2> HIDE DEF first
  <2>5. QED
    BY <2>2, <2>4
<1>5. first = [i \in 0 .. P - 1 |-> (IF i = 0 THEN x ELSE first[i - 1]) \div P]
  <2>1. first = [i \in 0 .. P - 1 |-> first[i]]
    OBVIOUS
  <2> HIDE DEF first
  <2>2. QED
    BY <1>4, <2>1
<1> HIDE DEF first
<1>6. QED
  BY <1>5 DEF P, x

(* What holds with each sequence more that is joined to those before it    *)
(* holds of all.                                                           *)
LEMMA Joined ==
  ASSUME NEW n \in Nat \ {0}, NEW seqs, Len(seqs) = n, NEW Inv, seqs[1] \in Inv[1],
         \A i \in 2 .. n : \A v \in Inv[i - 1] : v \o seqs[i] \in Inv[i]
  PROVE  FlattenSeq(seqs) \in Inv[n]
<1> DEFINE q == [i \in 1 .. n |-> i]
           P(f) == f = [i \in 1 .. n |-> IF i = 1 THEN seqs[i] ELSE f[i - 1] \o seqs[i]]
<1>2. FlattenSeq(seqs) = (CHOOSE f : P(f))[n]
  BY DEF FlattenSeq
<1>3. PICK g : Loop("join", seqs, <<>>, q, n, g)
  BY LoopExists
<1>4. Passes("join", seqs, <<>>, q, n, g)
  BY <1>3, LoopPasses
<1>5. \A i \in 1 .. n : g[1 .. i] = IF i = 1 THEN seqs[i] ELSE g[1 .. (i - 1)] \o seqs[i]
  BY <1>4 DEF Passes, Pass
<1> DEFINE h == [i \in 1 .. n |-> g[1 .. i]]
<1>6. P(h)
  <2>1. ASSUME NEW i \in 1 .. n PROVE h[i] = IF i = 1 THEN seqs[i] ELSE h[i - 1] \o seqs[i]
    <3>1. i # 1 => i - 1 \in 1 .. n
      OBVIOUS
    <3>2. i # 1 => h[i - 1] = g[1 .. (i - 1)]
      BY <3>1
    <3>3. h[i] = g[1 .. i]
      OBVIOUS
    <3> HIDE DEF h
    <3>4. QED
      BY <1>5, <3>2, <3>3
  <2>2. h = [i \in 1 .. n |-> h[i]]
    OBVIOUS
  <2> HIDE DEF h
  <2>3. QED
    BY <2>1, <2>2
<1> HIDE DEF h
<1> DEFINE f == CHOOSE f : P(f)
<1>7. P(f)
  <2> HIDE DEF P
  <2>1. QED
    BY <1>6
<1> HIDE DEF f
<1>8. \A i \in 1 .. n : f[i] = IF i = 1 THEN seqs[i] ELSE f[i - 1] \o seqs[i]
  BY <1>7
<1> HIDE DEF P
<1> DEFINE Bad == {i \in Nat : i \in 1 .. n /\ f[i] \notin Inv[i]}
<1>9. Bad = {}
  <2> SUFFICES ASSUME Bad # {} PROVE FALSE
    OBVIOUS
  <2>1. PICK i \in Bad : \A x \in Bad : i <= x
    BY MinExists
  <2>2. CASE i = 1
    BY <1>8, <2>2
  <2>3. CASE i # 1
    <3>1. i \in 2 .. n /\ i - 1 \in Nat /\ i - 1 \in 1 .. n /\ i - 1 \notin Bad
      BY <2>1, <2>3
    <3>2. f[i - 1] \in Inv[i - 1]
      BY <3>1
    <3>3. f[i - 1] \o seqs[i] \in Inv[i]
      BY <3>1, <3>2
    <3>4. f[i] = f[i - 1] \o seqs[i]
      BY <1>8, <3>1
    <3>5. QED
      BY <3>3, <3>4
  <2>4. QED
    BY <2>2, <2>3
<1>10. f[n] \in Inv[n]
  BY <1>9
<1>11. QED
  BY <1>2, <1>10 DEF f

(* Joining sequences of elements of S gives such a sequence.               *)
LEMMA Flattened ==
  ASSUME NEW n \in Nat \ {0}, NEW S, NEW seqs \in [1 .. n -> Seq(S)]
  PROVE  FlattenSeq(seqs) \in Seq(S)
<1> DEFINE Inv == [i \in 1 .. n |-> Seq(S)]
<1>1. Len(seqs) = n /\ seqs[1] \in Seq(S)
  OBVIOUS
<1>2. \A i \in 2 .. n : \A v \in Seq(S) : v \o seqs[i] \in Seq(S)
  <2>1. ASSUME NEW i \in 2 .. n, NEW v \in Seq(S) PROVE v \o seqs[i] \in Seq(S)
    <3>1. seqs[i] \in Seq(S)
      OBVIOUS
    <3>2. QED
      BY <3>1
  <2>2. QED
    BY <2>1
<1>3. Inv[1] = Seq(S) /\ Inv[n] = Seq(S) /\ \A i \in 2 .. n : Inv[i] = Seq(S) /\ Inv[i - 1] = Seq(S)
  OBVIOUS
<1> HIDE DEF Inv
<1>4. FlattenSeq(seqs) \in Inv[n]
  BY <1>1, <1>2, <1>3, Joined
<1>5. QED
  BY <1>3, <1>4

(* What the loops over a range visit are places of the file.               *)
LEMMA PlacesAre ==
  ASSUME NEW seg \in Nat, NEW range \in {1, 2, 3}, InRange(seg, range)
  PROVE  \E n \in Nat : /\ DOMAIN Places(seg, range) = 1 .. n
                        /\ \A i \in 1 .. n : IsPlace(Places(seg, range)[i])
<1>0. /\ INODE_NUM_DIRECT_PTR \in Nat /\ PTRS_PER_BLOCK \in Nat \ {0}
  BY DiscosIOAssumption
<1>1. CASE range = 1
  <2> DEFINE n == INODE_NUM_DIRECT_PTR - seg
             p == [k \in 1 .. n |-> <<seg + k - 1>>]
  <2>1. Places(seg, range) = p
    BY <1>1 DEF Places, DirectPlaces
  <2>2. n \in Nat
    BY <1>0, <1>1 DEF InRange, SINGLE_START
  <2>3. ASSUME NEW k \in 1 .. n PROVE IsPlace(p[k])
    <3>1. seg + k - 1 \in InodeIdx /\ seg + k - 1 < SINGLE
      BY <1>0, <2>2 DEF InodeIdx, SINGLE, DOUBLE
    <3>2. p[k] = <<seg + k - 1>>
      OBVIOUS
    <3>3. QED
      BY <3>1, <3>2 DEF IsPlace, Direct
  <2>4. DOMAIN p = 1 .. n
    OBVIOUS
  <2> HIDE DEF p, n
  <2>5. QED
    BY <2>1, <2>2, <2>3, <2>4
<1>2. CASE range = 2
  <2> DEFINE n == DOUBLE_START - seg
             p == [k \in 1 .. n |-> <<SINGLE, seg - SINGLE_START + k - 1>>]
  <2>1. Places(seg, range) = p
    BY <1>2 DEF Places, SinglePlaces
  <2>0. seg \in SINGLE_START .. DOUBLE_START - 1
    BY <1>2 DEF InRange
  <2>2. n \in Nat
    BY <1>0, <2>0 DEF DOUBLE_START, SINGLE_START
  <2>3. ASSUME NEW k \in 1 .. n PROVE IsPlace(p[k])
    <3>1. seg - SINGLE_START + k - 1 \in PtrIdx
      BY <1>0, <2>0, <2>2 DEF PtrIdx, DOUBLE_START, SINGLE_START
    <3>2. p[k] = <<SINGLE, seg - SINGLE_START + k - 1>>
      OBVIOUS
    <3>3. QED
      BY <3>1, <3>2 DEF IsPlace, Single
  <2>4. DOMAIN p = 1 .. n
    OBVIOUS
  <2> HIDE DEF p, n
  <2>5. QED
    BY <2>1, <2>2, <2>3, <2>4
<1>3. CASE range = 3
  <2> DEFINE F(first) == first = [i \in 0 .. PTRS_PER_BLOCK - 1 |->
                 (IF i = 0 THEN seg - DOUBLE_START ELSE first[i - 1]) \div PTRS_PER_BLOCK]
             first == CHOOSE first : F(first)
             under(i) == [k \in 1 .. PTRS_PER_BLOCK - first[i] |-> <<DOUBLE, i, first[i] + k - 1>>]
             seqs == [i \in 1 .. PTRS_PER_BLOCK |-> under(i - 1)]
             S == {<<DOUBLE, i, k>> : i \in PtrIdx, k \in PtrIdx}
  <2>1. Places(seg, range) = FlattenSeq(seqs)
    BY <1>3 DEF Places, DoublePlaces
  <2>2. F(first)
    <3>1. \E f : F(f)
      BY FirstsExist
    <3> HIDE DEF F
    <3>2. QED
      BY <3>1
  <2>3. seg \in DOUBLE_START .. MAX_BLOCKS - 1
    BY <1>3 DEF InRange
  <2> HIDE DEF first
  <2>4. \A i \in PtrIdx : first[i] \in PtrIdx
    BY <2>2, <2>3, FirstsInRange
  <2> HIDE DEF F
  <2>5. ASSUME NEW i \in 1 .. PTRS_PER_BLOCK PROVE under(i - 1) \in Seq(S)
    <3> DEFINE j == i - 1
               m == PTRS_PER_BLOCK - first[j]
               u == [k \in 1 .. m |-> <<DOUBLE, j, first[j] + k - 1>>]
    <3>1. j \in PtrIdx
      BY <1>0 DEF PtrIdx
    <3>2. first[j] \in Int /\ first[j] >= 0 /\ first[j] <= PTRS_PER_BLOCK - 1
      BY <1>0, <2>4, <3>1 DEF PtrIdx
    <3>3. m \in Nat
      BY <1>0, <3>2
    <3>4. ASSUME NEW k \in 1 .. m PROVE <<DOUBLE, j, first[j] + k - 1>> \in S
      <4>1. first[j] + k - 1 \in PtrIdx
        BY <1>0, <3>2, <3>3 DEF PtrIdx
      <4> HIDE DEF j
      <4>2. QED
        BY <3>1, <4>1
    <3> HIDE DEF m, S, j
    <3>5. u \in [1 .. m -> S]
      BY <3>4
    <3>6. u \in Seq(S)
      BY <3>3, <3>5
    <3>7. QED
      BY <3>6 DEF m, j
  <2> HIDE DEF under, S
  <2>6. seqs \in [1 .. PTRS_PER_BLOCK -> Seq(S)]
    BY <2>5
  <2> HIDE DEF seqs
  <2>7. FlattenSeq(seqs) \in Seq(S)
    BY <1>0, <2>6, Flattened
  <2> DEFINE p == FlattenSeq(seqs)
  <2> HIDE DEF p
  <2>8. p \in Seq(S)
    BY <2>7 DEF p
  <2>9. Len(p) \in Nat /\ DOMAIN p = 1 .. Len(p) /\ \A i \in 1 .. Len(p) : p[i] \in S
    BY <2>8
  <2>10. \A x \in S : IsPlace(x)
    BY DEF S, IsPlace, Double
  <2>11. QED
    BY <2>1, <2>9, <2>10 DEF p
<1>4. QED
  BY <1>1, <1>2, <1>3

-----------------------------------------------------------------------------
(* The pointers of the file                                                *)

(* One slot, two slots, three.                                             *)
LEMMA BlockAtIs ==
  ASSUME NEW f
  PROVE  /\ \A i : BlockAt(f, <<i>>) = f.pointers[i]
         /\ \A i, k : BlockAt(f, <<i, k>>) =
              IF f.pointers[i] = NULL THEN NULL ELSE Pointer(f, f.pointers[i], k)
         /\ \A i, j, k : BlockAt(f, <<i, j, k>>) =
              IF f.pointers[i] = NULL \/ Pointer(f, f.pointers[i], j) = NULL THEN NULL
              ELSE Pointer(f, Pointer(f, f.pointers[i], j), k)
<1>1. ASSUME NEW i PROVE BlockAt(f, <<i>>) = f.pointers[i]
  <2> DEFINE p == <<i>>
  <2>1. Head(p) = i /\ Tail(p) = <<>> /\ DOMAIN <<>> = 1 .. 0
    OBVIOUS
  <2> HIDE DEF p
  <2>2. PICK g : /\ Passes("follow", f, Pointer(f, NULL, Head(p)), Tail(p), 0, g)
                 /\ BlockAt(f, p) = g[1 .. 0]
    BY <2>1, FollowLoop
  <2>3. BlockAt(f, p) = Pointer(f, NULL, i)
    BY <2>1, <2>2 DEF Passes
  <2>4. QED
    BY <2>3 DEF Pointer, p
<1>2. ASSUME NEW i, NEW k
      PROVE  BlockAt(f, <<i, k>>) =
               IF f.pointers[i] = NULL THEN NULL ELSE Pointer(f, f.pointers[i], k)
  <2> DEFINE p == <<i, k>>
             q == <<k>>
  <2>1. Head(p) = i /\ Tail(p) = q /\ DOMAIN q = 1 .. 1 /\ q[1] = k
    OBVIOUS
  <2> HIDE DEF p, q
  <2>2. PICK g : /\ Passes("follow", f, Pointer(f, NULL, i), q, 1, g)
                 /\ BlockAt(f, p) = g[1 .. 1]
    BY <2>1, FollowLoop
  <2>3. g[1 .. 1] = Pass("follow", f, g[1 .. 0], k) /\ g[1 .. 0] = Pointer(f, NULL, i)
    <3>1. 1 \in 1 .. 1 /\ 1 - 1 = 0
      OBVIOUS
    <3>2. QED
      BY <2>1, <2>2, <3>1 DEF Passes
  <2>4. Pointer(f, NULL, i) = f.pointers[i]
    BY DEF Pointer
  <2>5. QED
    BY <2>2, <2>3, <2>4 DEF Pass, p
<1>3. ASSUME NEW i, NEW j, NEW k
      PROVE  BlockAt(f, <<i, j, k>>) =
               IF f.pointers[i] = NULL \/ Pointer(f, f.pointers[i], j) = NULL THEN NULL
               ELSE Pointer(f, Pointer(f, f.pointers[i], j), k)
  <2> DEFINE p == <<i, j, k>>
             q == <<j, k>>
  <2>1. Head(p) = i /\ Tail(p) = q /\ DOMAIN q = 1 .. 2 /\ q[1] = j /\ q[2] = k
    OBVIOUS
  <2> HIDE DEF p, q
  <2>2. PICK g : /\ Passes("follow", f, Pointer(f, NULL, i), q, 2, g)
                 /\ BlockAt(f, p) = g[1 .. 2]
    BY <2>1, FollowLoop
  <2>3. /\ g[1 .. 2] = Pass("follow", f, g[1 .. 1], k)
        /\ g[1 .. 1] = Pass("follow", f, g[1 .. 0], j) /\ g[1 .. 0] = Pointer(f, NULL, i)
    <3>1. 1 \in 1 .. 2 /\ 1 - 1 = 0 /\ 2 \in 1 .. 2 /\ 2 - 1 = 1
      OBVIOUS
    <3>2. QED
      BY <2>1, <2>2, <3>1 DEF Passes
  <2>4. Pointer(f, NULL, i) = f.pointers[i]
    BY DEF Pointer
  <2>5. g[1 .. 1] = IF f.pointers[i] = NULL THEN NULL ELSE Pointer(f, f.pointers[i], j)
    BY <2>3, <2>4 DEF Pass
  <2>6. g[1 .. 2] = IF g[1 .. 1] = NULL THEN NULL ELSE Pointer(f, g[1 .. 1], k)
    BY <2>3 DEF Pass
  <2>7. QED
    BY <2>2, <2>5, <2>6 DEF p
<1>4. QED
  BY <1>1, <1>2, <1>3

(* The index blocks of f, without a walk.                                  *)
Index(f) ==
  {b \in {f.pointers[SINGLE], f.pointers[DOUBLE]} : b # NULL}
    \cup {b \in {f.data_blocks[f.pointers[DOUBLE]].index_block[i] : i \in PtrIdx} :
            b # NULL /\ f.pointers[DOUBLE] # NULL}

(* Where there are pointers, and those that are there.                     *)
Slots(f) == ({NULL} \X InodeIdx) \cup (Index(f) \X PtrIdx)
Set(f) == {p \in Slots(f) : Pointer(f, p[1], p[2]) # NULL}

(* OneBlockOnePlace, of any file.                                          *)
OnePlace(f) ==
  /\ \A p \in Set(f) : Pointer(f, p[1], p[2]) \in f.bitmap
  /\ \A p, q \in Set(f) : Pointer(f, p[1], p[2]) = Pointer(f, q[1], q[2]) => p = q
  /\ Cardinality(Set(f)) = Cardinality(f.bitmap)

(* These are the blocks and the pointers that the model means.             *)
LEMMA OnePlaceIs == OneBlockOnePlace <=> OnePlace(file)
<1>1. IndexBlocks = Index(file)
  <2> DEFINE D == file.pointers[DOUBLE]
             T == {<<SINGLE>>, <<DOUBLE>>} \cup {<<DOUBLE, i>> : i \in PtrIdx}
  <2>1. /\ BlockAt(file, <<SINGLE>>) = file.pointers[SINGLE]
        /\ BlockAt(file, <<DOUBLE>>) = D
        /\ \A i : BlockAt(file, <<DOUBLE, i>>) = IF D = NULL THEN NULL ELSE Pointer(file, D, i)
    BY BlockAtIs
  <2>2. D # NULL => \A i : Pointer(file, D, i) = file.data_blocks[D].index_block[i]
    BY DEF Pointer
  <2>3. IndexBlocks = {BlockAt(file, t) : t \in T} \ {NULL}
    BY DEF IndexBlocks
  <2>4. ASSUME NEW b PROVE b \in IndexBlocks <=> b \in Index(file)
    <3>1. b \in IndexBlocks <=> /\ b # NULL
                                /\ \/ b = BlockAt(file, <<SINGLE>>)
                                   \/ b = BlockAt(file, <<DOUBLE>>)
                                   \/ \E i \in PtrIdx : b = BlockAt(file, <<DOUBLE, i>>)
      BY <2>3
    <3>2. b \in Index(file) <=> /\ b # NULL
                                /\ \/ b = file.pointers[SINGLE]
                                   \/ b = D
                                   \/ /\ D # NULL
                                      /\ \E i \in PtrIdx : b = file.data_blocks[D].index_block[i]
      BY DEF Index
    <3> HIDE DEF D
    <3>3. QED
      BY <2>1, <2>2, <3>1, <3>2
  <2>5. QED
    BY <2>4
<1>2. Pointers = Set(file)
  BY <1>1 DEF Pointers, Set, Slots
<1>3. QED
  BY <1>2 DEF OneBlockOnePlace, OnePlace

-----------------------------------------------------------------------------
(* One step of rd_write to a block                                         *)

(* The files, and the states of a rd_write.                                *)
Block == [data : [Offset -> Nat], index_block : [PtrIdx -> BlockPtr]]
Files == [size : UInt, pointers : [InodeIdx -> BlockPtr], bitmap : SUBSET BlockNum,
          data_blocks : [BlockNum -> Block]]
Writes == [size : UInt, pointers : [InodeIdx -> BlockPtr], bitmap : SUBSET BlockNum,
           data_blocks : [BlockNum -> Block], n : Nat,
           out : {"on", "done", "no block", "limit"}, at : BlockPtr]

(* The slots that a place leads through are there.                         *)
LEMMA SlotFacts ==
  /\ NULL \notin BlockNum /\ NULL \in BlockPtr
  /\ SINGLE \in InodeIdx /\ DOUBLE \in InodeIdx /\ SINGLE # DOUBLE
  /\ ZeroBlock \in Block /\ \A k \in PtrIdx : ZeroBlock.index_block[k] = NULL
<1>1. NULL \notin BlockNum /\ NULL \in BlockPtr
  BY DEF NULL, BlockNum, BlockPtr
<1>2. SINGLE \in InodeIdx /\ DOUBLE \in InodeIdx /\ SINGLE # DOUBLE
  BY DiscosIOAssumption DEF SINGLE, DOUBLE, InodeIdx
<1>3. ZeroBlock \in Block /\ \A k \in PtrIdx : ZeroBlock.index_block[k] = NULL
  BY <1>1 DEF ZeroBlock, Block, ZERO
<1>4. QED
  BY <1>1, <1>2, <1>3

(* A new block, before a pointer leads to it.                              *)
Fresh(w, b) == [w EXCEPT !.bitmap = @ \cup {b}, !.data_blocks[b] = ZeroBlock, !.at = b]

(* It is marked and zero, and the state is one of a write.                 *)
LEMMA FreshIs ==
  ASSUME NEW w \in Writes, NEW b \in BlockNum, NEW v, v = Fresh(w, b)
  PROVE  /\ v \in Writes
         /\ v.size = w.size /\ v.n = w.n /\ v.out = w.out /\ v.at = b
         /\ v.pointers = w.pointers /\ v.bitmap = w.bitmap \cup {b}
         /\ \A c \in BlockNum : v.data_blocks[c] = IF c = b THEN ZeroBlock ELSE w.data_blocks[c]
<1>1. b \in BlockPtr /\ w.bitmap \cup {b} \in SUBSET BlockNum
  BY DEF BlockPtr, Writes
<1>2. [w.data_blocks EXCEPT ![b] = ZeroBlock] \in [BlockNum -> Block]
  BY SlotFacts DEF Writes
<1> DEFINE d == [w.data_blocks EXCEPT ![b] = ZeroBlock]
<1>3. \A c \in BlockNum : d[c] = IF c = b THEN ZeroBlock ELSE w.data_blocks[c]
  BY DEF Writes
<1>4. v = [w EXCEPT !.bitmap = w.bitmap \cup {b}, !.data_blocks = d, !.at = b]
  BY DEF Fresh
<1>5. d \in [BlockNum -> Block]
  BY <1>2
<1> HIDE DEF d
<1>6. /\ v.size = w.size /\ v.n = w.n /\ v.out = w.out /\ v.at = b
      /\ v.pointers = w.pointers /\ v.bitmap = w.bitmap \cup {b} /\ v.data_blocks = d
  BY <1>4 DEF Writes
<1>7. v \in Writes
  BY <1>1, <1>4, <1>5 DEF Writes
<1>8. QED
  BY <1>3, <1>6, <1>7

(* The pointer to it goes to slot k of the inode, or of an index block.    *)
Slot(w, at, k) == (at = NULL /\ k \in InodeIdx) \/ (at \in BlockNum /\ k \in PtrIdx)

(* Store writes one pointer, and the new block has none; its cells are     *)
(* cleared, and no others change.                                          *)
LEMMA StoreIs ==
  ASSUME NEW w \in Writes, NEW b \in BlockNum, NEW at, NEW k, Slot(w, at, k), at # b,
         NEW v, v = Store(w, at, k, b)
  PROVE  /\ v \in Writes
         /\ v.size = w.size /\ v.n = w.n /\ v.out = w.out /\ v.at = b
         /\ v.bitmap = w.bitmap \cup {b}
         /\ Pointer(v, at, k) = b
         /\ \A h, l : Slot(w, h, l) /\ h # b /\ <<h, l>> # <<at, k>> =>
              Pointer(v, h, l) = Pointer(w, h, l)
         /\ \A l \in PtrIdx : Pointer(v, b, l) = NULL
         /\ \A c \in BlockNum : v.data_blocks[c].data =
              IF c = b THEN ZeroBlock.data ELSE w.data_blocks[c].data
<1> DEFINE u == Fresh(w, b)
<1>1. /\ u \in Writes
      /\ u.size = w.size /\ u.n = w.n /\ u.out = w.out /\ u.at = b
      /\ u.pointers = w.pointers /\ u.bitmap = w.bitmap \cup {b}
      /\ \A c \in BlockNum : u.data_blocks[c] = IF c = b THEN ZeroBlock ELSE w.data_blocks[c]
  BY FreshIs
<1>2. v = IF at = NULL THEN [u EXCEPT !.pointers[k] = b]
                       ELSE [u EXCEPT !.data_blocks[at].index_block[k] = b]
  BY DEF Store, Fresh
<1> HIDE DEF u
<1>3. b \in BlockPtr /\ b # NULL
  BY SlotFacts DEF BlockPtr
<1>4. CASE at = NULL
  <2> DEFINE p == [u.pointers EXCEPT ![k] = b]
  <2>1. k \in InodeIdx
    BY <1>4, SlotFacts DEF Slot
  <2>2. p \in [InodeIdx -> BlockPtr]
    BY <1>1, <1>3, <2>1 DEF Writes
  <2>3. p[k] = b /\ \A l \in InodeIdx : l # k => p[l] = w.pointers[l]
    BY <1>1, <2>1 DEF Writes
  <2>4. v = [u EXCEPT !.pointers = p]
    BY <1>2, <1>4
  <2> HIDE DEF p
  <2>5. /\ v.size = u.size /\ v.n = u.n /\ v.out = u.out /\ v.at = u.at
        /\ v.bitmap = u.bitmap /\ v.pointers = p /\ v.data_blocks = u.data_blocks
    BY <1>1, <2>4 DEF Writes
  <2>6. v \in Writes
    BY <1>1, <2>2, <2>4 DEF Writes
  <2>7. Pointer(v, at, k) = b
    BY <1>4, <2>3, <2>5 DEF Pointer
  <2>8. ASSUME NEW h, NEW l, Slot(w, h, l), h # b, <<h, l>> # <<at, k>>
        PROVE  Pointer(v, h, l) = Pointer(w, h, l)
    <3>1. CASE h = NULL
      BY <1>4, <2>3, <2>5, <2>8, <3>1, SlotFacts DEF Pointer, Slot
    <3>2. CASE h # NULL
      BY <1>1, <2>5, <2>8, <3>2 DEF Pointer, Slot
    <3>3. QED
      BY <3>1, <3>2
  <2>9. \A l \in PtrIdx : Pointer(v, b, l) = NULL
    BY <1>1, <1>3, <2>5, SlotFacts DEF Pointer
  <2>10. ASSUME NEW c \in BlockNum
         PROVE  v.data_blocks[c].data = IF c = b THEN ZeroBlock.data ELSE w.data_blocks[c].data
    BY <1>1, <2>5
  <2>11. QED
    BY <1>1, <2>5, <2>6, <2>7, <2>8, <2>9, <2>10
<1>5. CASE at # NULL
  <2> DEFINE x == [u.data_blocks[at].index_block EXCEPT ![k] = b]
             e == [u.data_blocks[at] EXCEPT !.index_block = x]
             d == [u.data_blocks EXCEPT ![at] = e]
  <2>1. at \in BlockNum /\ k \in PtrIdx
    BY <1>5 DEF Slot
  <2>2. u.data_blocks \in [BlockNum -> Block] /\ u.data_blocks[at] \in Block
    BY <1>1, <2>1 DEF Writes
  <2>3. x \in [PtrIdx -> BlockPtr] /\ x[k] = b
        /\ \A l \in PtrIdx : l # k => x[l] = u.data_blocks[at].index_block[l]
    BY <1>3, <2>1, <2>2 DEF Block
  <2>4. v = [u EXCEPT !.data_blocks = d]
    BY <1>2, <1>5
  <2>5. e \in Block /\ e.index_block = x /\ e.data = u.data_blocks[at].data
    <3> HIDE DEF x
    <3>1. QED
      BY <2>2, <2>3 DEF Block
  <2> HIDE DEF x, e
  <2>6. d \in [BlockNum -> Block] /\ d[at] = e /\ \A c \in BlockNum : c # at => d[c] = u.data_blocks[c]
    BY <2>1, <2>2, <2>5
  <2> HIDE DEF d
  <2>7. /\ v.size = u.size /\ v.n = u.n /\ v.out = u.out /\ v.at = u.at
        /\ v.bitmap = u.bitmap /\ v.pointers = u.pointers /\ v.data_blocks = d
    BY <1>1, <2>4 DEF Writes
  <2>8. v \in Writes
    BY <1>1, <2>4, <2>6 DEF Writes
  <2>9. Pointer(v, at, k) = b
    BY <1>5, <2>3, <2>5, <2>6, <2>7 DEF Pointer
  <2>10. ASSUME NEW h, NEW l, Slot(w, h, l), h # b, <<h, l>> # <<at, k>>
         PROVE  Pointer(v, h, l) = Pointer(w, h, l)
    <3>1. CASE h = NULL
      BY <1>1, <2>7, <3>1 DEF Pointer
    <3>2. CASE h # NULL /\ h # at
      BY <1>1, <2>6, <2>7, <2>10, <3>2 DEF Pointer, Slot
    <3>3. CASE h # NULL /\ h = at
      <4>1. l # k /\ l \in PtrIdx
        BY <2>10, <3>3 DEF Slot
      <4>2. Pointer(v, h, l) = x[l]
        BY <2>5, <2>6, <2>7, <3>3 DEF Pointer
      <4>3. u.data_blocks[at] = w.data_blocks[at]
        BY <1>1, <2>1
      <4>4. QED
        BY <2>3, <3>3, <4>1, <4>2, <4>3 DEF Pointer
    <3>4. QED
      BY <3>1, <3>2, <3>3
  <2>11. ASSUME NEW l \in PtrIdx PROVE Pointer(v, b, l) = NULL
    <3>1. d[b] = ZeroBlock
      BY <1>1, <2>6
    <3>2. QED
      BY <1>3, <2>7, <3>1, SlotFacts DEF Pointer
  <2>12. ASSUME NEW c \in BlockNum
         PROVE  v.data_blocks[c].data = IF c = b THEN ZeroBlock.data ELSE w.data_blocks[c].data
    <3>1. v.data_blocks[c].data = u.data_blocks[c].data
      BY <2>5, <2>6, <2>7
    <3>2. QED
      BY <1>1, <3>1
  <2>13. QED
    BY <1>1, <2>7, <2>8, <2>9, <2>10, <2>11, <2>12
<1>6. QED
  BY <1>4, <1>5

(* The sets of slots and pointers are finite.                              *)
LEMMA SetFinite ==
  ASSUME NEW w \in Writes
  PROVE  /\ IsFiniteSet(Set(w)) /\ IsFiniteSet(w.bitmap)
         /\ Index(w) \subseteq BlockNum
         /\ \A p \in Slots(w) : p = <<p[1], p[2]>> /\ Slot(w, p[1], p[2])
<1>1. IsFiniteSet(BlockNum) /\ IsFiniteSet(InodeIdx) /\ IsFiniteSet(PtrIdx)
  <2>1. /\ DATA_BLOCKS_NUM - 1 \in Int /\ DOUBLE \in Int /\ PTRS_PER_BLOCK - 1 \in Int
        /\ 0 \in Int
    BY DiscosIOAssumption DEF DOUBLE
  <2>2. QED
    BY <2>1, FS_Interval DEF BlockNum, InodeIdx, PtrIdx
<1>2. w.bitmap \subseteq BlockNum /\ w.pointers \in [InodeIdx -> BlockPtr]
      /\ w.data_blocks \in [BlockNum -> Block]
  BY DEF Writes
<1>3. Index(w) \subseteq BlockNum
  <2>1. w.pointers[SINGLE] \in BlockPtr /\ w.pointers[DOUBLE] \in BlockPtr
    BY <1>2, SlotFacts
  <2>2. ASSUME NEW i \in PtrIdx, w.pointers[DOUBLE] # NULL
        PROVE  w.data_blocks[w.pointers[DOUBLE]].index_block[i] \in BlockPtr
    <3>1. w.pointers[DOUBLE] \in BlockNum
      BY <2>1, <2>2 DEF BlockPtr
    <3>2. w.data_blocks[w.pointers[DOUBLE]] \in Block
      BY <1>2, <3>1
    <3>3. QED
      BY <3>2 DEF Block
  <2>3. QED
    BY <2>1, <2>2 DEF Index, BlockPtr
<1>4. \A p \in Slots(w) : p = <<p[1], p[2]>> /\ Slot(w, p[1], p[2])
  BY <1>3 DEF Slots, Slot
<1>5. IsFiniteSet(w.bitmap)
  BY <1>1, <1>2, FS_Subset
<1>6. IsFiniteSet(Set(w))
  <2>1. IsFiniteSet(Index(w)) /\ IsFiniteSet({NULL})
    BY <1>1, <1>3, FS_Subset, FS_Singleton
  <2>2. IsFiniteSet({NULL} \X InodeIdx) /\ IsFiniteSet(Index(w) \X PtrIdx)
    BY <1>1, <2>1, FS_Product
  <2>3. IsFiniteSet(Slots(w))
    BY <2>2, FS_Union DEF Slots
  <2>4. Set(w) \subseteq Slots(w)
    BY DEF Set
  <2>5. QED
    BY <2>3, <2>4, FS_Subset
<1>7. QED
  BY <1>3, <1>4, <1>5, <1>6

(* The block that a slot of the two indirect pointers, or of the double    *)
(* indirect block, leads to is an index block.                             *)
LeadsToIndex(w, at, k) ==
  \/ at = NULL /\ k \in {SINGLE, DOUBLE}
  \/ at = w.pointers[DOUBLE] /\ at # NULL /\ k \in PtrIdx

(* What it leads to is one.                                                *)
LEMMA IndexAfter ==
  ASSUME NEW w, NEW at, NEW k, LeadsToIndex(w, at, k), Pointer(w, at, k) # NULL
  PROVE  Pointer(w, at, k) \in Index(w)
BY DEF LeadsToIndex, Pointer, Index

(* Every index block is what a pointer leads to.                           *)
LEMMA IndexIsTarget ==
  ASSUME NEW w \in Writes, NEW h \in Index(w)
  PROVE  \E p \in Set(w) : Pointer(w, p[1], p[2]) = h /\ LeadsToIndex(w, p[1], p[2])
<1>0. h # NULL
  BY DEF Index
<1>1. CASE h = w.pointers[SINGLE] \/ h = w.pointers[DOUBLE]
  <2>1. PICK k \in {SINGLE, DOUBLE} : h = w.pointers[k]
    BY <1>1
  <2> DEFINE p == <<NULL, k>>
  <2>2. p[1] = NULL /\ p[2] = k /\ p \in Slots(w)
    BY SlotFacts DEF Slots
  <2> HIDE DEF p
  <2>3. Pointer(w, p[1], p[2]) = h
    BY <2>1, <2>2 DEF Pointer
  <2>4. p \in Set(w)
    BY <1>0, <2>2, <2>3 DEF Set
  <2>5. QED
    BY <2>2, <2>3, <2>4 DEF LeadsToIndex
<1>2. CASE h # w.pointers[SINGLE] /\ h # w.pointers[DOUBLE]
  <2> DEFINE d == w.pointers[DOUBLE]
  <2>1. PICK k \in PtrIdx : d # NULL /\ h = w.data_blocks[d].index_block[k]
    BY <1>0, <1>2 DEF Index
  <2>2. d \in Index(w)
    BY <2>1 DEF Index
  <2> DEFINE p == <<d, k>>
  <2> HIDE DEF d
  <2>3. p[1] = d /\ p[2] = k /\ p \in Slots(w)
    BY <2>2 DEF Slots
  <2> HIDE DEF p
  <2>4. Pointer(w, p[1], p[2]) = h
    BY <2>1, <2>3 DEF Pointer
  <2>5. p \in Set(w)
    BY <1>0, <2>3, <2>4 DEF Set
  <2>6. QED
    BY <2>1, <2>3, <2>4, <2>5 DEF LeadsToIndex, d
<1>3. QED
  BY <1>1, <1>2

(* Store at a slot whose pointer is NULL, of the inode or of an index      *)
(* block, adds that pointer to the file and the block to the bitmap.       *)
LEMMA StoreOnePlace ==
  ASSUME NEW w \in Writes, OnePlace(w), NEW b \in BlockNum \ w.bitmap,
         NEW at, NEW k, <<at, k>> \in Slots(w), Pointer(w, at, k) = NULL,
         NEW v, v = Store(w, at, k, b)
  PROVE  OnePlace(v) /\ Index(w) \subseteq Index(v)
<1>0. /\ IsFiniteSet(Set(w)) /\ IsFiniteSet(w.bitmap) /\ Index(w) \subseteq BlockNum
      /\ \A p \in Slots(w) : p = <<p[1], p[2]>> /\ Slot(w, p[1], p[2])
  BY SetFinite
<1>1. Slot(w, at, k)
  <2> DEFINE p == <<at, k>>
  <2>1. p[1] = at /\ p[2] = k /\ p \in Slots(w)
    OBVIOUS
  <2> HIDE DEF p
  <2>2. QED
    BY <1>0, <2>1
<1>2. ASSUME NEW h \in Index(w) PROVE h # b /\ h \in BlockNum /\ h # NULL
  <2>1. PICK p \in Set(w) : Pointer(w, p[1], p[2]) = h
    BY IndexIsTarget
  <2>2. h \in w.bitmap
    BY <2>1 DEF OnePlace
  <2>3. QED
    BY <1>0, <2>2, SlotFacts
<1>3. at # b /\ b # NULL
  <2>1. at = NULL \/ at \in Index(w)
    BY DEF Slots
  <2>2. QED
    BY <1>2, <2>1, SlotFacts
<1>4. /\ v \in Writes
      /\ v.bitmap = w.bitmap \cup {b}
      /\ Pointer(v, at, k) = b
      /\ \A h, l : Slot(w, h, l) /\ h # b /\ <<h, l>> # <<at, k>> =>
           Pointer(v, h, l) = Pointer(w, h, l)
      /\ \A l \in PtrIdx : Pointer(v, b, l) = NULL
  BY <1>1, <1>3, StoreIs
<1>5. ASSUME NEW p \in Slots(w)
      PROVE  Pointer(v, p[1], p[2]) = IF p = <<at, k>> THEN b ELSE Pointer(w, p[1], p[2])
  <2>1. p = <<p[1], p[2]>> /\ Slot(w, p[1], p[2])
    BY <1>0
  <2>2. p[1] # b
    BY <1>2, <1>3 DEF Slots
  <2>3. QED
    BY <1>4, <2>1, <2>2
<1>6. Index(w) \subseteq Index(v) /\ Index(v) \subseteq Index(w) \cup {b}
  <2> DEFINE d == w.pointers[DOUBLE]
             e == v.pointers[DOUBLE]
  <2>1. ASSUME NEW l \in {SINGLE, DOUBLE}
        PROVE  v.pointers[l] = w.pointers[l] \/ (w.pointers[l] = NULL /\ v.pointers[l] = b)
    <3>1. <<NULL, l>> \in Slots(w) /\ <<NULL, l>>[1] = NULL /\ <<NULL, l>>[2] = l
      BY SlotFacts DEF Slots
    <3>2. Pointer(v, NULL, l) = IF <<NULL, l>> = <<at, k>> THEN b ELSE Pointer(w, NULL, l)
      BY <1>5, <3>1
    <3>3. <<NULL, l>> = <<at, k>> => Pointer(w, NULL, l) = NULL
      OBVIOUS
    <3>4. Pointer(v, NULL, l) = v.pointers[l] /\ Pointer(w, NULL, l) = w.pointers[l]
      BY DEF Pointer
    <3>5. QED
      BY <3>2, <3>3, <3>4
  <2>2. ASSUME NEW l \in PtrIdx, d # NULL
        PROVE  LET c == w.data_blocks[d].index_block[l]
               IN  v.data_blocks[d].index_block[l] \in {c, b}
                   /\ (c # NULL => v.data_blocks[d].index_block[l] = c)
    <3>1. d \in Index(w)
      BY <2>2 DEF Index
    <3>2. <<d, l>> \in Slots(w) /\ <<d, l>>[1] = d /\ <<d, l>>[2] = l
      BY <3>1 DEF Slots
    <3> HIDE DEF d
    <3>3. Pointer(v, d, l) = IF <<d, l>> = <<at, k>> THEN b ELSE Pointer(w, d, l)
      BY <1>5, <3>2
    <3>4. <<d, l>> = <<at, k>> => Pointer(w, d, l) = NULL
      OBVIOUS
    <3>5. /\ Pointer(v, d, l) = v.data_blocks[d].index_block[l]
          /\ Pointer(w, d, l) = w.data_blocks[d].index_block[l]
      BY <2>2 DEF Pointer
    <3>6. QED
      BY <3>3, <3>4, <3>5
  <2>3. \A l \in PtrIdx : v.data_blocks[b].index_block[l] = NULL
    BY <1>3, <1>4 DEF Pointer
  <2>4. e = d \/ (d = NULL /\ e = b)
    BY <2>1
  <2>5. \A c : c \in Index(w) <=>
          c # NULL /\ \/ c = w.pointers[SINGLE] \/ c = d
                      \/ d # NULL /\ \E l \in PtrIdx : c = w.data_blocks[d].index_block[l]
    BY DEF Index
  <2>6. \A c : c \in Index(v) <=>
          c # NULL /\ \/ c = v.pointers[SINGLE] \/ c = e
                      \/ e # NULL /\ \E l \in PtrIdx : c = v.data_blocks[e].index_block[l]
    BY DEF Index
  <2>7. v.pointers[SINGLE] = w.pointers[SINGLE]
          \/ (w.pointers[SINGLE] = NULL /\ v.pointers[SINGLE] = b)
    BY <2>1
  <2> HIDE DEF d, e
  <2>8. ASSUME NEW c \in Index(w) PROVE c \in Index(v)
    <3>1. c # NULL
      BY <2>5
    <3>2. CASE c = w.pointers[SINGLE]
      BY <2>6, <2>7, <3>1, <3>2
    <3>3. CASE c = d
      BY <2>4, <2>6, <3>1, <3>3
    <3>4. CASE d # NULL /\ \E l \in PtrIdx : c = w.data_blocks[d].index_block[l]
      <4>1. PICK l \in PtrIdx : c = w.data_blocks[d].index_block[l]
        BY <3>4
      <4>2. v.data_blocks[d].index_block[l] = c /\ e = d
        BY <2>2, <2>4, <3>1, <3>4, <4>1
      <4>3. QED
        BY <2>6, <3>1, <3>4, <4>2
    <3>5. QED
      BY <2>5, <3>2, <3>3, <3>4
  <2>9. ASSUME NEW c \in Index(v) PROVE c \in Index(w) \/ c = b
    <3>1. c # NULL
      BY <2>6
    <3>2. CASE c = v.pointers[SINGLE]
      BY <2>5, <2>7, <3>1, <3>2
    <3>3. CASE c = e
      BY <2>4, <2>5, <3>1, <3>3
    <3>4. CASE e # NULL /\ \E l \in PtrIdx : c = v.data_blocks[e].index_block[l]
      <4>1. PICK l \in PtrIdx : c = v.data_blocks[e].index_block[l]
        BY <3>4
      <4>2. e = d /\ d # NULL
        BY <2>3, <2>4, <3>1, <3>4, <4>1
      <4>3. c \in {w.data_blocks[d].index_block[l], b}
        BY <2>2, <4>1, <4>2
      <4>4. QED
        BY <2>5, <3>1, <4>2, <4>3
    <3>5. QED
      BY <2>6, <3>2, <3>3, <3>4
  <2>10. QED
    BY <2>8, <2>9
<1> DEFINE new == <<at, k>>
<1>7. Slots(w) \subseteq Slots(v) /\ Slots(v) \subseteq Slots(w) \cup ({b} \X PtrIdx)
  BY <1>6 DEF Slots
<1>8. new[1] = at /\ new[2] = k /\ new \in Slots(w) /\ new \notin Set(w)
  BY DEF Set
<1>9. \A p \in Set(w) : p \in Slots(w) /\ p # new
  BY <1>8 DEF Set
<1>10. \A p \in Set(w) : Pointer(v, p[1], p[2]) = Pointer(w, p[1], p[2])
  BY <1>5, <1>9
<1>11. Pointer(v, new[1], new[2]) = b
  BY <1>4, <1>8
<1> HIDE DEF new
<1>12. Set(v) = Set(w) \cup {new}
  <2>1. ASSUME NEW p \in Set(w) \cup {new} PROVE p \in Set(v)
    <3>1. p \in Slots(v)
      BY <1>7, <1>8, <1>9
    <3>2. Pointer(v, p[1], p[2]) # NULL
      BY <1>3, <1>10, <1>11 DEF Set
    <3>3. QED
      BY <3>1, <3>2 DEF Set
  <2>2. ASSUME NEW p \in Set(v) PROVE p \in Set(w) \cup {new}
    <3>1. p \in Slots(v) /\ Pointer(v, p[1], p[2]) # NULL
      BY DEF Set
    <3>2. CASE p \in Slots(w)
      <4>1. p # new => Pointer(w, p[1], p[2]) # NULL
        BY <1>5, <3>1, <3>2 DEF new
      <4>2. QED
        BY <3>2, <4>1 DEF Set
    <3>3. CASE p \notin Slots(w)
      <4>1. p \in {b} \X PtrIdx
        BY <1>7, <3>1, <3>3
      <4>2. p[1] = b /\ p[2] \in PtrIdx
        BY <4>1
      <4>3. QED
        BY <1>4, <3>1, <4>2
    <3>4. QED
      BY <3>2, <3>3
  <2>3. QED
    BY <2>1, <2>2
<1>13. \A p \in Set(w) : Pointer(w, p[1], p[2]) \in w.bitmap
  BY DEF OnePlace
<1>14. \A p, q \in Set(w) : Pointer(w, p[1], p[2]) = Pointer(w, q[1], q[2]) => p = q
  BY DEF OnePlace
<1>15. \A p \in Set(v) : Pointer(v, p[1], p[2]) \in v.bitmap
  BY <1>4, <1>10, <1>11, <1>12, <1>13
<1>16. ASSUME NEW p \in Set(v), NEW q \in Set(v),
              Pointer(v, p[1], p[2]) = Pointer(v, q[1], q[2])
       PROVE  p = q
  <2>1. \A r \in Set(w) : Pointer(v, r[1], r[2]) # b
    BY <1>10, <1>13
  <2>2. CASE p = new \/ q = new
    BY <1>11, <1>12, <1>16, <2>1, <2>2
  <2>3. CASE p # new /\ q # new
    BY <1>10, <1>12, <1>14, <1>16, <2>3
  <2>4. QED
    BY <2>2, <2>3
<1>17. Cardinality(Set(v)) = Cardinality(v.bitmap)
  <2>1. Cardinality(Set(v)) = Cardinality(Set(w)) + 1
    BY <1>0, <1>8, <1>12, FS_AddElement
  <2>2. Cardinality(v.bitmap) = Cardinality(w.bitmap) + 1
    BY <1>0, <1>4, FS_AddElement
  <2>3. Cardinality(Set(w)) = Cardinality(w.bitmap)
    BY DEF OnePlace
  <2>4. QED
    BY <2>1, <2>2, <2>3
<1>18. QED
  BY <1>6, <1>15, <1>16, <1>17 DEF OnePlace

(* The slot that a place of f ends at.                                     *)
EndsAt(f, p, h, k) ==
  \/ k \in InodeIdx /\ k < SINGLE /\ p = <<k>> /\ h = NULL
  \/ k \in PtrIdx /\ p = <<SINGLE, k>> /\ h = f.pointers[SINGLE] /\ h # NULL
  \/ /\ k \in PtrIdx /\ f.pointers[DOUBLE] # NULL
     /\ \E i \in PtrIdx : /\ p = <<DOUBLE, i, k>>
                          /\ h = f.data_blocks[f.pointers[DOUBLE]].index_block[i] /\ h # NULL

(* The block of a place is where the pointer there leads.                  *)
LEMMA PlaceEnds ==
  ASSUME NEW f, NEW p, IsPlace(p), BlockAt(f, p) # NULL
  PROVE  \E h, k : EndsAt(f, p, h, k) /\ Pointer(f, h, k) = BlockAt(f, p)
<1>1. CASE Direct(p)
  <2>1. PICK i \in InodeIdx : i < SINGLE /\ p = <<i>>
    BY <1>1 DEF Direct
  <2>2. Pointer(f, NULL, i) = BlockAt(f, p)
    BY <2>1, BlockAtIs DEF Pointer
  <2>3. EndsAt(f, p, NULL, i)
    BY <2>1 DEF EndsAt
  <2>4. QED
    BY <2>2, <2>3
<1>2. CASE Single(p)
  <2>1. PICK k \in PtrIdx : p = <<SINGLE, k>>
    BY <1>2 DEF Single
  <2>2. BlockAt(f, p) = IF f.pointers[SINGLE] = NULL THEN NULL ELSE Pointer(f, f.pointers[SINGLE], k)
    BY <2>1, BlockAtIs
  <2>3. f.pointers[SINGLE] # NULL
    BY <2>2
  <2>4. EndsAt(f, p, f.pointers[SINGLE], k)
    BY <2>1, <2>3 DEF EndsAt
  <2>5. QED
    BY <2>2, <2>3, <2>4
<1>3. CASE Double(p)
  <2>1. PICK i \in PtrIdx, k \in PtrIdx : p = <<DOUBLE, i, k>>
    BY <1>3 DEF Double
  <2> DEFINE d == f.pointers[DOUBLE]
             h == Pointer(f, d, i)
  <2>2. BlockAt(f, p) = IF d = NULL \/ h = NULL THEN NULL ELSE Pointer(f, h, k)
    BY <2>1, BlockAtIs
  <2> HIDE DEF h
  <2>3. d # NULL /\ h # NULL
    BY <2>2
  <2>4. h = f.data_blocks[d].index_block[i]
    BY <2>3 DEF h, Pointer
  <2>5. EndsAt(f, p, h, k)
    BY <2>1, <2>3, <2>4 DEF EndsAt
  <2>6. QED
    BY <2>2, <2>3, <2>5
<1>4. QED
  BY <1>1, <1>2, <1>3 DEF IsPlace

(* That is a slot of f, ...                                                *)
LEMMA EndIsSlot ==
  ASSUME NEW f, NEW p, NEW h, NEW k, EndsAt(f, p, h, k), Pointer(f, h, k) # NULL
  PROVE  <<h, k>> \in Set(f)
<1> DEFINE s == <<h, k>>
<1>1. s[1] = h /\ s[2] = k
  OBVIOUS
<1>2. s \in Slots(f)
  <2>1. CASE h = NULL
    BY <2>1 DEF EndsAt, Slots
  <2>2. CASE h # NULL
    <3>1. h \in Index(f) /\ k \in PtrIdx
      BY <2>2 DEF EndsAt, Index
    <3>2. QED
      BY <3>1 DEF Slots
  <2>3. QED
    BY <2>1, <2>2
<1> HIDE DEF s
<1>3. s \in Set(f)
  BY <1>1, <1>2 DEF Set
<1>4. QED
  BY <1>3 DEF s

(* ... and where the pointers have one place each, of no other place.      *)
LEMMA EndOfOne ==
  ASSUME NEW f, OnePlace(f), NEW p, NEW q, NEW h, NEW k,
         EndsAt(f, p, h, k), EndsAt(f, q, h, k)
  PROVE  p = q
<1> DEFINE d == f.pointers[DOUBLE]
           x(i) == f.data_blocks[d].index_block[i]
<1>1. CASE h = NULL
  BY <1>1 DEF EndsAt
<1>2. CASE h # NULL
  <2>1. ASSUME NEW i \in PtrIdx, NEW s, s = <<d, i>>, d # NULL, x(i) = h PROVE s \in Set(f)
    <3>1. d \in Index(f)
      BY <2>1 DEF Index
    <3>2. s \in Slots(f) /\ s[1] = d /\ s[2] = i
      BY <2>1, <3>1 DEF Slots
    <3>3. Pointer(f, d, i) = h
      BY <2>1 DEF Pointer
    <3>4. QED
      BY <1>2, <3>2, <3>3 DEF Set
  <2>2. \A i \in PtrIdx : d # NULL => Pointer(f, d, i) = x(i)
    BY DEF Pointer
  <2>3. ASSUME NEW i \in PtrIdx, NEW j \in PtrIdx, d # NULL, x(i) = h, x(j) = h PROVE i = j
    <3> DEFINE s == <<d, i>>
               t == <<d, j>>
    <3>1. s \in Set(f) /\ t \in Set(f)
      BY <2>1, <2>3
    <3>2. s[1] = d /\ s[2] = i /\ t[1] = d /\ t[2] = j
      OBVIOUS
    <3> HIDE DEF s, t
    <3>3. s = t
      BY <2>2, <2>3, <3>1, <3>2 DEF OnePlace
    <3>4. QED
      BY <3>2, <3>3
  <2>4. ASSUME NEW i \in PtrIdx, d # NULL, x(i) = h, f.pointers[SINGLE] = h PROVE FALSE
    <3> DEFINE s == <<d, i>>
               t == <<NULL, SINGLE>>
    <3>1. s \in Set(f)
      BY <2>1, <2>4
    <3>2. s[1] = d /\ s[2] = i /\ t[1] = NULL /\ t[2] = SINGLE
      OBVIOUS
    <3>3. t \in Slots(f)
      BY SlotFacts DEF Slots
    <3> HIDE DEF s, t
    <3>4. Pointer(f, NULL, SINGLE) = h
      BY <2>4 DEF Pointer
    <3>5. t \in Set(f)
      BY <1>2, <3>2, <3>3, <3>4 DEF Set
    <3>6. s = t
      BY <2>2, <2>4, <3>1, <3>2, <3>4, <3>5 DEF OnePlace
    <3>7. QED
      BY <2>4, <3>2, <3>6
  <2>5. /\ \/ p = <<SINGLE, k>> /\ h = f.pointers[SINGLE]
           \/ d # NULL /\ \E i \in PtrIdx : p = <<DOUBLE, i, k>> /\ h = x(i)
        /\ \/ q = <<SINGLE, k>> /\ h = f.pointers[SINGLE]
           \/ d # NULL /\ \E i \in PtrIdx : q = <<DOUBLE, i, k>> /\ h = x(i)
    BY <1>2 DEF EndsAt
  <2> HIDE DEF d, x
  <2>6. QED
    BY <2>3, <2>4, <2>5
<1>3. QED
  BY <1>1, <1>2

(* A block is at one place, and marked.                                    *)
LEMMA OwnBlock ==
  ASSUME NEW f, OnePlace(f), NEW p, IsPlace(p), BlockAt(f, p) # NULL
  PROVE  /\ BlockAt(f, p) \in f.bitmap
         /\ \A q : IsPlace(q) /\ BlockAt(f, q) = BlockAt(f, p) => q = p
<1>1. PICK h, k : EndsAt(f, p, h, k) /\ Pointer(f, h, k) = BlockAt(f, p)
  BY PlaceEnds
<1> DEFINE s == <<h, k>>
<1>2. s \in Set(f) /\ s[1] = h /\ s[2] = k
  BY <1>1, EndIsSlot
<1> HIDE DEF s
<1>3. BlockAt(f, p) \in f.bitmap
  BY <1>1, <1>2 DEF OnePlace
<1>4. ASSUME NEW q, IsPlace(q), BlockAt(f, q) = BlockAt(f, p) PROVE q = p
  <2>1. PICK i, j : EndsAt(f, q, i, j) /\ Pointer(f, i, j) = BlockAt(f, q)
    BY <1>4, PlaceEnds
  <2> DEFINE t == <<i, j>>
  <2>2. t \in Set(f) /\ t[1] = i /\ t[2] = j
    BY <1>4, <2>1, EndIsSlot
  <2> HIDE DEF t
  <2>3. s = t
    BY <1>1, <1>2, <1>4, <2>1, <2>2 DEF OnePlace
  <2>4. h = i /\ k = j
    BY <1>2, <2>2, <2>3
  <2>5. QED
    BY <1>1, <2>1, <2>4, EndOfOne
<1>5. QED
  BY <1>3, <1>4

(* A place whose last slot is this has its block where the pointer leads.  *)
LEMMA EndLeads ==
  ASSUME NEW f, NEW p, NEW h, NEW k, EndsAt(f, p, h, k)
  PROVE  BlockAt(f, p) = Pointer(f, h, k)
<1>1. CASE k \in InodeIdx /\ k < SINGLE /\ p = <<k>> /\ h = NULL
  BY <1>1, BlockAtIs DEF Pointer
<1>2. CASE k \in PtrIdx /\ p = <<SINGLE, k>> /\ h = f.pointers[SINGLE] /\ h # NULL
  <2>1. BlockAt(f, <<SINGLE, k>>) =
          IF f.pointers[SINGLE] = NULL THEN NULL ELSE Pointer(f, f.pointers[SINGLE], k)
    BY BlockAtIs
  <2>2. QED
    BY <1>2, <2>1
<1>3. ASSUME NEW i, k \in PtrIdx, f.pointers[DOUBLE] # NULL, p = <<DOUBLE, i, k>>,
             h = f.data_blocks[f.pointers[DOUBLE]].index_block[i], h # NULL
      PROVE  BlockAt(f, p) = Pointer(f, h, k)
  <2> DEFINE d == f.pointers[DOUBLE]
  <2>1. BlockAt(f, <<DOUBLE, i, k>>) = IF d = NULL \/ Pointer(f, d, i) = NULL THEN NULL
                                       ELSE Pointer(f, Pointer(f, d, i), k)
    BY BlockAtIs
  <2>2. Pointer(f, d, i) = h
    BY <1>3 DEF Pointer
  <2>3. QED
    BY <1>3, <2>1, <2>2
<1>4. QED
  BY <1>1, <1>2, <1>3 DEF EndsAt

(* The byte in cell j of the block at place p: '\0' where there is none.   *)
Byte(f, p, j) ==
  IF BlockAt(f, p) = NULL THEN ZERO ELSE f.data_blocks[BlockAt(f, p)].data[j]

(* What a step of a rd_write leaves alone: the bytes of the file, and the  *)
(* pointers that are there.                                                *)
Kept(w, v) ==
  /\ \A p : IsPlace(p) => \A j \in Offset : Byte(v, p, j) = Byte(w, p, j)
  /\ \A s \in Set(w) : Pointer(v, s[1], s[2]) = Pointer(w, s[1], s[2])

(* A step that changes nothing of the file leaves these alone.             *)
LEMMA SameFile ==
  ASSUME NEW w, NEW v, v.pointers = w.pointers, v.data_blocks = w.data_blocks
  PROVE  Kept(w, v)
<1>1. \A h, k : Pointer(v, h, k) = Pointer(w, h, k)
  BY DEF Pointer
<1>2. \A p : IsPlace(p) => BlockAt(v, p) = BlockAt(w, p)
  BY <1>1, BlockAtIs DEF IsPlace, Direct, Single, Double
<1>3. QED
  BY <1>1, <1>2 DEF Kept, Byte

(* The pointers of the inode are among these.                              *)
LEMMA InodeKept ==
  ASSUME NEW w, NEW v, Kept(w, v)
  PROVE  \A i \in InodeIdx : w.pointers[i] # NULL => v.pointers[i] = w.pointers[i]
<1>1. ASSUME NEW i \in InodeIdx, w.pointers[i] # NULL PROVE v.pointers[i] = w.pointers[i]
  <2> DEFINE s == <<NULL, i>>
  <2>1. s \in Slots(w) /\ s[1] = NULL /\ s[2] = i
    BY DEF Slots
  <2>2. \A f : Pointer(f, NULL, i) = f.pointers[i]
    BY DEF Pointer
  <2> HIDE DEF s
  <2>3. s \in Set(w)
    BY <1>1, <2>1, <2>2 DEF Set
  <2>4. Pointer(v, NULL, i) = Pointer(w, NULL, i)
    BY <2>1, <2>3 DEF Kept
  <2>5. QED
    BY <2>2, <2>4
<1>2. QED
  BY <1>1

(* What each of two steps leaves alone, both do.                           *)
LEMMA KeptOn ==
  ASSUME NEW u, NEW v, NEW w, Kept(u, v), Kept(v, w)
  PROVE  Kept(u, w)
<1>1. \A p : IsPlace(p) => \A j \in Offset : Byte(w, p, j) = Byte(u, p, j)
  BY DEF Kept
<1>2. ASSUME NEW s \in Set(u) PROVE Pointer(w, s[1], s[2]) = Pointer(u, s[1], s[2])
  <2>1. Pointer(v, s[1], s[2]) = Pointer(u, s[1], s[2]) /\ Pointer(u, s[1], s[2]) # NULL
    BY DEF Kept, Set
  <2>2. s \in Slots(v)
    <3>1. s \in Slots(u)
      BY DEF Set
    <3>2. \A i \in InodeIdx : u.pointers[i] # NULL => v.pointers[i] = u.pointers[i]
      BY InodeKept
    <3>3. ASSUME u.pointers[DOUBLE] # NULL, NEW i \in PtrIdx,
                 u.data_blocks[u.pointers[DOUBLE]].index_block[i] # NULL
          PROVE  v.data_blocks[u.pointers[DOUBLE]].index_block[i]
                   = u.data_blocks[u.pointers[DOUBLE]].index_block[i]
      <4> DEFINE d == u.pointers[DOUBLE]
                 t == <<d, i>>
      <4>1. t \in Slots(u) /\ t[1] = d /\ t[2] = i
        BY <3>3 DEF Slots, Index
      <4>2. \A f : Pointer(f, d, i) = f.data_blocks[d].index_block[i]
        BY <3>3 DEF Pointer
      <4> HIDE DEF t, d
      <4>3. t \in Set(u)
        BY <3>3, <4>1, <4>2 DEF Set, d
      <4>4. Pointer(v, d, i) = Pointer(u, d, i)
        BY <4>1, <4>3 DEF Kept
      <4>5. QED
        BY <4>2, <4>4 DEF d
    <3>4. Index(u) \subseteq Index(v)
      BY <3>2, <3>3, SlotFacts DEF Index
    <3>5. QED
      BY <3>1, <3>4 DEF Slots
  <2>3. s \in Set(v)
    BY <2>1, <2>2 DEF Set
  <2>4. QED
    BY <2>1, <2>3 DEF Kept
<1>3. QED
  BY <1>1, <1>2 DEF Kept

(* A new block is zero, and was at no place before.                        *)
LEMMA StoreKeeps ==
  ASSUME NEW w \in Writes, OnePlace(w), NEW b \in BlockNum \ w.bitmap,
         NEW at, NEW k, Slot(w, at, k), at # b, Pointer(w, at, k) = NULL,
         NEW v, v = Store(w, at, k, b)
  PROVE  Kept(w, v)
<1>1. /\ Pointer(v, at, k) = b
      /\ \A h, l : Slot(w, h, l) /\ h # b /\ <<h, l>> # <<at, k>> =>
           Pointer(v, h, l) = Pointer(w, h, l)
      /\ \A l \in PtrIdx : Pointer(v, b, l) = NULL
      /\ \A c \in BlockNum : v.data_blocks[c].data =
           IF c = b THEN ZeroBlock.data ELSE w.data_blocks[c].data
  BY StoreIs
<1>2. b # NULL /\ w.bitmap \subseteq BlockNum
  BY SlotFacts DEF Writes
<1>3. ASSUME NEW h, NEW l, Slot(w, h, l), h # b
      PROVE  \/ Pointer(v, h, l) = Pointer(w, h, l)
             \/ Pointer(w, h, l) = NULL /\ Pointer(v, h, l) = b
  <2>1. CASE <<h, l>> = <<at, k>>
    <3>1. h = at /\ l = k
      BY <2>1
    <3>2. QED
      BY <1>1, <3>1
  <2>2. CASE <<h, l>> # <<at, k>>
    BY <1>1, <1>3, <2>2
  <2>3. QED
    BY <2>1, <2>2
<1>4. ASSUME NEW s \in Set(w)
      PROVE  /\ Pointer(v, s[1], s[2]) = Pointer(w, s[1], s[2])
             /\ Pointer(w, s[1], s[2]) \in w.bitmap
  <2>1. s \in Slots(w) /\ Pointer(w, s[1], s[2]) # NULL /\ Pointer(w, s[1], s[2]) \in w.bitmap
    BY DEF Set, OnePlace
  <2>2. s = <<s[1], s[2]>> /\ Slot(w, s[1], s[2])
    BY <2>1, SetFinite
  <2>3. s[1] # b
    <3>1. CASE s[1] = NULL
      BY <1>2, <3>1
    <3>2. CASE s[1] # NULL
      <4>1. s[1] \in Index(w)
        BY <2>1, <3>2 DEF Slots
      <4>2. PICK p \in Set(w) : Pointer(w, p[1], p[2]) = s[1]
        BY <4>1, IndexIsTarget
      <4>3. QED
        BY <4>2 DEF OnePlace
    <3>3. QED
      BY <3>1, <3>2
  <2>4. QED
    BY <1>3, <2>1, <2>2, <2>3
<1>5. ASSUME NEW h, NEW l, Slot(w, h, l), Pointer(w, h, l) # NULL, <<h, l>> \in Slots(w)
      PROVE  Pointer(v, h, l) = Pointer(w, h, l) /\ Pointer(w, h, l) # b
  <2> DEFINE s == <<h, l>>
  <2>1. s[1] = h /\ s[2] = l /\ s \in Slots(w)
    BY <1>5
  <2> HIDE DEF s
  <2>2. s \in Set(w)
    BY <1>5, <2>1 DEF Set
  <2>3. QED
    BY <1>4, <2>1, <2>2
<1> DEFINE One == w.pointers[SINGLE]
           Two == w.pointers[DOUBLE]
<1>6. /\ \A i \in InodeIdx : Slot(w, NULL, i) /\ <<NULL, i>> \in Slots(w)
      /\ \A i : Pointer(w, NULL, i) = w.pointers[i] /\ Pointer(v, NULL, i) = v.pointers[i]
  BY DEF Slot, Slots, Pointer
<1>7. ASSUME NEW i \in InodeIdx
      PROVE  /\ w.pointers[i] # NULL => v.pointers[i] = w.pointers[i] /\ w.pointers[i] # b
             /\ \/ v.pointers[i] = w.pointers[i]
                \/ w.pointers[i] = NULL /\ v.pointers[i] = b
  <2>1. /\ Slot(w, NULL, i) /\ <<NULL, i>> \in Slots(w)
        /\ Pointer(w, NULL, i) = w.pointers[i] /\ Pointer(v, NULL, i) = v.pointers[i]
    BY <1>6
  <2>2. Pointer(w, NULL, i) # NULL =>
          Pointer(v, NULL, i) = Pointer(w, NULL, i) /\ Pointer(w, NULL, i) # b
    BY <1>5, <2>1
  <2>3. \/ Pointer(v, NULL, i) = Pointer(w, NULL, i)
        \/ Pointer(w, NULL, i) = NULL /\ Pointer(v, NULL, i) = b
    BY <1>2, <1>3, <2>1
  <2>4. QED
    BY <2>1, <2>2, <2>3
<1>9. \A c : c # NULL => \A i : /\ Pointer(w, c, i) = w.data_blocks[c].index_block[i]
                               /\ Pointer(v, c, i) = v.data_blocks[c].index_block[i]
  BY DEF Pointer
<1>10. /\ SINGLE \in InodeIdx /\ DOUBLE \in InodeIdx
       /\ w.pointers \in [InodeIdx -> BlockPtr]
  BY SlotFacts DEF Writes
<1>11. ASSUME Two # NULL, NEW i \in PtrIdx
       PROVE  /\ Slot(w, Two, i) /\ <<Two, i>> \in Slots(w) /\ Two # b
              /\ v.data_blocks[Two].index_block[i] \in {w.data_blocks[Two].index_block[i], b}
              /\ w.data_blocks[Two].index_block[i] # NULL =>
                   /\ v.data_blocks[Two].index_block[i] = w.data_blocks[Two].index_block[i]
                   /\ w.data_blocks[Two].index_block[i] # b
  <2>1. Two \in Index(w) /\ Two \in BlockNum
    BY <1>10, <1>11 DEF Index, BlockPtr
  <2>2. Slot(w, Two, i) /\ <<Two, i>> \in Slots(w) /\ Two # b
    BY <1>7, <1>10, <1>11, <2>1 DEF Slot, Slots
  <2>3. QED
    BY <1>3, <1>5, <1>9, <1>11, <2>2
<1>12. ASSUME NEW p, IsPlace(p), BlockAt(w, p) # NULL
       PROVE  BlockAt(v, p) = BlockAt(w, p) /\ BlockAt(w, p) \in w.bitmap
  <2>1. PICK h, l : EndsAt(w, p, h, l) /\ Pointer(w, h, l) = BlockAt(w, p)
    BY <1>12, PlaceEnds
  <2> DEFINE s == <<h, l>>
  <2>2. s \in Set(w) /\ s[1] = h /\ s[2] = l
    BY <1>12, <2>1, EndIsSlot
  <2> HIDE DEF s
  <2>3. Pointer(v, h, l) = Pointer(w, h, l) /\ Pointer(w, h, l) \in w.bitmap
    BY <1>4, <2>2
  <2>4. EndsAt(v, p, h, l)
    <3>1. CASE l \in InodeIdx /\ l < SINGLE /\ p = <<l>> /\ h = NULL
      BY <3>1 DEF EndsAt
    <3>2. CASE l \in PtrIdx /\ p = <<SINGLE, l>> /\ h = One /\ h # NULL
      <4>1. v.pointers[SINGLE] = h
        BY <1>7, <1>10, <3>2
      <4>2. QED
        BY <3>2, <4>1 DEF EndsAt
    <3>3. ASSUME l \in PtrIdx, Two # NULL, NEW i \in PtrIdx, p = <<DOUBLE, i, l>>,
                 h = w.data_blocks[Two].index_block[i], h # NULL
          PROVE  EndsAt(v, p, h, l)
      <4>1. v.pointers[DOUBLE] = Two /\ v.data_blocks[Two].index_block[i] = h
        BY <1>7, <1>10, <1>11, <3>3
      <4>2. QED
        BY <3>3, <4>1 DEF EndsAt
    <3>4. QED
      BY <2>1, <3>1, <3>2, <3>3 DEF EndsAt
  <2>5. QED
    BY <2>1, <2>3, <2>4, EndLeads
<1>13. ASSUME NEW p, IsPlace(p), BlockAt(w, p) = NULL, BlockAt(v, p) # NULL
       PROVE  BlockAt(v, p) = b
  <2>1. PICK h, l : EndsAt(v, p, h, l) /\ Pointer(v, h, l) = BlockAt(v, p)
    BY <1>13, PlaceEnds
  <2>2. h # b
    BY <1>1, <1>2, <1>13, <2>1 DEF EndsAt
  <2>3. EndsAt(w, p, h, l) /\ Slot(w, h, l)
    <3>1. CASE l \in InodeIdx /\ l < SINGLE /\ p = <<l>> /\ h = NULL
      BY <1>6, <3>1 DEF EndsAt
    <3>2. CASE l \in PtrIdx /\ p = <<SINGLE, l>> /\ h = v.pointers[SINGLE] /\ h # NULL
      <4>1. h = w.pointers[SINGLE]
        BY <1>7, <1>10, <2>2, <3>2
      <4>2. h \in BlockNum
        BY <1>10, <3>2, <4>1 DEF BlockPtr
      <4>3. QED
        BY <3>2, <4>1, <4>2 DEF EndsAt, Slot
    <3>3. CASE /\ l \in PtrIdx /\ v.pointers[DOUBLE] # NULL
               /\ \E i \in PtrIdx : /\ p = <<DOUBLE, i, l>>
                                    /\ h = v.data_blocks[v.pointers[DOUBLE]].index_block[i]
                                    /\ h # NULL
      <4>1. PICK i \in PtrIdx : /\ p = <<DOUBLE, i, l>>
                                /\ h = v.data_blocks[v.pointers[DOUBLE]].index_block[i]
                                /\ h # NULL
        BY <3>3
      <4>2. v.pointers[DOUBLE] # b
        BY <1>1, <1>2, <1>9, <4>1
      <4>3. v.pointers[DOUBLE] = Two /\ Two # NULL
        BY <1>7, <1>10, <3>3, <4>2
      <4>4. h = w.data_blocks[Two].index_block[i]
        BY <1>11, <2>2, <4>1, <4>3
      <4>5. h \in BlockNum
        <5>1. Two \in BlockNum
          BY <1>10, <4>3 DEF BlockPtr
        <5>2. w.data_blocks[Two].index_block[i] \in BlockPtr
          BY <5>1 DEF Writes, Block
        <5>3. QED
          BY <4>1, <4>4, <5>2 DEF BlockPtr
      <4>6. QED
        BY <3>3, <4>1, <4>3, <4>4, <4>5 DEF EndsAt, Slot
    <3>4. QED
      BY <2>1, <3>1, <3>2, <3>3 DEF EndsAt
  <2>4. BlockAt(w, p) = Pointer(w, h, l)
    BY <2>3, EndLeads
  <2>5. QED
    BY <1>3, <1>13, <2>1, <2>2, <2>3, <2>4
<1>14. ASSUME NEW p, IsPlace(p), NEW j \in Offset PROVE Byte(v, p, j) = Byte(w, p, j)
  <2>1. ZeroBlock.data[j] = ZERO
    BY DEF ZeroBlock
  <2>2. CASE BlockAt(w, p) # NULL
    <3>1. BlockAt(v, p) = BlockAt(w, p) /\ BlockAt(w, p) \in w.bitmap
      BY <1>12, <1>14, <2>2
    <3>2. BlockAt(w, p) \in BlockNum /\ BlockAt(w, p) # b
      BY <1>2, <3>1
    <3>3. QED
      BY <1>1, <3>1, <3>2 DEF Byte
  <2>3. CASE BlockAt(w, p) = NULL /\ BlockAt(v, p) # NULL
    <3>1. BlockAt(v, p) = b
      BY <1>13, <1>14, <2>3
    <3>2. QED
      BY <1>1, <1>2, <2>1, <2>3, <3>1 DEF Byte
  <2>4. CASE BlockAt(w, p) = NULL /\ BlockAt(v, p) = NULL
    BY <2>4 DEF Byte
  <2>5. QED
    BY <2>2, <2>3, <2>4
<1>15. QED
  BY <1>4, <1>14 DEF Kept

(* What is in the cells, and how many bytes there are, changes no pointer. *)
LEMMA SamePointers ==
  ASSUME NEW w, w.pointers \in [InodeIdx -> BlockPtr], w.data_blocks \in [BlockNum -> Block],
         NEW v, v.pointers = w.pointers, v.bitmap = w.bitmap,
         \A b \in BlockNum : v.data_blocks[b].index_block = w.data_blocks[b].index_block
  PROVE  OnePlace(w) <=> OnePlace(v)
<1> DEFINE d == w.pointers[DOUBLE]
<1>1. w.pointers[SINGLE] \in BlockPtr /\ d \in BlockPtr
  BY SlotFacts
<1>2. d # NULL => d \in BlockNum
  BY <1>1 DEF BlockPtr
<1>3. d # NULL => v.data_blocks[d].index_block = w.data_blocks[d].index_block
  BY <1>2
<1>4. Index(v) = Index(w)
  <2>1. \A c : c \in Index(w) <=>
          c # NULL /\ \/ c = w.pointers[SINGLE] \/ c = d
                      \/ d # NULL /\ \E l \in PtrIdx : c = w.data_blocks[d].index_block[l]
    BY DEF Index
  <2>2. \A c : c \in Index(v) <=>
          c # NULL /\ \/ c = w.pointers[SINGLE] \/ c = d
                      \/ d # NULL /\ \E l \in PtrIdx : c = v.data_blocks[d].index_block[l]
    BY DEF Index
  <2> HIDE DEF d
  <2>3. ASSUME NEW c PROVE c \in Index(w) <=> c \in Index(v)
    <3>1. CASE d = NULL
      BY <2>1, <2>2, <3>1
    <3>2. CASE d # NULL
      <4>1. \A l \in PtrIdx : v.data_blocks[d].index_block[l] = w.data_blocks[d].index_block[l]
        BY <1>3, <3>2
      <4>2. QED
        BY <2>1, <2>2, <4>1
    <3>3. QED
      BY <3>1, <3>2
  <2>4. QED
    BY <2>3
<1>5. Index(w) \subseteq BlockNum
  <2>1. ASSUME NEW i \in PtrIdx, d # NULL
        PROVE  w.data_blocks[d].index_block[i] \in BlockPtr
    <3>1. w.data_blocks[d] \in Block
      BY <1>2, <2>1
    <3>2. QED
      BY <3>1 DEF Block
  <2>2. QED
    BY <1>1, <2>1 DEF Index, BlockPtr
<1>6. \A p \in Slots(w) : Pointer(v, p[1], p[2]) = Pointer(w, p[1], p[2])
  <2> SUFFICES ASSUME NEW p \in Slots(w) PROVE Pointer(v, p[1], p[2]) = Pointer(w, p[1], p[2])
    OBVIOUS
  <2>1. p[1] = NULL \/ p[1] \in BlockNum
    BY <1>5 DEF Slots
  <2>2. QED
    BY <2>1 DEF Pointer
<1>7. Slots(v) = Slots(w)
  BY <1>4 DEF Slots
<1>8. Set(v) = Set(w)
  BY <1>6, <1>7 DEF Set
<1>9. \A p \in Set(w) : Pointer(v, p[1], p[2]) = Pointer(w, p[1], p[2])
  BY <1>6 DEF Set
<1>10. QED
  BY <1>8, <1>9 DEF OnePlace

(* The cells of marked blocks that hold a byte.                            *)
Full(f) == {x \in f.bitmap \X Offset : f.data_blocks[x[1]].data[x[2]] # ZERO}

(* What one step down the pointers of w, through slot k, comes to.         *)
Stepped(w, k, v) ==
  /\ v \in Writes /\ OnePlace(v) /\ v.n = w.n /\ v.size = w.size /\ Full(v) = Full(w)
  /\ v.out = "on" => w.out = "on" /\ v.at \in BlockNum /\ v.at = Pointer(v, w.at, k)
  /\ v.out = "on" /\ LeadsToIndex(w, w.at, k) => v.at \in Index(v)
  /\ Kept(w, v)

(* Following a pointer, or attaching a block where there is none, from a   *)
(* slot that is there.                                                     *)
LEMMA StepOnePlace ==
  ASSUME NEW w \in Writes, OnePlace(w), NEW k, w.out = "on" => <<w.at, k>> \in Slots(w),
         NEW v, v = Step(w, k)
  PROVE  Stepped(w, k, v)
<1>1. CASE w.out # "on"
  BY <1>1 DEF Step, Stepped, Kept
<1>2. CASE w.out = "on" /\ Pointer(w, w.at, k) # NULL
  <2> DEFINE b == Pointer(w, w.at, k)
             p == <<w.at, k>>
  <2>1. v = [w EXCEPT !.at = b]
    BY <1>2 DEF Step
  <2>2. b \in w.bitmap
    <3>1. p[1] = w.at /\ p[2] = k /\ p \in Slots(w)
      BY <1>2
    <3> HIDE DEF p
    <3>2. p \in Set(w)
      BY <1>2, <3>1 DEF Set
    <3>3. QED
      BY <3>1, <3>2 DEF OnePlace
  <2>3. b \in BlockNum /\ b \in BlockPtr
    BY <2>2 DEF Writes, BlockPtr
  <2>4. LeadsToIndex(w, w.at, k) => b \in Index(w)
    BY <1>2, IndexAfter
  <2> HIDE DEF b
  <2>5. /\ v \in Writes /\ v.n = w.n /\ v.size = w.size /\ v.out = w.out /\ v.at = b
        /\ v.pointers = w.pointers /\ v.bitmap = w.bitmap /\ v.data_blocks = w.data_blocks
    BY <2>1, <2>3 DEF Writes
  <2>6. w.pointers \in [InodeIdx -> BlockPtr] /\ w.data_blocks \in [BlockNum -> Block]
    BY DEF Writes
  <2>7. OnePlace(v)
    BY <2>5, <2>6, SamePointers
  <2>8. Index(v) = Index(w)
    BY <2>5 DEF Index
  <2>9. Pointer(v, w.at, k) = b
    BY <2>5 DEF Pointer, b
  <2>10. Full(v) = Full(w)
    BY <2>5 DEF Full
  <2>11. Kept(w, v)
    BY <2>5, SameFile
  <2>12. QED
    BY <1>2, <2>3, <2>4, <2>5, <2>7, <2>8, <2>9, <2>10, <2>11 DEF Stepped
<1>3. CASE w.out = "on" /\ Pointer(w, w.at, k) = NULL /\ BlockNum \subseteq w.bitmap
  <2>1. v = [w EXCEPT !.out = "no block"]
    BY <1>3 DEF Step
  <2>2. /\ v \in Writes /\ v.n = w.n /\ v.size = w.size /\ v.out = "no block"
        /\ v.pointers = w.pointers /\ v.bitmap = w.bitmap /\ v.data_blocks = w.data_blocks
    BY <2>1 DEF Writes
  <2>3. w.pointers \in [InodeIdx -> BlockPtr] /\ w.data_blocks \in [BlockNum -> Block]
    BY DEF Writes
  <2>4. OnePlace(v)
    BY <2>2, <2>3, SamePointers
  <2>5. Full(v) = Full(w)
    BY <2>2 DEF Full
  <2>6. Kept(w, v)
    BY <2>2, SameFile
  <2>7. QED
    BY <2>2, <2>4, <2>5, <2>6 DEF Stepped
<1>4. CASE w.out = "on" /\ Pointer(w, w.at, k) = NULL /\ ~ (BlockNum \subseteq w.bitmap)
  <2> DEFINE b == Min(BlockNum \ w.bitmap)
  <2>1. v = Store(w, w.at, k, b)
    BY <1>4 DEF Step
  <2>2. b \in BlockNum \ w.bitmap
    <3>1. BlockNum \ w.bitmap \subseteq Nat /\ BlockNum \ w.bitmap # {}
      BY <1>4 DEF BlockNum
    <3>2. \E m \in BlockNum \ w.bitmap : \A x \in BlockNum \ w.bitmap : m <= x
      BY <3>1, MinExists
    <3>3. QED
      BY <3>2 DEF Min
  <2> HIDE DEF b
  <2>3. <<w.at, k>> \in Slots(w)
    BY <1>4
  <2>4. OnePlace(v) /\ Index(w) \subseteq Index(v)
    BY <1>4, <2>1, <2>2, <2>3, StoreOnePlace
  <2>5. Slot(w, w.at, k)
    <3> DEFINE p == <<w.at, k>>
    <3>1. p[1] = w.at /\ p[2] = k /\ p \in Slots(w)
      BY <2>3
    <3> HIDE DEF p
    <3>2. QED
      BY <3>1, SetFinite
  <2>6. w.at # b
    <3>1. CASE w.at = NULL
      BY <2>2, <3>1, SlotFacts
    <3>2. CASE w.at # NULL
      <4>1. w.at \in Index(w)
        BY <2>3, <3>2 DEF Slots
      <4>2. PICK p \in Set(w) : Pointer(w, p[1], p[2]) = w.at
        BY <4>1, IndexIsTarget
      <4>3. w.at \in w.bitmap
        BY <4>2 DEF OnePlace
      <4>4. QED
        BY <2>2, <4>3
    <3>3. QED
      BY <3>1, <3>2
  <2>7. /\ v \in Writes /\ v.size = w.size /\ v.n = w.n /\ v.out = w.out /\ v.at = b
        /\ Pointer(v, w.at, k) = b
        /\ \A h, l : Slot(w, h, l) /\ h # b /\ <<h, l>> # <<w.at, k>> =>
             Pointer(v, h, l) = Pointer(w, h, l)
        /\ v.bitmap = w.bitmap \cup {b}
        /\ \A c \in BlockNum : v.data_blocks[c].data =
             IF c = b THEN ZeroBlock.data ELSE w.data_blocks[c].data
    BY <2>1, <2>2, <2>5, <2>6, StoreIs
  <2>8. b # NULL /\ b \in BlockNum
    BY <2>2, SlotFacts
  <2>9. ASSUME LeadsToIndex(w, w.at, k) PROVE b \in Index(v)
    <3>1. LeadsToIndex(v, w.at, k)
      <4>1. CASE w.at = NULL
        BY <2>9, <4>1 DEF LeadsToIndex
      <4>2. CASE w.at # NULL
        <5>1. w.at = w.pointers[DOUBLE] /\ k \in PtrIdx
          BY <2>9, <4>2 DEF LeadsToIndex
        <5>2. Slot(w, NULL, DOUBLE) /\ NULL # b /\ <<NULL, DOUBLE>> # <<w.at, k>>
          BY <2>8, <4>2, SlotFacts DEF Slot
        <5>3. Pointer(v, NULL, DOUBLE) = Pointer(w, NULL, DOUBLE)
          BY <2>7, <5>2
        <5>4. v.pointers[DOUBLE] = w.pointers[DOUBLE]
          BY <5>3 DEF Pointer
        <5>5. QED
          BY <4>2, <5>1, <5>4 DEF LeadsToIndex
      <4>3. QED
        BY <4>1, <4>2
    <3>2. Pointer(v, w.at, k) # NULL
      BY <2>7, <2>8
    <3>3. Pointer(v, w.at, k) \in Index(v)
      BY <3>1, <3>2, IndexAfter
    <3>4. QED
      BY <2>7, <3>3
  <2>10. Full(v) = Full(w)
    <3>1. w.bitmap \subseteq BlockNum
      BY DEF Writes
    <3>2. \A j \in Offset : ZeroBlock.data[j] = ZERO
      BY DEF ZeroBlock
    <3>3. ASSUME NEW c, NEW j \in Offset
          PROVE  c \in v.bitmap /\ v.data_blocks[c].data[j] # ZERO
                   <=> c \in w.bitmap /\ w.data_blocks[c].data[j] # ZERO
      <4>1. CASE c = b
        BY <2>2, <2>7, <2>8, <3>2, <4>1
      <4>2. CASE c # b
        <5>1. c \in v.bitmap <=> c \in w.bitmap
          BY <2>7, <4>2
        <5>2. c \in w.bitmap => v.data_blocks[c].data = w.data_blocks[c].data
          BY <2>7, <3>1, <4>2
        <5>3. QED
          BY <5>1, <5>2
      <4>3. QED
        BY <4>1, <4>2
    <3>4. \A x : x \in Full(v) <=> x \in Full(w)
      BY <3>3 DEF Full
    <3>5. QED
      BY <3>4
  <2>11. Kept(w, v)
    BY <1>4, <2>1, <2>2, <2>5, <2>6, StoreKeeps
  <2>12. QED
    BY <1>4, <2>4, <2>7, <2>8, <2>9, <2>10, <2>11 DEF Stepped
<1>5. QED
  BY <1>1, <1>2, <1>3, <1>4

-----------------------------------------------------------------------------
(* A whole rd_write                                                        *)

(* From the inode down to the data block of a place.                       *)
LEMMA PlaceOnePlace ==
  ASSUME NEW w \in Writes, OnePlace(w), NEW place, IsPlace(place),
         NEW u, u = [w EXCEPT !.at = NULL], NEW v, v = FoldLeft(Step, u, place)
  PROVE  /\ v \in Writes /\ OnePlace(v) /\ v.n = w.n /\ v.size = w.size
         /\ Full(v) = Full(w) /\ Kept(w, v)
         /\ v.out = "on" => /\ w.out = "on" /\ v.at \in BlockNum
                            /\ v.at = BlockAt(v, place)
<1>1. /\ u \in Writes /\ u.n = w.n /\ u.size = w.size /\ u.at = NULL /\ u.out = w.out
      /\ u.pointers = w.pointers /\ u.bitmap = w.bitmap /\ u.data_blocks = w.data_blocks
  BY SlotFacts DEF Writes
<1>2. OnePlace(u)
  <2>1. w.pointers \in [InodeIdx -> BlockPtr] /\ w.data_blocks \in [BlockNum -> Block]
    BY DEF Writes
  <2>2. QED
    BY <1>1, <2>1, SamePointers
<1>0. Full(u) = Full(w) /\ Kept(w, u)
  BY <1>1, SameFile DEF Full
<1>3. CASE Direct(place)
  <2>1. PICK i \in InodeIdx : place = <<i>>
    BY <1>3 DEF Direct
  <2>2. DOMAIN place = 1 .. 1 /\ place[1] = i
    BY <2>1
  <2>3. v = Step(u, i)
    <3>1. PICK g : Passes("step", 0, u, place, 1, g) /\ v = g[1 .. 1]
      BY <2>2, StepsLoop
    <3>2. 1 \in 1 .. 1 /\ 1 - 1 = 0
      OBVIOUS
    <3>3. g[1 .. 1] = Pass("step", 0, g[1 .. 0], place[1]) /\ g[1 .. 0] = u
      BY <3>1, <3>2 DEF Passes
    <3>4. QED
      BY <2>2, <3>1, <3>3 DEF Pass
  <2>4. <<u.at, i>> \in Slots(u)
    BY <1>1 DEF Slots
  <2>5. Stepped(u, i, v)
    BY <1>1, <1>2, <2>3, <2>4, StepOnePlace
  <2>6. v.at = Pointer(v, NULL, i) => v.at = BlockAt(v, place)
    <3>1. BlockAt(v, place) = v.pointers[i]
      BY <2>1, BlockAtIs
    <3>2. Pointer(v, NULL, i) = v.pointers[i]
      BY DEF Pointer
    <3>3. QED
      BY <3>1, <3>2
  <2>7. Kept(u, v) /\ Kept(w, v)
    BY <1>0, <1>1, <2>5, KeptOn DEF Stepped
  <2>8. QED
    BY <1>0, <1>1, <2>5, <2>6, <2>7 DEF Stepped
<1>4. CASE Single(place)
  <2>1. PICK k \in PtrIdx : place = <<SINGLE, k>>
    BY <1>4 DEF Single
  <2>2. DOMAIN place = 1 .. 2 /\ place[1] = SINGLE /\ place[2] = k
    BY <2>1
  <2> DEFINE x == Step(u, SINGLE)
  <2>3. v = Step(x, k)
    <3>1. PICK g : Passes("step", 0, u, place, 2, g) /\ v = g[1 .. 2]
      BY <2>2, StepsLoop
    <3>2. 1 \in 1 .. 2 /\ 1 - 1 = 0 /\ 2 \in 1 .. 2 /\ 2 - 1 = 1
      OBVIOUS
    <3>3. /\ g[1 .. 2] = Pass("step", 0, g[1 .. 1], place[2])
          /\ g[1 .. 1] = Pass("step", 0, g[1 .. 0], place[1]) /\ g[1 .. 0] = u
      BY <3>1, <3>2 DEF Passes
    <3>4. QED
      BY <2>2, <3>1, <3>3 DEF Pass
  <2>4. <<u.at, SINGLE>> \in Slots(u) /\ LeadsToIndex(u, u.at, SINGLE)
    BY <1>1, SlotFacts DEF Slots, LeadsToIndex
  <2>5. /\ x \in Writes /\ OnePlace(x) /\ x.n = u.n /\ x.size = u.size /\ Full(x) = Full(u)
        /\ Kept(u, x)
        /\ x.out = "on" => /\ u.out = "on" /\ x.at \in Index(x) /\ x.at \in BlockNum
                           /\ x.at = x.pointers[SINGLE]
    <3>1. Stepped(u, SINGLE, x)
      BY <1>1, <1>2, <2>4, StepOnePlace
    <3> HIDE DEF x
    <3>2. QED
      BY <1>1, <2>4, <3>1 DEF Stepped, Pointer
  <2> HIDE DEF x
  <2>6. x.out = "on" => <<x.at, k>> \in Slots(x)
    BY <2>5 DEF Slots
  <2>7. Stepped(x, k, v)
    BY <2>3, <2>5, <2>6, StepOnePlace
  <2>8. Kept(u, v) /\ Kept(w, v)
    BY <1>0, <2>5, <2>7, KeptOn DEF Stepped
  <2>9. ASSUME v.out = "on" PROVE v.at = BlockAt(v, place)
    <3>1. x.out = "on" /\ v.at = Pointer(v, x.at, k)
      BY <2>7, <2>9 DEF Stepped
    <3>2. x.at = x.pointers[SINGLE] /\ x.pointers[SINGLE] # NULL
      BY <2>5, <3>1, SlotFacts
    <3>3. v.pointers[SINGLE] = x.pointers[SINGLE]
      BY <2>7, <3>2, InodeKept, SlotFacts DEF Stepped
    <3>4. BlockAt(v, <<SINGLE, k>>) =
            IF v.pointers[SINGLE] = NULL THEN NULL ELSE Pointer(v, v.pointers[SINGLE], k)
      BY BlockAtIs
    <3>5. QED
      BY <2>1, <3>1, <3>2, <3>3, <3>4
  <2>10. QED
    BY <1>0, <1>1, <2>5, <2>7, <2>8, <2>9 DEF Stepped
<1>5. CASE Double(place)
  <2>1. PICK i \in PtrIdx, k \in PtrIdx : place = <<DOUBLE, i, k>>
    BY <1>5 DEF Double
  <2>2. DOMAIN place = 1 .. 3 /\ place[1] = DOUBLE /\ place[2] = i /\ place[3] = k
    BY <2>1
  <2> DEFINE x == Step(u, DOUBLE)
             y == Step(x, i)
  <2>3. v = Step(y, k)
    <3>1. PICK g : Passes("step", 0, u, place, 3, g) /\ v = g[1 .. 3]
      BY <2>2, StepsLoop
    <3>2. 1 \in 1 .. 3 /\ 1 - 1 = 0 /\ 2 \in 1 .. 3 /\ 2 - 1 = 1 /\ 3 \in 1 .. 3 /\ 3 - 1 = 2
      OBVIOUS
    <3>3. /\ g[1 .. 3] = Pass("step", 0, g[1 .. 2], place[3])
          /\ g[1 .. 2] = Pass("step", 0, g[1 .. 1], place[2])
          /\ g[1 .. 1] = Pass("step", 0, g[1 .. 0], place[1]) /\ g[1 .. 0] = u
      BY <3>1, <3>2 DEF Passes
    <3>4. QED
      BY <2>2, <3>1, <3>3 DEF Pass
  <2>4. <<u.at, DOUBLE>> \in Slots(u) /\ LeadsToIndex(u, u.at, DOUBLE)
    BY <1>1, SlotFacts DEF Slots, LeadsToIndex
  <2>5. /\ x \in Writes /\ OnePlace(x) /\ x.n = u.n /\ x.size = u.size /\ Full(x) = Full(u)
        /\ Kept(u, x)
        /\ x.out = "on" => /\ u.out = "on" /\ x.at \in Index(x) /\ x.at \in BlockNum
                           /\ x.at = Pointer(x, u.at, DOUBLE)
    <3>1. Stepped(u, DOUBLE, x)
      BY <1>1, <1>2, <2>4, StepOnePlace
    <3> HIDE DEF x
    <3>2. QED
      BY <2>4, <3>1 DEF Stepped
  <2> HIDE DEF x
  <2>6. x.out = "on" => <<x.at, i>> \in Slots(x) /\ LeadsToIndex(x, x.at, i)
    <3>1. ASSUME x.out = "on" PROVE x.at = x.pointers[DOUBLE] /\ x.at # NULL
      BY <1>1, <2>5, <3>1, SlotFacts DEF Pointer
    <3>2. QED
      BY <2>5, <3>1 DEF Slots, LeadsToIndex
  <2>7. /\ y \in Writes /\ OnePlace(y) /\ y.n = x.n /\ y.size = x.size /\ Full(y) = Full(x)
        /\ Kept(x, y)
        /\ y.out = "on" => /\ x.out = "on" /\ y.at \in Index(y) /\ y.at \in BlockNum
                           /\ y.at = Pointer(y, x.at, i)
    <3>1. Stepped(x, i, y)
      BY <2>5, <2>6, StepOnePlace
    <3> HIDE DEF y
    <3>2. y.out = "on" => x.out = "on"
      BY <3>1 DEF Stepped
    <3>3. QED
      BY <2>6, <3>1, <3>2 DEF Stepped
  <2> HIDE DEF y
  <2>8. y.out = "on" => <<y.at, k>> \in Slots(y)
    BY <2>7 DEF Slots
  <2>9. Stepped(y, k, v)
    BY <2>3, <2>7, <2>8, StepOnePlace
  <2>10. Kept(u, v) /\ Kept(w, v)
    BY <1>0, <2>5, <2>7, <2>9, KeptOn DEF Stepped
  <2>11. ASSUME v.out = "on" PROVE v.at = BlockAt(v, place)
    <3>1. y.out = "on" /\ v.at = Pointer(v, y.at, k) /\ Kept(y, v)
      BY <2>9, <2>11 DEF Stepped
    <3>2. x.out = "on" /\ y.at = Pointer(y, x.at, i) /\ y.at # NULL
      BY <2>7, <3>1, SlotFacts
    <3>3. x.at = x.pointers[DOUBLE] /\ x.pointers[DOUBLE] # NULL
      BY <1>1, <2>5, <3>2, SlotFacts DEF Pointer
    <3> DEFINE d == x.at
    <3>4. y.pointers[DOUBLE] = d
      BY <2>7, <3>3, InodeKept, SlotFacts
    <3>5. v.pointers[DOUBLE] = d /\ Pointer(v, d, i) = y.at
      <4>1. v.pointers[DOUBLE] = d
        BY <3>1, <3>3, <3>4, InodeKept, SlotFacts
      <4>2. d \in Index(y)
        BY <3>3, <3>4 DEF Index
      <4> DEFINE s == <<d, i>>
      <4>3. s \in Slots(y) /\ s[1] = d /\ s[2] = i
        BY <4>2 DEF Slots
      <4> HIDE DEF s, d
      <4>4. s \in Set(y)
        BY <3>2, <4>3 DEF Set, d
      <4>5. Pointer(v, d, i) = Pointer(y, d, i)
        BY <3>1, <4>3, <4>4 DEF Kept
      <4>6. QED
        BY <3>2, <4>1, <4>5 DEF d
    <3>6. BlockAt(v, <<DOUBLE, i, k>>) =
            IF v.pointers[DOUBLE] = NULL \/ Pointer(v, v.pointers[DOUBLE], i) = NULL THEN NULL
            ELSE Pointer(v, Pointer(v, v.pointers[DOUBLE], i), k)
      BY BlockAtIs
    <3>7. QED
      BY <2>1, <3>1, <3>2, <3>3, <3>5, <3>6
  <2>12. QED
    BY <1>0, <1>1, <2>5, <2>7, <2>9, <2>10, <2>11 DEF Stepped
<1>6. QED
  BY <1>3, <1>4, <1>5 DEF IsPlace

(* The least of two numbers.                                               *)
LEMMA MinOfTwo ==
  ASSUME NEW a \in Int, NEW b \in Int
  PROVE  Min({a, b}) \in {a, b} /\ Min({a, b}) <= a /\ Min({a, b}) <= b
<1>1. \E x \in {a, b} : \A y \in {a, b} : x <= y
  OBVIOUS
<1>2. QED
  BY <1>1 DEF Min

(* No more can be written than there is.                                   *)
LEMMA WritableIs ==
  ASSUME NEW data \in Data
  PROVE  /\ Len(data) \in Nat
         /\ Writable(data, Len(data)) \in 0 .. Len(data)
         /\ \A i \in 1 .. Len(data) : data[i] \in Nat
<1>1. data \in Seq(Nat) /\ Len(data) \in Nat
  BY DiscosIOAssumption
<1> DEFINE zeros == {k \in 1 .. Len(data) : data[k] = ZERO}
<1>2. zeros # {} => Min(zeros) \in zeros
  <2>1. zeros \subseteq Nat
    OBVIOUS
  <2>2. zeros # {} => \E m \in zeros : \A x \in zeros : m <= x
    BY <2>1, MinExists
  <2>3. QED
    BY <2>2 DEF Min
<1>3. Writable(data, Len(data)) \in 0 .. Len(data)
  BY <1>1, <1>2 DEF Writable
<1>4. QED
  BY <1>1, <1>3

(* The size is at least the bytes of the file.                             *)
Covers(f) == Cardinality(Full(f)) <= f.size

(* A state that a rd_write of data to f may be in.  Where the size does    *)
(* not wrap around, it counts the bytes that were written.                 *)
Sound(data, f) ==
  {w \in Writes : /\ OnePlace(w) /\ w.n <= Writable(data, Len(data))
                  /\ Covers(f) /\ f.size + Len(data) < UINT_RANGE
                       => w.size = f.size + w.n /\ Covers(w)}

(* There are finitely many of the cells that Full has.                     *)
LEMMA FullFinite ==
  ASSUME NEW f, f.bitmap \subseteq BlockNum
  PROVE  IsFiniteSet(Full(f)) /\ Cardinality(Full(f)) \in Nat
<1>1. IsFiniteSet(BlockNum) /\ IsFiniteSet(Offset)
  <2>1. DATA_BLOCKS_NUM - 1 \in Int /\ BLOCK_SIZE - 1 \in Int /\ 0 \in Int
    BY DiscosIOAssumption
  <2>2. QED
    BY <2>1, FS_Interval DEF BlockNum, Offset
<1>2. IsFiniteSet(BlockNum \X Offset)
  BY <1>1, FS_Product
<1>3. Full(f) \subseteq BlockNum \X Offset
  BY DEF Full
<1>4. QED
  BY <1>2, <1>3, FS_Subset, FS_CardinalityType

(* m cells of a block, from a on.                                          *)
Row(b, a, m) == {b} \X (a .. a + m - 1)

(* They are m.                                                             *)
LEMMA RowSize ==
  ASSUME NEW b, NEW a \in Nat, NEW m \in Nat
  PROVE  IsFiniteSet(Row(b, a, m)) /\ Cardinality(Row(b, a, m)) = m
<1> DEFINE z == a + m - 1
<1>1. z \in Int /\ a \in Int /\ (IF a > z THEN 0 ELSE z - a + 1) = m
  OBVIOUS
<1> HIDE DEF z
<1>2. IsFiniteSet(a .. z) /\ Cardinality(a .. z) = m
  BY <1>1, FS_Interval
<1>3. IsFiniteSet({b}) /\ Cardinality({b}) = 1
  BY FS_Singleton
<1>4. /\ IsFiniteSet({b} \X (a .. z))
      /\ Cardinality({b} \X (a .. z)) = Cardinality({b}) * Cardinality(a .. z)
  BY <1>2, <1>3, FS_Product
<1>5. 1 * m = m
  OBVIOUS
<1>6. QED
  BY <1>2, <1>3, <1>4, <1>5 DEF z, Row

(* The loop over the cells of one block writes m bytes.                    *)
Filled(data, offset, w, m, v) ==
  /\ v \in Writes /\ OnePlace(v)
  /\ m \in Nat /\ w.n + m <= Writable(data, Len(data)) /\ m <= BLOCK_SIZE - offset
  /\ m = Writable(data, Len(data)) - w.n \/ m = BLOCK_SIZE - offset
  /\ v.pointers = w.pointers /\ v.bitmap = w.bitmap /\ v.n = w.n + m
  /\ v.size = (w.size + m) % UINT_RANGE
  /\ \A b \in BlockNum :
       /\ v.data_blocks[b].index_block = w.data_blocks[b].index_block
       /\ \A j \in Offset :
            v.data_blocks[b].data[j] = IF b = w.at /\ j \in offset .. offset + m - 1
                                       THEN data[w.n + j - offset + 1]
                                       ELSE w.data_blocks[b].data[j]

(* It writes to that block only.                                           *)
LEMMA FillIs ==
  ASSUME NEW data \in Data, NEW w \in Writes, OnePlace(w), w.n <= Writable(data, Len(data)),
         w.at \in BlockNum, NEW offset \in Offset, NEW v, v = Fill(w, data, Len(data), offset)
  PROVE  \E m : Filled(data, offset, w, m, v)
<1> DEFINE len == Len(data)
           m == Min({Writable(data, len) - w.n, BLOCK_SIZE - offset})
           old == w.data_blocks[w.at]
           cells == [j \in Offset |-> IF j \in offset .. offset + m - 1
                                      THEN data[w.n + j - offset + 1] ELSE old.data[j]]
           e == [old EXCEPT !.data = cells]
           d == [w.data_blocks EXCEPT ![w.at] = e]
           out == IF w.n + m = len THEN "done" ELSE "on"
<1>1. /\ w \in Writes /\ OnePlace(w) /\ w.n <= Writable(data, len) /\ w.n \in Nat /\ w.size \in Nat
      /\ w.data_blocks \in [BlockNum -> Block] /\ w.pointers \in [InodeIdx -> BlockPtr]
  <2>1. UInt \subseteq Nat
    BY DiscosIOAssumption DEF UInt
  <2>2. QED
    BY <2>1 DEF Writes
<1>2. /\ len \in Nat /\ Writable(data, len) \in Nat /\ Writable(data, len) <= len
      /\ \A i \in 1 .. len : data[i] \in Nat
  BY WritableIs
<1>3. offset \in Nat /\ BLOCK_SIZE - offset \in Nat
  BY DiscosIOAssumption DEF Offset
<1>4. /\ m \in Nat /\ w.n + m <= Writable(data, len) /\ m <= BLOCK_SIZE - offset
      /\ m = Writable(data, len) - w.n \/ m = BLOCK_SIZE - offset
  <2> DEFINE a == Writable(data, len) - w.n
             b == BLOCK_SIZE - offset
  <2>1. a \in Nat /\ b \in Nat
    BY <1>1, <1>2, <1>3
  <2>2. m = Min({a, b})
    OBVIOUS
  <2> HIDE DEF a, b, m
  <2>3. m \in {a, b} /\ m <= a /\ m <= b
    <3>1. a \in Int /\ b \in Int
      BY <2>1
    <3>2. Min({a, b}) \in {a, b} /\ Min({a, b}) <= a /\ Min({a, b}) <= b
      BY <3>1, MinOfTwo
    <3>3. QED
      BY <2>2, <3>2
  <2>4. m \in Nat /\ m <= a
    BY <2>1, <2>3
  <2>5. QED
    BY <1>1, <1>2, <2>3, <2>4 DEF a, b
<1>5. v = [w EXCEPT !.data_blocks = d, !.n = w.n + m, !.size = (w.size + m) % UINT_RANGE,
                    !.out = out]
  BY DEF Fill
<1>6. old \in Block
  BY <1>1
<1> HIDE DEF len, m, old
<1>7. cells \in [Offset -> Nat]
  <2> SUFFICES ASSUME NEW j \in Offset
               PROVE  (IF j \in offset .. offset + m - 1
                       THEN data[w.n + j - offset + 1] ELSE old.data[j]) \in Nat
    OBVIOUS
  <2>1. CASE j \in offset .. offset + m - 1
    <3>1. w.n + j - offset + 1 \in 1 .. len
      <4>1. /\ w.n \in Nat /\ m \in Nat /\ len \in Nat /\ offset \in Nat
            /\ Writable(data, len) \in Nat /\ Writable(data, len) <= len
            /\ w.n + m <= Writable(data, len)
        BY <1>1, <1>2, <1>3, <1>4
      <4>2. QED
        BY <2>1, <4>1
    <3>2. QED
      BY <1>2, <2>1, <3>1
  <2>2. CASE j \notin offset .. offset + m - 1
    BY <1>6, <2>2 DEF Block
  <2>3. QED
    BY <2>1, <2>2
<1>0. \A j \in Offset : cells[j] = IF j \in offset .. offset + m - 1
                                   THEN data[w.n + j - offset + 1] ELSE old.data[j]
  OBVIOUS
<1> HIDE DEF cells
<1>8. e \in Block /\ e.index_block = old.index_block /\ e.data = cells
  BY <1>6, <1>7 DEF Block
<1> HIDE DEF e
<1>9. /\ d \in [BlockNum -> Block]
      /\ \A b \in BlockNum : d[b].index_block = w.data_blocks[b].index_block
      /\ d[w.at] = e /\ \A b \in BlockNum : b # w.at => d[b] = w.data_blocks[b]
  BY <1>1, <1>8 DEF old
<1> HIDE DEF d
<1>10. (w.size + m) % UINT_RANGE \in UInt /\ w.n + m \in Nat
  <2>1. w.size + m \in Int /\ UINT_RANGE \in Nat \ {0}
    BY <1>1, <1>4, DiscosIOAssumption
  <2> DEFINE x == w.size + m
  <2> HIDE DEF x
  <2>2. x % UINT_RANGE \in 0 .. UINT_RANGE - 1
    BY <2>1 DEF x
  <2>3. QED
    BY <1>1, <1>4, <2>2 DEF UInt, x
<1>11. out \in {"on", "done", "no block", "limit"}
  OBVIOUS
<1> DEFINE size == (w.size + m) % UINT_RANGE
           n == w.n + m
<1> HIDE DEF out, size, n
<1>12. v = [w EXCEPT !.data_blocks = d, !.n = n, !.size = size, !.out = out]
  BY <1>5 DEF size, n
<1>13. /\ v.pointers = w.pointers /\ v.bitmap = w.bitmap /\ v.data_blocks = d /\ v.n = n
       /\ v.size = size
  BY <1>1, <1>12 DEF Writes
<1>14. v \in Writes
  <2>1. n \in Nat /\ size \in UInt
    BY <1>10 DEF n, size
  <2>2. QED
    BY <1>1, <1>9, <1>11, <1>12, <2>1 DEF Writes
<1>15. OnePlace(v)
  BY <1>1, <1>9, <1>13, SamePointers
<1>16. ASSUME NEW b \in BlockNum, NEW j \in Offset
       PROVE  v.data_blocks[b].data[j] = IF b = w.at /\ j \in offset .. offset + m - 1
                                         THEN data[w.n + j - offset + 1]
                                         ELSE w.data_blocks[b].data[j]
  <2>1. CASE b = w.at
    BY <1>0, <1>8, <1>9, <1>13, <2>1 DEF old
  <2>2. CASE b # w.at
    BY <1>9, <1>13, <2>2
  <2>3. QED
    BY <2>1, <2>2
<1>17. QED
  <2>1. Filled(data, offset, w, m, v)
    BY <1>4, <1>9, <1>13, <1>14, <1>15, <1>16 DEF Filled, n, size, len
  <2>2. QED
    BY <2>1

(* What is written is counted.                                             *)
LEMMA FillSound ==
  ASSUME NEW data \in Data, NEW f \in Files, NEW w \in Sound(data, f), w.at \in BlockNum,
         NEW offset \in Offset, NEW v, v = Fill(w, data, Len(data), offset)
  PROVE  v \in Sound(data, f)
<1> DEFINE len == Len(data)
<1>1. /\ w \in Writes /\ OnePlace(w) /\ w.n <= Writable(data, len) /\ w.n \in Nat /\ w.size \in Nat
  <2>1. w \in Writes /\ OnePlace(w) /\ w.n <= Writable(data, len)
    BY DEF Sound
  <2>2. UInt \subseteq Nat
    BY DiscosIOAssumption DEF UInt
  <2>3. QED
    BY <2>1, <2>2 DEF Writes
<1>2. len \in Nat /\ Writable(data, len) \in Nat /\ Writable(data, len) <= len
  BY WritableIs
<1>3. offset \in Nat
  BY DiscosIOAssumption DEF Offset
<1>4. PICK m : Filled(data, offset, w, m, v)
  BY <1>1, FillIs
<1>5. /\ v \in Writes /\ OnePlace(v) /\ m \in Nat /\ w.n + m <= Writable(data, len)
      /\ v.bitmap = w.bitmap /\ v.n = w.n + m /\ v.size = (w.size + m) % UINT_RANGE
      /\ \A b \in BlockNum : \A j \in Offset :
           v.data_blocks[b].data[j] = IF b = w.at /\ j \in offset .. offset + m - 1
                                      THEN data[w.n + j - offset + 1]
                                      ELSE w.data_blocks[b].data[j]
  BY <1>4 DEF Filled
<1> HIDE DEF len
<1>6. ASSUME Covers(f), f.size + len < UINT_RANGE
       PROVE  v.size = f.size + v.n /\ Covers(v)
  <2> DEFINE T == Row(w.at, offset, m)
  <2>1. w.size = f.size + w.n /\ Covers(w) /\ f.size \in Nat
    BY <1>6, DiscosIOAssumption DEF Sound, Files, UInt, len
  <2>2. w.size + m < UINT_RANGE /\ v.size = w.size + m /\ v.n = w.n + m
    <3>0. /\ w.size \in Nat /\ m \in Nat /\ w.n \in Nat /\ len \in Nat /\ UINT_RANGE \in Nat
          /\ w.n + m <= len
      BY <1>1, <1>2, <1>5, DiscosIOAssumption
    <3>1. w.size + m < UINT_RANGE /\ w.size + m \in Nat
      <4> DEFINE y == w.size
                 n == w.n
                 z == f.size
      <4>1. /\ y \in Nat /\ n \in Nat /\ z \in Nat /\ y = z + n /\ n + m <= len
            /\ z + len < UINT_RANGE
        BY <1>6, <2>1, <3>0
      <4> HIDE DEF y, n, z
      <4>2. y + m < UINT_RANGE /\ y + m \in Nat
        BY <3>0, <4>1
      <4>3. QED
        BY <4>2 DEF y
    <3> DEFINE x == w.size + m
    <3> HIDE DEF x
    <3>2. x \in Nat /\ x < UINT_RANGE /\ UINT_RANGE \in Nat
      BY <3>1, DiscosIOAssumption DEF x
    <3>3. x % UINT_RANGE = x
      BY <3>2
    <3>4. QED
      BY <1>5, <3>1, <3>3 DEF x
  <2>3. Full(v) \subseteq Full(w) \cup T
    <3>1. w.bitmap \subseteq BlockNum
      BY <1>1 DEF Writes
    <3>2. ASSUME NEW b \in w.bitmap, NEW j \in Offset, v.data_blocks[b].data[j] # ZERO,
                 ~ (b = w.at /\ j \in offset .. offset + m - 1)
          PROVE  w.data_blocks[b].data[j] # ZERO
      BY <1>5, <3>1, <3>2
    <3>3. QED
      BY <1>5, <3>2 DEF Full, Row
  <2> HIDE DEF T
  <2>4. IsFiniteSet(T) /\ Cardinality(T) = m
    <3>1. offset \in Nat /\ m \in Nat
      BY <1>3, <1>5
    <3>2. QED
      BY <3>1, RowSize DEF T
  <2>5. IsFiniteSet(Full(w)) /\ Cardinality(Full(w)) \in Nat
    BY <1>1, FullFinite DEF Writes
  <2>6. IsFiniteSet(Full(v)) /\ Cardinality(Full(v)) \in Nat
    BY <1>5, FullFinite DEF Writes
  <2>7. Cardinality(Full(v)) <= Cardinality(Full(w)) + m
    <3> DEFINE U == Full(w) \cup T
               I == Full(w) \cap T
    <3>1. IsFiniteSet(I) /\ Cardinality(I) \in Nat
      BY <2>5, FS_Intersection, FS_CardinalityType
    <3>2. IsFiniteSet(U) /\ Cardinality(U) = Cardinality(Full(w)) + Cardinality(T) - Cardinality(I)
      BY <2>4, <2>5, FS_Union
    <3>3. Cardinality(Full(v)) <= Cardinality(U)
      BY <2>3, <3>2, FS_Subset
    <3> HIDE DEF U, I
    <3>4. QED
      BY <1>5, <2>4, <2>5, <2>6, <3>1, <3>2, <3>3
  <2>8. QED
    BY <1>1, <1>5, <2>1, <2>2, <2>5, <2>6, <2>7 DEF Covers
<1>7. QED
  BY <1>5, <1>6 DEF Sound, len

(* The loop over the blocks of a range ...                                 *)
LEMMA WriteAtSound ==
  ASSUME NEW data \in Data, NEW f \in Files, NEW w \in Sound(data, f), NEW offset \in Offset,
         NEW places, NEW k \in Nat, DOMAIN places = 1 .. k,
         \A i \in 1 .. k : IsPlace(places[i])
  PROVE  WriteAt(w, places, offset, data, Len(data)) \in Sound(data, f)
<1> DEFINE c == [data |-> data, num_bytes |-> Len(data), offset |-> offset]
           S == Sound(data, f)
<1>1. PICK g : /\ Passes("write", c, w, places, k, g)
               /\ WriteAt(w, places, offset, data, Len(data)) = g[1 .. k]
  BY WriteLoop
<1>2. ASSUME NEW u \in S, NEW i \in 1 .. k PROVE Pass("write", c, u, places[i]) \in S
  <2> DEFINE x == [u EXCEPT !.at = NULL]
             v == FoldLeft(Step, x, places[i])
  <2>1. /\ u \in Writes /\ OnePlace(u) /\ u.n <= Writable(data, Len(data))
        /\ Covers(f) /\ f.size + Len(data) < UINT_RANGE => u.size = f.size + u.n /\ Covers(u)
    BY DEF Sound
  <2>2. /\ v \in Writes /\ OnePlace(v) /\ v.n = u.n /\ v.size = u.size /\ Full(v) = Full(u)
        /\ v.out = "on" => v.at \in BlockNum
    <3> DEFINE place == places[i]
    <3>1. IsPlace(place)
      OBVIOUS
    <3> HIDE DEF place
    <3>2. LET r == FoldLeft(Step, x, place)
          IN  /\ r \in Writes /\ OnePlace(r) /\ r.n = u.n /\ r.size = u.size
              /\ Full(r) = Full(u)
              /\ r.out = "on" => r.at \in BlockNum
      BY <2>1, <3>1, PlaceOnePlace
    <3>3. QED
      BY <3>2 DEF place
  <2>3. Pass("write", c, u, places[i])
          = IF v.out = "on" THEN Fill(v, data, Len(data), offset) ELSE v
    BY DEF Pass, WriteBlock
  <2> HIDE DEF v
  <2>4. v \in S
    BY <2>1, <2>2 DEF Sound, Covers
  <2>5. v.out = "on" => Fill(v, data, Len(data), offset) \in S
    BY <2>2, <2>4, FillSound
  <2>6. QED
    BY <2>3, <2>4, <2>5
<1> HIDE DEF c
<1>3. \A i \in 0 .. k : g[1 .. i] \in S
  <2> HIDE DEF S
  <2>1. w \in S
    BY DEF S
  <2>2. QED
    BY <1>1, <1>2, <2>1, LoopKeeps
<1>4. k \in 0 .. k
  OBVIOUS
<1>5. QED
  BY <1>1, <1>3, <1>4

(* Where a position is: block and offset.                                  *)
LEMMA PositionIs ==
  ASSUME NEW at \in UInt
  PROVE  at \div BLOCK_SIZE \in Nat /\ at % BLOCK_SIZE \in Offset
<1>1. at \in Nat /\ BLOCK_SIZE \in Nat \ {0}
  BY DiscosIOAssumption DEF UInt
<1> DEFINE B == BLOCK_SIZE
<1>2. at % B \in 0 .. B - 1
  BY <1>1
<1>3. at \div B \in Nat
  <2> HIDE DEF B
  <2>0. B \in Nat \ {0}
    BY <1>1 DEF B
  <2>1. at = B * (at \div B) + (at % B) /\ at % B \in 0 .. B - 1 /\ at \div B \in Int
    BY <1>1, <2>0
  <2> DEFINE q == at \div B
  <2>2. q \in Int /\ at < B * q + B
    BY <1>1, <2>0, <2>1
  <2> HIDE DEF q
  <2>3. ASSUME q <= -1 PROVE FALSE
    <3>1. B * q <= B * (-1)
      BY <2>0, <2>2, <2>3, Z3
    <3>2. QED
      BY <1>1, <2>0, <2>2, <3>1
  <2>4. QED
    BY <2>2, <2>3 DEF q
<1>4. QED
  BY <1>2, <1>3 DEF Offset

(* ... and the ranges in turn.                                             *)
LEMMA WrittenSound ==
  ASSUME NEW f \in Files, OnePlace(f), NEW pos \in UInt, NEW data \in Data
  PROVE  Written(f, pos, data, Len(data)) \in Sound(data, f)
<1> DEFINE len == Len(data)
           c == [pos |-> pos, data |-> data, num_bytes |-> len]
           w0 == Begun(f)
           q == <<1, 2, 3>>
           S == Sound(data, f)
<1>1. PICK g : /\ Passes("ranges", c, w0, q, 3, g)
               /\ Written(f, pos, data, len) = g[1 .. 3]
  BY RangesLoop
<1>2. w0 \in S
  <2> DEFINE w == w0
  <2>2. /\ w \in Writes /\ w.n = 0 /\ w.size = f.size
        /\ w.pointers = f.pointers /\ w.bitmap = f.bitmap /\ w.data_blocks = f.data_blocks
    BY SlotFacts DEF Files, Writes, Begun
  <2> HIDE DEF w
  <2>3. f.pointers \in [InodeIdx -> BlockPtr] /\ f.data_blocks \in [BlockNum -> Block]
    BY DEF Files
  <2>4. OnePlace(w)
    BY <2>2, <2>3, SamePointers
  <2>5. Writable(data, len) >= 0
    BY WritableIs
  <2>6. w.size = f.size + w.n /\ (Covers(f) => Covers(w))
    <3>1. f.size \in Nat
      BY DiscosIOAssumption DEF Files, UInt
    <3>2. Full(w) = Full(f)
      BY <2>2 DEF Full
    <3>3. QED
      BY <2>2, <3>1, <3>2 DEF Covers
  <2>7. w \in S
    BY <2>2, <2>4, <2>5, <2>6 DEF Sound
  <2>8. QED
    BY <2>7 DEF w
<1>3. ASSUME NEW w \in S, NEW i \in 1 .. 3 PROVE Pass("ranges", c, w, q[i]) \in S
  <2> DEFINE range == q[i]
             at  == IF range = 1 THEN pos ELSE w.size
             seg == at \div BLOCK_SIZE
             offset == at % BLOCK_SIZE
             out == IF w.out = "on" /\ range = 3 /\ seg >= MAX_BLOCKS THEN "limit" ELSE w.out
  <2>1. range \in {1, 2, 3}
    OBVIOUS
  <2>2. /\ w \in Writes /\ OnePlace(w) /\ w.n <= Writable(data, len)
        /\ Covers(f) /\ f.size + len < UINT_RANGE => w.size = f.size + w.n /\ Covers(w)
    BY DEF Sound
  <2>3. at \in UInt
    BY <2>2 DEF Writes
  <2>4. Pass("ranges", c, w, range) = IF w.out = "on" /\ InRange(seg, range)
                                      THEN WriteAt(w, Places(seg, range), offset, data, len)
                                      ELSE [w EXCEPT !.out = out]
    BY DEF Pass, WriteRange
  <2> HIDE DEF range, at
  <2>5. seg \in Nat /\ offset \in Offset
    BY <2>3, PositionIs
  <2> HIDE DEF seg, offset
  <2>6. ASSUME InRange(seg, range) PROVE WriteAt(w, Places(seg, range), offset, data, len) \in S
    <3> DEFINE p == Places(seg, range)
    <3>1. PICK n \in Nat : DOMAIN p = 1 .. n /\ \A j \in 1 .. n : IsPlace(p[j])
      BY <2>1, <2>5, <2>6, PlacesAre
    <3> HIDE DEF p
    <3>2. WriteAt(w, p, offset, data, len) \in S
      BY <2>5, <3>1, WriteAtSound
    <3>3. QED
      BY <3>2 DEF p
  <2>7. [w EXCEPT !.out = out] \in S
    <3> DEFINE v == [w EXCEPT !.out = out]
    <3>1. out \in {"on", "done", "no block", "limit"}
      BY <2>2 DEF Writes
    <3> HIDE DEF out
    <3>2. /\ v \in Writes /\ v.n = w.n /\ v.size = w.size
          /\ v.pointers = w.pointers /\ v.bitmap = w.bitmap /\ v.data_blocks = w.data_blocks
      BY <2>2, <3>1 DEF Writes
    <3> HIDE DEF v
    <3>3. w.pointers \in [InodeIdx -> BlockPtr] /\ w.data_blocks \in [BlockNum -> Block]
      BY <2>2 DEF Writes
    <3>4. OnePlace(v)
      BY <2>2, <3>2, <3>3, SamePointers
    <3>5. Full(v) = Full(w)
      BY <3>2 DEF Full
    <3>6. v \in S
      BY <2>2, <3>2, <3>4, <3>5 DEF Sound, Covers
    <3>7. QED
      BY <3>6 DEF v
  <2>8. QED
    BY <2>4, <2>6, <2>7 DEF range
<1> HIDE DEF c, w0, q
<1>4. \A i \in 0 .. 3 : g[1 .. i] \in S
  <2> HIDE DEF S
  <2>1. QED
    BY <1>1, <1>2, <1>3, LoopKeeps
<1>5. QED
  BY <1>1, <1>4

-----------------------------------------------------------------------------
(* A whole rd_read                                                         *)

(* The loop over the cells of one block.                                   *)
LEMMA SelectLoop ==
  ASSUME NEW f, NEW b, NEW offset \in Offset
  PROVE  \E g : /\ Passes("select", 0, <<>>,
                          [k \in 1 .. BLOCK_SIZE - offset |->
                             f.data_blocks[b].data[offset + k - 1]], BLOCK_SIZE - offset, g)
                /\ Bytes(f, b, offset) = g[1 .. BLOCK_SIZE - offset]
<1> DEFINE n == BLOCK_SIZE - offset
           q == [k \in 1 .. n |-> f.data_blocks[b].data[offset + k - 1]]
           One(bytes, byte) == IF byte # ZERO THEN Append(bytes, byte) ELSE bytes
           P(g) == g = [s \in SUBSET DOMAIN q |->
                          IF s = {} THEN <<>> ELSE One(g[s \ {Max(s)}], q[Max(s)])]
<1>1. Bytes(f, b, offset) = (CHOOSE g : P(g))[DOMAIN q]
  BY DEF Bytes, FoldLeft, MapThenFoldSet
<1>0. \A bytes, byte : One(bytes, byte) = Pass("select", 0, bytes, byte)
  BY DEF Pass
<1>2. DOMAIN q = 1 .. n
  OBVIOUS
<1>3. n \in Nat
  BY DiscosIOAssumption DEF Offset
<1> HIDE DEF One, q, n
<1>4. \A g : P(g) <=> Loop("select", 0, <<>>, q, n, g)
  BY <1>0, <1>2 DEF Loop
<1> HIDE DEF P
<1>5. \E g : P(g)
  BY <1>3, <1>4, LoopExists
<1>6. P(CHOOSE g : P(g))
  BY <1>5
<1>7. PICK g : Loop("select", 0, <<>>, q, n, g) /\ Bytes(f, b, offset) = g[1 .. n]
  BY <1>1, <1>2, <1>4, <1>6
<1>8. Passes("select", 0, <<>>, q, n, g)
  BY <1>3, <1>7, LoopPasses
<1>9. QED
  BY <1>7, <1>8 DEF n, q

(* It finds bytes, ...                                                     *)
LEMMA BytesAre ==
  ASSUME NEW f \in Files, NEW b \in BlockNum, NEW offset \in Offset
  PROVE  Bytes(f, b, offset) \in Seq(Nat)
<1> DEFINE n == BLOCK_SIZE - offset
           q == [k \in 1 .. n |-> f.data_blocks[b].data[offset + k - 1]]
           S == Seq(Nat)
<1>1. PICK g : Passes("select", 0, <<>>, q, n, g) /\ Bytes(f, b, offset) = g[1 .. n]
  BY SelectLoop
<1>2. n \in Nat /\ offset \in Nat /\ BLOCK_SIZE \in Nat
  BY DiscosIOAssumption DEF Offset
<1>3. ASSUME NEW k \in 1 .. n PROVE q[k] \in Nat
  <2>1. offset + k - 1 \in Offset
    BY <1>2 DEF Offset
  <2>2. f.data_blocks[b].data \in [Offset -> Nat]
    BY DEF Files, Block
  <2>3. QED
    BY <2>1, <2>2
<1> HIDE DEF q, n
<1>4. <<>> \in S
  OBVIOUS
<1>5. ASSUME NEW v \in S, NEW i \in 1 .. n PROVE Pass("select", 0, v, q[i]) \in S
  <2>1. Append(v, q[i]) \in S
    BY <1>3
  <2>2. QED
    BY <2>1 DEF Pass
<1> HIDE DEF S
<1>6. \A i \in 0 .. n : g[1 .. i] \in S
  BY <1>1, <1>2, <1>4, <1>5, LoopKeeps
<1>7. n \in 0 .. n
  BY <1>2
<1>8. QED
  BY <1>1, <1>6, <1>7 DEF S

(* ... in the data block of a place, if there is one.                      *)
LEMMA BlockFound ==
  ASSUME NEW f \in Files, NEW place, IsPlace(place)
  PROVE  BlockAt(f, place) \in BlockPtr
<1> DEFINE q == Tail(place)
           h == Head(place)
           p == Pointer(f, NULL, h)
<1>1. h \in InodeIdx /\ \E k \in Nat : DOMAIN q = 1 .. k /\ \A i \in 1 .. k : q[i] \in PtrIdx
  <2>1. CASE Direct(place)
    <3>1. PICK i \in InodeIdx : place = <<i>>
      BY <2>1 DEF Direct
    <3>2. h = i /\ DOMAIN q = 1 .. 0
      BY <3>1
    <3>3. \A j \in 1 .. 0 : q[j] \in PtrIdx
      OBVIOUS
    <3> HIDE DEF q
    <3>4. QED
      BY <3>2, <3>3
  <2>2. CASE Single(place)
    <3>1. PICK k \in PtrIdx : place = <<SINGLE, k>>
      BY <2>2 DEF Single
    <3>2. h = SINGLE /\ DOMAIN q = 1 .. 1 /\ q[1] = k
      BY <3>1
    <3>3. \A j \in 1 .. 1 : q[j] \in PtrIdx
      BY <3>2
    <3> HIDE DEF q
    <3>4. QED
      BY <3>2, <3>3, SlotFacts
  <2>3. CASE Double(place)
    <3>1. PICK i \in PtrIdx, k \in PtrIdx : place = <<DOUBLE, i, k>>
      BY <2>3 DEF Double
    <3>2. h = DOUBLE /\ DOMAIN q = 1 .. 2 /\ q[1] = i /\ q[2] = k
      BY <3>1
    <3>3. \A j \in 1 .. 2 : q[j] \in PtrIdx
      BY <3>2
    <3> HIDE DEF q
    <3>4. QED
      BY <3>2, <3>3, SlotFacts
  <2>4. QED
    BY <2>1, <2>2, <2>3 DEF IsPlace
<1>2. PICK k \in Nat : DOMAIN q = 1 .. k /\ \A i \in 1 .. k : q[i] \in PtrIdx
  BY <1>1
<1>3. PICK g : Passes("follow", f, p, q, k, g) /\ BlockAt(f, place) = g[1 .. k]
  BY <1>2, FollowLoop
<1>4. f.pointers \in [InodeIdx -> BlockPtr] /\ f.data_blocks \in [BlockNum -> Block]
  BY DEF Files
<1>5. p \in BlockPtr
  BY <1>1, <1>4 DEF Pointer
<1> HIDE DEF p, q, h
<1>6. ASSUME NEW at \in BlockPtr, NEW i \in 1 .. k PROVE Pass("follow", f, at, q[i]) \in BlockPtr
  <2>1. at # NULL => at \in BlockNum
    BY DEF BlockPtr
  <2>2. at # NULL => Pointer(f, at, q[i]) \in BlockPtr
    BY <1>2, <1>4, <2>1 DEF Pointer, Block
  <2>3. QED
    BY <2>2, SlotFacts DEF Pass
<1>7. \A i \in 0 .. k : g[1 .. i] \in BlockPtr
  <2> DEFINE S == BlockPtr
  <2> HIDE DEF S
  <2>1. p \in S /\ \A at \in S : \A i \in 1 .. k : Pass("follow", f, at, q[i]) \in S
    BY <1>5, <1>6 DEF S
  <2>2. \A i \in 0 .. k : g[1 .. i] \in S
    BY <1>3, <2>1, LoopKeeps
  <2>3. QED
    BY <2>2 DEF S
<1>8. QED
  BY <1>3, <1>7

(* What a rd_read has found so far.                                        *)
Found == [bytes : Seq(Nat), done : BOOLEAN]

(* The loop over the blocks of a range ...                                 *)
LEMMA ReadAtFinds ==
  ASSUME NEW f \in Files, NEW r \in Found, NEW offset \in Offset, NEW num_bytes \in Nat,
         NEW places, NEW k \in Nat, DOMAIN places = 1 .. k,
         \A i \in 1 .. k : IsPlace(places[i])
  PROVE  ReadAt(f, r, places, offset, num_bytes) \in Found
<1> DEFINE c == [f |-> f, num_bytes |-> num_bytes, offset |-> offset]
<1>1. PICK g : /\ Passes("read", c, r, places, k, g)
               /\ ReadAt(f, r, places, offset, num_bytes) = g[1 .. k]
  BY ReadLoop
<1>2. c.f = f /\ c.num_bytes = num_bytes /\ c.offset = offset
  OBVIOUS
<1> HIDE DEF c
<1>3. ASSUME NEW u \in Found, NEW i \in 1 .. k PROVE Pass("read", c, u, places[i]) \in Found
  <2> DEFINE b == BlockAt(f, places[i])
             here == IF b = NULL THEN <<>> ELSE Bytes(f, b, offset)
             wanted == num_bytes - Len(u.bytes)
             got == IF wanted > 0 /\ wanted < Len(here) THEN SubSeq(here, 1, wanted) ELSE here
             all == u.bytes \o got
  <2>1. here \in Seq(Nat)
    <3>1. b \in BlockPtr
      <4> DEFINE place == places[i]
      <4>1. IsPlace(place)
        OBVIOUS
      <4> HIDE DEF place
      <4>2. BlockAt(f, place) \in BlockPtr
        BY <4>1, BlockFound
      <4>3. QED
        BY <4>2 DEF place
    <3> HIDE DEF b
    <3>2. b # NULL => Bytes(f, b, offset) \in Seq(Nat)
      BY <3>1, BytesAre DEF BlockPtr
    <3>3. <<>> \in Seq(Nat)
      OBVIOUS
    <3>4. QED
      BY <3>2, <3>3
  <2>2. u.bytes \in Seq(Nat) /\ Len(u.bytes) \in Nat /\ u.done \in BOOLEAN
    BY DEF Found
  <2>3. Pass("read", c, u, places[i])
          = IF u.done THEN u ELSE [bytes |-> all, done |-> Len(all) = num_bytes]
    BY <1>2 DEF Pass, ReadBlock
  <2> HIDE DEF here
  <2>4. got \in Seq(Nat)
    <3>1. ASSUME wanted > 0, wanted < Len(here) PROVE SubSeq(here, 1, wanted) \in Seq(Nat)
      <4>1. \A j \in 1 .. wanted : here[j] \in Nat
        BY <2>1, <2>2, <3>1
      <4>2. QED
        BY <2>1, <2>2, <3>1, <4>1, SubSeqProperties
    <3>2. QED
      BY <2>1, <3>1
  <2> HIDE DEF got
  <2>5. all \in Seq(Nat)
    BY <2>2, <2>4
  <2> HIDE DEF all
  <2>6. [bytes |-> all, done |-> Len(all) = num_bytes] \in Found
    <3> DEFINE d == Len(all) = num_bytes
    <3>1. d \in BOOLEAN
      OBVIOUS
    <3> HIDE DEF d
    <3>2. [bytes |-> all, done |-> d] \in Found
      BY <2>5, <3>1 DEF Found
    <3>3. QED
      BY <3>2 DEF d
  <2>7. QED
    BY <2>3, <2>6
<1>4. \A i \in 0 .. k : g[1 .. i] \in Found
  <2> DEFINE S == Found
  <2> HIDE DEF S
  <2>1. r \in S /\ \A u \in S : \A i \in 1 .. k : Pass("read", c, u, places[i]) \in S
    BY <1>3 DEF S
  <2>2. \A i \in 0 .. k : g[1 .. i] \in S
    BY <1>1, <2>1, LoopKeeps
  <2>3. QED
    BY <2>2 DEF S
<1>5. k \in 0 .. k
  OBVIOUS
<1>6. QED
  BY <1>1, <1>4, <1>5

(* ... and the ranges in turn.                                             *)
LEMMA ReadFinds ==
  ASSUME NEW f \in Files, NEW pos \in Nat, NEW num_bytes \in Nat
  PROVE  Read(f, pos, num_bytes) \in Seq(Nat)
<1> DEFINE c == [f |-> f, pos |-> pos, num_bytes |-> num_bytes]
           r0 == [bytes |-> <<>>, done |-> FALSE]
           q == <<1, 2, 3>>
<1>1. PICK g : Passes("reads", c, r0, q, 3, g) /\ Read(f, pos, num_bytes) = g[1 .. 3].bytes
  BY ReadsLoop
<1>2. r0 \in Found
  <2>1. <<>> \in Seq(Nat) /\ FALSE \in BOOLEAN
    OBVIOUS
  <2>2. QED
    BY <2>1 DEF Found
<1>0. c.f = f /\ c.pos = pos /\ c.num_bytes = num_bytes
  OBVIOUS
<1> HIDE DEF c, r0
<1>3. ASSUME NEW r \in Found, NEW i \in 1 .. 3 PROVE Pass("reads", c, r, q[i]) \in Found
  <2> DEFINE range == q[i]
             at  == (pos + Len(r.bytes)) % UINT_RANGE
             seg == at \div BLOCK_SIZE
             offset == at % BLOCK_SIZE
             p == Places(seg, range)
  <2>1. range \in {1, 2, 3}
    OBVIOUS
  <2>2. at \in UInt
    <3> DEFINE x == pos + Len(r.bytes)
    <3>1. x \in Int /\ UINT_RANGE \in Nat \ {0}
      BY DiscosIOAssumption DEF Found
    <3> HIDE DEF x
    <3>2. x % UINT_RANGE \in 0 .. UINT_RANGE - 1
      BY <3>1
    <3>3. QED
      BY <3>2 DEF UInt, x
  <2>3. Pass("reads", c, r, range)
          = IF InRange(seg, range) /\ (range # 1 => Len(r.bytes) < num_bytes)
            THEN ReadAt(f, r, p, offset, num_bytes) ELSE r
    BY <1>0 DEF Pass, ReadRange
  <2> HIDE DEF at, range
  <2>4. seg \in Nat /\ offset \in Offset
    BY <2>2, PositionIs
  <2> HIDE DEF seg, offset
  <2>5. ASSUME InRange(seg, range) PROVE ReadAt(f, r, p, offset, num_bytes) \in Found
    <3>1. PICK n \in Nat : DOMAIN p = 1 .. n /\ \A j \in 1 .. n : IsPlace(p[j])
      BY <2>1, <2>4, <2>5, PlacesAre
    <3> HIDE DEF p
    <3>2. QED
      BY <2>4, <3>1, ReadAtFinds
  <2>6. QED
    BY <2>3, <2>5 DEF range
<1> HIDE DEF q
<1>4. \A i \in 0 .. 3 : g[1 .. i] \in Found
  <2> DEFINE S == Found
  <2> HIDE DEF S
  <2>1. r0 \in S /\ \A u \in S : \A i \in 1 .. 3 : Pass("reads", c, u, q[i]) \in S
    BY <1>2, <1>3 DEF S
  <2>2. \A i \in 0 .. 3 : g[1 .. i] \in S
    BY <1>1, <2>1, LoopKeeps
  <2>3. QED
    BY <2>2 DEF S
<1>5. QED
  BY <1>1, <1>4 DEF Found

-----------------------------------------------------------------------------
(* The file, whatever is written, read and sought                          *)

(* The inductive invariant: the types, and the pointers of the file.  The  *)
(* cursors and the size may be any: the walk of a rd_write keeps one block *)
(* in one place wherever it begins.                                        *)
FileInv == TypeOK /\ OneBlockOnePlace

(* Counting on, an unsigned int wraps around.                              *)
LEMMA Wraps ==
  ASSUME NEW n \in Int
  PROVE  n % UINT_RANGE \in UInt
BY DiscosIOAssumption DEF UInt

(* The types, of the file and of the rest.                                 *)
LEMMA TypeOKIs ==
  TypeOK <=> /\ file \in Files /\ cursor \in [Fd -> UInt]
             /\ last.ret \in Nat \cup {-1} /\ inOrder \in BOOLEAN
BY DEF TypeOK, Files, Block

(* What these say of the state after a step.                               *)
LEMMA TypeOKNext ==
  TypeOK' <=> /\ file' \in Files /\ cursor' \in [Fd -> UInt]
              /\ last'.ret \in Nat \cup {-1} /\ inOrder' \in BOOLEAN
BY DEF TypeOK, Files, Block

(* And of its pointers.                                                    *)
LEMMA OnePlaceNext == OneBlockOnePlace' <=> OnePlace(file')
<1>1. (OneBlockOnePlace <=> OnePlace(file))'
  BY OnePlaceIs, PTL
<1>2. QED
  BY <1>1

(* A file is created with no pointers.                                     *)
LEMMA FileInitially == Init => FileInv
<1> SUFFICES ASSUME Init PROVE FileInv
  OBVIOUS
<1>1. file = EmptyFile /\ cursor = [fd \in Fd |-> 0] /\ last.ret = 0 /\ inOrder = TRUE
  BY DEF Init
<1>2. 0 \in UInt
  BY DiscosIOAssumption DEF UInt
<1>3. /\ file \in Files
      /\ file.pointers = [i \in InodeIdx |-> NULL] /\ file.bitmap = {}
  <2>1. [b \in BlockNum |-> ZeroBlock] \in [BlockNum -> Block]
    BY SlotFacts
  <2>2. [i \in InodeIdx |-> NULL] \in [InodeIdx -> BlockPtr]
    BY SlotFacts
  <2> DEFINE d == [b \in BlockNum |-> ZeroBlock]
             p == [i \in InodeIdx |-> NULL]
  <2> HIDE DEF d, p
  <2>3. EmptyFile = [size |-> 0, pointers |-> p, bitmap |-> {}, data_blocks |-> d]
    BY DEF EmptyFile, d, p
  <2>4. EmptyFile \in Files /\ EmptyFile.pointers = p /\ EmptyFile.bitmap = {}
    BY <1>2, <2>1, <2>2, <2>3 DEF Files, d, p
  <2>5. QED
    BY <1>1, <2>4 DEF p
<1>4. TypeOK
  BY <1>1, <1>2, <1>3, TypeOKIs
<1>5. Set(file) = {}
  <2>1. Index(file) = {}
    BY <1>3, SlotFacts DEF Index
  <2>2. ASSUME NEW p \in Slots(file) PROVE Pointer(file, p[1], p[2]) = NULL
    <3>1. p[1] = NULL /\ p[2] \in InodeIdx
      BY <2>1 DEF Slots
    <3>2. QED
      BY <1>3, <3>1 DEF Pointer
  <2>3. QED
    BY <2>2 DEF Set
<1>6. OneBlockOnePlace
  BY <1>3, <1>5, OnePlaceIs DEF OnePlace
<1>7. QED
  BY <1>4, <1>6 DEF FileInv

(* A call that leaves the file as it is need only keep the types.          *)
LEMMA FileStays ==
  ASSUME FileInv, file' = file, TypeOK'
  PROVE  FileInv'
<1>1. OneBlockOnePlace'
  <2>1. OnePlace(file)
    BY OnePlaceIs DEF FileInv
  <2>2. OnePlace(file')
    BY <2>1
  <2>3. QED
    BY <2>2, OnePlaceNext
<1>2. QED
  BY <1>1 DEF FileInv

(* rd_write keeps the invariant, ...                                       *)
LEMMA WriteKeeps ==
  ASSUME FileInv, NEW fd \in Fd, NEW data \in Data, rd_write(fd, data)
  PROVE  FileInv'
<1>1. /\ file \in Files /\ cursor \in [Fd -> UInt] /\ OnePlace(file)
      /\ last.ret \in Nat \cup {-1} /\ inOrder \in BOOLEAN
  BY TypeOKIs, OnePlaceIs DEF FileInv
<1>2. CASE fd \in ReadOnly
  <2>1. /\ file' = file /\ cursor' = cursor /\ inOrder' = inOrder
        /\ last' = [ret |-> -1, bytes |-> <<>>]
    BY <1>2 DEF rd_write
  <2>2. last'.ret = -1
    BY <2>1
  <2>3. TypeOK'
    BY <1>1, <2>1, <2>2, TypeOKNext
  <2>4. QED
    BY <2>1, <2>3, FileStays
<1>3. CASE fd \notin ReadOnly
  <2> DEFINE w == Written(file, cursor[fd], data, Len(data))
             ret == CASE w.out = "no block" -> -1
                      [] w.out = "on" -> 0
                      [] OTHER -> w.n
  <2>1. w \in Sound(data, file)
    BY <1>1, WrittenSound
  <2>2. /\ file' = [size |-> w.size, pointers |-> w.pointers, bitmap |-> w.bitmap,
                    data_blocks |-> w.data_blocks]
        /\ cursor' = [cursor EXCEPT ![fd] = (@ + w.n) % UINT_RANGE]
        /\ last' = [bytes |-> <<>>, ret |-> ret]
        /\ inOrder' = (inOrder /\ GoesOn(file, cursor[fd], Len(data)))
    BY <1>3 DEF rd_write
  <2> HIDE DEF w
  <2>3. w \in Writes /\ OnePlace(w)
    BY <2>1 DEF Sound
  <2>4. /\ file' \in Files
        /\ file'.pointers = w.pointers /\ file'.bitmap = w.bitmap
        /\ file'.data_blocks = w.data_blocks
    BY <2>2, <2>3 DEF Files, Writes
  <2>5. OnePlace(file')
    <3>1. w.pointers \in [InodeIdx -> BlockPtr] /\ w.data_blocks \in [BlockNum -> Block]
      BY <2>3 DEF Writes
    <3> DEFINE v == file'
    <3>2. /\ v.pointers = w.pointers /\ v.bitmap = w.bitmap
          /\ \A b \in BlockNum : v.data_blocks[b].index_block = w.data_blocks[b].index_block
      BY <2>4
    <3> HIDE DEF v
    <3>3. OnePlace(v)
      BY <2>3, <3>1, <3>2, SamePointers
    <3>4. QED
      BY <3>3 DEF v
  <2>6. OneBlockOnePlace'
    BY <2>5, OnePlaceNext
  <2>7. ret \in Nat \cup {-1}
    BY <2>3 DEF Writes
  <2> HIDE DEF ret
  <2>8. last'.ret = ret
    BY <2>2
  <2>9. cursor' \in [Fd -> UInt]
    <3>1. cursor[fd] \in UInt /\ w.n \in Nat
      BY <1>1, <2>3 DEF Writes
    <3>4. cursor[fd] + w.n \in Int
      BY <3>1 DEF UInt
    <3>2. (cursor[fd] + w.n) % UINT_RANGE \in UInt
      BY <3>4, Wraps
    <3>3. QED
      BY <1>1, <2>2, <3>2
  <2>10. inOrder' \in BOOLEAN
    BY <2>2
  <2>11. TypeOK'
    BY <2>4, <2>7, <2>8, <2>9, <2>10, TypeOKNext
  <2>12. QED
    BY <2>6, <2>11 DEF FileInv
<1>4. QED
  BY <1>2, <1>3

(* ... and so does rd_lseek, ...                                           *)
LEMMA SeekKeeps ==
  ASSUME FileInv, NEW fd \in Fd, NEW offset \in Offsets, rd_lseek(fd, offset)
  PROVE  FileInv'
<1> DEFINE to == IF offset >= file.size THEN (file.size - 1) % UINT_RANGE ELSE offset
           ret == IF to = UINT_RANGE - 1 THEN -1 ELSE to
<1>1. /\ file \in Files /\ cursor \in [Fd -> UInt]
      /\ last.ret \in Nat \cup {-1} /\ inOrder \in BOOLEAN
  BY TypeOKIs DEF FileInv
<1>2. /\ file' = file /\ inOrder' = inOrder
      /\ \/ cursor' = cursor /\ last' = [ret |-> -1, bytes |-> <<>>]
         \/ /\ offset >= 0
            /\ cursor' = [cursor EXCEPT ![fd] = to]
            /\ last' = [ret |-> ret, bytes |-> <<>>]
  BY DEF rd_lseek
<1>3. offset >= 0 => to \in UInt
  <2> HAVE offset >= 0
  <2>1. offset \in Nat /\ file.size \in UInt
    BY <1>1, DiscosIOAssumption DEF Files, Offsets
  <2>2. file.size - 1 \in Int
    BY <2>1, DiscosIOAssumption DEF UInt
  <2>3. (file.size - 1) % UINT_RANGE \in UInt
    BY <2>2, Wraps
  <2>4. ~(offset >= file.size) => offset \in UInt
    BY <2>1, DiscosIOAssumption DEF UInt
  <2>5. QED
    BY <2>3, <2>4
<1> HIDE DEF to
<1>4. offset >= 0 => ret \in Nat \cup {-1}
  BY <1>3, DiscosIOAssumption DEF UInt
<1> HIDE DEF ret
<1>5. last'.ret \in Nat \cup {-1}
  BY <1>2, <1>4
<1>6. cursor' \in [Fd -> UInt]
  BY <1>1, <1>2, <1>3
<1>7. TypeOK'
  BY <1>1, <1>2, <1>5, <1>6, TypeOKNext
<1>8. QED
  BY <1>2, <1>7, FileStays

(* ... and rd_read.                                                        *)
LEMMA ReadKeeps ==
  ASSUME FileInv, NEW fd \in Fd, NEW num_bytes \in Counts, rd_read(fd, num_bytes)
  PROVE  FileInv'
<1>1. /\ file \in Files /\ cursor \in [Fd -> UInt]
      /\ last.ret \in Nat \cup {-1} /\ inOrder \in BOOLEAN
  BY TypeOKIs DEF FileInv
<1>2. file' = file /\ inOrder' = inOrder
  BY DEF rd_read
<1>3. CASE last' = [ret |-> -1, bytes |-> <<>>] /\ cursor' = cursor
  <2>1. last'.ret = -1
    BY <1>3
  <2>2. TypeOK'
    BY <1>1, <1>2, <1>3, <2>1, TypeOKNext
  <2>3. QED
    BY <1>2, <2>2, FileStays
<1>4. CASE LET bytes == Read(file, cursor[fd], num_bytes)
           IN  /\ last' = [ret |-> Len(bytes), bytes |-> bytes]
               /\ cursor' = [cursor EXCEPT ![fd] = (@ + Len(bytes)) % UINT_RANGE]
  <2> DEFINE bytes == Read(file, cursor[fd], num_bytes)
             n == Len(bytes)
  <2>1. cursor[fd] \in Nat /\ num_bytes \in Nat
    BY <1>1, DiscosIOAssumption DEF UInt
  <2>2. n \in Nat
    <3>1. bytes \in Seq(Nat)
      BY <1>1, <2>1, ReadFinds
    <3> HIDE DEF bytes
    <3>2. QED
      BY <3>1
  <2>3. last' = [ret |-> n, bytes |-> bytes] /\ cursor' = [cursor EXCEPT ![fd] = (@ + n) % UINT_RANGE]
    BY <1>4
  <2> HIDE DEF n, bytes
  <2>4. (cursor[fd] + n) % UINT_RANGE \in UInt
    BY <2>1, <2>2, Wraps
  <2>5. last'.ret = n /\ cursor' \in [Fd -> UInt]
    BY <1>1, <2>3, <2>4
  <2>6. TypeOK'
    BY <1>1, <1>2, <2>2, <2>5, TypeOKNext
  <2>7. QED
    BY <1>2, <2>6, FileStays
<1>5. QED
  BY <1>3, <1>4 DEF rd_read

(* And so does every step of DiscosRead: each is a call, or leaves the     *)
(* file.                                                                   *)
LEMMA FileNext ==
  ASSUME FileInv, [ReadNext]_io_vars
  PROVE  FileInv'
<1>1. CASE UNCHANGED vars
  <2>1. TypeOK'
    BY <1>1, TypeOKIs, TypeOKNext DEF FileInv, vars
  <2>2. QED
    BY <1>1, <2>1, FileStays DEF vars
<1>2. ASSUME NEW fd \in Fd, call(fd) PROVE FileInv'
  <2>1. CASE \E num_bytes \in Counts : read_begin(fd, num_bytes)
    BY <2>1, ReadKeeps DEF read_begin
  <2>2. CASE \E data \in Data : rd_write(fd, data)
    BY <2>2, WriteKeeps
  <2>3. CASE \E offset \in Offsets : rd_lseek(fd, offset)
    BY <2>3, SeekKeeps
  <2>4. QED
    BY <1>2, <2>1, <2>2, <2>3 DEF call
<1>3. ASSUME NEW fd \in Fd, copy_to_user(fd) PROVE FileInv'
  BY <1>1, <1>3 DEF copy_to_user
<1>4. ASSUME NEW fd \in Fd, read_end(fd) PROVE FileInv'
  BY <1>1, <1>4 DEF read_end
<1>5. QED
  BY <1>1, <1>2, <1>3, <1>4 DEF ReadNext, io_vars

(* The inductive invariant holds, in every range and order of the writes.  *)
THEOREM FileSound == ReadSpec => []FileInv
<1>1. ReadInit => FileInv
  BY FileInitially DEF ReadInit
<1>2. FileInv /\ [ReadNext]_io_vars => FileInv'
  BY FileNext
<1>3. QED
  BY <1>1, <1>2, PTL DEF ReadSpec

(* Sizes, pointers, cursors and contents stay in their types, whatever     *)
(* wraps around.                                                           *)
THEOREM TypeCorrect == ReadSpec => []TypeOK
<1>1. FileInv => TypeOK
  BY DEF FileInv
<1>2. QED
  BY <1>1, FileSound, PTL

(* rd_write attaches each block in one place and marks it: no two pointers *)
(* of the file lead to one block, however incompletely its ranges were     *)
(* written.                                                                *)
THEOREM BlocksInOnePlace == ReadSpec => []OneBlockOnePlace
<1>1. FileInv => OneBlockOnePlace
  BY DEF FileInv
<1>2. QED
  BY <1>1, FileSound, PTL

-----------------------------------------------------------------------------
(* The places in order                                                     *)

(* Block n of the file, and its offset j.                                  *)
LEMMA BlockAndOffset ==
  ASSUME NEW b \in Nat \ {0}, NEW n \in Nat, NEW j \in 0 .. b - 1, NEW x, x = n * b + j
  PROVE  x \in Nat /\ x \div b = n /\ x % b = j
<1>1. n * b \in Nat /\ j \in Nat /\ j < b
  OBVIOUS
<1>2. x \in Nat
  BY <1>1
<1> DEFINE q == x \div b
           r == x % b
<1>3. x = b * q + r /\ q \in Int /\ r \in 0 .. b - 1
  BY <1>2
<1> HIDE DEF q, r
<1>4. b * q + r = b * n + j
  BY <1>3
<1>5. ASSUME q <= n - 1 PROVE FALSE
  <2>1. b * q <= b * (n - 1)
    BY <1>3, <1>5, Z3
  <2>2. b * (n - 1) = b * n - b
    OBVIOUS
  <2>3. b * q \in Int /\ b * n \in Int
    BY <1>3
  <2>4. QED
    BY <1>1, <1>3, <1>4, <2>1, <2>2, <2>3
<1>6. ASSUME n <= q - 1 PROVE FALSE
  <2>1. b * n <= b * (q - 1)
    BY <1>3, <1>6, Z3
  <2>2. b * (q - 1) = b * q - b
    BY <1>3
  <2>3. b * q \in Int /\ b * n \in Int
    BY <1>3
  <2>4. QED
    BY <1>1, <1>3, <1>4, <2>1, <2>2, <2>3
<1>7. q = n
  BY <1>3, <1>5, <1>6
<1>8. r = j
  <2>1. b * q = b * n /\ b * n \in Int
    BY <1>7
  <2>2. QED
    BY <1>1, <1>3, <1>4, <2>1
<1>9. QED
  BY <1>2, <1>7, <1>8 DEF q, r

(* Each number is the offset of one block.                                 *)
LEMMA Divided ==
  ASSUME NEW b \in Nat \ {0}, NEW x \in Nat
  PROVE  x \div b \in Nat /\ x % b \in 0 .. b - 1 /\ x = (x \div b) * b + (x % b)
<1> DEFINE q == x \div b
           r == x % b
<1>1. x = b * q + r /\ q \in Int /\ r \in 0 .. b - 1
  OBVIOUS
<1> HIDE DEF q, r
<1>2. q >= 0
  <2>1. ASSUME q <= -1 PROVE FALSE
    <3>1. b * q <= b * (-1)
      BY <1>1, <2>1, Z3
    <3>2. b * q \in Int
      BY <1>1
    <3>3. QED
      BY <1>1, <3>1, <3>2
  <2>2. QED
    BY <1>1, <2>1
<1>3. b * q = q * b
  BY <1>1
<1>4. QED
  BY <1>1, <1>2, <1>3 DEF q, r

(* The blocks of one file do not overlap.                                  *)
LEMMA BlocksApart ==
  ASSUME NEW b \in Nat, NEW m \in Nat, NEW n \in Nat, m < n
  PROVE  m * b + b <= n * b
<1>1. (m + 1) * b <= n * b
  BY Z3
<1>2. (m + 1) * b = m * b + b
  OBVIOUS
<1>3. QED
  BY <1>1, <1>2

(* The place of block n.                                                   *)
PlaceNo(n) ==
  IF n < SINGLE_START THEN <<n>>
  ELSE IF n < DOUBLE_START THEN <<SINGLE, n - SINGLE_START>>
  ELSE <<DOUBLE, (n - DOUBLE_START) \div PTRS_PER_BLOCK, (n - DOUBLE_START) % PTRS_PER_BLOCK>>

(* Where the ranges end.                                                   *)
LEMMA RangeEnds ==
  /\ SINGLE_START \in Nat \ {0} /\ DOUBLE_START \in Nat /\ MAX_BLOCKS \in Nat
  /\ PTRS_PER_BLOCK \in Nat \ {0} /\ PtrIdx = 0 .. PTRS_PER_BLOCK - 1 /\ SINGLE = SINGLE_START
  /\ DOUBLE_START = SINGLE_START + PTRS_PER_BLOCK
  /\ MAX_BLOCKS = DOUBLE_START + PTRS_PER_BLOCK * PTRS_PER_BLOCK
  /\ PTRS_PER_BLOCK * PTRS_PER_BLOCK \in Nat \ {0}
<1>1. INODE_NUM_DIRECT_PTR \in Nat \ {0} /\ PTRS_PER_BLOCK \in Nat \ {0}
  BY DiscosIOAssumption
<1>2. PTRS_PER_BLOCK * PTRS_PER_BLOCK \in Nat \ {0}
  BY <1>1, Z3
<1>3. QED
  BY <1>1, <1>2 DEF SINGLE_START, DOUBLE_START, MAX_BLOCKS, PtrIdx, SINGLE

(* Block n of the third range.                                             *)
LEMMA InThird ==
  ASSUME NEW x \in Nat, x < PTRS_PER_BLOCK * PTRS_PER_BLOCK
  PROVE  /\ x \div PTRS_PER_BLOCK \in PtrIdx /\ x % PTRS_PER_BLOCK \in PtrIdx
         /\ x = (x \div PTRS_PER_BLOCK) * PTRS_PER_BLOCK + (x % PTRS_PER_BLOCK)
<1> DEFINE P == PTRS_PER_BLOCK
           q == x \div P
           r == x % P
<1>1. P \in Nat \ {0} /\ PtrIdx = 0 .. P - 1
  BY RangeEnds
<1>2. q \in Nat /\ r \in 0 .. P - 1 /\ x = q * P + r
  BY <1>1, Divided
<1>3. x < P * P
  OBVIOUS
<1> HIDE DEF P, q, r
<1>4. ASSUME P <= q PROVE FALSE
  <2>1. P * P <= q * P
    BY <1>1, <1>2, <1>4, Z3
  <2>2. q * P \in Nat /\ P * P \in Nat
    BY <1>1, <1>2
  <2>3. QED
    BY <1>2, <1>3, <2>1, <2>2
<1>5. q \in PtrIdx
  BY <1>1, <1>2, <1>4
<1>6. QED
  BY <1>1, <1>2, <1>5 DEF P, q, r

(* It is one, ...                                                          *)
LEMMA PlaceNoIs ==
  ASSUME NEW n \in Nat, n < MAX_BLOCKS
  PROVE  IsPlace(PlaceNo(n))
<1>1. CASE n < SINGLE_START
  <2>1. n \in InodeIdx /\ n < SINGLE
    BY <1>1, RangeEnds DEF InodeIdx, SINGLE, DOUBLE, SINGLE_START
  <2>2. QED
    BY <1>1, <2>1 DEF PlaceNo, IsPlace, Direct
<1>2. CASE ~(n < SINGLE_START) /\ n < DOUBLE_START
  <2>1. n - SINGLE_START \in PtrIdx
    BY <1>2, RangeEnds
  <2>2. QED
    BY <1>2, <2>1 DEF PlaceNo, IsPlace, Single
<1>3. CASE ~(n < SINGLE_START) /\ ~(n < DOUBLE_START)
  <2> DEFINE x == n - DOUBLE_START
  <2>1. x \in Nat /\ x < PTRS_PER_BLOCK * PTRS_PER_BLOCK
    BY <1>3, RangeEnds
  <2>2. PlaceNo(n) = <<DOUBLE, x \div PTRS_PER_BLOCK, x % PTRS_PER_BLOCK>>
    BY <1>3 DEF PlaceNo
  <2> HIDE DEF x
  <2>3. x \div PTRS_PER_BLOCK \in PtrIdx /\ x % PTRS_PER_BLOCK \in PtrIdx
    BY <2>1, InThird
  <2>4. QED
    BY <2>2, <2>3 DEF IsPlace, Double
<1>4. QED
  BY <1>1, <1>2, <1>3

(* ... and no other block is there.                                        *)
LEMMA PlaceNoOnce ==
  ASSUME NEW m \in Nat, NEW n \in Nat, m < MAX_BLOCKS, n < MAX_BLOCKS, PlaceNo(m) = PlaceNo(n)
  PROVE  m = n
<1> DEFINE P == PTRS_PER_BLOCK
           x == m - DOUBLE_START
           y == n - DOUBLE_START
<1>1. /\ \A i, j, k : <<i>> # <<j, k>>
      /\ \A i, j, k, l : <<i>> # <<j, k, l>>
      /\ \A h, i, j, k, l : <<h, i>> # <<j, k, l>>
      /\ \A i, j, k : <<i, j>> = <<i, k>> => j = k
      /\ \A i, j, k, l, h : <<i, j, k>> = <<i, l, h>> => j = l /\ k = h
  OBVIOUS
<1>2. CASE m < SINGLE_START
  BY <1>1, <1>2 DEF PlaceNo
<1>3. CASE ~(m < SINGLE_START) /\ m < DOUBLE_START
  <2>1. PlaceNo(m) = <<SINGLE, m - SINGLE_START>>
    BY <1>3 DEF PlaceNo
  <2>2. ~(n < SINGLE_START) /\ n < DOUBLE_START
    BY <1>1, <2>1 DEF PlaceNo
  <2>3. PlaceNo(n) = <<SINGLE, n - SINGLE_START>>
    BY <2>2 DEF PlaceNo
  <2>4. m - SINGLE_START = n - SINGLE_START
    BY <1>1, <2>1, <2>3
  <2>5. QED
    BY <2>4, RangeEnds
<1>4. CASE ~(m < SINGLE_START) /\ ~(m < DOUBLE_START)
  <2>1. PlaceNo(m) = <<DOUBLE, x \div P, x % P>>
    BY <1>4 DEF PlaceNo
  <2>2. ~(n < SINGLE_START) /\ ~(n < DOUBLE_START)
    BY <1>1, <2>1 DEF PlaceNo
  <2>3. PlaceNo(n) = <<DOUBLE, y \div P, y % P>>
    BY <2>2 DEF PlaceNo
  <2>4. x \div P = y \div P /\ x % P = y % P
    <3> DEFINE i == x \div P
               j == x % P
               k == y \div P
               l == y % P
    <3>1. <<DOUBLE, i, j>> = <<DOUBLE, k, l>>
      BY <2>1, <2>3
    <3> HIDE DEF i, j, k, l
    <3>2. i = k /\ j = l
      BY <1>1, <3>1
    <3>3. QED
      BY <3>2 DEF i, j, k, l
  <2>5. x \in Nat /\ y \in Nat /\ x < P * P /\ y < P * P
    BY <1>4, <2>2, RangeEnds
  <2> HIDE DEF x, y
  <2>6. x = (x \div P) * P + (x % P) /\ y = (y \div P) * P + (y % P)
    BY <2>5, InThird
  <2>7. x = y
    BY <2>4, <2>6
  <2>8. QED
    BY <2>7, RangeEnds DEF x, y
<1>5. QED
  BY <1>2, <1>3, <1>4

(* u is the sequence s and then t.                                         *)
Joins(S, s, t, u) ==
  /\ u \in Seq(S) /\ Len(u) = Len(s) + Len(t)
  /\ Len(s) \in Nat /\ Len(t) \in Nat
  /\ \A i \in 1 .. Len(s) : u[i] = s[i]
  /\ \A i \in 1 .. Len(t) : u[Len(s) + i] = t[i]

(* That is what \o does.                                                   *)
LEMMA JoinIs ==
  ASSUME NEW S, NEW s \in Seq(S), NEW t \in Seq(S), NEW u, u = s \o t
  PROVE  Joins(S, s, t, u)
<1> DEFINE n == Len(s)
           m == Len(t)
<1>1. n \in Nat /\ m \in Nat
  OBVIOUS
<1>2. u \in Seq(S) /\ Len(u) = n + m
  OBVIOUS
<1>3. \A i \in 1 .. n + m : u[i] = IF i <= n THEN s[i] ELSE t[i - n]
  OBVIOUS
<1> HIDE DEF n, m
<1>4. \A i \in 1 .. n : i \in 1 .. n + m /\ i <= n
  BY <1>1
<1>5. \A i \in 1 .. m : n + i \in 1 .. n + m /\ ~(n + i <= n) /\ (n + i) - n = i
  BY <1>1
<1>6. QED
  BY <1>1, <1>2, <1>3, <1>4, <1>5 DEF n, m, Joins

(* Sequences of as many elements, with the same ones, are the same.        *)
LEMMA SameSeq ==
  ASSUME NEW S, NEW s \in Seq(S), NEW t \in Seq(S), Len(s) = Len(t),
         \A i \in 1 .. Len(s) : s[i] = t[i]
  PROVE  s = t
<1>1. s = [i \in 1 .. Len(s) |-> s[i]]
  OBVIOUS
<1>2. t = [i \in 1 .. Len(t) |-> t[i]]
  OBVIOUS
<1>3. QED
  BY <1>1, <1>2

(* A function on 1 .. n is a sequence.                                     *)
LEMMA ListIs ==
  ASSUME NEW S, NEW n \in Nat, NEW s \in [1 .. n -> S]
  PROVE  s \in Seq(S) /\ Len(s) = n
OBVIOUS

(* The blocks of the third range, as far as it goes with i index blocks.   *)
ThirdTo(i) ==
  [m \in 1 .. i * PTRS_PER_BLOCK |->
     <<DOUBLE, (m - 1) \div PTRS_PER_BLOCK, (m - 1) % PTRS_PER_BLOCK>>]

(* One index block after the other.                                        *)
LEMMA ThirdIs ==
  FlattenSeq([i \in 1 .. PTRS_PER_BLOCK |->
                [j \in 1 .. PTRS_PER_BLOCK |-> <<DOUBLE, i - 1, j - 1>>]])
    = ThirdTo(PTRS_PER_BLOCK)
<1> DEFINE P == PTRS_PER_BLOCK
           S == {DOUBLE} \X Nat \X Nat
           row(i) == [j \in 1 .. P |-> <<DOUBLE, i - 1, j - 1>>]
           rows == [i \in 1 .. P |-> row(i)]
           Inv == [i \in 1 .. P |-> {ThirdTo(i)}]
<1>1. P \in Nat \ {0}
  BY RangeEnds
<1>2. ASSUME NEW i \in Nat
      PROVE  /\ i * P \in Nat
             /\ ThirdTo(i) \in Seq(S) /\ Len(ThirdTo(i)) = i * P
             /\ \A m \in 1 .. i * P : ThirdTo(i)[m] = <<DOUBLE, (m - 1) \div P, (m - 1) % P>>
  <2> DEFINE n == i * P
             t == ThirdTo(i)
  <2>1. n \in Nat
    BY <1>1
  <2>2. t = [m \in 1 .. n |-> <<DOUBLE, (m - 1) \div P, (m - 1) % P>>]
    BY DEF ThirdTo
  <2> HIDE DEF n, t
  <2>3. ASSUME NEW m \in 1 .. n PROVE <<DOUBLE, (m - 1) \div P, (m - 1) % P>> \in S
    <3> DEFINE x == m - 1
               q == x \div P
               r == x % P
    <3>1. x \in Nat
      BY <2>1
    <3> HIDE DEF x
    <3>2. q \in Nat /\ r \in 0 .. P - 1
      BY <1>1, <3>1, Divided
    <3>3. r \in Nat
      BY <1>1, <3>2
    <3> HIDE DEF q, r
    <3>4. <<DOUBLE, q, r>> \in S
      BY <3>2, <3>3
    <3>5. QED
      BY <3>4 DEF q, r, x
  <2> HIDE DEF S
  <2>4. t \in [1 .. n -> S]
    BY <2>2, <2>3
  <2>5. t \in Seq(S) /\ Len(t) = n
    BY <2>1, <2>4, ListIs
  <2>6. QED
    BY <2>1, <2>2, <2>5 DEF n, t
<1>3. ASSUME NEW i \in 1 .. P
      PROVE  row(i) \in Seq(S) /\ Len(row(i)) = P
             /\ \A j \in 1 .. P : row(i)[j] = <<DOUBLE, i - 1, j - 1>>
  <2> DEFINE r == row(i)
  <2>1. \A j \in 1 .. P : <<DOUBLE, i - 1, j - 1>> \in S
    BY <1>1
  <2> HIDE DEF S
  <2>2. r \in [1 .. P -> S] /\ \A j \in 1 .. P : r[j] = <<DOUBLE, i - 1, j - 1>>
    BY <2>1
  <2> HIDE DEF r
  <2>3. r \in Seq(S) /\ Len(r) = P
    BY <1>1, <2>2, ListIs
  <2>4. QED
    BY <2>2, <2>3 DEF r
<1>4. Len(rows) = P /\ \A i \in 1 .. P : rows[i] = row(i)
  BY <1>1
<1>5. \A i \in 1 .. P : Inv[i] = {ThirdTo(i)}
  OBVIOUS
<1> HIDE DEF rows, Inv, S
<1>6. rows[1] \in Inv[1]
  <2> DEFINE r == row(1)
             t == ThirdTo(1)
  <2>1. 1 \in 1 .. P /\ 1 * P = P /\ 1 \in Nat
    BY <1>1
  <2>2. /\ r \in Seq(S) /\ t \in Seq(S) /\ Len(r) = P /\ Len(t) = P
        /\ \A j \in 1 .. P : r[j] = <<DOUBLE, 0, j - 1>>
        /\ \A m \in 1 .. P : t[m] = <<DOUBLE, (m - 1) \div P, (m - 1) % P>>
    <3>1. 1 - 1 = 0
      OBVIOUS
    <3>2. r \in Seq(S) /\ Len(r) = P /\ \A j \in 1 .. P : r[j] = <<DOUBLE, 1 - 1, j - 1>>
      <4> HIDE DEF P, row
      <4>1. QED
        BY <1>3, <2>1
    <3>3. /\ t \in Seq(S) /\ Len(t) = 1 * P
          /\ \A m \in 1 .. 1 * P : t[m] = <<DOUBLE, (m - 1) \div P, (m - 1) % P>>
      <4> HIDE DEF P
      <4>1. QED
        BY <1>2, <2>1
    <3> HIDE DEF r, t, P
    <3>4. QED
      BY <2>1, <3>1, <3>2, <3>3
  <2>3. ASSUME NEW m \in 1 .. P PROVE (m - 1) \div P = 0 /\ (m - 1) % P = m - 1
    <3> DEFINE x == m - 1
    <3>1. x \in 0 .. P - 1 /\ x = 0 * P + x /\ 0 \in Nat
      BY <1>1
    <3> HIDE DEF P, x
    <3>2. x \div P = 0 /\ x % P = x
      BY <1>1, <3>1, BlockAndOffset
    <3>3. QED
      BY <3>2 DEF x
  <2> HIDE DEF r, t
  <2>4. r = t
    BY <2>2, <2>3, SameSeq
  <2>5. QED
    BY <1>4, <1>5, <2>1, <2>4 DEF r, t
<1> HIDE DEF P, row
<1>7. ASSUME NEW i \in 2 .. P, NEW v \in Inv[i - 1] PROVE v \o rows[i] \in Inv[i]
  <2> DEFINE k == i - 1
             r == row(i)
             t == ThirdTo(i)
             u == v \o r
             n == k * P
  <2>1. i \in 1 .. P /\ k \in 1 .. P /\ k \in Nat /\ i \in Nat /\ i * P = n + P
    BY <1>1
  <2>2. v = ThirdTo(k)
    BY <1>5, <2>1
  <2>3. /\ n \in Nat /\ v \in Seq(S) /\ Len(v) = n
        /\ \A m \in 1 .. n : v[m] = <<DOUBLE, (m - 1) \div P, (m - 1) % P>>
    BY <1>2, <2>1, <2>2
  <2>4. /\ r \in Seq(S) /\ Len(r) = P
        /\ \A j \in 1 .. P : r[j] = <<DOUBLE, k, j - 1>>
    BY <1>3, <2>1
  <2>5. /\ t \in Seq(S) /\ Len(t) = n + P
        /\ \A m \in 1 .. n + P : t[m] = <<DOUBLE, (m - 1) \div P, (m - 1) % P>>
    BY <1>2, <2>1
  <2>0. \A j \in 1 .. P : (n + j - 1) \div P = k /\ (n + j - 1) % P = j - 1
    <3>1. ASSUME NEW j \in 1 .. P PROVE (n + j - 1) \div P = k /\ (n + j - 1) % P = j - 1
      <4> DEFINE x == n + j - 1
                 y == j - 1
      <4>1. y \in 0 .. P - 1 /\ x = k * P + y
        BY <1>1, <2>3
      <4> HIDE DEF x, y, n, k
      <4>2. x \div P = k /\ x % P = y
        BY <1>1, <2>1, <4>1, BlockAndOffset
      <4>3. QED
        BY <4>2 DEF x, y
    <3>2. QED
      BY <3>1
  <2> HIDE DEF r, t, u, k, n
  <2>6. /\ u \in Seq(S) /\ Len(u) = n + P
        /\ \A m \in 1 .. n : u[m] = v[m]
        /\ \A j \in 1 .. P : u[n + j] = r[j]
    <3>1. u = v \o r
      BY DEF u
    <3>2. Joins(S, v, r, u)
      BY <2>3, <2>4, <3>1, JoinIs
    <3>3. QED
      BY <2>3, <2>4, <3>2 DEF Joins
  <2>7. ASSUME NEW m \in 1 .. n + P PROVE u[m] = t[m]
    <3>1. CASE m <= n
      <4>1. m \in 1 .. n
        BY <2>3, <3>1
      <4>2. u[m] = <<DOUBLE, (m - 1) \div P, (m - 1) % P>>
        BY <2>3, <2>6, <4>1
      <4>3. t[m] = <<DOUBLE, (m - 1) \div P, (m - 1) % P>>
        BY <2>5
      <4>4. QED
        BY <4>2, <4>3
    <3>2. CASE ~(m <= n)
      <4> DEFINE j == m - n
      <4>1. j \in 1 .. P /\ m = n + j
        BY <1>1, <2>3, <3>2
      <4> HIDE DEF j
      <4>2. u[n + j] = <<DOUBLE, k, j - 1>>
        BY <2>4, <2>6, <4>1
      <4>3. t[m] = <<DOUBLE, (m - 1) \div P, (m - 1) % P>>
        BY <2>5
      <4>4. m - 1 = n + j - 1
        BY <2>3, <4>1
      <4>5. (m - 1) \div P = k /\ (m - 1) % P = j - 1
        BY <2>0, <4>1, <4>4
      <4>6. QED
        BY <4>1, <4>2, <4>3, <4>5
    <3>3. QED
      BY <3>1, <3>2
  <2>8. u = t
    BY <2>5, <2>6, <2>7, SameSeq
  <2>9. QED
    BY <1>4, <1>5, <2>1, <2>8 DEF u, t, r
<1>8. FlattenSeq(rows) \in Inv[P]
  BY <1>1, <1>4, <1>6, <1>7, Joined
<1>9. P \in 1 .. P
  BY <1>1
<1>10. FlattenSeq(rows) = ThirdTo(P)
  BY <1>5, <1>8, <1>9
<1>11. QED
  BY <1>10 DEF rows, row, P

(* Reading from the start comes to the blocks in order.                    *)
LEMMA AllPlacesAre ==
  Len(AllPlaces) = MAX_BLOCKS /\ \A k \in 1 .. MAX_BLOCKS : AllPlaces[k] = PlaceNo(k - 1)
<1> DEFINE N == SINGLE_START
           P == PTRS_PER_BLOCK
           Q == P * P
           U == {<<i>> : i \in Nat} \cup ({SINGLE} \X Nat) \cup ({DOUBLE} \X Nat \X Nat)
           a == DirectPlaces(0)
           b == SinglePlaces(SINGLE_START)
           c == ThirdTo(P)
           ab == a \o b
           abc == ab \o c
<1>1. /\ N \in Nat /\ P \in Nat \ {0} /\ Q \in Nat /\ DOUBLE_START = N + P
      /\ MAX_BLOCKS = N + P + Q /\ SINGLE = N /\ INODE_NUM_DIRECT_PTR = N
  BY RangeEnds DEF SINGLE_START
<1>2. a \in Seq(U) /\ Len(a) = N /\ \A k \in 1 .. N : a[k] = <<k - 1>>
  <2>1. \A k \in 1 .. N : 0 + k - 1 \in Nat /\ 0 + k - 1 = k - 1
    BY <1>1
  <2>2. a = [k \in 1 .. N |-> <<0 + k - 1>>]
    BY <1>1 DEF DirectPlaces
  <2>3. \A k \in 1 .. N : <<k - 1>> \in U
    BY <2>1
  <2> HIDE DEF a, U
  <2>4. a \in [1 .. N -> U]
    BY <2>1, <2>2, <2>3
  <2>5. a \in Seq(U) /\ Len(a) = N
    BY <1>1, <2>4, ListIs
  <2>6. QED
    BY <2>1, <2>2, <2>5
<1>3. b \in Seq(U) /\ Len(b) = P /\ \A k \in 1 .. P : b[k] = <<SINGLE, k - 1>>
  <2>1. \A k \in 1 .. P : SINGLE_START - SINGLE_START + k - 1 = k - 1 /\ k - 1 \in Nat
    BY <1>1
  <2>2. DOUBLE_START - SINGLE_START = P
    BY <1>1
  <2>3. b = [k \in 1 .. P |-> <<SINGLE, SINGLE_START - SINGLE_START + k - 1>>]
    BY <2>2 DEF SinglePlaces
  <2>4. \A k \in 1 .. P : <<SINGLE, k - 1>> \in U
    BY <2>1
  <2> HIDE DEF b, U, N, P
  <2>5. b = [k \in 1 .. P |-> <<SINGLE, k - 1>>]
    BY <2>1, <2>3
  <2>6. b \in [1 .. P -> U]
    BY <2>4, <2>5
  <2>7. b \in Seq(U) /\ Len(b) = P
    BY <1>1, <2>6, ListIs
  <2>8. QED
    BY <2>5, <2>7
<1>4. /\ c \in Seq(U) /\ Len(c) = Q
      /\ \A k \in 1 .. Q : c[k] = <<DOUBLE, (k - 1) \div P, (k - 1) % P>>
  <2>1. c = [k \in 1 .. Q |-> <<DOUBLE, (k - 1) \div P, (k - 1) % P>>]
    BY DEF ThirdTo
  <2>2. ASSUME NEW k \in 1 .. Q PROVE <<DOUBLE, (k - 1) \div P, (k - 1) % P>> \in U
    <3> DEFINE x == k - 1
               q == x \div P
               r == x % P
    <3>1. x \in Nat
      BY <1>1
    <3> HIDE DEF x, P
    <3>2. q \in Nat /\ r \in 0 .. P - 1
      BY <1>1, <3>1, Divided
    <3>3. r \in Nat
      BY <1>1, <3>2
    <3> HIDE DEF q, r
    <3>4. <<DOUBLE, q, r>> \in U
      BY <3>2, <3>3
    <3>5. QED
      BY <3>4 DEF q, r, x
  <2> HIDE DEF c, U, P, Q
  <2>3. c \in [1 .. Q -> U]
    BY <2>1, <2>2
  <2>4. c \in Seq(U) /\ Len(c) = Q
    BY <1>1, <2>3, ListIs
  <2>5. QED
    BY <2>1, <2>4
<1>5. AllPlaces = abc
  BY ThirdIs DEF AllPlaces
<1> HIDE DEF a, b, c, ab, abc, U, N, P, Q
<1>6. /\ ab \in Seq(U) /\ Len(ab) = N + P
      /\ \A k \in 1 .. N : ab[k] = a[k]
      /\ \A k \in 1 .. P : ab[N + k] = b[k]
  <2>1. Joins(U, a, b, ab)
    BY <1>2, <1>3, JoinIs DEF ab
  <2>2. QED
    BY <1>2, <1>3, <2>1 DEF Joins
<1>7. /\ Len(abc) = N + P + Q
      /\ \A k \in 1 .. N + P : abc[k] = ab[k]
      /\ \A k \in 1 .. Q : abc[N + P + k] = c[k]
  <2>1. Joins(U, ab, c, abc)
    BY <1>4, <1>6, JoinIs DEF abc
  <2>2. QED
    BY <1>4, <1>6, <2>1 DEF Joins
<1>8. ASSUME NEW k \in 1 .. N + P + Q PROVE abc[k] = PlaceNo(k - 1)
  <2>1. CASE k <= N
    <3>1. k \in 1 .. N /\ k \in 1 .. N + P /\ k - 1 < SINGLE_START
      BY <1>1, <2>1 DEF N
    <3>2. abc[k] = <<k - 1>>
      BY <1>2, <1>6, <1>7, <3>1
    <3>3. QED
      BY <3>1, <3>2 DEF PlaceNo
  <2>2. CASE ~(k <= N) /\ k <= N + P
    <3> DEFINE j == k - N
    <3>1. /\ j \in 1 .. P /\ k = N + j /\ k \in 1 .. N + P
          /\ ~(k - 1 < SINGLE_START) /\ k - 1 < DOUBLE_START /\ (k - 1) - SINGLE_START = j - 1
      BY <1>1, <2>2 DEF N
    <3> HIDE DEF j
    <3>2. abc[k] = <<SINGLE, j - 1>>
      BY <1>3, <1>6, <1>7, <3>1
    <3>3. QED
      BY <3>1, <3>2 DEF PlaceNo
  <2>3. CASE ~(k <= N + P)
    <3> DEFINE j == k - (N + P)
    <3>1. /\ j \in 1 .. Q /\ k = N + P + j
          /\ ~(k - 1 < SINGLE_START) /\ ~(k - 1 < DOUBLE_START) /\ (k - 1) - DOUBLE_START = j - 1
      BY <1>1, <2>3 DEF N
    <3> HIDE DEF j
    <3>2. abc[k] = <<DOUBLE, (j - 1) \div P, (j - 1) % P>>
      BY <1>4, <1>7, <3>1
    <3>3. PlaceNo(k - 1) = <<DOUBLE, (j - 1) \div P, (j - 1) % P>>
      BY <3>1 DEF PlaceNo, P
    <3>4. QED
      BY <3>2, <3>3
  <2>4. QED
    BY <2>1, <2>2, <2>3
<1>9. QED
  BY <1>1, <1>5, <1>7, <1>8

(* So it comes to each place once.                                         *)
LEMMA AllPlacesOnce ==
  /\ Len(AllPlaces) \in Nat \ {0}
  /\ \A i \in 1 .. Len(AllPlaces) : IsPlace(AllPlaces[i])
  /\ \A i, j \in 1 .. Len(AllPlaces) : AllPlaces[i] = AllPlaces[j] => i = j
<1>1. MAX_BLOCKS \in Nat \ {0}
  BY RangeEnds
<1>2. ASSUME NEW i \in 1 .. MAX_BLOCKS
      PROVE  i - 1 \in Nat /\ i - 1 < MAX_BLOCKS /\ AllPlaces[i] = PlaceNo(i - 1)
  BY <1>1, AllPlacesAre
<1>3. ASSUME NEW i \in 1 .. MAX_BLOCKS, NEW j \in 1 .. MAX_BLOCKS, AllPlaces[i] = AllPlaces[j]
      PROVE  i = j
  <2> DEFINE m == i - 1
             n == j - 1
  <2>1. m \in Nat /\ n \in Nat /\ m < MAX_BLOCKS /\ n < MAX_BLOCKS /\ PlaceNo(m) = PlaceNo(n)
    BY <1>2, <1>3
  <2> HIDE DEF m, n
  <2>2. m = n
    BY <2>1, PlaceNoOnce
  <2>3. QED
    BY <1>1, <2>2 DEF m, n
<1>4. ASSUME NEW i \in 1 .. MAX_BLOCKS PROVE IsPlace(AllPlaces[i])
  <2> DEFINE m == i - 1
  <2>1. m \in Nat /\ m < MAX_BLOCKS /\ AllPlaces[i] = PlaceNo(m)
    BY <1>2
  <2> HIDE DEF m
  <2>2. QED
    BY <2>1, PlaceNoIs
<1>5. QED
  BY <1>1, <1>3, <1>4, AllPlacesAre

(* Where a range ends.                                                     *)
RangeEnd(range) ==
  CASE range = 1 -> SINGLE_START
    [] range = 2 -> DOUBLE_START
    [] range = 3 -> MAX_BLOCKS

(* From the start of the third range on, all its index blocks are begun at *)
(* slot 0, ...                                                             *)
LEMMA ThirdPlaces == DoublePlaces(DOUBLE_START) = ThirdTo(PTRS_PER_BLOCK)
<1> DEFINE P == PTRS_PER_BLOCK
           F(first) == first = [i \in 0 .. P - 1 |->
                         (IF i = 0 THEN DOUBLE_START - DOUBLE_START ELSE first[i - 1]) \div P]
           first == CHOOSE first : F(first)
           under(i) == [k \in 1 .. P - first[i] |-> <<DOUBLE, i, first[i] + k - 1>>]
<1>1. P \in Nat \ {0} /\ PtrIdx = 0 .. P - 1 /\ DOUBLE_START - DOUBLE_START = 0
  BY RangeEnds
<1>2. F(first)
  <2>1. \E f : F(f)
    BY FirstsExist
  <2> HIDE DEF F
  <2>2. QED
    BY <2>1
<1>3. DoublePlaces(DOUBLE_START) = FlattenSeq([i \in 1 .. P |-> under(i - 1)])
  BY DEF DoublePlaces
<1> HIDE DEF first
<1>4. 0 \div P = 0
  <2>1. 0 = 0 * P + 0 /\ 0 \in 0 .. P - 1 /\ 0 \in Nat
    BY <1>1
  <2> HIDE DEF P
  <2>2. QED
    BY <1>1, <2>1, BlockAndOffset
<1>5. \A i \in 0 .. P - 1 : first[i] = 0
  <2> DEFINE Bad == {i \in Nat : i \in 0 .. P - 1 /\ first[i] # 0}
  <2>1. SUFFICES ASSUME Bad # {} PROVE FALSE
    BY <1>1
  <2>2. PICK i \in Bad : \A x \in Bad : i <= x
    <3>1. Bad \subseteq Nat
      OBVIOUS
    <3> HIDE DEF Bad
    <3>2. QED
      BY <2>1, <3>1, MinExists
  <2>3. i \in 0 .. P - 1 /\ first[i] # 0
    BY <2>2
  <2>4. first[i] = (IF i = 0 THEN 0 ELSE first[i - 1]) \div P
    BY <1>1, <1>2, <2>3
  <2>5. i # 0
    BY <1>4, <2>3, <2>4
  <2>6. i - 1 \in Nat /\ i - 1 \in 0 .. P - 1 /\ ~(i <= i - 1)
    BY <1>1, <2>2, <2>5
  <2>7. first[i - 1] = 0
    BY <2>2, <2>6
  <2>8. QED
    BY <1>4, <2>3, <2>4, <2>5, <2>7
<1> HIDE DEF F
<1>6. ASSUME NEW i \in 1 .. P PROVE under(i - 1) = [j \in 1 .. P |-> <<DOUBLE, i - 1, j - 1>>]
  <2>1. i - 1 \in 0 .. P - 1
    BY <1>1
  <2>2. first[i - 1] = 0 /\ P - 0 = P /\ \A k \in 1 .. P : 0 + k - 1 = k - 1
    BY <1>1, <1>5, <2>1
  <2> HIDE DEF P
  <2>3. QED
    BY <2>2
<1> HIDE DEF under
<1>7. [i \in 1 .. P |-> under(i - 1)] = [i \in 1 .. P |-> [j \in 1 .. P |-> <<DOUBLE, i - 1, j - 1>>]]
  BY <1>6
<1>8. QED
  BY <1>3, <1>7, ThirdIs

(* ... and so the loop over a range comes to its blocks in order, too.     *)
LEMMA RangeFrom ==
  ASSUME NEW range \in {1, 2, 3}, NEW seg \in Nat, InRange(seg, range),
         range = 3 => seg = DOUBLE_START
  PROVE  /\ RangeEnd(range) \in Nat /\ seg < RangeEnd(range) /\ RangeEnd(range) <= MAX_BLOCKS
         /\ DOMAIN Places(seg, range) = 1 .. RangeEnd(range) - seg
         /\ \A k \in 1 .. RangeEnd(range) - seg : Places(seg, range)[k] = PlaceNo(seg + k - 1)
<1>1. CASE range = 1
  <2>1. seg < SINGLE_START /\ RangeEnd(range) = SINGLE_START
    BY <1>1 DEF InRange, RangeEnd
  <2>2. Places(seg, range) = [k \in 1 .. SINGLE_START - seg |-> <<seg + k - 1>>]
    BY <1>1 DEF Places, DirectPlaces, SINGLE_START
  <2>3. ASSUME NEW k \in 1 .. SINGLE_START - seg PROVE PlaceNo(seg + k - 1) = <<seg + k - 1>>
    <3>1. seg + k - 1 < SINGLE_START
      BY <2>1, RangeEnds
    <3>2. QED
      BY <3>1 DEF PlaceNo
  <2>4. QED
    BY <2>1, <2>2, <2>3, RangeEnds
<1>2. CASE range = 2
  <2>1. seg \in SINGLE_START .. DOUBLE_START - 1 /\ RangeEnd(range) = DOUBLE_START
    BY <1>2 DEF InRange, RangeEnd
  <2>2. Places(seg, range) =
          [k \in 1 .. DOUBLE_START - seg |-> <<SINGLE, seg - SINGLE_START + k - 1>>]
    BY <1>2 DEF Places, SinglePlaces
  <2>3. ASSUME NEW k \in 1 .. DOUBLE_START - seg
        PROVE  PlaceNo(seg + k - 1) = <<SINGLE, seg - SINGLE_START + k - 1>>
    <3> DEFINE n == seg + k - 1
    <3>1. /\ ~(n < SINGLE_START) /\ n < DOUBLE_START
          /\ n - SINGLE_START = seg - SINGLE_START + k - 1
      BY <2>1, RangeEnds
    <3> HIDE DEF n
    <3>2. PlaceNo(n) = <<SINGLE, n - SINGLE_START>>
      BY <3>1 DEF PlaceNo
    <3>3. QED
      BY <3>1, <3>2 DEF n
  <2>4. QED
    BY <2>1, <2>2, <2>3, RangeEnds
<1>3. CASE range = 3
  <2> DEFINE Q == PTRS_PER_BLOCK * PTRS_PER_BLOCK
  <2>1. /\ seg = DOUBLE_START /\ RangeEnd(range) = MAX_BLOCKS /\ RangeEnd(range) - seg = Q
        /\ MAX_BLOCKS = seg + Q /\ Q \in Nat \ {0}
    BY <1>3, RangeEnds DEF RangeEnd
  <2>2. Places(seg, range) = [k \in 1 .. Q |->
          <<DOUBLE, (k - 1) \div PTRS_PER_BLOCK, (k - 1) % PTRS_PER_BLOCK>>]
    BY <1>3, ThirdPlaces DEF Places, ThirdTo
  <2>3. ASSUME NEW k \in 1 .. Q
        PROVE  PlaceNo(seg + k - 1)
                 = <<DOUBLE, (k - 1) \div PTRS_PER_BLOCK, (k - 1) % PTRS_PER_BLOCK>>
    <3> DEFINE n == seg + k - 1
    <3>1. ~(n < SINGLE_START) /\ ~(n < DOUBLE_START) /\ n - DOUBLE_START = k - 1
      BY <2>1, RangeEnds
    <3> HIDE DEF n
    <3>2. PlaceNo(n) = <<DOUBLE, (n - DOUBLE_START) \div PTRS_PER_BLOCK,
                         (n - DOUBLE_START) % PTRS_PER_BLOCK>>
      BY <3>1 DEF PlaceNo
    <3>3. QED
      BY <3>1, <3>2 DEF n
  <2> HIDE DEF Q
  <2>4. QED
    BY <2>1, <2>2, <2>3, RangeEnds
<1>4. QED
  BY <1>1, <1>2, <1>3

(* The cells of a block that hold a byte.                                  *)
Held(f, b) == {j \in Offset : f.data_blocks[b].data[j] # ZERO}

(* No more bytes are read from a block.                                    *)
LEMMA BytesCount ==
  ASSUME NEW f \in Files, NEW b \in BlockNum
  PROVE  /\ Bytes(f, b, 0) \in Seq(Nat)
         /\ IsFiniteSet(Held(f, b)) /\ Cardinality(Held(f, b)) \in Nat
         /\ Len(Bytes(f, b, 0)) <= Cardinality(Held(f, b))
<1> DEFINE n == BLOCK_SIZE - 0
           q == [k \in 1 .. n |-> f.data_blocks[b].data[0 + k - 1]]
           upto(i) == {j \in Held(f, b) : j < i}
           Inv == [i \in 0 .. n |-> {v \in Seq(Nat) : Len(v) <= Cardinality(upto(i))}]
<1>0. BLOCK_SIZE \in Nat \ {0} /\ 0 \in Offset
  BY DiscosIOAssumption DEF Offset
<1>1. PICK g : Passes("select", 0, <<>>, q, n, g) /\ Bytes(f, b, 0) = g[1 .. n]
  BY <1>0, SelectLoop
<1>2. n \in Nat /\ n = BLOCK_SIZE
  BY <1>0
<1>3. ASSUME NEW k \in 1 .. n
      PROVE  q[k] \in Nat /\ k - 1 \in Offset /\ q[k] = f.data_blocks[b].data[k - 1]
  <2>1. 0 + k - 1 = k - 1 /\ k - 1 \in Offset
    BY <1>2 DEF Offset
  <2>2. f.data_blocks[b].data \in [Offset -> Nat]
    BY DEF Files, Block
  <2>3. QED
    BY <2>1, <2>2
<1>4. IsFiniteSet(Held(f, b)) /\ Cardinality(Held(f, b)) \in Nat
  <2>1. IsFiniteSet(Offset)
    <3>1. BLOCK_SIZE - 1 \in Int /\ 0 \in Int
      BY <1>0
    <3>2. QED
      BY <3>1, FS_Interval DEF Offset
  <2>2. QED
    BY <2>1, FS_Subset, FS_CardinalityType DEF Held
<1>5. ASSUME NEW i
      PROVE  IsFiniteSet(upto(i)) /\ Cardinality(upto(i)) \in Nat
  BY <1>4, FS_Subset, FS_CardinalityType
<1>6. \A i \in 0 .. n : Inv[i] = {v \in Seq(Nat) : Len(v) <= Cardinality(upto(i))}
  OBVIOUS
<1>7. upto(n) = Held(f, b)
  <2>1. \A j \in Offset : j < n
    BY <1>2 DEF Offset
  <2>2. QED
    BY <2>1 DEF Held
<1>8. ASSUME NEW i \in 1 .. n
      PROVE  upto(i) = IF q[i] # ZERO THEN upto(i - 1) \cup {i - 1} ELSE upto(i - 1)
  <2>1. \A j \in Offset : j < i <=> j < i - 1 \/ j = i - 1
    BY <1>2 DEF Offset
  <2>2. i - 1 \in Held(f, b) <=> q[i] # ZERO
    BY <1>3 DEF Held
  <2> HIDE DEF q
  <2>3. \A j \in Held(f, b) : j \in Offset
    BY DEF Held
  <2>4. QED
    BY <2>1, <2>2, <2>3
<1>9. \A i \in Nat : i \notin upto(i)
  OBVIOUS
<1> HIDE DEF q, upto, Inv, n
<1>10. <<>> \in Inv[0]
  <2>1. <<>> \in Seq(Nat) /\ Len(<<>>) = 0
    OBVIOUS
  <2>2. 0 \in 0 .. n /\ Cardinality(upto(0)) \in Nat
    BY <1>2, <1>5
  <2> DEFINE e == <<>>
  <2> HIDE DEF e
  <2>3. e \in Seq(Nat) /\ Len(e) <= Cardinality(upto(0))
    BY <2>1, <2>2 DEF e
  <2>4. e \in Inv[0]
    BY <1>6, <2>2, <2>3
  <2>5. QED
    BY <2>4 DEF e
<1>11. ASSUME NEW i \in 1 .. n, NEW v \in Inv[i - 1] PROVE Pass("select", 0, v, q[i]) \in Inv[i]
  <2>1. i \in 0 .. n /\ i - 1 \in 0 .. n /\ i - 1 \in Nat
    BY <1>2
  <2>2. v \in Seq(Nat) /\ Len(v) <= Cardinality(upto(i - 1))
    BY <1>6, <2>1
  <2>3. CASE q[i] # ZERO
    <3> DEFINE u == Append(v, q[i])
    <3>1. u \in Seq(Nat) /\ Len(u) = Len(v) + 1 /\ Len(v) \in Nat
      BY <1>3, <2>2
    <3> HIDE DEF u
    <3>2. Cardinality(upto(i)) = Cardinality(upto(i - 1)) + 1
      <4>1. upto(i) = upto(i - 1) \cup {i - 1} /\ i - 1 \notin upto(i - 1)
        BY <1>8, <1>9, <2>1, <2>3
      <4>2. IsFiniteSet(upto(i - 1))
        BY <1>5
      <4>3. QED
        BY <4>1, <4>2, FS_AddElement
    <3>3. Len(u) <= Cardinality(upto(i))
      BY <1>5, <2>2, <3>1, <3>2
    <3>4. u \in Inv[i]
      BY <1>6, <2>1, <3>1, <3>3
    <3>5. QED
      BY <2>3, <3>4 DEF Pass, u
  <2>4. CASE q[i] = ZERO
    <3>1. upto(i) = upto(i - 1)
      BY <1>8, <2>4
    <3>2. v \in Inv[i]
      BY <1>6, <2>1, <2>2, <3>1
    <3>3. QED
      BY <2>4, <3>2 DEF Pass
  <2>5. QED
    BY <2>3, <2>4
<1>12. \A i \in 0 .. n : g[1 .. i] \in Inv[i]
  BY <1>1, <1>2, <1>10, <1>11, LoopReaches
<1>13. g[1 .. n] \in Inv[n] /\ n \in 0 .. n
  BY <1>2, <1>12
<1>14. QED
  BY <1>1, <1>4, <1>6, <1>7, <1>13

(* The bytes of the file are in cells of its blocks, each in one.          *)
LEMMA ContentsCount ==
  ASSUME file \in Files, OnePlace(file)
  PROVE  /\ Len(Contents) \in Nat /\ Cardinality(Full(file)) \in Nat
         /\ Len(Contents) <= Cardinality(Full(file))
<1> DEFINE n == Len(AllPlaces)
           B(k) == BlockAt(file, AllPlaces[k])
           s == [k \in 1 .. n |-> LET b == B(k)
                                  IN  IF b = NULL THEN <<>> ELSE Bytes(file, b, 0)]
           in(i) == {x \in Full(file) : \E k \in 1 .. i : x[1] = B(k)}
           Inv == [i \in 1 .. n |-> {v \in Seq(Nat) : Len(v) <= Cardinality(in(i))}]
<1>1. /\ n \in Nat \ {0} /\ Len(s) = n
      /\ \A k \in 1 .. n : s[k] = IF B(k) = NULL THEN <<>> ELSE Bytes(file, B(k), 0)
  <2>1. n \in Nat \ {0}
    BY AllPlacesOnce
  <2> HIDE DEF n, B
  <2>2. QED
    BY <2>1
<1>2. Contents = FlattenSeq(s)
  BY DEF Contents
<1>3. IsFiniteSet(Full(file)) /\ Cardinality(Full(file)) \in Nat
  BY FullFinite DEF Files
<1>4. ASSUME NEW i
      PROVE  IsFiniteSet(in(i)) /\ Cardinality(in(i)) \in Nat
             /\ Cardinality(in(i)) <= Cardinality(Full(file))
  BY <1>3, FS_Subset, FS_CardinalityType
<1>5. \A i \in 1 .. n : Inv[i] = {v \in Seq(Nat) : Len(v) <= Cardinality(in(i))}
  OBVIOUS
<1>6. ASSUME NEW k \in 1 .. n, B(k) # NULL
      PROVE  /\ B(k) \in file.bitmap /\ B(k) \in BlockNum
             /\ \A i \in 1 .. n : B(i) = B(k) => i = k
  <2> DEFINE p == AllPlaces[k]
  <2>1. IsPlace(p)
    BY AllPlacesOnce
  <2> HIDE DEF p
  <2>2. /\ BlockAt(file, p) \in file.bitmap
        /\ \A q : IsPlace(q) /\ BlockAt(file, q) = BlockAt(file, p) => q = p
    BY <1>6, <2>1, OwnBlock DEF p
  <2>3. ASSUME NEW i \in 1 .. n, B(i) = B(k) PROVE i = k
    <3>1. AllPlaces[i] = AllPlaces[k]
      <4> DEFINE q == AllPlaces[i]
      <4>1. IsPlace(q)
        BY AllPlacesOnce
      <4>2. BlockAt(file, q) = BlockAt(file, p)
        BY <2>3 DEF p
      <4> HIDE DEF q
      <4>3. q = p
        BY <2>2, <4>1, <4>2
      <4>4. QED
        BY <4>3 DEF p, q
    <3>2. QED
      BY <3>1, AllPlacesOnce
  <2>4. QED
    BY <2>2, <2>3 DEF Files, p
<1> HIDE DEF n, s, B, Inv
(* What the next place adds.                                               *)
<1>7. ASSUME NEW k \in 1 .. n, NEW m \in Nat, m <= Cardinality({x \in in(k) : x[1] # B(k)})
      PROVE  s[k] \in Seq(Nat) /\ Len(s[k]) \in Nat /\ m + Len(s[k]) <= Cardinality(in(k))
  <2> DEFINE rest == {x \in in(k) : x[1] # B(k)}
  <2>1. IsFiniteSet(rest) /\ Cardinality(rest) \in Nat /\ Cardinality(rest) <= Cardinality(in(k))
    BY <1>4, FS_Subset, FS_CardinalityType
  <2>2. CASE B(k) = NULL
    <3>1. s[k] = <<>>
      BY <1>1, <2>2
    <3>2. s[k] \in Seq(Nat) /\ Len(s[k]) = 0
      BY <3>1
    <3> HIDE DEF in, rest
    <3>3. m <= Cardinality(rest)
      BY <1>7 DEF rest
    <3>4. QED
      BY <1>4, <2>1, <3>2, <3>3
  <2>3. CASE B(k) # NULL
    <3> DEFINE b == B(k)
               H == Held(file, b)
               R == {b} \X H
    <3>1. s[k] = Bytes(file, b, 0) /\ b \in file.bitmap /\ b \in BlockNum
      BY <1>1, <1>6, <2>3
    <3>2. /\ Bytes(file, b, 0) \in Seq(Nat) /\ IsFiniteSet(H) /\ Cardinality(H) \in Nat
          /\ Len(Bytes(file, b, 0)) <= Cardinality(H)
      BY <3>1, BytesCount
    <3>3. s[k] \in Seq(Nat) /\ Len(s[k]) \in Nat /\ Len(s[k]) <= Cardinality(H)
      BY <3>1, <3>2
    <3>4. in(k) = rest \cup R /\ rest \cap R = {}
      <4>1. ASSUME NEW x PROVE x \in R <=> x \in in(k) /\ x[1] = b
        <5>1. x \in R <=> x \in file.bitmap \X Offset /\ x[1] = b
                          /\ file.data_blocks[b].data[x[2]] # ZERO
          BY <3>1 DEF Held
        <5>2. x[1] = b => \E j \in 1 .. k : x[1] = B(j)
          <6>1. k \in 1 .. k
            BY <1>1
          <6>2. QED
            BY <6>1
        <5>3. x \in in(k) /\ x[1] = b <=> x \in Full(file) /\ x[1] = b
          BY <5>2
        <5>4. x \in Full(file) /\ x[1] = b <=> x \in file.bitmap \X Offset /\ x[1] = b
                                              /\ file.data_blocks[b].data[x[2]] # ZERO
          BY DEF Full
        <5>5. QED
          BY <5>1, <5>3, <5>4
      <4> HIDE DEF in, R, b
      <4>2. \A x : x \in rest <=> x \in in(k) /\ x[1] # b
        BY DEF b
      <4> HIDE DEF rest
      <4>3. QED
        BY <4>1, <4>2
    <3>5. IsFiniteSet(R) /\ Cardinality(R) = Cardinality(H)
      <4> HIDE DEF H
      <4>1. IsFiniteSet({b}) /\ Cardinality({b}) = 1
        BY FS_Singleton
      <4>2. IsFiniteSet(R) /\ Cardinality(R) = Cardinality({b}) * Cardinality(H)
        BY <3>2, <4>1, FS_Product DEF H
      <4>3. QED
        BY <3>2, <4>1, <4>2
    <3> HIDE DEF in, rest, R, H
    <3>6. Cardinality(in(k)) = Cardinality(rest) + Cardinality(R)
      <4>1. Cardinality(rest \cup R) = Cardinality(rest) + Cardinality(R) - Cardinality(rest \cap R)
        BY <2>1, <3>5, FS_Union
      <4>2. Cardinality(rest \cap R) = 0
        BY <3>4, FS_EmptySet
      <4>3. Cardinality(R) \in Nat
        BY <3>2, <3>5
      <4>4. QED
        BY <2>1, <3>4, <4>1, <4>2, <4>3
    <3>7. m <= Cardinality(rest)
      BY <1>7 DEF rest
    <3>8. QED
      BY <2>1, <3>2, <3>3, <3>5, <3>6, <3>7
  <2>4. QED
    BY <2>2, <2>3
<1>8. s[1] \in Inv[1]
  <2>1. 1 \in 1 .. n
    BY <1>1
  <2>2. 0 <= Cardinality({x \in in(1) : x[1] # B(1)})
    <3>1. Cardinality({x \in in(1) : x[1] # B(1)}) \in Nat
      BY <1>4, FS_Subset, FS_CardinalityType
    <3>2. QED
      BY <3>1
  <2>3. s[1] \in Seq(Nat) /\ Len(s[1]) \in Nat /\ 0 + Len(s[1]) <= Cardinality(in(1))
    BY <1>7, <2>1, <2>2
  <2> HIDE DEF in
  <2>4. QED
    BY <1>5, <2>1, <2>3
<1>9. ASSUME NEW i \in 2 .. n, NEW v \in Inv[i - 1] PROVE v \o s[i] \in Inv[i]
  <2>1. i \in 1 .. n /\ i - 1 \in 1 .. n
    BY <1>1
  <2>2. v \in Seq(Nat) /\ Len(v) \in Nat /\ Len(v) <= Cardinality(in(i - 1))
    <3> HIDE DEF in
    <3>1. v \in Seq(Nat) /\ Len(v) <= Cardinality(in(i - 1))
      BY <1>5, <2>1
    <3>2. QED
      BY <3>1
  <2>3. in(i - 1) \subseteq {x \in in(i) : x[1] # B(i)} \/ B(i) = NULL
    <3>1. ASSUME NEW k \in 1 .. i - 1, B(k) = B(i), B(i) # NULL PROVE FALSE
      <4>1. k \in 1 .. n /\ k # i
        BY <1>1, <2>1
      <4>2. QED
        BY <1>6, <2>1, <3>1, <4>1
    <3>2. 1 .. i - 1 \subseteq 1 .. i
      BY <2>1
    <3>3. QED
      BY <3>1, <3>2
  <2>4. B(i) = NULL => in(i - 1) \subseteq {x \in in(i) : x[1] # B(i)}
    <3>1. \A x \in Full(file) : x[1] # NULL
      BY SlotFacts DEF Full, Files
    <3>2. 1 .. i - 1 \subseteq 1 .. i
      BY <2>1
    <3>3. QED
      BY <3>1, <3>2
  <2>5. Cardinality(in(i - 1)) <= Cardinality({x \in in(i) : x[1] # B(i)})
        /\ Cardinality({x \in in(i) : x[1] # B(i)}) \in Nat
    <3> DEFINE T == {x \in in(i) : x[1] # B(i)}
               S == in(i - 1)
    <3>1. S \subseteq T /\ T \subseteq in(i) /\ IsFiniteSet(in(i))
      BY <1>4, <2>3, <2>4
    <3> HIDE DEF T, S, in
    <3>2. IsFiniteSet(T) /\ Cardinality(T) \in Nat
      BY <3>1, FS_Subset, FS_CardinalityType
    <3>3. Cardinality(S) <= Cardinality(T)
      BY <3>1, <3>2, FS_Subset
    <3>4. QED
      BY <3>2, <3>3 DEF T, S
  <2>6. Len(v) <= Cardinality({x \in in(i) : x[1] # B(i)})
    <3> DEFINE c == Cardinality({x \in in(i) : x[1] # B(i)})
               d == Cardinality(in(i - 1))
    <3>1. d \in Nat
      BY <1>4
    <3> HIDE DEF c, d
    <3>2. c \in Nat /\ Len(v) \in Nat /\ Len(v) <= d /\ d <= c
      BY <2>2, <2>5 DEF c, d
    <3>3. Len(v) <= c
      BY <3>1, <3>2
    <3>4. QED
      BY <3>3 DEF c
  <2>7. s[i] \in Seq(Nat) /\ Len(s[i]) \in Nat /\ Len(v) + Len(s[i]) <= Cardinality(in(i))
    BY <1>7, <2>1, <2>2, <2>6
  <2> HIDE DEF in
  <2>8. v \o s[i] \in Seq(Nat) /\ Len(v \o s[i]) = Len(v) + Len(s[i])
    BY <2>2, <2>7
  <2>9. QED
    BY <1>5, <2>1, <2>7, <2>8
<1>10. FlattenSeq(s) \in Inv[n]
  BY <1>1, <1>8, <1>9, Joined
<1>11. FlattenSeq(s) \in Seq(Nat) /\ Len(FlattenSeq(s)) <= Cardinality(in(n))
  <2>1. n \in 1 .. n
    BY <1>1
  <2> HIDE DEF in
  <2>2. QED
    BY <1>5, <1>10, <2>1
<1>12. QED
  <2> DEFINE c == FlattenSeq(s)
  <2> HIDE DEF c, in
  <2>1. c \in Seq(Nat) /\ Len(c) <= Cardinality(in(n)) /\ Contents = c
    BY <1>2, <1>11 DEF c
  <2>2. Len(c) \in Nat
    BY <2>1
  <2>3. QED
    BY <1>3, <1>4, <2>1, <2>2

(* No write of a file of less than MAX_SIZE bytes makes the size wrap      *)
(* around.                                                                 *)
SizesHold == \A data \in Data : MAX_SIZE + Len(data) <= UINT_RANGE

(* The inductive invariant: the size counts at least the cells of marked   *)
(* blocks that hold a byte, whether or not a pointer leads to them.        *)
CoversInv == FileInv /\ Covers(file)

(* rd_write keeps it: each byte that it writes is counted.                 *)
LEMMA WriteCovers ==
  ASSUME SizesHold, FileInv, Covers(file), NEW fd \in Fd, NEW data \in Data, rd_write(fd, data)
  PROVE  Covers(file')
<1>1. /\ file \in Files /\ cursor \in [Fd -> UInt] /\ OnePlace(file)
  BY TypeOKIs, OnePlaceIs DEF FileInv
<1>2. CASE fd \in ReadOnly
  BY <1>2 DEF rd_write
<1>3. CASE fd \notin ReadOnly
  <2> DEFINE w == Written(file, cursor[fd], data, Len(data))
  <2>1. w \in Sound(data, file)
    BY <1>1, WrittenSound
  <2>2. /\ file' = [size |-> w.size, pointers |-> w.pointers, bitmap |-> w.bitmap,
                    data_blocks |-> w.data_blocks]
        /\ file.size < MAX_SIZE
    BY <1>3 DEF rd_write
  <2> HIDE DEF w
  <2>3. file.size + Len(data) < UINT_RANGE
    <3>1. /\ file.size \in Nat /\ MAX_SIZE \in Nat /\ Len(data) \in Nat /\ UINT_RANGE \in Nat
          /\ MAX_SIZE + Len(data) <= UINT_RANGE
      BY <1>1, WritableIs, DiscosIOAssumption DEF SizesHold, Files, UInt
    <3>2. QED
      BY <2>2, <3>1
  <2>4. Covers(w)
    BY <2>1, <2>3 DEF Sound
  <2>5. /\ file'.size = w.size /\ file'.bitmap = w.bitmap
        /\ file'.data_blocks = w.data_blocks
    BY <2>2
  <2>6. Full(file') = Full(w)
    BY <2>5 DEF Full
  <2>7. QED
    BY <2>4, <2>5, <2>6 DEF Covers
<1>4. QED
  BY <1>2, <1>3

(* No other step changes the file.                                         *)
LEMMA CoversNext ==
  ASSUME SizesHold, CoversInv, [ReadNext]_io_vars
  PROVE  CoversInv'
<1>1. FileInv'
  BY FileNext DEF CoversInv
<1>2. Covers(file')
  <2>1. CASE UNCHANGED file
    BY <2>1 DEF CoversInv
  <2>2. ASSUME NEW fd \in Fd, call(fd) PROVE Covers(file')
    <3>1. CASE \E num_bytes \in Counts : read_begin(fd, num_bytes)
      BY <2>1, <3>1 DEF read_begin, rd_read
    <3>2. CASE \E data \in Data : rd_write(fd, data)
      BY <3>2, WriteCovers DEF CoversInv
    <3>3. CASE \E offset \in Offsets : rd_lseek(fd, offset)
      BY <2>1, <3>3 DEF rd_lseek
    <3>4. QED
      BY <2>2, <3>1, <3>2, <3>3 DEF call
  <2>3. ASSUME NEW fd \in Fd, copy_to_user(fd) PROVE Covers(file')
    BY <2>1, <2>3 DEF copy_to_user, vars
  <2>4. ASSUME NEW fd \in Fd, read_end(fd) PROVE Covers(file')
    BY <2>1, <2>4 DEF read_end, vars
  <2>5. QED
    BY <2>1, <2>2, <2>3, <2>4 DEF ReadNext, io_vars, vars
<1>3. (Covers(file))'
  BY <1>2 DEF Covers, Full
<1>4. QED
  BY <1>1, <1>3 DEF CoversInv

(* Where no size wraps around, the size that rd_read, rd_lseek and the     *)
(* later ranges of rd_write rely on is never less than the bytes that the  *)
(* file has, whatever was written over and wherever a write ran out of     *)
(* blocks.                                                                 *)
THEOREM SizeCovers ==
  ASSUME SizesHold
  PROVE  ReadSpec => []SizeCoversContents
<1>1. ReadInit => CoversInv
  <2>1. ReadInit => FileInv
    BY FileInitially DEF ReadInit
  <2>2. ReadInit => Covers(file)
    <3>1. SUFFICES ASSUME file = EmptyFile PROVE Covers(file)
      BY DEF ReadInit, Init
    <3>2. EmptyFile.size = 0 /\ EmptyFile.bitmap = {}
      BY DEF EmptyFile
    <3>3. Full(file) = {}
      BY <3>1, <3>2 DEF Full
    <3>4. QED
      BY <3>1, <3>2, <3>3, FS_EmptySet DEF Covers
  <2>3. QED
    BY <2>1, <2>2 DEF CoversInv
<1>2. CoversInv /\ [ReadNext]_io_vars => CoversInv'
  BY CoversNext
<1>3. CoversInv => SizeCoversContents
  <2>1. SUFFICES ASSUME CoversInv PROVE Len(Contents) <= file.size
    BY DEF SizeCoversContents
  <2>2. file \in Files /\ OnePlace(file) /\ Covers(file)
    BY <2>1, TypeOKIs, OnePlaceIs DEF CoversInv, FileInv
  <2>3. /\ Len(Contents) \in Nat /\ Cardinality(Full(file)) \in Nat
        /\ Len(Contents) <= Cardinality(Full(file))
    BY <2>2, ContentsCount
  <2>4. file.size \in Nat
    BY <2>2, DiscosIOAssumption DEF Files, UInt
  <2>5. QED
    BY <2>2, <2>3, <2>4 DEF Covers
<1>4. QED
  BY <1>1, <1>2, <1>3, PTL DEF ReadSpec

-----------------------------------------------------------------------------
(* Files that were written in order                                        *)

(* The size of a full file is an unsigned int: in the code about a million *)
(* bytes.                                                                  *)
FileFits == MAX_BLOCKS * BLOCK_SIZE < UINT_RANGE

(* The cells of f, taken in order, hold the bytes s and nothing behind.    *)
Shows(f, s) ==
  /\ s \in Seq(Nat \ {ZERO}) /\ Len(s) <= MAX_BLOCKS * BLOCK_SIZE
  /\ \A n \in 0 .. MAX_BLOCKS - 1 : \A j \in Offset :
       Byte(f, PlaceNo(n), j) = IF n * BLOCK_SIZE + j < Len(s) THEN s[n * BLOCK_SIZE + j + 1]
                                                               ELSE ZERO

(* The bytes s and then the first n of the data.                           *)
Text(s, data, n) == s \o SubSeq(data, 1, n)

(* None of those that can be written is '\0'.                              *)
LEMMA WritableBytes ==
  ASSUME NEW data \in Data
  PROVE  \A i \in 1 .. Writable(data, Len(data)) : data[i] \in Nat \ {ZERO}
<1> DEFINE len == Len(data)
           zeros == {k \in 1 .. len : data[k] = ZERO}
           z == Min(zeros)
<1>1. /\ len \in Nat /\ Writable(data, len) \in 0 .. len
      /\ \A i \in 1 .. len : data[i] \in Nat
  BY WritableIs
<1>2. zeros \subseteq Nat /\ \A k : k \in zeros <=> k \in 1 .. len /\ data[k] = ZERO
  BY <1>1
<1>3. Writable(data, len) = IF zeros = {} THEN len ELSE z - 1
  BY DEF Writable
<1> HIDE DEF zeros, len
<1>4. zeros # {} => z \in zeros /\ \A x \in zeros : z <= x
  <2>1. SUFFICES ASSUME zeros # {} PROVE \E m \in zeros : \A x \in zeros : m <= x
    BY DEF Min
  <2>2. QED
    BY <1>2, <2>1, MinExists
<1> HIDE DEF z
<1>5. ASSUME NEW i \in 1 .. Writable(data, len) PROVE data[i] \in Nat \ {ZERO}
  <2>1. i \in 1 .. len
    BY <1>1
  <2>2. i \notin zeros
    <3>1. CASE zeros = {}
      BY <3>1
    <3>2. CASE zeros # {}
      <4>1. z \in Nat /\ i <= z - 1
        BY <1>1, <1>2, <1>3, <1>4, <3>2
      <4>2. QED
        BY <1>4, <2>1, <3>2, <4>1
    <3>3. QED
      BY <3>1, <3>2
  <2>3. QED
    BY <1>1, <1>2, <2>1, <2>2
<1>6. QED
  BY <1>5 DEF len

(* What Text(s, data, n) is.                                               *)
IsText(s, data, n, t) ==
  /\ t \in Seq(Nat \ {ZERO}) /\ Len(s) \in Nat /\ n \in Nat /\ Len(t) = Len(s) + n
  /\ \A i \in 1 .. Len(s) : t[i] = s[i]
  /\ \A i \in 1 .. n : t[Len(s) + i] = data[i]

(* It has n bytes more than s.                                             *)
LEMMA TextIs ==
  ASSUME NEW s \in Seq(Nat \ {ZERO}), NEW data \in Data, NEW n \in 0 .. Writable(data, Len(data)),
         NEW t, t = Text(s, data, n)
  PROVE  IsText(s, data, n, t)
<1> DEFINE S == Nat \ {ZERO}
           u == SubSeq(data, 1, n)
<1>1. /\ Len(data) \in Nat /\ Writable(data, Len(data)) \in 0 .. Len(data)
      /\ \A i \in 1 .. Writable(data, Len(data)) : data[i] \in S
  BY WritableIs, WritableBytes
<1>2. n \in Nat /\ n <= Len(data) /\ \A i \in 1 .. n : data[i] \in S
  BY <1>1
<1>3. u = [i \in 1 .. n |-> data[i]]
  <2>1. u = [i \in 1 .. (n - 1 + 1) |-> data[1 + i - 1]]
    OBVIOUS
  <2>2. n - 1 + 1 = n /\ \A i \in 1 .. n : 1 + i - 1 = i
    BY <1>2
  <2>3. QED
    BY <2>1, <2>2
<1> HIDE DEF u, S
<1>4. u \in [1 .. n -> S] /\ \A i \in 1 .. n : u[i] = data[i]
  BY <1>2, <1>3
<1>5. u \in Seq(S) /\ Len(u) = n
  BY <1>2, <1>4, ListIs
<1>6. Joins(S, s, u, t)
  <2>1. t = s \o u /\ s \in Seq(S)
    BY DEF Text, u, S
  <2>2. QED
    BY <1>5, <2>1, JoinIs
<1>7. QED
  BY <1>2, <1>4, <1>5, <1>6 DEF Joins, IsText, S

(* What leaves the bytes alone leaves them so.                             *)
LEMMA ShowsKept ==
  ASSUME NEW w, NEW v, Kept(w, v), NEW t, Shows(w, t)
  PROVE  Shows(v, t)
<1>1. ASSUME NEW n \in 0 .. MAX_BLOCKS - 1, NEW j \in Offset
      PROVE  Byte(v, PlaceNo(n), j) = Byte(w, PlaceNo(n), j)
  <2>1. n \in Nat /\ n < MAX_BLOCKS
    BY RangeEnds
  <2>2. QED
    BY <2>1, PlaceNoIs DEF Kept
<1>2. QED
  BY <1>1 DEF Shows

(* The blocks are where the pointers lead.                                 *)
LEMMA SameBlockAt ==
  ASSUME NEW w \in Writes, NEW v, v.pointers = w.pointers,
         \A b \in BlockNum : v.data_blocks[b].index_block = w.data_blocks[b].index_block,
         NEW p, IsPlace(p)
  PROVE  BlockAt(v, p) = BlockAt(w, p)
<1>1. \A i \in InodeIdx : v.pointers[i] = w.pointers[i] /\ w.pointers[i] \in BlockPtr
  BY DEF Writes
<1>2. ASSUME NEW b \in BlockPtr, b # NULL, NEW k \in PtrIdx
      PROVE  Pointer(v, b, k) = Pointer(w, b, k) /\ Pointer(w, b, k) \in BlockPtr
  <2>1. b \in BlockNum
    BY <1>2 DEF BlockPtr
  <2>2. QED
    BY <1>2, <2>1 DEF Writes, Block, Pointer
<1>3. SINGLE \in InodeIdx /\ DOUBLE \in InodeIdx
  BY SlotFacts
<1>4. CASE Direct(p)
  BY <1>1, <1>4, BlockAtIs DEF Direct
<1>5. CASE Single(p)
  <2>1. PICK k \in PtrIdx : p = <<SINGLE, k>>
    BY <1>5 DEF Single
  <2>2. \A f : BlockAt(f, <<SINGLE, k>>) =
          IF f.pointers[SINGLE] = NULL THEN NULL ELSE Pointer(f, f.pointers[SINGLE], k)
    BY BlockAtIs
  <2>3. QED
    BY <1>1, <1>2, <1>3, <2>1, <2>2
<1>6. CASE Double(p)
  <2>1. PICK i \in PtrIdx, k \in PtrIdx : p = <<DOUBLE, i, k>>
    BY <1>6 DEF Double
  <2>2. \A f : BlockAt(f, <<DOUBLE, i, k>>) =
          IF f.pointers[DOUBLE] = NULL \/ Pointer(f, f.pointers[DOUBLE], i) = NULL THEN NULL
          ELSE Pointer(f, Pointer(f, f.pointers[DOUBLE], i), k)
    BY BlockAtIs
  <2> DEFINE d == w.pointers[DOUBLE]
             h == Pointer(w, d, i)
  <2>3. v.pointers[DOUBLE] = d /\ d \in BlockPtr
    BY <1>1, <1>3
  <2>4. d # NULL => Pointer(v, d, i) = h /\ h \in BlockPtr
    BY <1>2, <2>3
  <2>5. d # NULL /\ h # NULL => Pointer(v, h, k) = Pointer(w, h, k)
    BY <1>2, <2>4
  <2> HIDE DEF d, h
  <2>6. BlockAt(w, p) = IF d = NULL \/ h = NULL THEN NULL ELSE Pointer(w, h, k)
    BY <2>1, <2>2 DEF d, h
  <2>7. BlockAt(v, p) = IF d = NULL \/ Pointer(v, d, i) = NULL THEN NULL
                        ELSE Pointer(v, Pointer(v, d, i), k)
    BY <2>1, <2>2, <2>3
  <2>8. QED
    BY <2>4, <2>5, <2>6, <2>7
<1>7. QED
  BY <1>4, <1>5, <1>6 DEF IsPlace

(* A state of a rd_write of data to a file that showed s.                  *)
Shown(s, data) ==
  {w \in Writes : /\ OnePlace(w) /\ w.n <= Writable(data, Len(data))
                  /\ Shows(w, Text(s, data, w.n)) /\ w.size = Len(s) + w.n}

(* One before block next, at which the loop goes on at the offset: either  *)
(* nothing is left that can be written, or the file ends right there, and  *)
(* not in the middle of a block unless all fits in it.                     *)
InStep(s, data, offset, next) ==
  {w \in Shown(s, data) :
     w.out = "on" =>
       /\ w.size <= next * BLOCK_SIZE + offset
       /\ \/ w.n = Writable(data, Len(data))
          \/ /\ w.size = next * BLOCK_SIZE + offset
             /\ offset = 0 \/ Len(data) + offset <= BLOCK_SIZE}

(* What the loop over the cells of the next block writes goes on the text, *)
(* and the file ends at the block after it, unless nothing is left.        *)
LEMMA FillShows ==
  ASSUME FileFits, NEW s \in Seq(Nat \ {ZERO}), NEW data \in Data, NEW offset \in Offset,
         NEW next \in 0 .. MAX_BLOCKS - 1, NEW w \in InStep(s, data, offset, next), w.out = "on",
         w.at \in BlockNum, w.at = BlockAt(w, PlaceNo(next)),
         NEW v, v = Fill(w, data, Len(data), offset)
  PROVE  v \in InStep(s, data, offset, next + 1)
<1> DEFINE len == Len(data)
           W == Writable(data, len)
           B == BLOCK_SIZE
           X == next * B
           Z == MAX_BLOCKS * B
           L == Len(s) + w.n
           t == Text(s, data, w.n)
           u == Text(s, data, v.n)
<1>1. /\ w \in Writes /\ OnePlace(w) /\ w.n <= W /\ w.n \in Nat /\ Shows(w, t)
      /\ w.size = L /\ L <= X + offset
      /\ w.n = W \/ (L = X + offset /\ (offset = 0 \/ len + offset <= B))
  BY DEF InStep, Shown, Writes
<1>2. len \in Nat /\ W \in 0 .. len
  BY WritableIs
<1>3. /\ B \in Nat \ {0} /\ offset \in 0 .. B - 1 /\ Offset = 0 .. B - 1
      /\ MAX_BLOCKS \in Nat /\ next \in Nat /\ next < MAX_BLOCKS /\ Z < UINT_RANGE /\ UINT_RANGE \in Nat
  BY RangeEnds, DiscosIOAssumption DEF Offset, FileFits
<1>4. /\ X \in Nat /\ Z \in Nat /\ X + B <= Z /\ (next + 1) * B = X + B
      /\ \A n \in 0 .. MAX_BLOCKS - 1 : n * B \in Nat
      /\ \A n \in 0 .. MAX_BLOCKS - 1 : n < next => n * B + B <= X
      /\ \A n \in 0 .. MAX_BLOCKS - 1 : next < n => X + B <= n * B
  <2>1. X \in Nat /\ Z \in Nat /\ (next + 1) * B = X + B
    BY <1>3
  <2>2. X + B <= Z
    BY <1>3, BlocksApart
  <2>3. ASSUME NEW n \in 0 .. MAX_BLOCKS - 1
        PROVE  /\ n * B \in Nat
               /\ n < next => n * B + B <= X
               /\ next < n => X + B <= n * B
    <3>1. n \in Nat /\ B \in Nat
      BY <1>3
    <3>2. n * B \in Nat
      BY <3>1
    <3> HIDE DEF B
    <3>3. (n < next => n * B + B <= next * B) /\ (next < n => next * B + B <= n * B)
      BY <1>3, <3>1, BlocksApart
    <3>4. QED
      BY <3>2, <3>3
  <2>4. QED
    BY <2>1, <2>2, <2>3
<1>5. PICK m : Filled(data, offset, w, m, v)
  BY <1>1, FillIs
<1>6. /\ v \in Writes /\ OnePlace(v)
      /\ m \in Nat /\ w.n + m <= W /\ m <= B - offset /\ (m = W - w.n \/ m = B - offset)
      /\ v.pointers = w.pointers /\ v.n = w.n + m /\ v.size = (L + m) % UINT_RANGE
      /\ \A b \in BlockNum : v.data_blocks[b].index_block = w.data_blocks[b].index_block
      /\ \A b \in BlockNum : \A j \in Offset :
           v.data_blocks[b].data[j] = IF b = w.at /\ j \in offset .. offset + m - 1
                                      THEN data[w.n + j - offset + 1]
                                      ELSE w.data_blocks[b].data[j]
  BY <1>1, <1>5 DEF Filled
<1>7. IsText(s, data, w.n, t) /\ IsText(s, data, v.n, u)
  <2>1. w.n \in 0 .. W /\ v.n \in 0 .. W
    BY <1>1, <1>2, <1>6
  <2> HIDE DEF t, u
  <2>2. QED
    BY <2>1, TextIs DEF t, u
<1>8. /\ L \in Nat /\ Len(s) \in Nat /\ Len(t) = L /\ Len(u) = L + m /\ L <= Z
      /\ u \in Seq(Nat \ {ZERO})
      /\ \A i \in 1 .. L : u[i] = t[i]
      /\ \A i \in 1 .. m : u[L + i] = data[w.n + i]
  <2>1. /\ Len(s) \in Nat /\ Len(t) = Len(s) + w.n /\ Len(u) = Len(s) + v.n
        /\ u \in Seq(Nat \ {ZERO})
        /\ \A i \in 1 .. Len(s) : t[i] = s[i] /\ u[i] = s[i]
        /\ \A i \in 1 .. w.n : t[Len(s) + i] = data[i]
        /\ \A i \in 1 .. v.n : u[Len(s) + i] = data[i]
    BY <1>7 DEF IsText
  <2>2. Len(t) <= Z
    BY <1>1 DEF Shows
  <2>0. Len(s) \in Nat /\ w.n \in Nat /\ m \in Nat /\ v.n = w.n + m
    BY <1>1, <1>6, <2>1
  <2> HIDE DEF t, u
  <2>3. \A i \in 1 .. L : u[i] = t[i]
    <3>1. ASSUME NEW i \in 1 .. L PROVE u[i] = t[i]
      <4>1. CASE i \in 1 .. Len(s)
        BY <2>1, <4>1
      <4>2. CASE i \notin 1 .. Len(s)
        <5> DEFINE k == i - Len(s)
        <5>1. k \in 1 .. w.n /\ k \in 1 .. v.n /\ i = Len(s) + k
          BY <2>0, <4>2
        <5> HIDE DEF k
        <5>2. QED
          BY <2>1, <5>1
      <4>3. QED
        BY <4>1, <4>2
    <3>2. QED
      BY <3>1
  <2>4. \A i \in 1 .. m : u[L + i] = data[w.n + i]
    <3>1. ASSUME NEW i \in 1 .. m PROVE u[L + i] = data[w.n + i]
      <4> DEFINE k == w.n + i
      <4>1. k \in 1 .. v.n /\ L + i = Len(s) + k
        BY <2>0
      <4> HIDE DEF k, L
      <4>2. u[Len(s) + k] = data[k]
        BY <2>1, <4>1
      <4>3. QED
        BY <4>1, <4>2 DEF k
    <3>2. QED
      BY <3>1
  <2>5. L \in Nat /\ Len(u) = L + m
    BY <1>1, <1>6, <2>1
  <2>6. QED
    BY <2>1, <2>2, <2>3, <2>4, <2>5
<1> HIDE DEF L, t, u, X, Z, W, len
<1>9. m > 0 => L = X + offset
  BY <1>1, <1>2, <1>6
<1>10. L + m <= Z /\ v.size = L + m
  <2>1. L + m <= Z /\ L + m \in Nat
    BY <1>3, <1>4, <1>6, <1>8, <1>9
  <2>2. L + m < UINT_RANGE
    BY <1>3, <1>4, <2>1
  <2> DEFINE y == L + m
  <2> HIDE DEF y
  <2>3. y \in Nat /\ y < UINT_RANGE
    BY <2>1, <2>2 DEF y
  <2>4. y % UINT_RANGE = y
    BY <1>3, <2>3
  <2>5. QED
    BY <1>6, <2>1, <2>4 DEF y
<1>11. ASSUME NEW n \in 0 .. MAX_BLOCKS - 1
       PROVE  /\ BlockAt(v, PlaceNo(n)) = BlockAt(w, PlaceNo(n))
              /\ BlockAt(w, PlaceNo(n)) \in BlockPtr
              /\ BlockAt(w, PlaceNo(n)) = w.at <=> n = next
  <2>1. n \in Nat /\ n < MAX_BLOCKS
    BY <1>3
  <2>2. IsPlace(PlaceNo(n)) /\ IsPlace(PlaceNo(next))
    BY <1>3, <2>1, PlaceNoIs
  <2>3. w.at # NULL
    BY SlotFacts
  <2>4. BlockAt(w, PlaceNo(n)) = w.at => PlaceNo(n) = PlaceNo(next)
    BY <1>1, <2>2, <2>3, OwnBlock
  <2>5. BlockAt(w, PlaceNo(n)) = w.at => n = next
    BY <1>3, <2>1, <2>4, PlaceNoOnce
  <2>6. BlockAt(v, PlaceNo(n)) = BlockAt(w, PlaceNo(n))
    <3> DEFINE p == PlaceNo(n)
    <3>1. IsPlace(p)
      BY <2>2
    <3> HIDE DEF p
    <3>2. /\ w \in Writes /\ v.pointers = w.pointers
          /\ \A b \in BlockNum : v.data_blocks[b].index_block = w.data_blocks[b].index_block
      BY <1>1, <1>6
    <3>3. BlockAt(v, p) = BlockAt(w, p)
      BY <3>1, <3>2, SameBlockAt
    <3>4. QED
      BY <3>3 DEF p
  <2>7. BlockAt(w, PlaceNo(n)) \in BlockPtr
    <3>1. BlockAt(w, PlaceNo(n)) # NULL => BlockAt(w, PlaceNo(n)) \in w.bitmap
      BY <1>1, <2>2, OwnBlock
    <3>2. w.bitmap \subseteq BlockNum
      BY <1>1 DEF Writes
    <3>3. QED
      BY <3>1, <3>2 DEF BlockPtr
  <2>8. QED
    BY <2>5, <2>6, <2>7
<1>12. ASSUME NEW n \in 0 .. MAX_BLOCKS - 1, NEW j \in Offset
       PROVE  Byte(v, PlaceNo(n), j) = IF n = next /\ j \in offset .. offset + m - 1
                                       THEN data[w.n + j - offset + 1]
                                       ELSE Byte(w, PlaceNo(n), j)
  <2> DEFINE b == BlockAt(w, PlaceNo(n))
  <2>1. BlockAt(v, PlaceNo(n)) = b /\ b \in BlockPtr /\ (b = w.at <=> n = next)
    BY <1>11
  <2>2. CASE b = NULL
    BY <2>1, <2>2, SlotFacts DEF Byte
  <2>3. CASE b # NULL
    <3>1. b \in BlockNum
      BY <2>1, <2>3 DEF BlockPtr
    <3>2. Byte(v, PlaceNo(n), j) = v.data_blocks[b].data[j]
      BY <2>1, <2>3 DEF Byte
    <3>3. Byte(w, PlaceNo(n), j) = w.data_blocks[b].data[j]
      BY <2>3 DEF Byte
    <3> HIDE DEF b
    <3>4. QED
      BY <1>6, <2>1, <3>1, <3>2, <3>3
  <2>4. QED
    BY <2>2, <2>3
<1>13. ASSUME NEW n \in 0 .. MAX_BLOCKS - 1, NEW j \in Offset
       PROVE  Byte(v, PlaceNo(n), j) = IF n * B + j < L + m THEN u[n * B + j + 1] ELSE ZERO
  <2> DEFINE Y == n * B
  <2>1. /\ Y \in Nat /\ j \in Nat /\ j < B /\ (n < next => Y + B <= X) /\ (next < n => X + B <= Y)
        /\ n \in Nat
    BY <1>3, <1>4
  <2>2. Byte(w, PlaceNo(n), j) = IF Y + j < L THEN t[Y + j + 1] ELSE ZERO
    BY <1>1, <1>8 DEF Shows
  <2>0. n = next => Y = X
    BY DEF X
  <2> HIDE DEF Y, B
  <2>3. CASE n = next /\ j \in offset .. offset + m - 1
    <3> DEFINE i == j - offset + 1
    <3>1. L = X + offset
      BY <1>3, <1>6, <1>9, <2>3
    <3>2. i \in 1 .. m /\ Y + j < L + m /\ Y + j + 1 = L + i /\ w.n + j - offset + 1 = w.n + i
      <4>1. /\ offset \in Nat /\ j \in Nat /\ m \in Nat /\ X \in Nat /\ w.n \in Nat /\ Y = X
            /\ j >= offset /\ j <= offset + m - 1
        BY <1>1, <1>3, <1>4, <1>6, <2>0, <2>1, <2>3
      <4>2. QED
        BY <3>1, <4>1
    <3> HIDE DEF i
    <3>3. u[L + i] = data[w.n + i]
      BY <1>8, <3>2
    <3>4. QED
      BY <1>12, <2>3, <3>2, <3>3 DEF Y
  <2>4. CASE ~(n = next /\ j \in offset .. offset + m - 1)
    <3>1. Byte(v, PlaceNo(n), j) = Byte(w, PlaceNo(n), j)
      BY <1>12, <2>4
    <3>2. CASE Y + j < L
      <4>1. Y + j + 1 \in 1 .. L /\ Y + j < L + m
        BY <1>6, <1>8, <2>1, <3>2
      <4>2. QED
        BY <1>8, <2>2, <3>1, <3>2, <4>1 DEF Y
    <3>3. CASE ~(Y + j < L)
      <4>1. ~(Y + j < L + m)
        <5>1. CASE m = 0
          BY <1>8, <3>3, <5>1
        <5>2. CASE m > 0
          <6>1. L = X + offset
            BY <1>9, <5>2
          <6>2. CASE n = next
            BY <1>3, <1>4, <1>6, <2>0, <2>1, <2>4, <3>3, <6>1, <6>2
          <6>3. CASE n < next
            BY <1>3, <1>4, <1>6, <2>1, <3>3, <6>1, <6>3
          <6>4. CASE next < n
            BY <1>3, <1>4, <1>6, <2>1, <3>3, <6>1, <6>4
          <6>5. QED
            BY <1>3, <2>1, <6>2, <6>3, <6>4
        <5>3. QED
          BY <1>6, <5>1, <5>2
      <4>2. QED
        BY <2>2, <3>1, <3>3, <4>1 DEF Y
    <3>4. QED
      BY <3>2, <3>3
  <2>5. QED
    BY <2>3, <2>4
<1>14. Shows(v, u)
  BY <1>8, <1>10, <1>13 DEF Shows, Z
<1>15. v \in Shown(s, data)
  <2>1. v.size = Len(s) + v.n /\ v.n <= W
    BY <1>1, <1>6, <1>8, <1>10 DEF L
  <2>2. QED
    BY <1>6, <1>14, <2>1 DEF Shown, u, W, len
<1>16. /\ v.size <= X + B + offset
       /\ v.n = W \/ (v.size = X + B + offset /\ (offset = 0 \/ len + offset <= B))
  <2>1. /\ v.size = L + m /\ v.n = w.n + m /\ L \in Nat /\ m \in Nat /\ w.n \in Nat /\ W \in Nat
        /\ W <= len /\ len \in Nat /\ X \in Nat /\ B \in Nat /\ offset \in Nat
        /\ w.n + m <= W /\ m <= B - offset /\ L <= X + offset
    BY <1>1, <1>2, <1>3, <1>4, <1>6, <1>8, <1>10
  <2>2. m = W - w.n \/ m = B - offset
    BY <1>6
  <2>3. w.n = W \/ (L = X + offset /\ (offset = 0 \/ len + offset <= B))
    BY <1>1
  <2> HIDE DEF B
  <2>4. CASE m = W - w.n
    BY <2>1, <2>4
  <2>5. CASE m = B - offset /\ w.n = W
    BY <2>1, <2>5
  <2>6. CASE m = B - offset /\ L = X + offset /\ offset = 0
    BY <2>1, <2>6
  <2>7. CASE m = B - offset /\ L = X + offset /\ len + offset <= B
    BY <2>1, <2>7
  <2>8. QED
    BY <2>2, <2>3, <2>4, <2>5, <2>6, <2>7
<1>17. QED
  BY <1>4, <1>15, <1>16 DEF InStep, X, W, len

(* The loop over the blocks of a range: it comes to them in order.         *)
LEMMA WriteAtShows ==
  ASSUME FileFits, NEW s \in Seq(Nat \ {ZERO}), NEW data \in Data, NEW offset \in Offset,
         NEW first \in Nat, NEW k \in Nat, first + k <= MAX_BLOCKS,
         NEW places, DOMAIN places = 1 .. k, \A i \in 1 .. k : places[i] = PlaceNo(first + i - 1),
         NEW w \in InStep(s, data, offset, first)
  PROVE  WriteAt(w, places, offset, data, Len(data)) \in InStep(s, data, offset, first + k)
<1> DEFINE c == [data |-> data, num_bytes |-> Len(data), offset |-> offset]
           S(i) == InStep(s, data, offset, i)
           Inv == [i \in 0 .. k |-> S(first + i)]
<1>1. PICK g : /\ Passes("write", c, w, places, k, g)
               /\ WriteAt(w, places, offset, data, Len(data)) = g[1 .. k]
  <2> DEFINE num == Len(data)
  <2> HIDE DEF S, Inv, num
  <2>1. \E g : /\ Passes("write", [data |-> data, num_bytes |-> num, offset |-> offset],
                          w, places, k, g)
               /\ WriteAt(w, places, offset, data, num) = g[1 .. k]
    BY WriteLoop
  <2>2. QED
    BY <2>1 DEF num
<1>2. ASSUME NEW n \in 0 .. MAX_BLOCKS - 1, NEW u \in S(n)
      PROVE  Pass("write", c, u, PlaceNo(n)) \in S(n + 1)
  <2> DEFINE x == [u EXCEPT !.at = NULL]
             p == PlaceNo(n)
             v == FoldLeft(Step, x, p)
  <2>1. /\ u \in Writes /\ OnePlace(u) /\ u.n <= Writable(data, Len(data))
        /\ Shows(u, Text(s, data, u.n)) /\ u.size = Len(s) + u.n
    BY DEF InStep, Shown
  <2>2. n \in Nat /\ n < MAX_BLOCKS
    BY RangeEnds
  <2>3. Pass("write", c, u, p) = IF v.out = "on" THEN Fill(v, data, Len(data), offset) ELSE v
    BY DEF Pass, WriteBlock
  <2>4. IsPlace(p)
    BY <2>2, PlaceNoIs
  <2> HIDE DEF p
  <2>5. LET r == FoldLeft(Step, x, p)
        IN  /\ r \in Writes /\ OnePlace(r) /\ r.n = u.n /\ r.size = u.size
            /\ Full(r) = Full(u) /\ Kept(u, r)
            /\ r.out = "on" => u.out = "on" /\ r.at \in BlockNum /\ r.at = BlockAt(r, p)
    BY <2>1, <2>4, PlaceOnePlace
  <2>6. /\ v \in Writes /\ OnePlace(v) /\ v.n = u.n /\ v.size = u.size /\ Kept(u, v)
        /\ v.out = "on" => u.out = "on" /\ v.at \in BlockNum /\ v.at = BlockAt(v, p)
    BY <2>5
  <2> HIDE DEF v
  <2>7. Shows(v, Text(s, data, u.n))
    BY <2>1, <2>6, ShowsKept
  <2>8. v \in Shown(s, data)
    BY <2>1, <2>6, <2>7 DEF Shown
  <2>9. CASE v.out # "on"
    BY <2>3, <2>8, <2>9 DEF InStep, p
  <2>10. CASE v.out = "on"
    <3>1. v \in S(n)
      BY <2>6, <2>8, <2>10 DEF InStep
    <3>2. Fill(v, data, Len(data), offset) \in S(n + 1)
      BY <2>6, <2>10, <3>1, FillShows DEF p
    <3>3. QED
      BY <2>3, <2>10, <3>2 DEF p
  <2>11. QED
    BY <2>9, <2>10 DEF p
<1> HIDE DEF c, S
<1>3. /\ \A i \in 0 .. k : Inv[i] = S(first + i)
      /\ w \in Inv[0]
  BY DEF S
<1> HIDE DEF Inv
<1>4. ASSUME NEW i \in 1 .. k, NEW u \in Inv[i - 1] PROVE Pass("write", c, u, places[i]) \in Inv[i]
  <2> DEFINE n == first + i - 1
  <2>1. n \in 0 .. MAX_BLOCKS - 1 /\ n + 1 = first + i /\ i - 1 \in 0 .. k /\ i \in 0 .. k
        /\ first + (i - 1) = n
    BY RangeEnds
  <2>2. u \in S(n) /\ places[i] = PlaceNo(n)
    BY <1>3, <2>1
  <2> HIDE DEF n
  <2>3. Pass("write", c, u, PlaceNo(n)) \in S(n + 1)
    BY <1>2, <2>1, <2>2
  <2>4. QED
    BY <1>3, <2>1, <2>2, <2>3
<1>5. \A i \in 0 .. k : g[1 .. i] \in Inv[i]
  BY <1>1, <1>3, <1>4, LoopReaches
<1>6. k \in 0 .. k
  OBVIOUS
<1>7. QED
  BY <1>1, <1>3, <1>5, <1>6 DEF S

(* Before range i + 1: the file does not end behind the start of the third *)
(* range, and the write goes on from there.                                *)
Ready(s, data, i) ==
  {w \in Shown(s, data) :
     w.out = "on" =>
       /\ i < 3 => w.size \div BLOCK_SIZE <= DOUBLE_START
       /\ \/ w.n = Writable(data, Len(data))
          \/ w.size % BLOCK_SIZE = 0 \/ Len(data) + (w.size % BLOCK_SIZE) <= BLOCK_SIZE}

(* A size has its block and offset.                                        *)
LEMMA SizeIs ==
  ASSUME NEW size \in UInt
  PROVE  /\ size \in Nat /\ size \div BLOCK_SIZE \in Nat /\ size % BLOCK_SIZE \in Offset
         /\ size = (size \div BLOCK_SIZE) * BLOCK_SIZE + (size % BLOCK_SIZE)
<1>1. size \in Nat /\ BLOCK_SIZE \in Nat \ {0} /\ Offset = 0 .. BLOCK_SIZE - 1
  BY DiscosIOAssumption DEF UInt, Offset
<1>2. QED
  BY <1>1, Divided

(* A range, from the end of the file on.                                   *)
LEMMA RangeShows ==
  ASSUME FileFits, NEW s \in Seq(Nat \ {ZERO}), NEW data \in Data, NEW range \in {1, 2, 3},
         NEW w \in Ready(s, data, range - 1), w.out = "on",
         NEW seg, seg = w.size \div BLOCK_SIZE, InRange(seg, range)
  PROVE  WriteAt(w, Places(seg, range), w.size % BLOCK_SIZE, data, Len(data))
           \in Ready(s, data, range)
<1> DEFINE B == BLOCK_SIZE
           offset == w.size % B
           end == RangeEnd(range)
           W == Writable(data, Len(data))
           places == Places(seg, range)
           k == end - seg
           v == WriteAt(w, places, offset, data, Len(data))
<1>1. /\ w \in Shown(s, data) /\ w.size \in UInt /\ seg <= DOUBLE_START
      /\ w.n = W \/ offset = 0 \/ Len(data) + offset <= B
  <2>1. range - 1 < 3
    OBVIOUS
  <2>2. QED
    BY <2>1 DEF Ready, Shown, Writes
<1>2. /\ w.size \in Nat /\ seg \in Nat /\ offset \in Offset /\ w.size = seg * B + offset
  BY <1>1, SizeIs
<1>3. range = 3 => seg = DOUBLE_START
  BY <1>1, <1>2, RangeEnds DEF InRange
<1>4. /\ end \in Nat /\ seg < end /\ end <= MAX_BLOCKS /\ DOMAIN places = 1 .. k
      /\ \A i \in 1 .. k : places[i] = PlaceNo(seg + i - 1)
  BY <1>2, <1>3, RangeFrom
<1>5. range < 3 => end <= DOUBLE_START
  BY RangeEnds DEF RangeEnd
<1> HIDE DEF offset, end, places
<1>6. w \in InStep(s, data, offset, seg)
  <2>1. w.size <= seg * B + offset
    BY <1>2
  <2>2. QED
    BY <1>1, <1>2, <2>1 DEF InStep
<1>7. k \in Nat /\ seg + k = end
  BY <1>2, <1>4
<1> HIDE DEF k
<1>8. v \in InStep(s, data, offset, end)
  <2>1. seg + k <= MAX_BLOCKS
    BY <1>4, <1>7
  <2>2. v \in InStep(s, data, offset, seg + k)
    BY <1>2, <1>4, <1>6, <1>7, <2>1, WriteAtShows
  <2>3. QED
    BY <1>7, <2>2
<1> HIDE DEF v
<1>9. ASSUME v.out = "on"
      PROVE  /\ range < 3 => v.size \div B <= DOUBLE_START
             /\ v.n = W \/ v.size % B = 0 \/ Len(data) + (v.size % B) <= B
  <2>1. /\ v.size <= end * B + offset
        /\ v.n = W \/ (v.size = end * B + offset /\ (offset = 0 \/ Len(data) + offset <= B))
    BY <1>8, <1>9 DEF InStep
  <2>2. v.size \in UInt
    BY <1>8 DEF InStep, Shown, Writes
  <2> DEFINE q == v.size \div B
             r == v.size % B
  <2>3. v.size \in Nat /\ q \in Nat /\ r \in Offset /\ v.size = q * B + r
    BY <2>2, SizeIs
  <2>4. B \in Nat \ {0} /\ Offset = 0 .. B - 1 /\ end * B \in Nat
    BY <1>4, DiscosIOAssumption DEF Offset
  <2>5. q <= end
    <3>1. ASSUME end < q PROVE FALSE
      <4> HIDE DEF q, r
      <4>1. end * B + B <= q * B
        BY <1>4, <2>3, <2>4, <3>1, BlocksApart
      <4> DEFINE x == end * B
                 y == q * B
      <4>2. x \in Nat /\ y \in Nat /\ x + B <= y /\ v.size <= x + offset /\ v.size = y + r
        BY <2>1, <2>3, <2>4, <4>1
      <4> HIDE DEF x, y, B
      <4>3. QED
        BY <1>2, <2>3, <2>4, <4>2
    <3>2. QED
      BY <1>4, <2>3, <3>1
  <2>6. ASSUME v.size = end * B + offset PROVE r = offset
    <3> DEFINE x == v.size
    <3>1. x = end * B + offset /\ r = x % B
      BY <2>6
    <3> HIDE DEF x, r, B
    <3>2. x % B = offset
      BY <1>2, <1>4, <2>4, <3>1, BlockAndOffset
    <3>3. QED
      BY <3>1, <3>2
  <2>7. range < 3 => q <= DOUBLE_START
    BY <1>4, <1>5, <2>3, <2>5, RangeEnds
  <2> HIDE DEF q, r
  <2>8. v.n = W \/ r = 0 \/ Len(data) + r <= B
    BY <2>1, <2>6
  <2>9. QED
    BY <2>7, <2>8 DEF q, r
<1>10. v \in Shown(s, data)
  BY <1>8 DEF InStep
<1>11. v \in Ready(s, data, range)
  BY <1>9, <1>10 DEF Ready
<1>12. QED
  BY <1>11 DEF v, places, offset

(* A whole rd_write that goes on from the end of a file.                   *)
LEMMA WrittenShows ==
  ASSUME FileFits, NEW f \in Files, OnePlace(f), NEW s, Shows(f, s), f.size = Len(s),
         NEW pos, NEW data \in Data, GoesOn(f, pos, Len(data))
  PROVE  Written(f, pos, data, Len(data)) \in Shown(s, data)
<1> DEFINE len == Len(data)
           c == [pos |-> pos, data |-> data, num_bytes |-> len]
           w0 == Begun(f)
           q == <<1, 2, 3>>
           R(i) == Ready(s, data, i)
           Inv == [i \in 0 .. 3 |-> {w \in R(i) : i = 0 => w.size = pos}]
<1>0. s \in Seq(Nat \ {ZERO}) /\ Len(s) \in Nat
  BY DEF Shows
<1>1. PICK g : /\ Passes("ranges", c, w0, q, 3, g)
               /\ Written(f, pos, data, len) = g[1 .. 3]
  BY RangesLoop
<1>2. w0 \in R(0) /\ w0.size = pos
  <2> DEFINE w == w0
  <2>2. /\ w \in Writes /\ w.n = 0 /\ w.size = f.size
        /\ w.pointers = f.pointers /\ w.bitmap = f.bitmap /\ w.data_blocks = f.data_blocks
    BY SlotFacts DEF Files, Writes, Begun
  <2> HIDE DEF w
  <2>3. f.pointers \in [InodeIdx -> BlockPtr] /\ f.data_blocks \in [BlockNum -> Block]
    BY DEF Files
  <2>4. OnePlace(w)
    BY <2>2, <2>3, SamePointers
  <2>5. Writable(data, len) >= 0 /\ 0 \in 0 .. Writable(data, len)
    BY WritableIs
  <2>6. Shows(w, s)
    BY <2>2, SameFile, ShowsKept
  <2>7. Text(s, data, 0) = s
    <3> DEFINE t == Text(s, data, 0)
    <3> HIDE DEF t
    <3>1. IsText(s, data, 0, t)
      BY <1>0, <2>5, TextIs DEF t
    <3>2. t \in Seq(Nat \ {ZERO}) /\ Len(t) = Len(s) /\ \A i \in 1 .. Len(s) : t[i] = s[i]
      BY <1>0, <3>1 DEF IsText
    <3>3. t = s
      BY <1>0, <3>2, SameSeq
    <3>4. QED
      BY <3>3 DEF t
  <2>8. w \in Shown(s, data)
    BY <1>0, <2>2, <2>4, <2>5, <2>6, <2>7 DEF Shown
  <2>9. /\ w.size \div BLOCK_SIZE <= DOUBLE_START /\ w.size = pos
        /\ w.size % BLOCK_SIZE = 0 \/ len + (w.size % BLOCK_SIZE) <= BLOCK_SIZE
    <3> DEFINE r == f.size % BLOCK_SIZE
    <3>1. /\ pos = f.size /\ f.size \div BLOCK_SIZE <= DOUBLE_START
          /\ r = 0 \/ r + len <= BLOCK_SIZE
      BY DEF GoesOn
    <3>2. r \in Nat /\ len \in Nat
      <4>1. f.size \in UInt
        BY DEF Files
      <4>2. r \in Offset
        BY <4>1, SizeIs
      <4>3. QED
        BY <4>2, WritableIs, DiscosIOAssumption DEF Offset
    <3> HIDE DEF r, len
    <3>3. r + len = len + r
      BY <3>2
    <3>4. QED
      BY <2>2, <3>1, <3>3 DEF r
  <2>10. QED
    BY <2>8, <2>9 DEF Ready, w
<1>3. ASSUME NEW range \in {1, 2, 3}, NEW w \in R(range - 1), range = 1 => w.size = pos
      PROVE  Pass("ranges", c, w, range) \in R(range)
  <2> DEFINE at  == IF range = 1 THEN pos ELSE w.size
             seg == at \div BLOCK_SIZE
             offset == at % BLOCK_SIZE
             out == IF w.out = "on" /\ range = 3 /\ seg >= MAX_BLOCKS THEN "limit" ELSE w.out
  <2>1. at = w.size
    BY <1>3
  <2>2. Pass("ranges", c, w, range) = IF w.out = "on" /\ InRange(seg, range)
                                      THEN WriteAt(w, Places(seg, range), offset, data, len)
                                      ELSE [w EXCEPT !.out = out]
    BY DEF Pass, WriteRange
  <2>3. CASE w.out = "on" /\ InRange(seg, range)
    <3>1. WriteAt(w, Places(seg, range), w.size % BLOCK_SIZE, data, len) \in R(range)
      <4> HIDE DEF at
      <4>1. QED
        BY <1>0, <2>1, <2>3, RangeShows
    <3>2. QED
      BY <2>1, <2>2, <2>3, <3>1
  <2>4. CASE ~(w.out = "on" /\ InRange(seg, range))
    <3> DEFINE v == [w EXCEPT !.out = out]
    <3>0. /\ w \in Writes /\ OnePlace(w) /\ w.n <= Writable(data, len)
          /\ Shows(w, Text(s, data, w.n)) /\ w.size = Len(s) + w.n
      BY DEF Ready, Shown
    <3>1. out \in {"on", "done", "no block", "limit"} /\ (out = "on" => w.out = "on")
      BY <3>0 DEF Writes
    <3> HIDE DEF out
    <3>2. /\ v \in Writes /\ v.n = w.n /\ v.size = w.size /\ v.out = out
          /\ v.pointers = w.pointers /\ v.bitmap = w.bitmap /\ v.data_blocks = w.data_blocks
      BY <3>0, <3>1 DEF Writes
    <3> HIDE DEF v
    <3>3. w.pointers \in [InodeIdx -> BlockPtr] /\ w.data_blocks \in [BlockNum -> Block]
      BY <3>0 DEF Writes
    <3>4. OnePlace(v)
      BY <3>0, <3>2, <3>3, SamePointers
    <3>5. Shows(v, Text(s, data, w.n))
      <4> DEFINE t == Text(s, data, w.n)
      <4> HIDE DEF t
      <4>1. Shows(w, t) /\ Kept(w, v)
        BY <3>0, <3>2, SameFile DEF t
      <4>2. Shows(v, t)
        BY <4>1, ShowsKept
      <4>3. QED
        BY <4>2 DEF t
    <3>6. v \in Shown(s, data)
      BY <3>0, <3>2, <3>4, <3>5 DEF Shown
    <3>7. v \in R(range)
      <4>1. range < 3 => range - 1 < 3
        OBVIOUS
      <4>2. QED
        BY <3>1, <3>2, <3>6, <4>1 DEF Ready
    <3>8. QED
      BY <2>2, <2>4, <3>7 DEF v
  <2>5. QED
    BY <2>3, <2>4
<1>4. /\ \A i \in 0 .. 3 : Inv[i] = {w \in R(i) : i = 0 => w.size = pos}
      /\ \A i \in 1 .. 3 : q[i] = i
  OBVIOUS
<1> HIDE DEF c, w0, q, R, Inv
<1>5. w0 \in Inv[0]
  BY <1>2, <1>4
<1>6. ASSUME NEW i \in 1 .. 3, NEW w \in Inv[i - 1] PROVE Pass("ranges", c, w, q[i]) \in Inv[i]
  <2>1. i \in {1, 2, 3} /\ i - 1 \in 0 .. 3 /\ (i = 1 => i - 1 = 0) /\ i # 0 /\ i \in 0 .. 3
    OBVIOUS
  <2>2. w \in R(i - 1) /\ (i = 1 => w.size = pos)
    BY <1>4, <2>1
  <2>3. Pass("ranges", c, w, i) \in R(i)
    BY <1>3, <2>1, <2>2
  <2>4. QED
    BY <1>4, <2>1, <2>3
<1>7. \A i \in 0 .. 3 : g[1 .. i] \in Inv[i]
  BY <1>1, <1>5, <1>6, LoopReaches
<1>8. g[1 .. 3] \in R(3)
  BY <1>4, <1>7
<1>9. QED
  BY <1>1, <1>8 DEF R, Ready

(* The inductive invariant of a file that was written in order.            *)
LogInv == FileInv /\ (inOrder => Shows(file, log) /\ file.size = Len(log))

(* rd_write keeps it: what goes on from the end is written there.          *)
LEMMA WriteLogs ==
  ASSUME FileFits, LogInv, NEW fd \in Fd, NEW data \in Data, rd_write(fd, data)
  PROVE  inOrder' => Shows(file', log') /\ file'.size = Len(log')
<1>1. /\ file \in Files /\ OnePlace(file)
      /\ inOrder => Shows(file, log) /\ file.size = Len(log)
  BY TypeOKIs, OnePlaceIs DEF FileInv, LogInv
<1>2. CASE fd \in ReadOnly
  BY <1>1, <1>2 DEF rd_write
<1>3. CASE fd \notin ReadOnly
  <2> DEFINE w == Written(file, cursor[fd], data, Len(data))
             t == Text(log, data, w.n)
  <2>1. SUFFICES ASSUME inOrder' PROVE Shows(file', log') /\ file'.size = Len(log')
    OBVIOUS
  <2>2. /\ file' = [size |-> w.size, pointers |-> w.pointers, bitmap |-> w.bitmap,
                    data_blocks |-> w.data_blocks]
        /\ inOrder /\ GoesOn(file, cursor[fd], Len(data)) /\ log' = t
    BY <1>3, <2>1 DEF rd_write, Text
  <2>3. w \in Shown(log, data)
    <3> DEFINE pos == cursor[fd]
    <3> HIDE DEF pos
    <3>1. GoesOn(file, pos, Len(data))
      BY <2>2 DEF pos
    <3>2. Written(file, pos, data, Len(data)) \in Shown(log, data)
      BY <1>1, <2>2, <3>1, WrittenShows
    <3>3. QED
      BY <3>2 DEF pos
  <2> HIDE DEF w
  <2>4. Shows(w, t) /\ w.size = Len(log) + w.n /\ w.n <= Writable(data, Len(data)) /\ w \in Writes
    BY <2>3 DEF Shown
  <2>5. /\ file'.size = w.size /\ file'.pointers = w.pointers
        /\ file'.data_blocks = w.data_blocks
    BY <2>2
  <2>6. Shows(file', t)
    <3> DEFINE v == file'
    <3>1. v.pointers = w.pointers /\ v.data_blocks = w.data_blocks
      BY <2>5
    <3> HIDE DEF v, t
    <3>2. Shows(v, t)
      BY <2>4, <3>1, SameFile, ShowsKept
    <3>3. QED
      BY <3>2 DEF v
  <2>7. Len(t) = Len(log) + w.n
    <3>1. w.n \in 0 .. Writable(data, Len(data)) /\ log \in Seq(Nat \ {ZERO})
      <4>1. w.n \in Nat /\ Writable(data, Len(data)) \in Nat
        <5>1. Writable(data, Len(data)) \in 0 .. Len(data) /\ Len(data) \in Nat
          BY WritableIs
        <5>2. Writable(data, Len(data)) \in Nat
          BY <5>1
        <5>3. QED
          BY <2>4, <5>2 DEF Writes
      <4>2. log \in Seq(Nat \ {ZERO})
        BY <1>1, <2>2 DEF Shows
      <4>3. QED
        BY <2>4, <4>1, <4>2
    <3> DEFINE n == w.n
    <3> HIDE DEF t, n
    <3>2. IsText(log, data, n, t)
      BY <3>1, TextIs DEF t, n
    <3>3. QED
      BY <3>2 DEF IsText, n
  <2>8. QED
    BY <2>2, <2>4, <2>5, <2>6, <2>7
<1>4. QED
  BY <1>2, <1>3

(* A new file shows no bytes.                                              *)
LEMMA LogInitially == Init => LogInv
<1> SUFFICES ASSUME Init PROVE LogInv
  OBVIOUS
<1>1. FileInv /\ file = EmptyFile /\ log = <<>>
  BY FileInitially DEF Init
<1>2. file.size = 0 /\ \A i \in InodeIdx : file.pointers[i] = NULL
  BY <1>1 DEF EmptyFile
<1>3. \A p : IsPlace(p) => BlockAt(file, p) = NULL
  <2>1. SINGLE \in InodeIdx /\ DOUBLE \in InodeIdx
    BY SlotFacts
  <2>2. QED
    BY <1>2, <2>1, BlockAtIs DEF IsPlace, Direct, Single, Double
<1>4. ASSUME NEW n \in 0 .. MAX_BLOCKS - 1, NEW j \in Offset PROVE Byte(file, PlaceNo(n), j) = ZERO
  <2>1. n \in Nat /\ n < MAX_BLOCKS
    BY RangeEnds
  <2>2. QED
    BY <1>3, <2>1, PlaceNoIs DEF Byte
<1>5. Shows(file, log) /\ file.size = Len(log)
  <2>1. log \in Seq(Nat \ {ZERO}) /\ Len(log) = 0
    BY <1>1
  <2>2. /\ 0 <= MAX_BLOCKS * BLOCK_SIZE
        /\ \A n \in 0 .. MAX_BLOCKS - 1 : \A j \in Offset : ~(n * BLOCK_SIZE + j < 0)
    <3>1. MAX_BLOCKS \in Nat /\ BLOCK_SIZE \in Nat /\ \A j \in Offset : j \in Nat
      BY RangeEnds, DiscosIOAssumption DEF Offset
    <3>2. MAX_BLOCKS * BLOCK_SIZE \in Nat
      BY <3>1
    <3>3. \A n \in 0 .. MAX_BLOCKS - 1 : n \in Nat /\ n * BLOCK_SIZE \in Nat
      BY <3>1
    <3>4. QED
      BY <3>1, <3>2, <3>3
  <2>3. QED
    BY <1>2, <1>4, <2>1, <2>2 DEF Shows
<1>6. QED
  BY <1>1, <1>5 DEF LogInv

(* No other step changes the file or the log.                              *)
LEMMA LogNext ==
  ASSUME FileFits, LogInv, [ReadNext]_io_vars
  PROVE  LogInv'
<1>1. FileInv'
  BY FileNext DEF LogInv
<1> DEFINE Logged == inOrder' => Shows(file', log') /\ file'.size = Len(log')
<1>2. Logged
  <2>1. CASE UNCHANGED <<file, log, inOrder>>
    BY <2>1 DEF LogInv
  <2>2. ASSUME NEW fd \in Fd, call(fd) PROVE Logged
    <3>1. CASE \E num_bytes \in Counts : read_begin(fd, num_bytes)
      BY <2>1, <3>1 DEF read_begin, rd_read
    <3>2. CASE \E data \in Data : rd_write(fd, data)
      BY <3>2, WriteLogs
    <3>3. CASE \E offset \in Offsets : rd_lseek(fd, offset)
      BY <2>1, <3>3 DEF rd_lseek
    <3>4. QED
      BY <2>2, <3>1, <3>2, <3>3 DEF call
  <2>3. ASSUME NEW fd \in Fd, copy_to_user(fd) PROVE Logged
    BY <2>1, <2>3 DEF copy_to_user, vars
  <2>4. ASSUME NEW fd \in Fd, read_end(fd) PROVE Logged
    BY <2>1, <2>4 DEF read_end, vars
  <2> HIDE DEF Logged
  <2>5. QED
    BY <2>1, <2>2, <2>3, <2>4 DEF ReadNext, io_vars, vars
<1>3. (inOrder => Shows(file, log) /\ file.size = Len(log))'
  BY <1>2
<1>4. QED
  BY <1>1, <1>3 DEF LogInv

(* The m bytes of s from position x on.                                    *)
IsPart(s, x, m, t) ==
  /\ t \in Seq(Nat \ {ZERO}) /\ m \in Nat /\ Len(t) = m
  /\ \A k \in 1 .. m : t[k] = s[x + k]

(* A block whose cells hold bytes from an offset on, and then '\0', is     *)
(* read as these bytes.                                                    *)
LEMMA BytesOf ==
  ASSUME NEW f \in Files, NEW b \in BlockNum, NEW offset \in Offset,
         NEW m \in Nat, m <= BLOCK_SIZE - offset, NEW t \in [1 .. m -> Nat \ {ZERO}],
         \A k \in 1 .. BLOCK_SIZE - offset :
           f.data_blocks[b].data[offset + k - 1] = IF k <= m THEN t[k] ELSE ZERO
  PROVE  Bytes(f, b, offset) = t
<1> DEFINE n == BLOCK_SIZE - offset
           q == [k \in 1 .. n |-> f.data_blocks[b].data[offset + k - 1]]
           S == Nat \ {ZERO}
           Got(i, v) == /\ v \in Seq(S)
                        /\ i <= m => Len(v) = i
                        /\ m <= i => Len(v) = m
                        /\ \A k \in 1 .. Len(v) : v[k] = t[k]
           Inv == [i \in 0 .. n |-> {v \in Seq(S) : Got(i, v)}]
<1>1. PICK g : Passes("select", 0, <<>>, q, n, g) /\ Bytes(f, b, offset) = g[1 .. n]
  BY SelectLoop
<1>2. n \in Nat /\ m \in 0 .. n
  BY DiscosIOAssumption DEF Offset
<1>3. \A k \in 1 .. n : q[k] = IF k <= m THEN t[k] ELSE ZERO
  OBVIOUS
<1>4. t \in Seq(S) /\ Len(t) = m
  BY ListIs
<1>5. \A i \in 0 .. n : \A v : v \in Inv[i] <=> Got(i, v)
  <2>1. \A i, v : Got(i, v) => v \in Seq(S)
    OBVIOUS
  <2> HIDE DEF Got
  <2>2. QED
    BY <2>1
<1>0. \A x \in S : x # ZERO
  OBVIOUS
<1>11. \A k \in 1 .. m : t[k] \in S
  OBVIOUS
<1> HIDE DEF n, q, S, Inv, Got
<1>6. <<>> \in Inv[0]
  <2> DEFINE e == <<>>
  <2>1. e \in Seq(S) /\ Len(e) = 0
    OBVIOUS
  <2> HIDE DEF e
  <2>2. Got(0, e)
    BY <1>2, <2>1 DEF Got
  <2>3. e \in Inv[0]
    BY <1>2, <1>5, <2>2
  <2>4. QED
    BY <2>3 DEF e
<1>7. ASSUME NEW i \in 1 .. n, NEW v \in Inv[i - 1] PROVE Pass("select", 0, v, q[i]) \in Inv[i]
  <2>1. i \in 0 .. n /\ i - 1 \in 0 .. n /\ m \in Nat
    BY <1>2
  <2>2. /\ v \in Seq(S) /\ Len(v) \in Nat
        /\ i - 1 <= m => Len(v) = i - 1
        /\ m <= i - 1 => Len(v) = m
        /\ \A k \in 1 .. Len(v) : v[k] = t[k]
    <3>1. Got(i - 1, v)
      BY <1>5, <2>1
    <3>2. QED
      BY <3>1 DEF Got
  <2>3. CASE i <= m
    <3> DEFINE u == Append(v, t[i])
    <3>1. i \in 1 .. m /\ Len(v) = i - 1
      BY <2>1, <2>2, <2>3
    <3>2. q[i] = t[i] /\ q[i] # ZERO /\ t[i] \in S
      BY <1>0, <1>3, <1>11, <2>3, <3>1
    <3>3. /\ u \in Seq(S) /\ Len(u) = i /\ u[i] = t[i]
          /\ \A k \in 1 .. i - 1 : u[k] = v[k]
      <4>1. i = Len(v) + 1
        BY <3>1
      <4>2. u \in Seq(S) /\ Len(u) = Len(v) + 1 /\ u[Len(v) + 1] = t[i]
            /\ \A k \in 1 .. Len(v) : u[k] = v[k]
        BY <2>2, <3>2, AppendProperties
      <4> HIDE DEF u
      <4>3. QED
        BY <3>1, <4>1, <4>2
    <3> HIDE DEF u
    <3>4. \A k \in 1 .. i : u[k] = t[k]
      <4>1. ASSUME NEW k \in 1 .. i, k # i PROVE u[k] = t[k]
        <5>1. k \in 1 .. i - 1 /\ k \in 1 .. Len(v)
          BY <3>1, <4>1
        <5>2. QED
          BY <2>2, <3>3, <5>1
      <4>2. QED
        BY <3>3, <4>1
    <3>5. m <= i => i = m
      BY <2>1, <2>3
    <3>6. Got(i, u)
      BY <2>3, <3>3, <3>4, <3>5 DEF Got
    <3>7. u \in Inv[i]
      BY <1>5, <2>1, <3>6
    <3>8. QED
      BY <3>2, <3>7 DEF Pass, u
  <2>4. CASE ~(i <= m)
    <3>1. q[i] = ZERO /\ m <= i - 1
      BY <1>3, <2>1, <2>4
    <3>2. Got(i, v)
      BY <2>2, <2>4, <3>1 DEF Got
    <3>3. v \in Inv[i]
      BY <1>5, <2>1, <3>2
    <3>4. QED
      BY <3>1, <3>3 DEF Pass
  <2>5. QED
    BY <2>3, <2>4
<1>8. \A i \in 0 .. n : g[1 .. i] \in Inv[i]
  BY <1>1, <1>2, <1>6, <1>7, LoopReaches
<1>9. n \in 0 .. n /\ m <= n
  BY <1>2
<1> DEFINE v == g[1 .. n]
<1>10. v \in Seq(S) /\ Len(v) = m /\ \A k \in 1 .. Len(v) : v[k] = t[k]
  <2>1. Got(n, v)
    BY <1>5, <1>8, <1>9
  <2>2. QED
    BY <1>9, <2>1 DEF Got
<1> HIDE DEF v
<1>12. v = t
  BY <1>4, <1>10, SameSeq
<1>13. QED
  BY <1>1, <1>12 DEF v

(* What rd_read finds in block n from an offset on.                        *)
Here(f, n, offset) ==
  IF BlockAt(f, PlaceNo(n)) = NULL THEN <<>> ELSE Bytes(f, BlockAt(f, PlaceNo(n)), offset)

(* In a file that shows s: what is in s there, to the end of the block or  *)
(* of s.                                                                   *)
LEMMA HereIs ==
  ASSUME NEW f \in Files, NEW s, Shows(f, s), NEW n \in 0 .. MAX_BLOCKS - 1, NEW offset \in Offset,
         NEW x, x = n * BLOCK_SIZE + offset
  PROVE  \E m \in Nat : /\ IsPart(s, x, m, Here(f, n, offset))
                        /\ m <= BLOCK_SIZE - offset
                        /\ m > 0 => x + m <= Len(s)
                        /\ m = BLOCK_SIZE - offset \/ x + m >= Len(s)
<1> DEFINE B == BLOCK_SIZE
           L == Len(s)
           X == n * B
           b == BlockAt(f, PlaceNo(n))
           room == B - offset
           m == IF x + room <= L THEN room ELSE IF x <= L THEN L - x ELSE 0
           t == [k \in 1 .. m |-> s[x + k]]
<1>1. /\ B \in Nat \ {0} /\ Offset = 0 .. B - 1 /\ offset \in Nat /\ offset < B /\ n \in Nat
      /\ n < MAX_BLOCKS
  BY RangeEnds, DiscosIOAssumption DEF Offset
<1>2. X \in Nat /\ x = X + offset
  BY <1>1
<1>3. /\ s \in Seq(Nat \ {ZERO}) /\ L \in Nat
      /\ \A j \in Offset : Byte(f, PlaceNo(n), j) = IF X + j < L THEN s[X + j + 1] ELSE ZERO
  BY DEF Shows
<1>4. b \in BlockPtr
  <2> DEFINE p == PlaceNo(n)
  <2>1. IsPlace(p)
    BY <1>1, PlaceNoIs
  <2> HIDE DEF p
  <2>2. BlockAt(f, p) \in BlockPtr
    BY <2>1, BlockFound
  <2>3. QED
    BY <2>2 DEF p
<1>5. \A k \in 1 .. L : s[k] \in Nat \ {ZERO}
  BY <1>3
<1>6. room \in Nat \ {0}
  BY <1>1
<1> HIDE DEF B, L, X, b, room
<1>7. /\ m \in Nat /\ m <= room
      /\ m > 0 => x + m <= L
      /\ m = room \/ x + m >= L
      /\ \A k \in 1 .. room : k <= m <=> x + k <= L
  BY <1>1, <1>2, <1>3, <1>6
<1>8. t \in [1 .. m -> Nat \ {ZERO}]
  <2>1. \A k \in 1 .. m : x + k \in 1 .. L
    BY <1>1, <1>2, <1>3, <1>7
  <2> HIDE DEF m
  <2>2. QED
    BY <1>5, <2>1
<1>9. \A k \in 1 .. m : t[k] = s[x + k]
  OBVIOUS
<1> HIDE DEF m, t
<1>10. t \in Seq(Nat \ {ZERO}) /\ Len(t) = m
  BY <1>7, <1>8, ListIs
<1>11. ASSUME NEW k \in 1 .. room
       PROVE  /\ offset + k - 1 \in Offset
              /\ Byte(f, PlaceNo(n), offset + k - 1) = IF k <= m THEN t[k] ELSE ZERO
  <2> DEFINE j == offset + k - 1
  <2>1. j \in Offset /\ X + j + 1 = x + k /\ X + j = x + k - 1
    BY <1>1, <1>2, <1>6 DEF room
  <2>2. k <= m => k \in 1 .. m
    BY <1>7
  <2>4. X + j < L <=> x + k <= L
    BY <1>1, <1>2, <1>3, <1>6, <2>1
  <2> HIDE DEF j
  <2>3. Byte(f, PlaceNo(n), j) = IF X + j < L THEN s[X + j + 1] ELSE ZERO
    BY <1>3, <2>1
  <2>5. k <= m <=> X + j < L
    BY <1>7, <2>4
  <2>6. k <= m => t[k] = s[X + j + 1]
    BY <1>9, <2>1, <2>2
  <2>7. QED
    BY <2>1, <2>3, <2>5, <2>6 DEF j
<1>12. Here(f, n, offset) = t
  <2>1. CASE b = NULL
    <3>1. m = 0
      <4>1. ASSUME m > 0 PROVE FALSE
        <5>1. 1 \in 1 .. m /\ 1 \in 1 .. room
          BY <1>6, <1>7, <4>1
        <5>2. t[1] # ZERO
          BY <1>8, <5>1
        <5>3. 1 <= m
          BY <5>1
        <5>4. Byte(f, PlaceNo(n), offset + 1 - 1) = t[1]
          BY <1>11, <5>1, <5>3
        <5>5. QED
          BY <2>1, <5>2, <5>4 DEF Byte, b
      <4>2. QED
        BY <1>7, <4>1
    <3>2. t = <<>>
      BY <1>10, <3>1, EmptySeq
    <3>3. QED
      BY <2>1, <3>2 DEF Here, b
  <2>2. CASE b # NULL
    <3>1. b \in BlockNum
      BY <1>4, <2>2 DEF BlockPtr
    <3>2. \A k \in 1 .. BLOCK_SIZE - offset :
            f.data_blocks[b].data[offset + k - 1] = IF k <= m THEN t[k] ELSE ZERO
      <4>1. \A j : Byte(f, PlaceNo(n), j) = f.data_blocks[b].data[j]
        BY <2>2 DEF Byte, b
      <4>2. QED
        BY <1>11, <4>1 DEF room, B
    <3>3. m <= BLOCK_SIZE - offset
      BY <1>7 DEF room, B
    <3>4. Bytes(f, b, offset) = t
      BY <1>7, <1>8, <3>1, <3>2, <3>3, BytesOf
    <3>5. QED
      BY <2>2, <3>4 DEF Here, b
  <2>3. QED
    BY <2>1, <2>2
<1>13. IsPart(s, x, m, t)
  BY <1>7, <1>9, <1>10 DEF IsPart
<1>14. QED
  BY <1>7, <1>12, <1>13 DEF room, B, L

(* The file that is read from its start is what its cells show.            *)
LEMMA ContentsShow ==
  ASSUME file \in Files, NEW s, Shows(file, s)
  PROVE  Contents = s
<1> DEFINE N == MAX_BLOCKS
           B == BLOCK_SIZE
           L == Len(s)
           S == Nat \ {ZERO}
           seqs == [k \in 1 .. Len(AllPlaces) |->
                      LET b == BlockAt(file, AllPlaces[k])
                      IN  IF b = NULL THEN <<>> ELSE Bytes(file, b, 0)]
           Got(k, v) == /\ IsPart(s, 0, Len(v), v)
                        /\ Len(v) <= L /\ Len(v) <= k * B
                        /\ Len(v) = L \/ Len(v) = k * B
           Inv == [k \in 1 .. N |-> {v \in Seq(S) : Got(k, v)}]
<1>1. /\ N \in Nat \ {0} /\ B \in Nat \ {0} /\ 0 \in Offset /\ L \in Nat /\ s \in Seq(S)
      /\ L <= N * B
  BY RangeEnds, DiscosIOAssumption DEF Offset, Shows
<1>2. Len(AllPlaces) = N /\ \A k \in 1 .. N : AllPlaces[k] = PlaceNo(k - 1)
  BY AllPlacesAre
<1>3. /\ Contents = FlattenSeq(seqs) /\ Len(seqs) = N
      /\ \A k \in 1 .. N : seqs[k] = Here(file, k - 1, 0)
  <2>1. Contents = FlattenSeq(seqs)
    BY DEF Contents
  <2>2. Len(seqs) = N
    <3> HIDE DEF N
    <3>1. QED
      BY <1>1, <1>2
  <2>3. ASSUME NEW k \in 1 .. N PROVE seqs[k] = Here(file, k - 1, 0)
    <3> HIDE DEF N
    <3>1. QED
      BY <1>2 DEF Here
  <2>4. QED
    BY <2>1, <2>2, <2>3
<1>4. \A k \in 1 .. N : \A v : v \in Inv[k] <=> Got(k, v)
  <2>1. \A k, v : Got(k, v) => v \in Seq(S)
    BY DEF IsPart
  <2> HIDE DEF Got, S, N
  <2>2. QED
    BY <2>1
<1>5. ASSUME NEW k \in 1 .. N
      PROVE  LET x == (k - 1) * B
             IN  /\ x \in Nat /\ k * B = x + B
                 /\ \E m \in Nat : /\ IsPart(s, x, m, seqs[k])
                                   /\ m <= B
                                   /\ m > 0 => x + m <= L
                                   /\ m = B \/ x + m >= L
  <2> DEFINE n == k - 1
             x == n * B
  <2>1. n \in 0 .. N - 1 /\ n \in Nat /\ k = n + 1
    BY <1>1
  <2>2. x \in Nat /\ k * B = x + B /\ x = x + 0 /\ B - 0 = B
    <3> HIDE DEF n
    <3>1. x \in Nat
      BY <1>1, <2>1
    <3>2. (n + 1) * B = n * B + B
      BY <1>1, <2>1
    <3>3. QED
      BY <1>1, <2>1, <3>1, <3>2
  <2>3. x = n * BLOCK_SIZE + 0
    BY <2>2
  <2> HIDE DEF n, x
  <2>4. \E m \in Nat : /\ IsPart(s, x, m, Here(file, n, 0))
                       /\ m <= BLOCK_SIZE - 0
                       /\ m > 0 => x + m <= Len(s)
                       /\ m = BLOCK_SIZE - 0 \/ x + m >= Len(s)
    BY <1>1, <2>1, <2>3, HereIs
  <2>5. seqs[k] = Here(file, n, 0)
    BY <1>3 DEF n
  <2> HIDE DEF seqs
  <2>6. \E m \in Nat : /\ IsPart(s, x, m, seqs[k])
                       /\ m <= B
                       /\ m > 0 => x + m <= L
                       /\ m = B \/ x + m >= L
    BY <2>2, <2>4, <2>5
  <2>7. QED
    BY <2>2, <2>6 DEF x, n
<1> HIDE DEF N, B, L, S, seqs, Got, Inv
<1>6. seqs[1] \in Inv[1]
  <2> DEFINE v == seqs[1]
  <2>1. 1 \in 1 .. N /\ (1 - 1) * B = 0 /\ 1 * B = B
    BY <1>1
  <2>2. PICK m \in Nat : /\ IsPart(s, 0, m, v) /\ m <= B
                         /\ m > 0 => m <= L
                         /\ m = B \/ m >= L
    <3>1. \E m \in Nat : /\ IsPart(s, 0, m, v) /\ m <= B
                         /\ m > 0 => 0 + m <= L
                         /\ m = B \/ 0 + m >= L
      BY <1>5, <2>1
    <3>2. QED
      BY <3>1
  <2> HIDE DEF v
  <2>3. Len(v) = m
    BY <2>2 DEF IsPart
  <2>4. Got(1, v)
    BY <1>1, <2>1, <2>2, <2>3 DEF Got
  <2>5. QED
    BY <1>4, <2>1, <2>4 DEF v
<1>7. ASSUME NEW i \in 2 .. N, NEW v \in Inv[i - 1] PROVE v \o seqs[i] \in Inv[i]
  <2> DEFINE k == i - 1
             x == k * B
             h == seqs[i]
             u == v \o h
  <2>1. i \in 1 .. N /\ k \in 1 .. N /\ k \in Nat
    BY <1>1
  <2>2. PICK m \in Nat : /\ x \in Nat /\ i * B = x + B
                         /\ IsPart(s, x, m, h) /\ m <= B
                         /\ m > 0 => x + m <= L
                         /\ m = B \/ x + m >= L
    BY <1>5, <2>1
  <2>3. /\ IsPart(s, 0, Len(v), v) /\ Len(v) \in Nat
        /\ Len(v) <= L /\ Len(v) <= x /\ (Len(v) = L \/ Len(v) = x)
    <3> HIDE DEF k
    <3>1. Got(k, v)
      BY <1>4, <2>1 DEF k
    <3>2. IsPart(s, 0, Len(v), v)
      BY <3>1 DEF Got
    <3>3. Len(v) \in Nat
      BY <3>2 DEF IsPart
    <3>4. QED
      BY <3>1, <3>2, <3>3 DEF Got
  <2> HIDE DEF k, x, h, u
  <2>4. /\ u \in Seq(S) /\ Len(u) = Len(v) + m
        /\ \A j \in 1 .. Len(v) : u[j] = v[j]
        /\ \A j \in 1 .. m : u[Len(v) + j] = h[j]
    <3>1. v \in Seq(S) /\ h \in Seq(S) /\ u = v \o h /\ Len(h) = m
      BY <2>2, <2>3 DEF IsPart, u, S
    <3>2. Joins(S, v, h, u)
      BY <3>1, JoinIs
    <3>3. QED
      BY <3>1, <3>2 DEF Joins
  <2>5. m > 0 => Len(v) = x
    BY <1>1, <2>2, <2>3
  <2>6. \A j \in 1 .. Len(u) : u[j] = s[0 + j]
    <3>1. ASSUME NEW j \in 1 .. Len(u) PROVE u[j] = s[0 + j]
      <4>1. CASE j \in 1 .. Len(v)
        BY <2>3, <2>4, <4>1 DEF IsPart
      <4>2. CASE j \notin 1 .. Len(v)
        <5> DEFINE d == j - Len(v)
        <5>1. d \in 1 .. m /\ j = Len(v) + d /\ Len(v) = x
          BY <2>3, <2>4, <2>5, <4>2
        <5> HIDE DEF d
        <5>2. u[j] = h[d] /\ h[d] = s[x + d]
          BY <2>2, <2>4, <5>1 DEF IsPart
        <5>3. 0 + j = x + d
          BY <2>2, <5>1
        <5>4. QED
          BY <5>2, <5>3
      <4>3. QED
        BY <4>1, <4>2
    <3>2. QED
      BY <3>1
  <2>7. IsPart(s, 0, Len(u), u)
    BY <2>3, <2>4, <2>6 DEF IsPart, S
  <2>8. Len(u) <= L /\ Len(u) <= i * B /\ (Len(u) = L \/ Len(u) = i * B)
    <3> DEFINE n == Len(v)
    <3>1. Len(u) = n + m /\ n \in Nat /\ n <= L /\ n <= x /\ (n = L \/ n = x) /\ (m > 0 => n = x)
      BY <2>3, <2>4, <2>5
    <3> HIDE DEF n
    <3>2. QED
      BY <1>1, <2>2, <3>1
  <2>9. Got(i, u)
    BY <2>7, <2>8 DEF Got
  <2>10. QED
    BY <1>4, <2>1, <2>9 DEF u, h
<1>8. FlattenSeq(seqs) \in Inv[N]
  BY <1>1, <1>3, <1>6, <1>7, Joined
<1> DEFINE v == FlattenSeq(seqs)
<1>9. Got(N, v)
  BY <1>1, <1>4, <1>8
<1> HIDE DEF v
<1>10. v \in Seq(S) /\ Len(v) = L /\ \A j \in 1 .. L : v[j] = s[j]
  <2>1. /\ IsPart(s, 0, Len(v), v) /\ Len(v) <= L /\ (Len(v) = L \/ Len(v) = N * B)
    BY <1>9 DEF Got
  <2>2. v \in Seq(S) /\ Len(v) \in Nat /\ \A j \in 1 .. Len(v) : v[j] = s[0 + j]
    BY <2>1 DEF IsPart, S
  <2>3. Len(v) = L
    BY <1>1, <2>1, <2>2
  <2>4. \A j \in 1 .. L : 0 + j = j
    BY <1>1
  <2>5. QED
    BY <2>2, <2>3, <2>4
<1>11. v = s
  BY <1>1, <1>10, SameSeq DEF L
<1>12. QED
  BY <1>3, <1>11 DEF v

(* Where a file can be no larger than an unsigned int, as in the code,     *)
(* what rd_write is given call after call, each going on at the end, is    *)
(* the file: through direct, single and double indirect blocks, whichever  *)
(* blocks it gets, and also when it runs out of them or stops at a '\0'.   *)
THEOREM WritesKept ==
  ASSUME FileFits
  PROVE  ReadSpec => []SequentialWritesKept
<1>1. ReadInit => LogInv
  BY LogInitially DEF ReadInit
<1>2. LogInv /\ [ReadNext]_io_vars => LogInv'
  BY LogNext
<1>3. LogInv => SequentialWritesKept
  <2>1. SUFFICES ASSUME LogInv, inOrder PROVE Contents = log /\ file.size = Len(log)
    BY DEF SequentialWritesKept
  <2>2. file \in Files /\ Shows(file, log) /\ file.size = Len(log)
    BY <2>1, TypeOKIs DEF LogInv, FileInv
  <2>3. QED
    BY <2>2, ContentsShow
<1>4. QED
  BY <1>1, <1>2, <1>3, PTL DEF ReadSpec

-----------------------------------------------------------------------------
(* What is read back                                                       *)

(* A read of bytes that the file has, within a block or from the start of  *)
(* one.                                                                    *)
InPlace(s, pos, num_bytes, offset) ==
  /\ num_bytes > 0 /\ pos + num_bytes <= Len(s)
  /\ offset = 0 \/ num_bytes + offset <= BLOCK_SIZE

(* What a rd_read from pos has found when its loop comes to position x of  *)
(* a file that shows s: no more than is there, and if it is in place all   *)
(* of it, until it has what it wants.                                      *)
ReadTo(s, pos, num_bytes, offset, x, whole) ==
  {r \in Found :
     /\ pos + Len(r.bytes) <= Len(s) /\ pos + Len(r.bytes) <= x
     /\ whole =>
          /\ IsPart(s, pos, Len(r.bytes), r.bytes)
          /\ r.done => Len(r.bytes) = num_bytes
          /\ ~r.done => Len(r.bytes) < num_bytes /\ pos + Len(r.bytes) = x}

(* Some of the bytes here: all, or as many as are wanted.                  *)
IsTaken(S, here, wanted, got) ==
  \E g \in Nat : /\ got \in Seq(S) /\ Len(got) = g /\ g <= Len(here)
                 /\ \A k \in 1 .. g : got[k] = here[k]
                 /\ wanted > 0 => g <= wanted
                 /\ g = Len(here) \/ g = wanted

(* What is taken of the bytes of a block: no more than is wanted.          *)
LEMMA Taken ==
  ASSUME NEW S, NEW here \in Seq(S), NEW wanted \in Int,
         NEW got, got = IF wanted > 0 /\ wanted < Len(here) THEN SubSeq(here, 1, wanted) ELSE here
  PROVE  IsTaken(S, here, wanted, got)
<1>1. Len(here) \in Nat /\ \A k \in 1 .. Len(here) : here[k] \in S
  OBVIOUS
<1>2. CASE wanted > 0 /\ wanted < Len(here)
  <2>1. wanted \in Nat /\ wanted <= Len(here) /\ got = SubSeq(here, 1, wanted)
    BY <1>1, <1>2
  <2>2. \A k \in 1 .. wanted : here[k] \in S
    BY <1>1, <2>1
  <2>3. got = [k \in 1 .. wanted |-> here[k]]
    <3> DEFINE sub == SubSeq(here, 1, wanted)
    <3>1. sub = [k \in 1 .. (wanted - 1 + 1) |-> here[1 + k - 1]]
      OBVIOUS
    <3>2. got = sub
      BY <2>1
    <3> HIDE DEF sub
    <3>3. wanted - 1 + 1 = wanted /\ \A k \in 1 .. wanted : 1 + k - 1 = k
      BY <2>1
    <3>4. QED
      BY <3>1, <3>2, <3>3
  <2>4. got \in [1 .. wanted -> S] /\ \A k \in 1 .. wanted : got[k] = here[k]
    BY <2>2, <2>3
  <2>5. got \in Seq(S) /\ Len(got) = wanted
    BY <2>1, <2>4, ListIs
  <2>6. QED
    BY <2>1, <2>4, <2>5 DEF IsTaken
<1>3. CASE ~(wanted > 0 /\ wanted < Len(here))
  <2> DEFINE n == Len(here)
  <2>1. got = here /\ n \in Nat
    BY <1>1, <1>3
  <2>2. wanted > 0 => n <= wanted
    BY <1>1, <1>3
  <2>3. got \in Seq(S) /\ Len(got) = n /\ \A k \in 1 .. n : got[k] = here[k]
    BY <2>1
  <2> HIDE DEF n
  <2>4. n <= n
    BY <2>1
  <2>5. QED
    BY <2>1, <2>2, <2>3, <2>4 DEF n, IsTaken
<1>4. QED
  BY <1>2, <1>3

(* A block does so, ...                                                    *)
LEMMA BlockReadTo ==
  ASSUME NEW f \in Files, NEW s, Shows(f, s), NEW n \in 0 .. MAX_BLOCKS - 1, NEW offset \in Offset,
         NEW pos \in Nat, NEW num_bytes \in Nat, NEW whole \in BOOLEAN,
         NEW x, x = n * BLOCK_SIZE + offset,
         NEW u \in ReadTo(s, pos, num_bytes, offset, x, whole),
         whole => InPlace(s, pos, num_bytes, offset),
         NEW c, c.f = f /\ c.num_bytes = num_bytes /\ c.offset = offset
  PROVE  ReadBlock(c, u, PlaceNo(n)) \in ReadTo(s, pos, num_bytes, offset, x + BLOCK_SIZE, whole)
<1> DEFINE B == BLOCK_SIZE
           L == Len(s)
           S == Nat \ {ZERO}
           here == Here(f, n, offset)
           a == Len(u.bytes)
           wanted == num_bytes - a
           got == IF wanted > 0 /\ wanted < Len(here) THEN SubSeq(here, 1, wanted) ELSE here
           all == u.bytes \o got
<1>1. /\ B \in Nat \ {0} /\ offset \in Nat /\ offset < B /\ n \in Nat /\ L \in Nat /\ x \in Nat
  <2>1. B \in Nat \ {0} /\ Offset = 0 .. B - 1 /\ n \in Nat
    BY RangeEnds, DiscosIOAssumption DEF Offset
  <2>2. n * B \in Nat
    BY <2>1
  <2>3. L \in Nat
    BY DEF Shows
  <2>4. QED
    BY <2>1, <2>2, <2>3
<1>2. /\ u \in Found /\ u.bytes \in Seq(Nat) /\ a \in Nat /\ u.done \in BOOLEAN
      /\ pos + a <= L /\ pos + a <= x
      /\ whole => /\ IsPart(s, pos, a, u.bytes)
                  /\ u.done => a = num_bytes
                  /\ ~u.done => a < num_bytes /\ pos + a = x
  BY DEF ReadTo, Found
<1>3. ReadBlock(c, u, PlaceNo(n)) = IF u.done THEN u
                                    ELSE [bytes |-> all, done |-> Len(all) = num_bytes]
  BY DEF ReadBlock, Here
<1>4. CASE u.done
  <2>1. pos + a <= x + B
    BY <1>1, <1>2
  <2>2. u \in ReadTo(s, pos, num_bytes, offset, x + B, whole)
    <3> DEFINE y == x + B
    <3> HIDE DEF y
    <3>1. u \in ReadTo(s, pos, num_bytes, offset, y, whole)
      BY <1>2, <1>4, <2>1 DEF ReadTo, y
    <3>2. QED
      BY <3>1 DEF y
  <2>3. QED
    BY <1>3, <1>4, <2>2
<1>5. CASE ~u.done
  <2>1. PICK m \in Nat : /\ IsPart(s, x, m, here)
                         /\ m <= B - offset
                         /\ m > 0 => x + m <= L
                         /\ m = B - offset \/ x + m >= L
    BY HereIs
  <2> HIDE DEF here
  <2>2. here \in Seq(S) /\ Len(here) = m /\ \A k \in 1 .. m : here[k] = s[x + k]
    BY <2>1 DEF IsPart
  <2>3. wanted \in Int
    BY <1>2
  <2>4. PICK g \in Nat : /\ got \in Seq(S) /\ Len(got) = g /\ g <= m
                         /\ \A k \in 1 .. g : got[k] = here[k]
                         /\ wanted > 0 => g <= wanted
                         /\ g = m \/ g = wanted
    <3>1. got = IF wanted > 0 /\ wanted < Len(here) THEN SubSeq(here, 1, wanted) ELSE here
      OBVIOUS
    <3> HIDE DEF wanted, S, got
    <3>2. IsTaken(S, here, wanted, got)
      BY <2>2, <2>3, <3>1, Taken
    <3>3. QED
      BY <2>2, <3>2 DEF IsTaken
  <2> HIDE DEF got
  <2>5. /\ all \in Seq(Nat) /\ Len(all) = a + g
        /\ \A j \in 1 .. a : all[j] = u.bytes[j]
        /\ \A k \in 1 .. g : all[a + k] = got[k]
    <3>1. got \in Seq(Nat)
      BY <2>4
    <3> DEFINE b == u.bytes
               t == b \o got
    <3> HIDE DEF b, t
    <3>2. Joins(Nat, b, got, t)
      BY <1>2, <3>1, JoinIs DEF b, t
    <3>3. QED
      BY <2>4, <3>2 DEF Joins, b, t
  <2>6. pos + (a + g) <= L /\ pos + (a + g) <= x + B
    <3> HIDE DEF L, B, a
    <3>1. CASE g = 0
      BY <1>1, <1>2, <3>1
    <3>2. CASE g > 0
      BY <1>1, <1>2, <2>1, <2>4, <3>2
    <3>3. QED
      BY <2>4, <3>1, <3>2
  <2> HIDE DEF all
  <2>7. ASSUME whole
        PROVE  /\ IsPart(s, pos, a + g, all)
               /\ a + g # num_bytes => a + g < num_bytes /\ pos + (a + g) = x + B
    <3>1. /\ IsPart(s, pos, a, u.bytes) /\ a < num_bytes /\ pos + a = x
          /\ num_bytes > 0 /\ pos + num_bytes <= L /\ (offset = 0 \/ num_bytes + offset <= B)
      BY <1>2, <1>5, <2>7 DEF InPlace
    <3>2. ASSUME NEW j \in 1 .. a + g PROVE all[j] = s[pos + j] /\ all[j] \in S
      <4>1. CASE j \in 1 .. a
        <5>1. u.bytes \in Seq(S) /\ u.bytes[j] = s[pos + j]
          BY <3>1, <4>1 DEF IsPart
        <5>2. u.bytes[j] \in S
          BY <4>1, <5>1
        <5>3. QED
          BY <2>5, <4>1, <5>1, <5>2
      <4>2. CASE j \notin 1 .. a
        <5> DEFINE k == j - a
        <5>1. k \in 1 .. g /\ k \in 1 .. m /\ j = a + k /\ pos + j = x + k
          <6> HIDE DEF a
          <6>1. QED
            BY <1>1, <1>2, <2>4, <3>1, <4>2
        <5> HIDE DEF k
        <5>2. all[j] = got[k] /\ got[k] = here[k] /\ here[k] = s[x + k]
          BY <2>2, <2>4, <2>5, <5>1
        <5>3. got[k] \in S
          BY <2>4, <5>1
        <5>4. QED
          BY <5>1, <5>2, <5>3
      <4>3. QED
        BY <4>1, <4>2
    <3>3. all \in Seq(S)
      <4>1. all = [j \in 1 .. a + g |-> all[j]]
        <5>1. all = [j \in 1 .. Len(all) |-> all[j]]
          BY <2>5
        <5>2. QED
          BY <2>5, <5>1
      <4>2. all \in [1 .. a + g -> S]
        BY <3>2, <4>1
      <4>3. a + g \in Nat
        BY <1>2
      <4> DEFINE y == a + g
      <4> HIDE DEF y
      <4>4. all \in Seq(S)
        BY <4>2, <4>3, ListIs DEF y
      <4>5. QED
        BY <4>4
    <3>4. IsPart(s, pos, a + g, all)
      BY <1>2, <2>4, <2>5, <3>2, <3>3 DEF IsPart
    <3>5. ASSUME a + g # num_bytes PROVE a + g < num_bytes /\ pos + (a + g) = x + B
      <4> HIDE DEF L, B, a
      <4>1. wanted > 0 /\ g <= wanted /\ g = m /\ a + m < num_bytes
        BY <1>2, <2>4, <3>1, <3>5
      <4>2. m = B - offset
        BY <1>1, <1>2, <2>1, <3>1, <4>1
      <4>3. offset = 0
        BY <1>1, <1>2, <2>1, <3>1, <4>1, <4>2
      <4>4. QED
        BY <1>1, <1>2, <3>1, <4>1, <4>2, <4>3
    <3>6. QED
      BY <3>4, <3>5
  <2>8. [bytes |-> all, done |-> Len(all) = num_bytes]
          \in ReadTo(s, pos, num_bytes, offset, x + B, whole)
    <3> DEFINE d == Len(all) = num_bytes
               v == [bytes |-> all, done |-> d]
               y == x + B
    <3>1. d \in BOOLEAN /\ (d <=> a + g = num_bytes)
      BY <2>5
    <3> HIDE DEF d
    <3>2. v \in Found /\ v.bytes = all /\ v.done = d
      BY <2>5, <3>1 DEF Found
    <3> HIDE DEF v, y
    <3>3. Len(v.bytes) = a + g /\ pos + (a + g) <= y /\ pos + (a + g) <= L
      BY <2>5, <2>6, <3>2 DEF y
    <3>4. whole => /\ IsPart(s, pos, a + g, all)
                   /\ a + g # num_bytes => a + g < num_bytes /\ pos + (a + g) = y
      BY <2>7 DEF y
    <3> DEFINE e == a + g
    <3> HIDE DEF e, a
    <3>5. v \in ReadTo(s, pos, num_bytes, offset, y, whole)
      BY <3>1, <3>2, <3>3, <3>4 DEF ReadTo, e
    <3>6. QED
      BY <3>5 DEF v, d, y
  <2>9. QED
    BY <1>3, <1>5, <2>8
<1>6. QED
  BY <1>4, <1>5

(* ... and so does the loop over the blocks of a range, which comes to     *)
(* them in order.                                                          *)
LEMMA ReadAtTo ==
  ASSUME NEW f \in Files, NEW s, Shows(f, s), NEW offset \in Offset, NEW pos \in Nat,
         NEW num_bytes \in Nat, NEW whole \in BOOLEAN,
         whole => InPlace(s, pos, num_bytes, offset),
         NEW first \in Nat, NEW k \in Nat, first + k <= MAX_BLOCKS,
         NEW places, DOMAIN places = 1 .. k, \A i \in 1 .. k : places[i] = PlaceNo(first + i - 1),
         NEW r \in ReadTo(s, pos, num_bytes, offset, first * BLOCK_SIZE + offset, whole)
  PROVE  ReadAt(f, r, places, offset, num_bytes)
           \in ReadTo(s, pos, num_bytes, offset, (first + k) * BLOCK_SIZE + offset, whole)
<1> DEFINE c == [f |-> f, num_bytes |-> num_bytes, offset |-> offset]
           S(n) == ReadTo(s, pos, num_bytes, offset, n * BLOCK_SIZE + offset, whole)
           Inv == [i \in 0 .. k |-> S(first + i)]
<1>1. PICK g : Passes("read", c, r, places, k, g) /\ ReadAt(f, r, places, offset, num_bytes) = g[1 .. k]
  BY ReadLoop
<1>2. c.f = f /\ c.num_bytes = num_bytes /\ c.offset = offset
  OBVIOUS
<1> HIDE DEF c
<1>3. ASSUME NEW n \in 0 .. MAX_BLOCKS - 1, NEW u \in S(n)
      PROVE  Pass("read", c, u, PlaceNo(n)) \in S(n + 1)
  <2> DEFINE x == n * BLOCK_SIZE + offset
  <2>1. (n + 1) * BLOCK_SIZE + offset = x + BLOCK_SIZE
    <3> DEFINE B == BLOCK_SIZE
    <3>1. n \in Nat /\ B \in Nat /\ offset \in Nat /\ n * B \in Nat
      BY RangeEnds, DiscosIOAssumption DEF Offset
    <3>2. (n + 1) * B = n * B + B
      BY <3>1
    <3> DEFINE y == n * B
    <3>3. y \in Nat
      BY <3>1
    <3> HIDE DEF B, y
    <3>4. (y + B) + offset = (y + offset) + B
      BY <3>1, <3>3
    <3>5. QED
      BY <3>2, <3>4 DEF B, y
  <2>2. u \in ReadTo(s, pos, num_bytes, offset, x, whole) /\ x = n * BLOCK_SIZE + offset
    OBVIOUS
  <2> HIDE DEF x
  <2>3. ReadBlock(c, u, PlaceNo(n)) \in ReadTo(s, pos, num_bytes, offset, x + BLOCK_SIZE, whole)
    BY <1>2, <2>2, BlockReadTo
  <2>4. QED
    BY <2>1, <2>3 DEF Pass
<1> HIDE DEF S
<1>4. (\A i \in 0 .. k : Inv[i] = S(first + i)) /\ r \in Inv[0]
  BY DEF S
<1> HIDE DEF Inv
<1>5. ASSUME NEW i \in 1 .. k, NEW u \in Inv[i - 1] PROVE Pass("read", c, u, places[i]) \in Inv[i]
  <2> DEFINE n == first + i - 1
  <2>1. n \in 0 .. MAX_BLOCKS - 1 /\ n + 1 = first + i /\ i - 1 \in 0 .. k /\ i \in 0 .. k
        /\ first + (i - 1) = n
    BY RangeEnds
  <2>2. u \in S(n) /\ places[i] = PlaceNo(n)
    BY <1>4, <2>1
  <2> HIDE DEF n
  <2>3. Pass("read", c, u, PlaceNo(n)) \in S(n + 1)
    BY <1>3, <2>1, <2>2
  <2>4. QED
    BY <1>4, <2>1, <2>2, <2>3
<1>6. \A i \in 0 .. k : g[1 .. i] \in Inv[i]
  BY <1>1, <1>4, <1>5, LoopReaches
<1>7. k \in 0 .. k
  OBVIOUS
<1>8. QED
  BY <1>1, <1>4, <1>6, <1>7 DEF S

(* A read that AlignedReadsBack is about.                                  *)
Aligned(s, pos, num_bytes) ==
  InPlace(s, pos, num_bytes, pos % BLOCK_SIZE) /\ pos \div BLOCK_SIZE <= DOUBLE_START

(* What a rd_read has found before range i + 1.                            *)
ReadyTo(s, pos, num_bytes, i) ==
  {r \in Found :
     /\ pos + Len(r.bytes) <= Len(s)
     /\ Aligned(s, pos, num_bytes) =>
          /\ IsPart(s, pos, Len(r.bytes), r.bytes)
          /\ r.done => Len(r.bytes) = num_bytes
          /\ ~r.done => LET at == pos + Len(r.bytes)
                        IN  /\ Len(r.bytes) < num_bytes
                            /\ at % BLOCK_SIZE = 0 \/ num_bytes + (at % BLOCK_SIZE) <= BLOCK_SIZE
                            /\ i > 0 => at \div BLOCK_SIZE >= RangeEnd(i)
                            /\ i < 3 => at \div BLOCK_SIZE <= DOUBLE_START}

(* In a range it goes on.                                                  *)
LEMMA RangeReadTo ==
  ASSUME NEW f \in Files, NEW s, Shows(f, s), NEW pos \in Nat, NEW num_bytes \in Nat,
         NEW range \in {1, 2, 3}, NEW r \in ReadyTo(s, pos, num_bytes, range - 1),
         NEW at \in UInt, at = pos + Len(r.bytes), NEW seg, seg = at \div BLOCK_SIZE,
         InRange(seg, range), range = 3 => seg = DOUBLE_START,
         Aligned(s, pos, num_bytes) => ~r.done,
         NEW v, v = ReadAt(f, r, Places(seg, range), at % BLOCK_SIZE, num_bytes)
  PROVE  v \in ReadyTo(s, pos, num_bytes, range)
<1> DEFINE B == BLOCK_SIZE
           L == Len(s)
           offset == at % B
           end == RangeEnd(range)
           places == Places(seg, range)
           k == end - seg
           whole == Aligned(s, pos, num_bytes)
<1>1. at \in Nat /\ seg \in Nat /\ offset \in Offset /\ at = seg * B + offset
  BY SizeIs
<1>2. /\ end \in Nat /\ seg < end /\ end <= MAX_BLOCKS /\ DOMAIN places = 1 .. k
      /\ \A i \in 1 .. k : places[i] = PlaceNo(seg + i - 1)
  BY <1>1, RangeFrom
<1>3. k \in Nat /\ seg + k = end
  <2> HIDE DEF end, places
  <2>1. QED
    BY <1>1, <1>2
<1>4. /\ r \in Found /\ Len(r.bytes) \in Nat /\ r.done \in BOOLEAN /\ at <= L
      /\ whole => /\ IsPart(s, pos, Len(r.bytes), r.bytes) /\ ~r.done
                  /\ Len(r.bytes) < num_bytes
                  /\ offset = 0 \/ num_bytes + offset <= B
  <2>1. r \in Found /\ pos + Len(r.bytes) <= L
    BY DEF ReadyTo
  <2>2. Len(r.bytes) \in Nat /\ r.done \in BOOLEAN
    BY <2>1 DEF Found
  <2>3. QED
    BY <2>1, <2>2 DEF ReadyTo
<1>5. whole \in BOOLEAN /\ (whole => InPlace(s, pos, num_bytes, offset))
  <2>1. whole => num_bytes > 0 /\ pos + num_bytes <= L
    BY DEF Aligned, InPlace
  <2>2. whole \in BOOLEAN
    BY DEF Aligned, InPlace
  <2> HIDE DEF whole
  <2>3. QED
    BY <1>4, <2>1, <2>2 DEF InPlace
<1>0. range < 3 => end <= DOUBLE_START
  BY RangeEnds DEF RangeEnd
<1> HIDE DEF offset, end, places, k, whole
<1>6. r \in ReadTo(s, pos, num_bytes, offset, seg * B + offset, whole)
  <2>1. r \in ReadTo(s, pos, num_bytes, offset, at, whole)
    BY <1>1, <1>4 DEF ReadTo
  <2>2. QED
    BY <1>1, <2>1
<1>7. v \in ReadTo(s, pos, num_bytes, offset, end * B + offset, whole)
  <2>1. v = ReadAt(f, r, places, offset, num_bytes) /\ seg + k <= MAX_BLOCKS
    BY <1>2, <1>3 DEF places, offset
  <2>2. ReadAt(f, r, places, offset, num_bytes)
          \in ReadTo(s, pos, num_bytes, offset, (seg + k) * B + offset, whole)
    BY <1>1, <1>2, <1>3, <1>5, <1>6, <2>1, ReadAtTo
  <2>3. QED
    BY <1>3, <2>1, <2>2
<1> DEFINE x == end * B + offset
           m == pos + Len(v.bytes)
<1>8. /\ v \in Found /\ m <= L
      /\ whole => /\ IsPart(s, pos, Len(v.bytes), v.bytes)
                  /\ v.done => Len(v.bytes) = num_bytes
                  /\ ~v.done => Len(v.bytes) < num_bytes /\ m = x
  BY <1>7 DEF ReadTo
<1>9. x % B = offset /\ x \div B = end
  <2>1. B \in Nat \ {0} /\ offset \in 0 .. B - 1 /\ x = end * B + offset
    BY <1>1, DiscosIOAssumption DEF Offset
  <2> HIDE DEF x, B
  <2>2. QED
    BY <1>2, <2>1, BlockAndOffset
<1> HIDE DEF x, m
<1>10. ASSUME whole, ~v.done
       PROVE  /\ Len(v.bytes) < num_bytes
              /\ m % B = 0 \/ num_bytes + (m % B) <= B
              /\ range > 0 => m \div B >= RangeEnd(range)
              /\ range < 3 => m \div B <= DOUBLE_START
  <2>1. Len(v.bytes) < num_bytes /\ m % B = offset /\ m \div B = end
    BY <1>8, <1>9, <1>10
  <2>2. end >= RangeEnd(range)
    BY <1>2 DEF end
  <2>3. QED
    BY <1>0, <1>4, <1>10, <2>1, <2>2
<1>11. QED
  BY <1>8, <1>10 DEF ReadyTo, whole, m

(* No more bytes than are asked for, and fewer while there are to be more. *)
AtMost(num_bytes) ==
  {r \in Found : (r.done \/ Len(r.bytes) < num_bytes) /\ Len(r.bytes) <= num_bytes}

(* The loop over the blocks of a range finds no more than that.            *)
LEMMA ReadAtMost ==
  ASSUME NEW f \in Files, NEW offset \in Offset, NEW num_bytes \in Nat,
         NEW r \in AtMost(num_bytes), NEW places, NEW k \in Nat, DOMAIN places = 1 .. k,
         \A i \in 1 .. k : IsPlace(places[i])
  PROVE  ReadAt(f, r, places, offset, num_bytes) \in AtMost(num_bytes)
<1> DEFINE c == [f |-> f, num_bytes |-> num_bytes, offset |-> offset]
           S == AtMost(num_bytes)
<1>1. PICK g : /\ Passes("read", c, r, places, k, g)
               /\ ReadAt(f, r, places, offset, num_bytes) = g[1 .. k]
  BY ReadLoop
<1>2. c.f = f /\ c.num_bytes = num_bytes /\ c.offset = offset
  OBVIOUS
<1> HIDE DEF c
<1>3. ASSUME NEW u \in S, NEW i \in 1 .. k PROVE Pass("read", c, u, places[i]) \in S
  <2> DEFINE b == BlockAt(f, places[i])
             here == IF b = NULL THEN <<>> ELSE Bytes(f, b, offset)
             a == Len(u.bytes)
             wanted == num_bytes - a
             got == IF wanted > 0 /\ wanted < Len(here) THEN SubSeq(here, 1, wanted) ELSE here
             all == u.bytes \o got
  <2>1. here \in Seq(Nat)
    <3>1. b \in BlockPtr
      <4> DEFINE place == places[i]
      <4>1. IsPlace(place)
        OBVIOUS
      <4> HIDE DEF place
      <4>2. BlockAt(f, place) \in BlockPtr
        BY <4>1, BlockFound
      <4>3. QED
        BY <4>2 DEF place
    <3> HIDE DEF b
    <3>2. b # NULL => Bytes(f, b, offset) \in Seq(Nat)
      BY <3>1, BytesAre DEF BlockPtr
    <3>3. <<>> \in Seq(Nat)
      OBVIOUS
    <3>4. QED
      BY <3>2, <3>3
  <2>2. u.bytes \in Seq(Nat) /\ a \in Nat /\ u.done \in BOOLEAN /\ a <= num_bytes
        /\ (u.done \/ a < num_bytes) /\ wanted \in Int
    BY DEF AtMost, Found
  <2>3. Pass("read", c, u, places[i])
          = IF u.done THEN u ELSE [bytes |-> all, done |-> Len(all) = num_bytes]
    BY <1>2 DEF Pass, ReadBlock
  <2> HIDE DEF here
  <2>4. PICK n \in Nat : /\ got \in Seq(Nat) /\ Len(got) = n /\ (wanted > 0 => n <= wanted)
    <3> DEFINE N == Nat
    <3>0. here \in Seq(N) /\ wanted \in Int
      BY <2>1, <2>2
    <3> HIDE DEF wanted, S, N
    <3>1. \E n \in Nat : /\ got \in Seq(N) /\ Len(got) = n /\ n <= Len(here)
                         /\ \A j \in 1 .. n : got[j] = here[j]
                         /\ wanted > 0 => n <= wanted
                         /\ n = Len(here) \/ n = wanted
      BY <3>0, Taken
    <3>2. QED
      BY <3>1 DEF N
  <2> HIDE DEF got
  <2>5. all \in Seq(Nat) /\ Len(all) = a + n
    <3> DEFINE h == u.bytes
               t == h \o got
    <3> HIDE DEF h, t
    <3>1. Joins(Nat, h, got, t)
      BY <2>2, <2>4, JoinIs DEF h, t
    <3>2. QED
      BY <2>4, <3>1 DEF Joins, h, t
  <2> HIDE DEF all
  <2>6. ~u.done => [bytes |-> all, done |-> Len(all) = num_bytes] \in S
    <3> DEFINE d == Len(all) = num_bytes
               v == [bytes |-> all, done |-> d]
    <3>1. ASSUME ~u.done PROVE Len(all) <= num_bytes /\ Len(all) \in Nat
      <4> HIDE DEF a
      <4>1. QED
        BY <2>2, <2>4, <2>5, <3>1
    <3>2. d \in BOOLEAN /\ (d <=> Len(all) = num_bytes)
      OBVIOUS
    <3> HIDE DEF d
    <3>3. v \in Found /\ v.bytes = all /\ v.done = d
      BY <2>5, <3>2 DEF Found
    <3> HIDE DEF v
    <3>4. ~u.done => v \in S
      BY <3>1, <3>2, <3>3 DEF AtMost
    <3>5. QED
      BY <3>4 DEF v, d
  <2>7. QED
    BY <2>3, <2>6
<1> HIDE DEF S
<1>4. \A i \in 0 .. k : g[1 .. i] \in S
  BY <1>1, <1>3, LoopKeeps DEF S
<1>5. k \in 0 .. k
  OBVIOUS
<1>6. QED
  BY <1>1, <1>4, <1>5 DEF S

(* A whole rd_read of bytes that the file has: it does not go past the end *)
(* of the file, and one that is aligned finds them.                        *)
LEMMA ReadShows ==
  ASSUME FileFits, NEW f \in Files, NEW s, Shows(f, s), NEW pos \in Nat, NEW num_bytes \in Nat,
         pos + num_bytes <= Len(s)
  PROVE  /\ Read(f, pos, num_bytes) \in Seq(Nat)
         /\ pos + Len(Read(f, pos, num_bytes)) <= Len(s)
         /\ Aligned(s, pos, num_bytes) => IsPart(s, pos, num_bytes, Read(f, pos, num_bytes))
<1> DEFINE c == [f |-> f, pos |-> pos, num_bytes |-> num_bytes]
           r0 == [bytes |-> <<>>, done |-> FALSE]
           q == <<1, 2, 3>>
           L == Len(s)
           B == BLOCK_SIZE
           R(i) == ReadyTo(s, pos, num_bytes, i)
           Inv == [i \in 0 .. 3 |-> {r \in R(i) : i = 0 => ~r.done}]
           P == Aligned(s, pos, num_bytes)
<1>1. PICK g : Passes("reads", c, r0, q, 3, g) /\ Read(f, pos, num_bytes) = g[1 .. 3].bytes
  BY ReadsLoop
<1>2. c.f = f /\ c.pos = pos /\ c.num_bytes = num_bytes
  OBVIOUS
<1>3. /\ L \in Nat /\ UINT_RANGE \in Nat /\ L <= MAX_BLOCKS * B /\ L < UINT_RANGE
      /\ MAX_BLOCKS * B \in Nat /\ B \in Nat \ {0}
  <2>1. L \in Nat /\ L <= MAX_BLOCKS * B /\ MAX_BLOCKS * B < UINT_RANGE
    BY DEF Shows, FileFits
  <2>2. UINT_RANGE \in Nat /\ B \in Nat \ {0} /\ MAX_BLOCKS \in Nat
    BY RangeEnds, DiscosIOAssumption
  <2>3. MAX_BLOCKS * B \in Nat
    BY <2>2
  <2> DEFINE Z == MAX_BLOCKS * B
  <2> HIDE DEF Z
  <2>4. L \in Nat /\ Z \in Nat /\ L <= Z /\ Z < UINT_RANGE
    BY <2>1, <2>3 DEF Z
  <2>5. L < UINT_RANGE
    BY <2>2, <2>4
  <2>6. QED
    BY <2>1, <2>2, <2>3, <2>5
<1>4. P => /\ num_bytes > 0 /\ pos \div B <= DOUBLE_START
           /\ pos % B = 0 \/ num_bytes + (pos % B) <= B
  BY DEF Aligned, InPlace
<1>5. r0 \in R(0) /\ ~r0.done
  <2> DEFINE e == <<>>
             F == FALSE
             r == [bytes |-> e, done |-> F]
  <2>1. e \in Seq(Nat) /\ e \in Seq(Nat \ {ZERO}) /\ Len(e) = 0 /\ F \in BOOLEAN /\ ~F
    OBVIOUS
  <2> HIDE DEF e, F
  <2>2. r \in Found /\ r.bytes = e /\ r.done = F
    BY <2>1 DEF Found
  <2> HIDE DEF r
  <2>3. IsPart(s, pos, Len(r.bytes), r.bytes)
    BY <2>1, <2>2 DEF IsPart
  <2>4. pos + Len(r.bytes) = pos /\ pos <= L
    BY <1>3, <2>1, <2>2
  <2> HIDE DEF P, B
  <2>5. P => Len(r.bytes) < num_bytes
    BY <1>4, <2>1, <2>2
  <2>6. r \in R(0)
    BY <1>4, <2>1, <2>2, <2>3, <2>4, <2>5 DEF ReadyTo, P, B
  <2>7. QED
    BY <2>1, <2>2, <2>6 DEF r, e, F
<1> HIDE DEF c, r0
<1>6. ASSUME NEW range \in {1, 2, 3}, NEW r \in R(range - 1), range = 1 => ~r.done
      PROVE  Pass("reads", c, r, range) \in R(range)
  <2> DEFINE x == pos + Len(r.bytes)
             at == x % UINT_RANGE
             seg == at \div B
             places == Places(seg, range)
             enters == InRange(seg, range) /\ (range # 1 => Len(r.bytes) < num_bytes)
             v == ReadAt(f, r, places, at % B, num_bytes)
  <2>1. /\ r \in Found /\ Len(r.bytes) \in Nat /\ r.done \in BOOLEAN /\ x <= L
        /\ P => /\ IsPart(s, pos, Len(r.bytes), r.bytes)
                /\ r.done => Len(r.bytes) = num_bytes
                /\ ~r.done => /\ Len(r.bytes) < num_bytes
                              /\ x % B = 0 \/ num_bytes + (x % B) <= B
                              /\ range - 1 > 0 => x \div B >= RangeEnd(range - 1)
                              /\ range - 1 < 3 => x \div B <= DOUBLE_START
    BY DEF ReadyTo, Found
  <2>2. x \in Nat /\ at = x /\ at \in UInt
    <3>1. x \in Nat
      BY <2>1
    <3> HIDE DEF x
    <3>2. x \in Nat /\ x < UINT_RANGE
      BY <1>3, <2>1, <3>1
    <3>3. x % UINT_RANGE = x
      BY <1>3, <3>2
    <3>4. QED
      BY <1>3, <3>2, <3>3 DEF UInt
  <2>3. Pass("reads", c, r, range) = IF enters THEN v ELSE r
    BY <1>2 DEF Pass, ReadRange
  <2>4. seg \in Nat /\ at % B \in Offset
    <3> HIDE DEF at
    <3>1. QED
      BY <2>2, SizeIs
  <2>5. P /\ ~r.done => seg <= DOUBLE_START /\ (range > 1 => seg >= RangeEnd(range - 1))
    <3> HIDE DEF P, x, L
    <3>1. range - 1 < 3 /\ (range > 1 => range - 1 > 0)
      OBVIOUS
    <3>2. QED
      BY <2>1, <2>2, <3>1
  <2> HIDE DEF at, seg, places, enters, v, P
  <2>6. P => (enters => ~r.done)
    <3> HIDE DEF x, L
    <3>1. ASSUME P, r.done PROVE ~enters
      <4>1. Len(r.bytes) = num_bytes /\ range # 1
        BY <1>6, <2>1, <3>1
      <4>2. ~(Len(r.bytes) < num_bytes)
        BY <2>1, <4>1
      <4>3. QED
        BY <4>1, <4>2 DEF enters
    <3>2. QED
      BY <3>1
  <2>7. CASE enters /\ (range = 3 => seg = DOUBLE_START)
    <3>1. v \in R(range)
      <4>1. /\ at = pos + Len(r.bytes) /\ seg = at \div BLOCK_SIZE /\ InRange(seg, range)
            /\ Aligned(s, pos, num_bytes) => ~r.done
            /\ v = ReadAt(f, r, Places(seg, range), at % BLOCK_SIZE, num_bytes)
        BY <2>2, <2>6, <2>7 DEF seg, enters, v, places, P
      <4>2. /\ at \in UInt /\ r \in ReadyTo(s, pos, num_bytes, range - 1)
            /\ range = 3 => seg = DOUBLE_START
        BY <2>2, <2>7
      <4> HIDE DEF x
      <4>3. QED
        BY <4>1, <4>2, RangeReadTo
    <3>2. QED
      BY <2>3, <2>7, <3>1
  (* From the middle of the third range: as many bytes as are asked for.   *)
  <2>8. CASE enters /\ range = 3 /\ seg # DOUBLE_START
    <3>1. InRange(seg, range) /\ Len(r.bytes) < num_bytes
      BY <2>8 DEF enters
    <3>2. ~P
      <4>1. ASSUME P PROVE FALSE
        <5>1. ~r.done /\ seg <= DOUBLE_START /\ seg >= RangeEnd(3 - 1)
          BY <2>5, <2>6, <2>8, <4>1
        <5>2. RangeEnd(3 - 1) = DOUBLE_START
          BY DEF RangeEnd
        <5>3. QED
          BY <2>4, <2>8, <5>1, <5>2, RangeEnds
      <4>2. QED
        BY <4>1
    <3>3. PICK n \in Nat : DOMAIN places = 1 .. n /\ \A j \in 1 .. n : IsPlace(places[j])
      BY <2>4, <3>1, PlacesAre DEF places
    <3> DEFINE offset == at % B
    <3>4. v = ReadAt(f, r, places, offset, num_bytes) /\ offset \in Offset
      BY <2>4 DEF v
    <3> HIDE DEF offset
    <3>5. v \in Found /\ Len(v.bytes) <= num_bytes
      <4>1. r \in AtMost(num_bytes)
        BY <2>1, <3>1 DEF AtMost
      <4>2. v \in AtMost(num_bytes)
        BY <3>3, <3>4, <4>1, ReadAtMost
      <4>3. QED
        BY <4>2 DEF AtMost
    <3>6. pos + Len(v.bytes) <= L
      <4>1. Len(v.bytes) \in Nat
        BY <3>5 DEF Found
      <4>2. QED
        BY <1>3, <3>5, <4>1
    <3>7. v \in R(range)
      BY <3>2, <3>5, <3>6 DEF ReadyTo, P
    <3>8. QED
      BY <2>3, <2>8, <3>7
  <2>9. CASE ~enters
    <3>1. ASSUME P, ~r.done PROVE seg >= RangeEnd(range) /\ range # 3
      <4>1. ~InRange(seg, range)
        BY <2>1, <2>9, <3>1 DEF enters
      <4>2. seg <= DOUBLE_START /\ (range > 1 => seg >= RangeEnd(range - 1))
        BY <2>5, <3>1
      <4>3. CASE range = 1
        BY <2>4, <4>1, <4>3, RangeEnds DEF InRange, RangeEnd
      <4>4. CASE range = 2
        <5>1. RangeEnd(2 - 1) = SINGLE_START
          BY DEF RangeEnd
        <5>2. QED
          BY <2>4, <4>1, <4>2, <4>4, <5>1, RangeEnds DEF InRange, RangeEnd
      <4>5. CASE range = 3
        <5>1. RangeEnd(3 - 1) = DOUBLE_START
          BY DEF RangeEnd
        <5>2. seg = DOUBLE_START
          BY <2>4, <4>2, <4>5, <5>1, RangeEnds
        <5>3. InRange(seg, 3) <=> seg \in DOUBLE_START .. MAX_BLOCKS - 1
          BY DEF InRange
        <5>4. seg \in DOUBLE_START .. MAX_BLOCKS - 1
          <6> DEFINE square == PTRS_PER_BLOCK * PTRS_PER_BLOCK
          <6>1. square \in Nat \ {0} /\ MAX_BLOCKS = DOUBLE_START + square /\ DOUBLE_START \in Nat
            BY RangeEnds
          <6> HIDE DEF square
          <6>2. QED
            BY <5>2, <6>1
        <5>5. QED
          BY <4>1, <4>5, <5>3, <5>4
      <4>6. QED
        BY <4>3, <4>4, <4>5
    <3>2. P /\ ~r.done => /\ Len(r.bytes) < num_bytes
                          /\ x % B = 0 \/ num_bytes + (x % B) <= B
                          /\ range > 0 => x \div B >= RangeEnd(range)
                          /\ range < 3 => x \div B <= DOUBLE_START
      <4>1. seg = x \div B
        BY <2>2 DEF seg
      <4> HIDE DEF x
      <4>2. QED
        BY <2>1, <2>5, <3>1, <4>1
    <3>3. r \in R(range)
      BY <2>1, <3>2 DEF ReadyTo, P
    <3>4. QED
      BY <2>3, <2>9, <3>3
  <2>10. QED
    BY <2>7, <2>8, <2>9
<1>7. /\ \A i \in 0 .. 3 : Inv[i] = {r \in R(i) : i = 0 => ~r.done}
      /\ \A i \in 1 .. 3 : q[i] = i
  OBVIOUS
<1> HIDE DEF q, R, Inv
<1>8. r0 \in Inv[0]
  BY <1>5, <1>7
<1>9. ASSUME NEW i \in 1 .. 3, NEW r \in Inv[i - 1] PROVE Pass("reads", c, r, q[i]) \in Inv[i]
  <2>1. i \in {1, 2, 3} /\ i - 1 \in 0 .. 3 /\ (i = 1 => i - 1 = 0) /\ i # 0 /\ i \in 0 .. 3
    OBVIOUS
  <2>2. r \in R(i - 1) /\ (i = 1 => ~r.done)
    BY <1>7, <2>1
  <2>3. Pass("reads", c, r, i) \in R(i)
    BY <1>6, <2>1, <2>2
  <2>4. QED
    BY <1>7, <2>1, <2>3
<1>10. \A i \in 0 .. 3 : g[1 .. i] \in Inv[i]
  BY <1>1, <1>8, <1>9, LoopReaches
<1> DEFINE r == g[1 .. 3]
           x == pos + Len(r.bytes)
<1>11. r \in R(3)
  BY <1>7, <1>10
<1> HIDE DEF r
<1>12. /\ r \in Found /\ Len(r.bytes) \in Nat /\ x <= L /\ x \in Nat
       /\ P => /\ IsPart(s, pos, Len(r.bytes), r.bytes)
               /\ r.done => Len(r.bytes) = num_bytes
               /\ ~r.done => /\ Len(r.bytes) < num_bytes
                             /\ 3 > 0 => x \div B >= RangeEnd(3)
  BY <1>11 DEF ReadyTo, R, Found
<1>13. P => Len(r.bytes) = num_bytes
  <2>1. ASSUME P, ~r.done PROVE FALSE
    <3>1. Len(r.bytes) < num_bytes /\ x \div B >= MAX_BLOCKS
      BY <1>12, <2>1 DEF RangeEnd
    <3>2. x < L
      BY <1>3, <1>12, <3>1
    <3> HIDE DEF x, L
    <3> DEFINE d == x \div B
    <3>3. d \in Nat /\ x % B \in 0 .. B - 1 /\ x = d * B + (x % B)
      BY <1>3, <1>12, Divided
    <3> HIDE DEF d
    <3>4. MAX_BLOCKS <= d /\ MAX_BLOCKS \in Nat
      BY <3>1, RangeEnds DEF d
    <3>5. MAX_BLOCKS * B <= d * B
      <4> HIDE DEF B
      <4>1. QED
        BY <1>3, <3>3, <3>4, Z3
    <3> DEFINE y == d * B
               z == MAX_BLOCKS * B
    <3>6. y \in Nat /\ z \in Nat /\ z <= y /\ L <= z
      BY <1>3, <3>3, <3>5
    <3> DEFINE m == x % B
    <3>7. m \in Nat /\ x = y + m
      BY <1>3, <3>3
    <3> HIDE DEF y, z, m
    <3>8. QED
      BY <1>3, <1>12, <3>2, <3>6, <3>7
  <2>2. QED
    BY <1>12, <2>1
<1>14. Read(f, pos, num_bytes) = r.bytes
  BY <1>1 DEF r
<1>15. QED
  BY <1>12, <1>13, <1>14 DEF Found

(* A rd_read from -1 as an unsigned int, which rd_lseek sets in an empty   *)
(* file, finds nothing whatever the file has become.                       *)
LEMMA ReadNothing ==
  ASSUME FileFits, NEW f, NEW num_bytes, NEW pos, pos = UINT_RANGE - 1
  PROVE  Read(f, pos, num_bytes) = <<>>
<1> DEFINE c == [f |-> f, pos |-> pos, num_bytes |-> num_bytes]
           r0 == [bytes |-> <<>>, done |-> FALSE]
           q == <<1, 2, 3>>
           S == {r0}
           seg == pos \div BLOCK_SIZE
<1>1. PICK g : Passes("reads", c, r0, q, 3, g) /\ Read(f, pos, num_bytes) = g[1 .. 3].bytes
  BY ReadsLoop
<1>2. c.f = f /\ c.pos = pos /\ c.num_bytes = num_bytes
  OBVIOUS
<1>3. /\ pos \in Nat /\ (pos + 0) % UINT_RANGE = pos /\ UINT_RANGE \in Nat
      /\ MAX_BLOCKS * BLOCK_SIZE <= pos
  <2>1. UINT_RANGE \in Nat \ {0} /\ MAX_BLOCKS \in Nat /\ BLOCK_SIZE \in Nat
    BY RangeEnds, DiscosIOAssumption
  <2>2. MAX_BLOCKS * BLOCK_SIZE \in Nat
    BY <2>1
  <2> DEFINE z == MAX_BLOCKS * BLOCK_SIZE
  <2>3. z \in Nat /\ z < UINT_RANGE
    BY <2>2 DEF FileFits
  <2> HIDE DEF z
  <2>4. pos \in Nat /\ pos < UINT_RANGE /\ z <= pos /\ pos + 0 = pos
    BY <2>1, <2>3
  <2>5. pos % UINT_RANGE = pos
    BY <2>1, <2>4
  <2>6. QED
    BY <2>1, <2>4, <2>5 DEF z
<1>4. seg \in Nat /\ seg >= MAX_BLOCKS
  <2> DEFINE B == BLOCK_SIZE
             r == pos % B
  <2>1. B \in Nat \ {0} /\ MAX_BLOCKS \in Nat
    BY RangeEnds, DiscosIOAssumption
  <2>2. seg \in Nat /\ r \in 0 .. B - 1 /\ pos = seg * B + r
    BY <1>3, <2>1, Divided
  <2>3. ASSUME seg < MAX_BLOCKS PROVE FALSE
    <3>1. seg * B + B <= MAX_BLOCKS * B
      BY <2>1, <2>2, <2>3, BlocksApart
    <3> DEFINE y == seg * B
               z == MAX_BLOCKS * B
    <3>2. y \in Nat /\ z \in Nat /\ z <= pos /\ y + B <= z /\ pos = y + r
      BY <1>3, <2>1, <2>2, <3>1
    <3> HIDE DEF y, z, r, B
    <3>3. QED
      BY <1>3, <2>1, <2>2, <3>2
  <2>4. QED
    BY <2>1, <2>2, <2>3
<1>5. \A range \in {1, 2, 3} : ~InRange(seg, range)
  <2> HIDE DEF seg
  <2>1. SINGLE_START <= DOUBLE_START /\ DOUBLE_START <= MAX_BLOCKS /\ MAX_BLOCKS \in Nat
        /\ SINGLE_START \in Nat /\ DOUBLE_START \in Nat
    <3> DEFINE square == PTRS_PER_BLOCK * PTRS_PER_BLOCK
    <3>1. square \in Nat /\ MAX_BLOCKS = DOUBLE_START + square
      BY RangeEnds
    <3> HIDE DEF square
    <3>2. QED
      BY <3>1, RangeEnds
  <2>2. ~InRange(seg, 1) /\ ~InRange(seg, 2) /\ ~InRange(seg, 3)
    <3> DEFINE a == SINGLE_START
               b == DOUBLE_START
               m == MAX_BLOCKS
    <3>1. /\ InRange(seg, 1) = (seg < a)
          /\ InRange(seg, 2) = (seg \in a .. b - 1)
          /\ InRange(seg, 3) = (seg \in b .. m - 1)
      BY DEF InRange
    <3>2. a \in Nat /\ b \in Nat /\ m \in Nat /\ a <= b /\ b <= m /\ seg \in Nat /\ seg >= m
      BY <1>4, <2>1
    <3> HIDE DEF a, b, m
    <3>3. ~(seg < a) /\ seg \notin a .. b - 1 /\ seg \notin b .. m - 1
      BY <3>2
    <3>4. QED
      BY <3>1, <3>3
  <2>3. QED
    BY <2>2
<1>6. r0.bytes = <<>> /\ Len(r0.bytes) = 0
  OBVIOUS
<1> HIDE DEF c, r0
<1>7. ASSUME NEW range \in {1, 2, 3} PROVE Pass("reads", c, r0, range) = r0
  <2> DEFINE at == (pos + Len(r0.bytes)) % UINT_RANGE
  <2>1. at = pos
    BY <1>3, <1>6
  <2>2. ~InRange(at \div BLOCK_SIZE, range)
    BY <1>5, <2>1
  <2> HIDE DEF at
  <2>3. ReadRange(c, r0, range)
          = IF InRange(at \div BLOCK_SIZE, range) /\ (range # 1 => Len(r0.bytes) < num_bytes)
            THEN ReadAt(f, r0, Places(at \div BLOCK_SIZE, range), at % BLOCK_SIZE, num_bytes)
            ELSE r0
    BY <1>2 DEF ReadRange, at
  <2>4. QED
    BY <2>2, <2>3 DEF Pass
<1>8. r0 \in S /\ \A u \in S : \A i \in 1 .. 3 : Pass("reads", c, u, q[i]) \in S
  <2>1. \A i \in 1 .. 3 : q[i] \in {1, 2, 3}
    OBVIOUS
  <2> HIDE DEF q
  <2>2. QED
    BY <1>7, <2>1
<1> HIDE DEF S, q
<1>9. \A i \in 0 .. 3 : g[1 .. i] \in S
  BY <1>1, <1>8, LoopKeeps
<1>10. g[1 .. 3] = r0
  BY <1>9 DEF S
<1>11. QED
  BY <1>1, <1>6, <1>10

(* The cursors of a file that was written in order: none is behind its     *)
(* end, unless it was sought in the empty file.                            *)
InFile(pos, size) == pos <= size \/ pos = UINT_RANGE - 1

(* The inductive invariant of the reads: besides the bytes, the cursors.   *)
CursorInv == LogInv /\ (inOrder => \A fd \in Fd : InFile(cursor[fd], file.size))

(* rd_write leaves its cursor at the end of the file.                      *)
LEMMA WriteMoves ==
  ASSUME FileFits, LogInv, NEW fd \in Fd, NEW data \in Data, rd_write(fd, data),
         fd \notin ReadOnly, inOrder'
  PROVE  /\ inOrder /\ file.size \in Nat /\ file'.size \in Nat /\ file.size <= file'.size
         /\ cursor' = [cursor EXCEPT ![fd] = file'.size]
<1> DEFINE w == Written(file, cursor[fd], data, Len(data))
<1>1. /\ file \in Files /\ OnePlace(file)
      /\ inOrder => Shows(file, log) /\ file.size = Len(log)
  BY TypeOKIs, OnePlaceIs DEF FileInv, LogInv
<1>2. /\ file' = [size |-> w.size, pointers |-> w.pointers, bitmap |-> w.bitmap,
                  data_blocks |-> w.data_blocks]
      /\ inOrder /\ GoesOn(file, cursor[fd], Len(data))
      /\ cursor' = [cursor EXCEPT ![fd] = (@ + w.n) % UINT_RANGE]
  BY DEF rd_write
<1>3. w \in Shown(log, data)
  <2> DEFINE pos == cursor[fd]
  <2> HIDE DEF pos
  <2>1. GoesOn(file, pos, Len(data))
    BY <1>2 DEF pos
  <2>2. Written(file, pos, data, Len(data)) \in Shown(log, data)
    BY <1>1, <1>2, <2>1, WrittenShows
  <2>3. QED
    BY <2>2 DEF pos
<1> HIDE DEF w
<1>4. w.size \in UInt /\ w.n \in Nat /\ w.size = file.size + w.n /\ file.size \in Nat
  <2>1. w.size = Len(log) + w.n /\ w \in Writes
    BY <1>3 DEF Shown
  <2>2. file.size \in UInt /\ file.size = Len(log)
    BY <1>1, <1>2 DEF Files
  <2>3. w.size \in UInt /\ w.n \in Nat
    BY <2>1 DEF Writes
  <2>4. QED
    BY <2>1, <2>2, <2>3, DiscosIOAssumption DEF UInt
<1>5. cursor[fd] = file.size /\ file'.size = w.size
  BY <1>2 DEF GoesOn
<1>6. (cursor[fd] + w.n) % UINT_RANGE = w.size
  <2> DEFINE x == w.size
  <2>1. x \in Nat /\ x < UINT_RANGE /\ UINT_RANGE \in Nat /\ cursor[fd] + w.n = x
    BY <1>4, <1>5, DiscosIOAssumption DEF UInt
  <2> HIDE DEF x
  <2>2. x % UINT_RANGE = x
    BY <2>1
  <2>3. QED
    BY <2>1, <2>2 DEF x
<1>7. w.size \in Nat /\ file.size <= w.size
  BY <1>4
<1>8. QED
  BY <1>2, <1>4, <1>5, <1>6, <1>7

(* It keeps the cursors in the file, ...                                   *)
LEMMA WriteCursors ==
  ASSUME FileFits, CursorInv, NEW fd \in Fd, NEW data \in Data, rd_write(fd, data), inOrder'
  PROVE  \A g \in Fd : InFile(cursor'[g], file'.size)
<1>1. CASE fd \in ReadOnly
  BY <1>1 DEF rd_write, CursorInv
<1>2. CASE fd \notin ReadOnly
  <2>1. /\ inOrder /\ file.size \in Nat /\ file'.size \in Nat /\ file.size <= file'.size
        /\ cursor' = [cursor EXCEPT ![fd] = file'.size]
    BY <1>2, WriteMoves DEF CursorInv
  <2>2. cursor \in [Fd -> UInt] /\ \A g \in Fd : InFile(cursor[g], file.size)
    BY <2>1, TypeOKIs DEF CursorInv, LogInv, FileInv
  <2>3. ASSUME NEW g \in Fd PROVE InFile(cursor'[g], file'.size)
    <3>1. CASE g = fd
      BY <2>1, <2>2, <3>1 DEF InFile
    <3>2. CASE g # fd
      <4>1. cursor'[g] = cursor[g] /\ cursor[g] \in Nat
        BY <2>1, <2>2, <3>2, DiscosIOAssumption DEF UInt
      <4>2. QED
        BY <2>1, <2>2, <4>1 DEF InFile
    <3>3. QED
      BY <3>1, <3>2
  <2>4. QED
    BY <2>3
<1>3. QED
  BY <1>1, <1>2

(* ... and so does rd_lseek, ...                                           *)
LEMMA SeekCursors ==
  ASSUME CursorInv, NEW fd \in Fd, NEW offset \in Offsets, rd_lseek(fd, offset), inOrder'
  PROVE  \A g \in Fd : InFile(cursor'[g], file'.size)
<1> DEFINE to == IF offset >= file.size THEN (file.size - 1) % UINT_RANGE ELSE offset
<1>1. /\ file \in Files /\ cursor \in [Fd -> UInt]
  BY TypeOKIs DEF CursorInv, LogInv, FileInv
<1>2. /\ file' = file /\ inOrder
      /\ cursor' = cursor \/ (offset >= 0 /\ cursor' = [cursor EXCEPT ![fd] = to])
  BY DEF rd_lseek
<1>3. /\ file.size \in Nat /\ file.size < UINT_RANGE /\ UINT_RANGE \in Nat \ {0}
      /\ offset >= 0 => offset \in Nat
  BY <1>1, DiscosIOAssumption DEF Files, UInt, Offsets
<1>4. offset >= 0 => InFile(to, file.size)
  <2> HAVE offset >= 0
  <2> DEFINE n == file.size - 1
  <2>1. CASE file.size = 0
    <3>1. to = (-1) % UINT_RANGE
      BY <1>3, <2>1
    <3>2. (-1) % UINT_RANGE = UINT_RANGE - 1
      BY <1>3
    <3>3. QED
      BY <3>1, <3>2 DEF InFile
  <2>2. CASE file.size # 0
    <3>1. n \in Nat /\ n < UINT_RANGE /\ n <= file.size
      BY <1>3, <2>2
    <3> HIDE DEF n
    <3>2. n % UINT_RANGE = n
      BY <1>3, <3>1
    <3>3. to = IF offset >= file.size THEN n ELSE offset
      BY <3>2 DEF n
    <3>4. QED
      BY <1>3, <3>1, <3>3 DEF InFile
  <2>3. QED
    BY <2>1, <2>2
<1> HIDE DEF to
<1>5. QED
  BY <1>1, <1>2, <1>4 DEF CursorInv

(* What a rd_read that does not fail has read.                             *)
LEMMA ReadBytes ==
  ASSUME NEW fd \in Fd, NEW num_bytes \in Counts, rd_read(fd, num_bytes), last'.ret # -1,
         cursor \in [Fd -> UInt], NEW pos, pos = cursor[fd],
         NEW bytes, bytes = Read(file, pos, num_bytes)
  PROVE  /\ num_bytes <= (file.size - pos) % UINT_RANGE
         /\ last'.bytes = bytes
         /\ cursor' = [cursor EXCEPT ![fd] = (pos + Len(bytes)) % UINT_RANGE]
<1>1. \/ last' = [ret |-> -1, bytes |-> <<>>]
      \/ /\ num_bytes <= (file.size - cursor[fd]) % UINT_RANGE
         /\ last' = [ret |-> Len(bytes), bytes |-> bytes]
         /\ cursor' = [cursor EXCEPT ![fd] = (@ + Len(bytes)) % UINT_RANGE]
  BY DEF rd_read
<1>2. QED
  BY <1>1

(* No more is left in a file behind a cursor in it than there is.          *)
LEMMA LeftIs ==
  ASSUME NEW size \in UInt, NEW pos \in UInt, pos <= size
  PROVE  size \in Nat /\ pos \in Nat /\ (size - pos) % UINT_RANGE = size - pos
<1> DEFINE x == size - pos
<1>1. size \in Nat /\ pos \in Nat /\ x \in Nat /\ x < UINT_RANGE /\ UINT_RANGE \in Nat
  BY DiscosIOAssumption DEF UInt
<1> HIDE DEF x
<1>2. x % UINT_RANGE = x
  BY <1>1
<1>3. QED
  BY <1>1, <1>2 DEF x

(* ... and rd_read.                                                        *)
LEMMA ReadCursors ==
  ASSUME FileFits, CursorInv, NEW fd \in Fd, NEW num_bytes \in Counts, rd_read(fd, num_bytes),
         inOrder'
  PROVE  \A g \in Fd : InFile(cursor'[g], file'.size)
<1>1. /\ file \in Files /\ cursor \in [Fd -> UInt] /\ file' = file /\ inOrder
      /\ Shows(file, log) /\ file.size = Len(log)
      /\ \A g \in Fd : InFile(cursor[g], file.size)
  BY TypeOKIs DEF rd_read, CursorInv, LogInv, FileInv
<1>2. CASE last'.ret = -1
  <2>1. cursor' = cursor
    <3>1. \/ UNCHANGED cursor
          \/ last'.ret = Len(Read(file, cursor[fd], num_bytes))
      BY DEF rd_read
    <3>2. Len(Read(file, cursor[fd], num_bytes)) \in Nat
      <4> DEFINE pos == cursor[fd]
      <4>1. pos \in Nat /\ num_bytes \in Nat
        BY <1>1, DiscosIOAssumption DEF UInt
      <4> HIDE DEF pos
      <4>2. Read(file, pos, num_bytes) \in Seq(Nat)
        BY <1>1, <4>1, ReadFinds
      <4> DEFINE bytes == Read(file, pos, num_bytes)
      <4> HIDE DEF bytes
      <4>3. Len(bytes) \in Nat
        BY <4>2 DEF bytes
      <4>4. QED
        BY <4>3 DEF bytes, pos
    <3>3. QED
      BY <1>2, <3>1, <3>2
  <2>2. QED
    BY <1>1, <2>1
<1>3. CASE last'.ret # -1
  <2> DEFINE pos == cursor[fd]
             bytes == Read(file, pos, num_bytes)
             to == (pos + Len(bytes)) % UINT_RANGE
  <2>1. /\ num_bytes <= (file.size - pos) % UINT_RANGE
        /\ cursor' = [cursor EXCEPT ![fd] = to]
    BY <1>1, <1>3, ReadBytes
  <2>2. pos \in UInt /\ file.size \in UInt /\ InFile(pos, file.size) /\ num_bytes \in Nat
        /\ UINT_RANGE \in Nat \ {0}
    BY <1>1, DiscosIOAssumption DEF Files
  <2>3. InFile(to, file.size)
    <3> HIDE DEF pos
    <3>1. CASE pos <= file.size
      <4>1. file.size \in Nat /\ pos \in Nat /\ (file.size - pos) % UINT_RANGE = file.size - pos
        BY <2>2, <3>1, LeftIs
      <4>2. pos + num_bytes <= Len(log)
        BY <1>1, <2>1, <2>2, <4>1
      <4>3. bytes \in Seq(Nat) /\ pos + Len(bytes) <= Len(log)
        BY <1>1, <2>2, <4>1, <4>2, ReadShows
      <4> HIDE DEF bytes
      <4> DEFINE x == pos + Len(bytes)
      <4>4. x \in Nat /\ x <= file.size /\ x < UINT_RANGE
        BY <1>1, <2>2, <4>1, <4>3 DEF UInt
      <4> HIDE DEF x
      <4>5. x % UINT_RANGE = x
        BY <2>2, <4>4
      <4>6. QED
        BY <4>4, <4>5 DEF InFile, x
    <3>2. CASE pos = UINT_RANGE - 1
      <4>1. bytes = <<>>
        BY <3>2, ReadNothing
      <4>2. pos + Len(bytes) = pos
        BY <2>2, <4>1 DEF UInt
      <4>3. pos % UINT_RANGE = pos
        BY <2>2, <3>2
      <4>4. QED
        BY <3>2, <4>2, <4>3 DEF InFile
    <3>3. QED
      BY <2>2, <3>1, <3>2 DEF InFile
  <2> HIDE DEF to
  <2>4. QED
    BY <1>1, <2>1, <2>3
<1>4. QED
  BY <1>2, <1>3

(* No other step moves a cursor.                                           *)
LEMMA CursorNext ==
  ASSUME FileFits, CursorInv, [ReadNext]_io_vars
  PROVE  CursorInv'
<1> DEFINE Moved == inOrder' => \A g \in Fd : InFile(cursor'[g], file'.size)
<1>1. LogInv'
  BY LogNext DEF CursorInv
<1>2. Moved
  <2>1. CASE UNCHANGED <<file, cursor, inOrder>>
    BY <2>1 DEF CursorInv
  <2>2. ASSUME NEW fd \in Fd, call(fd) PROVE Moved
    <3>1. CASE \E num_bytes \in Counts : read_begin(fd, num_bytes)
      BY <3>1, ReadCursors DEF read_begin
    <3>2. CASE \E data \in Data : rd_write(fd, data)
      BY <3>2, WriteCursors
    <3>3. CASE \E offset \in Offsets : rd_lseek(fd, offset)
      BY <3>3, SeekCursors
    <3>4. QED
      BY <2>2, <3>1, <3>2, <3>3 DEF call
  <2>3. ASSUME NEW fd \in Fd, copy_to_user(fd) PROVE Moved
    BY <2>1, <2>3 DEF copy_to_user, vars
  <2>4. ASSUME NEW fd \in Fd, read_end(fd) PROVE Moved
    BY <2>1, <2>4 DEF read_end, vars
  <2> HIDE DEF Moved
  <2>5. QED
    BY <2>1, <2>2, <2>3, <2>4 DEF ReadNext, io_vars, vars
<1>3. (inOrder => \A fd \in Fd : InFile(cursor[fd], file.size))'
  BY <1>2
<1>4. QED
  BY <1>1, <1>3 DEF CursorInv

(* What an aligned read of such a file does.                               *)
ReadBack ==
  \A fd \in Fd, num_bytes \in Counts \ {0} :
    LET pos == cursor[fd]
    IN  /\ inOrder /\ last'.ret # -1
        /\ pos % BLOCK_SIZE = 0 \/ (pos % BLOCK_SIZE) + num_bytes <= BLOCK_SIZE
        /\ pos \div BLOCK_SIZE <= DOUBLE_START
        /\ rd_read(fd, num_bytes)
        => /\ last'.bytes = SubSeq(log, pos + 1, pos + num_bytes)
           /\ cursor'[fd] = pos + num_bytes

(* It gives the bytes that were written there.                             *)
LEMMA ReadsWhatIsThere ==
  ASSUME FileFits, CursorInv
  PROVE  ReadBack
<1> SUFFICES ASSUME NEW fd \in Fd, NEW num_bytes \in Counts \ {0}, NEW pos, pos = cursor[fd],
                    rd_read(fd, num_bytes), last'.ret # -1, inOrder,
                    pos % BLOCK_SIZE = 0 \/ (pos % BLOCK_SIZE) + num_bytes <= BLOCK_SIZE,
                    pos \div BLOCK_SIZE <= DOUBLE_START
             PROVE  /\ last'.bytes = SubSeq(log, pos + 1, pos + num_bytes)
                    /\ cursor'[fd] = pos + num_bytes
  BY DEF ReadBack
<1> DEFINE bytes == Read(file, pos, num_bytes)
           L == Len(log)
           B == BLOCK_SIZE
<1>1. /\ file \in Files /\ cursor \in [Fd -> UInt]
      /\ Shows(file, log) /\ file.size = L /\ InFile(pos, file.size)
  BY TypeOKIs DEF CursorInv, LogInv, FileInv
<1>2. /\ num_bytes <= (file.size - pos) % UINT_RANGE
      /\ last'.bytes = bytes
      /\ cursor' = [cursor EXCEPT ![fd] = (pos + Len(bytes)) % UINT_RANGE]
  BY <1>1, ReadBytes
<1>3. pos \in UInt /\ file.size \in UInt /\ num_bytes \in Nat \ {0} /\ UINT_RANGE \in Nat \ {0}
  BY <1>1, DiscosIOAssumption DEF Files
<1>4. pos <= file.size
  <2>1. ASSUME pos = UINT_RANGE - 1 PROVE FALSE
    <3> DEFINE q == pos \div B
               r == pos % B
               z == MAX_BLOCKS * B
    <3>1. q \in Nat /\ r \in Offset /\ pos = q * B + r /\ pos \in Nat
      BY <1>3, SizeIs
    <3>2. B \in Nat \ {0} /\ Offset = 0 .. B - 1 /\ MAX_BLOCKS \in Nat /\ DOUBLE_START < MAX_BLOCKS
          /\ DOUBLE_START \in Nat
      <4> DEFINE square == PTRS_PER_BLOCK * PTRS_PER_BLOCK
      <4>1. square \in Nat \ {0} /\ MAX_BLOCKS = DOUBLE_START + square /\ DOUBLE_START \in Nat
            /\ MAX_BLOCKS \in Nat
        BY RangeEnds
      <4> HIDE DEF square
      <4>2. DOUBLE_START < MAX_BLOCKS
        BY <4>1
      <4>3. QED
        BY <4>1, <4>2, DiscosIOAssumption DEF Offset
    <3>3. z \in Nat /\ z < UINT_RANGE
      BY <3>2 DEF FileFits
    <3>4. q < MAX_BLOCKS
      <4>1. q <= DOUBLE_START
        OBVIOUS
      <4> HIDE DEF q
      <4>2. QED
        BY <3>1, <3>2, <4>1
    <3>5. q * B + B <= z
      <4> HIDE DEF q
      <4>1. QED
        BY <3>1, <3>2, <3>4, BlocksApart
    <3> DEFINE y == q * B
    <3>6. y \in Nat /\ pos = y + r /\ y + B <= z
      <4>1. y \in Nat
        <5> HIDE DEF q
        <5>1. QED
          BY <3>1, <3>2
      <4>2. QED
        BY <3>1, <3>5, <4>1
    <3> HIDE DEF q, r, y, z, B
    <3>7. QED
      BY <1>3, <2>1, <3>1, <3>2, <3>3, <3>6
  <2>2. QED
    BY <1>1, <2>1 DEF InFile
<1>5. file.size \in Nat /\ pos \in Nat /\ (file.size - pos) % UINT_RANGE = file.size - pos
  BY <1>3, <1>4, LeftIs
<1>6. pos + num_bytes <= L
  BY <1>1, <1>2, <1>3, <1>5
<1>7. Aligned(log, pos, num_bytes)
  <2> DEFINE r == pos % B
  <2>1. r \in Nat
    <3>1. r \in Offset
      BY <1>3, SizeIs
    <3>2. QED
      BY <3>1, DiscosIOAssumption DEF Offset
  <2>2. r = 0 \/ r + num_bytes <= B
    OBVIOUS
  <2> HIDE DEF r, B
  <2>3. num_bytes > 0 /\ (r = 0 \/ num_bytes + r <= B)
    BY <1>3, <2>1, <2>2
  <2>4. QED
    BY <1>6, <2>3 DEF Aligned, InPlace, r, B
<1>8. IsPart(log, pos, num_bytes, bytes)
  BY <1>1, <1>3, <1>5, <1>6, <1>7, ReadShows
<1> HIDE DEF bytes
<1>9. /\ bytes \in Seq(Nat \ {ZERO}) /\ Len(bytes) = num_bytes
      /\ \A k \in 1 .. num_bytes : bytes[k] = log[pos + k]
  BY <1>8 DEF IsPart
<1>10. bytes = SubSeq(log, pos + 1, pos + num_bytes)
  <2> DEFINE sub == SubSeq(log, pos + 1, pos + num_bytes)
             a == pos + 1
             b == pos + num_bytes
             T == Nat \ {ZERO}
  <2>1. a \in Int /\ b \in Int /\ a <= b /\ b - a + 1 = num_bytes
    BY <1>3, <1>5
  <2>2. \A k \in 1 .. num_bytes : a + k - 1 = pos + k
    BY <1>3, <1>5
  <2>3. \A i \in a .. b : log[i] \in T
    <3>1. ASSUME NEW i \in a .. b PROVE log[i] \in T
      <4> DEFINE k == i - pos
      <4>1. k \in 1 .. num_bytes /\ pos + k = i
        BY <1>3, <1>5
      <4> HIDE DEF k, a, b
      <4>2. bytes[k] = log[i] /\ bytes[k] \in T
        BY <1>9, <4>1
      <4>3. QED
        BY <4>2
    <3>2. QED
      BY <3>1
  <2> HIDE DEF a, b, T
  <2>4. /\ sub \in Seq(T) /\ Len(sub) = IF a <= b THEN b - a + 1 ELSE 0
        /\ \A k \in 1 .. b - a + 1 : sub[k] = log[a + k - 1]
    <3>1. sub = SubSeq(log, a, b)
      BY DEF a, b
    <3> HIDE DEF sub
    <3>2. QED
      BY <2>1, <2>3, <3>1, SubSeqProperties
  <2> HIDE DEF sub
  <2>5. bytes \in Seq(T) /\ Len(bytes) = Len(sub) /\ \A k \in 1 .. Len(bytes) : bytes[k] = sub[k]
    <3>1. bytes \in Seq(T)
      BY <1>9 DEF T
    <3>2. Len(sub) = num_bytes /\ \A k \in 1 .. num_bytes : sub[k] = log[pos + k]
      BY <2>1, <2>2, <2>4
    <3>3. QED
      BY <1>9, <3>1, <3>2
  <2>6. bytes = sub
    BY <2>4, <2>5, SeqEqual
  <2>7. QED
    BY <2>6 DEF sub
<1>11. cursor'[fd] = pos + num_bytes
  <2> DEFINE x == pos + num_bytes
  <2>1. x \in Nat /\ x < UINT_RANGE
    <3>1. x \in Nat
      BY <1>3, <1>5
    <3>2. x <= file.size /\ file.size \in Nat /\ file.size < UINT_RANGE
      BY <1>1, <1>3, <1>6, DiscosIOAssumption DEF UInt
    <3> HIDE DEF x
    <3>3. QED
      BY <1>3, <3>1, <3>2
  <2> HIDE DEF x
  <2>2. x % UINT_RANGE = x
    BY <1>3, <2>1
  <2>3. cursor'[fd] = (pos + Len(bytes)) % UINT_RANGE
    BY <1>1, <1>2
  <2>4. QED
    BY <1>9, <2>2, <2>3 DEF x
<1>12. QED
  BY <1>2, <1>10, <1>11

(* Where a file can be no larger than an unsigned int, as in the code, a   *)
(* read within a block or from the start of one gives the bytes that were  *)
(* written in order at its position, across blocks and ranges, however the *)
(* cursors were sought and moved since.                                    *)
THEOREM ReadsBack ==
  ASSUME FileFits
  PROVE  ReadSpec => AlignedReadsBack
<1>1. ReadInit => CursorInv
  <2>1. SUFFICES ASSUME ReadInit PROVE CursorInv
    OBVIOUS
  <2>2. LogInv /\ file.size = 0 /\ cursor = [fd \in Fd |-> 0]
    BY <2>1, LogInitially DEF ReadInit, Init, EmptyFile
  <2>3. QED
    BY <2>2 DEF CursorInv, InFile
<1>2. CursorInv /\ [ReadNext]_io_vars => CursorInv'
  BY CursorNext
<1>3. CursorInv => ReadBack
  BY ReadsWhatIsThere
<1>4. ReadSpec => [][ReadBack]_vars
  BY <1>1, <1>2, <1>3, PTL DEF ReadSpec
<1>5. QED
  BY <1>4 DEF AlignedReadsBack, ReadBack

=============================================================================
