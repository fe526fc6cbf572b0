--------------------------- MODULE FileDataProofs ---------------------------
(***************************************************************************)
(* Blocks and contents of files, for any number of processes and files and *)
(* any sizes: the bit map is exact, every transaction fits its reservation *)
(* and files are independent sequences of bytes.                           *)
(***************************************************************************)
EXTENDS FileData, SequenceTheorems, FiniteSetTheorems, WellFoundedInduction, TLAPS

\* A nonempty set of numbers has a least element.
LEMMA NatMin ==
  ASSUME NEW T, T \subseteq Nat, T # {}
  PROVE  \E x \in T : \A y \in T : x <= y
<1> DEFINE R == OpToRel(<, Nat)
<1>1. IsWellFoundedOn(R, Nat)
  BY NatLessThanWellFounded
<1>2. \E x \in T : \A y \in T : <<y, x>> \notin R
  <2> HIDE DEF R
  <2> QED
    BY <1>1, WFMin
<1>3. \A x, y \in Nat : <<x, y>> \in R <=> x < y
  BY DEF OpToRel
<1> HIDE DEF R
<1>4. PICK x \in T : \A y \in T : <<y, x>> \notin R
  BY <1>2
<1>5. ASSUME NEW y \in T PROVE x <= y
  <2>1. x \in Nat /\ y \in Nat
    OBVIOUS
  <2>2. ~(y < x)
    BY <1>3, <1>4, <2>1
  <2> QED
    BY <2>1, <2>2
<1> QED
  BY <1>5

\* The sizes of rings, and what their indices are counted modulo.
Pos == Nat \ {0}

\* Quotient and remainder.
LEMMA DivMod ==
  ASSUME NEW a \in Nat, NEW m \in Pos
  PROVE  a % m \in 0..(m - 1) /\ a \div m \in Nat /\ a = (m * (a \div m)) + (a % m)
  BY DEF Pos

\* What programs write.
Byte == UNION {Range(w[2]) : w \in Writes}

Word == 0..(BSIZE - 1)
Blocks == [Word -> Nat]
FileBlock == 0..(MAXFILE - 1)
Addrs == [0..NDIRECT -> Blk \cup {0}]

Writing == {"writei", "bzero"}
Inside == {"writei", "bzero", "itrunc"}
Label == {"user", "begin", "end_op"} \cup Inside

Locals == [ip : Inum \cup {Nobody}, todo : Seq(Byte), part : Seq(Byte), from : Nat, at : Nat,
           nb : Blk \cup {0}, j : Nat]

Types ==
  /\ bitmap \subseteq Blk
  /\ block \in [Blk -> Blocks]
  /\ addrs \in [Inum -> Addrs]
  /\ size \in [Inum -> Nat] /\ off \in [Inum -> Nat]
  /\ lock \in [Inum -> Proc \cup {Nobody}]
  /\ pc \in [Proc -> Label]
  /\ loc \in [Proc -> Locals]
  /\ wrote = [p \in Proc |-> wrote[p]]

\* The processes inside writei and itrunc are the holders of the locks, and a
\* call that is not over names its file.
Locks ==
  /\ \A p \in Proc : pc[p] \in Inside => loc[p].ip \in Inum /\ lock[loc[p].ip] = p
  /\ \A i \in Inum : lock[i] # Nobody => pc[lock[i]] \in Inside /\ loc[lock[i]].ip = i
  /\ \A p \in Proc : pc[p] = "begin" \/ (pc[p] = "end_op" /\ loc[p].todo # << >>) => loc[p].ip \in Inum
  /\ \A p \in Proc : loc[p].nb # 0 <=> pc[p] = "bzero"

\* How far a transaction has come: it is within its chunk and within the file.
ProgressOf(p) ==
  /\ pc[p] \in Writing =>
       /\ loc[p].from <= loc[p].at
       /\ loc[p].at + Len(loc[p].part) <= loc[p].from + MaxChunk
       /\ loc[p].at + Len(loc[p].part) <= MAXFILE * BSIZE
  /\ pc[p] = "bzero" => loc[p].part # << >> /\ Lookup(loc[p].ip, Bn(p)) = 0
  /\ pc[p] = "itrunc" => loc[p].j <= NINDIRECT

Progress == \A p \in Proc : ProgressOf(p)

\* Every block in use has one place.
Placed ==
  /\ bitmap = ({Pointer(i, k) : i \in Inum, k \in Slot} \cup {loc[p].nb : p \in Proc}) \ {0}
  /\ \A i, j \in Inum, k, l \in Slot :
       Pointer(i, k) = Pointer(j, l) /\ Pointer(i, k) # 0 => i = j /\ k = l
  /\ \A p \in Proc : loc[p].nb # 0 =>
       /\ \A q \in Proc : loc[q].nb = loc[p].nb => q = p
       /\ \A i \in Inum, k \in Slot : Pointer(i, k) # loc[p].nb

\* How much of file i there is, seen by the holder of its lock.
Upto(i) ==
  IF lock[i] # Nobody /\ pc[lock[i]] \in Writing /\ loc[lock[i]].at > size[i]
  THEN loc[lock[i]].at ELSE size[i]

\* There is a block for all of it.
FilledOf(i) ==
  /\ Upto(i) <= MAXFILE * BSIZE
  /\ ~Truncating(i) => \A bn \in FileBlock : bn * BSIZE < Upto(i) => Lookup(i, bn) # 0

Filled == \A i \in Inum : FilledOf(i)

\* The blocks of the file that the transaction of p comes to.
Span(p) == {bn \in FileBlock : /\ loc[p].from < (bn + 1) * BSIZE
                               /\ bn * BSIZE < loc[p].at + Len(loc[p].part)}

Touched(p) ==
  {BitmapBlock, addrs[loc[p].ip][NDIRECT]} \cup {Lookup(loc[p].ip, bn) : bn \in Span(p)}

\* What a transaction has given to the log.
WithinOf(p) ==
  /\ pc[p] \in {"user", "begin"} => wrote[p] = {}
  /\ pc[p] \in Writing => wrote[p] \subseteq Touched(p)
  /\ pc[p] = "itrunc" => wrote[p] \subseteq {BitmapBlock}
  /\ pc[p] = "end_op" => IsFiniteSet(wrote[p]) /\ Cardinality(wrote[p]) <= MAXOPBLOCKS

Within == \A p \in Proc : WithinOf(p)

Inv == Types /\ Locks /\ Progress /\ Placed /\ Filled /\ Within

-----------------------------------------------------------------------------
(* Numbers *)

\* What the constants are.
LEMMA Constants ==
  /\ BSIZE \in Pos /\ BSIZE \in Nat /\ BSIZE >= 1 /\ NDIRECT \in Nat /\ NBLOCKS \in Nat
  /\ NINDIRECT = BSIZE /\ MAXFILE = NDIRECT + BSIZE /\ MAXFILE \in Nat
  /\ MAXOPBLOCKS \in Nat /\ MAXOPBLOCKS >= 6
  /\ Nobody \notin Proc /\ Blk \subseteq Nat /\ 0 \notin Blk /\ InodeBlock \notin Blk
  BY FileDataAssumption DEF Pos, NINDIRECT, MAXFILE, Blk, InodeBlock

\* What is written to a file is bytes, which are numbers.
LEMMA WritesAre == Byte \subseteq Nat /\ \A w \in Writes : w[1] \in Inum /\ w[2] \in Seq(Byte)
<1>1. ASSUME NEW w \in Writes
      PROVE  w[1] \in Inum /\ w[2] \in Seq(Byte) /\ Range(w[2]) \subseteq Nat
  <2>1. w[1] \in Inum /\ w[2] \in Seq(Nat)
    BY FileDataAssumption
  <2>2. Range(w[2]) \subseteq Nat
    BY <2>1 DEF Range
  <2>3. \A k \in 1..Len(w[2]) : w[2][k] \in Byte
    BY <2>1 DEF Byte, Range
  <2>4. w[2] \in Seq(Byte)
    BY <2>1, <2>3
  <2> QED
    BY <2>1, <2>2, <2>4
<1> QED
  BY <1>1 DEF Byte

\* Blocks of equal size keep the order of their numbers.
LEMMA MulLess ==
  ASSUME NEW a \in Nat, NEW b \in Nat, NEW m \in Pos
  PROVE  /\ a * m \in Nat /\ (a + 1) * m = a * m + m
         /\ a < b => a * m + m <= b * m
         /\ a * m < b * m => a < b
<1>1. a * m \in Nat /\ b * m \in Nat /\ (a + 1) * m = a * m + m /\ m >= 1 /\ m \in Nat
  BY DEF Pos
<1>2. ASSUME NEW x \in Nat, NEW y \in Nat, x < y PROVE x * m + m <= y * m
  <2> DEFINE d == y - x - 1
  <2>1. d \in Nat /\ y = x + 1 + d
    BY <1>2
  <2> HIDE DEF d
  <2>2. (x + 1 + d) * m = x * m + m + d * m /\ d * m \in Nat /\ x * m \in Nat
    BY <2>1 DEF Pos
  <2> QED
    BY <1>1, <2>1, <2>2
<1>3. ASSUME a * m < b * m PROVE a < b
  <2>1. b < a => b * m + m <= a * m
    BY <1>2
  <2> QED
    BY <1>1, <1>3, <2>1
<1> QED
  BY <1>1, <1>2, <1>3

\* The block that byte x of a file is in.
LEMMA BlockOf ==
  ASSUME NEW x \in Nat
  PROVE  /\ x \div BSIZE \in Nat /\ x % BSIZE \in Word
         /\ x = (x \div BSIZE) * BSIZE + (x % BSIZE)
         /\ (x \div BSIZE) * BSIZE <= x /\ x < (x \div BSIZE + 1) * BSIZE
         /\ x < MAXFILE * BSIZE => x \div BSIZE \in FileBlock
<1> DEFINE q == x \div BSIZE
           r == x % BSIZE
<1>1. r \in 0..(BSIZE - 1) /\ q \in Nat /\ x = (BSIZE * q) + r
  BY Constants, DivMod
<1> HIDE DEF q, r
<1>2. q * BSIZE \in Nat /\ (q + 1) * BSIZE = q * BSIZE + BSIZE
  BY <1>1, Constants, MulLess
<1>3. x = q * BSIZE + r
  BY <1>1, Constants
<1>4. q * BSIZE <= x /\ x < (q + 1) * BSIZE
  BY <1>1, <1>2, <1>3, Constants
<1>5. ASSUME x < MAXFILE * BSIZE PROVE q \in FileBlock
  <2>1. MAXFILE * BSIZE \in Nat
    BY Constants, MulLess
  <2>2. q * BSIZE < MAXFILE * BSIZE
    BY <1>2, <1>4, <1>5, <2>1
  <2>3. q < MAXFILE
    BY <1>1, <2>2, Constants, MulLess
  <2> QED
    BY <1>1, <2>3, Constants DEF FileBlock
<1> QED
  BY <1>1, <1>3, <1>4, <1>5 DEF q, r, Word

\* The lesser and the greater of two numbers.
LEMMA MinMax ==
  ASSUME NEW a \in Nat, NEW b \in Nat
  PROVE  /\ Min({a, b}) = IF a <= b THEN a ELSE b
         /\ Max({a, b}) = IF a >= b THEN a ELSE b
<1>1. \E x \in {a, b} : \A y \in {a, b} : x <= y
  OBVIOUS
<1>2. \E x \in {a, b} : \A y \in {a, b} : x >= y
  OBVIOUS
<1> QED
  BY <1>1, <1>2 DEF Min, Max

\* The first of a set of numbers is one of them.
LEMMA MinIn ==
  ASSUME NEW S, S \subseteq Nat, S # {}
  PROVE  Min(S) \in S
<1>1. \E x \in S : \A y \in S : x <= y
  BY NatMin
<1> QED
  BY <1>1 DEF Min

-----------------------------------------------------------------------------
(* Places *)

\* No place has changed.
LEMMA PlacedSame ==
  ASSUME Placed, bitmap' = bitmap,
         \A i \in Inum, k \in Slot : Pointer(i, k)' = Pointer(i, k),
         \A q \in Proc : loc'[q].nb = loc[q].nb
  PROVE  Placed'
  BY DEF Placed

\* A file gives up the block in slot s.
LEMMA PlacedDrop ==
  ASSUME Placed, NEW f \in Inum, NEW s \in Slot,
         bitmap' = bitmap \ {Pointer(f, s)}, Pointer(f, s)' = 0,
         \A i \in Inum, k \in Slot : i # f \/ k # s => Pointer(i, k)' = Pointer(i, k),
         \A q \in Proc : loc'[q].nb = loc[q].nb
  PROVE  Placed'
  BY DEF Placed

\* The block that p has allocated goes to an empty slot.
LEMMA PlacedTake ==
  ASSUME Placed, NEW f \in Inum, NEW s \in Slot, NEW p \in Proc, bitmap' = bitmap,
         loc[p].nb # 0, loc'[p].nb = 0, Pointer(f, s) = 0, Pointer(f, s)' = loc[p].nb,
         \A i \in Inum, k \in Slot : i # f \/ k # s => Pointer(i, k)' = Pointer(i, k),
         \A q \in Proc : q # p => loc'[q].nb = loc[q].nb
  PROVE  Placed'
  BY DEF Placed

\* p allocates a free block.
LEMMA PlacedAlloc ==
  ASSUME Placed, NEW p \in Proc, NEW b, b # 0, b \notin bitmap, bitmap' = bitmap \cup {b},
         loc[p].nb = 0, loc'[p].nb = b,
         \A i \in Inum, k \in Slot : Pointer(i, k)' = Pointer(i, k),
         \A q \in Proc : q # p => loc'[q].nb = loc[q].nb
  PROVE  Placed'
  BY DEF Placed

-----------------------------------------------------------------------------
(* What the invariant says *)

\* The types of the local variables of a process.
LEMMA LocalsAt ==
  ASSUME Types, NEW p \in Proc
  PROVE  /\ loc[p].ip \in Inum \cup {Nobody} /\ loc[p].todo \in Seq(Byte)
         /\ loc[p].part \in Seq(Byte) /\ Len(loc[p].part) \in Nat /\ Len(loc[p].todo) \in Nat
         /\ loc[p].from \in Nat /\ loc[p].at \in Nat /\ loc[p].nb \in Blk \cup {0} /\ loc[p].j \in Nat
<1>1. loc[p] \in Locals
  BY DEF Types
<1> QED
  BY <1>1 DEF Locals

\* The types of an inode.
LEMMA InodeAt ==
  ASSUME Types, NEW i \in Inum
  PROVE  /\ \A k \in 0..NDIRECT : addrs[i][k] \in Blk \cup {0}
         /\ NDIRECT \in 0..NDIRECT
         /\ size[i] \in Nat /\ off[i] \in Nat /\ lock[i] \in Proc \cup {Nobody}
  BY Constants DEF Types, Addrs

\* The indirect block has a slot of its own.
LEMMA IndIs ==
  ASSUME NEW i \in Inum
  PROVE  NDIRECT \in Slot /\ Pointer(i, NDIRECT) = addrs[i][NDIRECT]
  BY Constants DEF Slot, Pointer

\* The other slots are the blocks of the file.
LEMMA LookupIs ==
  ASSUME NEW i \in Inum, NEW bn \in FileBlock, ~Truncating(i)
  PROVE  \E s \in Slot : /\ s # NDIRECT /\ s = (IF bn < NDIRECT THEN bn ELSE bn + 1)
                         /\ Lookup(i, bn) = Pointer(i, s)
<1>1. Finished(i) = 0
  BY DEF Finished
<1>2. CASE bn < NDIRECT
  <2>1. bn \in Slot /\ bn # NDIRECT /\ bn <= NDIRECT
    BY <1>2, Constants DEF Slot, FileBlock
  <2> QED
    BY <1>2, <2>1 DEF Lookup, Pointer
<1>3. CASE ~(bn < NDIRECT)
  <2>1. /\ bn + 1 \in Slot /\ bn + 1 # NDIRECT /\ ~(bn + 1 <= NDIRECT)
        /\ (bn + 1) - NDIRECT - 1 = bn - NDIRECT /\ ~(bn - NDIRECT < 0)
    BY <1>3, Constants DEF Slot, FileBlock
  <2> QED
    BY <1>1, <1>3, <2>1 DEF Lookup, Pointer
<1> QED
  BY <1>2, <1>3

\* A block of a file is in use, as nothing else.
LEMMA DataAlone ==
  ASSUME Inv, NEW i \in Inum, NEW bn \in FileBlock, ~Truncating(i), Lookup(i, bn) # 0
  PROVE  /\ Lookup(i, bn) \in Blk
         /\ \A j \in Inum : Lookup(i, bn) # addrs[j][NDIRECT]
         /\ \A p \in Proc : Lookup(i, bn) # loc[p].nb
         /\ \A j \in Inum, bm \in FileBlock :
              ~Truncating(j) /\ Lookup(j, bm) = Lookup(i, bn) => j = i /\ bm = bn
<1>1. PICK s \in Slot : /\ s # NDIRECT /\ s = (IF bn < NDIRECT THEN bn ELSE bn + 1)
                        /\ Lookup(i, bn) = Pointer(i, s)
  BY LookupIs
<1>2. Pointer(i, s) \in bitmap /\ bitmap \subseteq Blk
  BY <1>1 DEF Inv, Placed, Types
<1>3. ASSUME NEW j \in Inum PROVE Lookup(i, bn) # addrs[j][NDIRECT]
  BY <1>1, IndIs DEF Inv, Placed
<1>4. ASSUME NEW p \in Proc PROVE Lookup(i, bn) # loc[p].nb
  BY <1>1 DEF Inv, Placed
<1>5. ASSUME NEW j \in Inum, NEW bm \in FileBlock, ~Truncating(j), Lookup(j, bm) = Lookup(i, bn)
      PROVE  j = i /\ bm = bn
  <2>1. PICK t \in Slot : /\ t = (IF bm < NDIRECT THEN bm ELSE bm + 1)
                          /\ Lookup(j, bm) = Pointer(j, t)
    BY <1>5, LookupIs
  <2>2. j = i /\ t = s
    BY <1>1, <1>5, <2>1 DEF Inv, Placed
  <2>3. bm = bn
    BY <1>1, <2>1, <2>2, Constants DEF FileBlock
  <2> QED
    BY <2>2, <2>3
<1> QED
  BY <1>1, <1>2, <1>3, <1>4, <1>5

\* So is an indirect block.
LEMMA IndAlone ==
  ASSUME Inv, NEW i \in Inum, addrs[i][NDIRECT] # 0
  PROVE  /\ addrs[i][NDIRECT] \in Blk
         /\ \A j \in Inum : addrs[j][NDIRECT] = addrs[i][NDIRECT] => j = i
         /\ \A p \in Proc : addrs[i][NDIRECT] # loc[p].nb
<1>1. addrs[i][NDIRECT] \in Blk
  BY InodeAt DEF Inv
<1>2. \A j \in Inum : Pointer(j, NDIRECT) = addrs[j][NDIRECT] /\ NDIRECT \in Slot
  BY IndIs
<1>3. \A j \in Inum : addrs[j][NDIRECT] = addrs[i][NDIRECT] => j = i
  BY <1>2 DEF Inv, Placed
<1>4. \A p \in Proc : addrs[i][NDIRECT] # loc[p].nb
  BY <1>2 DEF Inv, Placed
<1> QED
  BY <1>1, <1>3, <1>4

\* A process inside has its file to itself.
LEMMA Holder ==
  ASSUME Inv, NEW p \in Proc, pc[p] \in Inside
  PROVE  /\ loc[p].ip \in Inum /\ lock[loc[p].ip] = p
         /\ \A i \in Inum : lock[i] = p => i = loc[p].ip
         /\ \A q \in Proc : q # p /\ pc[q] \in Inside => loc[q].ip # loc[p].ip
         /\ Truncating(loc[p].ip) <=> pc[p] = "itrunc"
         /\ Finished(loc[p].ip) = IF pc[p] = "itrunc" THEN loc[p].j ELSE 0
         /\ Upto(loc[p].ip) = IF pc[p] \in Writing /\ loc[p].at > size[loc[p].ip]
                              THEN loc[p].at ELSE size[loc[p].ip]
<1>1. loc[p].ip \in Inum /\ lock[loc[p].ip] = p
  BY DEF Inv, Locks
<1>2. \A i \in Inum : lock[i] = p => i = loc[p].ip
  BY Constants DEF Inv, Locks
<1>3. \A q \in Proc : q # p /\ pc[q] \in Inside => loc[q].ip # loc[p].ip
  BY <1>1 DEF Inv, Locks
<1>4. Truncating(loc[p].ip) <=> pc[p] = "itrunc"
  BY <1>1 DEF Truncating
<1>5. p # Nobody
  BY Constants
<1> QED
  BY <1>1, <1>2, <1>3, <1>4, <1>5 DEF Finished, Upto

\* Where a process outside is: it holds no lock.
LEMMA Outside ==
  ASSUME Inv, NEW p \in Proc, pc[p] \notin Inside
  PROVE  \A i \in Inum : lock[i] # p
  BY Constants DEF Inv, Locks

\* The block that a write has come to.
LEMMA BnIs ==
  ASSUME Inv, NEW p \in Proc, pc[p] \in Writing, loc[p].part # << >>
  PROVE  /\ Bn(p) \in FileBlock /\ Bn(p) \in Span(p)
         /\ Bn(p) * BSIZE <= loc[p].at /\ loc[p].at < (Bn(p) + 1) * BSIZE
         /\ Len(loc[p].part) >= 1
<1> DEFINE a == loc[p].at
           b == Bn(p)
           n == Len(loc[p].part)
           m == loc[p].from
<1>1. a \in Nat /\ n \in Nat /\ n >= 1 /\ m \in Nat
  BY LocalsAt DEF Inv
<1>2. m <= a /\ a + n <= MAXFILE * BSIZE
  BY DEF Inv, Progress, ProgressOf
<1>3. /\ b \in Nat /\ b * BSIZE <= a /\ a < (b + 1) * BSIZE
      /\ a < MAXFILE * BSIZE => b \in FileBlock
  BY <1>1, BlockOf DEF Bn
<1>4. b * BSIZE \in Nat /\ (b + 1) * BSIZE \in Nat /\ MAXFILE * BSIZE \in Nat
  BY <1>3, Constants, MulLess
<1>5. b \in Span(p)
  <2>1. b \in FileBlock /\ m < (b + 1) * BSIZE /\ b * BSIZE < a + n
    <3> HIDE DEF a, b, n, m
    <3> QED
      BY <1>1, <1>2, <1>3, <1>4
  <2> QED
    BY <2>1 DEF Span
<1> QED
  BY <1>1, <1>2, <1>3, <1>4, <1>5 DEF Span


-----------------------------------------------------------------------------
(* What a step of p leaves alone *)

\* The other processes.
Alone(p) == \A q \in Proc : q # p => pc'[q] = pc[q] /\ loc'[q] = loc[q] /\ wrote'[q] = wrote[q]

\* The blocks of file i.
SameBlocks(i) ==
  /\ addrs'[i] = addrs[i]
  /\ addrs[i][NDIRECT] # 0 => block'[addrs[i][NDIRECT]] = block[addrs[i][NDIRECT]]

\* All of file i.
Same(i) == SameBlocks(i) /\ lock'[i] = lock[i] /\ size'[i] = size[i]

\* The blocks of a file are where its inode and indirect block say.
LEMMA LookupSame ==
  ASSUME NEW i \in Inum, SameBlocks(i)
  PROVE  \A bn \in FileBlock : Lookup(i, bn)' = Lookup(i, bn)
  BY DEF SameBlocks, Lookup

\* So are its slots, while itrunc stands still.
LEMMA PointerSame ==
  ASSUME NEW i \in Inum, SameBlocks(i), Finished(i)' = Finished(i)
  PROVE  \A k \in Slot : Pointer(i, k)' = Pointer(i, k)
  BY DEF SameBlocks, Pointer

\* Who is inside a file is a matter of its lock.
LEMMA InsideSame ==
  ASSUME Inv, NEW p \in Proc, Alone(p), NEW i \in Inum, lock[i] # p,
         lock'[i] = lock[i], size'[i] = size[i]
  PROVE  /\ Truncating(i)' <=> Truncating(i)
         /\ Finished(i)' = Finished(i)
         /\ Upto(i)' = Upto(i)
<1>1. lock[i] \in Proc \cup {Nobody} /\ Nobody \notin Proc
  BY InodeAt, Constants DEF Inv
<1>2. lock[i] # Nobody => pc'[lock[i]] = pc[lock[i]] /\ loc'[lock[i]] = loc[lock[i]]
  BY <1>1 DEF Alone
<1>3. Truncating(i)' <=> Truncating(i)
  BY <1>1, <1>2 DEF Truncating
<1>4. Truncating(i) => lock[i] # Nobody
  BY <1>1 DEF Truncating
<1>5. Finished(i)' = Finished(i)
  BY <1>2, <1>3, <1>4 DEF Finished
<1>6. Upto(i)' = Upto(i)
  BY <1>2 DEF Upto
<1> QED
  BY <1>3, <1>5, <1>6

\* A step of p at files in F leaves the rest of the invariant to be shown for p
\* and for F.
LEMMA Frame ==
  ASSUME Inv, NEW p \in Proc, NEW F, Alone(p),
         \A i \in Inum : i \notin F => Same(i) /\ lock[i] # p,
         \A q \in Proc : q # p /\ pc[q] \in Inside => loc[q].ip \notin F,
         ProgressOf(p)', WithinOf(p)', \A i \in Inum : i \in F => FilledOf(i)'
  PROVE  Progress' /\ Filled' /\ Within'
<1>1. ASSUME NEW q \in Proc, q # p PROVE ProgressOf(q)' /\ WithinOf(q)'
  <2>1. pc'[q] = pc[q] /\ loc'[q] = loc[q] /\ wrote'[q] = wrote[q]
    BY <1>1 DEF Alone
  <2>2. ProgressOf(q) /\ WithinOf(q)
    BY DEF Inv, Progress, Within
  <2>3. CASE pc[q] \in Inside
    <3>1. loc[q].ip \in Inum /\ loc[q].ip \notin F
      BY <1>1, <2>3, Holder
    <3>2. SameBlocks(loc[q].ip)
      BY <3>1 DEF Same
    <3>3. \A bn \in FileBlock : Lookup(loc[q].ip, bn)' = Lookup(loc[q].ip, bn)
      <4>1. ASSUME NEW i \in Inum, i = loc[q].ip
            PROVE  \A bn \in FileBlock : Lookup(i, bn)' = Lookup(i, bn)
        BY <3>2, <4>1, LookupSame
      <4> QED
        BY <2>1, <3>1, <4>1
    <3>4. addrs'[loc[q].ip] = addrs[loc[q].ip]
      BY <3>2 DEF SameBlocks
    <3>5. Span(q)' = Span(q) /\ Bn(q)' = Bn(q)
      BY <2>1 DEF Span, Bn
    <3>6. Touched(q)' = Touched(q)
      BY <2>1, <3>3, <3>4, <3>5 DEF Touched, Span
    <3>7. pc[q] = "bzero" => Bn(q) \in FileBlock
      BY <2>2, BnIs DEF ProgressOf, Writing
    <3>8. ProgressOf(q)'
      BY <2>1, <2>2, <3>3, <3>5, <3>7 DEF ProgressOf
    <3>9. WithinOf(q)'
      BY <2>1, <2>2, <3>6 DEF WithinOf
    <3> QED
      BY <3>8, <3>9
  <2>4. CASE pc[q] \notin Inside
    <3>1. ProgressOf(q)'
      BY <2>1, <2>4 DEF ProgressOf, Inside, Writing
    <3>2. WithinOf(q)'
      BY <2>1, <2>2, <2>4 DEF WithinOf, Inside, Writing
    <3> QED
      BY <3>1, <3>2
  <2> QED
    BY <2>3, <2>4
<1>2. ASSUME NEW i \in Inum, i \notin F PROVE FilledOf(i)'
  <2>1. SameBlocks(i) /\ lock[i] # p /\ lock'[i] = lock[i] /\ size'[i] = size[i]
    BY <1>2 DEF Same
  <2>2. (Truncating(i)' <=> Truncating(i)) /\ Upto(i)' = Upto(i)
    BY <2>1, InsideSame
  <2>3. \A bn \in FileBlock : Lookup(i, bn)' = Lookup(i, bn)
    BY <2>1, LookupSame
  <2>4. FilledOf(i)
    BY DEF Inv, Filled
  <2> QED
    BY <2>2, <2>3, <2>4 DEF FilledOf
<1>3. Progress' /\ Within'
  BY <1>1 DEF Progress, Within
<1> QED
  BY <1>2, <1>3 DEF Filled

\* So does the place of every block.
LEMMA PointersSame ==
  ASSUME Inv, NEW p \in Proc, Alone(p),
         NEW i \in Inum, Same(i), lock[i] # p
  PROVE  \A k \in Slot : Pointer(i, k)' = Pointer(i, k)
<1>1. Finished(i)' = Finished(i)
  BY InsideSame DEF Same
<1> QED
  BY <1>1, PointerSame DEF Same

-----------------------------------------------------------------------------
(* Local variables *)

\* The locals of a call.
LEMMA StartIs ==
  ASSUME NEW i \in Inum \cup {Nobody}, NEW s \in Seq(Byte), NEW r,
         r = [ip |-> i, todo |-> s, part |-> << >>, from |-> 0, at |-> 0, nb |-> 0, j |-> 0]
  PROVE  r \in Locals /\ r.ip = i /\ r.todo = s /\ r.nb = 0 /\ r.j = 0
<1>1. << >> \in Seq(Byte) /\ 0 \in Nat /\ 0 \in Blk \cup {0}
  OBVIOUS
<1>2. PICK e : e = << >>
  OBVIOUS
<1>3. r = [ip |-> i, todo |-> s, part |-> e, from |-> 0, at |-> 0, nb |-> 0, j |-> 0] /\ e \in Seq(Byte)
  BY <1>1, <1>2
<1>4. r \in [ip : Inum \cup {Nobody}, todo : Seq(Byte), part : Seq(Byte), from : Nat, at : Nat,
             nb : Blk \cup {0}, j : Nat]
  BY ONLY <1>1, <1>3, i \in Inum \cup {Nobody}, s \in Seq(Byte)
<1>5. r.ip = i /\ r.todo = s /\ r.nb = 0 /\ r.j = 0
  BY ONLY <1>3
<1> QED
  BY <1>4, <1>5 DEF Locals

\* The same as the code writes it, and the locals of itrunc.
LEMMA NoLocalsIs ==
  ASSUME NEW i, NEW s
  PROVE  /\ NoLocals = [ip |-> Nobody, todo |-> << >>, part |-> << >>, from |-> 0, at |-> 0, nb |-> 0, j |-> 0]
         /\ [NoLocals EXCEPT !.ip = i]
              = [ip |-> i, todo |-> << >>, part |-> << >>, from |-> 0, at |-> 0, nb |-> 0, j |-> 0]
         /\ [NoLocals EXCEPT !.ip = i, !.todo = s]
              = [ip |-> i, todo |-> s, part |-> << >>, from |-> 0, at |-> 0, nb |-> 0, j |-> 0]
<1>1. PICK e : e = << >>
  OBVIOUS
<1>2. NoLocals = [ip |-> Nobody, todo |-> e, part |-> e, from |-> 0, at |-> 0, nb |-> 0, j |-> 0]
  BY <1>1 DEF NoLocals
<1>3. [NoLocals EXCEPT !.ip = i]
              = [ip |-> i, todo |-> e, part |-> e, from |-> 0, at |-> 0, nb |-> 0, j |-> 0]
  BY ONLY <1>2
<1>4. [NoLocals EXCEPT !.ip = i, !.todo = s]
              = [ip |-> i, todo |-> s, part |-> e, from |-> 0, at |-> 0, nb |-> 0, j |-> 0]
  <2>1. PICK r : r = [NoLocals EXCEPT !.ip = i]
    OBVIOUS
  <2>2. r = [ip |-> i, todo |-> e, part |-> e, from |-> 0, at |-> 0, nb |-> 0, j |-> 0]
    BY <1>3, <2>1
  <2>3. [r EXCEPT !.todo = s]
              = [ip |-> i, todo |-> s, part |-> e, from |-> 0, at |-> 0, nb |-> 0, j |-> 0]
    BY ONLY <2>2
  <2>4. [NoLocals EXCEPT !.ip = i, !.todo = s] = [r EXCEPT !.todo = s]
    BY <2>1
  <2> QED
    BY <2>3, <2>4
<1> QED
  BY <1>1, <1>2, <1>3, <1>4

\* The locals of a process that is in no call.
LEMMA UserLocals == NoLocals \in Locals /\ NoLocals.ip = Nobody /\ NoLocals.todo = << >> /\ NoLocals.nb = 0
<1>1. << >> \in Seq(Byte) /\ Nobody \in Inum \cup {Nobody}
  OBVIOUS
<1>2. PICK r, s : r = NoLocals /\ s = << >>
  OBVIOUS
<1>3. r = [ip |-> Nobody, todo |-> s, part |-> << >>, from |-> 0, at |-> 0, nb |-> 0, j |-> 0]
  BY <1>2, NoLocalsIs
<1>4. s \in Seq(Byte)
  BY <1>1, <1>2
<1>5. r \in Locals /\ r.ip = Nobody /\ r.todo = s /\ r.nb = 0
  BY <1>1, <1>3, <1>4, StartIs
<1> QED
  BY <1>2, <1>5

\* Of one that starts to write.
StartOf(i, s) == [NoLocals EXCEPT !.ip = i, !.todo = s]

LEMMA WriteLocals ==
  ASSUME NEW i \in Inum, NEW s \in Seq(Byte)
  PROVE  /\ StartOf(i, s) \in Locals /\ StartOf(i, s).ip = i /\ StartOf(i, s).todo = s
         /\ StartOf(i, s).nb = 0
<1>0. PICK r : r = StartOf(i, s)
  OBVIOUS
<1>1. r = [ip |-> i, todo |-> s, part |-> << >>, from |-> 0, at |-> 0, nb |-> 0, j |-> 0]
  BY <1>0, NoLocalsIs DEF StartOf
<1>2. i \in Inum \cup {Nobody}
  OBVIOUS
<1>3. r \in Locals /\ r.ip = i /\ r.todo = s /\ r.nb = 0
  BY ONLY <1>1, <1>2, s \in Seq(Byte), StartIs
<1> QED
  BY <1>0, <1>3

\* Of one that starts to truncate.
TruncOf(i) == [NoLocals EXCEPT !.ip = i]

LEMMA TruncLocals ==
  ASSUME NEW i \in Inum
  PROVE  /\ TruncOf(i) \in Locals /\ TruncOf(i).ip = i /\ TruncOf(i).nb = 0 /\ TruncOf(i).j = 0
<1>1. PICK s, r : s = << >> /\ r = TruncOf(i)
  OBVIOUS
<1>2. r = [ip |-> i, todo |-> s, part |-> << >>, from |-> 0, at |-> 0, nb |-> 0, j |-> 0]
  BY <1>1, NoLocalsIs DEF TruncOf
<1>3. i \in Inum \cup {Nobody} /\ s \in Seq(Byte)
  BY <1>1
<1>4. r \in Locals /\ r.ip = i /\ r.nb = 0 /\ r.j = 0
  BY ONLY <1>2, <1>3, StartIs
<1> QED
  BY <1>1, <1>4

\* The locals of writei and of itrunc.
BeginOf(l, a, s, t) == [l EXCEPT !.from = a, !.at = a, !.part = s, !.todo = t]
NbOf(l, b) == [l EXCEPT !.nb = b]
MoveOf(l, a, s) == [l EXCEPT !.at = a, !.part = s]
JOf(l, a) == [l EXCEPT !.j = a]

\* An offset, kept apart from arithmetic.
Offset == Nat

\* A record of locals has its fields.
LEMMA LocalsAre ==
  ASSUME NEW l \in Locals
  PROVE  /\ l = [ip |-> l.ip, todo |-> l.todo, part |-> l.part, from |-> l.from, at |-> l.at,
                  nb |-> l.nb, j |-> l.j]
         /\ l.ip \in Inum \cup {Nobody} /\ l.todo \in Seq(Byte) /\ l.part \in Seq(Byte)
         /\ l.from \in Nat /\ l.at \in Nat /\ l.nb \in Blk \cup {0} /\ l.j \in Nat
<1>1. l \in [ip : Inum \cup {Nobody}, todo : Seq(Byte), part : Seq(Byte), from : Nat, at : Nat,
             nb : Blk \cup {0}, j : Nat]
  BY DEF Locals
<1> QED
  BY ONLY <1>1

\* writei starts.
LEMMA BeginLocals ==
  ASSUME NEW l \in Locals, NEW a \in Offset, NEW s \in Seq(Byte), NEW t \in Seq(Byte), NEW r, r = BeginOf(l, a, s, t)
  PROVE  /\ r \in Locals /\ r.ip = l.ip /\ r.from = a /\ r.at = a /\ r.part = s
         /\ r.todo = t /\ r.nb = l.nb /\ r.j = l.j
<1>1. l = [ip |-> l.ip, todo |-> l.todo, part |-> l.part, from |-> l.from, at |-> l.at,
           nb |-> l.nb, j |-> l.j]
  BY LocalsAre
<1>2. r = [ip |-> l.ip, todo |-> t, part |-> s, from |-> a, at |-> a, nb |-> l.nb, j |-> l.j]
  BY ONLY r = BeginOf(l, a, s, t), <1>1 DEF BeginOf
<1> QED
  BY <1>2, LocalsAre DEF Locals, Offset

\* A block is allocated, or taken.
LEMMA NbLocals ==
  ASSUME NEW l \in Locals, NEW b \in Blk \cup {0}, NEW r, r = NbOf(l, b)
  PROVE  /\ r \in Locals /\ r.ip = l.ip /\ r.from = l.from /\ r.at = l.at /\ r.part = l.part
         /\ r.todo = l.todo /\ r.nb = b /\ r.j = l.j
<1>1. l = [ip |-> l.ip, todo |-> l.todo, part |-> l.part, from |-> l.from, at |-> l.at,
           nb |-> l.nb, j |-> l.j]
  BY LocalsAre
<1>2. r = [ip |-> l.ip, todo |-> l.todo, part |-> l.part, from |-> l.from, at |-> l.at, nb |-> b, j |-> l.j]
  BY ONLY r = NbOf(l, b), <1>1 DEF NbOf
<1> QED
  BY <1>2, LocalsAre DEF Locals

\* writei goes on.
LEMMA MoveLocals ==
  ASSUME NEW l \in Locals, NEW a \in Offset, NEW s \in Seq(Byte)
  PROVE  /\ MoveOf(l, a, s) \in Locals /\ MoveOf(l, a, s).ip = l.ip /\ MoveOf(l, a, s).from = l.from
         /\ MoveOf(l, a, s).at = a /\ MoveOf(l, a, s).part = s /\ MoveOf(l, a, s).nb = l.nb
<1>1. l = [ip |-> l.ip, todo |-> l.todo, part |-> l.part, from |-> l.from, at |-> l.at,
           nb |-> l.nb, j |-> l.j]
  BY LocalsAre
<1>2. PICK r : r = MoveOf(l, a, s)
  OBVIOUS
<1>3. r = [ip |-> l.ip, todo |-> l.todo, part |-> s, from |-> l.from, at |-> a, nb |-> l.nb, j |-> l.j]
  BY ONLY <1>1, <1>2 DEF MoveOf
<1>4. r \in Locals /\ r.ip = l.ip /\ r.from = l.from /\ r.at = a /\ r.part = s /\ r.nb = l.nb
  BY <1>3, LocalsAre DEF Locals, Offset
<1> QED
  BY <1>2, <1>4

\* itrunc goes on.
LEMMA JLocals ==
  ASSUME NEW l \in Locals, NEW a \in Offset, NEW r, r = JOf(l, a)
  PROVE  /\ r \in Locals /\ r.ip = l.ip /\ r.from = l.from /\ r.at = l.at /\ r.part = l.part
         /\ r.todo = l.todo /\ r.nb = l.nb /\ r.j = a
<1>1. l = [ip |-> l.ip, todo |-> l.todo, part |-> l.part, from |-> l.from, at |-> l.at,
           nb |-> l.nb, j |-> l.j]
  BY LocalsAre
<1>2. r = [ip |-> l.ip, todo |-> l.todo, part |-> l.part, from |-> l.from, at |-> l.at, nb |-> l.nb, j |-> a]
  BY ONLY r = JOf(l, a), <1>1 DEF JOf
<1> QED
  BY <1>2, LocalsAre DEF Locals, Offset

\* A process goes on.
LEMMA GotoIs ==
  ASSUME Types, NEW p \in Proc, NEW x \in Label, NEW r \in Locals, Goto(p, x, r)
  PROVE  /\ pc' \in [Proc -> Label] /\ loc' \in [Proc -> Locals]
         /\ pc'[p] = x /\ loc'[p] = r
         /\ \A q \in Proc : q # p => pc'[q] = pc[q] /\ loc'[q] = loc[q]
  BY DEF Types, Goto

\* The log is told of a block.
LEMMA LogWriteIs ==
  ASSUME Types, NEW p \in Proc, NEW S, LogWrite(p, S)
  PROVE  /\ wrote' = [q \in Proc |-> wrote'[q]]
         /\ wrote'[p] = wrote[p] \cup S
         /\ \A q \in Proc : q # p => wrote'[q] = wrote[q]
  BY DEF Types, LogWrite

\* Locks that do not change.
LEMMA LocksKeep ==
  ASSUME Inv, NEW p \in Proc, Alone(p), lock' = lock,
         pc'[p] \in Inside <=> pc[p] \in Inside,
         pc[p] \in Inside => loc'[p].ip = loc[p].ip,
         pc'[p] = "begin" \/ (pc'[p] = "end_op" /\ loc'[p].todo # << >>) => loc'[p].ip \in Inum,
         loc'[p].nb # 0 <=> pc'[p] = "bzero"
  PROVE  Locks'
<1>1. \A q \in Proc : pc'[q] \in Inside => loc'[q].ip \in Inum /\ lock'[loc'[q].ip] = q
  BY DEF Inv, Locks, Alone
<1>2. \A i \in Inum : lock'[i] # Nobody => pc'[lock'[i]] \in Inside /\ loc'[lock'[i]].ip = i
  <2> SUFFICES ASSUME NEW i \in Inum, lock[i] # Nobody
               PROVE  pc'[lock[i]] \in Inside /\ loc'[lock[i]].ip = i
    OBVIOUS
  <2>1. lock[i] \in Proc /\ pc[lock[i]] \in Inside /\ loc[lock[i]].ip = i
    BY InodeAt DEF Inv, Locks
  <2> QED
    BY <2>1 DEF Alone
<1>3. \A q \in Proc : pc'[q] = "begin" \/ (pc'[q] = "end_op" /\ loc'[q].todo # << >>) => loc'[q].ip \in Inum
  BY DEF Inv, Locks, Alone
<1>4. \A q \in Proc : loc'[q].nb # 0 <=> pc'[q] = "bzero"
  BY DEF Inv, Locks, Alone
<1> QED
  BY <1>1, <1>2, <1>3, <1>4 DEF Locks

\* A process takes the lock of f and goes inside.
LEMMA LocksTake ==
  ASSUME Inv, NEW p \in Proc, Alone(p), NEW f \in Inum, lock[f] = Nobody,
         lock' = [lock EXCEPT ![f] = p],
         pc[p] \notin Inside, pc'[p] \in Inside, pc'[p] # "bzero",
         loc'[p].ip = f, loc'[p].nb = 0
  PROVE  Locks'
<1>1. lock'[f] = p /\ \A i \in Inum : i # f => lock'[i] = lock[i]
  BY DEF Inv, Types
<1>2. \A q \in Proc : pc'[q] \in Inside => loc'[q].ip \in Inum /\ lock'[loc'[q].ip] = q
  BY <1>1, Constants DEF Inv, Locks, Alone
<1>3. \A i \in Inum : lock'[i] # Nobody => pc'[lock'[i]] \in Inside /\ loc'[lock'[i]].ip = i
  <2> SUFFICES ASSUME NEW i \in Inum, i # f, lock[i] # Nobody
               PROVE  pc'[lock[i]] \in Inside /\ loc'[lock[i]].ip = i
    BY <1>1
  <2>1. lock[i] \in Proc /\ pc[lock[i]] \in Inside /\ loc[lock[i]].ip = i
    BY InodeAt DEF Inv, Locks
  <2> QED
    BY <2>1 DEF Alone
<1>4. pc'[p] # "begin" /\ pc'[p] # "end_op"
  BY DEF Inside
<1>5. \A q \in Proc : pc'[q] = "begin" \/ (pc'[q] = "end_op" /\ loc'[q].todo # << >>) => loc'[q].ip \in Inum
  BY <1>4 DEF Inv, Locks, Alone
<1>6. \A q \in Proc : loc'[q].nb # 0 <=> pc'[q] = "bzero"
  BY DEF Inv, Locks, Alone
<1> QED
  BY <1>2, <1>3, <1>5, <1>6 DEF Locks

\* A process comes out and releases the lock.
LEMMA LocksGive ==
  ASSUME Inv, NEW p \in Proc, Alone(p), pc[p] \in Inside, lock' = [lock EXCEPT ![loc[p].ip] = Nobody],
         pc'[p] = "end_op", loc'[p].nb = 0, loc'[p].todo # << >> => loc'[p].ip \in Inum
  PROVE  Locks'
<1> DEFINE f == loc[p].ip
<1>1. f \in Inum /\ lock[f] = p /\ \A q \in Proc : q # p /\ pc[q] \in Inside => loc[q].ip # f
  BY Holder
<1>2. lock'[f] = Nobody /\ \A i \in Inum : i # f => lock'[i] = lock[i]
  BY <1>1 DEF Inv, Types
<1>3. pc'[p] \notin Inside
  BY DEF Inside
<1>4. \A q \in Proc : pc'[q] \in Inside => loc'[q].ip \in Inum /\ lock'[loc'[q].ip] = q
  <2> SUFFICES ASSUME NEW q \in Proc, pc'[q] \in Inside
               PROVE  loc'[q].ip \in Inum /\ lock'[loc'[q].ip] = q
    OBVIOUS
  <2>1. q # p /\ pc[q] \in Inside /\ loc'[q] = loc[q]
    BY <1>3 DEF Alone
  <2>2. loc[q].ip \in Inum /\ lock[loc[q].ip] = q
    BY <2>1, Holder
  <2> QED
    BY <1>1, <1>2, <2>1, <2>2
<1>5. \A i \in Inum : lock'[i] # Nobody => pc'[lock'[i]] \in Inside /\ loc'[lock'[i]].ip = i
  <2> SUFFICES ASSUME NEW i \in Inum, i # f, lock[i] # Nobody
               PROVE  pc'[lock[i]] \in Inside /\ loc'[lock[i]].ip = i
    BY <1>2
  <2>1. lock[i] \in Proc /\ pc[lock[i]] \in Inside /\ loc[lock[i]].ip = i
    BY InodeAt DEF Inv, Locks
  <2>2. lock[i] # p
    BY <2>1
  <2> QED
    BY <2>1, <2>2 DEF Alone
<1>6. \A q \in Proc : pc'[q] = "begin" \/ (pc'[q] = "end_op" /\ loc'[q].todo # << >>) => loc'[q].ip \in Inum
  BY DEF Inv, Locks, Alone
<1>7. \A q \in Proc : loc'[q].nb # 0 <=> pc'[q] = "bzero"
  BY DEF Inv, Locks, Alone
<1> QED
  BY <1>4, <1>5, <1>6, <1>7 DEF Locks

-----------------------------------------------------------------------------
(* Steps outside of writei and itrunc *)

\* They change no file but for its offset.
LEMMA Idle ==
  ASSUME Inv, NEW p \in Proc, pc[p] \notin Inside, pc'[p] \in {"user", "begin"}, Alone(p), Types',
         bitmap' = bitmap, block' = block, addrs' = addrs, size' = size, lock' = lock,
         loc'[p].nb = 0, pc'[p] = "begin" => loc'[p].ip \in Inum, wrote'[p] = {}
  PROVE  Inv'
<1>1. pc'[p] \notin Inside /\ pc'[p] # "bzero" /\ pc'[p] # "end_op"
  BY DEF Inside
<1>2. Locks'
  BY <1>1, LocksKeep
<1>3. \A i \in Inum : Same(i) /\ lock[i] # p
  BY Outside DEF Same, SameBlocks
<1>4. \A q \in Proc : loc'[q].nb = loc[q].nb
  BY DEF Inv, Locks, Alone, Inside
<1>5. Placed'
  <2>1. \A i \in Inum, k \in Slot : Pointer(i, k)' = Pointer(i, k)
    BY <1>3, PointersSame
  <2> QED
    BY <1>4, <2>1, PlacedSame DEF Inv
<1>6. ProgressOf(p)'
  BY <1>1 DEF ProgressOf, Inside, Writing
<1>7. WithinOf(p)'
  BY <1>1 DEF WithinOf, Inside, Writing
<1>8. Progress' /\ Filled' /\ Within'
  <2>1. \A i \in Inum : i \notin {} => Same(i) /\ lock[i] # p
    BY <1>3
  <2> QED
    BY <1>6, <1>7, <2>1, Frame
<1> QED
  BY <1>2, <1>5, <1>8 DEF Inv

\* A program starts to write.
LEMMA StartStep ==
  ASSUME Inv, NEW p \in Proc, NEW i \in Inum, NEW s \in Seq(Byte),
         FileWrite(p, i, s) \/ OverwriteFile(p, i, s)
  PROVE  Inv'
<1>1. /\ pc[p] = "user" /\ Goto(p, "begin", StartOf(i, s))
      /\ UNCHANGED <<bitmap, block, addrs, size, lock, wrote>>
      /\ off' = off \/ off' = [off EXCEPT ![i] = 0]
  BY DEF FileWrite, OverwriteFile, Call, inodes, StartOf
<1>2. PICK r : r = StartOf(i, s)
  OBVIOUS
<1>3. r \in Locals /\ r.ip = i /\ r.nb = 0
  BY <1>2, WriteLocals
<1>4. Goto(p, "begin", r) /\ Types /\ "begin" \in Label
  BY <1>1, <1>2 DEF Inv, Label
<1>5. /\ pc' \in [Proc -> Label] /\ loc' \in [Proc -> Locals] /\ pc'[p] = "begin" /\ loc'[p] = r
      /\ \A q \in Proc : q # p => pc'[q] = pc[q] /\ loc'[q] = loc[q]
  BY <1>3, <1>4, GotoIs
<1>6. off' \in [Inum -> Nat]
  BY <1>1 DEF Inv, Types
<1>7. Types'
  BY <1>1, <1>5, <1>6 DEF Inv, Types
<1>8. Alone(p)
  BY <1>1, <1>5 DEF Alone
<1>9. wrote'[p] = {}
  BY <1>1 DEF Inv, Within, WithinOf
<1> QED
  BY <1>1, <1>3, <1>5, <1>7, <1>8, <1>9, Idle DEF Inside

\* A program reads or seeks.
LEMMA OffsetStep ==
  ASSUME Inv, NEW p \in Proc, NEW i \in Inum,
         (\E n \in Counts : FileRead(p, i, n)) \/ (\E o \in Seeks : FileSeek(p, i, o))
  PROVE  Inv'
<1>1. pc[p] = "user" /\ UNCHANGED <<bitmap, block, addrs, size, lock, pc, loc, wrote>>
  BY DEF FileRead, FileSeek, Call
<1>2. off' \in [Inum -> Nat]
  <2>1. CASE \E o \in Seeks : FileSeek(p, i, o)
    BY <2>1, FileDataAssumption DEF FileSeek, Inv, Types
  <2>2. CASE \E n \in Counts : FileRead(p, i, n)
    <3>1. PICK n \in Counts : FileRead(p, i, n)
      BY <2>2
    <3>2. off' = [off EXCEPT ![i] = off[i] + Len(readi(i, off[i], n))] /\ off[i] <= size[i]
      BY <3>1 DEF FileRead
    <3>3. n \in Nat /\ size[i] \in Nat /\ off[i] \in Nat
      BY FileDataAssumption, InodeAt DEF Inv
    <3>4. Len(readi(i, off[i], n)) \in Nat
      <4>1. Min({off[i] + n, size[i]}) \in Nat /\ Min({off[i] + n, size[i]}) >= off[i]
        BY <3>2, <3>3, MinMax
      <4>2. PICK d \in Nat : d = Min({off[i] + n, size[i]}) - off[i]
        BY <3>3, <4>1
      <4>3. DOMAIN readi(i, off[i], n) = 1..d
        BY <4>2 DEF readi, Bytes
      <4>4. Len(readi(i, off[i], n)) = d
        BY <4>3, <4>2 DEF readi, Bytes
      <4> QED
        BY <4>4
    <3>5. off[i] + Len(readi(i, off[i], n)) \in Nat
      BY <3>3, <3>4
    <3> QED
      BY <3>2, <3>5 DEF Inv, Types
  <2> QED
    BY <2>1, <2>2
<1>3. Types'
  BY <1>1, <1>2 DEF Inv, Types
<1>4. Alone(p)
  BY <1>1 DEF Alone
<1>5. wrote'[p] = {} /\ loc'[p].nb = 0
  BY <1>1 DEF Inv, Within, WithinOf, Locks
<1> QED
  BY <1>1, <1>3, <1>4, <1>5, Idle DEF Inside

\* writei fails.
LEMMA WriteFailStep ==
  ASSUME Inv, NEW p \in Proc, WriteFail(p)
  PROVE  Inv'
<1>1. /\ pc[p] = "begin" /\ Goto(p, "user", NoLocals)
      /\ UNCHANGED <<bitmap, block, addrs, size, off, lock, wrote>>
  BY DEF WriteFail, inodes
<1>2. PICK r : r = NoLocals
  OBVIOUS
<1>3. r \in Locals /\ r.nb = 0
  BY <1>2, UserLocals
<1>4. Goto(p, "user", r) /\ Types /\ "user" \in Label
  BY <1>1, <1>2 DEF Inv, Label
<1>5. /\ pc' \in [Proc -> Label] /\ loc' \in [Proc -> Locals] /\ pc'[p] = "user" /\ loc'[p] = r
      /\ \A q \in Proc : q # p => pc'[q] = pc[q] /\ loc'[q] = loc[q]
  BY <1>3, <1>4, GotoIs
<1>6. Types'
  BY <1>1, <1>5 DEF Inv, Types
<1>7. Alone(p)
  BY <1>1, <1>5 DEF Alone
<1>8. wrote'[p] = {}
  BY <1>1 DEF Inv, Within, WithinOf
<1> QED
  BY <1>1, <1>3, <1>5, <1>6, <1>7, <1>8, Idle DEF Inside

\* A transaction ends.
LEMMA EndOpStep ==
  ASSUME Inv, NEW p \in Proc, EndOp(p)
  PROVE  Inv'
<1>1. /\ pc[p] = "end_op" /\ wrote' = [wrote EXCEPT ![p] = {}]
      /\ UNCHANGED <<bitmap, block, addrs, size, off, lock>>
  BY DEF EndOp, inodes
<1>2. PICK x \in Label, r \in Locals :
        /\ Goto(p, x, r) /\ x \in {"user", "begin"} /\ r.nb = 0 /\ (x = "begin" => r.ip \in Inum)
  <2>1. CASE loc[p].todo = << >>
    BY <2>1, UserLocals DEF EndOp, Label
  <2>2. CASE loc[p].todo # << >>
    <3>1. loc[p] \in Locals /\ loc[p].nb = 0 /\ loc[p].ip \in Inum
      BY <1>1, <2>2 DEF Inv, Types, Locks
    <3> QED
      BY <2>2, <3>1 DEF EndOp, Label
  <2> QED
    BY <2>1, <2>2
<1>3. /\ pc' \in [Proc -> Label] /\ loc' \in [Proc -> Locals] /\ pc'[p] = x /\ loc'[p] = r
      /\ \A q \in Proc : q # p => pc'[q] = pc[q] /\ loc'[q] = loc[q]
  BY <1>2, GotoIs DEF Inv
<1>4. wrote' = [q \in Proc |-> wrote'[q]] /\ wrote'[p] = {} /\ \A q \in Proc : q # p => wrote'[q] = wrote[q]
  BY <1>1 DEF Inv, Types
<1>5. Types'
  BY <1>1, <1>3, <1>4 DEF Inv, Types
<1>6. Alone(p)
  BY <1>3, <1>4 DEF Alone
<1> QED
  BY <1>1, <1>2, <1>3, <1>4, <1>5, <1>6, Idle DEF Inside

-----------------------------------------------------------------------------
(* Into writei and itrunc, and out of itrunc *)

\* A file whose lock is free.
LEMMA FreeNow ==
  ASSUME NEW f \in Inum, lock[f] = Nobody
  PROVE  ~Truncating(f) /\ Finished(f) = 0 /\ Upto(f) = size[f]
  BY Constants DEF Truncating, Finished, Upto

LEMMA FreeNext ==
  ASSUME NEW f \in Inum, lock'[f] = Nobody
  PROVE  ~Truncating(f)' /\ Finished(f)' = 0 /\ Upto(f)' = size'[f]
  BY Constants DEF Truncating, Finished, Upto

\* A file whose lock p holds after the step.
LEMMA HolderNext ==
  ASSUME NEW p \in Proc, NEW f \in Inum, lock'[f] = p
  PROVE  /\ Truncating(f)' <=> pc'[p] = "itrunc"
         /\ Finished(f)' = IF pc'[p] = "itrunc" THEN loc'[p].j ELSE 0
         /\ Upto(f)' = IF pc'[p] \in Writing /\ loc'[p].at > size'[f] THEN loc'[p].at ELSE size'[f]
<1>1. Truncating(f)' <=> pc'[p] = "itrunc"
  BY DEF Truncating
<1>2. p # Nobody
  BY Constants
<1> QED
  BY <1>1, <1>2 DEF Finished, Upto

\* The largest part of a call that is one transaction.
LEMMA ChunkIs ==
  ASSUME Types, NEW p \in Proc
  PROVE  /\ MaxChunk \in Nat /\ Chunk(p) \in Nat
         /\ Chunk(p) <= MaxChunk /\ Chunk(p) <= Len(loc[p].todo)
<1>1. MaxChunk \in Nat
  <2> DEFINE k == (MAXOPBLOCKS - 1 - 1 - 2) \div 2
  <2>1. k \in Nat
    BY Constants
  <2> HIDE DEF k
  <2>2. k * BSIZE \in Nat
    BY <2>1, Constants
  <2> QED
    BY <2>2 DEF MaxChunk, k
<1>2. Len(loc[p].todo) \in Nat
  BY LocalsAt
<1> QED
  BY <1>1, <1>2, MinMax DEF Chunk

\* A process takes the lock of a file.
LEMMA EnterFrame ==
  ASSUME Inv, NEW p \in Proc, pc[p] \notin Inside, Alone(p), Types',
         NEW f \in Inum, lock[f] = Nobody, lock' = [lock EXCEPT ![f] = p],
         bitmap' = bitmap, block' = block, addrs' = addrs, size' = size,
         pc'[p] \in {"writei", "itrunc"}, loc'[p].ip = f, loc'[p].nb = 0,
         Finished(f)' = 0, ProgressOf(p)', WithinOf(p)', FilledOf(f)'
  PROVE  Inv'
<1>1. pc'[p] \in Inside /\ pc'[p] # "bzero"
  BY DEF Inside
<1>2. Locks'
  BY <1>1, LocksTake
<1>3. \A i \in Inum : SameBlocks(i)
  BY DEF SameBlocks
<1>4. \A i \in Inum : i \notin {f} => Same(i) /\ lock[i] # p
  <2>1. \A i \in Inum : i # f => lock'[i] = lock[i]
    BY DEF Inv, Types
  <2> QED
    BY <1>3, <2>1, Outside DEF Same
<1>5. \A i \in Inum, k \in Slot : Pointer(i, k)' = Pointer(i, k)
  <2>1. \A i \in Inum : i # f => \A k \in Slot : Pointer(i, k)' = Pointer(i, k)
    BY <1>4, PointersSame
  <2>2. \A k \in Slot : Pointer(f, k)' = Pointer(f, k)
    BY <1>3, FreeNow, PointerSame
  <2> QED
    BY <2>1, <2>2
<1>6. \A q \in Proc : loc'[q].nb = loc[q].nb
  BY DEF Inv, Locks, Alone, Inside
<1>7. Placed'
  BY <1>5, <1>6, PlacedSame DEF Inv
<1>8. \A q \in Proc : q # p /\ pc[q] \in Inside => loc[q].ip \notin {f}
  BY Constants DEF Inv, Locks
<1>9. Progress' /\ Filled' /\ Within'
  <2>1. \A i \in Inum : i \in {f} => FilledOf(i)'
    OBVIOUS
  <2> QED
    BY <1>4, <1>8, <2>1, Frame
<1> QED
  BY <1>2, <1>7, <1>9 DEF Inv

\* writei begins.
LEMMA WriteBeginStep ==
  ASSUME Inv, NEW p \in Proc, WriteBegin(p)
  PROVE  Inv'
<1>0. PICK f, n, t, a, part, todo, r :
        /\ f = loc[p].ip /\ n = Chunk(p) /\ t = loc[p].todo /\ a = off[f]
        /\ part = SubSeq(t, 1, n) /\ todo = SubSeq(t, n + 1, Len(t))
        /\ r = BeginOf(loc[p], a, part, todo)
  OBVIOUS
<1>1. /\ pc[p] = "begin" /\ lock[f] = Nobody /\ Fits(f, n) /\ lock' = [lock EXCEPT ![f] = p]
      /\ Goto(p, "writei", r) /\ UNCHANGED <<bitmap, block, addrs, size, off, wrote>>
  BY <1>0 DEF WriteBegin, BeginOf
<1>2. f \in Inum /\ pc[p] \notin Inside
  BY <1>0, <1>1 DEF Inv, Locks, Inside
<1>3. a \in Nat /\ size[f] \in Nat
  BY <1>0, <1>2, InodeAt DEF Inv
<1>4. n \in Nat /\ n <= Len(t) /\ n <= MaxChunk /\ MaxChunk \in Nat /\ t \in Seq(Byte) /\ Len(t) \in Nat
  BY <1>0, ChunkIs, LocalsAt DEF Inv
<1>5. part \in Seq(Byte) /\ todo \in Seq(Byte) /\ Len(part) = n
  BY <1>0, <1>4
<1>6. loc[p] \in Locals /\ "writei" \in Label /\ 0 \in Blk \cup {0}
  BY DEF Inv, Types, Label, Inside
<1>7. r \in Locals /\ r.ip = f /\ r.from = a /\ r.at = a /\ r.part = part /\ r.nb = loc[p].nb
  <2>1. PICK l \in Locals : l = loc[p]
    BY <1>6
  <2>2. r = BeginOf(l, a, part, todo) /\ a \in Offset /\ part \in Seq(Byte) /\ todo \in Seq(Byte)
    BY <1>0, <1>3, <1>5, <2>1 DEF Offset
  <2>3. r \in Locals /\ r.ip = l.ip /\ r.from = a /\ r.at = a /\ r.part = part /\ r.nb = l.nb
    BY ONLY l \in Locals, <2>2, BeginLocals
  <2> QED
    BY <1>0, <2>1, <2>3
<1>8. /\ pc' \in [Proc -> Label] /\ loc' \in [Proc -> Locals] /\ pc'[p] = "writei" /\ loc'[p] = r
      /\ \A q \in Proc : q # p => pc'[q] = pc[q] /\ loc'[q] = loc[q]
  BY <1>1, <1>6, <1>7, GotoIs DEF Inv
<1>9. lock' \in [Inum -> Proc \cup {Nobody}] /\ lock'[f] = p
  BY <1>1, <1>2 DEF Inv, Types
<1>10. Types'
  BY <1>1, <1>8, <1>9 DEF Inv, Types
<1>11. Alone(p)
  BY <1>1, <1>8 DEF Alone
<1>12. loc'[p].nb = 0
  BY <1>1, <1>7, <1>8 DEF Inv, Locks
<1>13. a <= size[f] /\ a + n <= MAXFILE * BSIZE
  BY <1>0, <1>1 DEF Fits
<1>14. ProgressOf(p)'
  <2>1. pc'[p] # "bzero" /\ pc'[p] # "itrunc"
    BY <1>8
  <2>2. loc'[p].from = a /\ loc'[p].at = a /\ Len(loc'[p].part) = n
    BY <1>5, <1>7, <1>8
  <2>3. a <= a /\ a + n <= a + MaxChunk
    BY <1>3, <1>4
  <2> QED
    BY <1>13, <2>1, <2>2, <2>3 DEF ProgressOf, MaxChunk
<1>15. WithinOf(p)'
  <2>1. wrote'[p] = {}
    BY <1>1 DEF Inv, Within, WithinOf
  <2> QED
    BY <1>8, <2>1 DEF WithinOf
<1>16. Finished(f)' = 0 /\ ~Truncating(f)' /\ Upto(f)' = size[f]
  <2>1. ~(loc'[p].at > size'[f]) /\ size'[f] = size[f]
    BY <1>1, <1>3, <1>7, <1>8, <1>13
  <2> QED
    BY <1>2, <1>8, <1>9, <2>1, HolderNext
<1>17. FilledOf(f)'
  <2>1. FilledOf(f) /\ ~Truncating(f) /\ Upto(f) = size[f]
    BY <1>1, <1>2, FreeNow DEF Inv, Filled
  <2>2. \A bn \in FileBlock : Lookup(f, bn)' = Lookup(f, bn)
    BY <1>1, <1>2, LookupSame DEF SameBlocks
  <2> QED
    BY <1>16, <2>1, <2>2 DEF FilledOf
<1> QED
  BY <1>1, <1>2, <1>7, <1>8, <1>10, <1>11, <1>12, <1>14, <1>15, <1>16, <1>17, EnterFrame

-----------------------------------------------------------------------------
(* How many blocks *)

\* A finite set with one more element, and a part of a finite set.
LEMMA CardAdd ==
  ASSUME NEW S, NEW x, NEW n \in Nat, IsFiniteSet(S), Cardinality(S) <= n
  PROVE  IsFiniteSet(S \cup {x}) /\ Cardinality(S \cup {x}) <= n + 1
<1>1. Cardinality(S) \in Nat
  BY FS_CardinalityType
<1>2. /\ IsFiniteSet(S \cup {x})
      /\ Cardinality(S \cup {x}) = IF x \in S THEN Cardinality(S) ELSE Cardinality(S) + 1
  BY FS_AddElement
<1> DEFINE c == Cardinality(S)
           d == Cardinality(S \cup {x})
<1> HIDE DEF c, d
<1>3. c \in Nat /\ c <= n /\ (d = c \/ d = c + 1)
  BY <1>1, <1>2 DEF c, d
<1>4. d <= n + 1
  BY <1>3
<1> QED
  BY <1>2, <1>4 DEF d

LEMMA CardPart ==
  ASSUME NEW S, NEW T, NEW n \in Nat, IsFiniteSet(S), Cardinality(S) <= n, T \subseteq S
  PROVE  IsFiniteSet(T) /\ Cardinality(T) <= n
<1>1. IsFiniteSet(T) /\ Cardinality(T) <= Cardinality(S)
  BY FS_Subset
<1>2. Cardinality(S) \in Nat /\ Cardinality(T) \in Nat
  BY <1>1, FS_CardinalityType
<1> DEFINE c == Cardinality(S)
           d == Cardinality(T)
<1> HIDE DEF c, d
<1>3. c \in Nat /\ d \in Nat /\ c <= n /\ d <= c
  BY <1>1, <1>2 DEF c, d
<1>4. d <= n
  BY <1>3
<1> QED
  BY <1>1, <1>4 DEF d

\* What a function takes on a finite set.
LEMMA CardImage ==
  ASSUME NEW S, NEW n \in Nat, IsFiniteSet(S), Cardinality(S) <= n, NEW f, f = [x \in S |-> f[x]]
  PROVE  IsFiniteSet({f[x] : x \in S}) /\ Cardinality({f[x] : x \in S}) <= n
<1> DEFINE T == {f[x] : x \in S}
<1>1. f \in Surjection(S, T)
  <2>1. f \in [S -> T]
    OBVIOUS
  <2>2. \A t \in T : \E s \in S : f[s] = t
    OBVIOUS
  <2> QED
    BY <2>1, <2>2 DEF Surjection
<1> HIDE DEF T
<1>2. IsFiniteSet(T) /\ Cardinality(T) <= Cardinality(S)
  BY <1>1, FS_Surjection
<1>3. Cardinality(S) \in Nat /\ Cardinality(T) \in Nat
  BY <1>2, FS_CardinalityType
<1> DEFINE c == Cardinality(S)
           d == Cardinality(T)
<1> HIDE DEF c, d
<1>4. c \in Nat /\ d \in Nat /\ c <= n /\ d <= c
  BY <1>2, <1>3 DEF c, d
<1>5. d <= n
  BY <1>4
<1> QED
  BY <1>2, <1>5 DEF d, T

\* The blocks of data of one transaction.
MaxData == (MAXOPBLOCKS - 1 - 1 - 2) \div 2

LEMMA MaxDataIs ==
  MaxData \in Nat /\ MaxData <= MAXOPBLOCKS - 4 /\ MaxChunk = MaxData * BSIZE
  BY Constants DEF MaxData, MaxChunk

\* They are in a row.
LEMMA SpanIs ==
  ASSUME Inv, NEW p \in Proc, pc[p] \in Writing
  PROVE  IsFiniteSet(Span(p)) /\ Cardinality(Span(p)) <= MaxData + 1
<1> DEFINE m == loc[p].from
           e == loc[p].at + Len(loc[p].part)
           lo == m \div BSIZE
           hi == lo + MaxData
<1>1. m \in Nat /\ e \in Nat /\ e <= m + MaxData * BSIZE
  BY LocalsAt, MaxDataIs DEF Inv, Progress, ProgressOf
<1>2. lo \in Nat /\ lo * BSIZE <= m /\ m < (lo + 1) * BSIZE
  BY <1>1, BlockOf
<1>3. MaxData \in Nat
  BY MaxDataIs
<1>4. ASSUME NEW b \in Span(p) PROVE b \in lo..hi
  <2>1. b \in Nat /\ m < (b + 1) * BSIZE /\ b * BSIZE < e
    BY Constants DEF Span, FileBlock
  <2> HIDE DEF m, e, lo
  <2> DEFINE x == lo * BSIZE
             y == (b + 1) * BSIZE
             z == b * BSIZE
             w == (lo + 1) * BSIZE
             k == MaxData * BSIZE
  <2>2. x \in Nat /\ y \in Nat /\ z \in Nat /\ w \in Nat /\ k \in Nat
    BY <1>2, <1>3, <2>1, Constants, MulLess
  <2>3. (lo + 1 + MaxData) * BSIZE = w + k
    BY <1>2, <1>3, Constants
  <2>4. x < y /\ z < w + k
    <3> HIDE DEF x, y, z, w, k
    <3>1. x <= m /\ m < y /\ z < e /\ e <= m + k /\ m < w
      BY <1>1, <1>2, <2>1 DEF x, y, z, w, k
    <3> QED
      BY <1>1, <2>2, <3>1
  <2>5. lo < b + 1
    BY <1>2, <2>1, <2>4, Constants, MulLess DEF x, y
  <2>6. b < lo + 1 + MaxData
    <3>1. lo + 1 + MaxData \in Nat /\ b * BSIZE < (lo + 1 + MaxData) * BSIZE
      BY <1>2, <1>3, <2>3, <2>4
    <3> QED
      BY <2>1, <3>1, Constants, MulLess
  <2> HIDE DEF x, y, z, w, k
  <2> QED
    BY <1>2, <1>3, <2>1, <2>5, <2>6
<1> HIDE DEF lo
<1>5. IsFiniteSet(lo..hi) /\ Cardinality(lo..hi) = MaxData + 1
  <2>1. lo \in Int /\ hi \in Int /\ ~(lo > hi) /\ hi - lo + 1 = MaxData + 1
    BY <1>2, <1>3
  <2> HIDE DEF hi
  <2> QED
    BY <2>1, FS_Interval
<1>6. Span(p) \subseteq lo..hi /\ MaxData + 1 \in Nat /\ Cardinality(lo..hi) <= MaxData + 1
  BY <1>3, <1>4, <1>5
<1> HIDE DEF hi
<1> QED
  BY <1>5, <1>6, CardPart

\* A transaction comes to no more blocks than begin_op reserves, less the inode.
LEMMA TouchedIs ==
  ASSUME Inv, NEW p \in Proc, pc[p] \in Writing
  PROVE  IsFiniteSet(Touched(p)) /\ Cardinality(Touched(p)) <= MAXOPBLOCKS - 1
<1> DEFINE S == Span(p)
           f == [bn \in Span(p) |-> Lookup(loc[p].ip, bn)]
           T == {f[bn] : bn \in S}
           U == {Lookup(loc[p].ip, bn) : bn \in Span(p)}
           a == BitmapBlock
           b == addrs[loc[p].ip][NDIRECT]
<1>1. IsFiniteSet(S) /\ Cardinality(S) <= MaxData + 1 /\ MaxData + 1 \in Nat
  BY SpanIs, MaxDataIs
<1>2. T = U
  OBVIOUS
<1>3. f = [bn \in S |-> f[bn]]
  OBVIOUS
<1>4. IsFiniteSet(T) /\ Cardinality(T) <= MaxData + 1
  <2> HIDE DEF f, S
  <2> QED
    BY <1>1, <1>3, CardImage
<1>5. Touched(p) = (U \cup {a}) \cup {b}
  BY DEF Touched
<1> HIDE DEF f, S, T, U, a, b
<1>6. IsFiniteSet(U \cup {a}) /\ Cardinality(U \cup {a}) <= (MaxData + 1) + 1
  BY <1>1, <1>2, <1>4, CardAdd
<1>7. (MaxData + 1) + 1 \in Nat
  BY <1>1
<1>8. IsFiniteSet(Touched(p)) /\ Cardinality(Touched(p)) <= (MaxData + 1) + 1 + 1
  BY <1>5, <1>6, <1>7, CardAdd
<1>9. Cardinality(Touched(p)) \in Nat
  BY <1>8, FS_CardinalityType
<1> DEFINE c == Cardinality(Touched(p))
<1>10. c <= MAXOPBLOCKS - 1
  <2>1. c \in Nat /\ c <= (MaxData + 1) + 1 + 1
    BY <1>8, <1>9
  <2> HIDE DEF c
  <2> QED
    BY <2>1, MaxDataIs, Constants
<1> QED
  BY <1>8, <1>10

-----------------------------------------------------------------------------
(* Into itrunc, and out of itrunc and writei *)

\* The last link of a file is gone.
LEMMA IputLastStep ==
  ASSUME Inv, NEW p \in Proc, NEW f \in Inum, IputLast(p, f)
  PROVE  Inv'
<1>1. /\ pc[p] = "user" /\ (\A q \in Proc : loc[q].ip # f) /\ lock' = [lock EXCEPT ![f] = p]
      /\ Goto(p, "itrunc", TruncOf(f)) /\ UNCHANGED <<bitmap, block, addrs, size, off, wrote>>
  BY DEF IputLast, Call, TruncOf
<1>2. lock[f] = Nobody /\ pc[p] \notin Inside
  <2>1. lock[f] # Nobody => lock[f] \in Proc /\ loc[lock[f]].ip = f
    BY InodeAt DEF Inv, Locks
  <2> QED
    BY <1>1, <2>1 DEF Inside
<1>3. PICK r : r = TruncOf(f)
  OBVIOUS
<1>4. r \in Locals /\ r.ip = f /\ r.nb = 0 /\ r.j = 0
  BY <1>3, TruncLocals
<1>5. Goto(p, "itrunc", r) /\ "itrunc" \in Label /\ Types
  BY <1>1, <1>3 DEF Label, Inside, Inv
<1>6. /\ pc' \in [Proc -> Label] /\ loc' \in [Proc -> Locals] /\ pc'[p] = "itrunc" /\ loc'[p] = r
      /\ \A q \in Proc : q # p => pc'[q] = pc[q] /\ loc'[q] = loc[q]
  BY <1>4, <1>5, GotoIs
<1>7. lock' \in [Inum -> Proc \cup {Nobody}] /\ lock'[f] = p
  BY <1>1 DEF Inv, Types
<1>8. Types'
  BY <1>1, <1>6, <1>7 DEF Inv, Types
<1>9. Alone(p)
  BY <1>1, <1>6 DEF Alone
<1>10. ProgressOf(p)'
  BY <1>4, <1>6, Constants DEF ProgressOf, Writing
<1>11. WithinOf(p)'
  BY <1>1, <1>6 DEF WithinOf, Writing, Inv, Within
<1>12. Finished(f)' = 0 /\ Truncating(f)' /\ Upto(f)' = size[f]
  BY <1>1, <1>4, <1>6, <1>7, HolderNext DEF Writing
<1>13. FilledOf(f)'
  BY <1>2, <1>12, FreeNow DEF FilledOf, Inv, Filled
<1> QED
  BY <1>1, <1>2, <1>4, <1>6, <1>8, <1>9, <1>10, <1>11, <1>12, <1>13, EnterFrame

\* A process releases the lock of its file.
LEMMA LeaveFrame ==
  ASSUME Inv, NEW p \in Proc, pc[p] \in {"writei", "itrunc"}, Alone(p), Types',
         NEW f, f = loc[p].ip, lock' = [lock EXCEPT ![f] = Nobody],
         bitmap' = bitmap, block' = block, addrs' = addrs,
         \A i \in Inum : i # f => size'[i] = size[i],
         pc'[p] = "end_op", loc'[p].nb = 0, loc'[p].todo # << >> => loc'[p].ip \in Inum,
         IsFiniteSet(wrote'[p]), Cardinality(wrote'[p]) <= MAXOPBLOCKS,
         \A k \in Slot : Pointer(f, k)' = Pointer(f, k), FilledOf(f)'
  PROVE  Inv'
<1>1. pc[p] \in Inside /\ pc[p] # "bzero"
  BY DEF Inside
<1>2. Locks'
  BY <1>1, LocksGive
<1>3. f \in Inum /\ (\A i \in Inum : lock[i] = p => i = f)
      /\ (\A q \in Proc : q # p /\ pc[q] \in Inside => loc[q].ip \notin {f})
  BY <1>1, Holder
<1>4. \A i \in Inum : i \notin {f} => Same(i) /\ lock[i] # p
  <2>1. \A i \in Inum : i # f => lock'[i] = lock[i]
    BY DEF Inv, Types
  <2> QED
    BY <1>3, <2>1 DEF Same, SameBlocks
<1>5. \A i \in Inum, k \in Slot : Pointer(i, k)' = Pointer(i, k)
  <2>1. \A i \in Inum : i # f => \A k \in Slot : Pointer(i, k)' = Pointer(i, k)
    BY <1>4, PointersSame
  <2> QED
    BY <2>1
<1>6. \A q \in Proc : loc'[q].nb = loc[q].nb
  BY <1>1 DEF Inv, Locks, Alone
<1>7. Placed'
  BY <1>5, <1>6, PlacedSame DEF Inv
<1>8. ProgressOf(p)' /\ WithinOf(p)'
  BY DEF ProgressOf, WithinOf, Writing
<1>9. Progress' /\ Filled' /\ Within'
  <2>1. \A i \in Inum : i \in {f} => FilledOf(i)'
    OBVIOUS
  <2> QED
    BY <1>3, <1>4, <1>8, <2>1, Frame
<1> QED
  BY <1>2, <1>7, <1>9 DEF Inv

\* itrunc ends.
LEMMA TruncEndStep ==
  ASSUME Inv, NEW p \in Proc, TruncEnd(p)
  PROVE  Inv'
<1>0. PICK f : f = loc[p].ip
  OBVIOUS
<1>1. /\ pc[p] = "itrunc" /\ (\A k \in 0..NDIRECT : addrs[f][k] = 0) /\ size' = [size EXCEPT ![f] = 0]
      /\ off' = [off EXCEPT ![f] = 0] /\ lock' = [lock EXCEPT ![f] = Nobody]
      /\ Goto(p, "end_op", NoLocals) /\ LogWrite(p, {InodeBlock}) /\ UNCHANGED <<bitmap, block, addrs>>
  BY <1>0 DEF TruncEnd, iupdate
<1>2. pc[p] \in Inside
  BY <1>1 DEF Inside
<1>3. f \in Inum
  BY <1>0, <1>2, Holder
<1>4. /\ pc' \in [Proc -> Label] /\ loc' \in [Proc -> Locals] /\ pc'[p] = "end_op"
      /\ loc'[p] = NoLocals
      /\ \A q \in Proc : q # p => pc'[q] = pc[q] /\ loc'[q] = loc[q]
  BY <1>1, UserLocals, GotoIs DEF Inv, Label
<1>5. /\ wrote' = [q \in Proc |-> wrote'[q]] /\ wrote'[p] = wrote[p] \cup {InodeBlock}
      /\ \A q \in Proc : q # p => wrote'[q] = wrote[q]
  BY <1>1, LogWriteIs DEF Inv
<1>6. /\ lock' \in [Inum -> Proc \cup {Nobody}] /\ lock'[f] = Nobody
      /\ size' \in [Inum -> Nat] /\ off' \in [Inum -> Nat] /\ size'[f] = 0
      /\ \A i \in Inum : i # f => size'[i] = size[i]
  BY <1>1, <1>3 DEF Inv, Types
<1>7. Types'
  BY <1>1, <1>4, <1>5, <1>6 DEF Inv, Types
<1>8. Alone(p)
  BY <1>4, <1>5 DEF Alone
<1>9. IsFiniteSet(wrote'[p]) /\ Cardinality(wrote'[p]) <= MAXOPBLOCKS
  <2>1. wrote[p] \subseteq {BitmapBlock}
    BY <1>1 DEF Inv, Within, WithinOf
  <2>2. IsFiniteSet({}) /\ Cardinality({}) <= 0
    BY FS_EmptySet
  <2>3. IsFiniteSet({} \cup {BitmapBlock}) /\ Cardinality({} \cup {BitmapBlock}) <= 0 + 1
    BY <2>2, CardAdd
  <2>4. IsFiniteSet(wrote[p]) /\ Cardinality(wrote[p]) <= 1
    BY <2>1, <2>3, CardPart
  <2>5. IsFiniteSet(wrote[p] \cup {InodeBlock}) /\ Cardinality(wrote[p] \cup {InodeBlock}) <= 1 + 1
    BY <2>4, CardAdd
  <2>6. Cardinality(wrote'[p]) \in Nat /\ Cardinality(wrote'[p]) <= 2
    BY <1>5, <2>5, FS_CardinalityType
  <2> QED
    BY <1>5, <2>5, <2>6, Constants
<1>10. \A k \in Slot : Pointer(f, k)' = Pointer(f, k)
  BY <1>1, Constants DEF Pointer, Slot
<1>11. FilledOf(f)'
  <2>1. Upto(f)' = 0
    BY <1>3, <1>6, FreeNext
  <2>2. \A bn \in FileBlock : bn * BSIZE \in Nat
    BY Constants, MulLess DEF FileBlock
  <2>3. MAXFILE * BSIZE \in Nat
    BY Constants, MulLess
  <2> QED
    BY <2>1, <2>2, <2>3 DEF FilledOf
<1>12. loc'[p].nb = 0 /\ loc'[p].todo = << >>
  BY <1>4, UserLocals
<1> QED
  BY <1>0, <1>1, <1>4, <1>6, <1>7, <1>8, <1>9, <1>10, <1>11, <1>12, LeaveFrame

\* writei ends.
LEMMA WriteEndStep ==
  ASSUME Inv, NEW p \in Proc, WriteEnd(p)
  PROVE  Inv'
<1>0. PICK f, a, t : f = loc[p].ip /\ a = loc[p].at /\ t = loc[p].todo
  OBVIOUS
<1>1. /\ pc[p] = "writei" /\ size' = [size EXCEPT ![f] = Max({size[f], a})]
      /\ off' = [off EXCEPT ![f] = off[f] + (a - loc[p].from)]
      /\ lock' = [lock EXCEPT ![f] = Nobody]
      /\ Goto(p, "end_op", StartOf(f, t)) /\ UNCHANGED <<bitmap, block, addrs>>
      /\ LogWrite(p, {InodeBlock}) \/ wrote' = wrote
  BY <1>0 DEF WriteEnd, iupdate, StartOf
<1>2. pc[p] \in Inside /\ pc[p] \in Writing
  BY <1>1 DEF Inside, Writing
<1>3. f \in Inum /\ lock[f] = p /\ ~Truncating(f) /\ Finished(f) = 0
      /\ Upto(f) = IF a > size[f] THEN a ELSE size[f]
  BY <1>0, <1>1, <1>2, Holder
<1>4. a \in Nat /\ t \in Seq(Byte) /\ loc[p].from \in Nat /\ loc[p].from <= a
      /\ off[f] \in Nat /\ size[f] \in Nat
  BY <1>0, <1>2, <1>3, LocalsAt, InodeAt DEF Inv, Progress, ProgressOf
<1>5. PICK r : r = StartOf(f, t)
  OBVIOUS
<1>6. r \in Locals /\ r.ip = f /\ r.nb = 0
  BY <1>3, <1>4, <1>5, WriteLocals
<1>7. Goto(p, "end_op", r) /\ "end_op" \in Label /\ Types
  BY <1>1, <1>5 DEF Label, Inv
<1>8. /\ pc' \in [Proc -> Label] /\ loc' \in [Proc -> Locals] /\ pc'[p] = "end_op" /\ loc'[p] = r
      /\ \A q \in Proc : q # p => pc'[q] = pc[q] /\ loc'[q] = loc[q]
  BY <1>6, <1>7, GotoIs
<1>9. /\ wrote' = [q \in Proc |-> wrote'[q]]
      /\ wrote'[p] = wrote[p] \cup {InodeBlock} \/ wrote'[p] = wrote[p]
      /\ \A q \in Proc : q # p => wrote'[q] = wrote[q]
  <2>1. CASE LogWrite(p, {InodeBlock})
    BY <2>1, LogWriteIs DEF Inv
  <2>2. CASE wrote' = wrote
    BY <2>2 DEF Inv, Types
  <2> QED
    BY <1>1, <2>1, <2>2
<1>10. Max({size[f], a}) = Upto(f) /\ Upto(f) \in Nat
  <2>1. Max({size[f], a}) = IF size[f] >= a THEN size[f] ELSE a
    BY <1>4, MinMax
  <2> QED
    BY <1>3, <1>4, <2>1
<1>11. off[f] + (a - loc[p].from) \in Nat
  BY <1>4
<1>12. /\ lock' \in [Inum -> Proc \cup {Nobody}] /\ lock'[f] = Nobody
       /\ size' \in [Inum -> Nat] /\ off' \in [Inum -> Nat] /\ size'[f] = Upto(f)
       /\ \A i \in Inum : i # f => size'[i] = size[i]
  BY <1>1, <1>3, <1>10, <1>11 DEF Inv, Types
<1>13. Types'
  BY <1>1, <1>8, <1>9, <1>12 DEF Inv, Types
<1>14. Alone(p)
  BY <1>8, <1>9 DEF Alone
<1>15. IsFiniteSet(wrote'[p]) /\ Cardinality(wrote'[p]) <= MAXOPBLOCKS
  <2>1. wrote[p] \subseteq Touched(p)
    BY <1>2 DEF Inv, Within, WithinOf
  <2>2. IsFiniteSet(Touched(p)) /\ Cardinality(Touched(p)) <= MAXOPBLOCKS - 1 /\ MAXOPBLOCKS - 1 \in Nat
    BY <1>2, TouchedIs, Constants
  <2>3. IsFiniteSet(wrote[p]) /\ Cardinality(wrote[p]) <= MAXOPBLOCKS - 1
    BY <2>1, <2>2, CardPart
  <2>4. IsFiniteSet(wrote[p] \cup {InodeBlock}) /\ Cardinality(wrote[p] \cup {InodeBlock}) <= (MAXOPBLOCKS - 1) + 1
    BY <2>2, <2>3, CardAdd
  <2>5. IsFiniteSet(wrote'[p])
    BY <1>9, <2>3, <2>4
  <2>6. Cardinality(wrote'[p]) <= MAXOPBLOCKS - 1 \/ Cardinality(wrote'[p]) <= (MAXOPBLOCKS - 1) + 1
    BY <1>9, <2>3, <2>4
  <2>7. Cardinality(wrote'[p]) \in Nat
    BY <2>5, FS_CardinalityType
  <2> DEFINE c == Cardinality(wrote'[p])
  <2>8. c \in Nat /\ (c <= MAXOPBLOCKS - 1 \/ c <= (MAXOPBLOCKS - 1) + 1)
    BY <2>6, <2>7
  <2> HIDE DEF c
  <2>9. c <= MAXOPBLOCKS
    BY <2>8, Constants
  <2> QED
    BY <2>5, <2>9 DEF c
<1>16. ~Truncating(f)' /\ Finished(f)' = 0 /\ Upto(f)' = Upto(f)
  BY <1>3, <1>12, FreeNext
<1>17. SameBlocks(f)
  BY <1>1 DEF SameBlocks
<1>18. \A k \in Slot : Pointer(f, k)' = Pointer(f, k)
  BY <1>3, <1>16, <1>17, PointerSame
<1>19. FilledOf(f)'
  <2>1. FilledOf(f)
    BY <1>3 DEF Inv, Filled
  <2>2. \A bn \in FileBlock : Lookup(f, bn)' = Lookup(f, bn)
    BY <1>3, <1>17, LookupSame
  <2> QED
    BY <1>3, <1>16, <2>1, <2>2 DEF FilledOf
<1> QED
  BY <1>0, <1>1, <1>3, <1>6, <1>8, <1>12, <1>13, <1>14, <1>15, <1>18, <1>19, LeaveFrame

-----------------------------------------------------------------------------
(* itrunc *)

\* A step of itrunc is at one file, which has no contents by now.
LEMMA TruncFrame ==
  ASSUME Inv, NEW p \in Proc, pc[p] = "itrunc", pc'[p] = "itrunc", Alone(p), Types',
         NEW f, f = loc[p].ip, lock' = lock, block' = block, size' = size,
         \A i \in Inum : i # f => addrs'[i] = addrs[i],
         loc'[p].ip = f, loc'[p].nb = 0, loc'[p].j <= NINDIRECT,
         wrote'[p] \subseteq wrote[p] \cup {BitmapBlock}
  PROVE  /\ Locks' /\ Progress' /\ Filled' /\ Within'
         /\ f \in Inum /\ Finished(f) = loc[p].j /\ Finished(f)' = loc'[p].j
         /\ \A i \in Inum : i # f => \A k \in Slot : Pointer(i, k)' = Pointer(i, k)
         /\ \A q \in Proc : loc'[q].nb = loc[q].nb
<1>1. pc[p] \in Inside /\ pc'[p] \in Inside
  BY DEF Inside
<1>2. f \in Inum /\ (\A i \in Inum : lock[i] = p => i = f) /\ lock[f] = p /\ Finished(f) = loc[p].j
      /\ (\A q \in Proc : q # p /\ pc[q] \in Inside => loc[q].ip \notin {f}) /\ Upto(f) = size[f]
  BY <1>1, Holder DEF Writing
<1>3. Locks'
  BY <1>1, LocksKeep
<1>4. \A i \in Inum : i \notin {f} => Same(i) /\ lock[i] # p
  BY <1>2 DEF Same, SameBlocks
<1>5. \A i \in Inum : i # f => \A k \in Slot : Pointer(i, k)' = Pointer(i, k)
  BY <1>4, PointersSame
<1>6. \A q \in Proc : loc'[q].nb = loc[q].nb
  BY DEF Inv, Locks, Alone
<1>7. ProgressOf(p)'
  BY DEF ProgressOf, Writing
<1>8. WithinOf(p)'
  BY DEF WithinOf, Writing, Inv, Within
<1>9. Truncating(f)' /\ Finished(f)' = loc'[p].j /\ Upto(f)' = size[f]
  <2>1. lock'[f] = p /\ size'[f] = size[f]
    BY <1>2
  <2> QED
    BY <1>2, <2>1, HolderNext DEF Writing
<1>10. \A i \in Inum : i \in {f} => FilledOf(i)'
  BY <1>2, <1>9 DEF FilledOf, Inv, Filled
<1>11. Progress' /\ Filled' /\ Within'
  BY <1>2, <1>4, <1>7, <1>8, <1>10, Frame
<1> QED
  BY <1>2, <1>3, <1>5, <1>6, <1>9, <1>11

\* A direct block is freed.
LEMMA TruncDirectStep ==
  ASSUME Inv, NEW p \in Proc, TruncDirect(p)
  PROVE  Inv'
<1>0. PICK f, s : f = loc[p].ip /\ s = Min(Direct(f))
  OBVIOUS
<1>1. /\ pc[p] = "itrunc" /\ Direct(f) # {} /\ bitmap' = bitmap \ {addrs[f][s]}
      /\ LogWrite(p, {BitmapBlock}) /\ addrs' = [addrs EXCEPT ![f][s] = 0]
      /\ UNCHANGED <<block, size, off, lock, pc, loc>>
  BY <1>0 DEF TruncDirect, bfree
<1>2. f \in Inum /\ pc[p] \in Inside
  BY <1>0, <1>1, Holder DEF Inside
<1>3. s \in Direct(f)
  <2>1. Direct(f) \subseteq Nat
    BY Constants DEF Direct
  <2> QED
    BY <1>0, <1>1, <2>1, MinIn
<1>4. s \in 0..NDIRECT /\ s # NDIRECT /\ s < NDIRECT /\ s \in Slot
  BY <1>3, Constants DEF Direct, Slot
<1>5. /\ \A i \in Inum : i # f => addrs'[i] = addrs[i]
      /\ \A k \in 0..NDIRECT : addrs'[f][k] = IF k = s THEN 0 ELSE addrs[f][k]
      /\ addrs' \in [Inum -> Addrs]
  <2>1. addrs \in [Inum -> Addrs] /\ addrs[f] \in Addrs
    BY <1>2 DEF Inv, Types
  <2>2. [addrs[f] EXCEPT ![s] = 0] \in Addrs
    BY <1>4, <2>1 DEF Addrs
  <2>3. addrs' = [addrs EXCEPT ![f] = [addrs[f] EXCEPT ![s] = 0]]
    BY <1>1
  <2>4. \A i \in Inum : i # f => addrs'[i] = addrs[i]
    BY <2>1, <2>3
  <2>5. addrs'[f] = [addrs[f] EXCEPT ![s] = 0]
    BY <1>2, <2>1, <2>3
  <2>6. \A k \in 0..NDIRECT : addrs'[f][k] = IF k = s THEN 0 ELSE addrs[f][k]
    BY <1>4, <2>1, <2>5 DEF Addrs
  <2> QED
    BY <2>1, <2>2, <2>3, <2>4, <2>6
<1>6. /\ wrote' = [q \in Proc |-> wrote'[q]] /\ wrote'[p] = wrote[p] \cup {BitmapBlock}
      /\ \A q \in Proc : q # p => wrote'[q] = wrote[q]
  BY <1>1, LogWriteIs DEF Inv
<1>7. Types'
  BY <1>1, <1>5, <1>6 DEF Inv, Types
<1>8. Alone(p)
  BY <1>1, <1>6 DEF Alone
<1>9. loc'[p].ip = f /\ loc'[p].nb = 0 /\ loc'[p].j <= NINDIRECT /\ pc'[p] = "itrunc"
  BY <1>0, <1>1 DEF Inv, Locks, Progress, ProgressOf
<1>10. /\ Locks' /\ Progress' /\ Filled' /\ Within'
       /\ Finished(f) = loc[p].j /\ Finished(f)' = loc'[p].j
       /\ \A i \in Inum : i # f => \A k \in Slot : Pointer(i, k)' = Pointer(i, k)
       /\ \A q \in Proc : loc'[q].nb = loc[q].nb
  <2>1. wrote'[p] \subseteq wrote[p] \cup {BitmapBlock}
    BY <1>6
  <2> QED
    BY <1>0, <1>1, <1>5, <1>7, <1>8, <1>9, <2>1, TruncFrame
<1>11. Placed'
  <2>1. Pointer(f, s) = addrs[f][s] /\ Pointer(f, s)' = 0
    BY <1>4, <1>5, Constants DEF Pointer
  <2>2. \A k \in Slot : k # s => Pointer(f, k)' = Pointer(f, k)
    <3>1. Finished(f)' = Finished(f) /\ block' = block
      BY <1>1, <1>10
    <3>2. addrs'[f][NDIRECT] = addrs[f][NDIRECT]
      BY <1>4, <1>5, Constants
    <3>3. \A k \in Slot : k # s /\ k <= NDIRECT => addrs'[f][k] = addrs[f][k]
      BY <1>5, Constants DEF Slot
    <3> QED
      BY <3>1, <3>2, <3>3 DEF Pointer
  <2>3. \A i \in Inum, k \in Slot : i # f \/ k # s => Pointer(i, k)' = Pointer(i, k)
    BY <1>10, <2>2
  <2> QED
    BY <1>1, <1>2, <1>4, <1>10, <2>1, <2>3, PlacedDrop DEF Inv
<1> QED
  BY <1>7, <1>10, <1>11 DEF Inv

\* The indirect block is freed.
LEMMA TruncIndirectStep ==
  ASSUME Inv, NEW p \in Proc, TruncIndirect(p)
  PROVE  Inv'
<1>0. PICK f : f = loc[p].ip
  OBVIOUS
<1>1. /\ pc[p] = "itrunc" /\ bitmap' = bitmap \ {addrs[f][NDIRECT]} /\ loc[p].j = NINDIRECT
      /\ LogWrite(p, {BitmapBlock}) /\ addrs' = [addrs EXCEPT ![f][NDIRECT] = 0]
      /\ UNCHANGED <<block, size, off, lock, pc, loc>>
  BY <1>0 DEF TruncIndirect, bfree
<1>2. f \in Inum /\ pc[p] \in Inside
  BY <1>0, <1>1, Holder DEF Inside
<1>3. NDIRECT \in 0..NDIRECT /\ NDIRECT \in Slot
  BY Constants DEF Slot
<1>4. /\ \A i \in Inum : i # f => addrs'[i] = addrs[i]
      /\ \A k \in 0..NDIRECT : addrs'[f][k] = IF k = NDIRECT THEN 0 ELSE addrs[f][k]
      /\ addrs' \in [Inum -> Addrs]
  <2>1. addrs \in [Inum -> Addrs] /\ addrs[f] \in Addrs
    BY <1>2 DEF Inv, Types
  <2>2. [addrs[f] EXCEPT ![NDIRECT] = 0] \in Addrs
    BY <1>3, <2>1 DEF Addrs
  <2>3. addrs' = [addrs EXCEPT ![f] = [addrs[f] EXCEPT ![NDIRECT] = 0]]
    BY <1>1
  <2>4. \A i \in Inum : i # f => addrs'[i] = addrs[i]
    BY <2>1, <2>3
  <2>5. addrs'[f] = [addrs[f] EXCEPT ![NDIRECT] = 0]
    BY <1>2, <2>1, <2>3
  <2>6. \A k \in 0..NDIRECT : addrs'[f][k] = IF k = NDIRECT THEN 0 ELSE addrs[f][k]
    BY <1>3, <2>1, <2>5 DEF Addrs
  <2> QED
    BY <2>1, <2>2, <2>3, <2>4, <2>6
<1>6. /\ wrote' = [q \in Proc |-> wrote'[q]] /\ wrote'[p] = wrote[p] \cup {BitmapBlock}
      /\ \A q \in Proc : q # p => wrote'[q] = wrote[q]
  BY <1>1, LogWriteIs DEF Inv
<1>7. Types'
  BY <1>1, <1>4, <1>6 DEF Inv, Types
<1>8. Alone(p)
  BY <1>1, <1>6 DEF Alone
<1>9. loc'[p].ip = f /\ loc'[p].nb = 0 /\ loc'[p].j <= NINDIRECT /\ pc'[p] = "itrunc"
  BY <1>0, <1>1 DEF Inv, Locks, Progress, ProgressOf
<1>10. /\ Locks' /\ Progress' /\ Filled' /\ Within'
       /\ Finished(f) = loc[p].j /\ Finished(f)' = loc'[p].j
       /\ \A i \in Inum : i # f => \A k \in Slot : Pointer(i, k)' = Pointer(i, k)
       /\ \A q \in Proc : loc'[q].nb = loc[q].nb
  <2>1. wrote'[p] \subseteq wrote[p] \cup {BitmapBlock}
    BY <1>6
  <2> QED
    BY <1>0, <1>1, <1>4, <1>7, <1>8, <1>9, <2>1, TruncFrame
<1>11. Placed'
  <2>1. Pointer(f, NDIRECT) = addrs[f][NDIRECT] /\ Pointer(f, NDIRECT)' = 0
    BY <1>3, <1>4, Constants DEF Pointer
  <2>2. \A k \in Slot : k # NDIRECT => Pointer(f, k)' = Pointer(f, k)
    <3>1. Finished(f) = NINDIRECT
      BY <1>1, <1>10
    <3>2. addrs'[f][NDIRECT] = 0
      BY <1>3, <1>4
    <3>3. \A k \in Slot : k # NDIRECT /\ k <= NDIRECT => addrs'[f][k] = addrs[f][k]
      BY <1>4, Constants DEF Slot
    <3>4. \A k \in Slot : k # NDIRECT /\ ~(k <= NDIRECT) => k - NDIRECT - 1 < NINDIRECT
      BY Constants DEF Slot
    <3> QED
      BY <3>1, <3>2, <3>3, <3>4 DEF Pointer
  <2>3. \A i \in Inum, k \in Slot : i # f \/ k # NDIRECT => Pointer(i, k)' = Pointer(i, k)
    BY <1>10, <2>2
  <2> QED
    BY <1>1, <1>2, <1>3, <1>10, <2>1, <2>3, PlacedDrop DEF Inv
<1> QED
  BY <1>7, <1>10, <1>11 DEF Inv

\* A block of the indirect block is freed.
LEMMA TruncEntryStep ==
  ASSUME Inv, NEW p \in Proc, TruncEntry(p)
  PROVE  Inv'
<1>0. PICK f, ind, j, b, s :
        /\ f = loc[p].ip /\ ind = addrs[f][NDIRECT] /\ j = loc[p].j /\ b = block[ind][j]
        /\ s = NDIRECT + 1 + j
  OBVIOUS
<1>1. /\ pc[p] = "itrunc" /\ ind # 0 /\ j < NINDIRECT
      /\ \/ b # 0 /\ bitmap' = bitmap \ {b} /\ LogWrite(p, {BitmapBlock})
         \/ b = 0 /\ bitmap' = bitmap /\ wrote' = wrote
      /\ Goto(p, "itrunc", JOf(loc[p], j + 1))
      /\ UNCHANGED <<block, addrs, size, off, lock>>
  BY <1>0 DEF TruncEntry, bfree, JOf, inodes
<1>2. f \in Inum /\ pc[p] \in Inside
  BY <1>0, <1>1, Holder DEF Inside
<1>3. j \in Nat /\ j + 1 \in Nat /\ j + 1 <= NINDIRECT /\ s \in Slot /\ s = NDIRECT + 1 + j
  <2>1. j \in Nat /\ j < NINDIRECT /\ s = NDIRECT + 1 + j
    BY <1>0, <1>1, LocalsAt DEF Inv
  <2> QED
    BY ONLY <2>1, Constants DEF Slot
<1>loc. PICK l \in Locals : l = loc[p]
  BY DEF Inv, Types
<1>4. PICK e, r : l = loc[p] /\ e = j + 1 /\ r = JOf(l, e)
  BY <1>loc
<1>5. r \in Locals /\ r.ip = l.ip /\ r.nb = l.nb /\ r.j = j + 1
  <2>1. r = JOf(l, e) /\ e \in Offset
    BY <1>3, <1>4 DEF Offset
  <2>2. r \in Locals /\ r.ip = l.ip /\ r.nb = l.nb /\ r.j = e
    BY ONLY <2>1, l \in Locals, JLocals
  <2> QED
    BY <1>4, <2>2
<1>6. Goto(p, "itrunc", r) /\ "itrunc" \in Label /\ Types
  BY <1>1, <1>4 DEF Inv, Label, Inside
<1>7. /\ pc' \in [Proc -> Label] /\ loc' \in [Proc -> Locals] /\ pc'[p] = "itrunc" /\ loc'[p] = r
      /\ \A q \in Proc : q # p => pc'[q] = pc[q] /\ loc'[q] = loc[q]
  BY <1>5, <1>6, GotoIs
<1>8. /\ wrote' = [q \in Proc |-> wrote'[q]] /\ wrote'[p] \subseteq wrote[p] \cup {BitmapBlock}
      /\ \A q \in Proc : q # p => wrote'[q] = wrote[q]
  <2>1. CASE LogWrite(p, {BitmapBlock})
    BY <2>1, LogWriteIs DEF Inv
  <2>2. CASE wrote' = wrote
    BY <2>2 DEF Inv, Types
  <2> QED
    BY <1>1, <2>1, <2>2
<1>9. Types'
  <2>1. bitmap' \subseteq Blk
    BY <1>1 DEF Inv, Types
  <2> QED
    BY <1>1, <1>7, <1>8, <2>1 DEF Inv, Types
<1>10. Alone(p)
  BY <1>7, <1>8 DEF Alone
<1>11. loc'[p].ip = f /\ loc'[p].nb = 0 /\ loc'[p].j = j + 1
  BY <1>0, <1>1, <1>4, <1>5, <1>7 DEF Inv, Locks
<1>12. /\ Locks' /\ Progress' /\ Filled' /\ Within'
       /\ Finished(f) = j /\ Finished(f)' = j + 1
       /\ \A i \in Inum : i # f => \A k \in Slot : Pointer(i, k)' = Pointer(i, k)
       /\ \A q \in Proc : loc'[q].nb = loc[q].nb
  <2>1. \A i \in Inum : i # f => addrs'[i] = addrs[i]
    BY <1>1
  <2>2. f = loc[p].ip /\ lock' = lock /\ block' = block /\ size' = size /\ pc[p] = "itrunc" /\ pc'[p] = "itrunc"
    BY <1>0, <1>1, <1>7
  <2>3. loc'[p].j <= NINDIRECT /\ wrote'[p] \subseteq wrote[p] \cup {BitmapBlock}
    BY <1>3, <1>8, <1>11
  <2>4. /\ Locks' /\ Progress' /\ Filled' /\ Within'
        /\ Finished(f) = loc[p].j /\ Finished(f)' = loc'[p].j
        /\ \A i \in Inum : i # f => \A k \in Slot : Pointer(i, k)' = Pointer(i, k)
        /\ \A q \in Proc : loc'[q].nb = loc[q].nb
    BY ONLY Inv, p \in Proc, <1>9, <1>10, <1>11, <2>1, <2>2, <2>3, TruncFrame
  <2> QED
    BY <1>0, <1>11, <2>4
<1>13. /\ Pointer(f, s) = b /\ Pointer(f, s)' = 0
       /\ \A k \in Slot : k # s => Pointer(f, k)' = Pointer(f, k)
  <2>1. ~(s <= NDIRECT) /\ s - NDIRECT - 1 = j /\ ~(j < j) /\ j < j + 1
    BY <1>3, Constants
  <2>2. \A k \in Slot : k # s /\ ~(k <= NDIRECT) => (k - NDIRECT - 1 < j <=> k - NDIRECT - 1 < j + 1)
    BY <1>3, Constants DEF Slot
  <2>3. Pointer(f, s) = b /\ Pointer(f, s)' = 0
    BY <1>0, <1>1, <1>12, <2>1 DEF Pointer
  <2>4. \A k \in Slot : k # s => Pointer(f, k)' = Pointer(f, k)
    BY <1>0, <1>1, <1>12, <2>2 DEF Pointer
  <2> QED
    BY <2>3, <2>4
<1>14. Placed'
  <2>1. CASE b # 0
    <3>1. \A i \in Inum, k \in Slot : i # f \/ k # s => Pointer(i, k)' = Pointer(i, k)
      BY <1>12, <1>13
    <3>2. bitmap' = bitmap \ {Pointer(f, s)}
      BY <1>1, <1>13, <2>1
    <3> QED
      BY <1>2, <1>3, <1>12, <1>13, <3>1, <3>2, PlacedDrop DEF Inv
  <2>2. CASE b = 0
    <3>1. \A i \in Inum, k \in Slot : Pointer(i, k)' = Pointer(i, k)
      BY <1>12, <1>13, <2>2
    <3>2. bitmap' = bitmap
      BY <1>1, <2>2
    <3> QED
      BY <1>12, <3>1, <3>2, PlacedSame DEF Inv
  <2> QED
    BY <2>1, <2>2
<1> QED
  BY <1>9, <1>12, <1>14 DEF Inv

-----------------------------------------------------------------------------
(* writei *)

\* A step of writei is at one file, and gives the log what it comes to.
LEMMA WriteFrame ==
  ASSUME Inv, NEW p \in Proc, pc[p] \in Writing, pc'[p] \in Writing, Alone(p), Types',
         NEW f, f = loc[p].ip, lock' = lock, size' = size,
         \A i \in Inum : i # f => SameBlocks(i),
         loc'[p].ip = f, loc'[p].nb # 0 <=> pc'[p] = "bzero",
         ProgressOf(p)', wrote'[p] \subseteq Touched(p)', FilledOf(f)'
  PROVE  Locks' /\ Progress' /\ Filled' /\ Within'
<1>1. pc[p] \in Inside /\ pc'[p] \in Inside /\ pc'[p] # "begin" /\ pc'[p] # "end_op"
  BY DEF Inside, Writing
<1>2. f \in Inum /\ (\A i \in Inum : lock[i] = p => i = f) /\ lock[f] = p
      /\ (\A q \in Proc : q # p /\ pc[q] \in Inside => loc[q].ip \notin {f})
  BY <1>1, Holder
<1>3. Locks'
  BY <1>1, LocksKeep
<1>4. \A i \in Inum : i \notin {f} => Same(i) /\ lock[i] # p
  BY <1>2 DEF Same
<1>5. WithinOf(p)'
  BY DEF WithinOf, Writing
<1>6. Progress' /\ Filled' /\ Within'
  BY <1>2, <1>4, <1>5, Frame
<1> QED
  BY <1>3, <1>6

\* Before and after it, the slots of the files.
LEMMA WritePointers ==
  ASSUME Inv, NEW p \in Proc, pc[p] \in Writing, pc'[p] \in Writing, Alone(p),
         NEW f, f = loc[p].ip, lock' = lock, size' = size,
         \A i \in Inum : i # f => SameBlocks(i)
  PROVE  /\ f \in Inum /\ lock[f] = p /\ ~Truncating(f) /\ ~Truncating(f)'
         /\ Finished(f) = 0 /\ Finished(f)' = 0
         /\ Upto(f) = IF loc[p].at > size[f] THEN loc[p].at ELSE size[f]
         /\ Upto(f)' = IF loc'[p].at > size[f] THEN loc'[p].at ELSE size[f]
         /\ \A i \in Inum : i # f => \A k \in Slot : Pointer(i, k)' = Pointer(i, k)
<1>1. pc[p] \in Inside /\ pc[p] # "itrunc" /\ pc'[p] # "itrunc"
  BY DEF Inside, Writing
<1>2. f \in Inum /\ (\A i \in Inum : lock[i] = p => i = f) /\ lock[f] = p /\ Finished(f) = 0
      /\ ~Truncating(f)
      /\ Upto(f) = IF loc[p].at > size[f] THEN loc[p].at ELSE size[f]
  BY <1>1, Holder
<1>3. lock'[f] = p /\ size'[f] = size[f]
  BY <1>2
<1>4. ~Truncating(f)' /\ Finished(f)' = 0
      /\ Upto(f)' = IF loc'[p].at > size[f] THEN loc'[p].at ELSE size[f]
  BY <1>1, <1>2, <1>3, HolderNext
<1>5. \A i \in Inum : i # f => Same(i) /\ lock[i] # p
  BY <1>2 DEF Same
<1>6. \A i \in Inum : i # f => \A k \in Slot : Pointer(i, k)' = Pointer(i, k)
  BY <1>5, PointersSame
<1> QED
  BY <1>2, <1>4, <1>6

\* The blocks that a transaction comes to are known when it starts.
LEMMA SpanSame ==
  ASSUME NEW p, loc'[p].from = loc[p].from,
         loc'[p].at + Len(loc'[p].part) = loc[p].at + Len(loc[p].part)
  PROVE  Span(p)' = Span(p)
  BY DEF Span

\* A block is allocated.
LEMMA BallocStep ==
  ASSUME Inv, NEW p \in Proc, Balloc(p)
  PROVE  Inv'
<1>0. PICK f, b : f = loc[p].ip /\ b = Min(Blk \ bitmap)
  OBVIOUS
<1>1. /\ pc[p] = "writei" /\ loc[p].part # << >> /\ Lookup(f, Bn(p)) = 0 /\ Blk \ bitmap # {}
      /\ bitmap' = bitmap \cup {b} /\ Goto(p, "bzero", NbOf(loc[p], b))
      /\ LogWrite(p, {BitmapBlock}) /\ UNCHANGED <<block, addrs, size, off, lock>>
  BY <1>0 DEF Balloc, NbOf, inodes
<1>2. b \in Blk /\ b \notin bitmap /\ b # 0 /\ b \in Blk \cup {0}
  <2>1. Blk \ bitmap \subseteq Nat
    BY Constants
  <2>2. b \in Blk \ bitmap
    BY <1>0, <1>1, <2>1, MinIn
  <2> QED
    BY <2>2, Constants
<1>loc. PICK l \in Locals : l = loc[p]
  BY DEF Inv, Types
<1>3. PICK r : l = loc[p] /\ r = NbOf(l, b)
  BY <1>loc
<1>4. /\ r \in Locals /\ r.ip = l.ip /\ r.from = l.from /\ r.at = l.at /\ r.part = l.part /\ r.nb = b
  BY ONLY <1>2, <1>3, l \in Locals, NbLocals
<1>5. Goto(p, "bzero", r) /\ "bzero" \in Label /\ Types
  BY <1>1, <1>3 DEF Inv, Label, Inside
<1>6. /\ pc' \in [Proc -> Label] /\ loc' \in [Proc -> Locals] /\ pc'[p] = "bzero" /\ loc'[p] = r
      /\ \A q \in Proc : q # p => pc'[q] = pc[q] /\ loc'[q] = loc[q]
  BY <1>4, <1>5, GotoIs
<1>7. /\ wrote' = [q \in Proc |-> wrote'[q]] /\ wrote'[p] = wrote[p] \cup {BitmapBlock}
      /\ \A q \in Proc : q # p => wrote'[q] = wrote[q]
  BY <1>1, LogWriteIs DEF Inv
<1>8. Types'
  <2>1. bitmap' \subseteq Blk
    BY <1>1, <1>2 DEF Inv, Types
  <2> QED
    BY <1>1, <1>6, <1>7, <2>1 DEF Inv, Types
<1>9. Alone(p)
  BY <1>6, <1>7 DEF Alone
<1>10. pc[p] \in Writing /\ pc'[p] \in Writing /\ (\A i \in Inum : SameBlocks(i))
  BY <1>1, <1>6 DEF Writing, SameBlocks
<1>11. /\ loc'[p].ip = f /\ loc'[p].from = loc[p].from /\ loc'[p].at = loc[p].at
       /\ loc'[p].part = loc[p].part /\ loc'[p].nb = b /\ Bn(p)' = Bn(p) /\ Span(p)' = Span(p)
  <2>1. /\ loc'[p].ip = f /\ loc'[p].from = loc[p].from /\ loc'[p].at = loc[p].at
        /\ loc'[p].part = loc[p].part /\ loc'[p].nb = b
    BY <1>0, <1>3, <1>4, <1>6
  <2> QED
    BY <2>1 DEF Bn, Span
<1>12. /\ f \in Inum /\ ~Truncating(f) /\ ~Truncating(f)' /\ Finished(f) = 0 /\ Finished(f)' = 0
       /\ Upto(f)' = Upto(f)
       /\ \A i \in Inum : i # f => \A k \in Slot : Pointer(i, k)' = Pointer(i, k)
  BY <1>0, <1>1, <1>9, <1>10, <1>11, WritePointers
<1>13. (\A bn \in FileBlock : Lookup(f, bn)' = Lookup(f, bn))
       /\ \A k \in Slot : Pointer(f, k)' = Pointer(f, k)
  BY <1>10, <1>12, LookupSame, PointerSame
<1>14. Bn(p) \in FileBlock
  BY <1>1, <1>10, BnIs
<1>15. ProgressOf(p)'
  <2>1. Lookup(f, Bn(p))' = 0
    <3>1. ASSUME NEW bn \in FileBlock, bn = Bn(p) PROVE Lookup(f, bn)' = 0
      BY <1>1, <1>13, <3>1
    <3> QED
      BY <1>11, <1>14, <3>1
  <2>2. Lookup(loc[p].ip, Bn(p))' = 0
    BY <1>11, <2>1
  <2>3. ProgressOf(p)
    BY DEF Inv, Progress
  <2> QED
    BY <1>1, <1>6, <1>10, <1>11, <2>2, <2>3 DEF ProgressOf
<1>16. wrote'[p] \subseteq Touched(p)'
  <2>1. wrote[p] \subseteq Touched(p)
    BY <1>10 DEF Inv, Within, WithinOf
  <2>2. Touched(p)' = Touched(p)
    BY <1>0, <1>1, <1>11, <1>13 DEF Touched, Span
  <2>3. BitmapBlock \in Touched(p)
    BY DEF Touched
  <2> QED
    BY <1>7, <2>1, <2>2, <2>3
<1>17. FilledOf(f)'
  <2>1. FilledOf(f)
    BY <1>12 DEF Inv, Filled
  <2> QED
    BY <1>12, <1>13, <2>1 DEF FilledOf
<1>18. Locks' /\ Progress' /\ Filled' /\ Within'
  BY <1>0, <1>1, <1>2, <1>6, <1>8, <1>9, <1>10, <1>11, <1>15, <1>16, <1>17, WriteFrame
<1>19. Placed'
  <2>1. loc[p].nb = 0
    BY <1>1 DEF Inv, Locks
  <2>2. \A q \in Proc : q # p => loc'[q].nb = loc[q].nb
    BY <1>6
  <2>3. \A i \in Inum, k \in Slot : Pointer(i, k)' = Pointer(i, k)
    BY <1>12, <1>13
  <2> QED
    BY <1>1, <1>2, <1>11, <2>1, <2>2, <2>3, PlacedAlloc DEF Inv
<1> QED
  BY <1>8, <1>18, <1>19 DEF Inv

\* What a block holds after m bytes of s are copied to offset o.
Copied(c, o, m, s) == [k \in DOMAIN c |-> IF o <= k /\ k < o + m THEN s[k - o + 1] ELSE c[k]]

LEMMA CopiedIs ==
  ASSUME NEW c \in Blocks, NEW o \in Nat, NEW m \in Nat, NEW s \in Seq(Byte), m <= Len(s)
  PROVE  /\ Copied(c, o, m, s) \in Blocks
         /\ \A k \in Word : Copied(c, o, m, s)[k] = IF o <= k /\ k < o + m THEN s[k - o + 1] ELSE c[k]
<1>1. DOMAIN c = Word /\ \A k \in Word : c[k] \in Nat
  BY DEF Blocks
<1>2. ASSUME NEW k \in Word, o <= k, k < o + m PROVE s[k - o + 1] \in Nat
  <2>1. k - o + 1 \in 1..Len(s)
    BY <1>2, Constants DEF Word
  <2>2. s[k - o + 1] \in Byte
    BY <2>1
  <2> QED
    BY <2>2, WritesAre
<1>3. Copied(c, o, m, s) = [k \in Word |-> IF o <= k /\ k < o + m THEN s[k - o + 1] ELSE c[k]]
  BY <1>1 DEF Copied
<1>4. \A k \in Word : (IF o <= k /\ k < o + m THEN s[k - o + 1] ELSE c[k]) \in Nat
  BY <1>1, <1>2
<1> QED
  BY <1>3, <1>4 DEF Blocks

\* What is left of a sequence.
LEMMA TailIs ==
  ASSUME NEW S, NEW s \in Seq(S), NEW m \in Nat, m <= Len(s)
  PROVE  SubSeq(s, m + 1, Len(s)) \in Seq(S) /\ Len(SubSeq(s, m + 1, Len(s))) = Len(s) - m
<1>1. Len(s) \in Nat /\ m + 1 \in Nat
  OBVIOUS
<1>2. CASE m + 1 <= Len(s)
  BY <1>1, <1>2
<1>3. CASE ~(m + 1 <= Len(s))
  BY <1>1, <1>3
<1> QED
  BY <1>2, <1>3

\* What a round of writei does, in constants.
LEMMA CopyIs ==
  ASSUME Inv, NEW p \in Proc, Copy(p)
  PROVE  \E f \in Inum, b \in Blk, o \in Word, m \in Nat, a \in Nat, s \in Seq(Byte), t \in Seq(Byte), bn \in FileBlock :
           /\ f = loc[p].ip /\ a = loc[p].at /\ s = loc[p].part /\ bn = Bn(p) /\ b = Lookup(f, bn) /\ b # 0
           /\ o = a % BSIZE /\ a = bn * BSIZE + o /\ m >= 1 /\ m <= Len(s) /\ o + m <= BSIZE
           /\ t = SubSeq(s, m + 1, Len(s)) /\ Len(t) = Len(s) - m
           /\ pc[p] = "writei" /\ s # << >>
           /\ block' = [block EXCEPT ![b] = Copied(block[b], o, m, s)]
           /\ LogWrite(p, {b}) /\ Goto(p, "writei", MoveOf(loc[p], a + m, t))
           /\ UNCHANGED <<bitmap, addrs, size, off, lock>>
<1>0. PICK f, b, o, m, a, s, t, bn :
        /\ f = loc[p].ip /\ a = loc[p].at /\ s = loc[p].part /\ bn = Bn(p) /\ b = Lookup(f, bn)
        /\ o = a % BSIZE /\ m = Min({Len(s), BSIZE - o}) /\ t = SubSeq(s, m + 1, Len(s))
  OBVIOUS
<1>1. /\ pc[p] = "writei" /\ s # << >> /\ b # 0
      /\ block' = [block EXCEPT ![b] = Copied(block[b], o, m, s)]
      /\ LogWrite(p, {b}) /\ Goto(p, "writei", MoveOf(loc[p], a + m, t))
      /\ UNCHANGED <<bitmap, addrs, size, off, lock>>
  BY <1>0 DEF Copy, Copied, MoveOf, inodes
<1>2. pc[p] \in Inside /\ pc[p] \in Writing
  BY <1>1 DEF Inside, Writing
<1>3. f \in Inum /\ ~Truncating(f)
  BY <1>0, <1>1, <1>2, Holder
<1>4. bn \in FileBlock /\ a \in Nat /\ s \in Seq(Byte) /\ Len(s) \in Nat /\ Len(s) >= 1
  BY <1>0, <1>1, <1>2, BnIs, LocalsAt DEF Inv
<1>5. b \in Blk
  BY <1>0, <1>1, <1>3, <1>4, DataAlone
<1>6. o \in Word /\ a = bn * BSIZE + o
  BY <1>0, <1>4, BlockOf DEF Bn
<1>7. o \in Nat /\ BSIZE - o \in Nat /\ BSIZE - o >= 1
  BY <1>6, Constants DEF Word
<1>8. m \in Nat /\ m >= 1 /\ m <= Len(s) /\ o + m <= BSIZE
  <2>1. m = IF Len(s) <= BSIZE - o THEN Len(s) ELSE BSIZE - o
    BY <1>0, <1>4, <1>7, MinMax
  <2> QED
    BY <1>4, <1>7, <2>1, Constants
<1>9. t \in Seq(Byte) /\ Len(t) = Len(s) - m
  BY <1>0, <1>4, <1>8, TailIs
<1> QED
  BY <1>0, <1>1, <1>3, <1>4, <1>5, <1>6, <1>8, <1>9

\* Bytes are copied into a block.
LEMMA CopyStep ==
  ASSUME Inv, NEW p \in Proc, Copy(p)
  PROVE  Inv'
<1>1. PICK f \in Inum, b \in Blk, o \in Word, m \in Nat, a \in Nat, s \in Seq(Byte), t \in Seq(Byte), bn \in FileBlock :
        /\ f = loc[p].ip /\ a = loc[p].at /\ s = loc[p].part /\ bn = Bn(p) /\ b = Lookup(f, bn) /\ b # 0
        /\ o = a % BSIZE /\ a = bn * BSIZE + o /\ m >= 1 /\ m <= Len(s) /\ o + m <= BSIZE
        /\ t = SubSeq(s, m + 1, Len(s)) /\ Len(t) = Len(s) - m
        /\ pc[p] = "writei" /\ s # << >>
        /\ block' = [block EXCEPT ![b] = Copied(block[b], o, m, s)]
        /\ LogWrite(p, {b}) /\ Goto(p, "writei", MoveOf(loc[p], a + m, t))
        /\ UNCHANGED <<bitmap, addrs, size, off, lock>>
  BY CopyIs
<1>2. pc[p] \in Writing
  BY <1>1 DEF Writing
<1>loc. PICK l \in Locals : l = loc[p]
  BY DEF Inv, Types
<1>3. PICK e, u, r : u = t /\ l = loc[p] /\ e = a + m /\ r = MoveOf(l, e, u)
  BY <1>loc
<1>4. a + m \in Nat /\ Len(s) \in Nat /\ o \in Nat
  BY Constants DEF Word
<1>41. Len(t) = Len(s) - m /\ m >= 1 /\ m <= Len(s) /\ o + m <= BSIZE /\ Len(t) \in Nat
  BY <1>1
<1>5. r \in Locals /\ r.ip = l.ip /\ r.from = l.from /\ r.at = a + m /\ r.part = t /\ r.nb = l.nb
  <2>1. r = MoveOf(l, e, u) /\ e \in Offset /\ u \in Seq(Byte)
    BY <1>3, <1>4 DEF Offset
  <2>2. r \in Locals /\ r.ip = l.ip /\ r.from = l.from /\ r.at = e /\ r.part = u /\ r.nb = l.nb
    BY ONLY <2>1, l \in Locals, MoveLocals
  <2> QED
    BY <1>3, <2>2
<1>6. Goto(p, "writei", r) /\ "writei" \in Label /\ Types
  BY <1>1, <1>3 DEF Inv, Label, Inside
<1>7. /\ pc' \in [Proc -> Label] /\ loc' \in [Proc -> Locals] /\ pc'[p] = "writei" /\ loc'[p] = r
      /\ \A q \in Proc : q # p => pc'[q] = pc[q] /\ loc'[q] = loc[q]
  BY <1>5, <1>6, GotoIs
<1>8. /\ wrote' = [q \in Proc |-> wrote'[q]] /\ wrote'[p] = wrote[p] \cup {b}
      /\ \A q \in Proc : q # p => wrote'[q] = wrote[q]
  BY <1>1, LogWriteIs DEF Inv
<1>9. block \in [Blk -> Blocks] /\ block[b] \in Blocks
  BY DEF Inv, Types
<1>10. Copied(block[b], o, m, s) \in Blocks
  BY <1>1, <1>4, <1>9, CopiedIs
<1>11. block' \in [Blk -> Blocks] /\ \A d \in Blk : d # b => block'[d] = block[d]
  BY <1>1, <1>9, <1>10
<1>12. Types'
  BY <1>1, <1>7, <1>8, <1>11 DEF Inv, Types
<1>13. Alone(p)
  BY <1>7, <1>8 DEF Alone
<1>14. /\ loc'[p].ip = f /\ loc'[p].from = loc[p].from /\ loc'[p].at = a + m
       /\ loc'[p].part = t /\ loc'[p].nb = 0 /\ pc'[p] = "writei" /\ pc'[p] \in Writing
  BY <1>1, <1>3, <1>5, <1>7 DEF Inv, Locks, Writing
<1>15. ~Truncating(f)
  BY <1>1, Holder DEF Inside
<1>16. ASSUME NEW i \in Inum PROVE SameBlocks(i)
  <2>1. b # addrs[i][NDIRECT]
    BY <1>1, <1>15, DataAlone
  <2>2. addrs[i][NDIRECT] # 0 => addrs[i][NDIRECT] \in Blk
    BY InodeAt DEF Inv
  <2> QED
    BY <1>1, <1>11, <2>1, <2>2 DEF SameBlocks
<1>17. /\ ~Truncating(f)' /\ Finished(f) = 0 /\ Finished(f)' = 0
       /\ Upto(f) = IF a > size[f] THEN a ELSE size[f]
       /\ Upto(f)' = IF a + m > size[f] THEN a + m ELSE size[f]
       /\ \A i \in Inum : i # f => \A k \in Slot : Pointer(i, k)' = Pointer(i, k)
  <2>1. lock' = lock /\ size' = size /\ \A i \in Inum : i # f => SameBlocks(i)
    BY <1>1, <1>16
  <2>2. /\ ~Truncating(f)' /\ Finished(f) = 0 /\ Finished(f)' = 0
        /\ Upto(f) = IF loc[p].at > size[f] THEN loc[p].at ELSE size[f]
        /\ Upto(f)' = IF loc'[p].at > size[f] THEN loc'[p].at ELSE size[f]
        /\ \A i \in Inum : i # f => \A k \in Slot : Pointer(i, k)' = Pointer(i, k)
    <3>1. f = loc[p].ip
      BY <1>1
    <3>2. pc'[p] \in Writing
      BY <1>14
    <3> QED
      BY ONLY Inv, p \in Proc, <1>2, <1>13, <2>1, <3>1, <3>2, WritePointers
  <2> QED
    BY <1>1, <1>14, <2>2
<1>18. (\A d \in FileBlock : Lookup(f, d)' = Lookup(f, d)) /\ \A k \in Slot : Pointer(f, k)' = Pointer(f, k)
  BY <1>16, <1>17, LookupSame, PointerSame
<1>19. /\ loc[p].from \in Nat /\ loc[p].from <= a /\ a + Len(s) <= loc[p].from + MaxChunk
       /\ a + Len(s) <= MAXFILE * BSIZE /\ MaxChunk \in Nat /\ MAXFILE * BSIZE \in Nat
  BY <1>1, <1>2, LocalsAt, ChunkIs, Constants, MulLess DEF Inv, Progress, ProgressOf
<1>20. (a + m) + Len(t) = a + Len(s) /\ a <= a + m /\ Len(t) \in Nat
  BY <1>4, <1>41
<1>21. ProgressOf(p)'
  <2>1. /\ loc'[p].from <= loc'[p].at
        /\ loc'[p].at + Len(loc'[p].part) <= loc'[p].from + MaxChunk
        /\ loc'[p].at + Len(loc'[p].part) <= MAXFILE * BSIZE
    BY <1>4, <1>14, <1>19, <1>20
  <2> QED
    BY <1>14, <2>1 DEF ProgressOf, MaxChunk
<1>22. Span(p)' = Span(p)
  BY <1>1, <1>14, <1>20, SpanSame
<1>23. wrote'[p] \subseteq Touched(p)'
  <2>1. wrote[p] \subseteq Touched(p)
    BY <1>2 DEF Inv, Within, WithinOf
  <2>2. Touched(p)' = Touched(p)
    BY <1>1, <1>14, <1>18, <1>22 DEF Touched, Span
  <2>3. bn \in Span(p)
    BY <1>1, <1>2, BnIs
  <2>4. b \in Touched(p)
    BY <1>1, <2>3 DEF Touched
  <2> QED
    BY <1>8, <2>1, <2>2, <2>4
<1>24. FilledOf(f)'
  <2>1. FilledOf(f) /\ size[f] \in Nat
    BY InodeAt DEF Inv, Filled
  <2>2. Upto(f)' <= MAXFILE * BSIZE
    <3>1. a + m <= MAXFILE * BSIZE
      <4> DEFINE z == MAXFILE * BSIZE
      <4>1. z \in Nat /\ a + Len(s) <= z
        BY <1>19
      <4> HIDE DEF z
      <4>2. a + m <= z
        BY <1>4, <1>41, <4>1
      <4> QED
        BY <4>2 DEF z
    <3>2. Upto(f) <= MAXFILE * BSIZE
      BY <2>1 DEF FilledOf
    <3>3. Upto(f)' = a + m \/ Upto(f)' = Upto(f)
      BY <1>4, <1>17, <2>1, <1>41
    <3> QED
      BY <3>1, <3>2, <3>3
  <2>3. ASSUME NEW d \in FileBlock, d * BSIZE < Upto(f)' PROVE Lookup(f, d) # 0
    <3>1. CASE d * BSIZE < Upto(f)
      BY <1>15, <2>1, <3>1 DEF FilledOf
    <3>2. CASE ~(d * BSIZE < Upto(f))
      <4>1. d \in Nat /\ bn \in Nat /\ d * BSIZE \in Nat /\ bn * BSIZE \in Nat
            /\ (bn + 1) * BSIZE = bn * BSIZE + BSIZE
            /\ (d < bn => d * BSIZE + BSIZE <= bn * BSIZE)
            /\ (d * BSIZE < (bn + 1) * BSIZE => d < bn + 1)
        <5>1. d \in Nat /\ bn \in Nat /\ bn + 1 \in Nat
          BY Constants DEF FileBlock
        <5> QED
          BY <5>1, Constants, MulLess
      <4> DEFINE x == d * BSIZE
                 y == bn * BSIZE
      <4>2. x \in Nat /\ y \in Nat /\ a = y + o /\ ~(x < Upto(f)) /\ x < Upto(f)'
        BY <1>1, <2>3, <3>2, <4>1
      <4> HIDE DEF x, y
      <4>3. a <= x /\ x < a + m
        BY <1>4, <1>17, <2>1, <4>2
      <4>4. x < y + BSIZE /\ y <= x
        BY <1>4, <1>41, <4>2, <4>3, Constants
      <4>5. d < bn + 1 /\ ~(d < bn)
        BY <4>1, <4>4, Constants DEF x, y
      <4>6. d = bn
        BY <4>1, <4>5
      <4> QED
        BY <1>1, <4>6
    <3> QED
      BY <3>1, <3>2
  <2> QED
    BY <1>18, <2>2, <2>3 DEF FilledOf
<1>25. Locks' /\ Progress' /\ Filled' /\ Within'
  BY <1>1, <1>2, <1>12, <1>13, <1>14, <1>16, <1>21, <1>23, <1>24, WriteFrame
<1>26. Placed'
  <2>1. \A q \in Proc : loc'[q].nb = loc[q].nb
    BY <1>1, <1>7, <1>14 DEF Inv, Locks
  <2>2. \A i \in Inum, k \in Slot : Pointer(i, k)' = Pointer(i, k)
    BY <1>17, <1>18
  <2> QED
    BY <1>1, <2>1, <2>2, PlacedSame DEF Inv
<1> QED
  BY <1>12, <1>25, <1>26 DEF Inv

\* bmap puts the new block in an empty slot of the file.
LEMMA TakeFrame ==
  ASSUME Inv, NEW p \in Proc, pc[p] = "bzero", pc'[p] = "writei", Alone(p), Types',
         NEW f, NEW b, NEW bn, f = loc[p].ip, b = loc[p].nb, bn = Bn(p),
         lock' = lock, size' = size, bitmap' = bitmap, \A i \in Inum : i # f => SameBlocks(i),
         loc'[p].ip = f, loc'[p].from = loc[p].from, loc'[p].at = loc[p].at,
         loc'[p].part = loc[p].part, loc'[p].nb = 0,
         NEW s \in Slot, Pointer(f, s) = 0, Pointer(f, s)' = b,
         \A k \in Slot : k # s => Pointer(f, k)' = Pointer(f, k),
         \A d \in FileBlock : Lookup(f, d) # 0 => Lookup(f, d)' = Lookup(f, d),
         addrs[f][NDIRECT] # 0 => addrs'[f][NDIRECT] = addrs[f][NDIRECT],
         wrote'[p] \subseteq wrote[p] \cup {b, addrs'[f][NDIRECT]},
         b = addrs'[f][NDIRECT] \/ b = Lookup(f, bn)'
  PROVE  Inv'
<1>1. pc[p] \in Writing /\ pc'[p] \in Writing
  BY DEF Writing
<1>2. /\ f \in Inum /\ ~Truncating(f) /\ ~Truncating(f)' /\ Upto(f)' = Upto(f)
      /\ \A i \in Inum : i # f => \A k \in Slot : Pointer(i, k)' = Pointer(i, k)
  BY <1>1, WritePointers
<1>3. Placed'
  <2>1. loc[p].nb # 0 /\ Placed
    BY DEF Inv, Locks
  <2>2. \A q \in Proc : q # p => loc'[q].nb = loc[q].nb
    BY DEF Alone
  <2>3. \A i \in Inum, k \in Slot : i # f \/ k # s => Pointer(i, k)' = Pointer(i, k)
    BY <1>2
  <2>4. Pointer(f, s)' = loc[p].nb
    OBVIOUS
  <2> QED
    BY <1>2, <2>1, <2>2, <2>3, <2>4, PlacedTake
<1>4. ProgressOf(p)'
  <2>1. ProgressOf(p)
    BY DEF Inv, Progress
  <2> QED
    BY <1>1, <2>1 DEF ProgressOf
<1>5. FilledOf(f)'
  <2>1. FilledOf(f)
    BY <1>2 DEF Inv, Filled
  <2> QED
    BY <1>2, <2>1 DEF FilledOf
<1>6. wrote'[p] \subseteq Touched(p)'
  <2>1. wrote[p] \subseteq Touched(p)
    BY <1>1 DEF Inv, Within, WithinOf
  <2>2. bn \in Span(p) /\ loc[p].part # << >>
    BY <1>1, BnIs DEF Inv, Progress, ProgressOf
  <2>3. Span(p)' = Span(p)
    BY SpanSame
  <2>4. /\ BitmapBlock \in Touched(p)' /\ addrs'[f][NDIRECT] \in Touched(p)'
        /\ \A d \in Span(p) : Lookup(f, d)' \in Touched(p)'
    BY <2>3 DEF Touched
  <2>5. Touched(p) \subseteq Touched(p)'
    <3> SUFFICES ASSUME NEW x \in Touched(p) PROVE x \in Touched(p)'
      OBVIOUS
    <3>1. CASE x = 0
      BY <2>4, <3>1 DEF BitmapBlock
    <3>2. CASE x # 0 /\ x = addrs[f][NDIRECT]
      BY <2>4, <3>2
    <3>3. CASE x # 0 /\ x \in {Lookup(f, d) : d \in Span(p)}
      <4>1. PICK d \in Span(p) : x = Lookup(f, d)
        BY <3>3
      <4>2. d \in FileBlock
        BY DEF Span
      <4>3. Lookup(f, d)' = x
        BY <3>3, <4>1, <4>2
      <4> QED
        BY <2>4, <4>3
    <3> QED
      BY <3>1, <3>2, <3>3 DEF Touched, BitmapBlock
  <2>6. b \in Touched(p)'
    BY <2>2, <2>4
  <2> QED
    BY <2>1, <2>4, <2>5, <2>6
<1>7. Locks' /\ Progress' /\ Filled' /\ Within'
  BY <1>1, <1>4, <1>5, <1>6, WriteFrame
<1> QED
  BY <1>3, <1>7 DEF Inv

\* A block of zeroes.
LEMMA ZeroesIs == Zeroes \in Blocks /\ \A k \in Word : Zeroes[k] = 0
  BY DEF Zeroes, Blocks, Word

\* bmap takes the block.
LEMMA BmapTakeStep ==
  ASSUME Inv, NEW p \in Proc, BmapTake(p)
  PROVE  Inv'
<1>0. PICK f, b, bn, ind, fresh :
        /\ f = loc[p].ip /\ b = loc[p].nb /\ bn = Bn(p) /\ ind = addrs[f][NDIRECT]
        /\ fresh = [block EXCEPT ![b] = Zeroes]
  OBVIOUS
<1>1. /\ pc[p] = "bzero" /\ Goto(p, "writei", NbOf(loc[p], 0))
      /\ UNCHANGED <<bitmap, size, off, lock>>
  BY <1>0 DEF BmapTake, NbOf
<1>2. \/ /\ bn < NDIRECT \/ ind = 0
         /\ addrs' = [addrs EXCEPT ![f][Min({bn, NDIRECT})] = b]
         /\ block' = fresh /\ LogWrite(p, {b})
      \/ /\ ~(bn < NDIRECT) /\ ind # 0 /\ addrs' = addrs
         /\ block' = [fresh EXCEPT ![ind][bn - NDIRECT] = b] /\ LogWrite(p, {b, ind})
  BY <1>0 DEF BmapTake, Zeroed
<1>3. pc[p] \in Writing /\ pc[p] \in Inside /\ loc[p].part # << >>
  BY <1>1 DEF Writing, Inside, Inv, Progress, ProgressOf
<1>4. f \in Inum /\ ~Truncating(f) /\ Finished(f) = 0 /\ lock[f] = p
  BY <1>0, <1>1, <1>3, Holder
<1>5. bn \in FileBlock /\ Lookup(f, bn) = 0
  BY <1>0, <1>1, <1>3, BnIs DEF Inv, Progress, ProgressOf
<1>6. b \in Blk /\ b # 0
  BY <1>0, <1>1, LocalsAt DEF Inv, Locks
<1>7. ind \in Blk \cup {0}
  BY <1>0, <1>4, InodeAt DEF Inv
<1>8. \A i \in Inum : addrs[i][NDIRECT] # 0 => addrs[i][NDIRECT] \in Blk /\ addrs[i][NDIRECT] # b
  BY <1>0, IndAlone
<1>9. \A i \in Inum : i # f /\ addrs[i][NDIRECT] # 0 => addrs[i][NDIRECT] # ind
  BY <1>0, <1>4, IndAlone
<1>loc. PICK l \in Locals : l = loc[p]
  BY DEF Inv, Types
<1>10. PICK r : l = loc[p] /\ r = NbOf(l, 0)
  BY <1>loc
<1>11. r \in Locals /\ r.ip = l.ip /\ r.from = l.from /\ r.at = l.at /\ r.part = l.part /\ r.nb = 0
  <2>1. r = NbOf(l, 0) /\ 0 \in Blk \cup {0}
    BY <1>10
  <2> QED
    BY ONLY <2>1, l \in Locals, NbLocals
<1>12. Goto(p, "writei", r) /\ "writei" \in Label /\ Types
  BY <1>1, <1>10 DEF Inv, Label, Inside
<1>13. /\ pc' \in [Proc -> Label] /\ loc' \in [Proc -> Locals] /\ pc'[p] = "writei" /\ loc'[p] = r
       /\ \A q \in Proc : q # p => pc'[q] = pc[q] /\ loc'[q] = loc[q]
  BY <1>11, <1>12, GotoIs
<1>14. /\ loc'[p].ip = f /\ loc'[p].from = loc[p].from /\ loc'[p].at = loc[p].at
       /\ loc'[p].part = loc[p].part /\ loc'[p].nb = 0
  BY <1>0, <1>10, <1>11, <1>13
<1>15. ~Truncating(f)' /\ Finished(f)' = 0
  <2>1. lock'[f] = p /\ pc'[p] # "itrunc"
    BY <1>1, <1>4, <1>13
  <2> QED
    BY <1>4, <2>1, HolderNext
<1>16. /\ fresh \in [Blk -> Blocks] /\ (\A d \in Blk : d # b => fresh[d] = block[d])
       /\ fresh[b] = Zeroes /\ block \in [Blk -> Blocks]
  <2>1. block \in [Blk -> Blocks]
    BY DEF Inv, Types
  <2> QED
    BY <1>0, <1>6, <2>1, ZeroesIs
<1>17. ASSUME NEW S, LogWrite(p, S)
       PROVE  wrote' = [q \in Proc |-> wrote'[q]] /\ wrote'[p] = wrote[p] \cup S /\ Alone(p)
  BY <1>13, <1>17, LogWriteIs DEF Alone, Inv
<1>18. bn \in Nat /\ bn < NDIRECT + NINDIRECT /\ (~(bn < NDIRECT) => bn - NDIRECT \in Word)
  BY <1>5, Constants DEF FileBlock, Word
\* The block goes into the inode.
<1>19. ASSUME NEW s \in 0..NDIRECT, addrs' = [addrs EXCEPT ![f][s] = b], block' = fresh, LogWrite(p, {b})
       PROVE  /\ Types' /\ Alone(p) /\ wrote'[p] = wrote[p] \cup {b}
              /\ (\A i \in Inum : i # f => SameBlocks(i))
              /\ \A k \in 0..NDIRECT : addrs'[f][k] = IF k = s THEN b ELSE addrs[f][k]
  <2>1. addrs \in [Inum -> Addrs] /\ addrs[f] \in Addrs
    BY <1>4 DEF Inv, Types
  <2>2. [addrs[f] EXCEPT ![s] = b] \in Addrs
    BY <1>6, <2>1 DEF Addrs
  <2>3. addrs' = [addrs EXCEPT ![f] = [addrs[f] EXCEPT ![s] = b]]
    BY <1>19
  <2>4. (\A i \in Inum : i # f => addrs'[i] = addrs[i]) /\ addrs'[f] = [addrs[f] EXCEPT ![s] = b]
    BY <1>4, <2>1, <2>3
  <2>5. \A k \in 0..NDIRECT : addrs'[f][k] = IF k = s THEN b ELSE addrs[f][k]
    BY <2>1, <2>4 DEF Addrs
  <2>6. addrs' \in [Inum -> Addrs]
    BY <2>1, <2>2, <2>3
  <2>7. Types'
    BY <1>1, <1>13, <1>16, <1>17, <1>19, <2>6 DEF Inv, Types
  <2>8. \A i \in Inum : i # f => SameBlocks(i)
    BY <1>8, <1>16, <1>19, <2>4 DEF SameBlocks
  <2> QED
    BY <1>17, <1>19, <2>5, <2>7, <2>8
<1>20. CASE bn < NDIRECT
  <2>1. bn \in 0..NDIRECT /\ bn \in Slot /\ bn # NDIRECT /\ Min({bn, NDIRECT}) = bn /\ NDIRECT \in 0..NDIRECT
    BY <1>18, <1>20, MinMax, Constants DEF Slot
  <2>2. addrs' = [addrs EXCEPT ![f][bn] = b] /\ block' = fresh /\ LogWrite(p, {b})
    BY <1>2, <1>20, <2>1
  <2>3. /\ Types' /\ Alone(p) /\ wrote'[p] = wrote[p] \cup {b}
        /\ (\A i \in Inum : i # f => SameBlocks(i))
        /\ \A k \in 0..NDIRECT : addrs'[f][k] = IF k = bn THEN b ELSE addrs[f][k]
    BY <1>19, <2>1, <2>2
  <2>4. addrs'[f][NDIRECT] = addrs[f][NDIRECT] /\ (ind # 0 => block'[ind] = block[ind])
    BY <1>0, <1>4, <1>8, <1>16, <2>1, <2>2, <2>3
  <2>5. Pointer(f, bn) = 0 /\ Pointer(f, bn)' = b
    BY <1>5, <1>18, <1>20, <2>1, <2>3, Constants DEF Pointer, Lookup
  <2>6. \A k \in Slot : k # bn => Pointer(f, k)' = Pointer(f, k)
    <3>1. \A k \in Slot : k <= NDIRECT => k \in 0..NDIRECT
      BY Constants DEF Slot
    <3> QED
      BY <1>0, <1>4, <1>15, <2>3, <2>4, <3>1 DEF Pointer
  <2>7. \A d \in FileBlock : d < NDIRECT => d \in 0..NDIRECT
    BY Constants DEF FileBlock
  <2>8. \A d \in FileBlock : Lookup(f, d) # 0 => Lookup(f, d)' = Lookup(f, d)
    BY <1>0, <1>5, <2>3, <2>4, <2>7 DEF Lookup
  <2>9. b = Lookup(f, bn)'
    BY <1>20, <2>1, <2>3 DEF Lookup
  <2>10. wrote'[p] \subseteq wrote[p] \cup {b, addrs'[f][NDIRECT]}
    BY <2>3
  <2>11. PICK s \in Slot : s = bn
    BY <2>1
  <2>12. Pointer(f, s) = 0 /\ Pointer(f, s)' = b /\ \A k \in Slot : k # s => Pointer(f, k)' = Pointer(f, k)
    BY <2>5, <2>6, <2>11
  <2>13. f = loc[p].ip /\ b = loc[p].nb /\ bn = Bn(p) /\ lock' = lock /\ size' = size /\ bitmap' = bitmap
    BY <1>0, <1>1
  <2> QED
    BY ONLY Inv, p \in Proc, s \in Slot, <1>1, <1>13, <1>14, <2>3, <2>4, <2>8, <2>9, <2>10, <2>12, <2>13, TakeFrame
<1>21. CASE ~(bn < NDIRECT) /\ ind = 0
  <2>1. NDIRECT \in 0..NDIRECT /\ NDIRECT \in Slot /\ Min({bn, NDIRECT}) = NDIRECT
    BY <1>18, <1>21, MinMax, Constants DEF Slot
  <2>2. addrs' = [addrs EXCEPT ![f][NDIRECT] = b] /\ block' = fresh /\ LogWrite(p, {b})
    BY <1>2, <1>21, <2>1
  <2>3. /\ Types' /\ Alone(p) /\ wrote'[p] = wrote[p] \cup {b}
        /\ (\A i \in Inum : i # f => SameBlocks(i))
        /\ \A k \in 0..NDIRECT : addrs'[f][k] = IF k = NDIRECT THEN b ELSE addrs[f][k]
    BY <1>19, <2>1, <2>2
  <2>4. addrs'[f][NDIRECT] = b /\ block'[b] = Zeroes /\ addrs[f][NDIRECT] = 0
    BY <1>0, <1>16, <1>21, <2>1, <2>2, <2>3
  <2>5. Pointer(f, NDIRECT) = 0 /\ Pointer(f, NDIRECT)' = b
    BY <2>1, <2>4, Constants DEF Pointer
  <2>6. \A k \in Slot : k # NDIRECT => Pointer(f, k)' = Pointer(f, k)
    <3>1. \A k \in Slot : k <= NDIRECT => k \in 0..NDIRECT
      BY Constants DEF Slot
    <3>2. \A k \in Slot : ~(k <= NDIRECT) => k - NDIRECT - 1 \in Word
      BY Constants DEF Slot, Word
    <3> QED
      BY <2>3, <2>4, <3>1, <3>2, ZeroesIs DEF Pointer
  <2>7. \A d \in FileBlock : d < NDIRECT => d \in 0..NDIRECT /\ d # NDIRECT
    BY Constants DEF FileBlock
  <2>8. \A d \in FileBlock : Lookup(f, d) # 0 => Lookup(f, d)' = Lookup(f, d)
    BY <2>3, <2>4, <2>7 DEF Lookup
  <2>9. wrote'[p] \subseteq wrote[p] \cup {b, addrs'[f][NDIRECT]}
    BY <2>3
  <2> QED
    BY <1>0, <1>1, <1>13, <1>14, <2>1, <2>3, <2>4, <2>5, <2>6, <2>8, <2>9, TakeFrame
<1>22. CASE ~(bn < NDIRECT) /\ ind # 0
  <2>1. /\ addrs' = addrs /\ LogWrite(p, {b, ind}) /\ block' = [fresh EXCEPT ![ind][bn - NDIRECT] = b]
        /\ ind \in Blk /\ ind # b /\ bn - NDIRECT \in Word
    BY <1>0, <1>2, <1>4, <1>8, <1>18, <1>22
  <2>2. PICK w : w = bn - NDIRECT
    OBVIOUS
  <2>3. w \in Word /\ block[ind] \in Blocks /\ fresh[ind] = block[ind] /\ b \in Nat
    BY <1>6, <1>16, <2>1, <2>2, Constants
  <2>4. [block[ind] EXCEPT ![w] = b] \in Blocks
    BY <2>3 DEF Blocks
  <2>5. block' = [fresh EXCEPT ![ind] = [block[ind] EXCEPT ![w] = b]]
    BY <2>1, <2>2, <2>3
  <2>6. /\ block' \in [Blk -> Blocks] /\ block'[ind] = [block[ind] EXCEPT ![w] = b]
        /\ \A d \in Blk : d # b /\ d # ind => block'[d] = block[d]
    BY <1>16, <2>1, <2>4, <2>5
  <2>7. \A k \in Word : block'[ind][k] = IF k = w THEN b ELSE block[ind][k]
    BY <2>3, <2>6 DEF Blocks
  <2>8. wrote' = [q \in Proc |-> wrote'[q]] /\ wrote'[p] = wrote[p] \cup {b, ind} /\ Alone(p)
    BY <1>17, <2>1
  <2>9. Types'
    BY <1>1, <1>13, <2>1, <2>6, <2>8 DEF Inv, Types
  <2>10. \A i \in Inum : i # f => SameBlocks(i)
    BY <1>8, <1>9, <2>1, <2>6 DEF SameBlocks
  <2>11. addrs'[f][NDIRECT] = addrs[f][NDIRECT] /\ addrs[f][NDIRECT] = ind /\ ind # 0
    BY <1>0, <1>22, <2>1
  <2>12. bn + 1 \in Slot /\ ~(bn + 1 <= NDIRECT) /\ (bn + 1) - NDIRECT - 1 = w /\ ~(w < 0)
    BY <1>18, <1>22, <2>2, Constants DEF Slot
  <2>13. Pointer(f, bn + 1) = 0 /\ Pointer(f, bn + 1)' = b
    <3>1. block[ind][w] = 0
      BY <1>5, <1>22, <2>2, <2>11 DEF Lookup
    <3> QED
      BY <1>4, <1>15, <2>3, <2>7, <2>11, <2>12, <3>1 DEF Pointer
  <2>14. \A k \in Slot : k # bn + 1 => Pointer(f, k)' = Pointer(f, k)
    <3>1. \A k \in Slot : ~(k <= NDIRECT) /\ k # bn + 1 => k - NDIRECT - 1 \in Word /\ k - NDIRECT - 1 # w
      BY <1>18, <2>2, Constants DEF Slot, Word
    <3>2. \A k \in Slot : ~(k <= NDIRECT) /\ k # bn + 1
            => block'[ind][k - NDIRECT - 1] = block[ind][k - NDIRECT - 1]
      BY <2>7, <3>1
    <3>3. addrs'[f] = addrs[f]
      BY <2>1
    <3> QED
      BY <1>4, <1>15, <2>11, <3>2, <3>3 DEF Pointer
  <2>15. \A d \in FileBlock : ~(d < NDIRECT) => d - NDIRECT \in Word
    BY Constants DEF FileBlock, Word
  <2>16. \A d \in FileBlock : Lookup(f, d) # 0 => Lookup(f, d)' = Lookup(f, d)
    <3>1. block[ind][w] = 0
      BY <1>5, <1>22, <2>2, <2>11 DEF Lookup
    <3>2. addrs'[f] = addrs[f]
      BY <2>1
    <3> QED
      BY <2>7, <2>11, <2>15, <3>1, <3>2 DEF Lookup
  <2>17. b = Lookup(f, bn)'
    BY <1>22, <2>2, <2>3, <2>7, <2>11 DEF Lookup
  <2>18. wrote'[p] \subseteq wrote[p] \cup {b, addrs'[f][NDIRECT]}
    BY <2>8, <2>11
  <2>19. PICK s \in Slot : s = bn + 1
    BY <2>12
  <2>20. Pointer(f, s) = 0 /\ Pointer(f, s)' = b /\ \A k \in Slot : k # s => Pointer(f, k)' = Pointer(f, k)
    BY <2>13, <2>14, <2>19
  <2>21. f = loc[p].ip /\ b = loc[p].nb /\ bn = Bn(p) /\ lock' = lock /\ size' = size /\ bitmap' = bitmap
    BY <1>0, <1>1
  <2> QED
    BY ONLY Inv, p \in Proc, s \in Slot, <1>1, <1>13, <1>14, <2>8, <2>9, <2>10, <2>11, <2>16, <2>17, <2>18,
            <2>20, <2>21, TakeFrame
<1> QED
  BY <1>20, <1>21, <1>22

-----------------------------------------------------------------------------
(* The invariant *)

LEMMA InitInv ==
  ASSUME Init
  PROVE  Inv
<1>1. NoLocals \in Locals /\ NoLocals.ip = Nobody /\ NoLocals.todo = << >> /\ NoLocals.nb = 0
  BY UserLocals
<1>2. /\ bitmap = {} /\ pc = [p \in Proc |-> "user"] /\ loc = [p \in Proc |-> NoLocals]
      /\ wrote = [p \in Proc |-> {}] /\ lock = [i \in Inum |-> Nobody] /\ size = [i \in Inum |-> 0]
      /\ addrs = [i \in Inum |-> [k \in 0..NDIRECT |-> 0]] /\ off = [i \in Inum |-> 0]
      /\ block = [b \in Blk |-> [k \in 0..(BSIZE - 1) |-> 1]]
  BY DEF Init
<1>3. Types
  <2>1. [k \in 0..(BSIZE - 1) |-> 1] \in Blocks
    BY DEF Blocks, Word
  <2>2. block \in [Blk -> Blocks]
    BY <1>2, <2>1
  <2>3. [k \in 0..NDIRECT |-> 0] \in Addrs
    BY DEF Addrs
  <2>4. addrs \in [Inum -> Addrs]
    BY <1>2, <2>3
  <2>5. loc \in [Proc -> Locals]
    BY <1>1, <1>2
  <2>6. pc \in [Proc -> Label]
    BY <1>2 DEF Label
  <2> QED
    BY <1>2, <2>2, <2>4, <2>5, <2>6 DEF Types
<1>4. \A p \in Proc : /\ pc[p] = "user" /\ loc[p] = NoLocals /\ wrote[p] = {}
                      /\ loc[p].nb = 0 /\ pc[p] \notin Inside /\ pc[p] \notin Writing
  BY <1>1, <1>2 DEF Inside, Writing
<1>5. Locks
  BY <1>2, <1>4 DEF Locks
<1>6. Progress
  BY <1>4 DEF Progress, ProgressOf, Writing
<1>7. \A i \in Inum : \A k \in 0..NDIRECT : addrs[i][k] = 0
  BY <1>2
<1>8. \A i \in Inum, k \in Slot : Pointer(i, k) = 0
  <2>1. NDIRECT \in 0..NDIRECT /\ \A k \in Slot : k <= NDIRECT => k \in 0..NDIRECT
    BY Constants DEF Slot
  <2> QED
    BY <1>7, <2>1 DEF Pointer
<1>9. Placed
  BY <1>2, <1>4, <1>8 DEF Placed
<1>10. Filled
  <2> SUFFICES ASSUME NEW i \in Inum PROVE FilledOf(i)
    BY DEF Filled
  <2>1. lock[i] = Nobody /\ size[i] = 0
    BY <1>2
  <2>2. Upto(i) = 0
    BY <2>1, FreeNow
  <2>3. \A bn \in FileBlock : bn * BSIZE \in Nat
    BY Constants, MulLess DEF FileBlock
  <2>4. MAXFILE * BSIZE \in Nat
    BY Constants, MulLess
  <2> QED
    BY <2>2, <2>3, <2>4 DEF FilledOf
<1>11. Within
  BY <1>4 DEF Within, WithinOf, Writing
<1> QED
  BY <1>3, <1>5, <1>6, <1>9, <1>10, <1>11 DEF Inv

LEMMA StutterInv ==
  ASSUME Inv, UNCHANGED vars
  PROVE  Inv'
<1>1. UNCHANGED <<bitmap, block, addrs, size, off, lock, pc, loc, wrote>>
  BY DEF vars, inodes
<1>2. Types' /\ Locks'
  BY <1>1 DEF Inv, Types, Locks
<1>3. \A i \in Inum : (Truncating(i)' <=> Truncating(i)) /\ Upto(i)' = Upto(i)
  BY <1>1 DEF Truncating, Upto
<1>4. \A i \in Inum : Finished(i)' = Finished(i)
  BY <1>1, <1>3 DEF Finished
<1>5. \A i, bn : Lookup(i, bn)' = Lookup(i, bn)
  BY <1>1 DEF Lookup
<1>6. \A i \in Inum, k \in Slot : Pointer(i, k)' = Pointer(i, k)
  BY <1>1, <1>4 DEF Pointer
<1>7. Placed'
  BY <1>1, <1>6, PlacedSame DEF Inv
<1>8. \A p \in Proc : Bn(p)' = Bn(p) /\ Span(p)' = Span(p)
  BY <1>1 DEF Bn, Span
<1>9. \A p \in Proc : Touched(p)' = Touched(p)
  BY <1>1, <1>5, <1>8 DEF Touched
<1>10. Progress'
  BY <1>1, <1>5, <1>8 DEF Progress, ProgressOf, Inv
<1>11. Within'
  BY <1>1, <1>9 DEF Within, WithinOf, Inv
<1>12. Filled'
  BY <1>3, <1>5 DEF Filled, FilledOf, Inv
<1> QED
  BY <1>2, <1>7, <1>10, <1>11, <1>12 DEF Inv

\* Every step keeps the invariant.
LEMMA NextInv ==
  ASSUME Inv, [Next]_vars
  PROVE  Inv'
<1>1. CASE UNCHANGED vars
  BY <1>1, StutterInv
<1>2. CASE Next
  <2>1. PICK p \in Proc :
          \/ WriteBegin(p) \/ WriteFail(p) \/ WriteEnd(p) \/ EndOp(p)
          \/ Balloc(p) \/ BmapTake(p) \/ Copy(p)
          \/ TruncDirect(p) \/ TruncEntry(p) \/ TruncIndirect(p) \/ TruncEnd(p)
          \/ \E w \in Writes : FileWrite(p, w[1], w[2]) \/ OverwriteFile(p, w[1], w[2])
          \/ \E i \in Inum :
               \/ \E n \in Counts : FileRead(p, i, n)
               \/ \E o \in Seeks : FileSeek(p, i, o)
               \/ IputLast(p, i)
    BY <1>2 DEF Next
  <2>2. CASE \E w \in Writes : FileWrite(p, w[1], w[2]) \/ OverwriteFile(p, w[1], w[2])
    BY <2>2, WritesAre, StartStep
  <2>3. CASE \E i \in Inum : (\E n \in Counts : FileRead(p, i, n)) \/ (\E o \in Seeks : FileSeek(p, i, o))
    BY <2>3, OffsetStep
  <2>4. CASE \E i \in Inum : IputLast(p, i)
    BY <2>4, IputLastStep
  <2> QED
    BY <2>1, <2>2, <2>3, <2>4, WriteBeginStep, WriteFailStep, WriteEndStep, EndOpStep, BallocStep,
       BmapTakeStep, CopyStep, TruncDirectStep, TruncEntryStep, TruncIndirectStep, TruncEndStep
<1> QED
  BY <1>1, <1>2

\* Only the holder of its lock writes to a file.
LEMMA ExtentIs ==
  ASSUME Inv, NEW i \in Inum
  PROVE  Extent(i) = Upto(i) /\ Upto(i) \in Nat
<1>1. size[i] \in Nat /\ lock[i] \in Proc \cup {Nobody} /\ Nobody \notin Proc
  BY InodeAt, Constants DEF Inv
<1>2. CASE lock[i] # Nobody /\ pc[lock[i]] \in Writing
  <2>1. Writer(i) = {lock[i]} /\ loc[lock[i]].at \in Nat
    BY <1>1, <1>2, LocalsAt DEF Writer, Writing, Inv
  <2>2. {size[i]} \cup {loc[p].at : p \in Writer(i)} = {size[i], loc[lock[i]].at}
    BY <2>1
  <2>3. Extent(i) = IF size[i] >= loc[lock[i]].at THEN size[i] ELSE loc[lock[i]].at
    BY <1>1, <2>1, <2>2, MinMax DEF Extent
  <2> QED
    BY <1>1, <1>2, <2>1, <2>3 DEF Upto
<1>3. CASE ~(lock[i] # Nobody /\ pc[lock[i]] \in Writing)
  <2>1. Writer(i) = {}
    BY <1>1, <1>3 DEF Writer, Writing
  <2>2. {size[i]} \cup {loc[p].at : p \in Writer(i)} = {size[i], size[i]}
    BY <2>1
  <2>3. Extent(i) = size[i]
    BY <1>1, <2>2, MinMax DEF Extent
  <2> QED
    BY <1>1, <1>3, <2>3 DEF Upto
<1> QED
  BY <1>2, <1>3

\* Every byte of a file has its block.
LEMMA ByteIs ==
  ASSUME Inv, NEW i \in Inum, ~Truncating(i), NEW k \in 0..(Upto(i) - 1)
  PROVE  /\ k \in Nat /\ k \div BSIZE \in FileBlock /\ k % BSIZE \in Word
         /\ Lookup(i, k \div BSIZE) # 0
<1>1. Upto(i) \in Nat
  BY ExtentIs
<1>2. k \in Nat /\ k < Upto(i)
  BY <1>1
<1>3. Upto(i) <= MAXFILE * BSIZE /\ \A bn \in FileBlock : bn * BSIZE < Upto(i) => Lookup(i, bn) # 0
  BY DEF Inv, Filled, FilledOf
<1> DEFINE q == k \div BSIZE
           z == MAXFILE * BSIZE
           y == q * BSIZE
<1>4. z \in Nat /\ Upto(i) <= z
  BY <1>3, Constants, MulLess
<1>5. k < z
  <2> HIDE DEF z
  <2> QED
    BY <1>1, <1>2, <1>4
<1>6. q \in FileBlock /\ k % BSIZE \in Word /\ y <= k /\ q \in Nat
  BY <1>2, <1>5, BlockOf
<1>7. y \in Nat
  BY <1>6, Constants, MulLess
<1>8. y < Upto(i)
  <2> HIDE DEF y
  <2> QED
    BY <1>1, <1>2, <1>6, <1>7
<1> QED
  BY <1>2, <1>3, <1>6, <1>8

LEMMA InvExact ==
  ASSUME Inv
  PROVE  BlocksExact
<1>1. Placed
  BY DEF Inv
<1>2. \A i \in Inum : ~Truncating(i) => \A k \in 0..(Extent(i) - 1) : Lookup(i, k \div BSIZE) # 0
  BY ExtentIs, ByteIs
<1> QED
  BY <1>1, <1>2 DEF BlocksExact, Placed

LEMMA InvFits ==
  ASSUME Inv
  PROVE  OpFits
<1> SUFFICES ASSUME NEW p \in Proc PROVE Cardinality(wrote[p]) <= MAXOPBLOCKS
  BY DEF OpFits
<1>1. WithinOf(p) /\ pc[p] \in Label
  BY DEF Inv, Within, Types
<1>2. IsFiniteSet({}) /\ Cardinality({}) <= 0
  BY FS_EmptySet
<1>3. CASE pc[p] \in {"user", "begin"}
  BY <1>1, <1>3, FS_EmptySet, Constants DEF WithinOf
<1>4. CASE pc[p] \in Writing
  <2>1. wrote[p] \subseteq Touched(p)
    BY <1>1, <1>4 DEF WithinOf
  <2>2. IsFiniteSet(Touched(p)) /\ Cardinality(Touched(p)) <= MAXOPBLOCKS - 1 /\ MAXOPBLOCKS - 1 \in Nat
    BY <1>4, TouchedIs, Constants
  <2>3. IsFiniteSet(wrote[p]) /\ Cardinality(wrote[p]) <= MAXOPBLOCKS - 1
    BY <2>1, <2>2, CardPart
  <2>4. Cardinality(wrote[p]) \in Nat
    BY <2>3, FS_CardinalityType
  <2> DEFINE c == Cardinality(wrote[p])
  <2>5. c \in Nat /\ c <= MAXOPBLOCKS - 1
    BY <2>3, <2>4
  <2> HIDE DEF c
  <2>6. c <= MAXOPBLOCKS
    BY <2>5, Constants
  <2> QED
    BY <2>6 DEF c
<1>5. CASE pc[p] = "itrunc"
  <2>1. wrote[p] \subseteq {BitmapBlock}
    BY <1>1, <1>5 DEF WithinOf
  <2>2. IsFiniteSet({} \cup {BitmapBlock}) /\ Cardinality({} \cup {BitmapBlock}) <= 0 + 1
    BY <1>2, CardAdd
  <2>3. IsFiniteSet(wrote[p]) /\ Cardinality(wrote[p]) <= 1
    BY <2>1, <2>2, CardPart
  <2>4. Cardinality(wrote[p]) \in Nat
    BY <2>3, FS_CardinalityType
  <2> DEFINE c == Cardinality(wrote[p])
  <2>5. c \in Nat /\ c <= 1
    BY <2>3, <2>4
  <2> HIDE DEF c
  <2>6. c <= MAXOPBLOCKS
    BY <2>5, Constants
  <2> QED
    BY <2>6 DEF c
<1>6. CASE pc[p] = "end_op"
  BY <1>1, <1>6 DEF WithinOf
<1> QED
  BY <1>1, <1>3, <1>4, <1>5, <1>6 DEF Label, Inside, Writing

LEMMA InvHolds == Spec => []Inv
  BY InitInv, NextInv, PTL DEF Spec

\* However processes write, extend and remove files, the bit map marks the
\* blocks that bmap gave them, each once, until bfree takes them back.
THEOREM BlocksExactHolds == Spec => []BlocksExact
  BY InvHolds, InvExact, PTL

\* A part of a write is small enough for the transaction it is in (filewrite).
THEOREM OpFitsHolds == Spec => []OpFits
  BY InvHolds, InvFits, PTL

-----------------------------------------------------------------------------
(* Contents *)

ContentAt(i) == IF Truncating(i) THEN << >> ELSE Bytes(i, 0, Extent(i))

\* Byte k of file i.
ByteAt(i, k) == block[Lookup(i, k \div BSIZE)][k % BSIZE]

LEMMA ContentIs ==
  ASSUME NEW i \in Inum, ~Truncating(i), Extent(i) = Upto(i), Upto(i) \in Nat
  PROVE  ContentAt(i) = [k \in 1..Upto(i) |-> ByteAt(i, k - 1)]
<1>1. \A k \in 1..Upto(i) : 0 + k - 1 = k - 1
  OBVIOUS
<1>2. Upto(i) - 0 = Upto(i)
  OBVIOUS
<1> QED
  BY <1>1, <1>2 DEF ContentAt, Bytes, ByteAt

LEMMA ContentNext ==
  ASSUME NEW i \in Inum, ~Truncating(i)', Extent(i)' = Upto(i)', Upto(i)' \in Nat
  PROVE  ContentAt(i)' = [k \in 1..Upto(i)' |-> ByteAt(i, k - 1)']
<1>1. \A k \in 1..Upto(i)' : 0 + k - 1 = k - 1
  OBVIOUS
<1>2. Upto(i)' - 0 = Upto(i)'
  OBVIOUS
<1> QED
  BY <1>1, <1>2 DEF ContentAt, Bytes, ByteAt

LEMMA ExtentAll == Inv => \A i \in Inum : Extent(i) = Upto(i) /\ Upto(i) \in Nat
  BY ExtentIs

LEMMA ExtentNext == Inv' => (\A i \in Inum : Extent(i) = Upto(i) /\ Upto(i) \in Nat)'
  BY ExtentAll, PTL

\* The blocks of data of file i stay, and what they hold.
SameData(i) ==
  \A bn \in FileBlock : Lookup(i, bn) # 0 =>
    Lookup(i, bn)' = Lookup(i, bn) /\ block'[Lookup(i, bn)] = block[Lookup(i, bn)]

LEMMA ContentKeep ==
  ASSUME Inv, Inv', NEW i \in Inum, Truncating(i)' <=> Truncating(i), Upto(i)' = Upto(i),
         ~Truncating(i) => SameData(i)
  PROVE  ContentAt(i)' = ContentAt(i)
<1>1. CASE Truncating(i)
  BY <1>1 DEF ContentAt
<1>2. CASE ~Truncating(i)
  <2>1. Extent(i) = Upto(i) /\ Upto(i) \in Nat /\ Extent(i)' = Upto(i)' /\ Upto(i)' \in Nat
    BY ExtentAll, ExtentNext
  <2>2. ASSUME NEW k \in 1..Upto(i) PROVE ByteAt(i, k - 1)' = ByteAt(i, k - 1)
    <3>1. k - 1 \in 0..(Upto(i) - 1)
      BY <2>1
    <3>2. (k - 1) \div BSIZE \in FileBlock /\ Lookup(i, (k - 1) \div BSIZE) # 0
      BY <1>2, <3>1, ByteIs
    <3>3. /\ Lookup(i, (k - 1) \div BSIZE)' = Lookup(i, (k - 1) \div BSIZE)
          /\ block'[Lookup(i, (k - 1) \div BSIZE)] = block[Lookup(i, (k - 1) \div BSIZE)]
      BY <1>2, <3>2 DEF SameData
    <3> QED
      BY <3>3 DEF ByteAt
  <2>3. ContentAt(i) = [k \in 1..Upto(i) |-> ByteAt(i, k - 1)]
    BY <1>2, <2>1, ContentIs
  <2>4. ContentAt(i)' = [k \in 1..Upto(i)' |-> ByteAt(i, k - 1)']
    BY <1>2, <2>1, ContentNext
  <2> QED
    BY <2>2, <2>3, <2>4
<1> QED
  BY <1>1, <1>2

\* The files that are not p's keep their contents.
LEMMA ContentOthers ==
  ASSUME Inv, Inv', NEW p \in Proc, Alone(p), NEW i \in Inum, lock[i] # p,
         lock'[i] = lock[i], size'[i] = size[i], ~Truncating(i) => SameData(i)
  PROVE  ContentAt(i)' = ContentAt(i)
  BY InsideSame, ContentKeep

\* A step that writes no block and no inode keeps the data.
LEMMA SameDataIs ==
  ASSUME NEW i \in Inum, addrs' = addrs, block' = block
  PROVE  SameData(i)
<1>1. SameBlocks(i)
  BY DEF SameBlocks
<1> QED
  BY <1>1, LookupSame DEF SameData

\* What each action does to the other processes.
LEMMA AloneIs ==
  ASSUME Inv, NEW p \in Proc,
         \/ WriteBegin(p) \/ WriteFail(p) \/ WriteEnd(p) \/ EndOp(p)
         \/ Balloc(p) \/ BmapTake(p) \/ Copy(p)
         \/ TruncDirect(p) \/ TruncEntry(p) \/ TruncIndirect(p) \/ TruncEnd(p)
         \/ \E i \in Inum : \E s : FileWrite(p, i, s) \/ OverwriteFile(p, i, s)
         \/ \E i \in Inum : \E n : FileRead(p, i, n) \/ FileSeek(p, i, n)
         \/ \E i \in Inum : IputLast(p, i)
  PROVE  Alone(p)
<1>1. \/ pc' = pc /\ loc' = loc
      \/ \E x, r : pc' = [pc EXCEPT ![p] = x] /\ loc' = [loc EXCEPT ![p] = r]
  BY DEF WriteBegin, WriteFail, WriteEnd, EndOp, Balloc, BmapTake, Copy, TruncDirect, TruncEntry,
         TruncIndirect, TruncEnd, FileWrite, OverwriteFile, FileRead, FileSeek, IputLast, Goto
<1>2. wrote' = wrote \/ \E S : wrote' = [wrote EXCEPT ![p] = S]
  BY DEF WriteBegin, WriteFail, WriteEnd, EndOp, Balloc, BmapTake, Copy, TruncDirect, TruncEntry,
         TruncIndirect, TruncEnd, FileWrite, OverwriteFile, FileRead, FileSeek, IputLast,
         LogWrite, iupdate, bfree
<1>3. pc \in [Proc -> Label] /\ loc \in [Proc -> Locals] /\ wrote = [q \in Proc |-> wrote[q]]
  BY DEF Inv, Types
<1>4. \A q \in Proc : q # p => pc'[q] = pc[q] /\ loc'[q] = loc[q]
  BY <1>1, <1>3
<1>5. \A q \in Proc : q # p => wrote'[q] = wrote[q]
  BY <1>2, <1>3
<1> QED
  BY <1>4, <1>5 DEF Alone

\* Steps outside of writei and itrunc.
LEMMA IdleKeeps ==
  ASSUME Inv, Inv', NEW p \in Proc,
         \/ WriteFail(p) \/ EndOp(p)
         \/ \E i \in Inum : \E s : FileWrite(p, i, s) \/ OverwriteFile(p, i, s)
         \/ \E i \in Inum : \E n : FileRead(p, i, n) \/ FileSeek(p, i, n)
  PROVE  \A i \in Inum : ContentAt(i)' = ContentAt(i)
<1>1. addrs' = addrs /\ block' = block /\ lock' = lock /\ size' = size
      /\ pc[p] \in {"user", "begin", "end_op"}
  BY DEF WriteFail, EndOp, FileWrite, OverwriteFile, FileRead, FileSeek, Call, inodes
<1>2. Alone(p)
  BY AloneIs
<1>3. pc[p] \notin Inside
  BY <1>1 DEF Inside
<1>4. \A i \in Inum : lock[i] # p
  BY <1>3, Outside
<1> QED
  BY <1>1, <1>2, <1>4, SameDataIs, ContentOthers

\* writei begins and ends, and a block is allocated: what there is of the file stays.
LEMMA WriteKeeps ==
  ASSUME Inv, Inv', NEW p \in Proc, WriteBegin(p) \/ WriteEnd(p) \/ Balloc(p)
  PROVE  \A i \in Inum : ContentAt(i)' = ContentAt(i)
<1>1. PICK f : f = loc[p].ip
  OBVIOUS
<1>2. Alone(p)
  BY AloneIs
<1>3. addrs' = addrs /\ block' = block
  BY DEF WriteBegin, WriteEnd, Balloc, inodes
<1>4. \A i \in Inum : SameData(i)
  BY <1>3, SameDataIs
<1>5. ASSUME f \in Inum, Truncating(f)' <=> Truncating(f), Upto(f)' = Upto(f),
             \A i \in Inum : i # f => lock'[i] = lock[i] /\ size'[i] = size[i] /\ lock[i] # p
      PROVE  \A i \in Inum : ContentAt(i)' = ContentAt(i)
  <2>1. ContentAt(f)' = ContentAt(f)
    BY <1>4, <1>5, ContentKeep
  <2>2. \A i \in Inum : i # f => ContentAt(i)' = ContentAt(i)
    BY <1>2, <1>4, <1>5, ContentOthers
  <2> QED
    BY <2>1, <2>2
<1>6. CASE WriteBegin(p)
  <2>1. /\ pc[p] = "begin" /\ lock[f] = Nobody /\ lock' = [lock EXCEPT ![f] = p] /\ size' = size
        /\ off[f] <= size[f]
        /\ pc' = [pc EXCEPT ![p] = "writei"]
        /\ loc' = [loc EXCEPT ![p] = BeginOf(loc[p], off[f], SubSeq(loc[p].todo, 1, Chunk(p)),
                                             SubSeq(loc[p].todo, Chunk(p) + 1, Len(loc[p].todo)))]
    BY <1>1, <1>6 DEF WriteBegin, Goto, BeginOf, Fits
  <2>2. f \in Inum /\ pc[p] \notin Inside
    BY <1>1, <2>1 DEF Inv, Locks, Inside
  <2>3. lock'[f] = p /\ pc'[p] = "writei" /\ size'[f] = size[f]
        /\ \A i \in Inum : i # f => lock'[i] = lock[i] /\ size'[i] = size[i]
    BY <2>1, <2>2 DEF Inv, Types
  <2>4. loc'[p].at = off[f]
    <3>1. PICK l, a, s, t : /\ l = loc[p] /\ a = off[f] /\ s = SubSeq(loc[p].todo, 1, Chunk(p))
                            /\ t = SubSeq(loc[p].todo, Chunk(p) + 1, Len(loc[p].todo))
      OBVIOUS
    <3>2. l \in Locals /\ loc'[p] = BeginOf(l, a, s, t)
      BY <2>1, <3>1 DEF Inv, Types
    <3>3. l = [ip |-> l.ip, todo |-> l.todo, part |-> l.part, from |-> l.from, at |-> l.at,
               nb |-> l.nb, j |-> l.j]
      BY <3>2, LocalsAre
    <3>4. PICK r : r = BeginOf(l, a, s, t)
      OBVIOUS
    <3>5. r = [ip |-> l.ip, todo |-> t, part |-> s, from |-> a, at |-> a, nb |-> l.nb, j |-> l.j]
      BY ONLY <3>3, <3>4 DEF BeginOf
    <3> QED
      BY <3>1, <3>2, <3>4, <3>5
  <2>5. \A i \in Inum : lock[i] # p
    BY <2>2, Outside
  <2>6. ~(loc'[p].at > size'[f])
    BY <2>1, <2>2, <2>3, <2>4, InodeAt DEF Inv
  <2>7. ~Truncating(f)' /\ Upto(f)' = size[f]
    BY <2>2, <2>3, <2>6, HolderNext
  <2>8. ~Truncating(f) /\ Upto(f) = size[f]
    BY <2>1, <2>2, FreeNow
  <2> QED
    BY <1>5, <2>2, <2>3, <2>5, <2>7, <2>8
<1>7. CASE WriteEnd(p)
  <2>1. /\ pc[p] = "writei" /\ size' = [size EXCEPT ![f] = Max({size[f], loc[p].at})]
        /\ lock' = [lock EXCEPT ![f] = Nobody]
    BY <1>1, <1>7 DEF WriteEnd
  <2>2. pc[p] \in Inside /\ pc[p] \in Writing
    BY <2>1 DEF Inside, Writing
  <2>3. f \in Inum /\ ~Truncating(f) /\ Upto(f) = (IF loc[p].at > size[f] THEN loc[p].at ELSE size[f])
        /\ \A i \in Inum : lock[i] = p => i = f
    BY <1>1, <2>1, <2>2, Holder
  <2>4. lock'[f] = Nobody /\ size'[f] = Max({size[f], loc[p].at})
        /\ \A i \in Inum : i # f => lock'[i] = lock[i] /\ size'[i] = size[i]
    BY <2>1, <2>3 DEF Inv, Types
  <2>5. size'[f] = Upto(f)
    <3>1. size[f] \in Nat /\ loc[p].at \in Nat
      BY <2>3, InodeAt, LocalsAt DEF Inv
    <3>2. PICK g \in Nat, h \in Nat : g = size[f] /\ h = loc[p].at
      BY <3>1
    <3>3. Max({g, h}) = IF g >= h THEN g ELSE h
      BY ONLY g \in Nat, h \in Nat, MinMax
    <3>4. size'[f] = IF h > g THEN h ELSE g
      <4>1. size'[f] = Max({g, h})
        BY <2>4, <3>2
      <4> QED
        BY ONLY <3>3, <4>1, g \in Nat, h \in Nat
    <3> QED
      BY <2>3, <3>2, <3>4
  <2>6. ~Truncating(f)' /\ Upto(f)' = size'[f]
    BY <2>3, <2>4, FreeNext
  <2> QED
    BY <1>5, <2>3, <2>4, <2>5, <2>6
<1>8. CASE Balloc(p)
  <2>1. /\ pc[p] = "writei" /\ size' = size /\ lock' = lock /\ pc' = [pc EXCEPT ![p] = "bzero"]
        /\ loc' = [loc EXCEPT ![p] = NbOf(loc[p], Min(Blk \ bitmap))]
    BY <1>8 DEF Balloc, Goto, inodes, NbOf
  <2>2. pc[p] \in Inside /\ pc[p] \in Writing /\ pc'[p] = "bzero" /\ pc'[p] \in Writing
    BY <2>1 DEF Inside, Writing, Inv, Types
  <2>3. f \in Inum /\ ~Truncating(f) /\ Upto(f) = (IF loc[p].at > size[f] THEN loc[p].at ELSE size[f])
        /\ lock[f] = p /\ \A i \in Inum : lock[i] = p => i = f
    BY <1>1, <2>1, <2>2, Holder
  <2>4. loc'[p].at = loc[p].at
    <3>1. PICK l, b : l = loc[p] /\ b = Min(Blk \ bitmap)
      OBVIOUS
    <3>2. l \in Locals /\ loc'[p] = NbOf(l, b)
      BY <2>1, <3>1 DEF Inv, Types
    <3>3. l = [ip |-> l.ip, todo |-> l.todo, part |-> l.part, from |-> l.from, at |-> l.at,
               nb |-> l.nb, j |-> l.j]
      BY <3>2, LocalsAre
    <3>4. PICK r : r = NbOf(l, b)
      OBVIOUS
    <3>5. r = [ip |-> l.ip, todo |-> l.todo, part |-> l.part, from |-> l.from, at |-> l.at,
               nb |-> b, j |-> l.j]
      BY ONLY <3>3, <3>4 DEF NbOf
    <3> QED
      BY <3>1, <3>2, <3>4, <3>5
  <2>5. lock'[f] = p /\ size'[f] = size[f] /\ \A i \in Inum : lock'[i] = lock[i] /\ size'[i] = size[i]
    BY <2>1, <2>3
  <2>6. ~Truncating(f)' /\ Upto(f)' = (IF loc'[p].at > size'[f] THEN loc'[p].at ELSE size'[f])
    BY <2>2, <2>3, <2>5, HolderNext
  <2> QED
    BY <1>5, <2>3, <2>4, <2>5, <2>6
<1> QED
  BY <1>6, <1>7, <1>8

\* bmap takes a block that holds no data yet.
LEMMA BmapTakeKeeps ==
  ASSUME Inv, Inv', NEW p \in Proc, BmapTake(p)
  PROVE  \A i \in Inum : ContentAt(i)' = ContentAt(i)
<1>0. PICK f, b, bn, ind, fresh :
        /\ f = loc[p].ip /\ b = loc[p].nb /\ bn = Bn(p) /\ ind = addrs[f][NDIRECT]
        /\ fresh = [block EXCEPT ![b] = Zeroes]
  OBVIOUS
<1>1. /\ pc[p] = "bzero" /\ Goto(p, "writei", NbOf(loc[p], 0))
      /\ UNCHANGED <<bitmap, size, off, lock>>
  BY <1>0 DEF BmapTake, NbOf
<1>2. \/ /\ bn < NDIRECT \/ ind = 0
         /\ addrs' = [addrs EXCEPT ![f][Min({bn, NDIRECT})] = b]
         /\ block' = fresh
      \/ /\ ~(bn < NDIRECT) /\ ind # 0 /\ addrs' = addrs
         /\ block' = [fresh EXCEPT ![ind][bn - NDIRECT] = b]
  BY <1>0 DEF BmapTake, Zeroed
<1>3. Alone(p)
  BY AloneIs
<1>4. pc[p] \in Writing /\ pc[p] \in Inside /\ loc[p].part # << >>
  BY <1>1 DEF Writing, Inside, Inv, Progress, ProgressOf
<1>5. /\ f \in Inum /\ ~Truncating(f) /\ lock[f] = p /\ (\A i \in Inum : lock[i] = p => i = f)
      /\ Upto(f) = (IF loc[p].at > size[f] THEN loc[p].at ELSE size[f])
  BY <1>0, <1>1, <1>4, Holder
<1>6. bn \in FileBlock /\ Lookup(f, bn) = 0
  BY <1>0, <1>1, <1>4, BnIs DEF Inv, Progress, ProgressOf
<1>7. b \in Blk /\ b # 0 /\ ind \in Blk \cup {0}
  BY <1>0, <1>1, <1>5, LocalsAt, InodeAt DEF Inv, Locks
<1>8. bn \in Nat /\ NDIRECT \in Nat /\ Min({bn, NDIRECT}) = IF bn < NDIRECT THEN bn ELSE NDIRECT
  <2>1. bn \in Nat /\ NDIRECT \in Nat
    BY <1>6, Constants DEF FileBlock
  <2> QED
    BY <2>1, MinMax
<1>9. block \in [Blk -> Blocks] /\ addrs \in [Inum -> Addrs]
  BY DEF Inv, Types
<1>10. \A d \in Blk : d # b /\ d # ind => block'[d] = block[d]
  <2>1. \A d \in Blk : d # b => fresh[d] = block[d]
    BY <1>0, <1>9
  <2>2. fresh \in [Blk -> Blocks]
    BY <1>0, <1>7, <1>9, ZeroesIs
  <2> QED
    BY <1>2, <2>1, <2>2
\* A block of data is neither the new one nor an indirect block.
<1>11. ASSUME NEW i \in Inum, ~Truncating(i), NEW d \in FileBlock, Lookup(i, d) # 0
       PROVE  /\ Lookup(i, d) \in Blk
              /\ block'[Lookup(i, d)] = block[Lookup(i, d)]
  <2>1. Lookup(i, d) \in Blk /\ Lookup(i, d) # ind /\ Lookup(i, d) # b
    BY <1>0, <1>5, <1>11, DataAlone
  <2> QED
    BY <1>10, <2>1
<1>12. ASSUME NEW i \in Inum, i # f PROVE SameBlocks(i)
  <2>1. addrs'[i] = addrs[i]
    BY <1>2, <1>9, <1>12
  <2>2. addrs[i][NDIRECT] # 0 =>
          addrs[i][NDIRECT] \in Blk /\ addrs[i][NDIRECT] # b /\ addrs[i][NDIRECT] # ind
    BY <1>0, <1>5, <1>12, IndAlone
  <2> QED
    BY <1>10, <2>1, <2>2 DEF SameBlocks
<1>13. ASSUME NEW i \in Inum, i # f, ~Truncating(i) PROVE SameData(i)
  BY <1>11, <1>12, <1>13, LookupSame DEF SameData
<1>14. ASSUME NEW d \in FileBlock, Lookup(f, d) # 0 PROVE Lookup(f, d)' = Lookup(f, d)
  <2>1. d # bn /\ d \in Nat
    BY <1>6, <1>14, Constants DEF FileBlock
  <2>2. addrs[f] \in [0..NDIRECT -> Blk \cup {0}] /\ NDIRECT \in 0..NDIRECT /\ (d < NDIRECT => d \in 0..NDIRECT)
    BY <1>5, <1>8, <1>9, <2>1 DEF Addrs
  <2>3. CASE bn < NDIRECT
    <3>1. addrs' = [addrs EXCEPT ![f][bn] = b] /\ block' = fresh
      BY <1>2, <1>8, <2>3
    <3>2. addrs' = [addrs EXCEPT ![f] = [addrs[f] EXCEPT ![bn] = b]]
      BY <3>1
    <3>3. addrs'[f] = [addrs[f] EXCEPT ![bn] = b]
      BY <1>5, <1>9, <3>2
    <3>4. \A k \in 0..NDIRECT : k # bn => addrs'[f][k] = addrs[f][k]
      BY <2>2, <3>3
    <3>5. ind # 0 => block'[ind] = block[ind]
      <4>1. ind # 0 => ind \in Blk /\ ind # b
        BY <1>0, <1>5, IndAlone
      <4> QED
        BY <1>0, <1>9, <3>1, <4>1
    <3>6. addrs'[f][NDIRECT] = ind
      BY <1>0, <1>8, <2>2, <2>3, <3>4
    <3> QED
      BY <1>0, <2>1, <2>2, <3>4, <3>5, <3>6 DEF Lookup
  <2>4. CASE ~(bn < NDIRECT) /\ ind = 0
    <3>1. addrs' = [addrs EXCEPT ![f][NDIRECT] = b]
      BY <1>2, <1>8, <2>4
    <3>2. addrs' = [addrs EXCEPT ![f] = [addrs[f] EXCEPT ![NDIRECT] = b]]
      BY <3>1
    <3>3. addrs'[f] = [addrs[f] EXCEPT ![NDIRECT] = b]
      BY <1>5, <1>9, <3>2
    <3>4. \A k \in 0..NDIRECT : k # NDIRECT => addrs'[f][k] = addrs[f][k]
      BY <2>2, <3>3
    <3>5. d < NDIRECT
      BY <1>0, <1>14, <2>4 DEF Lookup
    <3>6. addrs'[f][d] = addrs[f][d]
      BY <1>8, <2>1, <2>2, <3>4, <3>5
    <3> QED
      BY <3>5, <3>6 DEF Lookup
  <2>5. CASE ~(bn < NDIRECT) /\ ind # 0
    <3>1. addrs' = addrs /\ block' = [fresh EXCEPT ![ind][bn - NDIRECT] = b]
      BY <1>2, <2>5
    <3>2. ind \in Blk /\ ind # b
      BY <1>0, <1>5, <2>5, IndAlone
    <3>3. fresh \in [Blk -> Blocks] /\ fresh[ind] = block[ind] /\ block[ind] \in Blocks
      BY <1>0, <1>7, <1>9, <3>2, ZeroesIs
    <3>4. block' = [fresh EXCEPT ![ind] = [fresh[ind] EXCEPT ![bn - NDIRECT] = b]]
      BY <3>1
    <3>5. block'[ind] = [block[ind] EXCEPT ![bn - NDIRECT] = b]
      BY <3>2, <3>3, <3>4
    <3>6. ~(d < NDIRECT) => d - NDIRECT \in Word /\ d - NDIRECT # bn - NDIRECT
      BY <1>8, <2>1, Constants DEF Word, FileBlock
    <3>7. ~(d < NDIRECT) => block'[ind][d - NDIRECT] = block[ind][d - NDIRECT]
      BY <3>3, <3>5, <3>6 DEF Blocks
    <3> QED
      BY <1>0, <3>1, <3>7 DEF Lookup
  <2> QED
    BY <2>3, <2>4, <2>5
<1>15. SameData(f)
  BY <1>5, <1>11, <1>14 DEF SameData
<1>16. ~Truncating(f)' /\ Upto(f)' = Upto(f)
  <2>1. pc' = [pc EXCEPT ![p] = "writei"] /\ loc' = [loc EXCEPT ![p] = NbOf(loc[p], 0)]
    BY <1>1 DEF Goto
  <2>2. pc'[p] = "writei" /\ lock'[f] = p /\ size'[f] = size[f] /\ "writei" \in Writing
    BY <1>1, <1>5, <2>1 DEF Inv, Types, Writing
  <2>3. loc'[p].at = loc[p].at
    <3>1. PICK l, r : l = loc[p] /\ r = NbOf(l, 0)
      OBVIOUS
    <3>2. l \in Locals /\ loc'[p] = r
      BY <2>1, <3>1 DEF Inv, Types
    <3>3. l = [ip |-> l.ip, todo |-> l.todo, part |-> l.part, from |-> l.from, at |-> l.at,
               nb |-> l.nb, j |-> l.j]
      BY <3>2, LocalsAre
    <3>4. r = [ip |-> l.ip, todo |-> l.todo, part |-> l.part, from |-> l.from, at |-> l.at,
               nb |-> 0, j |-> l.j]
      BY ONLY <3>1, <3>3 DEF NbOf
    <3> QED
      BY <3>1, <3>2, <3>4
  <2> QED
    BY <1>5, <2>2, <2>3, HolderNext
<1>17. ContentAt(f)' = ContentAt(f)
  BY <1>5, <1>15, <1>16, ContentKeep
<1>18. ASSUME NEW i \in Inum, i # f PROVE ContentAt(i)' = ContentAt(i)
  <2>1. lock'[i] = lock[i] /\ size'[i] = size[i] /\ lock[i] # p
    BY <1>1, <1>5, <1>18
  <2> QED
    BY <1>3, <1>13, <1>18, <2>1, ContentOthers
<1> QED
  BY <1>17, <1>18

\* A file that is truncated has no contents, from its last link on.
LEMMA TruncKeeps ==
  ASSUME Inv, Inv', NEW p \in Proc,
         TruncDirect(p) \/ TruncEntry(p) \/ TruncIndirect(p) \/ TruncEnd(p)
  PROVE  \A i \in Inum : ContentAt(i)' = ContentAt(i)
<1>1. PICK f : f = loc[p].ip
  OBVIOUS
<1>2. Alone(p)
  BY AloneIs
<1>3. pc[p] = "itrunc" /\ block' = block
  BY DEF TruncDirect, TruncEntry, TruncIndirect, TruncEnd
<1>4. f \in Inum /\ Truncating(f) /\ lock[f] = p /\ \A i \in Inum : lock[i] = p => i = f
  BY <1>1, <1>3, Holder DEF Inside
<1>5. \A i \in Inum : i # f => addrs'[i] = addrs[i] /\ lock'[i] = lock[i] /\ size'[i] = size[i]
  <2>1. addrs \in [Inum -> Addrs] /\ lock \in [Inum -> Proc \cup {Nobody}] /\ size \in [Inum -> Nat]
    BY DEF Inv, Types
  <2>2. addrs' = addrs \/ \E k : addrs' = [addrs EXCEPT ![f][k] = 0]
    BY <1>1 DEF TruncDirect, TruncEntry, TruncIndirect, TruncEnd, inodes
  <2>3. lock' = lock \/ lock' = [lock EXCEPT ![f] = Nobody]
    BY <1>1 DEF TruncDirect, TruncEntry, TruncIndirect, TruncEnd, inodes
  <2>4. size' = size \/ size' = [size EXCEPT ![f] = 0]
    BY <1>1 DEF TruncDirect, TruncEntry, TruncIndirect, TruncEnd, inodes
  <2>5. \A i \in Inum : i # f => addrs'[i] = addrs[i]
    BY <2>1, <2>2
  <2> QED
    BY <2>1, <2>3, <2>4, <2>5
<1>6. ASSUME NEW i \in Inum, i # f PROVE ContentAt(i)' = ContentAt(i)
  <2>1. SameBlocks(i)
    BY <1>3, <1>5, <1>6 DEF SameBlocks
  <2>2. SameData(i)
    BY <1>3, <2>1, LookupSame DEF SameData
  <2> QED
    BY <1>2, <1>4, <1>5, <1>6, <2>2, ContentOthers
<1>7. ContentAt(f) = << >>
  BY <1>4 DEF ContentAt
<1>8. CASE TruncDirect(p) \/ TruncEntry(p) \/ TruncIndirect(p)
  <2>1. lock' = lock /\ (pc' = pc \/ pc' = [pc EXCEPT ![p] = "itrunc"])
    BY <1>8 DEF TruncDirect, TruncEntry, TruncIndirect, Goto, inodes
  <2>2. lock'[f] = p /\ pc'[p] = "itrunc"
    BY <1>3, <1>4, <2>1 DEF Inv, Types
  <2>3. Truncating(f)'
    BY <1>4, <2>2, HolderNext
  <2>4. ContentAt(f)' = << >>
    BY <2>3 DEF ContentAt
  <2> QED
    BY <1>6, <1>7, <2>4
<1>9. CASE TruncEnd(p)
  <2>1. size' = [size EXCEPT ![f] = 0] /\ lock' = [lock EXCEPT ![f] = Nobody]
    BY <1>1, <1>9 DEF TruncEnd
  <2>2. lock'[f] = Nobody /\ size'[f] = 0
    BY <1>4, <2>1 DEF Inv, Types
  <2>3. ~Truncating(f)' /\ Upto(f)' = 0
    BY <1>4, <2>2, FreeNext
  <2>4. Extent(f)' = Upto(f)' /\ Upto(f)' \in Nat
    BY <1>4, ExtentNext
  <2>5. ContentAt(f)' = [k \in 1..Upto(f)' |-> ByteAt(f, k - 1)']
    BY <1>4, <2>3, <2>4, ContentNext
  <2>6. ContentAt(f)' = << >>
    BY <2>3, <2>5
  <2> QED
    BY <1>6, <1>7, <2>6
<1> QED
  BY <1>8, <1>9

\* Where byte x is.
LEMMA BlockUnique ==
  ASSUME NEW x \in Nat, NEW bn \in Nat, NEW w \in Word, x = bn * BSIZE + w
  PROVE  x \div BSIZE = bn /\ x % BSIZE = w
<1> DEFINE q == x \div BSIZE
           r == x % BSIZE
           y == q * BSIZE
           z == bn * BSIZE
<1>1. q \in Nat /\ r \in Word /\ x = y + r
  BY BlockOf
<1>2. y \in Nat /\ z \in Nat /\ (q < bn => y + BSIZE <= z) /\ (bn < q => z + BSIZE <= y)
  <2> HIDE DEF q
  <2> QED
    BY <1>1, Constants, MulLess
<1>3. x = z + w
  OBVIOUS
<1> HIDE DEF q, r, y, z
<1>4. r \in Nat /\ r < BSIZE /\ w \in Nat /\ w < BSIZE
  BY <1>1, Constants DEF Word
<1>5. q = bn
  BY <1>1, <1>2, <1>3, <1>4, Constants
<1>6. y = z
  BY <1>5 DEF y, z
<1>7. r = w
  BY <1>1, <1>2, <1>3, <1>4, <1>6
<1> QED
  BY <1>5, <1>7 DEF q, r

\* Content in terms of its parts.
LEMMA ContentOf ==
  /\ Content = [i \in Inum |-> ContentAt(i)]
  /\ Content' = [i \in Inum |-> ContentAt(i)']
  BY DEF Content, ContentAt

\* The last link of a file is gone: it is empty.
LEMMA IputLastRemoves ==
  ASSUME Inv, Inv', NEW p \in Proc, NEW f \in Inum, IputLast(p, f)
  PROVE  store!Remove(f)
<1>1. /\ pc[p] = "user" /\ lock' = [lock EXCEPT ![f] = p] /\ pc' = [pc EXCEPT ![p] = "itrunc"]
      /\ addrs' = addrs /\ block' = block /\ size' = size
  BY DEF IputLast, Call, Goto
<1>2. Alone(p)
  BY AloneIs
<1>3. pc[p] \notin Inside
  BY <1>1 DEF Inside
<1>4. lock'[f] = p /\ pc'[p] = "itrunc" /\ \A i \in Inum : i # f => lock'[i] = lock[i]
  BY <1>1 DEF Inv, Types
<1>5. ContentAt(f)' = << >>
  <2>1. Truncating(f)'
    BY <1>4, HolderNext
  <2> QED
    BY <2>1 DEF ContentAt
<1>6. \A i \in Inum : i # f => ContentAt(i)' = ContentAt(i)
  <2>1. \A i \in Inum : lock[i] # p
    BY <1>3, Outside
  <2> QED
    BY <1>1, <1>2, <1>4, <2>1, SameDataIs, ContentOthers
<1>7. Content' = [Content EXCEPT ![f] = << >>]
  BY <1>5, <1>6, ContentOf
<1> QED
  BY <1>7 DEF store!Remove

\* A round of writei stores a piece of at most a block.
LEMMA CopyStores ==
  ASSUME Inv, Inv', NEW p \in Proc, Copy(p)
  PROVE  \E f \in Inum : store!Store(f)
<1>1. PICK f \in Inum, b \in Blk, o \in Word, m \in Nat, a \in Nat, s \in Seq(Byte), t \in Seq(Byte), bn \in FileBlock :
        /\ f = loc[p].ip /\ a = loc[p].at /\ s = loc[p].part /\ bn = Bn(p) /\ b = Lookup(f, bn) /\ b # 0
        /\ o = a % BSIZE /\ a = bn * BSIZE + o /\ m >= 1 /\ m <= Len(s) /\ o + m <= BSIZE
        /\ t = SubSeq(s, m + 1, Len(s)) /\ Len(t) = Len(s) - m
        /\ pc[p] = "writei" /\ s # << >>
        /\ block' = [block EXCEPT ![b] = Copied(block[b], o, m, s)]
        /\ LogWrite(p, {b}) /\ Goto(p, "writei", MoveOf(loc[p], a + m, t))
        /\ UNCHANGED <<bitmap, addrs, size, off, lock>>
  BY CopyIs
<1>2. f = loc[p].ip /\ a = loc[p].at /\ b = Lookup(f, bn) /\ b # 0 /\ addrs' = addrs /\ size' = size /\ lock' = lock
  BY <1>1
<1>3. a = bn * BSIZE + o /\ m >= 1 /\ m <= Len(s) /\ o + m <= BSIZE /\ Len(s) \in Nat
  BY <1>1
<1>4. o \in Nat /\ o < BSIZE /\ bn \in Nat
  BY Constants DEF Word, FileBlock
<1>5. Alone(p)
  BY AloneIs
<1>6. pc[p] = "writei" /\ pc[p] \in Inside /\ pc[p] \in Writing
  BY <1>1 DEF Inside, Writing
<1>7. /\ ~Truncating(f) /\ lock[f] = p /\ (\A i \in Inum : lock[i] = p => i = f)
      /\ Upto(f) = (IF a > size[f] THEN a ELSE size[f])
  BY <1>2, <1>6, Holder
<1>8. block[b] \in Blocks /\ block'[b] = Copied(block[b], o, m, s)
      /\ \A d \in Blk : d # b => block'[d] = block[d]
  BY <1>1 DEF Inv, Types
<1>9. \A k \in Word : block'[b][k] = IF o <= k /\ k < o + m THEN s[k - o + 1] ELSE block[b][k]
  <2>1. PICK old : old = block[b]
    OBVIOUS
  <2>2. old \in Blocks /\ o \in Nat /\ m \in Nat /\ s \in Seq(Byte) /\ m <= Len(s)
    BY <1>3, <1>4, <1>8, <2>1
  <2>3. \A k \in Word : Copied(old, o, m, s)[k] = IF o <= k /\ k < o + m THEN s[k - o + 1] ELSE old[k]
    BY ONLY <2>2, CopiedIs
  <2> QED
    BY <1>8, <2>1, <2>3
<1>10. ASSUME NEW i \in Inum PROVE SameBlocks(i)
  <2>1. b # addrs[i][NDIRECT]
    BY <1>2, <1>7, DataAlone
  <2>2. addrs[i][NDIRECT] # 0 => addrs[i][NDIRECT] \in Blk
    BY InodeAt DEF Inv
  <2> QED
    BY <1>2, <1>8, <2>1, <2>2 DEF SameBlocks
<1>11. \A i \in Inum, d \in FileBlock : Lookup(i, d)' = Lookup(i, d)
  BY <1>10, LookupSame
\* No other block of a file is the one written.
<1>12. ASSUME NEW i \in Inum, ~Truncating(i), NEW d \in FileBlock, Lookup(i, d) # 0, i # f \/ d # bn
       PROVE  block'[Lookup(i, d)] = block[Lookup(i, d)]
  <2>1. Lookup(i, d) \in Blk /\ Lookup(i, d) # b
    BY <1>2, <1>7, <1>12, DataAlone
  <2> QED
    BY <1>8, <2>1
<1>13. ASSUME NEW i \in Inum, i # f PROVE ContentAt(i)' = ContentAt(i)
  <2>1. lock'[i] = lock[i] /\ size'[i] = size[i] /\ lock[i] # p
    BY <1>2, <1>7, <1>13
  <2>2. ~Truncating(i) => SameData(i)
    BY <1>11, <1>12, <1>13 DEF SameData
  <2> QED
    BY <1>5, <1>13, <2>1, <2>2, ContentOthers
<1>14. ~Truncating(f)' /\ Upto(f)' = (IF a + m > size[f] THEN a + m ELSE size[f])
  <2>1. pc' = [pc EXCEPT ![p] = "writei"] /\ loc' = [loc EXCEPT ![p] = MoveOf(loc[p], a + m, t)]
    BY <1>1 DEF Goto
  <2>2. pc'[p] = "writei" /\ lock'[f] = p /\ size'[f] = size[f] /\ "writei" \in Writing
    BY <1>2, <1>7, <2>1 DEF Inv, Types, Writing
  <2>3. loc'[p].at = a + m
    <3>loc. PICK l \in Locals : l = loc[p]
      BY DEF Inv, Types
    <3>1. PICK e, u, r : u = t /\ l = loc[p] /\ e = a + m /\ r = MoveOf(l, e, u)
      BY <3>loc
    <3>2. r = MoveOf(l, e, u) /\ e \in Offset /\ u \in Seq(Byte)
      BY <3>1 DEF Offset
    <3>3. r.at = e
      BY ONLY <3>2, l \in Locals, MoveLocals
    <3>4. loc'[p] = r
      BY <2>1, <3>1 DEF Inv, Types
    <3> QED
      BY <3>1, <3>3, <3>4
  <2> QED
    BY <2>2, <2>3, HolderNext
<1>15. size[f] \in Nat
  BY InodeAt DEF Inv
<1>16. PICK n \in Nat, n2 \in Nat : n = Upto(f) /\ n2 = Upto(f)'
  BY <1>7, <1>14, <1>15
<1>17. n = (IF a > size[f] THEN a ELSE size[f]) /\ n2 = (IF a + m > size[f] THEN a + m ELSE size[f])
  BY <1>7, <1>14, <1>16
<1>18. PICK c, d : c = ContentAt(f) /\ d = ContentAt(f)'
  OBVIOUS
<1>19. c = [k \in 1..n |-> ByteAt(f, k - 1)]
  <2>1. Extent(f) = Upto(f) /\ Upto(f) \in Nat
    BY ExtentAll
  <2> QED
    BY <1>7, <1>16, <1>18, <2>1, ContentIs
<1>20. d = [k \in 1..n2 |-> ByteAt(f, k - 1)']
  <2>1. Extent(f)' = Upto(f)' /\ Upto(f)' \in Nat
    BY ExtentNext
  <2> QED
    BY <1>14, <1>16, <1>18, <2>1, ContentNext
<1>21. PICK piece : piece = SubSeq(s, 1, m)
  OBVIOUS
<1>22. piece \in Seq(Byte) /\ Len(piece) = m /\ \A k \in 1..m : piece[k] = s[k]
  BY <1>3, <1>21
\* What was written.
<1>23. ASSUME NEW x \in Nat, a <= x, x < a + m PROVE ByteAt(f, x)' = piece[x + 1 - a]
  <2>1. PICK w \in Word : w = o + (x - a)
    BY <1>3, <1>4, <1>23, Constants DEF Word
  <2>2. x = bn * BSIZE + w
    <3> DEFINE y == bn * BSIZE
    <3>1. y \in Nat /\ a = y + o
      BY <1>3, <1>4, Constants, MulLess
    <3> HIDE DEF y
    <3>2. x = y + w
      BY <1>4, <1>23, <2>1, <3>1
    <3> QED
      BY <3>2 DEF y
  <2>3. x \div BSIZE = bn /\ x % BSIZE = w
    BY <1>4, <2>2, BlockUnique
  <2>4. ByteAt(f, x)' = block'[b][w]
    <3>1. Lookup(f, bn)' = b
      BY <1>2, <1>11
    <3>2. ByteAt(f, x)' = block'[Lookup(f, bn)'][w]
      BY ONLY <2>3 DEF ByteAt
    <3> QED
      BY ONLY <3>1, <3>2
  <2>5. o <= w /\ w < o + m /\ w - o + 1 = x + 1 - a /\ x + 1 - a \in 1..m
    <3>1. w \in Nat /\ o \in Nat /\ m \in Nat /\ a \in Nat
      BY <1>3, <1>4, Constants DEF Word
    <3> QED
      BY ONLY <1>23, <2>1, <3>1, x \in Nat
  <2>6. block'[b][w] = s[w - o + 1]
    BY <1>9, <2>5
  <2> QED
    BY <1>22, <2>4, <2>5, <2>6
\* What was there.
<1>24. ASSUME NEW x \in Nat, x < n, ~(a <= x /\ x < a + m) PROVE ByteAt(f, x)' = ByteAt(f, x)
  <2>1. x \in 0..(Upto(f) - 1)
    BY <1>16, <1>24
  <2>2. PICK q \in FileBlock, w \in Word : q = x \div BSIZE /\ w = x % BSIZE /\ Lookup(f, q) # 0
    BY <1>7, <2>1, ByteIs
  <2>3. ByteAt(f, x)' = block'[Lookup(f, q)][w] /\ ByteAt(f, x) = block[Lookup(f, q)][w]
    BY <1>11, <2>2 DEF ByteAt
  <2>4. CASE q # bn
    BY <1>7, <1>12, <2>2, <2>3, <2>4
  <2>5. CASE q = bn
    <3> DEFINE y == bn * BSIZE
    <3>1. y \in Nat /\ a = y + o /\ x = y + w
      BY <1>3, <1>4, <2>2, <2>5, Constants, MulLess, BlockOf
    <3> HIDE DEF y
    <3>2. w \in Nat
      BY Constants DEF Word
    <3>3. ~(o <= w /\ w < o + m)
      BY <1>4, <1>24, <3>1, <3>2
    <3>4. block'[b][w] = block[b][w]
      BY <1>9, <3>3
    <3> QED
      BY <1>2, <2>3, <2>5, <3>4
  <2> QED
    BY <2>4, <2>5
<1>25. a \in 0..n /\ Len(c) = n
  <2>1. Len(c) = n
    BY <1>19
  <2> QED
    BY <1>15, <1>17, <2>1
<1>26. n2 = IF a + Len(piece) > Len(c) THEN a + Len(piece) ELSE Len(c)
  BY <1>3, <1>15, <1>17, <1>22, <1>25
<1>27. d = store!Stored(c, a, piece)
  <2>1. ASSUME NEW k \in 1..n2
        PROVE  d[k] = IF a < k /\ k <= a + m THEN piece[k - a] ELSE c[k]
    <3>1. k - 1 \in Nat /\ (k - 1) + 1 - a = k - a /\ d[k] = ByteAt(f, k - 1)'
      BY <1>20
    <3>2. CASE a < k /\ k <= a + m
      <4>1. a <= k - 1 /\ k - 1 < a + m
        BY <3>2
      <4> QED
        BY <1>23, <3>1, <3>2, <4>1
    <3>3. CASE ~(a < k /\ k <= a + m)
      <4>1. ~(a <= k - 1 /\ k - 1 < a + m)
        BY <3>3
      <4>2. k - 1 < n /\ k \in 1..n
        BY <1>3, <1>15, <1>17, <3>3
      <4>3. ByteAt(f, k - 1)' = ByteAt(f, k - 1)
        BY <1>24, <3>1, <4>1, <4>2
      <4>4. c[k] = ByteAt(f, k - 1)
        BY <1>19, <4>2
      <4> QED
        BY <3>1, <3>3, <4>3, <4>4
    <3> QED
      BY <3>2, <3>3
  <2>2. d = [k \in 1..n2 |-> d[k]]
    BY <1>20
  <2>3. d = [k \in 1..n2 |-> IF a < k /\ k <= a + m THEN piece[k - a] ELSE c[k]]
    BY <2>1, <2>2
  <2> QED
    BY <1>22, <1>26, <2>3 DEF store!Stored
<1>28. piece \in BoundedSeq(UNION {Range(w[2]) : w \in Writes}, BSIZE)
  <2>1. piece \in [1..m -> Byte] /\ m \in 0..BSIZE
    <3>1. m <= BSIZE
      BY <1>3, <1>4, Constants
    <3> QED
      BY <1>22, <3>1, Constants
  <2> QED
    BY <2>1 DEF BoundedSeq, SeqOf, Byte
<1>29. Content[f] = c /\ Content' = [Content EXCEPT ![f] = store!Stored(c, a, piece)]
  BY <1>13, <1>18, <1>27, ContentOf
<1>30. a \in 0..Len(Content[f])
  BY <1>25, <1>29
<1> QED
  BY <1>28, <1>29, <1>30 DEF store!Store

\* Every step is one of a store of sequences of bytes, or leaves them alone.
LEMMA NextStores ==
  ASSUME Inv, Inv', [Next]_vars
  PROVE  [store!Next]_Content
<1>1. ASSUME \A i \in Inum : ContentAt(i)' = ContentAt(i) PROVE Content' = Content
  BY <1>1, ContentOf
<1>2. CASE UNCHANGED vars
  <2>1. UNCHANGED <<block, addrs, size, lock, pc, loc>>
    BY <1>2 DEF vars, inodes
  <2>2. \A i \in Inum : (Truncating(i)' <=> Truncating(i)) /\ Upto(i)' = Upto(i)
    BY <2>1 DEF Truncating, Upto
  <2>3. \A i \in Inum : SameData(i)
    BY <2>1, SameDataIs
  <2>4. \A i \in Inum : ContentAt(i)' = ContentAt(i)
    BY <2>2, <2>3, ContentKeep
  <2> QED
    BY <1>1, <2>4
<1>3. CASE Next
  <2>1. PICK p \in Proc :
          \/ WriteBegin(p) \/ WriteFail(p) \/ WriteEnd(p) \/ EndOp(p)
          \/ Balloc(p) \/ BmapTake(p) \/ Copy(p)
          \/ TruncDirect(p) \/ TruncEntry(p) \/ TruncIndirect(p) \/ TruncEnd(p)
          \/ \E w \in Writes : FileWrite(p, w[1], w[2]) \/ OverwriteFile(p, w[1], w[2])
          \/ \E i \in Inum :
               \/ \E n \in Counts : FileRead(p, i, n)
               \/ \E o \in Seeks : FileSeek(p, i, o)
               \/ IputLast(p, i)
    BY <1>3 DEF Next
  <2>2. CASE \/ WriteFail(p) \/ EndOp(p)
             \/ \E w \in Writes : FileWrite(p, w[1], w[2]) \/ OverwriteFile(p, w[1], w[2])
             \/ \E i \in Inum : (\E n \in Counts : FileRead(p, i, n)) \/ (\E o \in Seeks : FileSeek(p, i, o))
    <3>1. \/ WriteFail(p) \/ EndOp(p)
          \/ \E i \in Inum : \E s : FileWrite(p, i, s) \/ OverwriteFile(p, i, s)
          \/ \E i \in Inum : \E n : FileRead(p, i, n) \/ FileSeek(p, i, n)
      BY <2>2, WritesAre
    <3> QED
      BY <1>1, <3>1, IdleKeeps
  <2>3. CASE WriteBegin(p) \/ WriteEnd(p) \/ Balloc(p)
    BY <1>1, <2>3, WriteKeeps
  <2>4. CASE BmapTake(p)
    BY <1>1, <2>4, BmapTakeKeeps
  <2>5. CASE TruncDirect(p) \/ TruncEntry(p) \/ TruncIndirect(p) \/ TruncEnd(p)
    BY <1>1, <2>5, TruncKeeps
  <2>6. CASE Copy(p)
    BY <2>6, CopyStores DEF store!Next
  <2>7. CASE \E i \in Inum : IputLast(p, i)
    BY <2>7, IputLastRemoves DEF store!Next
  <2> QED
    BY <2>1, <2>2, <2>3, <2>4, <2>5, <2>6, <2>7
<1> QED
  BY <1>2, <1>3

LEMMA InitStores ==
  ASSUME Init
  PROVE  store!Init
<1>1. Inv
  BY InitInv
<1>2. ASSUME NEW i \in Inum PROVE ContentAt(i) = << >>
  <2>1. lock[i] = Nobody /\ size[i] = 0
    BY DEF Init
  <2>2. ~Truncating(i) /\ Upto(i) = 0
    BY <2>1, FreeNow
  <2>3. Extent(i) = Upto(i) /\ Upto(i) \in Nat
    BY <1>1, ExtentIs
  <2>4. ContentAt(i) = [k \in 1..Upto(i) |-> ByteAt(i, k - 1)]
    BY <2>2, <2>3, ContentIs
  <2> QED
    BY <2>2, <2>4
<1> QED
  BY <1>2, ContentOf DEF store!Init

\* Files in direct and indirect blocks, written in parts by processes that
\* allocate and free blocks at the same time, are sequences of bytes.
THEOREM RefinesFileStoreHolds == Spec => RefinesFileStore
<1>1. Inv /\ Inv' /\ [Next]_vars => [store!Next]_Content
  BY NextStores
<1>2. Init => store!Init
  BY InitStores
<1> QED
  BY <1>1, <1>2, InvHolds, PTL DEF Spec, RefinesFileStore, store!Spec
=============================================================================
