------------------------------ MODULE FileData ------------------------------
(***************************************************************************)
(* What files contain, and in which disk blocks: the free bit map, bmap,   *)
(* readi, writei and itrunc of fs.c, under the read, write and seek of     *)
(* file.c.  Several processes use the files at once and share the offset   *)
(* of an open file.                                                        *)
(*                                                                         *)
(* A process holds ip->lock through writei and itrunc, but allocates and   *)
(* frees blocks one at a time, each a section under the lock of the bit    *)
(* map's buffer.  A block is BSIZE numbers: bytes of a file, or, in an     *)
(* indirect block, the numbers of other blocks.  The bit map is one block, *)
(* as it is for FSSIZE < BPB.  Without a free block balloc panics: the     *)
(* process stops.  A transaction starts when the log has room (module Log).*)
(***************************************************************************)
EXTENDS Naturals, Sequences, FiniteSets, FiniteSetsExt, SequencesExt

CONSTANTS
  Proc, Nobody,
  Inum,          \* the files; each is open once, and shared
  NBLOCKS, BSIZE, NDIRECT, MAXOPBLOCKS,
  Writes,        \* what programs write in one call, and to which file
  Counts, Seeks, \* how much they read, and where they seek
  MaxCalls       \* bound: how many calls they make

Blk == 1..NBLOCKS
NINDIRECT == BSIZE
MAXFILE == NDIRECT + NINDIRECT

ASSUME FileDataAssumption ==
  /\ IsFiniteSet(Proc) /\ Nobody \notin Proc
  /\ NBLOCKS \in Nat /\ BSIZE \in Nat \ {0} /\ NDIRECT \in Nat
  /\ MAXOPBLOCKS \in Nat /\ MAXOPBLOCKS >= 6
  /\ \A w \in Writes : w[1] \in Inum /\ w[2] \in Seq(Nat)
  /\ MaxCalls \in Nat /\ Counts \subseteq Nat /\ Seeks \subseteq Nat

VARIABLES
  bitmap,   \* the blocks in use
  block,    \* their contents
  addrs,    \* ip->addrs: NDIRECT blocks, then the indirect block
  size,     \* ip->size
  off,      \* f->off
  lock,     \* the holder of ip->lock
  pc,
  loc,      \* local variables of the call a process is in
  calls,    \* how many calls were made
  wrote     \* the blocks its transaction has given to log_write

inodes == <<addrs, size, off, lock>>
vars == <<bitmap, block, inodes, pc, loc, calls, wrote>>

Zeroes == [k \in 0..(BSIZE - 1) |-> 0]

\* todo: the bytes of the call after this transaction; part: those of it that are
\* not written yet; from, at: where it started and is; nb: a block just
\* allocated; j: the loop of itrunc.
NoLocals == [ip |-> Nobody, todo |-> << >>, part |-> << >>, from |-> 0, at |-> 0,
             nb |-> 0, j |-> 0]

\* Empty files on a disk whose free blocks hold anything; here, 1s.
Init ==
  /\ bitmap = {}
  /\ block = [b \in Blk |-> [k \in 0..(BSIZE - 1) |-> 1]]
  /\ addrs = [i \in Inum |-> [k \in 0..NDIRECT |-> 0]]
  /\ size = [i \in Inum |-> 0]
  /\ off = [i \in Inum |-> 0]
  /\ lock = [i \in Inum |-> Nobody]
  /\ pc = [p \in Proc |-> "user"]
  /\ loc = [p \in Proc |-> NoLocals]
  /\ calls = 0
  /\ wrote = [p \in Proc |-> {}]

Goto(p, l, locals) ==
  /\ pc' = [pc EXCEPT ![p] = l]
  /\ loc' = [loc EXCEPT ![p] = locals]

\* The bit map and the inodes are blocks too; their numbers are outside Blk.
BitmapBlock == 0
InodeBlock == NBLOCKS + 1

LogWrite(p, S) == wrote' = [wrote EXCEPT ![p] = @ \cup S]

\* The inode, with its new size or addresses, is copied into its block.
iupdate(p) == LogWrite(p, {InodeBlock})

\* The block that holds block bn of file i, or 0.
Lookup(i, bn) ==
  IF bn < NDIRECT THEN addrs[i][bn]
  ELSE IF addrs[i][NDIRECT] = 0 THEN 0
  ELSE block[addrs[i][NDIRECT]][bn - NDIRECT]

Bytes(i, from, to) ==
  [k \in 1..(to - from) |-> block[Lookup(i, (from + k - 1) \div BSIZE)][(from + k - 1) % BSIZE]]

\* What readi copies: up to n bytes, from offset o <= ip->size on.
readi(i, o, n) == Bytes(i, o, Min({o + n, size[i]}))

-----------------------------------------------------------------------------
(* file.c *)

\* A program makes a system call.
Call(p) == pc[p] = "user" /\ calls < MaxCalls /\ calls' = calls + 1

FileWrite(p, i, s) ==
  /\ Call(p)
  /\ Goto(p, "begin", [NoLocals EXCEPT !.ip = i, !.todo = s])
  /\ UNCHANGED <<bitmap, block, inodes, wrote>>

\* overwrite_file: the offset is reset without a lock.
OverwriteFile(p, i, s) ==
  /\ Call(p)
  /\ off' = [off EXCEPT ![i] = 0]
  /\ Goto(p, "begin", [NoLocals EXCEPT !.ip = i, !.todo = s])
  /\ UNCHANGED <<bitmap, block, addrs, size, lock, wrote>>

FileRead(p, i, n) ==
  /\ Call(p)
  /\ lock[i] = Nobody
  /\ off[i] <= size[i]
  /\ off' = [off EXCEPT ![i] = @ + Len(readi(i, @, n))]
  /\ UNCHANGED <<bitmap, block, addrs, size, lock, pc, loc, wrote>>

FileSeek(p, i, o) ==
  /\ Call(p)
  /\ lock[i] = Nobody
  /\ off' = [off EXCEPT ![i] = o]
  /\ UNCHANGED <<bitmap, block, addrs, size, lock, pc, loc, wrote>>

\* Mutant: the whole call is one transaction.
AllAtOnce == MAXFILE * BSIZE

\* max: an inode, an indirect block, and each block of data with its allocation.
MaxChunk == ((MAXOPBLOCKS - 1 - 1 - 2) \div 2) * BSIZE

Chunk(p) == Min({Len(loc[p].todo), MaxChunk})

\* writei's tests: no gap, and no more than MAXFILE blocks.
Fits(i, n) == off[i] <= size[i] /\ off[i] + n <= MAXFILE * BSIZE

\* begin_op, ilock, writei.
WriteBegin(p) ==
  /\ pc[p] = "begin"
  /\ LET l == loc[p]  n1 == Chunk(p) IN
       /\ lock[l.ip] = Nobody
       /\ Fits(l.ip, n1)
       /\ lock' = [lock EXCEPT ![l.ip] = p]
       /\ Goto(p, "writei", [l EXCEPT !.from = off[l.ip], !.at = off[l.ip],
                             !.part = SubSeq(l.todo, 1, n1),
                             !.todo = SubSeq(l.todo, n1 + 1, Len(l.todo))])
  /\ UNCHANGED <<bitmap, block, addrs, size, off, wrote>>

\* writei returns -1, and so does the call.
WriteFail(p) ==
  /\ pc[p] = "begin"
  /\ lock[loc[p].ip] = Nobody
  /\ ~Fits(loc[p].ip, Chunk(p))
  /\ Goto(p, "user", NoLocals)
  /\ UNCHANGED <<bitmap, block, inodes, wrote>>

\* The end of writei: size, iupdate; f->off += r, iunlock.
WriteEnd(p) ==
  /\ pc[p] = "writei"
  /\ LET l == loc[p] IN
       /\ l.part = << >>
       /\ size' = [size EXCEPT ![l.ip] = Max({@, l.at})]
       /\ off' = [off EXCEPT ![l.ip] = @ + (l.at - l.from)]
       /\ lock' = [lock EXCEPT ![l.ip] = Nobody]
       /\ Goto(p, "end_op", [NoLocals EXCEPT !.ip = l.ip, !.todo = l.todo])
       /\ IF l.at > size[l.ip] THEN iupdate(p) ELSE UNCHANGED wrote
  /\ UNCHANGED <<bitmap, block, addrs>>

\* The next part of the call, or its end.
EndOp(p) ==
  /\ pc[p] = "end_op"
  /\ IF loc[p].todo = << >> THEN Goto(p, "user", NoLocals) ELSE Goto(p, "begin", loc[p])
  /\ wrote' = [wrote EXCEPT ![p] = {}]
  /\ UNCHANGED <<bitmap, block, inodes>>

-----------------------------------------------------------------------------
(* balloc, and what bmap does with the block *)

Bn(p) == loc[p].at \div BSIZE

\* balloc marks the first free block.
Balloc(p) ==
  /\ pc[p] = "writei" /\ loc[p].part # << >>
  /\ Lookup(loc[p].ip, Bn(p)) = 0
  /\ Blk \ bitmap # {}
  /\ bitmap' = bitmap \cup {Min(Blk \ bitmap)}
  /\ Goto(p, "bzero", [loc[p] EXCEPT !.nb = Min(Blk \ bitmap)])
  /\ LogWrite(p, {BitmapBlock})
  /\ UNCHANGED <<block, inodes>>

\* Mutant: the block keeps what it held.
NotZeroed(b) == block[b]

Zeroed(b) == Zeroes

\* bzero; and bmap takes the block: as a block of the file, as its indirect block
\* if it has none, or as an entry of that.
BmapTake(p) ==
  /\ pc[p] = "bzero"
  /\ LET l == loc[p]  ind == addrs[l.ip][NDIRECT]
         fresh == [block EXCEPT ![l.nb] = Zeroed(l.nb)]
     IN IF Bn(p) < NDIRECT \/ ind = 0
        THEN /\ addrs' = [addrs EXCEPT ![l.ip][Min({Bn(p), NDIRECT})] = l.nb]
             /\ block' = fresh
             /\ LogWrite(p, {l.nb})
        ELSE /\ block' = [fresh EXCEPT ![ind][Bn(p) - NDIRECT] = l.nb]
             /\ LogWrite(p, {l.nb, ind})
             /\ UNCHANGED addrs
  /\ Goto(p, "writei", [loc[p] EXCEPT !.nb = 0])
  /\ UNCHANGED <<bitmap, size, off, lock>>

\* One round of writei's loop: what goes into one block.
Copy(p) ==
  /\ pc[p] = "writei" /\ loc[p].part # << >>
  /\ LET l == loc[p]  b == Lookup(l.ip, Bn(p))
         o == l.at % BSIZE  m == Min({Len(l.part), BSIZE - o})
     IN /\ b # 0
        /\ block' = [block EXCEPT ![b] = [k \in DOMAIN @ |->
                       IF o <= k /\ k < o + m THEN l.part[k - o + 1] ELSE @[k]]]
        /\ LogWrite(p, {b})
        /\ Goto(p, "writei", [l EXCEPT !.at = @ + m, !.part = SubSeq(@, m + 1, Len(@))])
  /\ UNCHANGED <<bitmap, inodes>>

-----------------------------------------------------------------------------
(* itrunc, one bfree at a time *)

\* The last link and reference of a file are gone (module FileSys); its inode
\* will be the next new file.
IputLast(p, i) ==
  /\ Call(p)
  /\ \A q \in Proc : loc[q].ip # i
  /\ lock' = [lock EXCEPT ![i] = p]
  /\ Goto(p, "itrunc", [NoLocals EXCEPT !.ip = i])
  /\ UNCHANGED <<bitmap, block, addrs, size, off, wrote>>

bfree(p, b) == bitmap' = bitmap \ {b} /\ LogWrite(p, {BitmapBlock})

Direct(i) == {k \in 0..(NDIRECT - 1) : addrs[i][k] # 0}

TruncDirect(p) ==
  /\ pc[p] = "itrunc"
  /\ LET i == loc[p].ip IN
       /\ Direct(i) # {}
       /\ bfree(p, addrs[i][Min(Direct(i))])
       /\ addrs' = [addrs EXCEPT ![i][Min(Direct(i))] = 0]
  /\ UNCHANGED <<block, size, off, lock, pc, loc>>

\* The entries of the indirect block are freed, and stay in it.
TruncEntry(p) ==
  /\ pc[p] = "itrunc"
  /\ LET l == loc[p]  ind == addrs[l.ip][NDIRECT] IN
       /\ Direct(l.ip) = {} /\ ind # 0 /\ l.j < NINDIRECT
       /\ IF block[ind][l.j] # 0 THEN bfree(p, block[ind][l.j])
                                 ELSE UNCHANGED <<bitmap, wrote>>
       /\ Goto(p, "itrunc", [l EXCEPT !.j = @ + 1])
  /\ UNCHANGED <<block, inodes>>

\* Mutant: the indirect block is freed without its entries.
TruncIndirectOnly(p) ==
  /\ pc[p] = "itrunc"
  /\ LET l == loc[p]  ind == addrs[l.ip][NDIRECT] IN
       /\ Direct(l.ip) = {} /\ ind # 0
       /\ bfree(p, ind)
       /\ addrs' = [addrs EXCEPT ![l.ip][NDIRECT] = 0]
  /\ UNCHANGED <<block, size, off, lock, pc, loc>>

TruncIndirect(p) ==
  /\ pc[p] = "itrunc"
  /\ LET l == loc[p]  ind == addrs[l.ip][NDIRECT] IN
       /\ Direct(l.ip) = {} /\ ind # 0 /\ l.j = NINDIRECT
       /\ bfree(p, ind)
       /\ addrs' = [addrs EXCEPT ![l.ip][NDIRECT] = 0]
  /\ UNCHANGED <<block, size, off, lock, pc, loc>>

TruncEnd(p) ==
  /\ pc[p] = "itrunc"
  /\ LET i == loc[p].ip IN
       /\ \A k \in 0..NDIRECT : addrs[i][k] = 0
       /\ size' = [size EXCEPT ![i] = 0]
       /\ off' = [off EXCEPT ![i] = 0]
       /\ lock' = [lock EXCEPT ![i] = Nobody]
  /\ Goto(p, "end_op", NoLocals)
  /\ iupdate(p)
  /\ UNCHANGED <<bitmap, block, addrs>>

-----------------------------------------------------------------------------

Next ==
  \E p \in Proc :
    \/ /\ \/ WriteBegin(p) \/ WriteFail(p) \/ WriteEnd(p) \/ EndOp(p)
          \/ Balloc(p) \/ BmapTake(p) \/ Copy(p)
          \/ TruncDirect(p) \/ TruncEntry(p) \/ TruncIndirect(p) \/ TruncEnd(p)
       /\ UNCHANGED calls
    \/ \E w \in Writes : FileWrite(p, w[1], w[2]) \/ OverwriteFile(p, w[1], w[2])
    \/ \E i \in Inum :
         \/ \E n \in Counts : FileRead(p, i, n)
         \/ \E o \in Seeks : FileSeek(p, i, o)
         \/ IputLast(p, i)

Spec == Init /\ [][Next]_vars

-----------------------------------------------------------------------------
(* Properties *)

Writer(i) == {p \in Proc : lock[i] = p /\ pc[p] \in {"writei", "bzero"}}
Truncating(i) == \E p \in Proc : lock[i] = p /\ pc[p] = "itrunc"

\* How much of the file is there, with what a writer has added so far.
Extent(i) == Max({size[i]} \cup {loc[p].at : p \in Writer(i)})

\* Where file i keeps the numbers of its blocks: NDIRECT words of the inode, one
\* for the indirect block, and the words of that.
Slot == 0..(NDIRECT + NINDIRECT)

\* The entries of the indirect block that itrunc has freed.
Finished(i) == IF Truncating(i) THEN loc[lock[i]].j ELSE 0

\* The block in slot k.
Pointer(i, k) ==
  LET ind == addrs[i][NDIRECT] IN
    IF k <= NDIRECT THEN addrs[i][k]
    ELSE IF ind = 0 \/ k - NDIRECT - 1 < Finished(i) THEN 0
    ELSE block[ind][k - NDIRECT - 1]

\* The blocks in use in the bit map are those that a file points to, or that
\* bmap has just allocated, each once: none is lost, shared or free while in
\* use, and bfree never finds a block free.  Every byte below the size has its
\* block, so that a read, which is in no transaction, never allocates one.
BlocksExact ==
  /\ bitmap = ({Pointer(i, k) : i \in Inum, k \in Slot} \cup {loc[p].nb : p \in Proc}) \ {0}
  /\ \A i, j \in Inum, k, l \in Slot :
       Pointer(i, k) = Pointer(j, l) /\ Pointer(i, k) # 0 => i = j /\ k = l
  /\ \A p \in Proc : loc[p].nb # 0 =>
       /\ \A q \in Proc : loc[q].nb = loc[p].nb => q = p
       /\ \A i \in Inum, k \in Slot : Pointer(i, k) # loc[p].nb
  /\ \A i \in Inum : ~Truncating(i) =>
       \A k \in 0..(Extent(i) - 1) : Lookup(i, k \div BSIZE) # 0

Content ==
  [i \in Inum |-> IF Truncating(i) THEN << >>
                  ELSE Bytes(i, 0, Extent(i))]

store == INSTANCE FileStore WITH
  content <- Content, Piece <- BoundedSeq(UNION {Range(w[2]) : w \in Writes}, BSIZE)

\* Files kept in direct and indirect blocks, written in parts while others
\* allocate and free blocks, are independent sequences of bytes.
RefinesFileStore == store!Spec

\* No transaction of a write gives the log more blocks than begin_op reserved.
OpFits == \A p \in Proc : Cardinality(wrote[p]) <= MAXOPBLOCKS
=============================================================================
