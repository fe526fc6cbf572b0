----------------------------- MODULE LogProofs -----------------------------
(***************************************************************************)
(* The log of log.c, for every number of processes, blocks and values and  *)
(* every size of the log: the inductive invariant, the absence of panics   *)
(* within a budget, durability at quiescence, and the refinement of        *)
(* AtomicDisk.                                                             *)
(***************************************************************************)
EXTENDS Log, FiniteSetTheorems, TLAPS

USE ValAssumption, ProcAssumption, SizeAssumption

-----------------------------------------------------------------------------
(* Operators *)

\* Log absorption adds the block to the header and keeps entries distinct.
LEMMA AbsorbLemma ==
  ASSUME NEW s \in Seq(Block), Distinct(s), NEW b \in Block
  PROVE  /\ Absorb(s, b) \in Seq(Block)
         /\ Distinct(Absorb(s, b))
         /\ Logged(Absorb(s, b)) = Logged(s) \cup {b}
         /\ b \in Logged(s) => Absorb(s, b) = s
         /\ b \notin Logged(s) => Len(Absorb(s, b)) = Len(s) + 1
<1>1. CASE b \in Logged(s)
  BY <1>1 DEF Absorb
<1>2. CASE b \notin Logged(s)
  <2>1. Absorb(s, b) = Append(s, b)
    BY <1>2 DEF Absorb
  <2>2. /\ Append(s, b) \in Seq(Block)
        /\ Len(Append(s, b)) = Len(s) + 1
        /\ DOMAIN Append(s, b) = 1..(Len(s) + 1)
        /\ Append(s, b)[Len(s) + 1] = b
        /\ \A i \in 1..Len(s) : Append(s, b)[i] = s[i]
        /\ DOMAIN s = 1..Len(s)
        /\ Len(s) \in Nat
    OBVIOUS
  <2>3. Distinct(Append(s, b))
    BY <1>2, <2>2 DEF Distinct, Logged
  <2>4. Logged(Append(s, b)) = Logged(s) \cup {b}
    BY <2>2 DEF Logged
  <2> QED
    BY <1>2, <2>1, <2>2, <2>3, <2>4
<1> QED
  BY <1>1, <1>2

\* An empty header names no block.
LEMMA EmptyLog ==
  << >> \in Seq(Block) /\ Distinct(<< >>) /\ Logged(<< >>) = {} /\ Len(<< >>) = 0
  BY DEF Distinct, Logged

\* A reservation of MAXOPBLOCKS for each of a finite set of operations.
LEMMA Reservations ==
  ASSUME NEW S, IsFiniteSet(S)
  PROVE  /\ IsFiniteSet(S \X (1..MAXOPBLOCKS))
         /\ Cardinality(S \X (1..MAXOPBLOCKS)) = Cardinality(S) * MAXOPBLOCKS
<1>1. IsFiniteSet(1..MAXOPBLOCKS) /\ Cardinality(1..MAXOPBLOCKS) = MAXOPBLOCKS
  BY FS_Interval
<1> QED
  BY <1>1, FS_Product

\* Facts about the operations in progress that every step uses.
LEMMA OpsFinite ==
  /\ IsFiniteSet(InOp)
  /\ Cardinality(InOp) \in Nat
  /\ IsFiniteSet(InOp \X (1..MAXOPBLOCKS))
  /\ Cardinality(InOp \X (1..MAXOPBLOCKS)) = Cardinality(InOp) * MAXOPBLOCKS
  /\ IsFiniteSet(Tokens)
  /\ Cardinality(Tokens) \in Nat
<1>1. IsFiniteSet(InOp)
  BY FS_Subset DEF InOp
<1>3. /\ IsFiniteSet(InOp \X (1..MAXOPBLOCKS))
      /\ Cardinality(InOp \X (1..MAXOPBLOCKS)) = Cardinality(InOp) * MAXOPBLOCKS
  BY <1>1, Reservations
<1>4. Tokens \subseteq InOp \X (1..MAXOPBLOCKS)
  BY DEF Tokens
<1> QED
  BY <1>1, <1>3, <1>4, FS_Subset, FS_CardinalityType

\* A header entry is found again by recovery.
LEMMA RecoveredAt ==
  ASSUME NEW s \in Seq(Block), Distinct(s), NEW i \in 1..Len(s)
  PROVE  /\ s[i] \in Logged(s)
         /\ (CHOOSE j \in DOMAIN s : s[j] = s[i]) = i
<1>1. DOMAIN s = 1..Len(s)
  OBVIOUS
<1> QED
  BY <1>1 DEF Distinct, Logged

-----------------------------------------------------------------------------
(* The inductive invariant: one lemma per operation *)

\* The disk mkfs made and the memory of a machine about to boot.
LEMMA InitEstablishes == Init => IndInv
<1> SUFFICES ASSUME Init PROVE IndInv
  OBVIOUS
<1>1. TypeOK
  BY EmptyLog DEF Init, TypeOK
<1>2. InOp = {} /\ Held = {} /\ Logged(lh) = {} /\ Tokens = {}
  BY DEF Init, InOp, Held, OpLabels, Logged, Tokens
<1>3. CommitOK
  BY <1>2, FS_EmptySet DEF Init, CommitOK, CommitLabels, Normal
<1>4. OpsOK
  BY <1>2, FS_EmptySet DEF Init, OpsOK, OpLabels
<1>5. SpaceOK
  BY <1>2, FS_EmptySet DEF Init, SpaceOK
<1>6. CacheOK
  BY <1>2 DEF Init, CacheOK, At, Normal
<1>7. LogOK
  BY DEF Init, LogOK, At, Normal
<1> QED
  BY <1>1, <1>3, <1>4, <1>5, <1>6, <1>7 DEF IndInv

\* A power failure: memory is lost, the disk is kept.
LEMMA CrashPreserves == IndInv /\ Crash => IndInv'
<1> SUFFICES ASSUME IndInv, Crash PROVE IndInv'
  OBVIOUS
<1>1. TypeOK'
  BY EmptyLog DEF IndInv, TypeOK, Crash, disk
<1>2. InOp' = {} /\ Held' = {} /\ Logged(lh') = {} /\ Tokens' = {}
  BY DEF Crash, InOp, Held, OpLabels, Logged, Tokens
<1>3. CommitOK'
  BY <1>2, FS_EmptySet DEF Crash, CommitOK, CommitLabels, Normal
<1>4. OpsOK'
  BY <1>2, FS_EmptySet DEF Crash, OpsOK, OpLabels
<1>5. SpaceOK'
  BY <1>2, FS_EmptySet DEF Crash, SpaceOK, IndInv, disk
<1>6. CacheOK'
  BY <1>2 DEF Crash, CacheOK, At, Normal
<1>7. LogOK'
  BY DEF Crash, LogOK, At, Normal
<1> QED
  BY <1>1, <1>3, <1>4, <1>5, <1>6, <1>7 DEF IndInv

\* bread of a block not in the cache, or bget's reuse of a buffer: the pinned
\* buffers, which write_log and install_trans depend on, are not touched.
LEMMA CachePreserves ==
  ASSUME IndInv, NEW b \in Block, Bread(b) \/ Evict(b)
  PROVE  IndInv'
<1>0. UNCHANGED <<disk, lh, outstanding, committing, dirty, tail, mode, call>>
  BY DEF Bread, Evict
<1> USE <1>0 DEF disk, call
<1>1. TypeOK'
  BY DEF IndInv, TypeOK, Bread, Evict
<1>2. InOp' = InOp /\ Held' = Held /\ Logged(lh)' = Logged(lh) /\ Tokens' = Tokens
  BY DEF InOp, Held, Logged, Tokens, Used
<1>3. CommitOK'
  BY <1>2 DEF IndInv, CommitOK, Normal
<1>4. OpsOK'
  BY <1>2 DEF IndInv, OpsOK
<1>5. SpaceOK'
  BY <1>2 DEF IndInv, SpaceOK
<1>6. CacheOK'
  <2>1. \A c \in Block \ {b} : buf'[c] = buf[c]
    BY DEF IndInv, TypeOK, Bread, Evict
  <2>2. CASE Bread(b)
    BY <1>2, <2>1, <2>2 DEF IndInv, TypeOK, CacheOK, At, Normal, Bread
  <2>3. CASE Evict(b)
    BY <1>2, <2>1, <2>3 DEF IndInv, TypeOK, CacheOK, At, Normal, Evict, Recyclable
  <2> QED
    BY <2>2, <2>3
<1>7. \A c \in dirty : buf'[c] = buf[c]
  BY DEF IndInv, TypeOK, CacheOK, Bread, Evict, Recyclable
<1>8. LogOK'
  <2>1. /\ At("write_log") \/ At("write_head") => mode = "up" \/ mode = "panic"
        /\ At("write_log") \/ At("write_head") => ~At("install") /\ ~At("clear")
    BY DEF IndInv, TypeOK, CommitOK, At, CommitLabels, Normal
  <2>2. /\ At("write_log") \/ At("write_head")
             => \A i \in 1..Len(lh) : lh[i] \in dirty
        /\ At("install") => \A i \in tail..Len(lh) : lh[i] \in dirty
    BY <2>1 DEF IndInv, TypeOK, CacheOK, Logged, Normal
  <2>3. At("write_log") => \A i \in 1..(tail - 1) : i \in 1..Len(lh)
    BY DEF IndInv, TypeOK, LogOK
  <2> QED
    BY <1>7, <2>2, <2>3 DEF IndInv, LogOK, At, Normal
<1> QED
  BY <1>1, <1>3, <1>4, <1>5, <1>6, <1>8 DEF IndInv

\* While no commit runs, no process is at a commit label.
LEMMA NoCommitter ==
  ASSUME IndInv, ~committing
  PROVE  \A p \in Proc : pc[p] \notin CommitLabels
  BY DEF IndInv, CommitOK

\* While a process commits, it is the only one inside log.c's operations.
LEMMA SoleCommitter ==
  ASSUME IndInv, NEW p \in Proc, pc[p] \in CommitLabels
  PROVE  /\ committing /\ InOp = {} /\ Held = {} /\ Normal /\ outstanding = 0
         /\ \A q \in Proc \ {p} : pc[q] \notin CommitLabels
<1>1. committing /\ InOp = {} /\ \A q \in Proc \ {p} : pc[q] \notin CommitLabels
  BY DEF IndInv, CommitOK
<1>2. Normal
  BY DEF IndInv, CommitOK, CommitLabels
<1>3. Held = {}
  BY <1>1 DEF InOp, Held, OpLabels
<1>4. outstanding = 0
  BY <1>1, FS_EmptySet DEF IndInv, CommitOK
<1> QED
  BY <1>1, <1>2, <1>3, <1>4

\* begin_op admits the caller: what it reserves is still free.
LEMMA BeginOpPreserves ==
  ASSUME IndInv, NEW p \in Proc, BeginOp(p)
  PROVE  IndInv'
<1> USE DEF disk
<1>1. TypeOK'
  BY DEF IndInv, TypeOK, BeginOp, Goto, OpLabels
<1>2. /\ InOp' = InOp \cup {p} /\ p \notin InOp /\ Held' = Held
      /\ Logged(lh)' = Logged(lh)
  <2>1. \A q \in Proc : pc'[q] = IF q = p THEN "inop" ELSE pc[q]
    BY DEF BeginOp, Goto, IndInv, TypeOK
  <2> QED
    BY <2>1 DEF BeginOp, InOp, Held, Logged, OpLabels
<1>3. \A q \in Proc : pc[q] \notin CommitLabels /\ pc'[q] \notin CommitLabels
  BY NoCommitter DEF BeginOp, MustWait, Goto, IndInv, TypeOK, CommitLabels
<1>4. Cardinality(InOp') = outstanding + 1
  BY <1>2, OpsFinite, FS_AddElement DEF IndInv, CommitOK
<1>5. CommitOK'
  BY <1>3, <1>4 DEF IndInv, CommitOK, BeginOp, Normal, MustWait
<1>6. OpsOK'
  <2>1. wrote[p] = {}
    BY DEF IndInv, OpsOK, BeginOp, OpLabels
  <2> QED
    BY <1>2, <2>1 DEF IndInv, TypeOK, OpsOK, BeginOp, Goto, OpLabels
<1>7. SpaceOK'
  <2>1. Tokens' \subseteq InOp' \X (1..MAXOPBLOCKS)
    BY DEF Tokens
  <2>2. IsFiniteSet(InOp')
    BY <1>2, OpsFinite, FS_AddElement
  <2>4. /\ IsFiniteSet(InOp' \X (1..MAXOPBLOCKS))
        /\ Cardinality(InOp' \X (1..MAXOPBLOCKS)) = (outstanding + 1) * MAXOPBLOCKS
    BY <1>4, <2>2, Reservations
  <2>5. /\ Cardinality(Tokens') <= (outstanding + 1) * MAXOPBLOCKS
        /\ Cardinality(Tokens') \in Nat
    BY <2>1, <2>4, FS_Subset, FS_CardinalityType
  <2>6. Len(lh) \in Nat /\ outstanding \in Nat /\ (outstanding + 1) * MAXOPBLOCKS \in Nat
    BY DEF IndInv, TypeOK
  <2>7. Len(lh) + (outstanding + 1) * MAXOPBLOCKS <= LOGSIZE
    BY <2>6 DEF BeginOp, MustWait, LogFull
  <2> QED
    BY <2>5, <2>6, <2>7 DEF IndInv, SpaceOK, BeginOp
<1>8. CacheOK'
  BY <1>2, <1>3 DEF IndInv, CacheOK, BeginOp, At, Normal, CommitLabels
<1>9. LogOK'
  BY <1>3 DEF IndInv, LogOK, BeginOp, At, Normal, CommitLabels
<1> QED
  BY <1>1, <1>5, <1>6, <1>7, <1>8, <1>9 DEF IndInv

\* begin_op puts the caller to sleep, or kill wakes it.
LEMMA SleepPreserves ==
  ASSUME IndInv, NEW p \in Proc, BeginSleep(p) \/ Kill(p)
  PROVE  IndInv'
<1>0. UNCHANGED <<disk, mem, mode, blk, wrote>>
  BY DEF BeginSleep, Kill
<1> USE <1>0 DEF disk, mem
<1>1. TypeOK'
  BY DEF IndInv, TypeOK, BeginSleep, Kill, Goto
<1>2. /\ pc[p] \in {"idle", "sleep", "woken"} /\ pc'[p] \in {"sleep", "woken"}
      /\ \A q \in Proc \ {p} : pc'[q] = pc[q]
      /\ mode = "up"
  BY DEF IndInv, TypeOK, BeginSleep, Kill, Goto
<1>3. InOp' = InOp /\ Held' = Held /\ Logged(lh)' = Logged(lh) /\ Tokens' = Tokens
  <2>1. InOp' = InOp
    BY <1>2 DEF InOp, OpLabels
  <2>2. Held' = Held
    BY <1>2 DEF Held
  <2> QED
    BY <2>1, <2>2 DEF Logged, Tokens, Used
<1>4. /\ \A q \in Proc : pc[q] \in CommitLabels <=> pc'[q] \in CommitLabels
      /\ \A l \in CommitLabels : At(l)' <=> At(l)
  BY <1>2 DEF CommitLabels, At
<1>5. CommitOK'
  BY <1>2, <1>3, <1>4 DEF IndInv, CommitOK, Normal
<1>6. OpsOK'
  BY <1>2, <1>3 DEF IndInv, OpsOK, OpLabels
<1>7. SpaceOK'
  BY <1>3 DEF IndInv, SpaceOK
<1>8. CacheOK'
  BY <1>3, <1>4 DEF IndInv, CacheOK, Normal, CommitLabels
<1>9. LogOK'
  BY <1>4 DEF IndInv, LogOK, Normal, CommitLabels
<1> QED
  BY <1>1, <1>5, <1>6, <1>7, <1>8, <1>9 DEF IndInv

\* An operation in progress rules out a commit.
LEMMA OpExcludesCommit ==
  ASSUME IndInv, NEW p \in Proc, pc[p] \in OpLabels
  PROVE  ~committing /\ p \in InOp /\ Normal /\ \A q \in Proc : pc[q] \notin CommitLabels
  BY NoCommitter DEF IndInv, CommitOK, InOp, OpLabels, Normal

\* Fewer tokens: an operation ended, or more of its blocks are in the log.
LEMMA TokensShrink ==
  ASSUME Tokens' \subseteq Tokens
  PROVE  Cardinality(Tokens') \in Nat /\ Cardinality(Tokens') <= Cardinality(Tokens)
  BY OpsFinite, FS_Subset, FS_CardinalityType

LEMMA TokensSubset ==
  ASSUME InOp' \subseteq InOp,
         \A q \in InOp' : Used(q) \in Nat /\ Used(q)' \in Nat /\ Used(q) <= Used(q)'
  PROVE  Tokens' \subseteq Tokens
<1> SUFFICES ASSUME NEW t \in Tokens' PROVE t \in Tokens
  OBVIOUS
<1>1. t \in InOp' \X (1..MAXOPBLOCKS) /\ t[2] > Used(t[1])'
  BY DEF Tokens
<1>2. t[1] \in InOp' /\ t[2] \in 1..MAXOPBLOCKS /\ t \in InOp \X (1..MAXOPBLOCKS)
  BY <1>1
<1>3. t[2] > Used(t[1])
  BY <1>1, <1>2
<1> QED
  BY <1>2, <1>3 DEF Tokens

\* An operation has at most as many blocks in the log as it wrote.
LEMMA UsedType ==
  ASSUME IndInv, NEW p \in Proc
  PROVE  /\ Used(p) \in Nat /\ Used(p) <= Cardinality(wrote[p])
         /\ Cardinality(wrote[p]) \in Nat /\ Cardinality(wrote[p]) <= OpBlocks
         /\ IsFiniteSet(wrote[p]) /\ IsFiniteSet(wrote[p] \cap Logged(lh))
<1>1. IsFiniteSet(wrote[p]) /\ Cardinality(wrote[p]) <= OpBlocks
  BY DEF IndInv, OpsOK
<1>2. wrote[p] \cap Logged(lh) \subseteq wrote[p]
  OBVIOUS
<1> QED
  BY <1>1, <1>2, FS_Subset, FS_CardinalityType DEF Used

\* Neither a block added to what an operation wrote nor one added to the log
\* makes an operation's use smaller.
LEMMA UsedGrows ==
  ASSUME NEW p \in Proc, wrote[p] \subseteq wrote'[p], IsFiniteSet(wrote'[p]),
         Logged(lh) \subseteq Logged(lh')
  PROVE  Used(p) \in Nat /\ Used(p)' \in Nat /\ Used(p) <= Used(p)'
<1>1. /\ wrote'[p] \cap Logged(lh') \subseteq wrote'[p]
      /\ wrote[p] \cap Logged(lh) \subseteq wrote'[p] \cap Logged(lh')
  OBVIOUS
<1>2. IsFiniteSet(wrote'[p] \cap Logged(lh'))
  BY <1>1, FS_Subset
<1>3. /\ IsFiniteSet(wrote[p] \cap Logged(lh))
      /\ Cardinality(wrote[p] \cap Logged(lh)) <= Cardinality(wrote'[p] \cap Logged(lh'))
  BY <1>1, <1>2, FS_Subset
<1>4. Used(p)' = Cardinality(wrote'[p] \cap Logged(lh'))
  BY DEF Used
<1> QED
  BY <1>2, <1>3, <1>4, FS_CardinalityType DEF Used

\* log_write up to the acquire of log.lock: the modified buffer is held.
LEMMA LogWritePreserves ==
  ASSUME IndInv, NEW p \in Proc, NEW b \in Block, NEW v \in Val, LogWrite(p, b, v)
  PROVE  IndInv'
<1> USE DEF disk
<1>0. /\ UNCHANGED <<disk, lh, outstanding, committing, dirty, tail, mode>>
      /\ pc[p] = "inop" /\ pc'[p] = "append" /\ blk'[p] = b
      /\ wrote'[p] = wrote[p] \cup {b}
      /\ \A q \in Proc \ {p} : pc'[q] = pc[q] /\ blk'[q] = blk[q] /\ wrote'[q] = wrote[q]
      /\ buf'[b] = v /\ \A c \in Block \ {b} : buf'[c] = buf[c]
      /\ b \notin Held
      /\ Cardinality(wrote[p] \cup {b}) <= OpBlocks
  BY DEF IndInv, TypeOK, LogWrite, MayWrite, Goto
<1>1. TypeOK'
  BY DEF IndInv, TypeOK, LogWrite, Goto, OpLabels
<1>2. InOp' = InOp /\ Held' = Held \cup {b} /\ Logged(lh)' = Logged(lh)
  <2>1. InOp' = InOp
    BY <1>0 DEF InOp, OpLabels
  <2>2. Held' = Held \cup {b}
    BY <1>0 DEF Held
  <2> QED
    BY <1>0, <2>1, <2>2 DEF Logged
<1>3. /\ ~committing /\ Normal
      /\ \A q \in Proc : pc[q] \notin CommitLabels /\ pc'[q] \notin CommitLabels
  BY <1>0, OpExcludesCommit DEF OpLabels, CommitLabels
<1>4. CommitOK'
  BY <1>0, <1>2, <1>3 DEF IndInv, CommitOK, Normal
<1>5. IsFiniteSet(wrote'[p])
  <2>1. IsFiniteSet(wrote[p] \cup {b})
    BY UsedType, FS_AddElement
  <2> QED
    BY <1>0, <2>1
<1>6. OpsOK'
  <2>1. \A q \in Proc : pc[q] = "append" => blk[q] # b
    BY <1>0 DEF Held
  <2>2. wrote[p] \subseteq Logged(lh)
    BY <1>0 DEF IndInv, OpsOK
  <2>3. /\ IsFiniteSet(wrote'[p]) /\ Cardinality(wrote'[p]) <= OpBlocks
        /\ blk'[p] \in wrote'[p] /\ wrote'[p] \subseteq Logged(lh') \cup {blk'[p]}
    BY <1>0, <1>2, <1>5, <2>2
  <2>4. \A q \in Proc :
          /\ IsFiniteSet(wrote'[q]) /\ Cardinality(wrote'[q]) <= OpBlocks
          /\ pc'[q] = "inop" => wrote'[q] \subseteq Logged(lh')
          /\ pc'[q] = "append" => /\ blk'[q] \in wrote'[q]
                                  /\ wrote'[q] \subseteq Logged(lh') \cup {blk'[q]}
          /\ pc'[q] \notin OpLabels => wrote'[q] = {}
    <3> SUFFICES ASSUME NEW q \in Proc \ {p}
                 PROVE  /\ IsFiniteSet(wrote[q]) /\ Cardinality(wrote[q]) <= OpBlocks
                        /\ pc[q] = "inop" => wrote[q] \subseteq Logged(lh)
                        /\ pc[q] = "append" => /\ blk[q] \in wrote[q]
                                               /\ wrote[q] \subseteq Logged(lh) \cup {blk[q]}
                        /\ pc[q] \notin OpLabels => wrote[q] = {}
      BY <1>0, <1>2, <2>3 DEF OpLabels
    <3> QED
      BY DEF IndInv, OpsOK
  <2>5. \A q, r \in Proc :
          pc'[q] = "append" /\ pc'[r] = "append" /\ blk'[q] = blk'[r] => q = r
    BY <1>0, <2>1 DEF IndInv, OpsOK
  <2> QED
    BY <2>4, <2>5 DEF OpsOK
<1>7. SpaceOK'
  <2>1. \A q \in Proc : Used(q) \in Nat /\ Used(q)' \in Nat /\ Used(q) <= Used(q)'
    <3> SUFFICES ASSUME NEW q \in Proc
                 PROVE  Used(q) \in Nat /\ Used(q)' \in Nat /\ Used(q) <= Used(q)'
      OBVIOUS
    <3>1. wrote[q] \subseteq wrote'[q] /\ IsFiniteSet(wrote'[q])
      BY <1>0, <1>5, UsedType
    <3> QED
      BY <1>2, <3>1, UsedGrows
  <2>4. Tokens' \subseteq Tokens
    BY <1>2, <2>1, TokensSubset DEF InOp
  <2> QED
    BY <1>0, <2>4, TokensShrink, OpsFinite DEF IndInv, TypeOK, SpaceOK
<1>8. CacheOK'
  BY <1>0, <1>2, <1>3 DEF IndInv, CacheOK, At, Normal, CommitLabels
<1>9. LogOK'
  BY <1>0, <1>3 DEF IndInv, LogOK, At, Normal, CommitLabels
<1> QED
  BY <1>1, <1>4, <1>6, <1>7, <1>8, <1>9 DEF IndInv

\* A panic freezes the memory as it is.
LEMMA PanicPreserves ==
  ASSUME IndInv, NEW p \in Proc, NEW b \in Block, LogWritePanic(p, b)
  PROVE  IndInv'
<1>0. UNCHANGED <<disk, mem, call>> /\ mode = "up" /\ mode' = "panic"
  BY DEF LogWritePanic, MayWrite
<1> USE <1>0 DEF disk, mem, call
<1>1. InOp' = InOp /\ Held' = Held /\ Logged(lh)' = Logged(lh) /\ Tokens' = Tokens
  BY DEF InOp, Held, Logged, Tokens, Used
<1>2. TypeOK'
  BY DEF IndInv, TypeOK
<1>3. CommitOK' /\ OpsOK' /\ SpaceOK'
  BY <1>1 DEF IndInv, CommitOK, OpsOK, SpaceOK, Normal
<1>4. CacheOK' /\ LogOK'
  BY <1>1 DEF IndInv, CacheOK, LogOK, At, Normal
<1> QED
  BY <1>2, <1>3, <1>4 DEF IndInv

\* log_write's append: a new entry uses up one token of its operation.
LEMMA LogAppendPreserves ==
  ASSUME IndInv, NEW p \in Proc, LogAppend(p)
  PROVE  IndInv'
<1> DEFINE b == blk[p]
<1> USE DEF disk
<1>0. /\ UNCHANGED <<disk, outstanding, committing, buf, tail, mode, wrote>>
      /\ pc[p] = "append" /\ pc'[p] = "inop"
      /\ \A q \in Proc \ {p} : pc'[q] = pc[q] /\ blk'[q] = blk[q]
      /\ lh' = Absorb(lh, b) /\ dirty' = dirty \cup {b}
  BY DEF IndInv, TypeOK, LogAppend, Goto, Pin
<1>1. b \in Block /\ b \in wrote[p]
  BY <1>0 DEF IndInv, TypeOK, OpsOK
<1>2. /\ lh' \in Seq(Block) /\ Distinct(lh')
      /\ Logged(lh') = Logged(lh) \cup {b}
      /\ b \in Logged(lh) => lh' = lh
      /\ b \notin Logged(lh) => Len(lh') = Len(lh) + 1
  BY <1>0, <1>1, AbsorbLemma DEF IndInv, TypeOK
<1>3. TypeOK'
  BY <1>0, <1>1, <1>2 DEF IndInv, TypeOK, LogAppend, Goto, OpLabels
<1>4. InOp' = InOp /\ Held' \cup {b} = Held /\ b \notin Held'
  <2>1. InOp' = InOp
    BY <1>0 DEF InOp, OpLabels
  <2>2. \A q \in Proc \ {p} : pc[q] = "append" => blk[q] # b
    BY <1>0 DEF IndInv, OpsOK
  <2> QED
    BY <1>0, <2>1, <2>2 DEF Held
<1>5. /\ ~committing /\ Normal
      /\ \A q \in Proc : pc[q] \notin CommitLabels /\ pc'[q] \notin CommitLabels
  BY <1>0, OpExcludesCommit DEF OpLabels, CommitLabels
<1>6. CommitOK'
  BY <1>0, <1>4, <1>5 DEF IndInv, CommitOK, Normal
<1>7. OpsOK'
  BY <1>0, <1>2 DEF IndInv, OpsOK, OpLabels
<1>8. SpaceOK'
  <2>1. \A q \in Proc : Used(q) \in Nat /\ Used(q)' \in Nat /\ Used(q) <= Used(q)'
    <3> SUFFICES ASSUME NEW q \in Proc
                 PROVE  Used(q) \in Nat /\ Used(q)' \in Nat /\ Used(q) <= Used(q)'
      OBVIOUS
    <3>1. wrote[q] \subseteq wrote'[q] /\ IsFiniteSet(wrote'[q])
      BY <1>0, UsedType
    <3> QED
      BY <1>2, <3>1, UsedGrows
  <2>2. Tokens' \subseteq Tokens
    BY <1>4, <2>1, TokensSubset DEF InOp
  <2>3. CASE b \in Logged(lh)
    BY <1>0, <1>2, <2>2, <2>3, TokensShrink, OpsFinite DEF IndInv, TypeOK, SpaceOK
  <2>4. CASE b \notin Logged(lh)
    <3> DEFINE k == Used(p)
    <3>1. wrote[p] \cap Logged(lh') = (wrote[p] \cap Logged(lh)) \cup {b}
      BY <1>1, <1>2
    <3>2. Used(p)' = Cardinality((wrote[p] \cap Logged(lh)) \cup {b})
      BY <1>0, <3>1 DEF Used
    <3>3. Used(p)' = k + 1
      BY <2>4, <3>2, UsedType, FS_AddElement DEF Used
    <3>4. k + 1 <= Cardinality(wrote[p])
      <4>1. wrote[p] \cap Logged(lh') \subseteq wrote[p]
        OBVIOUS
      <4>2. IsFiniteSet(wrote[p])
        BY UsedType
      <4>3. Cardinality(wrote[p] \cap Logged(lh')) <= Cardinality(wrote[p])
        BY <4>1, <4>2, FS_Subset
      <4> QED
        BY <3>1, <3>2, <3>3, <4>3
    <3>5. k \in Nat /\ k + 1 \in 1..MAXOPBLOCKS
      <4>1. k \in Nat /\ Cardinality(wrote[p]) \in Nat /\ Cardinality(wrote[p]) <= OpBlocks
        BY UsedType
      <4> QED
        BY <3>4, <4>1
    <3> HIDE DEF k
    <3>6. k = Used(p)
      BY DEF k
    <3>7. <<p, k + 1>> \in Tokens
      <4>1. p \in InOp
        BY <1>0 DEF InOp, OpLabels
      <4> QED
        BY <4>1, <3>5, <3>6 DEF Tokens
    <3>8. <<p, k + 1>> \notin Tokens'
      BY <3>3, <3>5 DEF Tokens
    <3>9. Tokens' \subseteq Tokens \ {<<p, k + 1>>}
      BY <2>2, <3>8
    <3>10. /\ IsFiniteSet(Tokens \ {<<p, k + 1>>})
           /\ Cardinality(Tokens \ {<<p, k + 1>>}) = Cardinality(Tokens) - 1
      BY <3>7, OpsFinite, FS_RemoveElement
    <3>11. Cardinality(Tokens') <= Cardinality(Tokens) - 1
      BY <3>9, <3>10, FS_Subset
    <3>12. Cardinality(Tokens') \in Nat /\ Cardinality(Tokens) \in Nat
      BY <2>2, TokensShrink, OpsFinite
    <3> QED
      BY <1>0, <1>2, <2>4, <3>11, <3>12 DEF IndInv, TypeOK, SpaceOK
  <2> QED
    BY <2>3, <2>4
<1>9. CacheOK'
  BY <1>0, <1>2, <1>4, <1>5 DEF IndInv, CacheOK, At, Normal, CommitLabels
<1>10. LogOK'
  BY <1>0, <1>5 DEF IndInv, LogOK, At, Normal, CommitLabels
<1> QED
  BY <1>3, <1>6, <1>7, <1>8, <1>9, <1>10 DEF IndInv

\* Leaving an operation, common to both ways out of end_op.
LEMMA EndFacts ==
  ASSUME IndInv, NEW p \in Proc, EndOp(p) \/ EndLastOp(p)
  PROVE  /\ UNCHANGED <<disk, lh, buf, dirty, mode, blk>>
         /\ pc[p] = "inop" /\ pc'[p] \in {"idle", "done", "write_log"}
         /\ ~committing /\ Normal /\ \A q \in Proc : pc[q] \notin CommitLabels
         /\ wrote'[p] = {} /\ \A q \in Proc \ {p} : wrote'[q] = wrote[q]
         /\ outstanding' = outstanding - 1
         /\ InOp' = InOp \ {p} /\ p \in InOp
         /\ Held' = Held
         /\ Cardinality(InOp') = outstanding'
         /\ TypeOK' /\ OpsOK' /\ SpaceOK'
<1>0. pc[p] = "inop" /\ p \in InOp
  BY DEF EndOp, EndLastOp, InOp, OpLabels
<1>1. ~committing /\ Normal /\ \A q \in Proc : pc[q] \notin CommitLabels
  BY <1>0, OpExcludesCommit DEF OpLabels
<1>2. /\ UNCHANGED <<disk, lh, buf, dirty, mode, blk>>
      /\ wrote'[p] = {} /\ \A q \in Proc \ {p} : wrote'[q] = wrote[q]
      /\ outstanding' = outstanding - 1
  BY <1>1 DEF IndInv, TypeOK, EndOp, EndLastOp, PanicIfCommitting
<1>3. /\ pc'[p] \in {"idle", "done", "write_log"}
      /\ \A q \in Proc \ {p} : \/ pc'[q] = pc[q]
                               \/ pc[q] = "sleep" /\ pc'[q] = "woken"
  BY DEF IndInv, TypeOK, EndOp, EndLastOp, Goto, WakeGoto
<1>4. InOp' = InOp \ {p}
  BY <1>3 DEF InOp, OpLabels
<1>5. Held' = Held
  BY <1>0, <1>2, <1>3 DEF Held
<1>6. Cardinality(InOp') = outstanding'
  BY <1>0, <1>2, <1>4, OpsFinite, FS_RemoveElement DEF IndInv, CommitOK
<1>7. outstanding' \in Nat
  <2>1. IsFiniteSet(InOp')
    BY <1>4, OpsFinite, FS_RemoveElement
  <2> QED
    BY <1>6, <2>1, FS_CardinalityType
<1>8. TypeOK'
  <2>1. /\ pc' \in [Proc -> {"idle", "sleep", "woken"} \cup OpLabels \cup CommitLabels]
        /\ wrote' \in [Proc -> SUBSET Block]
    BY DEF IndInv, TypeOK, EndOp, EndLastOp, Goto, WakeGoto, CommitLabels
  <2>2. committing' \in BOOLEAN
    BY Zenon DEF IndInv, TypeOK, EndOp, EndLastOp
  <2>3. tail' \in Nat
    BY DEF IndInv, TypeOK, EndOp, EndLastOp
  <2> QED
    BY <1>2, <1>7, <2>1, <2>2, <2>3 DEF IndInv, TypeOK, disk
<1>9. OpsOK'
  <2>1. IsFiniteSet(wrote'[p]) /\ Cardinality(wrote'[p]) <= OpBlocks
    BY <1>2, FS_EmptySet
  <2> QED
    BY <1>2, <1>3, <2>1 DEF IndInv, OpsOK, OpLabels, disk
<1>10. SpaceOK'
  <2>1. \A q \in InOp' : Used(q) \in Nat /\ Used(q)' = Used(q)
    BY <1>2, <1>4, UsedType DEF InOp, Used
  <2>2. Tokens' \subseteq Tokens
    BY <1>4, <2>1, TokensSubset
  <2> QED
    BY <1>2, <2>2, TokensShrink, OpsFinite DEF IndInv, TypeOK, SpaceOK, disk
<1> QED
  BY <1>0, <1>1, <1>2, <1>3, <1>4, <1>5, <1>6, <1>8, <1>9, <1>10

\* end_op with other operations outstanding.
LEMMA EndOpPreserves ==
  ASSUME IndInv, NEW p \in Proc, EndOp(p)
  PROVE  IndInv'
<1>1. /\ UNCHANGED <<disk, lh, buf, dirty, mode, tail, committing>>
      /\ ~committing /\ Normal /\ Held' = Held
      /\ Cardinality(InOp') = outstanding'
      /\ TypeOK' /\ OpsOK' /\ SpaceOK'
      /\ \A q \in Proc : pc[q] \notin CommitLabels
  BY EndFacts DEF EndOp
<1>2. \A q \in Proc : pc'[q] \notin CommitLabels
  BY <1>1 DEF EndOp, WakeGoto, CommitLabels
<1>3. CommitOK'
  BY <1>1, <1>2 DEF CommitOK, Normal
<1>4. CacheOK'
  BY <1>1, <1>2 DEF IndInv, CacheOK, At, Normal, CommitLabels, Logged, disk
<1>5. LogOK'
  BY <1>1, <1>2 DEF IndInv, LogOK, At, Normal, CommitLabels, disk
<1> QED
  BY <1>1, <1>3, <1>4, <1>5 DEF IndInv

\* end_op of the last operation starts the commit.
LEMMA EndLastOpPreserves ==
  ASSUME IndInv, NEW p \in Proc, EndLastOp(p)
  PROVE  IndInv'
<1>1. /\ UNCHANGED <<disk, lh, buf, dirty, mode>>
      /\ ~committing /\ Normal /\ Held' = Held
      /\ Cardinality(InOp') = outstanding' /\ InOp' = InOp \ {p}
      /\ TypeOK' /\ OpsOK' /\ SpaceOK'
      /\ \A q \in Proc : pc[q] \notin CommitLabels
  BY EndFacts DEF EndLastOp
<1>2. /\ committing' /\ outstanding' = 0 /\ tail' = 1
      /\ pc'[p] = IF lh = << >> THEN "done" ELSE "write_log"
      /\ \A q \in Proc \ {p} : pc'[q] = pc[q]
  BY DEF IndInv, TypeOK, EndLastOp, Goto
<1>3. InOp' = {}
  <2>1. IsFiniteSet(InOp')
    BY <1>1, OpsFinite, FS_RemoveElement
  <2> QED
    BY <1>1, <1>2, <2>1, FS_EmptySet
<1>4. /\ \A q \in Proc : pc'[q] \in CommitLabels <=> q = p
      /\ At("write_log")' <=> lh # << >>
      /\ At("done")' <=> lh = << >>
      /\ ~At("write_head")' /\ ~At("install")' /\ ~At("clear")'
      /\ ~At("install") /\ ~At("clear")
  BY <1>1, <1>2 DEF At, CommitLabels
<1>5. CommitOK'
  BY <1>1, <1>2, <1>3, <1>4 DEF CommitOK, Normal
<1>6. CacheOK'
  BY <1>1, <1>2, <1>4, EmptyLog DEF IndInv, CacheOK, Normal, Logged, disk
<1>7. LogOK'
  <2>1. lh # << >> => 1 \in 1..Len(lh)
    BY DEF IndInv, TypeOK
  <2>2. mode' \in {"up", "panic"}
    BY <1>1 DEF Normal
  <2> QED
    BY <1>1, <1>2, <1>4, <2>1, <2>2 DEF IndInv, LogOK, Normal, disk
<1> QED
  BY <1>1, <1>5, <1>6, <1>7 DEF IndInv

\* What every step of the committing process leaves alone.
LEMMA CommitFacts ==
  ASSUME IndInv, NEW p \in Proc, NEW l \in CommitLabels, pc[p] \in CommitLabels,
         pc' = [pc EXCEPT ![p] = l], UNCHANGED <<outstanding, committing, mode, blk, wrote>>,
         Len(lh') <= LOGSIZE, Len(hdr') <= LOGSIZE, Len(lh') \in Nat
  PROVE  /\ CommitOK' /\ OpsOK' /\ SpaceOK'
         /\ Held = {} /\ Held' = {} /\ Normal /\ Normal'
         /\ \A k \in CommitLabels : (At(k) <=> k = pc[p]) /\ (At(k)' <=> k = l)
<1>1. /\ committing /\ InOp = {} /\ Held = {} /\ Normal /\ outstanding = 0
      /\ \A q \in Proc \ {p} : pc[q] \notin CommitLabels
  BY SoleCommitter
<1>2. pc'[p] = l /\ \A q \in Proc \ {p} : pc'[q] = pc[q]
  BY DEF IndInv, TypeOK
<1>3. InOp' = {}
  BY <1>1, <1>2 DEF InOp, CommitLabels, OpLabels
<1>4. Held' = {}
  BY <1>3 DEF InOp, Held, OpLabels
<1>5. \A k \in CommitLabels : (At(k) <=> k = pc[p]) /\ (At(k)' <=> k = l)
  BY <1>1, <1>2 DEF At
<1>6. Normal'
  BY <1>1 DEF Normal
<1>7. CommitOK'
  BY <1>1, <1>2, <1>3, <1>6, FS_EmptySet DEF CommitOK
<1>8. \A q \in Proc : pc'[q] \notin OpLabels /\ wrote'[q] = {}
  BY <1>1, <1>2, <1>3 DEF IndInv, OpsOK, InOp, OpLabels, CommitLabels
<1>9. OpsOK'
  <2>0. IsFiniteSet({}) /\ Cardinality({}) <= OpBlocks
    BY FS_EmptySet
  <2>1. \A q \in Proc : IsFiniteSet(wrote'[q]) /\ Cardinality(wrote'[q]) <= OpBlocks
    BY <1>8, <2>0, Zenon
  <2> QED
    BY <1>8, <2>1 DEF OpsOK, OpLabels
<1>10. SpaceOK'
  <2>1. Tokens' = {}
    BY <1>3 DEF Tokens
  <2> QED
    BY <2>1, FS_EmptySet DEF SpaceOK
<1> QED
  BY <1>1, <1>4, <1>5, <1>6, <1>7, <1>9, <1>10

\* One round of write_log: the pinned buffer reaches the log area.
LEMMA WriteLogPreserves ==
  ASSUME IndInv, NEW p \in Proc, WriteLog(p)
  PROVE  IndInv'
<1> DEFINE l == IF tail < Len(lh) THEN "write_log" ELSE "write_head"
<1>1. /\ UNCHANGED <<home, hdr, lh, outstanding, committing, dirty, mode, blk, wrote>>
      /\ pc[p] = "write_log" /\ pc' = [pc EXCEPT ![p] = l]
      /\ l \in CommitLabels /\ pc[p] \in CommitLabels
      /\ tail' = IF tail < Len(lh) THEN tail + 1 ELSE 1
  BY DEF WriteLog, Goto, CommitLabels
<1>2. Len(lh) \in Nat /\ Len(lh) <= LOGSIZE /\ Len(hdr) <= LOGSIZE
  BY OpsFinite DEF IndInv, TypeOK, SpaceOK
<1>3. /\ CommitOK' /\ OpsOK' /\ SpaceOK' /\ Held = {} /\ Held' = {}
      /\ Normal /\ Normal'
      /\ \A k \in CommitLabels : (At(k) <=> k = pc[p]) /\ (At(k)' <=> k = l)
  BY <1>1, <1>2, CommitFacts
<1>4. /\ At("write_log") /\ ~At("install") /\ ~At("clear") /\ ~At("done")
      /\ At("write_log")' <=> tail < Len(lh)
      /\ At("write_head")' <=> ~(tail < Len(lh))
      /\ ~At("install")' /\ ~At("clear")' /\ ~At("done")'
  BY <1>1, <1>3 DEF CommitLabels
<1>5. /\ tail \in 1..Len(lh) /\ tail \in 1..LOGSIZE /\ lh[tail] \in Block
      /\ \A i \in 1..(tail - 1) : logd[i] = buf[lh[i]]
      /\ dirty = Logged(lh) /\ lh[tail] \in dirty /\ hdr = << >>
  <2>1. /\ tail \in 1..Len(lh) /\ hdr = << >>
        /\ \A i \in 1..(tail - 1) : logd[i] = buf[lh[i]]
    BY <1>3, <1>4 DEF IndInv, LogOK
  <2>2. dirty = Logged(lh)
    BY <1>3, <1>4 DEF IndInv, CacheOK
  <2> QED
    BY <1>2, <2>1, <2>2 DEF IndInv, TypeOK, Logged
<1>6. /\ buf' = buf /\ View(lh[tail]) = buf[lh[tail]] /\ buf[lh[tail]] \in Val
      /\ logd' = [logd EXCEPT ![tail] = buf[lh[tail]]]
  <2>1. buf[lh[tail]] # NotCached
    BY <1>5 DEF IndInv, CacheOK
  <2> QED
    BY <1>5, <2>1 DEF IndInv, TypeOK, WriteLog, View
<1>7. TypeOK'
  BY <1>1, <1>2, <1>5, <1>6 DEF IndInv, TypeOK
<1>8. CacheOK'
  BY <1>1, <1>3, <1>4, <1>5, <1>6 DEF IndInv, CacheOK, Logged
<1>9. LogOK'
  <2>1. logd'[tail] = buf[lh[tail]] /\ \A i \in 1..(tail - 1) : logd'[i] = logd[i]
    BY <1>2, <1>5, <1>6 DEF IndInv, TypeOK
  <2>2. \A i \in 1..tail : logd'[i] = buf'[lh'[i]]
    BY <1>1, <1>5, <1>6, <2>1
  <2>3. tail < Len(lh) => tail' - 1 = tail /\ tail' \in 1..Len(lh')
    BY <1>1, <1>2, <1>5
  <2>4. ~(tail < Len(lh)) => Len(lh') = tail
    BY <1>1, <1>2, <1>5
  <2> QED
    BY <1>1, <1>3, <1>4, <1>5, <2>2, <2>3, <2>4 DEF LogOK, Normal
<1> QED
  BY <1>3, <1>7, <1>8, <1>9 DEF IndInv

\* write_head: the log area is complete when the header is written.
LEMMA WriteHeadPreserves ==
  ASSUME IndInv, NEW p \in Proc, WriteHead(p)
  PROVE  IndInv'
<1>1. /\ UNCHANGED <<home, logd, lh, outstanding, committing, buf, dirty, mode, blk,
                    wrote>>
      /\ hdr' = lh /\ tail' = 1
      /\ pc[p] = "write_head" /\ pc' = [pc EXCEPT ![p] = "install"]
      /\ "install" \in CommitLabels /\ pc[p] \in CommitLabels
  BY DEF WriteHead, Goto, CommitLabels
<1>2. Len(lh) \in Nat /\ Len(lh) <= LOGSIZE
  BY OpsFinite DEF IndInv, TypeOK, SpaceOK
<1>3. /\ CommitOK' /\ OpsOK' /\ SpaceOK' /\ Held = {} /\ Held' = {}
      /\ Normal /\ Normal'
      /\ \A k \in CommitLabels : (At(k) <=> k = pc[p]) /\ (At(k)' <=> k = "install")
  BY <1>1, <1>2, CommitFacts
<1>4. /\ At("write_head") /\ ~At("install") /\ ~At("clear") /\ ~At("done")
      /\ ~At("write_log")' /\ ~At("write_head")' /\ At("install")'
      /\ ~At("clear")' /\ ~At("done")'
  BY <1>1, <1>3 DEF CommitLabels
<1>5. lh # << >>
  BY <1>4 DEF IndInv, LogOK
<1>6. TypeOK'
  BY <1>1 DEF IndInv, TypeOK, CommitLabels
<1>7. CacheOK'
  <2>1. Logged(lh) = {lh[i] : i \in 1..Len(lh)}
    BY DEF IndInv, TypeOK, Logged
  <2> QED
    BY <1>1, <1>3, <1>4, <2>1 DEF IndInv, CacheOK
<1>8. LogOK'
  BY <1>1, <1>2, <1>3, <1>4, <1>5 DEF IndInv, TypeOK, LogOK, Normal
<1> QED
  BY <1>3, <1>6, <1>7, <1>8 DEF IndInv

\* One round of install_trans, during a commit or during recovery: the blocks
\* before tail stay installed, because no block has two entries.
LEMMA InstallFacts ==
  ASSUME IndInv, InstallBlock, UNCHANGED <<logd, lh>>, tail \in 1..Len(lh),
         Len(lh) <= LOGSIZE, \A i \in 1..(tail - 1) : home[lh[i]] = logd[i]
  PROVE  /\ lh[tail] \in Block /\ logd[tail] \in Val /\ Len(lh) \in Nat
         /\ home' \in [Block -> Val] /\ buf' \in [Block -> Val \cup {NotCached}]
         /\ home'[lh[tail]] = logd[tail] /\ buf'[lh[tail]] = logd[tail]
         /\ \A b \in Block \ {lh[tail]} : home'[b] = home[b] /\ buf'[b] = buf[b]
         /\ dirty' = dirty \ {lh[tail]}
         /\ \A i \in 1..Len(lh) : i # tail => lh[i] # lh[tail] /\ lh[i] \in Block
         /\ \A i \in 1..tail : home'[lh[i]] = logd[i]
         /\ IF tail < Len(lh) THEN tail' = tail + 1 /\ tail' \in 1..Len(lh)
                              ELSE tail' = 1 /\ tail = Len(lh)
<1>1. Len(lh) \in Nat /\ DOMAIN lh = 1..Len(lh) /\ \A i \in 1..Len(lh) : lh[i] \in Block
  BY DEF IndInv, TypeOK
<1>2. lh[tail] \in Block /\ logd[tail] \in Val /\ tail \in Nat
  BY <1>1 DEF IndInv, TypeOK
<1>3. \A i \in 1..Len(lh) : i # tail => lh[i] # lh[tail]
  BY <1>1 DEF IndInv, TypeOK, Distinct
<1>4. /\ home' \in [Block -> Val] /\ buf' \in [Block -> Val \cup {NotCached}]
      /\ home'[lh[tail]] = logd[tail] /\ buf'[lh[tail]] = logd[tail]
      /\ \A b \in Block \ {lh[tail]} : home'[b] = home[b] /\ buf'[b] = buf[b]
      /\ dirty' = dirty \ {lh[tail]}
  BY <1>2 DEF IndInv, TypeOK, InstallBlock
<1>5. \A i \in 1..tail : home'[lh[i]] = logd[i]
  <2> TAKE i \in 1..tail
  <2>1. CASE i = tail
    BY <1>4, <2>1
  <2>2. CASE i # tail
    BY <1>1, <1>2, <1>3, <1>4, <2>2
  <2> QED
    BY <2>1, <2>2
<1>6. IF tail < Len(lh) THEN tail' = tail + 1 /\ tail' \in 1..Len(lh)
                        ELSE tail' = 1 /\ tail = Len(lh)
  <2>1. tail' = IF tail < Len(lh) THEN tail + 1 ELSE 1
    BY DEF InstallBlock
  <2>2. CASE tail < Len(lh)
    BY <1>1, <1>2, <2>1, <2>2
  <2>3. CASE ~(tail < Len(lh))
    <3>1. \A m, n \in Nat : m \in 1..n /\ ~(m < n) => m = n
      OBVIOUS
    <3>2. tail = Len(lh)
      BY <1>1, <1>2, <2>3, <3>1, Zenon
    <3> QED
      BY <2>1, <2>3, <3>2
  <2> QED
    BY <2>2, <2>3
<1> QED
  BY <1>1, <1>2, <1>3, <1>4, <1>5, <1>6

\* install_trans of a commit: the buffer is unpinned as its block is installed.
LEMMA InstallPreserves ==
  ASSUME IndInv, NEW p \in Proc, Install(p)
  PROVE  IndInv'
<1> DEFINE l == IF tail < Len(lh) THEN "install" ELSE "clear"
<1>1. /\ UNCHANGED <<logd, hdr, lh, outstanding, committing, mode, blk, wrote>>
      /\ pc[p] = "install" /\ pc' = [pc EXCEPT ![p] = l]
      /\ l \in CommitLabels /\ pc[p] \in CommitLabels
      /\ InstallBlock
  BY DEF Install, Goto, CommitLabels
<1>2. Len(lh) \in Nat /\ Len(lh) <= LOGSIZE /\ Len(hdr) <= LOGSIZE
  BY OpsFinite DEF IndInv, TypeOK, SpaceOK
<1>3. /\ CommitOK' /\ OpsOK' /\ SpaceOK' /\ Held = {} /\ Held' = {}
      /\ Normal /\ Normal'
      /\ \A k \in CommitLabels : (At(k) <=> k = pc[p]) /\ (At(k)' <=> k = l)
  BY <1>1, <1>2, CommitFacts
<1>4. /\ At("install") /\ ~At("clear") /\ ~At("done")
      /\ At("install")' <=> tail < Len(lh)
      /\ At("clear")' <=> ~(tail < Len(lh))
      /\ ~At("write_log")' /\ ~At("write_head")' /\ ~At("done")'
  BY <1>1, <1>3 DEF CommitLabels
<1>5. /\ tail \in 1..Len(lh) /\ hdr = lh
      /\ \A i \in tail..Len(lh) : logd[i] = buf[lh[i]]
      /\ \A i \in 1..(tail - 1) : home[lh[i]] = logd[i]
      /\ dirty = {lh[i] : i \in tail..Len(lh)}
  BY <1>4 DEF IndInv, LogOK, CacheOK
<1>6. /\ lh[tail] \in Block /\ logd[tail] \in Val
      /\ home' \in [Block -> Val] /\ buf' \in [Block -> Val \cup {NotCached}]
      /\ home'[lh[tail]] = logd[tail] /\ buf'[lh[tail]] = logd[tail]
      /\ \A b \in Block \ {lh[tail]} : home'[b] = home[b] /\ buf'[b] = buf[b]
      /\ dirty' = dirty \ {lh[tail]}
      /\ \A i \in 1..Len(lh) : i # tail => lh[i] # lh[tail] /\ lh[i] \in Block
      /\ \A i \in 1..tail : home'[lh[i]] = logd[i]
      /\ IF tail < Len(lh) THEN tail' = tail + 1 /\ tail' \in 1..Len(lh)
                           ELSE tail' = 1 /\ tail = Len(lh)
  BY <1>1, <1>2, <1>5, InstallFacts
<1>7. TypeOK'
  BY <1>1, <1>2, <1>6 DEF IndInv, TypeOK
<1>8. CacheOK'
  <2>1. dirty' = {lh[i] : i \in (tail + 1)..Len(lh)}
    BY <1>2, <1>5, <1>6
  <2>2. \A b \in Block : b \notin dirty' => buf'[b] \in {NotCached, home'[b]}
    BY <1>3, <1>6 DEF IndInv, CacheOK
  <2>3. \A b \in Block : b \in dirty' => buf'[b] # NotCached
    BY <1>3, <1>6 DEF IndInv, CacheOK
  <2>4. ~(tail < Len(lh)) => dirty' = {}
    BY <1>2, <1>5, <2>1
  <2>5. tail < Len(lh) => dirty' = {lh'[i] : i \in tail'..Len(lh')}
    BY <1>1, <1>6, <2>1
  <2> QED
    BY <1>3, <1>4, <2>2, <2>3, <2>4, <2>5 DEF CacheOK
<1>9. LogOK'
  <2>1. ASSUME tail < Len(lh)
        PROVE  /\ \A i \in tail'..Len(lh) : logd[i] = buf'[lh[i]]
               /\ \A i \in 1..(tail' - 1) : home'[lh[i]] = logd[i]
    <3>1. tail' = tail + 1 /\ tail \in Nat /\ 0 < tail
      BY <1>2, <1>5, <1>6, <2>1
    <3>2. ASSUME NEW i \in tail'..Len(lh) PROVE logd[i] = buf'[lh[i]]
      <4>1. i \in tail..Len(lh) /\ i \in 1..Len(lh) /\ i # tail
        BY <1>2, <3>1
      <4> QED
        BY <1>5, <1>6, <4>1
    <3>3. tail' - 1 = tail
      BY <3>1
    <3> QED
      BY <1>6, <3>2, <3>3
  <2>2. ~(tail < Len(lh)) => \A i \in 1..Len(lh) : home'[lh[i]] = logd[i]
    BY <1>6
  <2> QED
    BY <1>1, <1>3, <1>4, <1>5, <1>6, <2>1, <2>2 DEF LogOK, Normal
<1> QED
  BY <1>3, <1>7, <1>8, <1>9 DEF IndInv

\* The transaction is erased from the log.
LEMMA ClearPreserves ==
  ASSUME IndInv, NEW p \in Proc, Clear(p)
  PROVE  IndInv'
<1>1. /\ UNCHANGED <<home, logd, outstanding, committing, buf, dirty, tail, mode, blk,
                    wrote>>
      /\ hdr' = << >> /\ lh' = << >>
      /\ pc[p] = "clear" /\ pc' = [pc EXCEPT ![p] = "done"]
      /\ "done" \in CommitLabels /\ pc[p] \in CommitLabels
  BY DEF Clear, ClearHead, Goto, CommitLabels
<1>2. /\ CommitOK' /\ OpsOK' /\ SpaceOK' /\ Held = {} /\ Held' = {}
      /\ Normal /\ Normal'
      /\ \A k \in CommitLabels : (At(k) <=> k = pc[p]) /\ (At(k)' <=> k = "done")
  <2>1. Len(lh') \in Nat /\ Len(lh') <= LOGSIZE /\ Len(hdr') <= LOGSIZE
    BY <1>1, EmptyLog
  <2> QED
    BY <1>1, <2>1, CommitFacts
<1>3. /\ At("clear") /\ ~At("write_log")' /\ ~At("write_head")'
      /\ ~At("install")' /\ ~At("clear")' /\ At("done")'
  BY <1>1, <1>2 DEF CommitLabels
<1>4. TypeOK'
  BY <1>1, EmptyLog DEF IndInv, TypeOK
<1>5. CacheOK'
  BY <1>1, <1>2, <1>3, EmptyLog DEF IndInv, CacheOK
<1>6. LogOK'
  BY <1>1, <1>2, <1>3 DEF LogOK, Normal
<1> QED
  BY <1>2, <1>4, <1>5, <1>6 DEF IndInv

\* The end of a commit: operations may begin again.
LEMMA CommitDonePreserves ==
  ASSUME IndInv, NEW p \in Proc, CommitDone(p)
  PROVE  IndInv'
<1>1. /\ UNCHANGED <<disk, lh, outstanding, buf, dirty, tail, mode, blk, wrote>>
      /\ committing' = FALSE /\ pc[p] = "done" /\ pc'[p] = "idle"
      /\ \A q \in Proc \ {p} : pc'[q] = IF pc[q] = "sleep" THEN "woken" ELSE pc[q]
      /\ pc[p] \in CommitLabels
  BY DEF CommitDone, WakeGoto, CommitLabels
<1>2. /\ InOp = {} /\ Held = {} /\ Normal /\ outstanding = 0
      /\ \A q \in Proc \ {p} : pc[q] \notin CommitLabels
  BY <1>1, SoleCommitter
<1>3. \A q \in Proc : pc'[q] \notin CommitLabels /\ pc'[q] \notin OpLabels
  BY <1>1, <1>2 DEF InOp, CommitLabels, OpLabels
<1>4. InOp' = {} /\ Held' = {} /\ Tokens' = {}
  <2>1. InOp' = {} /\ Held' = {}
    BY <1>3 DEF InOp, Held, OpLabels
  <2> QED
    BY <2>1 DEF Tokens
<1>5. At("done") /\ ~At("install") /\ ~At("clear")
  BY <1>1, <1>2 DEF At, CommitLabels
<1>6. TypeOK'
  BY <1>1 DEF IndInv, TypeOK, CommitDone, WakeGoto, disk
<1>7. CommitOK'
  BY <1>1, <1>2, <1>3, <1>4, FS_EmptySet DEF CommitOK, Normal
<1>8. OpsOK'
  BY <1>1, <1>3 DEF IndInv, OpsOK, OpLabels, CommitLabels
<1>9. SpaceOK'
  BY <1>1, <1>4, OpsFinite, FS_EmptySet DEF IndInv, TypeOK, SpaceOK, disk
<1>10. CacheOK'
  BY <1>1, <1>2, <1>3, <1>4, <1>5 DEF IndInv, CacheOK, At, Normal, CommitLabels, Logged, disk
<1>11. LogOK'
  BY <1>1, <1>2, <1>3, <1>5 DEF IndInv, LogOK, At, Normal, CommitLabels, disk
<1> QED
  BY <1>6, <1>7, <1>8, <1>9, <1>10, <1>11 DEF IndInv

\* During recovery no process runs.
LEMMA RecoverFacts ==
  ASSUME IndInv, ~Normal, UNCHANGED <<outstanding, committing, call>>,
         Len(lh') \in Nat, Len(lh') <= LOGSIZE, Len(hdr') <= LOGSIZE
  PROVE  /\ CommitOK' /\ OpsOK' /\ SpaceOK' /\ Held = {} /\ Held' = {} /\ dirty = {}
         /\ \A l : l # "idle" => ~At(l) /\ ~At(l)'
<1> USE DEF call
<1>1. \A p \in Proc : pc[p] = "idle" /\ pc'[p] = "idle"
  BY DEF IndInv, CommitOK
<1>2. InOp = {} /\ InOp' = {} /\ Held = {} /\ Held' = {}
  BY <1>1 DEF InOp, Held, OpLabels
<1>3. CommitOK'
  <2>1. ~committing
    BY <1>1 DEF IndInv, CommitOK, CommitLabels
  <2> QED
    BY <1>1, <1>2, <2>1 DEF IndInv, CommitOK, CommitLabels
<1>4. OpsOK'
  BY <1>1 DEF IndInv, OpsOK, OpLabels
<1>5. SpaceOK'
  <2>1. Tokens' = {}
    BY <1>2 DEF Tokens
  <2> QED
    BY <2>1, FS_EmptySet DEF SpaceOK
<1>6. dirty = {}
  BY DEF IndInv, CacheOK
<1> QED
  BY <1>1, <1>2, <1>3, <1>4, <1>5, <1>6 DEF At

\* recover_from_log: read_head, install_trans and the erasure of the log.
LEMMA RecoverPreserves == IndInv /\ Recover => IndInv'
<1> SUFFICES ASSUME IndInv, Recover PROVE IndInv'
  OBVIOUS
<1>0. Len(lh) \in Nat /\ Len(hdr) \in Nat /\ Len(lh) <= LOGSIZE /\ Len(hdr) <= LOGSIZE
  BY OpsFinite DEF IndInv, TypeOK, SpaceOK
<1>1. CASE ReadHead
  <2>1. /\ UNCHANGED <<disk, outstanding, committing, buf, dirty, call>>
        /\ lh' = hdr /\ tail' = 1 /\ mode = "read_head" /\ ~Normal /\ ~Normal'
        /\ mode' = IF hdr = << >> THEN "clear" ELSE "install"
    BY <1>1 DEF ReadHead, Normal
  <2>2. /\ CommitOK' /\ OpsOK' /\ SpaceOK' /\ Held = {} /\ Held' = {} /\ dirty = {}
        /\ \A l : l # "idle" => ~At(l) /\ ~At(l)'
    BY <1>0, <2>1, RecoverFacts DEF disk
  <2>3. TypeOK'
    BY <2>1 DEF IndInv, TypeOK, disk, call
  <2>4. CacheOK'
    BY <2>1, <2>2 DEF IndInv, CacheOK, disk
  <2>5. LogOK'
    <3>1. hdr # << >> => 1 \in 1..Len(hdr)
      BY DEF IndInv, TypeOK
    <3>2. hdr = << >> => Len(hdr) = 0
      BY EmptyLog
    <3> QED
      BY <2>1, <2>2, <3>1, <3>2 DEF LogOK, disk
  <2> QED
    BY <2>2, <2>3, <2>4, <2>5 DEF IndInv
<1>2. CASE RecoverInstall
  <2>1. /\ UNCHANGED <<logd, hdr, lh, outstanding, committing, call>>
        /\ InstallBlock /\ mode = "install" /\ ~Normal /\ ~Normal'
        /\ mode' = IF tail < Len(lh) THEN "install" ELSE "clear"
    BY <1>2 DEF RecoverInstall, Normal
  <2>2. /\ CommitOK' /\ OpsOK' /\ SpaceOK' /\ Held = {} /\ Held' = {} /\ dirty = {}
        /\ \A l : l # "idle" => ~At(l) /\ ~At(l)'
    BY <1>0, <2>1, RecoverFacts
  <2>3. /\ tail \in 1..Len(lh) /\ hdr = lh
        /\ \A i \in 1..(tail - 1) : home[lh[i]] = logd[i]
    BY <2>1 DEF IndInv, LogOK
  <2>4. /\ lh[tail] \in Block /\ logd[tail] \in Val
        /\ home' \in [Block -> Val] /\ buf' \in [Block -> Val \cup {NotCached}]
        /\ home'[lh[tail]] = logd[tail] /\ buf'[lh[tail]] = logd[tail]
        /\ \A b \in Block \ {lh[tail]} : home'[b] = home[b] /\ buf'[b] = buf[b]
        /\ dirty' = dirty \ {lh[tail]}
        /\ \A i \in 1..tail : home'[lh[i]] = logd[i]
        /\ IF tail < Len(lh) THEN tail' = tail + 1 /\ tail' \in 1..Len(lh)
                             ELSE tail' = 1 /\ tail = Len(lh)
    BY <1>0, <2>1, <2>3, InstallFacts
  <2>5. TypeOK'
    BY <1>0, <2>1, <2>4 DEF IndInv, TypeOK, call
  <2>6. CacheOK'
    BY <2>1, <2>2, <2>4 DEF IndInv, CacheOK
  <2>7. LogOK'
    <3>1. tail < Len(lh) => tail' - 1 = tail
      BY <1>0, <2>3, <2>4
    <3> QED
      BY <2>1, <2>2, <2>3, <2>4, <3>1 DEF LogOK
  <2> QED
    BY <2>2, <2>5, <2>6, <2>7 DEF IndInv
<1>3. CASE RecoverClear
  <2>1. /\ UNCHANGED <<home, logd, outstanding, committing, buf, dirty, tail, call>>
        /\ lh' = << >> /\ hdr' = << >> /\ mode = "clear" /\ mode' = "up" /\ ~Normal
    BY <1>3 DEF RecoverClear, ClearHead, Normal
  <2>2. Len(lh') = 0 /\ Len(hdr') = 0
    BY <2>1, EmptyLog
  <2>3. /\ CommitOK' /\ OpsOK' /\ SpaceOK' /\ Held = {} /\ Held' = {} /\ dirty = {}
        /\ \A l : l # "idle" => ~At(l) /\ ~At(l)'
    BY <2>1, <2>2, RecoverFacts
  <2>4. TypeOK'
    BY <2>1, EmptyLog DEF IndInv, TypeOK, call
  <2>5. CacheOK'
    BY <2>1, <2>3, EmptyLog DEF IndInv, CacheOK
  <2>6. LogOK'
    BY <2>1, <2>3 DEF LogOK
  <2> QED
    BY <2>3, <2>4, <2>5, <2>6 DEF IndInv
<1> QED
  BY <1>1, <1>2, <1>3 DEF Recover

\* The invariant is inductive over the whole next-state relation.
LEMMA NextPreserves == IndInv /\ [Next]_vars => IndInv'
<1> SUFFICES ASSUME IndInv, [Next]_vars PROVE IndInv'
  OBVIOUS
<1>1. ASSUME NEW p \in Proc, BeginOp(p) \/ BeginSleep(p) \/ Kill(p) \/ Step(p)
      PROVE  IndInv'
  BY <1>1, BeginOpPreserves, SleepPreserves, LogAppendPreserves, EndOpPreserves,
     EndLastOpPreserves, WriteLogPreserves, WriteHeadPreserves, InstallPreserves,
     ClearPreserves, CommitDonePreserves DEF Step
<1>2. ASSUME NEW p \in Proc, NEW b \in Block,
             LogWritePanic(p, b) \/ \E v \in Val : LogWrite(p, b, v)
      PROVE  IndInv'
  BY <1>2, PanicPreserves, LogWritePreserves
<1>3. ASSUME NEW b \in Block, Bread(b) \/ Evict(b) PROVE IndInv'
  BY <1>3, CachePreserves
<1>4. CASE UNCHANGED vars
  <2>1. UNCHANGED <<home, logd, hdr, lh, outstanding, committing, buf, dirty, tail, mode,
                    pc, blk, wrote>>
    BY <1>4 DEF vars, disk, mem, call
  <2>2. /\ InOp' = InOp /\ Held' = Held /\ Tokens' = Tokens
        /\ Logged(lh)' = Logged(lh) /\ Normal' = Normal
        /\ \A l : At(l)' <=> At(l)
    BY <2>1 DEF InOp, Held, Logged, Tokens, Used, Normal, At
  <2>3. TypeOK' /\ CommitOK' /\ OpsOK' /\ SpaceOK'
    BY <2>1, <2>2 DEF IndInv, TypeOK, CommitOK, OpsOK, SpaceOK
  <2>4. CacheOK' /\ LogOK'
    BY <2>1, <2>2 DEF IndInv, CacheOK, LogOK
  <2> QED
    BY <2>3, <2>4 DEF IndInv
<1> QED
  BY <1>1, <1>2, <1>3, <1>4, RecoverPreserves, CrashPreserves DEF Next

\* The inductive invariant of log.c holds at all times, crashes included.
THEOREM InvariantHolds == Spec => []IndInv
  BY InitEstablishes, NextPreserves, PTL DEF Spec

\* Types; no block has two entries in the log, in memory or on disk.
THEOREM TypeCorrect == Spec => []TypeOK
<1>1. IndInv => TypeOK
  BY DEF IndInv
<1> QED
  BY <1>1, InvariantHolds, PTL

-----------------------------------------------------------------------------
(* Durability *)

\* The last end_op empties the log before another operation begins.
LEMMA QuietPreserves ==
  ASSUME IndInv, IndInv', QuietOK, [Next]_vars
  PROVE  QuietOK'
<1>1. ASSUME NEW p \in Proc, BeginOp(p) \/ LogAppend(p) \/ \E b \in Block, v \in Val : LogWrite(p, b, v)
      PROVE  InOp' # {}
  <2>1. pc'[p] \in OpLabels
    BY <1>1 DEF IndInv, TypeOK, BeginOp, LogAppend, LogWrite, Goto, OpLabels
  <2> QED
    BY <2>1 DEF InOp
<1>2. ASSUME NEW p \in Proc, EndOp(p) PROVE InOp' # {}
  <2>1. outstanding' # 0
    BY <1>2 DEF EndOp
  <2> QED
    BY <2>1, FS_EmptySet DEF IndInv, CommitOK
<1>3. ASSUME NEW p \in Proc, EndLastOp(p) PROVE committing'
  BY <1>3 DEF EndLastOp
<1>4. ASSUME NEW p \in Proc, pc'[p] \in CommitLabels PROVE committing'
  BY <1>4 DEF IndInv, CommitOK
<1>5. ASSUME NEW p \in Proc, WriteLog(p) \/ WriteHead(p) \/ Install(p) \/ Clear(p)
      PROVE  committing'
  <2>1. pc'[p] \in CommitLabels
    BY <1>5 DEF IndInv, TypeOK, WriteLog, WriteHead, Install, Clear, Goto, CommitLabels
  <2> QED
    BY <1>4, <2>1
<1>6. ASSUME NEW p \in Proc, CommitDone(p) PROVE lh' = << >>
  BY <1>6 DEF IndInv, LogOK, At, CommitDone
<1>7. ASSUME NEW p \in Proc, BeginSleep(p) \/ Kill(p) PROVE QuietOK'
  <2>1. InOp' = InOp
    BY <1>7 DEF IndInv, TypeOK, BeginSleep, Kill, Goto, InOp, OpLabels
  <2> QED
    BY <1>7, <2>1 DEF QuietOK, BeginSleep, Kill, mem, Normal
<1>8. ASSUME NEW p \in Proc, NEW b \in Block, LogWritePanic(p, b) PROVE QuietOK'
  BY <1>8 DEF QuietOK, LogWritePanic, MayWrite, mem, call, Normal, InOp
<1>9. ASSUME NEW b \in Block, Bread(b) \/ Evict(b) PROVE QuietOK'
  BY <1>9 DEF QuietOK, Bread, Evict, call, Normal, InOp
<1>10. ASSUME Recover \/ Crash PROVE QuietOK'
  BY <1>10 DEF QuietOK, Recover, ReadHead, RecoverInstall, RecoverClear, ClearHead, Crash,
               Normal
<1>11. CASE UNCHANGED vars
  BY <1>11 DEF QuietOK, vars, mem, call, Normal, InOp
<1> QED
  BY <1>1, <1>2, <1>3, <1>5, <1>6, <1>7, <1>8, <1>9, <1>10, <1>11 DEF Next, Step, QuietOK

\* With no header on disk, a reboot finds the home locations.
LEMMA RecoveredEmpty == hdr = << >> /\ TypeOK => Recovered = home
  BY EmptyLog DEF Recovered, TypeOK

\* When the last end_op has returned, everything written is durable.
THEOREM DurableWhenQuiet == Spec => []QuiescentDurable
<1>1. Init => QuietOK
  BY DEF Init, QuietOK, Normal
<1>2. IndInv /\ QuietOK => QuiescentDurable
  <2> SUFFICES ASSUME IndInv, QuietOK, mode = "up", outstanding = 0, ~committing
               PROVE  Recovered = [b \in Block |-> View(b)]
    BY DEF QuiescentDurable
  <2>1. InOp = {}
    BY OpsFinite, FS_EmptySet DEF IndInv, CommitOK
  <2>2. Held = {} /\ lh = << >>
    BY <2>1 DEF QuietOK, Normal, InOp, Held, OpLabels
  <2>3. ~At("install") /\ ~At("clear")
    BY NoCommitter DEF At, CommitLabels
  <2>4. dirty = {} /\ hdr = << >>
    BY <2>2, <2>3, EmptyLog DEF IndInv, CacheOK, LogOK, Normal
  <2>5. \A b \in Block : View(b) = home[b]
    BY <2>2, <2>4 DEF IndInv, CacheOK, View
  <2> QED
    BY <2>4, <2>5, RecoveredEmpty DEF IndInv, TypeOK
<1> QED
  BY <1>1, <1>2, InvariantHolds, QuietPreserves, PTL DEF Spec

\* begin_op sleeps only while an operation or a commit is in progress: an empty
\* log has room for one operation.
LEMMA SleepReason ==
  ASSUME IndInv, QuietOK, NEW p \in Proc, BeginSleep(p)
  PROVE  committing \/ outstanding > 0
<1> SUFFICES ASSUME ~committing, ~(outstanding > 0) PROVE FALSE
  OBVIOUS
<1>1. outstanding = 0
  BY DEF IndInv, TypeOK
<1>2. InOp = {}
  BY <1>1, OpsFinite, FS_EmptySet DEF IndInv, CommitOK
<1>3. lh = << >>
  BY <1>2 DEF QuietOK, Normal, BeginSleep
<1>4. 0 + (0 + 1) * MAXOPBLOCKS > LOGSIZE
  BY <1>1, <1>3, EmptyLog DEF BeginSleep, MustWait, LogFull
<1> QED
  BY <1>4, SizeAssumption

\* The induction step: both ends of an operation that could leave a sleeper
\* with nothing to wait for wake every sleeper.
LEMMA WakerPreserves ==
  ASSUME IndInv, IndInv', QuietOK, SleeperHasWaker, [Next]_vars
  PROVE  SleeperHasWaker'
<1>1. ASSUME NEW p \in Proc, BeginOp(p) \/ EndLastOp(p) PROVE committing' \/ outstanding' > 0
  BY <1>1 DEF IndInv, TypeOK, BeginOp, EndLastOp
<1>2. ASSUME NEW p \in Proc, BeginSleep(p) PROVE committing' \/ outstanding' > 0
  BY <1>2, SleepReason DEF BeginSleep, mem
<1>3. ASSUME NEW p \in Proc, EndOp(p) \/ CommitDone(p), NEW q \in Proc PROVE pc'[q] # "sleep"
  BY <1>3 DEF EndOp, CommitDone, WakeGoto
<1>4. ASSUME Crash, NEW q \in Proc PROVE pc'[q] # "sleep"
  BY <1>4 DEF Crash
<1>5. ASSUME UNCHANGED <<outstanding, committing>>,
             \A q \in Proc : pc'[q] = "sleep" => pc[q] = "sleep"
      PROVE  SleeperHasWaker'
  BY <1>5 DEF SleeperHasWaker
<1>6. ASSUME NEW p \in Proc,
             \/ Kill(p) \/ LogAppend(p) \/ WriteLog(p) \/ WriteHead(p) \/ Install(p) \/ Clear(p)
             \/ \E b \in Block : LogWritePanic(p, b) \/ \E v \in Val : LogWrite(p, b, v)
      PROVE  SleeperHasWaker'
  <2>1. UNCHANGED <<outstanding, committing>>
    BY <1>6 DEF Kill, LogAppend, WriteLog, WriteHead, Install, Clear, LogWritePanic, LogWrite, mem
  <2>2. ASSUME NEW q \in Proc, pc'[q] = "sleep" PROVE pc[q] = "sleep"
    BY <1>6, <2>2 DEF IndInv, TypeOK, Kill, LogAppend, WriteLog, WriteHead, Install, Clear,
                      LogWritePanic, LogWrite, Goto, call
  <2> QED
    BY <1>5, <2>1, <2>2
<1>7. ASSUME (\E b \in Block : Bread(b) \/ Evict(b)) \/ Recover \/ UNCHANGED vars
      PROVE  SleeperHasWaker'
  <2>1. UNCHANGED <<outstanding, committing, pc>>
    BY <1>7 DEF Bread, Evict, Recover, ReadHead, RecoverInstall, RecoverClear, vars, mem, call
  <2> QED
    BY <1>5, <2>1
<1> QED
  BY <1>1, <1>2, <1>3, <1>4, <1>6, <1>7 DEF Next, Step, SleeperHasWaker

\* A process asleep in begin_op always waits for an operation or a commit that
\* is in progress and will wake it, whatever crashes and kills there are.
THEOREM SleeperHasWakerHolds == Spec => []SleeperHasWaker
<1>1. Init => QuietOK
  BY DEF Init, QuietOK, Normal
<1>2. Init => SleeperHasWaker
  BY DEF Init, SleeperHasWaker
<1> QED
  BY <1>1, <1>2, InvariantHolds, QuietPreserves, WakerPreserves, PTL DEF Spec

-----------------------------------------------------------------------------
(* No panic *)

\* The tokens of one operation above the number k, when it has used no more.
LEMMA Row ==
  ASSUME IndInv, NEW p \in InOp, NEW k \in 0..MAXOPBLOCKS, Used(p) <= k
  PROVE  LET R == {p} \X ((k + 1)..MAXOPBLOCKS)
         IN  IsFiniteSet(R) /\ Cardinality(R) = MAXOPBLOCKS - k /\ R \subseteq Tokens
<1> DEFINE I == (k + 1)..MAXOPBLOCKS
           R == {p} \X I
<1>1. IsFiniteSet(I) /\ Cardinality(I) = MAXOPBLOCKS - k
  <2>1. /\ IsFiniteSet(I)
        /\ Cardinality(I) = IF k + 1 > MAXOPBLOCKS THEN 0 ELSE MAXOPBLOCKS - (k + 1) + 1
    BY FS_Interval
  <2> HIDE DEF I
  <2> QED
    BY <2>1
<1>2. IsFiniteSet({p}) /\ Cardinality({p}) = 1
  BY FS_Singleton
<1>3. R \subseteq Tokens
  <2> SUFFICES ASSUME NEW i \in I PROVE <<p, i>> \in Tokens
    OBVIOUS
  <2>1. i \in 1..MAXOPBLOCKS /\ i > Used(p)
    <3>1. Used(p) \in Nat
      BY UsedType DEF InOp
    <3> QED
      BY <3>1
  <2> QED
    BY <2>1 DEF Tokens
<1> HIDE DEF I
<1>4. IsFiniteSet(R) /\ Cardinality(R) = Cardinality({p}) * Cardinality(I)
  BY <1>1, <1>2, FS_Product, Zenon
<1>5. Cardinality(R) = 1 * (MAXOPBLOCKS - k)
  BY <1>1, <1>2, <1>4, Zenon
<1> HIDE DEF R
<1>6. Cardinality(R) = MAXOPBLOCKS - k
  BY <1>5
<1> QED
  BY <1>3, <1>4, <1>6 DEF R, I

\* What an operation has in the log, at most.
UsedOK == \A p \in InOp : Used(p) \in 0..OpBlocks

\* Beside another operation there is what that one will not use.
BesideOK ==
  \A p, q \in InOp : p # q => Len(lh) + (OpBlocks - Used(p)) + 2 * Spare <= LOGSIZE

\* No operation uses more than it may write.
LEMMA UsedFits == IndInv => UsedOK
<1> SUFFICES ASSUME IndInv, NEW p \in InOp PROVE Used(p) \in 0..OpBlocks
  BY DEF UsedOK
<1>1. /\ Used(p) \in Nat /\ Used(p) <= Cardinality(wrote[p])
      /\ Cardinality(wrote[p]) \in Nat /\ Cardinality(wrote[p]) <= OpBlocks
  BY UsedType DEF InOp
<1> QED
  BY <1>1

\* Two operations have their reservations side by side.
LEMMA OtherRoom == IndInv => BesideOK
<1> SUFFICES ASSUME IndInv, NEW p \in InOp, NEW q \in InOp, p # q
             PROVE  Len(lh) + (OpBlocks - Used(p)) + 2 * Spare <= LOGSIZE
  BY DEF BesideOK
<1> DEFINE R == {p} \X ((Used(p) + 1)..MAXOPBLOCKS)
           S == {q} \X ((OpBlocks + 1)..MAXOPBLOCKS)
<1>1. Used(p) \in 0..OpBlocks /\ Used(q) \in 0..OpBlocks
  BY UsedFits DEF UsedOK
<1>2. Used(p) \in 0..MAXOPBLOCKS /\ Used(p) <= Used(p)
  BY <1>1
<1>3. OpBlocks \in 0..MAXOPBLOCKS /\ Used(q) <= OpBlocks
  BY <1>1
<1>4. IsFiniteSet(R) /\ Cardinality(R) = MAXOPBLOCKS - Used(p) /\ R \subseteq Tokens
  BY <1>2, Row
<1>5. IsFiniteSet(S) /\ Cardinality(S) = MAXOPBLOCKS - OpBlocks /\ S \subseteq Tokens
  BY <1>3, Row
<1>6. R \cap S = {}
  OBVIOUS
<1> HIDE DEF R, S
<1>7. Cardinality(R \cup S) = Cardinality(R) + Cardinality(S) - Cardinality(R \cap S)
  BY <1>4, <1>5, FS_Union
<1>8. Cardinality(R \cap S) = 0
  BY <1>6, FS_EmptySet
<1>9. R \cup S \subseteq Tokens
  BY <1>4, <1>5
<1>10. Cardinality(R \cup S) <= Cardinality(Tokens)
  BY <1>9, OpsFinite, FS_Subset
<1>11. Len(lh) + Cardinality(Tokens) <= LOGSIZE /\ Len(lh) \in Nat /\ Cardinality(Tokens) \in Nat
  BY OpsFinite DEF IndInv, SpaceOK, TypeOK
<1> QED
  BY <1>1, <1>4, <1>5, <1>7, <1>8, <1>10, <1>11 DEF Spare

\* An operation that is alone has had the room since it started, with an empty log
\* or beside another one.
LEMMA TwicePreserves ==
  ASSUME IndInv, IndInv', QuietOK, TwiceOK, [Next]_vars
  PROVE  TwiceOK'
<1> SUFFICES ASSUME 2 * MAXOPBLOCKS <= LOGSIZE, NEW p \in InOp'
             PROVE  Len(lh') + (OpBlocks - Used(p)') + 2 * Spare <= LOGSIZE
  BY DEF TwiceOK, Spare
<1>a. \A q \in InOp' : p # q => Len(lh') + (OpBlocks - Used(p)') + 2 * Spare <= LOGSIZE
  <2>1. BesideOK'
    BY OtherRoom, PTL
  <2> QED
    BY <2>1 DEF BesideOK, Spare
<1>b. p \in Proc /\ pc'[p] \in OpLabels /\ Len(lh) \in Nat /\ Len(lh') \in Nat /\ Spare \in Nat
  BY DEF InOp, IndInv, TypeOK, Spare
<1>c. Used(p)' \in Nat
  <2>1. UsedOK'
    BY UsedFits, PTL
  <2> QED
    BY <2>1 DEF UsedOK
\* Nothing but p's own blocks has been added.
<1>d. ASSUME p \in InOp, Used(p) \in Nat, Len(lh') - Used(p)' <= Len(lh) - Used(p)
      PROVE  Len(lh') + (OpBlocks - Used(p)') + 2 * Spare <= LOGSIZE
  <2>1. Len(lh) + (OpBlocks - Used(p)) + 2 * Spare <= LOGSIZE
    BY <1>d DEF TwiceOK
  <2> QED
    BY <1>b, <1>c, <1>d, <2>1
<1>e. ASSUME p \in InOp, lh' = lh, wrote'[p] = wrote[p]
      PROVE  Len(lh') + (OpBlocks - Used(p)') + 2 * Spare <= LOGSIZE
  <2>1. Used(p)' = Used(p)
    BY <1>e DEF Used
  <2> QED
    BY <1>b, <1>c, <1>d, <1>e, <2>1
<1>1. ASSUME NEW q \in Proc, BeginOp(q)
      PROVE  Len(lh') + (OpBlocks - Used(p)') + 2 * Spare <= LOGSIZE
  <2>1. CASE p # q
    <3>1. q \in InOp'
      BY <1>1 DEF BeginOp, Goto, InOp, OpLabels, IndInv, TypeOK
    <3> QED
      BY <1>a, <2>1, <3>1
  <2>2. CASE p = q /\ InOp # {}
    <3>1. PICK r \in InOp : TRUE
      BY <2>2
    <3>2. r # p /\ r \in InOp'
      BY <1>1, <2>2 DEF BeginOp, Goto, InOp, OpLabels, IndInv, TypeOK
    <3> QED
      BY <1>a, <3>2
  <2>3. CASE p = q /\ InOp = {}
    <3>1. lh' = << >> /\ Len(lh') = 0
      BY <1>1, <2>3, EmptyLog DEF BeginOp, MustWait, QuietOK, Normal
    <3> QED
      BY <1>b, <1>c, <3>1 DEF Spare
  <2> QED
    BY <2>1, <2>2, <2>3
<1>2. ASSUME NEW q \in Proc, LogAppend(q)
      PROVE  Len(lh') + (OpBlocks - Used(p)') + 2 * Spare <= LOGSIZE
  <2>0. /\ q \in InOp' /\ InOp' = InOp /\ lh' = Absorb(lh, blk[q]) /\ wrote' = wrote
        /\ blk[q] \in Block /\ blk[q] \in wrote[q]
    BY <1>2 DEF LogAppend, Goto, InOp, OpLabels, IndInv, TypeOK, OpsOK
  <2>1. CASE p # q
    BY <1>a, <2>0, <2>1
  <2>2. CASE p = q /\ blk[p] \in Logged(lh)
    <3>1. lh' = lh
      BY <2>0, <2>2, AbsorbLemma DEF IndInv, TypeOK
    <3> QED
      BY <1>e, <2>0, <3>1
  <2>3. CASE p = q /\ blk[p] \notin Logged(lh)
    <3>1. Logged(lh') = Logged(lh) \cup {blk[p]} /\ Len(lh') = Len(lh) + 1
      BY <2>0, <2>3, AbsorbLemma DEF IndInv, TypeOK
    <3>2. wrote'[p] \cap Logged(lh') = (wrote[p] \cap Logged(lh)) \cup {blk[p]}
      BY <2>0, <2>3, <3>1
    <3>3. Used(p)' = Cardinality((wrote[p] \cap Logged(lh)) \cup {blk[p]})
      BY <3>2 DEF Used
    <3>4. Used(p)' = Used(p) + 1 /\ Used(p) \in Nat
      BY <1>b, <2>3, <3>3, UsedType, FS_AddElement DEF Used
    <3> QED
      BY <1>b, <1>d, <2>0, <3>1, <3>4
  <2> QED
    BY <2>1, <2>2, <2>3
<1>3. ASSUME NEW q \in Proc, NEW b \in Block, NEW v \in Val, LogWrite(q, b, v)
      PROVE  Len(lh') + (OpBlocks - Used(p)') + 2 * Spare <= LOGSIZE
  <2>1. p \in InOp /\ lh' = lh /\ wrote[p] \subseteq wrote'[p]
    BY <1>3, <1>b DEF LogWrite, MayWrite, Goto, InOp, OpLabels, IndInv, TypeOK
  <2>2. IsFiniteSet(wrote'[p])
    BY <1>b DEF IndInv, OpsOK
  <2>3. Used(p) \in Nat /\ Used(p)' \in Nat /\ Used(p) <= Used(p)'
    BY <1>b, <2>1, <2>2, UsedGrows
  <2> QED
    BY <1>b, <1>d, <2>1, <2>3
<1>4. ASSUME NEW q \in Proc, EndOp(q) \/ EndLastOp(q)
      PROVE  Len(lh') + (OpBlocks - Used(p)') + 2 * Spare <= LOGSIZE
  <2>1. p \in InOp /\ p # q /\ lh' = lh /\ wrote'[p] = wrote[p]
    BY <1>4, <1>b, EndFacts
  <2> QED
    BY <1>e, <2>1
<1>5. ASSUME NEW q \in Proc, BeginSleep(q) \/ Kill(q)
      PROVE  Len(lh') + (OpBlocks - Used(p)') + 2 * Spare <= LOGSIZE
  <2>1. p \in InOp /\ lh' = lh /\ wrote'[p] = wrote[p]
    BY <1>5, <1>b DEF BeginSleep, Kill, Goto, InOp, OpLabels, IndInv, TypeOK, mem
  <2> QED
    BY <1>e, <2>1
<1>6. ASSUME UNCHANGED <<lh, pc, wrote>>
      PROVE  Len(lh') + (OpBlocks - Used(p)') + 2 * Spare <= LOGSIZE
  <2>1. p \in InOp
    BY <1>6 DEF InOp
  <2> QED
    BY <1>e, <1>6, <2>1
\* While a process commits, and at boot, there is no operation.
<1>7. ASSUME NEW q \in Proc,
             WriteLog(q) \/ WriteHead(q) \/ Install(q) \/ Clear(q) \/ CommitDone(q)
      PROVE  FALSE
  <2>1. pc[q] \in CommitLabels /\ InOp = {}
    BY <1>7 DEF WriteLog, WriteHead, Install, Clear, CommitDone, CommitLabels, IndInv, CommitOK
  <2>2. pc'[p] = pc[p] \/ pc'[p] \in {"idle", "woken"} \cup CommitLabels
    BY <1>7, <1>b DEF WriteLog, WriteHead, Install, Clear, CommitDone, CommitLabels, Goto,
                      WakeGoto, IndInv, TypeOK
  <2> QED
    BY <1>b, <2>1, <2>2 DEF InOp, OpLabels, CommitLabels
<1>8. ~Recover /\ ~Crash
  <2>1. Recover => pc'[p] = "idle"
    BY <1>b DEF Recover, ReadHead, RecoverInstall, RecoverClear, call, IndInv, CommitOK, Normal
  <2> QED
    BY <1>b, <2>1 DEF Crash, OpLabels
<1>9. ASSUME NEW q \in Proc, NEW b \in Block, LogWritePanic(q, b)
      PROVE  Len(lh') + (OpBlocks - Used(p)') + 2 * Spare <= LOGSIZE
  BY <1>6, <1>9 DEF LogWritePanic, mem, call
<1>10. ASSUME NEW b \in Block, Bread(b) \/ Evict(b)
       PROVE  Len(lh') + (OpBlocks - Used(p)') + 2 * Spare <= LOGSIZE
  BY <1>6, <1>10 DEF Bread, Evict, call
<1>11. CASE UNCHANGED vars
  BY <1>6, <1>11 DEF vars, mem, call
<1> QED
  BY <1>1, <1>2, <1>3, <1>4, <1>5, <1>7, <1>8, <1>9, <1>10, <1>11 DEF Next, Step

\* The room that an operation in progress leaves.
Room == IF 2 * MAXOPBLOCKS <= LOGSIZE THEN 2 * Spare ELSE Spare

\* Every operation in progress keeps the part of its reservation that it will
\* not use, and that much of the log is free, or twice as much.
LEMMA RoomLeft ==
  ASSUME IndInv, TwiceOK, NEW p \in InOp
  PROVE  Len(lh) \in Nat /\ Room \in Nat /\ Len(lh) + Room <= LOGSIZE
<1>1. Used(p) \in 0..OpBlocks /\ OpBlocks \in 0..MAXOPBLOCKS /\ Spare \in Nat
  BY UsedFits DEF UsedOK, Spare
<1>2. Len(lh) \in Nat /\ Room \in Nat
  BY <1>1 DEF IndInv, TypeOK, Room
<1>3. CASE 2 * MAXOPBLOCKS <= LOGSIZE
  BY <1>1, <1>2, <1>3 DEF TwiceOK, Room
<1>4. CASE ~(2 * MAXOPBLOCKS <= LOGSIZE)
  <2> DEFINE R == {p} \X ((OpBlocks + 1)..MAXOPBLOCKS)
  <2>1. Used(p) <= OpBlocks
    BY <1>1
  <2>2. IsFiniteSet(R) /\ Cardinality(R) = MAXOPBLOCKS - OpBlocks /\ R \subseteq Tokens
    BY <1>1, <2>1, Row
  <2> HIDE DEF R
  <2>3. Cardinality(R) <= Cardinality(Tokens)
    BY <2>2, OpsFinite, FS_Subset
  <2>4. Len(lh) + Cardinality(Tokens) <= LOGSIZE /\ Cardinality(Tokens) \in Nat
    BY OpsFinite DEF IndInv, SpaceOK
  <2> QED
    BY <1>2, <1>4, <2>2, <2>3, <2>4 DEF Room, Spare
<1> QED
  BY <1>2, <1>3, <1>4

\* The log area has its header.
LEMMA LogArea == Budget => 0 <= LogBlocks - 1
  BY DEF Budget, Spare

\* The induction step of the absence of panics.
LEMMA NoPanicPreserves ==
  ASSUME Budget, IndInv, IndInv', TwiceOK, NoPanic, [Next]_vars
  PROVE  NoPanic'
<1>r. Room > 0 /\ LOGSIZE - LogBlocks + 2 <= Room
  BY DEF Budget, Room, Spare
<1>0. Len(lh') \in Nat /\ Len(lh') <= LOGSIZE
  <2>1. IsFiniteSet(InOp')
    BY FS_Subset DEF InOp
  <2>2. IsFiniteSet(InOp' \X (1..MAXOPBLOCKS)) /\ Tokens' \subseteq InOp' \X (1..MAXOPBLOCKS)
    BY <2>1, Reservations DEF Tokens
  <2>3. Cardinality(Tokens') \in Nat
    BY <2>2, FS_Subset, FS_CardinalityType
  <2> QED
    BY <2>3 DEF IndInv, TypeOK, SpaceOK
<1>1. ASSUME NEW p \in Proc, NEW b \in Block PROVE ~LogWritePanic(p, b)
  <2> SUFFICES ASSUME LogWritePanic(p, b) PROVE FALSE
    OBVIOUS
  <2>1. p \in InOp
    BY DEF LogWritePanic, MayWrite, InOp, OpLabels
  <2>2. Len(lh) \in Nat /\ Room \in Nat /\ Len(lh) + Room <= LOGSIZE
    BY <2>1, RoomLeft
  <2>3. ~TooBig
    BY <1>r, <2>2 DEF TooBig
  <2>4. outstanding # 0
    BY <2>1, OpsFinite, FS_EmptySet DEF IndInv, CommitOK
  <2> QED
    BY <2>3, <2>4 DEF LogWritePanic, IndInv, TypeOK
<1>2. ASSUME NEW p \in Proc, LogAppend(p) PROVE NoPanic'
  <2>1. mode' = "up" /\ p \in InOp /\ lh' = Absorb(lh, blk[p]) /\ blk[p] \in Block
    BY <1>2 DEF IndInv, TypeOK, OpsOK, LogAppend, InOp, OpLabels
  <2>2. Len(lh) \in Nat /\ Room \in Nat /\ Len(lh) + Room <= LOGSIZE
    BY <2>1, RoomLeft
  <2>3. Len(lh') <= Len(lh) + 1
    BY <2>1, <2>2, AbsorbLemma DEF IndInv, TypeOK
  <2>4. Len(lh') <= LogBlocks - 1
    BY <1>r, <1>0, <2>2, <2>3
  <2> QED
    BY <1>0, <2>1, <2>4 DEF NoPanic
<1>3. ASSUME NEW p \in Proc, EndOp(p) \/ EndLastOp(p) PROVE NoPanic'
  <2>1. ~committing
    BY <1>3, EndFacts
  <2> QED
    BY <1>3, <2>1 DEF NoPanic, EndOp, EndLastOp, PanicIfCommitting
<1>4. ASSUME mode' = "up" => lh' = << >>, mode' # "panic" PROVE NoPanic'
  <2>1. 0 <= LogBlocks - 1
    BY LogArea
  <2> QED
    BY <1>0, <1>4, <2>1, EmptyLog DEF NoPanic
<1>5. ASSUME Recover \/ Crash PROVE NoPanic'
  <2>1. mode' # "panic" /\ (mode' = "up" => lh' = << >>)
    BY <1>5 DEF Recover, ReadHead, RecoverInstall, RecoverClear, ClearHead, Crash
  <2> QED
    BY <1>4, <2>1
<1>6. ASSUME NEW p \in Proc, Clear(p) PROVE NoPanic'
  <2>1. mode' # "panic" /\ lh' = << >>
    BY <1>6 DEF Clear, ClearHead
  <2> QED
    BY <1>4, <2>1
<1>7. ASSUME UNCHANGED <<lh, mode>> PROVE NoPanic'
  BY <1>7 DEF NoPanic
<1>8. ASSUME NEW p \in Proc,
             \/ BeginOp(p) \/ BeginSleep(p) \/ Kill(p) \/ WriteLog(p) \/ WriteHead(p)
             \/ Install(p) \/ CommitDone(p) \/ \E b \in Block, v \in Val : LogWrite(p, b, v)
      PROVE  NoPanic'
  BY <1>7, <1>8 DEF BeginOp, BeginSleep, Kill, WriteLog, WriteHead, Install, CommitDone,
                    LogWrite, mem
<1>9. ASSUME NEW b \in Block, Bread(b) \/ Evict(b) PROVE NoPanic'
  BY <1>7, <1>9 DEF Bread, Evict
<1>10. CASE UNCHANGED vars
  BY <1>7, <1>10 DEF vars, mem
<1> QED
  BY <1>1, <1>2, <1>3, <1>5, <1>6, <1>8, <1>9, <1>10 DEF Next, Step

\* Operations that leave one of the blocks reserved for them unused cause no panic
\* when the log area is LOGSIZE blocks, as mkfs makes it, and two operations fit.
THEOREM PanicFree == ASSUME Budget PROVE Spec => []NoPanic
<1>1. Init => NoPanic /\ QuietOK /\ TwiceOK
  <2> SUFFICES ASSUME Init PROVE NoPanic /\ QuietOK /\ TwiceOK
    OBVIOUS
  <2>1. NoPanic
    BY EmptyLog, LogArea DEF Init, NoPanic
  <2>2. QuietOK /\ InOp = {}
    BY DEF Init, QuietOK, Normal, InOp, OpLabels
  <2> QED
    BY <2>1, <2>2 DEF TwiceOK
<1>2. IndInv /\ IndInv' /\ TwiceOK /\ NoPanic /\ [Next]_vars => NoPanic'
  BY NoPanicPreserves
<1>3. IndInv /\ IndInv' /\ QuietOK /\ [Next]_vars => QuietOK'
  BY QuietPreserves
<1>4. IndInv /\ IndInv' /\ QuietOK /\ TwiceOK /\ [Next]_vars => TwiceOK'
  BY TwicePreserves
<1> QED
  BY <1>1, <1>2, <1>3, <1>4, InvariantHolds, PTL DEF Spec

-----------------------------------------------------------------------------
(* Refinement of AtomicDisk *)

\* What recovery reads for a block named in the header, and for any other.
LEMMA RecoveredEntries ==
  ASSUME TypeOK
  PROVE  /\ \A i \in 1..Len(hdr) : hdr[i] \in Block /\ Recovered[hdr[i]] = logd[i]
         /\ \A b \in Block : b \notin Logged(hdr) => Recovered[b] = home[b]
         /\ \A b \in Logged(hdr) : \E i \in 1..Len(hdr) : hdr[i] = b
<1>1. \A i \in 1..Len(hdr) : hdr[i] \in Block /\ Recovered[hdr[i]] = logd[i]
  <2> TAKE i \in 1..Len(hdr)
  <2>1. hdr[i] \in Block /\ hdr[i] \in Logged(hdr)
    BY RecoveredAt DEF TypeOK
  <2>2. (CHOOSE j \in DOMAIN hdr : hdr[j] = hdr[i]) = i
    BY RecoveredAt DEF TypeOK
  <2> QED
    BY <2>1, <2>2 DEF Recovered
<1>2. \A b \in Block : b \notin Logged(hdr) => Recovered[b] = home[b]
  BY DEF Recovered
<1>3. \A b \in Logged(hdr) : \E i \in 1..Len(hdr) : hdr[i] = b
  BY DEF TypeOK, Logged
<1> QED
  BY <1>1, <1>2, <1>3

\* Once every entry is installed, a reboot finds the home locations.
LEMMA RecoveredInstalled ==
  ASSUME TypeOK, \A i \in 1..Len(hdr) : home[hdr[i]] = logd[i]
  PROVE  Recovered = home
<1>1. \A b \in Block : Recovered[b] = home[b]
  BY RecoveredEntries
<1>2. Recovered = [b \in Block |-> Recovered[b]] /\ home = [b \in Block |-> home[b]]
  BY DEF Recovered, TypeOK
<1> QED
  BY <1>1, <1>2

\* Installing a logged block does not change what a reboot would find.
LEMMA InstallKeepsRecovered ==
  ASSUME IndInv, InstallBlock, UNCHANGED <<logd, hdr>>, hdr = lh, tail \in 1..Len(lh)
  PROVE  Recovered' = Recovered
<1>1. lh[tail] \in Block /\ lh[tail] \in Logged(hdr)
  BY DEF IndInv, TypeOK, Logged
<1>2. \A b \in Block : b \notin Logged(hdr) => home'[b] = home[b]
  BY <1>1 DEF IndInv, TypeOK, InstallBlock
<1>3. Logged(hdr)' = Logged(hdr)
  BY DEF Logged
<1> QED
  BY <1>2, <1>3 DEF Recovered

\* Steps that leave the disk, the cache and the mode alone change neither what
\* is read nor what would be recovered.
LEMMA DiskFrame ==
  ASSUME UNCHANGED <<disk, buf, mode>>
  PROVE  Recovered' = Recovered /\ Current' = Current
  BY DEF disk, Recovered, Current, Logged, View

\* Every step of the log is a step of the atomic disk, or no step of it.
LEMMA StepSimulation ==
  ASSUME IndInv, IndInv', [Next]_vars
  PROVE  [Disk!Next]_(Disk!vars)
<1> USE DEF Disk!Next, Disk!vars
<1>1. ASSUME NEW p \in Proc, BeginOp(p) PROVE Disk!Begin(p)
  <2>1. p \notin InOp /\ InOp' = InOp \cup {p}
    BY <1>1 DEF IndInv, TypeOK, BeginOp, Goto, InOp, OpLabels
  <2>2. Recovered' = Recovered /\ Current' = Current
    BY <1>1, DiskFrame DEF BeginOp
  <2> QED
    BY <2>1, <2>2 DEF Disk!Begin
<1>2. ASSUME NEW p \in Proc, BeginSleep(p) \/ Kill(p) \/ LogAppend(p) \/ CommitDone(p)
      PROVE  UNCHANGED Disk!vars
  <2>1. InOp' = InOp
    BY <1>2 DEF IndInv, TypeOK, BeginSleep, Kill, LogAppend, CommitDone, Goto, WakeGoto, InOp,
                OpLabels
  <2>2. UNCHANGED <<disk, buf, mode>>
    BY <1>2 DEF BeginSleep, Kill, LogAppend, CommitDone, mem
  <2> QED
    BY <2>1, <2>2, DiskFrame
<1>3. ASSUME NEW p \in Proc, NEW b \in Block, NEW v \in Val, LogWrite(p, b, v)
      PROVE  Disk!Write(p, b, v)
  <2>1. p \in InOp /\ InOp' = InOp
    BY <1>3 DEF IndInv, TypeOK, LogWrite, MayWrite, Goto, InOp, OpLabels
  <2>2. /\ UNCHANGED disk /\ mode = "up" /\ mode' = "up" /\ buf' = [buf EXCEPT ![b] = v]
    BY <1>3 DEF LogWrite, MayWrite
  <2>3. Recovered' = Recovered
    BY <2>2 DEF disk, Recovered, Logged
  <2>4. Current' = [Current EXCEPT ![b] = v]
    BY <2>2 DEF IndInv, TypeOK, Current, View, disk
  <2> QED
    BY <2>1, <2>3, <2>4 DEF Disk!Write
<1>4. ASSUME NEW p \in Proc, NEW b \in Block, LogWritePanic(p, b)
      PROVE  UNCHANGED Disk!vars
  <2>1. UNCHANGED <<disk, mem, call>> /\ mode = "up" /\ mode' = "panic"
    BY <1>4 DEF LogWritePanic, MayWrite
  <2>2. Recovered' = Recovered /\ Current' = Current
    BY <2>1 DEF disk, mem, Recovered, Current, Logged, View
  <2> QED
    BY <2>1, <2>2 DEF call, InOp
<1>5. ASSUME NEW p \in Proc, EndOp(p) \/ EndLastOp(p) PROVE Disk!End(p)
  <2>1. p \in InOp /\ InOp' = InOp \ {p} /\ UNCHANGED <<disk, buf, mode>>
    BY <1>5, EndFacts
  <2> QED
    BY <2>1, DiskFrame DEF Disk!End
<1>6. ASSUME NEW p \in Proc, WriteLog(p) \/ WriteHead(p) \/ Install(p) \/ Clear(p)
      PROVE  /\ InOp = {} /\ InOp' = {} /\ mode = "up" /\ mode' = "up"
             /\ \A l \in CommitLabels : At(l) <=> pc[p] = l
             /\ Held = {}
  <2>1. pc[p] \in CommitLabels /\ pc'[p] \in CommitLabels /\ mode = "up" /\ mode' = "up"
    BY <1>6 DEF IndInv, TypeOK, WriteLog, WriteHead, Install, Clear, Goto, CommitLabels
  <2>2. InOp = {} /\ Held = {} /\ \A q \in Proc \ {p} : pc[q] \notin CommitLabels
    BY <2>1, SoleCommitter
  <2>3. InOp' = {}
    BY <2>1 DEF IndInv, CommitOK
  <2> QED
    BY <2>1, <2>2, <2>3 DEF At
<1>7. ASSUME NEW p \in Proc, WriteLog(p) PROVE UNCHANGED Disk!vars
  <2>1. At("write_log") /\ ~At("install") /\ ~At("clear")
    BY <1>6, <1>7 DEF WriteLog, CommitLabels
  <2>2. hdr = << >> /\ hdr' = << >> /\ home' = home
    BY <1>6, <1>7, <2>1 DEF IndInv, LogOK, Normal, WriteLog
  <2>3. Recovered' = Recovered
    BY <2>2 DEF Recovered, Logged
  <2>4. \A b \in Block : View(b)' = View(b)
    BY <1>7, <2>2 DEF IndInv, TypeOK, WriteLog, View
  <2> QED
    BY <1>6, <1>7, <2>3, <2>4 DEF Current
<1>8. ASSUME NEW p \in Proc, WriteHead(p) PROVE Disk!Sync
  <2>1. At("write_head") /\ ~At("install") /\ ~At("clear") /\ Held = {}
    BY <1>6, <1>8 DEF WriteHead, CommitLabels
  <2>2. /\ \A i \in 1..Len(lh) : logd[i] = buf[lh[i]]
        /\ dirty = Logged(lh)
    BY <1>6, <1>8, <2>1 DEF IndInv, LogOK, CacheOK, Normal
  <2>3. hdr' = lh /\ UNCHANGED <<home, logd, lh, buf>>
    BY <1>8 DEF WriteHead
  <2>4. \A b \in Block : Recovered'[b] = View(b)
    <3> TAKE b \in Block
    <3>1. CASE b \in Logged(lh)
      <4>1. PICK i \in 1..Len(lh) : lh[i] = b
        BY <3>1 DEF IndInv, TypeOK, Logged
      <4>2. (CHOOSE j \in DOMAIN lh : lh[j] = lh[i]) = i
        BY RecoveredAt DEF IndInv, TypeOK
      <4>3. Recovered'[b] = logd[i]
        BY <2>3, <3>1, <4>1, <4>2 DEF Recovered, Logged
      <4>4. buf[b] # NotCached
        BY <2>2, <3>1 DEF IndInv, CacheOK
      <4> QED
        BY <2>2, <4>1, <4>3, <4>4 DEF View
    <3>2. CASE b \notin Logged(lh)
      <4>1. Recovered'[b] = home[b]
        BY <2>3, <3>2 DEF Recovered, Logged
      <4>2. buf[b] \in {NotCached, home[b]}
        BY <2>1, <2>2, <3>2 DEF IndInv, CacheOK
      <4> QED
        BY <4>1, <4>2 DEF View
    <3> QED
      BY <3>1, <3>2
  <2>5. Current = [b \in Block |-> View(b)] /\ Current' = Current
    BY <1>6, <1>8, <2>3 DEF Current, View
  <2>6. Recovered' = Current
    BY <2>4, <2>5 DEF Recovered
  <2> QED
    BY <1>6, <1>8, <2>5, <2>6 DEF Disk!Sync
<1>9. ASSUME NEW p \in Proc, Install(p) PROVE UNCHANGED Disk!vars
  <2>1. At("install") /\ mode = "up" /\ mode' = "up" /\ InOp' = InOp
    BY <1>6, <1>9 DEF Install, CommitLabels
  <2>2. /\ tail \in 1..Len(lh) /\ hdr = lh /\ logd[tail] = buf[lh[tail]]
        /\ lh[tail] \in dirty /\ lh[tail] \in Block
    BY <2>1 DEF IndInv, TypeOK, LogOK, CacheOK
  <2>3. InstallBlock /\ UNCHANGED <<logd, hdr>>
    BY <1>9 DEF Install
  <2>4. Recovered' = Recovered
    BY <2>2, <2>3, InstallKeepsRecovered
  <2>5. buf[lh[tail]] # NotCached
    BY <2>2 DEF IndInv, CacheOK
  <2>6. buf' = buf /\ \A b \in Block \ {lh[tail]} : home'[b] = home[b]
    BY <2>2, <2>3 DEF IndInv, TypeOK, InstallBlock
  <2>7. \A b \in Block : View(b)' = View(b)
    BY <2>5, <2>6 DEF View
  <2> QED
    BY <2>1, <2>4, <2>7 DEF Current
<1>10. ASSUME NEW p \in Proc, Clear(p) PROVE UNCHANGED Disk!vars
  <2>1. At("clear") /\ mode = "up" /\ mode' = "up" /\ InOp' = InOp
    BY <1>6, <1>10 DEF Clear, CommitLabels
  <2>2. hdr' = << >> /\ home' = home /\ buf' = buf
    BY <1>10 DEF Clear, ClearHead
  <2>3. Recovered = home
    BY <2>1, RecoveredInstalled DEF IndInv, LogOK
  <2>4. Recovered' = home'
    BY <2>2, EmptyLog DEF IndInv, TypeOK, Recovered
  <2> QED
    BY <2>1, <2>2, <2>3, <2>4 DEF Current, View
<1>11. ASSUME NEW b \in Block, Bread(b) \/ Evict(b) PROVE UNCHANGED Disk!vars
  <2>1. UNCHANGED <<disk, mode, call>> /\ mode = "up"
    BY <1>11 DEF Bread, Evict
  <2>2. Recovered' = Recovered /\ InOp' = InOp
    BY <2>1 DEF disk, call, Recovered, Logged, InOp
  <2>3. \A c \in Block : View(c)' = View(c)
    BY <1>11, <2>1 DEF IndInv, TypeOK, CacheOK, Bread, Evict, Recyclable, View, disk
  <2> QED
    BY <2>1, <2>2, <2>3 DEF Current
<1>12. ASSUME Recover PROVE UNCHANGED Disk!vars
  <2>1. InOp' = InOp
    BY <1>12 DEF Recover, ReadHead, RecoverInstall, RecoverClear, call, InOp
  <2>2. mode \notin {"up", "panic"} /\ Current = Recovered
    BY <1>12 DEF Recover, ReadHead, RecoverInstall, RecoverClear, Current
  <2>3. CASE ReadHead
    BY <2>1, <2>2, <2>3 DEF ReadHead, disk, Recovered, Current, Logged
  <2>4. CASE RecoverInstall
    <3>1. tail \in 1..Len(lh) /\ hdr = lh
      BY <2>4 DEF IndInv, LogOK, RecoverInstall
    <3>2. Recovered' = Recovered
      BY <2>4, <3>1, InstallKeepsRecovered DEF RecoverInstall
    <3> QED
      BY <2>1, <2>2, <2>4, <3>2 DEF RecoverInstall, Current
  <2>5. CASE RecoverClear
    <3>1. /\ hdr = lh /\ hdr' = << >> /\ UNCHANGED <<home, buf>> /\ mode' = "up"
          /\ \A i \in 1..Len(hdr) : home[hdr[i]] = logd[i]
      BY <2>5 DEF IndInv, LogOK, RecoverClear, ClearHead
    <3>2. Recovered = home
      BY <3>1, RecoveredInstalled DEF IndInv
    <3>3. Recovered' = home
      BY <3>1, EmptyLog DEF IndInv, TypeOK, Recovered
    <3>4. dirty = {} /\ Held = {}
      BY <2>2 DEF IndInv, CacheOK, CommitOK, Normal, Held
    <3>5. \A b \in Block : View(b)' = home[b]
      BY <3>1, <3>4 DEF IndInv, CacheOK, View
    <3>6. Current' = home
      BY <3>1, <3>5 DEF Current, IndInv, TypeOK
    <3> QED
      BY <2>1, <2>2, <3>2, <3>3, <3>6
  <2> QED
    BY <1>12, <2>3, <2>4, <2>5 DEF Recover
<1>13. ASSUME Crash PROVE Disk!Crash
  <2>1. Recovered' = Recovered
    BY <1>13 DEF Crash, disk, Recovered, Logged
  <2>2. InOp' = {}
    BY <1>13 DEF Crash, InOp, OpLabels
  <2>3. Current' = Recovered'
    BY <1>13 DEF Crash, Current
  <2> QED
    BY <2>1, <2>2, <2>3 DEF Disk!Crash
<1>14. CASE UNCHANGED vars
  <2>1. InOp' = InOp
    BY <1>14 DEF vars, call, InOp
  <2> QED
    BY <1>14, <2>1, DiskFrame DEF vars, mem
<1> QED
  BY <1>1, <1>2, <1>3, <1>4, <1>5, <1>7, <1>8, <1>9, <1>10, <1>11, <1>12, <1>13, <1>14
     DEF Next, Step

\* The log, the buffer cache and recovery implement an atomic disk, for any
\* number of processes and blocks and with crashes at any point.
THEOREM LogRefines == Spec => RefinesAtomicDisk
<1>1. Init => Disk!Init
  <2> SUFFICES ASSUME Init PROVE Disk!Init
    OBVIOUS
  <2>1. Recovered = home
    BY EmptyLog DEF Init, Recovered
  <2>2. Current = Recovered
    BY DEF Init, Current
  <2>3. InOp = {}
    BY DEF Init, InOp, OpLabels
  <2> QED
    BY <2>1, <2>2, <2>3 DEF Init, Disk!Init
<1>2. IndInv /\ IndInv' /\ [Next]_vars => [Disk!Next]_(Disk!vars)
  BY StepSimulation
<1> QED
  BY <1>1, <1>2, InvariantHolds, PTL DEF Spec, RefinesAtomicDisk, Disk!Spec

=============================================================================
