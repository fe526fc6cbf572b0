-------------------------------- MODULE Log --------------------------------
(***************************************************************************)
(* The write-ahead log of log.c over the buffer cache: begin_op, log_write *)
(* and end_op of concurrent file-system calls, the commit that the last of *)
(* them performs, and recovery at boot, with a power failure at any point. *)
(*                                                                         *)
(* A block is one 512-byte sector, so every bwrite is atomic.  log.lock    *)
(* sections are single steps, except that log_write tests the size of the  *)
(* log before it takes the lock, which is a step of its own.               *)
(***************************************************************************)
EXTENDS Integers, Sequences, FiniteSets

CONSTANTS
  Proc,         \* processes that make file-system calls
  Block,        \* home locations: the disk blocks outside of the log
  Val,          \* contents of a block
  Zero,         \* the contents mkfs gives to the log area
  NotCached,    \* no valid buffer holds the block
  NoBlock,      \* a process holds no modified buffer
  LOGSIZE,      \* entries of struct logheader's block[]
  MAXOPBLOCKS,  \* blocks begin_op reserves for one operation
  LogBlocks,    \* log.size: blocks of the log area, its header included
  OpBlocks      \* distinct blocks one operation really writes, at most

ASSUME ValAssumption ==
  Zero \in Val /\ NotCached \notin Val /\ NoBlock \notin Block

ASSUME ProcAssumption == IsFiniteSet(Proc)

ASSUME SizeAssumption ==
  /\ LOGSIZE \in Nat /\ MAXOPBLOCKS \in Nat
  /\ LogBlocks \in Nat /\ OpBlocks \in Nat
  /\ 0 < MAXOPBLOCKS /\ MAXOPBLOCKS <= LOGSIZE
  /\ OpBlocks <= MAXOPBLOCKS

VARIABLES
  home,         \* disk: the home locations
  logd,         \* disk: the data blocks of the log area
  hdr,          \* disk: the header block, its n and its first n entries
  lh,           \* log.lh
  outstanding,  \* log.outstanding
  committing,   \* log.committing
  buf,          \* buffer cache: the valid buffer of each home block
  dirty,        \* blocks whose buffer has B_DIRTY set
  tail,         \* the loop counter of write_log and install_trans
  mode,         \* recovery at boot, normal operation, or a panic
  pc,           \* where each process is in its system call
  blk,          \* the block a process modified and has yet to log
  wrote         \* history: the blocks the current operation wrote

disk == <<home, logd, hdr>>
mem  == <<lh, outstanding, committing, buf, dirty, tail>>
call == <<pc, blk, wrote>>
vars == <<disk, mem, mode, call>>

CommitLabels == {"write_log", "write_head", "install", "clear", "done"}
OpLabels     == {"inop", "append"}

Distinct(s) == \A i, j \in DOMAIN s : s[i] = s[j] => i = j

\* Types; no block has two entries in the log, in memory or on disk.
TypeOK ==
  /\ home \in [Block -> Val]
  /\ logd \in [1..LOGSIZE -> Val]
  /\ hdr \in Seq(Block) /\ Distinct(hdr)
  /\ lh \in Seq(Block) /\ Distinct(lh)
  /\ outstanding \in Nat
  /\ committing \in BOOLEAN
  /\ buf \in [Block -> Val \cup {NotCached}]
  /\ dirty \subseteq Block
  /\ tail \in Nat
  /\ mode \in {"read_head", "install", "clear", "up", "panic"}
  /\ pc \in [Proc -> {"idle", "sleep", "woken"} \cup OpLabels \cup CommitLabels]
  /\ blk \in [Proc -> Block \cup {NoBlock}]
  /\ wrote \in [Proc -> SUBSET Block]

\* A disk made by mkfs, about to be booted for the first time.
Init ==
  /\ home \in [Block -> Val]
  /\ logd = [i \in 1..LOGSIZE |-> Zero]
  /\ hdr = << >>
  /\ lh = << >>
  /\ outstanding = 0
  /\ committing = FALSE
  /\ buf = [b \in Block |-> NotCached]
  /\ dirty = {}
  /\ tail = 1
  /\ mode = "read_head"
  /\ pc = [p \in Proc |-> "idle"]
  /\ blk = [p \in Proc |-> NoBlock]
  /\ wrote = [p \in Proc |-> {}]

InOp == {p \in Proc : pc[p] \in OpLabels}
Held == {blk[p] : p \in {q \in Proc : pc[q] = "append"}}
Logged(s) == {s[i] : i \in DOMAIN s}

Goto(p, label) == pc' = [pc EXCEPT ![p] = label]

\* Mutant: wakeup(&log) is forgotten.
WakeNobody(p, label) == Goto(p, label)

\* wakeup(&log) and the rest of p's step: p goes to label, sleepers wake.
WakeGoto(p, label) ==
  pc' = [q \in Proc |-> IF q = p THEN label
                        ELSE IF pc[q] = "sleep" THEN "woken" ELSE pc[q]]

-----------------------------------------------------------------------------
(* The buffer cache as log.c uses it *)

\* What bread returns for a home block.
View(b) == IF buf[b] = NotCached THEN home[b] ELSE buf[b]

\* A reader brings a block into the cache.
Bread(b) ==
  /\ mode = "up"
  /\ buf[b] = NotCached
  /\ buf' = [buf EXCEPT ![b] = home[b]]
  /\ UNCHANGED <<disk, lh, outstanding, committing, dirty, tail, mode, call>>

\* Mutant: bget recycles a buffer without looking at B_DIRTY.
RecyclableAny(b) == b \notin Held

\* A buffer bget may recycle: no reference to it, and not B_DIRTY.
Recyclable(b) == b \notin Held /\ b \notin dirty

Evict(b) ==
  /\ mode = "up"
  /\ buf[b] # NotCached
  /\ Recyclable(b)
  /\ buf' = [buf EXCEPT ![b] = NotCached]
  /\ UNCHANGED <<disk, lh, outstanding, committing, dirty, tail, mode, call>>

-----------------------------------------------------------------------------
(* begin_op, log_write, end_op *)

\* Mutant: the operation that asks is not counted.
LogFullSelf == Len(lh) + outstanding * MAXOPBLOCKS > LOGSIZE

LogFull == Len(lh) + (outstanding + 1) * MAXOPBLOCKS > LOGSIZE

\* Mutant: begin_op does not look at log.committing.
MustWaitFull == LogFull

MustWait == committing \/ LogFull

BeginOp(p) ==
  /\ mode = "up"
  /\ pc[p] \in {"idle", "woken"}
  /\ ~MustWait
  /\ outstanding' = outstanding + 1
  /\ Goto(p, "inop")
  /\ UNCHANGED <<disk, lh, committing, buf, dirty, tail, mode, blk, wrote>>

BeginSleep(p) ==
  /\ mode = "up"
  /\ pc[p] \in {"idle", "woken"}
  /\ MustWait
  /\ Goto(p, "sleep")
  /\ UNCHANGED <<disk, mem, mode, blk, wrote>>

\* kill() of a process asleep in begin_op: it goes round the loop again.
Kill(p) ==
  /\ mode = "up"
  /\ pc[p] = "sleep"
  /\ Goto(p, "woken")
  /\ UNCHANGED <<disk, mem, mode, blk, wrote>>

\* p has the buffer of b locked and is about to modify it.
MayWrite(p, b) ==
  /\ mode = "up"
  /\ pc[p] = "inop"
  /\ b \notin Held
  /\ Cardinality(wrote[p] \cup {b}) <= OpBlocks

TooBig == Len(lh) >= LOGSIZE \/ Len(lh) >= LogBlocks - 1

\* bread, modify bp->data, and the tests log_write makes without log.lock.
LogWrite(p, b, v) ==
  /\ MayWrite(p, b)
  /\ ~TooBig /\ outstanding >= 1
  /\ buf' = [buf EXCEPT ![b] = v]
  /\ blk' = [blk EXCEPT ![p] = b]
  /\ wrote' = [wrote EXCEPT ![p] = @ \cup {b}]
  /\ Goto(p, "append")
  /\ UNCHANGED <<disk, lh, outstanding, committing, dirty, tail, mode>>

\* panic("too big a transaction") or panic("log_write outside of trans").
LogWritePanic(p, b) ==
  /\ MayWrite(p, b)
  /\ TooBig \/ outstanding < 1
  /\ mode' = "panic"
  /\ UNCHANGED <<disk, mem, call>>

\* Log absorption: a block already in the header keeps its entry.
Absorb(s, b) == IF b \in Logged(s) THEN s ELSE Append(s, b)

\* Mutant: log_write does not set B_DIRTY.
NoPin(b) == dirty

\* b->flags |= B_DIRTY
Pin(b) == dirty \cup {b}

\* The rest of log_write, under log.lock.
LogAppend(p) ==
  /\ mode = "up"
  /\ pc[p] = "append"
  /\ lh' = Absorb(lh, blk[p])
  /\ dirty' = Pin(blk[p])
  /\ blk' = [blk EXCEPT ![p] = NoBlock]
  /\ Goto(p, "inop")
  /\ UNCHANGED <<disk, outstanding, committing, buf, tail, mode, wrote>>

\* if(log.committing) panic("log.committing")
PanicIfCommitting == mode' = IF committing THEN "panic" ELSE mode

\* end_op with other operations outstanding: the reservation of this one is
\* returned, and a waiter may now fit.
EndOp(p) ==
  /\ mode = "up"
  /\ pc[p] = "inop"
  /\ outstanding - 1 # 0
  /\ outstanding' = outstanding - 1
  /\ PanicIfCommitting
  /\ wrote' = [wrote EXCEPT ![p] = {}]
  /\ WakeGoto(p, "idle")
  /\ UNCHANGED <<disk, lh, committing, buf, dirty, tail, blk>>

\* end_op of the last outstanding operation, which goes on to commit().
EndLastOp(p) ==
  /\ mode = "up"
  /\ pc[p] = "inop"
  /\ outstanding - 1 = 0
  /\ outstanding' = 0
  /\ PanicIfCommitting
  /\ committing' = TRUE
  /\ tail' = 1
  /\ wrote' = [wrote EXCEPT ![p] = {}]
  /\ Goto(p, IF lh = << >> THEN "done" ELSE "write_log")
  /\ UNCHANGED <<disk, lh, buf, dirty, blk>>

-----------------------------------------------------------------------------
(* commit *)

\* One round of the loop of write_log: cache block to log block.
WriteLog(p) ==
  /\ mode = "up"
  /\ pc[p] = "write_log"
  /\ logd' = [logd EXCEPT ![tail] = View(lh[tail])]
  /\ buf' = [buf EXCEPT ![lh[tail]] = View(lh[tail])]
  /\ tail' = IF tail < Len(lh) THEN tail + 1 ELSE 1
  /\ Goto(p, IF tail < Len(lh) THEN "write_log" ELSE "write_head")
  /\ UNCHANGED <<home, hdr, lh, outstanding, committing, dirty, mode, blk, wrote>>

\* write_head: the commit point.
WriteHead(p) ==
  /\ mode = "up"
  /\ pc[p] = "write_head"
  /\ hdr' = lh
  /\ tail' = 1
  /\ Goto(p, "install")
  /\ UNCHANGED <<home, logd, lh, outstanding, committing, buf, dirty, mode, blk,
                 wrote>>

\* One round of the loop of install_trans: log block to home location.  The
\* bwrite clears B_DIRTY and so unpins the buffer.
InstallBlock ==
  /\ home' = [home EXCEPT ![lh[tail]] = logd[tail]]
  /\ buf' = [buf EXCEPT ![lh[tail]] = logd[tail]]
  /\ dirty' = dirty \ {lh[tail]}
  /\ tail' = IF tail < Len(lh) THEN tail + 1 ELSE 1

Install(p) ==
  /\ mode = "up"
  /\ pc[p] = "install"
  /\ InstallBlock
  /\ Goto(p, IF tail < Len(lh) THEN "install" ELSE "clear")
  /\ UNCHANGED <<logd, hdr, lh, outstanding, committing, mode, blk, wrote>>

\* log.lh.n = 0; write_head().
ClearHead ==
  /\ lh' = << >>
  /\ hdr' = << >>

Clear(p) ==
  /\ mode = "up"
  /\ pc[p] = "clear"
  /\ ClearHead
  /\ Goto(p, "done")
  /\ UNCHANGED <<home, logd, outstanding, committing, buf, dirty, tail, mode,
                 blk, wrote>>

\* The end of end_op: log.committing = 0; wakeup(&log).
CommitDone(p) ==
  /\ mode = "up"
  /\ pc[p] = "done"
  /\ committing' = FALSE
  /\ WakeGoto(p, "idle")
  /\ UNCHANGED <<disk, lh, outstanding, buf, dirty, tail, mode, blk, wrote>>

-----------------------------------------------------------------------------
(* Crash and recover_from_log *)

Crash ==
  /\ lh' = << >>
  /\ outstanding' = 0
  /\ committing' = FALSE
  /\ buf' = [b \in Block |-> NotCached]
  /\ dirty' = {}
  /\ tail' = 1
  /\ mode' = "read_head"
  /\ pc' = [p \in Proc |-> "idle"]
  /\ blk' = [p \in Proc |-> NoBlock]
  /\ wrote' = [p \in Proc |-> {}]
  /\ UNCHANGED disk

\* read_head, and the test of install_trans's loop.
ReadHead ==
  /\ mode = "read_head"
  /\ lh' = hdr
  /\ tail' = 1
  /\ mode' = IF hdr = << >> THEN "clear" ELSE "install"
  /\ UNCHANGED <<disk, outstanding, committing, buf, dirty, call>>

RecoverInstall ==
  /\ mode = "install"
  /\ InstallBlock
  /\ mode' = IF tail < Len(lh) THEN "install" ELSE "clear"
  /\ UNCHANGED <<logd, hdr, lh, outstanding, committing, call>>

RecoverClear ==
  /\ mode = "clear"
  /\ ClearHead
  /\ mode' = "up"
  /\ UNCHANGED <<home, logd, outstanding, committing, buf, dirty, tail, call>>

-----------------------------------------------------------------------------

\* The steps a process takes once it is in an operation or woken up.
Step(p) ==
  \/ LogAppend(p) \/ EndOp(p) \/ EndLastOp(p)
  \/ WriteLog(p) \/ WriteHead(p) \/ Install(p) \/ Clear(p) \/ CommitDone(p)

Recover == ReadHead \/ RecoverInstall \/ RecoverClear

Next ==
  \/ \E p \in Proc :
       \/ BeginOp(p) \/ BeginSleep(p) \/ Kill(p) \/ Step(p)
       \/ \E b \in Block :
            LogWritePanic(p, b) \/ \E v \in Val : LogWrite(p, b, v)
  \/ \E b \in Block : Bread(b) \/ Evict(b)
  \/ Recover
  \/ Crash

Spec == Init /\ [][Next]_vars

\* The disk answers and every process is scheduled (weak fairness); a system
\* call does not write blocks for ever but reaches its end_op (strong, because
\* end_op is not enabled between log_write's test and its append).
FairSpec ==
  /\ Spec
  /\ \A p \in Proc : WF_vars(Step(p)) /\ SF_vars(EndOp(p) \/ EndLastOp(p))

-----------------------------------------------------------------------------
(* Properties *)

\* What a reboot from the present disk contents recovers.
Recovered ==
  [b \in Block |-> IF b \in Logged(hdr)
                   THEN logd[CHOOSE i \in DOMAIN hdr : hdr[i] = b]
                   ELSE home[b]]

\* What the file system reads at present; during recovery it does not run.
Current ==
  IF mode \in {"up", "panic"} THEN [b \in Block |-> View(b)] ELSE Recovered

Disk == INSTANCE AtomicDisk
          WITH stable <- Recovered, current <- Current, ops <- InOp

\* Log, buffer cache and recovery together implement an atomic disk: the
\* writes of an operation reach the disk all together or not at all.
RefinesAtomicDisk == Disk!Spec

\* Neither log_write nor end_op panics, and no append overruns the header's
\* block[] or the log area, although log_write tests the size without the lock.
NoPanic ==
  /\ mode # "panic"
  /\ Len(lh) <= LOGSIZE
  /\ mode = "up" => Len(lh) <= LogBlocks - 1

\* end_op of the last operation returns only when everything is durable.
QuiescentDurable ==
  mode = "up" /\ outstanding = 0 /\ ~committing
    => Recovered = [b \in Block |-> View(b)]

\* A process asleep in begin_op has something to wait for that will wake it.
SleeperHasWaker ==
  \A p \in Proc : pc[p] = "sleep" => committing \/ outstanding > 0

\* Every process asleep in begin_op is woken.
SleeperWoken == \A p \in Proc : pc[p] = "sleep" ~> pc[p] # "sleep"

-----------------------------------------------------------------------------
(* The inductive invariant *)

At(label) == \E p \in Proc : pc[p] = label
Normal == mode \in {"up", "panic"}

\* log.outstanding counts the operations; one process commits, and only when
\* there are none.
CommitOK ==
  /\ outstanding = Cardinality(InOp)
  /\ committing <=> \E p \in Proc : pc[p] \in CommitLabels
  /\ \A p, q \in Proc : pc[p] \in CommitLabels /\ pc[q] \in CommitLabels => p = q
  /\ committing => InOp = {}
  /\ ~Normal => \A p \in Proc : pc[p] = "idle"

\* What each operation wrote is in the log or is the block it holds.
OpsOK ==
  /\ \A p \in Proc :
       /\ IsFiniteSet(wrote[p]) /\ Cardinality(wrote[p]) <= OpBlocks
       /\ pc[p] = "inop" => wrote[p] \subseteq Logged(lh)
       /\ pc[p] = "append" => /\ blk[p] \in wrote[p]
                              /\ wrote[p] \subseteq Logged(lh) \cup {blk[p]}
       /\ pc[p] \notin OpLabels => wrote[p] = {}
  /\ \A p, q \in Proc :
       pc[p] = "append" /\ pc[q] = "append" /\ blk[p] = blk[q] => p = q

\* The part of the reservations of the running operations not yet used.
Used(p) == Cardinality(wrote[p] \cap Logged(lh))
Tokens == {t \in InOp \X (1..MAXOPBLOCKS) : t[2] > Used(t[1])}

\* Log space in use and reserved never exceeds the header.
SpaceOK == Len(lh) + Cardinality(Tokens) <= LOGSIZE /\ Len(hdr) <= LOGSIZE

\* A buffer that is neither pinned nor being modified agrees with the disk, and
\* the pinned ones are those of the logged blocks not yet installed.
CacheOK ==
  /\ \A b \in Block : b \notin dirty /\ b \notin Held => buf[b] \in {NotCached, home[b]}
  /\ \A b \in Block : b \in dirty \/ b \in Held => buf[b] # NotCached
  /\ ~Normal \/ At("clear") \/ At("done") => dirty = {}
  /\ At("install") => dirty = {lh[i] : i \in tail..Len(lh)}
  /\ Normal /\ ~At("install") /\ ~At("clear") => dirty = Logged(lh)

\* How far write_log and install_trans have got, and what the header on disk
\* says meanwhile.
LogOK ==
  /\ At("write_log") \/ At("install") \/ mode = "install" => tail \in 1..Len(lh)
  /\ At("write_log") => \A i \in 1..(tail - 1) : logd[i] = buf[lh[i]]
  /\ At("write_head") => lh # << >> /\ \A i \in 1..Len(lh) : logd[i] = buf[lh[i]]
  /\ At("install") => \A i \in tail..Len(lh) : logd[i] = buf[lh[i]]
  /\ At("install") \/ mode = "install"
       => \A i \in 1..(tail - 1) : home[lh[i]] = logd[i]
  /\ At("clear") \/ mode = "clear" => \A i \in 1..Len(lh) : home[lh[i]] = logd[i]
  /\ At("done") => lh = << >>
  /\ At("install") \/ At("clear") \/ mode \in {"install", "clear"} => hdr = lh
  /\ Normal /\ ~At("install") /\ ~At("clear") => hdr = << >>
  /\ mode = "read_head" => lh = << >>

\* Between operations the log is empty.
QuietOK == Normal /\ InOp = {} /\ ~committing => lh = << >>

\* What an operation leaves of its reservation.
Spare == MAXOPBLOCKS - OpBlocks

\* If two operations fit into an empty log, so much stays free twice: an operation
\* starts either with the log empty or beside another one.
TwiceOK ==
  2 * MAXOPBLOCKS <= LOGSIZE =>
    \A p \in InOp : Len(lh) + (OpBlocks - Used(p)) + 2 * Spare <= LOGSIZE

\* A budget that leaves room for the header block of the log area and for the
\* test that log_write makes even when the block is absorbed.
Budget ==
  /\ OpBlocks < MAXOPBLOCKS
  /\ LOGSIZE - LogBlocks + 2 <= IF 2 * MAXOPBLOCKS <= LOGSIZE THEN 2 * Spare ELSE Spare

\* The inductive invariant of log.c.
IndInv == TypeOK /\ CommitOK /\ OpsOK /\ SpaceOK /\ CacheOK /\ LogOK
=============================================================================
