-------------------------------- MODULE Disk --------------------------------
(***************************************************************************)
(* The buffer cache (bio.c) above the disk driver (ide.c): NBUF buffers on *)
(* a list in order of their last use, each with a sleep-lock, and a queue  *)
(* of requests whose first one the drive is working on.  The callers are   *)
(* the log and the file system: they read a block, change it, pin it in    *)
(* the cache with B_DIRTY (log_write) or write it through (bwrite).        *)
(*                                                                         *)
(* A section under bcache.lock or idelock is one step; sleep() and         *)
(* wakeup() are those of module SleepLock.  The drive is external: it      *)
(* takes a command and its data at once, works, and interrupts.  A block   *)
(* in BadBlock may fail to read.                                           *)
(***************************************************************************)
EXTENDS Naturals, Sequences, FiniteSets, SequencesExt

CONSTANTS
  Proc, Block, Data,
  NBUF,
  Image,      \* the contents of the drive at boot
  Stores,     \* what programs store: pairs of a block and its new contents
  BadBlock,   \* blocks on which the drive may report an error
  Nested,     \* pairs of blocks: who holds the first may ask for the second
  MaxPin,     \* bound: buffers the log may keep dirty (log.lh.n)
  Nobody, NoBlock

\* Where a process has the addresses of its buffers: write_log and install_trans
\* hold a block of the log and its home block at once, bmap and itrunc an indirect
\* block and one that they allocate or free, and nobody holds three.
Hand == Proc \X {1, 2}

ASSUME DiskAssumption ==
  /\ IsFiniteSet(Proc) /\ Nobody \notin Hand /\ NoBlock \notin Block
  /\ 0 \in Data /\ Image \in [Block -> Data] /\ Stores \subseteq Block \X Data
  /\ BadBlock \subseteq Block /\ Nested \subseteq Block \X Block
  /\ MaxPin \in Nat /\ NBUF \in Nat \ {0}

Buf == 1..NBUF

VARIABLES
  buf,       \* struct buf: blockno, B_VALID, B_DIRTY, refcnt, data
  lock,      \* the holder of each buffer's sleep-lock, and with which hand
  lru,       \* bcache.head: the most recently used buffer first
  idequeue,
  drive,     \* the command the drive works on: none, or a buffer's request
  disk,      \* the contents of the drive
  pc,        \* where each process is with each buffer
  bp         \* the buffers it uses

driver == <<idequeue, drive, disk>>
vars == <<buf, lock, lru, driver, pc, bp>>

\* No buffer in this hand; about to acquire the lock of the buffer; about to enter
\* iderw; asleep on the request, woken; holding a buffer that is valid; and
\* between the two halves of brelse.
Label == {"idle", "lock", "iderw", "wait", "woken", "hold", "brelse"}

NoRequest == [state |-> "none", blockno |-> NoBlock, write |-> FALSE]

\* binit: the buffers are empty and in the order in which they were linked.
Init ==
  /\ disk = Image
  /\ buf = [i \in Buf |-> [blockno |-> NoBlock, valid |-> FALSE, dirty |-> FALSE,
                           refcnt |-> 0, data |-> 0]]
  /\ lock = [i \in Buf |-> Nobody]
  /\ lru = [i \in Buf |-> NBUF + 1 - i]
  /\ idequeue = << >>
  /\ drive = NoRequest
  /\ pc = [p \in Hand |-> "idle"]
  /\ bp = [p \in Hand |-> 0]

Go(p, from, to) ==
  /\ pc[p] = from
  /\ pc' = [pc EXCEPT ![p] = to]

\* A process does one thing at a time.
Other(p) == <<p[1], 3 - p[2]>>
Turn(p) == pc[Other(p)] \in {"idle", "hold"}

-----------------------------------------------------------------------------
(* bget *)

\* A second block is asked for with the first one still locked.
Asks(p, b) ==
  /\ Turn(p)
  /\ IF pc[Other(p)] = "hold"
     THEN <<buf[bp[Other(p)]].blockno, b>> \in Nested
     ELSE p[2] = 1

Cached(b) == {i \in Buf : buf[i].blockno = b}

\* The block has a buffer: count a reference to it, then wait for its lock.
BgetCached(p, b) ==
  /\ Asks(p, b)
  /\ Go(p, "idle", "lock")
  /\ \E i \in Cached(b) :
       /\ bp' = [bp EXCEPT ![p] = i]
       /\ buf' = [buf EXCEPT ![i].refcnt = @ + 1]
  /\ UNCHANGED <<lock, lru, driver>>

\* Mutants: a buffer that the log has changed is recycled; a buffer that somebody
\* waits for is recycled.
FreeIfClean(i) == ~buf[i].dirty
FreeIfUnused(i) == buf[i].refcnt = 0

\* Even without a reference a dirty buffer is in use, by the log.
Recyclable(i) == buf[i].refcnt = 0 /\ ~buf[i].dirty

\* The least recently used buffer that nobody uses.
Victim(i) ==
  \E k \in Buf :
    /\ lru[k] = i
    /\ Recyclable(i)
    /\ \A j \in Buf : j > k => ~Recyclable(lru[j])

\* Not cached: recycle a buffer.  With none the kernel panics ("bget: no buffers":
\* CacheExact says when), and the process goes no further.
BgetRecycle(p, b) ==
  /\ Asks(p, b)
  /\ Go(p, "idle", "lock")
  /\ Cached(b) = {}
  /\ \E i \in Buf :
       /\ Victim(i)
       /\ bp' = [bp EXCEPT ![p] = i]
       /\ buf' = [buf EXCEPT ![i] = [@ EXCEPT !.blockno = b, !.valid = FALSE,
                                              !.dirty = FALSE, !.refcnt = 1]]
  /\ UNCHANGED <<lock, lru, driver>>

\* acquiresleep, and bread's test of B_VALID.
Bread(p) ==
  /\ Go(p, "lock", IF buf[bp[p]].valid THEN "hold" ELSE "iderw")
  /\ lock[bp[p]] = Nobody
  /\ lock' = [lock EXCEPT ![bp[p]] = p]
  /\ UNCHANGED <<buf, lru, driver, bp>>

-----------------------------------------------------------------------------
(* What holders do with a buffer *)

Pinned == {i \in Buf : buf[i].dirty /\ i \notin Range(idequeue)}

\* log_write: the buffer is changed and kept in the cache until it is installed.
LogWrite(p, d) ==
  /\ Turn(p) /\ pc[p] = "hold"
  /\ <<buf[bp[p]].blockno, d>> \in Stores
  /\ Cardinality(Pinned \cup {bp[p]}) <= MaxPin
  /\ buf' = [buf EXCEPT ![bp[p]] = [@ EXCEPT !.data = d, !.dirty = TRUE]]
  /\ UNCHANGED <<lock, lru, driver, pc, bp>>

\* bwrite, after its caller has put d into the buffer.
Bwrite(p, d) ==
  /\ Turn(p)
  /\ Go(p, "hold", "iderw")
  /\ <<buf[bp[p]].blockno, d>> \in Stores
  /\ buf' = [buf EXCEPT ![bp[p]] = [@ EXCEPT !.data = d, !.dirty = TRUE]]
  /\ UNCHANGED <<lock, lru, driver, bp>>

\* brelse, first half: releasesleep.
Brelse(p) ==
  /\ Turn(p)
  /\ Go(p, "hold", "brelse")
  /\ lock' = [lock EXCEPT ![bp[p]] = Nobody]
  /\ UNCHANGED <<buf, lru, driver, bp>>

MoveToFront(i) ==
  LET k == CHOOSE k \in Buf : lru[k] = i
  IN  <<i>> \o RemoveAt(lru, k)

\* Its second half, under bcache.lock: the buffer may have a new holder by now.
BrelseUnref(p) ==
  /\ Go(p, "brelse", "idle")
  /\ LET i == bp[p] IN
       /\ buf' = [buf EXCEPT ![i].refcnt = @ - 1]
       /\ lru' = IF buf[i].refcnt = 1 THEN MoveToFront(i) ELSE lru
  /\ bp' = [bp EXCEPT ![p] = 0]
  /\ UNCHANGED <<lock, driver>>

-----------------------------------------------------------------------------
(* The driver *)

\* idestart: the command to the drive, with the data if it is a write.
Request(i) == [state |-> "busy", blockno |-> buf[i].blockno, write |-> buf[i].dirty,
               data |-> buf[i].data]

\* Mutant: the drive is given every request at once.
IderwEager(p) ==
  /\ Go(p, "iderw", "wait")
  /\ idequeue' = Append(idequeue, bp[p])
  /\ drive' = Request(bp[p])
  /\ UNCHANGED <<buf, lock, lru, disk, bp>>

\* iderw: append, start the drive if it was idle, sleep.
Iderw(p) ==
  /\ Go(p, "iderw", "wait")
  /\ idequeue' = Append(idequeue, bp[p])
  /\ drive' = IF idequeue = << >> THEN Request(bp[p]) ELSE drive
  /\ UNCHANGED <<buf, lock, lru, disk, bp>>

\* External: the drive finishes its command and raises its interrupt.
DriveDone ==
  /\ drive.state = "busy"
  /\ disk' = IF drive.write THEN [disk EXCEPT ![drive.blockno] = drive.data] ELSE disk
  /\ drive' = [NoRequest EXCEPT !.state = "interrupt"]
  /\ UNCHANGED <<buf, lock, lru, idequeue, pc, bp>>

\* What insl puts into the buffer: nothing when idewait(1) reports an error.
ReadData(i) ==
  {disk[buf[i].blockno]} \cup IF buf[i].blockno \in BadBlock THEN {buf[i].data} ELSE {}

\* Mutant: the next request is not started.
NextIdle(q) == NoRequest

\* The command for the next request in the queue.
NextRequest(q) == IF q = << >> THEN NoRequest ELSE Request(Head(q))

\* The buffer after its request: B_VALID set, B_DIRTY cleared.
Completed(i, d) == [buf[i] EXCEPT !.data = d, !.valid = TRUE, !.dirty = FALSE]

\* ideintr.  (With an empty queue it returns at once.)
Ideintr ==
  /\ drive.state = "interrupt"
  /\ idequeue # << >>
  /\ LET i == Head(idequeue) IN
       /\ \E d \in IF buf[i].dirty THEN {buf[i].data} ELSE ReadData(i) :
            buf' = [buf EXCEPT ![i] = Completed(i, d)]
       /\ pc' = [p \in Hand |-> IF pc[p] = "wait" /\ bp[p] = i THEN "woken" ELSE pc[p]]
  /\ idequeue' = Tail(idequeue)
  /\ drive' = NextRequest(Tail(idequeue))
  /\ UNCHANGED <<lock, lru, disk, bp>>

\* The test of iderw's loop after the wakeup.
IderwReturn(p) ==
  /\ Go(p, "woken", IF buf[bp[p]].valid /\ ~buf[bp[p]].dirty THEN "hold" ELSE "wait")
  /\ UNCHANGED <<buf, lock, lru, driver, bp>>

-----------------------------------------------------------------------------

\* What a process does of itself until it has its buffer.
Step(p) == Bread(p) \/ Iderw(p) \/ IderwReturn(p) \/ BrelseUnref(p)

Call(p) ==
  \/ \E b \in Block : BgetCached(p, b) \/ BgetRecycle(p, b)
  \/ \E d \in Data : LogWrite(p, d) \/ Bwrite(p, d)

Next ==
  \/ \E p \in Hand : Step(p) \/ Brelse(p) \/ Call(p)
  \/ DriveDone
  \/ Ideintr

Spec == Init /\ [][Next]_vars

\* The drive answers and its interrupt is taken; a process in the kernel goes
\* on; and no code holds a buffer for ever.
FairSpec ==
  /\ Spec
  /\ WF_vars(DriveDone) /\ WF_vars(Ideintr)
  /\ \A p \in Hand : SF_vars(Step(p)) /\ SF_vars(Brelse(p))

-----------------------------------------------------------------------------
(* Properties *)

Users(i) == {p \in Hand : bp[p] = i /\ pc[p] # "idle"}

\* Types; the list links every buffer once, a block has one buffer, and refcnt
\* counts the processes that wait for a buffer, hold it or are letting it go.
\* bget fails ("bget: no buffers") only when processes at work and the log have a
\* use for all NBUF: no buffer is lost to an old reference or an old B_DIRTY.
CacheExact ==
  /\ buf \in [Buf -> [blockno : Block \cup {NoBlock}, valid : BOOLEAN, dirty : BOOLEAN,
                      refcnt : Nat, data : Data]]
  /\ lock \in [Buf -> Hand \cup {Nobody}]
  /\ lru \in [Buf -> Buf] /\ IsInjective(lru)
  /\ idequeue \in Seq(Buf)
  /\ disk \in [Block -> Data]
  /\ pc \in [Hand -> Label]
  /\ bp \in [Hand -> Buf \cup {0}]
  /\ \A b \in Block : Cardinality(Cached(b)) <= 1
  /\ \A i \in Buf : buf[i].refcnt = Cardinality(Users(i))
  /\ \/ \E i \in Buf : Recyclable(i)
     \/ NBUF <= Cardinality({p \in Hand : pc[p] # "idle"}) + Cardinality(Pinned)

\* The drive works exactly when a request is queued, on the first one and with
\* the data its buffer still has; the queued buffers are those whose processes
\* wait, each with work left to do (iderw never panics "nothing to do").
QueueExact ==
  /\ (drive.state = "none") = (idequeue = << >>)
  /\ drive.state = "busy" => drive = Request(Head(idequeue))
  /\ IsInjective(idequeue)
  /\ Range(idequeue) = {bp[p] : p \in {q \in Hand : pc[q] = "wait"}}
  /\ \A p \in Hand : pc[p] \in {"iderw", "wait"} =>
       lock[bp[p]] = p /\ (buf[bp[p]].dirty \/ ~buf[bp[p]].valid)

Good == Block \ BadBlock

\* The buffer of a block if it holds the block's contents.
ValidBuf(b) == {i \in Cached(b) : buf[i].valid}

View == [b \in Good |-> IF ValidBuf(b) = {} THEN disk[b]
                        ELSE buf[CHOOSE i \in ValidBuf(b) : TRUE].data]
Stable == [b \in Good |-> disk[b]]
Holder == [b \in Good |-> IF ValidBuf(b) = {} THEN Nobody
                          ELSE lock[CHOOSE i \in ValidBuf(b) : TRUE]]
Syncing == {p \in Hand : /\ pc[p] \in {"iderw", "wait"}
                         /\ buf[bp[p]].valid /\ buf[bp[p]].blockno \in Good}

store == INSTANCE BlockStore WITH
  Proc <- Hand, Block <- Good, view <- View, stable <- Stable, holder <- Holder, syncing <- Syncing

\* Buffers that are recycled, pinned, shared and filled by interrupts look like
\* blocks held by one process at a time, which never lose what was stored and
\* are on the disk when bwrite returns; blocks the drive cannot read do no harm
\* to the others.
RefinesBlockStore == store!Spec

\* A process that has found a buffer for a block gets it, holding another one or
\* not: no request is forgotten in the queue, no wakeup is lost, and nobody waits
\* for ever for a process that waits itself.
BreadReturns == \A p \in Hand : pc[p] = "lock" ~> pc[p] = "hold"
=============================================================================
