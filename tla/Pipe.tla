-------------------------------- MODULE Pipe --------------------------------
(***************************************************************************)
(* One pipe (pipe.c) from pipealloc to the kfree in pipeclose, with the    *)
(* references that file.c keeps to its two ends: processes inherit the     *)
(* ends by fork, read, write, close and are killed at any moment.          *)
(*                                                                         *)
(* A process inside a section under p->lock goes through it one byte or    *)
(* one test at a time, because kill does not take that lock.  sleep() and  *)
(* wakeup() are single steps: module SleepLock shows what they are made    *)
(* of.  A process that is woken stands where it acquires p->lock again.    *)
(***************************************************************************)
EXTENDS Naturals, Sequences, FiniteSets

CONSTANTS
  Proc,      \* processes
  Byte,      \* the data
  PIPESIZE,
  UINT,      \* nread and nwrite are counted modulo UINT (2^32)
  Writes,    \* what programs write in one call
  Reads      \* how much they ask for in one call

ASSUME PipeAssumption ==
  /\ IsFiniteSet(Proc) /\ Byte # {}
  /\ PIPESIZE \in Nat \ {0}
  /\ UINT \in Nat /\ UINT > PIPESIZE /\ UINT % PIPESIZE = 0
  /\ Writes \subseteq Seq(Byte)
  /\ Reads \subseteq Nat

VARIABLES
  data, nread, nwrite, readopen, writeopen,  \* struct pipe
  freed,   \* its page has been given to kfree
  ref,     \* f->ref of the file structures of the two ends
  fds,     \* the ends each process has open
  pc,      \* where each process is
  killed,  \* p->killed
  wbuf,    \* addr[i], ..., addr[n-1] of a write
  rbuf,    \* addr[0], ..., addr[i-1] of a read
  want     \* n of a read

pipe == <<data, nread, nwrite, readopen, writeopen, freed>>
vars == <<pipe, ref, fds, pc, killed, wbuf, rbuf, want>>

End == {"read", "write"}

\* A process in piperead or pipewrite: about to acquire p->lock, at the test of
\* the while loop, about to sleep, asleep; and copying bytes out.
Label == {"user", "write", "wloop", "wsleep", "wasleep",
          "read", "rloop", "rsleep", "rasleep", "rcopy", "closeread", "closewrite"}
Locking == {"wloop", "wsleep", "rloop", "rsleep", "rcopy"}

LockFree == \A p \in Proc : pc[p] \notin Locking

\* Bytes in the pipe.
Used == (nwrite + UINT - nread) % UINT

\* Types; at most PIPESIZE bytes are in the pipe, and f->ref is the number of
\* descriptors.
TypeOK ==
  /\ data \in [0..(PIPESIZE - 1) -> Byte]
  /\ nread \in 0..(UINT - 1) /\ nwrite \in 0..(UINT - 1)
  /\ Used <= PIPESIZE
  /\ readopen \in BOOLEAN /\ writeopen \in BOOLEAN /\ freed \in BOOLEAN
  /\ fds \in [Proc -> SUBSET End]
  /\ ref = [e \in End |-> Cardinality({p \in Proc : e \in fds[p]})]
  /\ pc \in [Proc -> Label]
  /\ killed \in [Proc -> BOOLEAN]
  /\ wbuf \in [Proc -> Seq(Byte)] /\ rbuf \in [Proc -> Seq(Byte)]
  /\ want \in [Proc -> Nat]

\* pipealloc and sys_pipe: one process has both ends.  kalloc's page holds
\* whatever it held.
Init ==
  /\ data \in [0..(PIPESIZE - 1) -> Byte]
  /\ nread = 0 /\ nwrite = 0
  /\ readopen = TRUE /\ writeopen = TRUE
  /\ freed = FALSE
  /\ ref = [e \in End |-> 1]
  /\ \E p \in Proc : fds = [q \in Proc |-> IF q = p THEN End ELSE {}]
  /\ pc = [p \in Proc |-> "user"]
  /\ killed = [p \in Proc |-> FALSE]
  /\ wbuf = [p \in Proc |-> << >>]
  /\ rbuf = [p \in Proc |-> << >>]
  /\ want = [p \in Proc |-> 0]

Go(p, from, to) == pc[p] = from /\ pc' = [pc EXCEPT ![p] = to]

\* pc after a step of p to label l that also calls wakeup() on a channel: the
\* sleepers at label s go back to label t.
GoWake(p, l, s, t) ==
  pc' = [q \in Proc |-> IF q = p THEN l ELSE IF pc[q] = s THEN t ELSE pc[q]]

Inc(n) == (n + 1) % UINT

-----------------------------------------------------------------------------
(* pipewrite *)

\* A killed process does not get past the test at the start of trap().
SysWrite(p, s) ==
  /\ "write" \in fds[p]
  /\ ~killed[p]
  /\ Go(p, "user", "write")
  /\ wbuf' = [wbuf EXCEPT ![p] = s]
  /\ UNCHANGED <<pipe, ref, fds, killed, rbuf, want>>

WriteLock(p) ==
  /\ LockFree
  /\ Go(p, "write", "wloop")
  /\ UNCHANGED <<pipe, ref, fds, killed, wbuf, rbuf, want>>

Full == nwrite = (nread + PIPESIZE) % UINT

WriteByte(p) ==
  /\ pc[p] = "wloop"
  /\ wbuf[p] # << >>
  /\ ~Full
  /\ data' = [data EXCEPT ![nwrite % PIPESIZE] = Head(wbuf[p])]
  /\ nwrite' = Inc(nwrite)
  /\ wbuf' = [wbuf EXCEPT ![p] = Tail(@)]
  /\ UNCHANGED <<nread, readopen, writeopen, freed, ref, fds, pc, killed, rbuf, want>>

\* All bytes are written: wakeup(&p->nread), release, return n.
WriteDone(p) ==
  /\ pc[p] = "wloop"
  /\ wbuf[p] = << >>
  /\ GoWake(p, "user", "rasleep", "read")
  /\ UNCHANGED <<pipe, ref, fds, killed, wbuf, rbuf, want>>

\* return -1; the bytes already written stay and no reader is woken.
WriteFail(p) ==
  /\ Go(p, "wloop", "user")
  /\ wbuf[p] # << >>
  /\ Full
  /\ ~readopen \/ killed[p]
  /\ wbuf' = [wbuf EXCEPT ![p] = << >>]
  /\ UNCHANGED <<pipe, ref, fds, killed, rbuf, want>>

\* Mutant: the readers are woken only by a write that is complete.
WriteFullQuiet(p) ==
  /\ Go(p, "wloop", "wsleep")
  /\ wbuf[p] # << >>
  /\ Full
  /\ readopen /\ ~killed[p]
  /\ UNCHANGED <<pipe, ref, fds, killed, wbuf, rbuf, want>>

\* wakeup(&p->nread); next is sleep(&p->nwrite, &p->lock).
WriteFull(p) ==
  /\ pc[p] = "wloop"
  /\ wbuf[p] # << >>
  /\ Full
  /\ readopen /\ ~killed[p]
  /\ GoWake(p, "wsleep", "rasleep", "read")
  /\ UNCHANGED <<pipe, ref, fds, killed, wbuf, rbuf, want>>

WriteSleep(p) ==
  /\ Go(p, "wsleep", "wasleep")
  /\ UNCHANGED <<pipe, ref, fds, killed, wbuf, rbuf, want>>

-----------------------------------------------------------------------------
(* piperead *)

SysRead(p, n) ==
  /\ "read" \in fds[p]
  /\ ~killed[p]
  /\ Go(p, "user", "read")
  /\ want' = [want EXCEPT ![p] = n]
  /\ UNCHANGED <<pipe, ref, fds, killed, wbuf, rbuf>>

ReadLock(p) ==
  /\ LockFree
  /\ Go(p, "read", "rloop")
  /\ UNCHANGED <<pipe, ref, fds, killed, wbuf, rbuf, want>>

MustWait == nread = nwrite /\ writeopen

ReadKilled(p) ==
  /\ Go(p, "rloop", "user")
  /\ MustWait
  /\ killed[p]
  /\ want' = [want EXCEPT ![p] = 0]
  /\ UNCHANGED <<pipe, ref, fds, killed, wbuf, rbuf>>

\* p is not killed, yet: next is sleep(&p->nread, &p->lock).
ReadEmpty(p) ==
  /\ Go(p, "rloop", "rsleep")
  /\ MustWait
  /\ ~killed[p]
  /\ UNCHANGED <<pipe, ref, fds, killed, wbuf, rbuf, want>>

ReadSleep(p) ==
  /\ Go(p, "rsleep", "rasleep")
  /\ UNCHANGED <<pipe, ref, fds, killed, wbuf, rbuf, want>>

ReadCopy(p) ==
  /\ Go(p, "rloop", "rcopy")
  /\ ~MustWait
  /\ UNCHANGED <<pipe, ref, fds, killed, wbuf, rbuf, want>>

\* Mutant: nread is incremented before it is used.
SlotLate(n) == (n + 1) % PIPESIZE

Slot(n) == n % PIPESIZE

ReadByte(p) ==
  /\ pc[p] = "rcopy"
  /\ Len(rbuf[p]) < want[p]
  /\ nread # nwrite
  /\ rbuf' = [rbuf EXCEPT ![p] = Append(@, data[Slot(nread)])]
  /\ nread' = Inc(nread)
  /\ UNCHANGED <<data, nwrite, readopen, writeopen, freed, ref, fds, pc, killed, wbuf, want>>

\* wakeup(&p->nwrite), release, return i.
ReadDone(p) ==
  /\ pc[p] = "rcopy"
  /\ Len(rbuf[p]) = want[p] \/ nread = nwrite
  /\ GoWake(p, "user", "wasleep", "write")
  /\ rbuf' = [rbuf EXCEPT ![p] = << >>]
  /\ want' = [want EXCEPT ![p] = 0]
  /\ UNCHANGED <<pipe, ref, fds, killed, wbuf>>

-----------------------------------------------------------------------------
(* close, fork, kill *)

CloseLabel(e) == IF e = "read" THEN "closeread" ELSE "closewrite"

\* fileclose under ftable.lock: the last reference goes on to pipeclose.
FileClose(p, e) ==
  /\ e \in fds[p]
  /\ Go(p, "user", IF ref[e] > 1 THEN "user" ELSE CloseLabel(e))
  /\ fds' = [fds EXCEPT ![p] = @ \ {e}]
  /\ ref' = [ref EXCEPT ![e] = @ - 1]
  /\ UNCHANGED <<pipe, killed, wbuf, rbuf, want>>

\* Mutants: the page is freed with the first end; the readers are not told that
\* there will be no more data.
FreeFirst(r, w) == ~r \/ ~w

\* The page is freed when neither end is open.
BothClosed(r, w) == ~r /\ ~w

CloseWriteQuiet(p) ==
  /\ LockFree
  /\ Go(p, "closewrite", "user")
  /\ writeopen' = FALSE
  /\ freed' = BothClosed(readopen, FALSE)
  /\ UNCHANGED <<data, nread, nwrite, readopen, ref, fds, killed, wbuf, rbuf, want>>

\* pipeclose(p, 1)
PipeCloseWrite(p) ==
  /\ LockFree
  /\ pc[p] = "closewrite"
  /\ writeopen' = FALSE
  /\ GoWake(p, "user", "rasleep", "read")
  /\ freed' = BothClosed(readopen, FALSE)
  /\ UNCHANGED <<data, nread, nwrite, readopen, ref, fds, killed, wbuf, rbuf, want>>

\* pipeclose(p, 0)
PipeCloseRead(p) ==
  /\ LockFree
  /\ pc[p] = "closeread"
  /\ readopen' = FALSE
  /\ GoWake(p, "user", "wasleep", "write")
  /\ freed' = BothClosed(FALSE, writeopen)
  /\ UNCHANGED <<data, nread, nwrite, writeopen, ref, fds, killed, wbuf, rbuf, want>>

\* fork: the child has the same descriptors, counted by filedup.
Fork(p, q) ==
  /\ pc[p] = "user" /\ ~killed[p]
  /\ fds[p] # {}
  /\ pc[q] = "user" /\ fds[q] = {} /\ ~killed[q]
  /\ fds' = [fds EXCEPT ![q] = fds[p]]
  /\ ref' = [e \in End |-> ref[e] + IF e \in fds[p] THEN 1 ELSE 0]
  /\ UNCHANGED <<pipe, pc, killed, wbuf, rbuf, want>>

\* kill wakes a process that is asleep, and no other.
Kill(p) ==
  /\ ~killed[p]
  /\ killed' = [killed EXCEPT ![p] = TRUE]
  /\ pc' = [pc EXCEPT ![p] = CASE @ = "rasleep" -> "read"
                               [] @ = "wasleep" -> "write"
                               [] OTHER -> @]
  /\ UNCHANGED <<pipe, ref, fds, wbuf, rbuf, want>>

-----------------------------------------------------------------------------

\* What a process does of itself inside the kernel.
Step(p) ==
  \/ WriteLock(p) \/ WriteByte(p) \/ WriteDone(p) \/ WriteFail(p) \/ WriteFull(p) \/ WriteSleep(p)
  \/ ReadLock(p) \/ ReadKilled(p) \/ ReadEmpty(p) \/ ReadSleep(p)
  \/ ReadCopy(p) \/ ReadByte(p) \/ ReadDone(p)
  \/ PipeCloseWrite(p) \/ PipeCloseRead(p)

\* A killed process exits, and exit() closes its files.
ExitClose(p) == killed[p] /\ \E e \in End : FileClose(p, e)

\* What its program may do.
Program(p) ==
  \/ \E s \in Writes : SysWrite(p, s)
  \/ \E n \in Reads : SysRead(p, n)
  \/ \E e \in End : ~killed[p] /\ FileClose(p, e)
  \/ \E q \in Proc : Fork(p, q)

Next == \E p \in Proc : Step(p) \/ ExitClose(p) \/ Program(p) \/ Kill(p)

Spec == Init /\ [][Next]_vars

\* A process in the kernel goes on: the scheduler comes to every process, and a
\* spin-lock that is free again and again is taken by each that wants it.
FairSpec ==
  Spec /\ \A p \in Proc : SF_vars(Step(p)) /\ WF_vars(ExitClose(p))

-----------------------------------------------------------------------------
(* Properties *)

\* The bytes in the ring, in the order in which they are read.
Queue == [i \in 1..Used |-> data[(nread + i - 1) % PIPESIZE]]

fifo == INSTANCE Fifo WITH queue <- Queue, Capacity <- PIPESIZE

\* The ring with its two wrapping counters, filled and emptied in parts by any
\* number of readers and writers, is a bounded FIFO queue.
RefinesFifo == fifo!Spec

\* Between two sections under p->lock a writer sleeps only while the pipe is
\* full and has a reader, and, as long as nobody has been killed, a reader only
\* while it is empty and has a writer.  (A killed writer may leave bytes behind
\* without a wakeup: WriteFail.)
NoSleepOnReady ==
  LockFree => \A p \in Proc :
    /\ pc[p] = "wasleep" => Full /\ readopen
    /\ pc[p] = "rasleep" /\ (\A q \in Proc : ~killed[q]) => MustWait

\* No process can come to the page of the pipe after kfree has got it, and it
\* is given to kfree once all descriptors are closed.
FreedExactly ==
  /\ TypeOK
  /\ freed <=> \A p \in Proc : fds[p] = {} /\ pc[p] = "user"

\* A reader that waits when the last descriptor for writing is closed, by close
\* or by the exit of a killed process, returns.
ReaderSeesEnd ==
  \A p \in Proc : (pc[p] = "rasleep" /\ ref["write"] = 0) ~> pc[p] = "user"
=============================================================================
