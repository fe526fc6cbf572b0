----------------------------- MODULE SleepLock -----------------------------
(***************************************************************************)
(* One sleep-lock (sleeplock.c) together with the sleep()/wakeup() pair of *)
(* proc.c it is built on.  The spin-locks lk->lk and ptable.lock are kept  *)
(* as variables that name their holder, because the question this module   *)
(* asks is whether the order in which sleep() takes the one and drops the  *)
(* other can lose a wakeup.  What happens between an acquire and a release *)
(* of ptable.lock with no other effect in between is one step.             *)
(*                                                                         *)
(* There are as many CPUs as running processes: a process that is RUNNING  *)
(* takes steps, one that is SLEEPING or RUNNABLE does not.                 *)
(***************************************************************************)

CONSTANTS
  Locker,  \* the processes that use the lock
  NoProc   \* holder of a free lock

ASSUME NoProcAssumption == NoProc \notin Locker

VARIABLES
  locked,  \* lk->locked
  owner,   \* lk->pid
  lk,      \* holder of the spin-lock lk->lk
  pt,      \* holder of ptable.lock
  state,   \* p->state
  at       \* where each process is in acquiresleep, sleep or releasesleep

lockvars == <<locked, owner, lk, pt, state, at>>

LockLabel == {"user", "acquire", "test", "sleep", "drop", "block", "asleep",
          "resumed", "crit", "release", "unlock", "wake", "done"}

\* A process between the acquire and the release of lk->lk, and of ptable.lock.
LkLabels == {"test", "sleep", "drop", "unlock", "wake", "done"}
PtLabels == {"drop", "block", "resumed"}

\* A process that acquiresleep has returned to.
CritLabels == {"crit", "release", "unlock"}

\* Types; lk->pid names a process exactly while lk->locked is set.
LockTypeOK ==
  /\ locked \in BOOLEAN
  /\ owner \in IF locked THEN Locker ELSE {NoProc}
  /\ lk \in Locker \cup {NoProc}
  /\ pt \in Locker \cup {NoProc}
  /\ state \in [Locker -> {"RUNNING", "SLEEPING", "RUNNABLE"}]
  /\ at \in [Locker -> LockLabel]

\* initsleeplock: a free lock; every process runs outside of it.
LockInit ==
  /\ locked = FALSE
  /\ owner = NoProc
  /\ lk = NoProc
  /\ pt = NoProc
  /\ state = [p \in Locker |-> "RUNNING"]
  /\ at = [p \in Locker |-> "user"]

Go(p, from, to) == at[p] = from /\ at' = [at EXCEPT ![p] = to]

-----------------------------------------------------------------------------
(* acquiresleep *)

AcquireSleep(p) ==
  /\ Go(p, "user", "acquire")
  /\ UNCHANGED <<locked, owner, lk, pt, state>>

\* acquire(&lk->lk), at the start of acquiresleep or at the end of sleep().
AcquireLk(p) ==
  /\ lk = NoProc
  /\ Go(p, "acquire", "test")
  /\ lk' = p
  /\ UNCHANGED <<locked, owner, pt, state>>

\* Mutant: a woken sleeper takes the lock without testing it again.
TakeLockUntested(p) ==
  /\ Go(p, "test", "crit")
  /\ locked' = TRUE
  /\ owner' = p
  /\ lk' = NoProc
  /\ UNCHANGED <<pt, state>>

\* The while test fails: take the lock, record the pid, release(&lk->lk).
TakeLock(p) ==
  /\ Go(p, "test", "crit")
  /\ ~locked
  /\ locked' = TRUE
  /\ owner' = p
  /\ lk' = NoProc
  /\ UNCHANGED <<pt, state>>

MustSleep(p) ==
  /\ Go(p, "test", "sleep")
  /\ locked
  /\ UNCHANGED <<locked, owner, lk, pt, state>>

-----------------------------------------------------------------------------
(* sleep(lk, &lk->lk) *)

\* Mutant: lk->lk is released before ptable.lock is taken.
SleepDropFirst(p) ==
  /\ Go(p, "sleep", "block")
  /\ lk' = NoProc
  /\ UNCHANGED <<locked, owner, pt, state>>

\* acquire(&ptable.lock) while lk->lk is still held.
SleepLockPt(p) ==
  /\ pt = NoProc
  /\ Go(p, "sleep", "drop")
  /\ pt' = p
  /\ UNCHANGED <<locked, owner, lk, state>>

\* release(lk): from here only ptable.lock protects the sleeper.
SleepDropLk(p) ==
  /\ Go(p, "drop", "block")
  /\ lk' = NoProc
  /\ UNCHANGED <<locked, owner, pt, state>>

\* p->chan = chan; p->state = SLEEPING; sched() hands ptable.lock to the
\* scheduler, which releases it.
SleepBlock(p) ==
  /\ Go(p, "block", "asleep")
  /\ state' = [state EXCEPT ![p] = "SLEEPING"]
  /\ pt' = NoProc
  /\ UNCHANGED <<locked, owner, lk>>

\* A scheduler takes ptable.lock and switches to p, which now holds it.
Scheduled(p) ==
  /\ pt = NoProc
  /\ state[p] = "RUNNABLE"
  /\ Go(p, "asleep", "resumed")
  /\ state' = [state EXCEPT ![p] = "RUNNING"]
  /\ pt' = p
  /\ UNCHANGED <<locked, owner, lk>>

\* p->chan = 0; release(&ptable.lock); next is acquire(lk).
SleepReturn(p) ==
  /\ Go(p, "resumed", "acquire")
  /\ pt' = NoProc
  /\ UNCHANGED <<locked, owner, lk, state>>

-----------------------------------------------------------------------------
(* releasesleep and kill *)

ReleaseSleep(p) ==
  /\ Go(p, "crit", "release")
  /\ UNCHANGED <<locked, owner, lk, pt, state>>

\* Mutant: releasesleep does not take lk->lk.
ReleaseUnlocked(p) ==
  /\ Go(p, "release", "unlock")
  /\ UNCHANGED <<locked, owner, lk, pt, state>>

ReleaseLockLk(p) ==
  /\ lk = NoProc
  /\ Go(p, "release", "unlock")
  /\ lk' = p
  /\ UNCHANGED <<locked, owner, pt, state>>

Unlock(p) ==
  /\ Go(p, "unlock", "wake")
  /\ locked' = FALSE
  /\ owner' = NoProc
  /\ UNCHANGED <<lk, pt, state>>

\* Mutant: the state test of wakeup1 is inverted.
wakeupNone(st) ==
  [q \in Locker |-> IF st[q] # "SLEEPING" THEN st[q] ELSE "SLEEPING"]

\* wakeup1: every process asleep on the channel becomes RUNNABLE.  The lock
\* is the only channel here, so every sleeper is on it.
wakeup1(st) ==
  [q \in Locker |-> IF st[q] = "SLEEPING" THEN "RUNNABLE" ELSE st[q]]

\* wakeup(lk), under ptable.lock from acquire to release.
Wakeup(p) ==
  /\ pt = NoProc
  /\ Go(p, "wake", "done")
  /\ state' = wakeup1(state)
  /\ UNCHANGED <<locked, owner, lk, pt>>

ReleaseLk(p) ==
  /\ Go(p, "done", "user")
  /\ lk' = NoProc
  /\ UNCHANGED <<locked, owner, pt, state>>

\* kill(pid) of a sleeper makes it RUNNABLE whether or not the lock is free;
\* acquiresleep does not look at p->killed.
Kill(p) ==
  /\ pt = NoProc
  /\ state[p] = "SLEEPING"
  /\ state' = [state EXCEPT ![p] = "RUNNABLE"]
  /\ UNCHANGED <<locked, owner, lk, pt, at>>

\* What holdingsleep(&lk) returns to p.
holdingsleep(p) == locked /\ owner = p

-----------------------------------------------------------------------------

\* The steps a process takes once it is inside sleeplock.c.
LockStep(p) ==
  \/ AcquireLk(p) \/ TakeLock(p) \/ MustSleep(p)
  \/ SleepLockPt(p) \/ SleepDropLk(p) \/ SleepBlock(p)
  \/ Scheduled(p) \/ SleepReturn(p)
  \/ ReleaseSleep(p) \/ ReleaseLockLk(p) \/ Unlock(p) \/ Wakeup(p)
  \/ ReleaseLk(p)

LockNext == \E p \in Locker : AcquireSleep(p) \/ LockStep(p) \/ Kill(p)

LockSpec == LockInit /\ [][LockNext]_lockvars

\* A CPU that spins on xchg is not locked out for ever, and a holder of the
\* lock gives it back.
FairSpec == LockSpec /\ \A p \in Locker : SF_lockvars(LockStep(p))

-----------------------------------------------------------------------------
(* Properties *)

\* Mutual exclusion: acquiresleep has returned to at most one process that
\* has not yet given the lock back.
MutualExclusion ==
  \A p, q \in Locker : at[p] \in CritLabels /\ at[q] \in CritLabels => p = q

\* holdingsleep answers yes to exactly the process that acquiresleep returned
\* to: the panics of bwrite, brelse, iunlock and iderw rest on it.
HoldingsleepExact ==
  \A p \in Locker : holdingsleep(p) <=> at[p] \in CritLabels

\* No lost wakeup, as the comment in sleep() claims: a process is never left
\* SLEEPING on a free lock unless a releaser has yet to call wakeup.
NoLostWakeup ==
  \A p \in Locker :
    state[p] = "SLEEPING" => locked \/ \E q \in Locker : at[q] = "wake"

\* Every sleeper is made runnable again.
SleeperWoken ==
  \A p \in Locker : state[p] = "SLEEPING" ~> state[p] # "SLEEPING"

-----------------------------------------------------------------------------
(* The inductive invariant behind the three safety properties *)

\* The labels agree with who holds which spin-lock and who is asleep.
LocksHeld ==
  \A p \in Locker :
    /\ lk = p <=> at[p] \in LkLabels
    /\ pt = p <=> at[p] \in PtLabels
    /\ state[p] # "RUNNING" <=> at[p] = "asleep"

\* A process on its way to sleep saw the lock taken; until it is asleep either
\* lk->lk keeps the owner from clearing it or ptable.lock keeps the releaser
\* from scanning the table.
SleepersCovered ==
  \A p \in Locker :
    /\ at[p] \in {"sleep", "drop"} => locked
    /\ at[p] = "block" => locked \/ \E q \in Locker : at[q] = "wake"

\* The inductive invariant of every step of acquiresleep, releasesleep, sleep,
\* wakeup and kill.
IndInv ==
  /\ LockTypeOK
  /\ LocksHeld
  /\ HoldingsleepExact
  /\ SleepersCovered
  /\ NoLostWakeup
=============================================================================
