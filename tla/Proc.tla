-------------------------------- MODULE Proc --------------------------------
(***************************************************************************)
(* The process table of proc.c: fork, exit, wait, kill, sleep, wakeup and  *)
(* yield of processes on several CPUs, with the per-CPU scheduler, the     *)
(* checks of p->killed in trap(), and ptable.lock as it is handed across   *)
(* swtch from the scheduler to a process and back.                         *)
(*                                                                         *)
(* A section under ptable.lock is one step unless it ends in sched(), when *)
(* the lock stays with the CPU until its scheduler gives it up.  A slot of *)
(* the table is its index, initproc is slot 1, and 0 stands for no slot.   *)
(***************************************************************************)
EXTENDS Integers, FiniteSets

CONSTANTS
  CPU,       \* the processors
  NoCPU,     \* holder of a free ptable.lock
  NPROC,     \* slots of ptable.proc
  MaxPid,    \* bound on nextpid: how many forks a run may make
  KillPids   \* arguments programs give to kill

ASSUME NoCPUAssumption == NoCPU \notin CPU
ASSUME NPROCAssumption == NPROC \in Nat \ {0} /\ MaxPid \in Nat \ {0}

Slot     == 1..NPROC
initproc == 1
IO       == -1   \* any sleep channel that is not a process

VARIABLES
  state,    \* p->state
  pid,      \* p->pid
  parent,   \* p->parent
  chan,     \* p->chan: 0, IO, or the slot of a process asleep in wait
  killed,   \* p->killed
  nextpid,
  lock,     \* the CPU that holds ptable.lock
  cpu,      \* c->proc
  at,       \* where each CPU is: in its scheduler or in a process
  scan,     \* the scheduler's loop variable
  pc,       \* where each process is in its system call
  ctx,      \* where each process that is not running called sched()
  child     \* np, while the process is in fork

table == <<state, pid, parent, chan, killed, nextpid>>
sched == <<lock, cpu, at, scan>>
kstack == <<pc, ctx, child>>
vars == <<table, sched, kstack>>

State == {"UNUSED", "EMBRYO", "SLEEPING", "RUNNABLE", "RUNNING", "ZOMBIE"}
Live  == {"SLEEPING", "RUNNABLE", "RUNNING"}

\* Types; a CPU names a process exactly when it is not in its scheduler.
TypeOK ==
  /\ state \in [Slot -> State]
  /\ pid \in [Slot -> 0..MaxPid]
  /\ parent \in [Slot -> 0..NPROC]
  /\ chan \in [Slot -> {IO} \cup 0..NPROC]
  /\ killed \in [Slot -> BOOLEAN]
  /\ nextpid \in 1..(MaxPid + 1)
  /\ lock \in CPU \cup {NoCPU}
  /\ cpu \in [CPU -> 0..NPROC]
  /\ at \in [CPU -> {"top", "scan", "resume", "run", "sched", "panic"}]
  /\ scan \in [CPU -> 1..(NPROC + 1)]
  /\ pc \in [Slot -> {"user", "ret", "fork", "forked", "exit"}]
  /\ ctx \in [Slot -> {"new", "yield", "wait", "io", "exit"}]
  /\ child \in [Slot -> 0..NPROC]
  /\ \A c \in CPU : cpu[c] = 0 <=> at[c] \in {"top", "scan"}

\* userinit has made the first process; every CPU is about to schedule.
Init ==
  /\ state = [i \in Slot |-> IF i = initproc THEN "RUNNABLE" ELSE "UNUSED"]
  /\ pid = [i \in Slot |-> IF i = initproc THEN 1 ELSE 0]
  /\ parent = [i \in Slot |-> 0]
  /\ chan = [i \in Slot |-> 0]
  /\ killed = [i \in Slot |-> FALSE]
  /\ nextpid = 2
  /\ lock = NoCPU
  /\ cpu = [c \in CPU |-> 0]
  /\ at = [c \in CPU |-> "top"]
  /\ scan = [c \in CPU |-> 1]
  /\ pc = [i \in Slot |-> "user"]
  /\ ctx = [i \in Slot |-> "new"]
  /\ child = [i \in Slot |-> 0]

First(S) == CHOOSE i \in S : \A j \in S : i <= j

\* Process p runs on CPU c and c holds no lock; label is where p is.
Running(c, p, label) ==
  /\ at[c] = "run"
  /\ cpu[c] = p
  /\ p # 0
  /\ pc[p] = label

\* A section of the process table: taken with a free lock and left with one.
Locked == lock = NoCPU /\ UNCHANGED sched

\* Mutant: the lock is released before the switch to the scheduler.
EnterSchedUnlocked(c) ==
  /\ lock = NoCPU \/ lock = c
  /\ lock' = NoCPU
  /\ at' = [at EXCEPT ![c] = "sched"]
  /\ UNCHANGED <<cpu, scan>>

\* A section that ends in sched(): the lock stays with the CPU.
EnterSched(c) ==
  /\ lock = NoCPU \/ lock = c
  /\ lock' = c
  /\ at' = [at EXCEPT ![c] = "sched"]
  /\ UNCHANGED <<cpu, scan>>

Goto(p, label) ==
  /\ pc' = [pc EXCEPT ![p] = label]
  /\ UNCHANGED <<ctx, child>>

-----------------------------------------------------------------------------
(* scheduler and sched *)

SchedAcquire(c) ==
  /\ at[c] = "top"
  /\ lock = NoCPU
  /\ lock' = c
  /\ at' = [at EXCEPT ![c] = "scan"]
  /\ scan' = [scan EXCEPT ![c] = 1]
  /\ UNCHANGED <<table, cpu, kstack>>

\* The RUNNABLE processes the loop has still to come to.
Candidates(c) == {i \in scan[c]..NPROC : state[i] = "RUNNABLE"}

\* Mutant: the scan starts over after every process.
ScanFromStart(p) == 1

\* p++ of the scheduler's loop.
ScanOn(p) == p + 1

SchedPick(c) ==
  /\ at[c] = "scan"
  /\ Candidates(c) # {}
  /\ LET p == First(Candidates(c)) IN
       /\ cpu' = [cpu EXCEPT ![c] = p]
       /\ state' = [state EXCEPT ![p] = "RUNNING"]
       /\ scan' = [scan EXCEPT ![c] = ScanOn(p)]
  /\ at' = [at EXCEPT ![c] = "resume"]
  /\ UNCHANGED <<pid, parent, chan, killed, nextpid, lock, kstack>>

SchedRelease(c) ==
  /\ at[c] = "scan"
  /\ Candidates(c) = {}
  /\ lock' = NoCPU
  /\ at' = [at EXCEPT ![c] = "top"]
  /\ UNCHANGED <<table, cpu, scan, kstack>>

\* sched's swtch to the scheduler, which sets c->proc = 0 and goes on with its
\* loop; the process is off this CPU's stack only now.
Swtch(c) ==
  /\ at[c] = "sched"
  /\ cpu' = [cpu EXCEPT ![c] = 0]
  /\ at' = [at EXCEPT ![c] = "scan"]
  /\ UNCHANGED <<table, lock, scan, kstack>>

\* The end of yield, of sleep with another lock, or forkret: p->chan = 0 and
\* release(&ptable.lock).
Resume(c) ==
  /\ at[c] = "resume"
  /\ ctx[cpu[c]] \in {"new", "yield", "io"}
  /\ chan' = [chan EXCEPT ![cpu[c]] = IF ctx[cpu[c]] = "io" THEN 0 ELSE @]
  /\ lock' = NoCPU
  /\ at' = [at EXCEPT ![c] = "run"]
  /\ UNCHANGED <<state, pid, parent, killed, nextpid, cpu, scan, kstack>>

\* yield, on a timer interrupt in user or kernel mode.
Yield(c, p) ==
  /\ at[c] = "run" /\ cpu[c] = p
  /\ ~(pc[p] = "user" /\ killed[p])
  /\ EnterSched(c)
  /\ lock = NoCPU
  /\ state' = [state EXCEPT ![p] = "RUNNABLE"]
  /\ ctx' = [ctx EXCEPT ![p] = "yield"]
  /\ UNCHANGED <<pid, parent, chan, killed, nextpid, pc, child>>

-----------------------------------------------------------------------------
(* trap *)

\* Return from a system call that was not interrupted by a kill.
SysReturn(c, p) ==
  /\ Running(c, p, "ret")
  /\ ~killed[p]
  /\ Goto(p, "user")
  /\ UNCHANGED <<table, sched>>

\* trap's checks of p->killed, on the way back to user space: exit() up to the
\* point where it takes ptable.lock.  exit of initproc panics.
ExitStart(c, p) ==
  /\ Running(c, p, "ret") \/ Running(c, p, "user")
  /\ killed[p]
  /\ IF p = initproc THEN at' = [at EXCEPT ![c] = "panic"] ELSE UNCHANGED at
  /\ Goto(p, "exit")
  /\ UNCHANGED <<table, lock, cpu, scan>>

\* sys_exit.
SysExit(c, p) ==
  /\ Running(c, p, "user")
  /\ ~killed[p]
  /\ p # initproc
  /\ Goto(p, "exit")
  /\ UNCHANGED <<table, sched>>

\* The default case of trap: the process faulted in user space.
Fault(c, p) ==
  /\ Running(c, p, "user")
  /\ p # initproc
  /\ killed' = [killed EXCEPT ![p] = TRUE]
  /\ UNCHANGED <<state, pid, parent, chan, nextpid, sched, kstack>>

-----------------------------------------------------------------------------
(* fork *)

Unused == {i \in Slot : state[i] = "UNUSED"}

\* Mutant: nextpid is not advanced.
NextPid(n) == n

\* nextpid++
Advance(n) == n + 1

\* allocproc under the lock.
ForkAlloc(c, p) ==
  /\ Running(c, p, "user") /\ ~killed[p]
  /\ nextpid <= MaxPid
  /\ Locked
  /\ Unused # {}
  /\ LET np == First(Unused) IN
       /\ state' = [state EXCEPT ![np] = "EMBRYO"]
       /\ pid' = [pid EXCEPT ![np] = nextpid]
       /\ child' = [child EXCEPT ![p] = np]
  /\ nextpid' = Advance(nextpid)
  /\ pc' = [pc EXCEPT ![p] = "fork"]
  /\ UNCHANGED <<parent, chan, killed, ctx>>

\* No slot, return -1.
ForkNoSlot(c, p) ==
  /\ Running(c, p, "user") /\ ~killed[p]
  /\ Locked
  /\ Unused = {}
  /\ Goto(p, "ret")
  /\ UNCHANGED table

\* kalloc or copyuvm fails: the slot is given back without the lock, and keeps
\* its pid.
ForkFail(c, p) ==
  /\ Running(c, p, "fork")
  /\ state' = [state EXCEPT ![child[p]] = "UNUSED"]
  /\ child' = [child EXCEPT ![p] = 0]
  /\ pc' = [pc EXCEPT ![p] = "ret"]
  /\ UNCHANGED <<pid, parent, chan, killed, nextpid, ctx, sched>>

\* np->parent = curproc and the rest of the copy, without the lock.
ForkCopy(c, p) ==
  /\ Running(c, p, "fork")
  /\ parent' = [parent EXCEPT ![child[p]] = p]
  /\ Goto(p, "forked")
  /\ UNCHANGED <<state, pid, chan, killed, nextpid, sched>>

\* np->state = RUNNABLE under the lock.
ForkRun(c, p) ==
  /\ Running(c, p, "forked")
  /\ Locked
  /\ state' = [state EXCEPT ![child[p]] = "RUNNABLE"]
  /\ child' = [child EXCEPT ![p] = 0]
  /\ pc' = [pc EXCEPT ![p] = "ret", ![child[p]] = "user"]
  /\ ctx' = [ctx EXCEPT ![child[p]] = "new"]
  /\ UNCHANGED <<pid, parent, chan, killed, nextpid>>

-----------------------------------------------------------------------------
(* wakeup1, exit, wait, sleep, kill *)

\* The table after wakeup1 of each channel in C.
wakeup1(C) ==
  [i \in Slot |-> IF state[i] = "SLEEPING" /\ chan[i] \in C THEN "RUNNABLE" ELSE state[i]]

Children(p) == {q \in Slot : parent[q] = p}
Zombies(p)  == {q \in Children(p) : state[q] = "ZOMBIE"}

\* Mutant: exit does not wake its parent.
WakeOnlyInit(p) == IF Zombies(p) # {} THEN {initproc} ELSE {}

\* The channels exit wakes: its parent, and init if that inherits a zombie.
ExitWakes(p) == {parent[p]} \cup IF Zombies(p) # {} THEN {initproc} ELSE {}

\* Mutant: abandoned children keep their parent.
Abandon(p) == parent

\* Pass abandoned children to init.
Reparent(p) == [q \in Slot |-> IF parent[q] = p THEN initproc ELSE parent[q]]

\* exit from the acquire of ptable.lock to sched().
Exit(c, p) ==
  /\ Running(c, p, "exit")
  /\ lock = NoCPU
  /\ EnterSched(c)
  /\ state' = [wakeup1(ExitWakes(p)) EXCEPT ![p] = "ZOMBIE"]
  /\ parent' = Reparent(p)
  /\ ctx' = [ctx EXCEPT ![p] = "exit"]
  /\ UNCHANGED <<pid, chan, killed, nextpid, pc, child>>

\* wait scans the table: at the system call, with a free lock, or when sleep
\* returns to it with ptable.lock still held.
WaitScan(c, p) ==
  /\ cpu[c] = p /\ p # 0
  /\ \/ Running(c, p, "user") /\ ~killed[p] /\ lock = NoCPU
     \/ at[c] = "resume" /\ ctx[p] = "wait"

WaitReturn(c, p) ==
  /\ lock' = NoCPU
  /\ at' = [at EXCEPT ![c] = "run"]
  /\ Goto(p, "ret")
  /\ UNCHANGED <<cpu, scan>>

\* A zombie child: its slot becomes UNUSED.
WaitReap(c, p) ==
  /\ WaitScan(c, p)
  /\ Zombies(p) # {}
  /\ LET q == First(Zombies(p)) IN
       /\ state' = [state EXCEPT ![q] = "UNUSED"]
       /\ pid' = [pid EXCEPT ![q] = 0]
       /\ parent' = [parent EXCEPT ![q] = 0]
       /\ killed' = [killed EXCEPT ![q] = FALSE]
  /\ chan' = [chan EXCEPT ![p] = 0]
  /\ WaitReturn(c, p)
  /\ UNCHANGED nextpid

\* No children, or killed: return -1.
WaitFail(c, p) ==
  /\ WaitScan(c, p)
  /\ Zombies(p) = {}
  /\ Children(p) = {} \/ killed[p]
  /\ chan' = [chan EXCEPT ![p] = 0]
  /\ WaitReturn(c, p)
  /\ UNCHANGED <<state, pid, parent, killed, nextpid>>

\* sleep(curproc, &ptable.lock)
WaitSleep(c, p) ==
  /\ WaitScan(c, p)
  /\ Zombies(p) = {}
  /\ Children(p) # {} /\ ~killed[p]
  /\ EnterSched(c)
  /\ state' = [state EXCEPT ![p] = "SLEEPING"]
  /\ chan' = [chan EXCEPT ![p] = p]
  /\ ctx' = [ctx EXCEPT ![p] = "wait"]
  /\ UNCHANGED <<pid, parent, killed, nextpid, pc, child>>

\* A system call that sleeps on something else, and its wakeup by an interrupt.
\* exit sleeps too, in fileclose, begin_op and iput.
SleepIO(c, p) ==
  /\ (Running(c, p, "user") /\ ~killed[p]) \/ Running(c, p, "exit")
  /\ lock = NoCPU
  /\ EnterSched(c)
  /\ state' = [state EXCEPT ![p] = "SLEEPING"]
  /\ chan' = [chan EXCEPT ![p] = IO]
  /\ ctx' = [ctx EXCEPT ![p] = "io"]
  /\ pc' = [pc EXCEPT ![p] = IF @ = "exit" THEN "exit" ELSE "ret"]
  /\ UNCHANGED <<pid, parent, killed, nextpid, child>>

WakeIO ==
  /\ Locked
  /\ state' = wakeup1({IO})
  /\ UNCHANGED <<pid, parent, chan, killed, nextpid, kstack>>

\* Wake process from sleep if necessary.
KillWake(i) == [state EXCEPT ![i] = IF @ = "SLEEPING" THEN "RUNNABLE" ELSE @]

\* kill(k): the first slot with that pid, whatever its state.
Kill(c, p, k) ==
  /\ Running(c, p, "user") /\ ~killed[p]
  /\ Locked
  /\ LET M == {i \in Slot : pid[i] = k} IN
       IF M = {} THEN UNCHANGED <<killed, state>>
                 ELSE /\ killed' = [killed EXCEPT ![First(M)] = TRUE]
                      /\ state' = KillWake(First(M))
  /\ Goto(p, "ret")
  /\ UNCHANGED <<pid, parent, chan, nextpid>>

-----------------------------------------------------------------------------

Scheduler(c) == SchedAcquire(c) \/ SchedPick(c) \/ SchedRelease(c) \/ Swtch(c) \/ Resume(c)

\* What a process does of itself once it is in the kernel or killed.
Kernel(c, p) ==
  \/ SysReturn(c, p) \/ ExitStart(c, p) \/ Exit(c, p)
  \/ ForkFail(c, p) \/ ForkCopy(c, p) \/ ForkRun(c, p)

Wait(c, p) == WaitReap(c, p) \/ WaitFail(c, p) \/ WaitSleep(c, p)

\* The system calls a program chooses to make, and its faults.
Program(c, p) ==
  \/ SysExit(c, p) \/ Fault(c, p) \/ ForkAlloc(c, p) \/ ForkNoSlot(c, p)
  \/ SleepIO(c, p) \/ \E k \in KillPids : Kill(c, p, k)

Next ==
  \/ \E c \in CPU :
       \/ Scheduler(c)
       \/ \E p \in Slot : Yield(c, p) \/ Kernel(c, p) \/ Wait(c, p) \/ Program(c, p)
  \/ WakeIO

Spec == Init /\ [][Next]_vars

\* A CPU that spins on ptable.lock gets it in the end, and code that holds it
\* goes on; timer and device interrupts come; a process makes progress in the kernel when
\* it keeps being scheduled; init never stops calling wait.
FairSpec ==
  /\ Spec
  /\ \A c \in CPU :
       /\ SF_vars(Scheduler(c) \/ (at[c] = "resume" /\ \E p \in Slot : Wait(c, p)))
       /\ SF_vars(\E p \in Slot : Yield(c, p))
  /\ \A p \in Slot : SF_vars(\E c \in CPU : Kernel(c, p))
  /\ SF_vars(\E c \in CPU : Wait(c, initproc))
  /\ SF_vars(WakeIO)

-----------------------------------------------------------------------------
(* Properties *)

\* A process is on the stack of at most one CPU, its slot is not given away
\* while it is, and it is RUNNING unless its CPU is about to switch.
OneCPU ==
  /\ TypeOK
  /\ \A c, d \in CPU : cpu[c] = cpu[d] /\ cpu[c] # 0 => c = d
  /\ \A c \in CPU : cpu[c] # 0 =>
       state[cpu[c]] \in IF at[c] = "sched" THEN {"RUNNABLE", "SLEEPING", "ZOMBIE"}
                                            ELSE {"RUNNING"}
  /\ \A p \in Slot : state[p] = "RUNNING" => \E c \in CPU : cpu[c] = p

\* Every process but init has a parent that can still wait for it.
HasParent ==
  \A p \in Slot \ {initproc} :
    state[p] \in Live \cup {"ZOMBIE"} => parent[p] # 0 /\ state[parent[p]] \in Live

\* A process asleep in wait has a child to wait for, none that has exited
\* already, and has not been killed: it missed neither wakeup.
NoMissedExit ==
  \A p \in Slot :
    state[p] = "SLEEPING" /\ chan[p] = p
      => Children(p) # {} /\ Zombies(p) = {} /\ ~killed[p]

\* Two processes never have the same pid.
UniquePids ==
  \A p, q \in Slot :
    state[p] # "UNUSED" /\ state[q] # "UNUSED" /\ pid[p] = pid[q] => p = q

\* Round robin: a RUNNABLE process is run.
RunnableRuns == \A p \in Slot : state[p] = "RUNNABLE" ~> state[p] # "RUNNABLE"

\* An exited process whose parent is init is reaped.
OrphansReaped ==
  \A p \in Slot : state[p] = "ZOMBIE" /\ parent[p] = initproc ~> state[p] = "UNUSED"
=============================================================================
