----------------------------- MODULE ProcProofs -----------------------------
(***************************************************************************)
(* The process table of proc.c for any number of CPUs and slots: the       *)
(* safety invariants of module Proc, by one inductive invariant.           *)
(***************************************************************************)
EXTENDS Proc, WellFoundedInduction, TLAPS

\* A nonempty set of numbers has a least element.
LEMMA NatMin ==
  ASSUME NEW T, T \subseteq Nat, T # {}
  PROVE  \E x \in T : \A y \in T : x <= y
<1> DEFINE R == OpToRel(<, Nat)
<1>1. IsWellFoundedOn(R, Nat)
  BY NatLessThanWellFounded
<1>2. \E x \in T : \A y \in T : <<y, x>> \notin R
  <2> HIDE DEF R
  <2> QED
    BY <1>1, WFMin
<1>3. \A x, y \in Nat : <<x, y>> \in R <=> x < y
  BY DEF OpToRel
<1> HIDE DEF R
<1>4. PICK x \in T : \A y \in T : <<y, x>> \notin R
  BY <1>2
<1>5. ASSUME NEW y \in T PROVE x <= y
  <2>1. x \in Nat /\ y \in Nat
    OBVIOUS
  <2>2. ~(y < x)
    BY <1>3, <1>4, <2>1
  <2> QED
    BY <2>1, <2>2
<1> QED
  BY <1>5

USE NoCPUAssumption, NPROCAssumption

\* ptable.lock is held from the section that ends in sched() to the release by
\* the scheduler, or by the process that it resumes.
LockHeld ==
  \A c \in CPU : lock = c <=> at[c] \in {"scan", "resume", "sched"}

\* initproc is there to inherit; it does not get into exit, which panics.
InitLives ==
  /\ state[initproc] \in Live
  /\ pc[initproc] = "exit" => \E c \in CPU : cpu[c] = initproc /\ at[c] = "panic"

InFork(p) == pc[p] \in {"fork", "forked"}

\* np of a process in fork is an EMBRYO of its own, nobody's child until
\* np->parent is set.
Forking ==
  /\ \A p \in Slot : InFork(p) =>
       /\ state[p] \in Live
       /\ child[p] \in Slot
       /\ state[child[p]] = "EMBRYO"
       /\ parent[child[p]] = IF pc[p] = "fork" THEN 0 ELSE p
  /\ \A p, q \in Slot : InFork(p) /\ InFork(q) /\ child[p] = child[q] => p = q

\* A free slot is nobody's child, initproc neither, and no process is its own.
Parents ==
  /\ parent[initproc] = 0
  /\ \A p \in Slot : parent[p] # p
  /\ \A p \in Slot : state[p] = "UNUSED" => parent[p] = 0

\* nextpid has not been given out.
Pids == \A p \in Slot : pid[p] < nextpid

\* The types, with slots as names; and those that are numbers.
Types ==
  /\ state \in [Slot -> State]
  /\ parent \in [Slot -> Slot \cup {0}]
  /\ chan \in [Slot -> Slot \cup {0, IO}]
  /\ killed \in [Slot -> BOOLEAN]
  /\ lock \in CPU \cup {NoCPU}
  /\ cpu \in [CPU -> Slot \cup {0}]
  /\ at \in [CPU -> {"top", "scan", "resume", "run", "sched", "panic"}]
  /\ pc \in [Slot -> {"user", "ret", "fork", "forked", "exit"}]
  /\ ctx \in [Slot -> {"new", "yield", "wait", "io", "exit"}]
  /\ child \in [Slot -> Slot \cup {0}]

Numbers ==
  /\ pid \in [Slot -> 0..MaxPid]
  /\ nextpid \in 1..(MaxPid + 1)
  /\ scan \in [CPU -> 1..(NPROC + 1)]
  /\ Pids

\* A CPU names a process exactly when it is not in its scheduler, no other CPU
\* names it, and the process is RUNNING unless the CPU is about to switch.
Cpus ==
  /\ \A c \in CPU : cpu[c] = 0 <=> at[c] \in {"top", "scan"}
  /\ \A c, d \in CPU : cpu[c] = cpu[d] /\ cpu[c] # 0 => c = d
  /\ \A c \in CPU : cpu[c] # 0 /\ at[c] # "sched" => state[cpu[c]] = "RUNNING"
  /\ \A c \in CPU : at[c] = "sched" => state[cpu[c]] \in {"RUNNABLE", "SLEEPING", "ZOMBIE"}
  /\ \A p \in Slot : state[p] = "RUNNING" => \E c \in CPU : cpu[c] = p
  /\ LockHeld

Family == InitLives /\ HasParent /\ Forking /\ Parents

Inv == Types /\ Numbers /\ Cpus /\ Family /\ NoMissedExit /\ UniquePids

-----------------------------------------------------------------------------
(* Operators *)

\* The loops over the table find the slot they look for.
LEMMA FirstIn ==
  ASSUME NEW S, S \subseteq Slot, S # {}
  PROVE  First(S) \in S
<1>1. S \subseteq Nat
  BY DEF Slot
<1>2. \E i \in S : \A j \in S : i <= j
  BY <1>1, NatMin
<1> QED
  BY <1>2 DEF First

\* 0 and IO are not slots; initproc is one.
LEMMA SlotFacts ==
  /\ 0 \notin Slot /\ IO \notin Slot /\ IO # 0 /\ initproc \in Slot
  /\ 0..NPROC = Slot \cup {0}
  BY DEF Slot, IO, initproc

\* userinit leaves a state that satisfies the invariant.
LEMMA InitEstablishes == Init => Inv
<1> SUFFICES ASSUME Init PROVE Inv
  OBVIOUS
<1>1. Types
  BY SlotFacts DEF Init, Types, State
<1>2. Numbers
  BY DEF Init, Numbers, Pids
<1>3. Cpus
  BY SlotFacts DEF Init, Cpus, LockHeld
<1>4. Family
  BY SlotFacts DEF Init, Family, InitLives, HasParent, Forking, InFork, Parents, Live
<1>5. NoMissedExit /\ UniquePids
  BY SlotFacts DEF Init, NoMissedExit, UniquePids
<1> QED
  BY <1>1, <1>2, <1>3, <1>4, <1>5 DEF Inv

\* The scheduler takes ptable.lock: its CPU has no process.
LEMMA SchedAcquirePreserves ==
  ASSUME Inv, NEW c \in CPU, SchedAcquire(c)
  PROVE  Inv'
<1> USE SlotFacts DEF Inv, table, sched, kstack, SchedAcquire
<1>1. Types'
  BY DEF Types, Cpus, State
<1>2. Numbers'
  BY DEF Numbers, Pids
<1>3. Cpus'
  BY DEF Cpus, LockHeld, Types
<1>4. InitLives'
  BY DEF Types, Cpus, Family, InitLives, Live
<1>5. HasParent'
  BY DEF Types, Cpus, Family, HasParent, InitLives, Live, Forking, InFork
<1>6. Forking'
  BY DEF Types, Cpus, Family, Forking, InFork, Live
<1>7. Parents'
  BY DEF Types, Cpus, Family, Parents, Forking, InFork, Live
<1>8. NoMissedExit'
  BY DEF Types, Cpus, NoMissedExit, Children, Zombies
<1>9. UniquePids'
  BY DEF Types, Cpus, UniquePids
<1> QED
  BY <1>1, <1>2, <1>3, <1>4, <1>5, <1>6, <1>7, <1>8, <1>9 DEF Family

\* The scheduler gives its CPU a RUNNABLE process, which no CPU names.
LEMMA SchedPickPreserves ==
  ASSUME Inv, NEW c \in CPU, SchedPick(c)
  PROVE  Inv'
<1> USE SlotFacts DEF Inv, table, sched, kstack, SchedPick, Candidates
<1> DEFINE q == First(Candidates(c))
<1>a. /\ q \in Slot /\ state[q] = "RUNNABLE" /\ q + 1 \in 1..(NPROC + 1)
      /\ cpu' = [cpu EXCEPT ![c] = q]
      /\ state' = [state EXCEPT ![q] = "RUNNING"]
      /\ scan' = [scan EXCEPT ![c] = q + 1]
  <2>1. Candidates(c) \subseteq Slot
    BY DEF Numbers, Slot, Candidates
  <2>2. q \in Candidates(c)
    BY <2>1, FirstIn
  <2> QED
    BY <2>1, <2>2 DEF Slot, Candidates, ScanOn
<1> HIDE DEF q
<1>1. Types'
  BY <1>a DEF Types, State
<1>2. Numbers'
  BY <1>a DEF Numbers, Pids
<1>3. Cpus'
  <2>1. /\ at[c] = "scan" /\ cpu[c] = 0 /\ \A d \in CPU : cpu[d] # q
        /\ lock = c /\ \A d \in CPU : at[d] \in {"scan", "resume", "sched"} => d = c
    <3>1. lock = c /\ \A d \in CPU : at[d] \in {"scan", "resume", "sched"} => d = c
      BY DEF Cpus, LockHeld
    <3>2. ASSUME NEW d \in CPU, cpu[d] = q PROVE FALSE
      BY <1>a, <3>1, <3>2 DEF Cpus, Slot
    <3> QED
      BY <3>1, <3>2 DEF Cpus
  <2>2. /\ cpu'[c] = q /\ \A d \in CPU : d # c => cpu'[d] = cpu[d]
        /\ at'[c] = "resume" /\ \A d \in CPU : d # c => at'[d] = at[d]
        /\ state'[q] = "RUNNING" /\ \A i \in Slot : i # q => state'[i] = state[i]
        /\ lock' = lock /\ \A d \in CPU : cpu[d] = 0 \/ cpu[d] \in Slot
    BY <1>a DEF Types, Slot
  <2> HIDE DEF SchedPick
  <2>3. /\ \A d \in CPU : cpu'[d] = 0 <=> at'[d] \in {"top", "scan"}
        /\ \A d \in CPU : at'[d] = "sched" => state'[cpu'[d]] \in {"RUNNABLE", "SLEEPING", "ZOMBIE"}
    BY <1>a, <2>1, <2>2 DEF Cpus, Slot
  <2>4. \A d, e \in CPU : cpu'[d] = cpu'[e] /\ cpu'[d] # 0 => d = e
    BY <2>1, <2>2 DEF Cpus
  <2>5. \A d \in CPU : cpu'[d] # 0 /\ at'[d] # "sched" => state'[cpu'[d]] = "RUNNING"
    BY <2>1, <2>2 DEF Cpus
  <2>6. \A i \in Slot : state'[i] = "RUNNING" => \E d \in CPU : cpu'[d] = i
    BY <2>1, <2>2 DEF Cpus
  <2>7. LockHeld'
    BY <2>1, <2>2 DEF LockHeld
  <2> QED
    BY <2>3, <2>4, <2>5, <2>6, <2>7 DEF Cpus
<1>4. InitLives'
  BY <1>a DEF Types, Cpus, Family, InitLives, Live
<1>5. HasParent'
  BY <1>a DEF Types, Family, HasParent, InitLives, Live, Forking, InFork
<1>6. Forking'
  BY <1>a DEF Types, Family, Forking, InFork, Live
<1>7. Parents'
  BY <1>a DEF Types, Family, Parents, Forking, InFork, Live
<1>8. NoMissedExit'
  BY <1>a DEF Types, NoMissedExit, Children, Zombies
<1>9. UniquePids'
  BY <1>a DEF Types, UniquePids
<1> QED
  BY <1>1, <1>2, <1>3, <1>4, <1>5, <1>6, <1>7, <1>8, <1>9 DEF Family

\* The scheduler gives ptable.lock up at the end of its loop.
LEMMA SchedReleasePreserves ==
  ASSUME Inv, NEW c \in CPU, SchedRelease(c)
  PROVE  Inv'
<1> USE SlotFacts DEF Inv, table, sched, kstack, SchedRelease
<1>1. Types'
  BY DEF Types, Cpus, State
<1>2. Numbers'
  BY DEF Numbers, Pids
<1>3. Cpus'
  BY DEF Cpus, LockHeld, Types
<1>4. InitLives'
  BY DEF Types, Cpus, Family, InitLives, Live
<1>5. HasParent'
  BY DEF Types, Cpus, Family, HasParent, InitLives, Live, Forking, InFork
<1>6. Forking'
  BY DEF Types, Cpus, Family, Forking, InFork, Live
<1>7. Parents'
  BY DEF Types, Cpus, Family, Parents, Forking, InFork, Live
<1>8. NoMissedExit'
  BY DEF Types, Cpus, NoMissedExit, Children, Zombies
<1>9. UniquePids'
  BY DEF Types, Cpus, UniquePids
<1> QED
  BY <1>1, <1>2, <1>3, <1>4, <1>5, <1>6, <1>7, <1>8, <1>9 DEF Family

\* Back in the scheduler: c->proc = 0, under the lock that sched() was entered with.
LEMMA SwtchPreserves ==
  ASSUME Inv, NEW c \in CPU, Swtch(c)
  PROVE  Inv'
<1> USE SlotFacts DEF Inv, table, sched, kstack, Swtch
<1>1. Types'
  BY DEF Types, Cpus, State
<1>2. Numbers'
  BY DEF Numbers, Pids
<1>3. Cpus'
  BY DEF Cpus, LockHeld, Types
<1>4. InitLives'
  BY DEF Types, Cpus, Family, InitLives, Live
<1>5. HasParent'
  BY DEF Types, Cpus, Family, HasParent, InitLives, Live, Forking, InFork
<1>6. Forking'
  BY DEF Types, Cpus, Family, Forking, InFork, Live
<1>7. Parents'
  BY DEF Types, Cpus, Family, Parents, Forking, InFork, Live
<1>8. NoMissedExit'
  BY DEF Types, Cpus, NoMissedExit, Children, Zombies
<1>9. UniquePids'
  BY DEF Types, Cpus, UniquePids
<1> QED
  BY <1>1, <1>2, <1>3, <1>4, <1>5, <1>6, <1>7, <1>8, <1>9 DEF Family

\* A process that was switched to goes on, and gives up the scheduler's lock.
LEMMA ResumePreserves ==
  ASSUME Inv, NEW c \in CPU, Resume(c)
  PROVE  Inv'
<1> USE SlotFacts DEF Inv, table, sched, kstack, Resume
<1>1. Types'
  BY DEF Types, Cpus, State
<1>2. Numbers'
  BY DEF Numbers, Pids
<1>3. Cpus'
  BY DEF Cpus, LockHeld, Types
<1>4. InitLives'
  BY DEF Types, Cpus, Family, InitLives, Live
<1>5. HasParent'
  BY DEF Types, Cpus, Family, HasParent, InitLives, Live, Forking, InFork
<1>6. Forking'
  BY DEF Types, Cpus, Family, Forking, InFork, Live
<1>7. Parents'
  BY DEF Types, Cpus, Family, Parents, Forking, InFork, Live
<1>8. NoMissedExit'
  BY DEF Types, Cpus, NoMissedExit, Children, Zombies
<1>9. UniquePids'
  BY DEF Types, Cpus, UniquePids
<1> QED
  BY <1>1, <1>2, <1>3, <1>4, <1>5, <1>6, <1>7, <1>8, <1>9 DEF Family

\* yield: the process is RUNNABLE but still on its CPU until swtch.
LEMMA YieldPreserves ==
  ASSUME Inv, NEW c \in CPU, NEW p \in Slot, Yield(c, p)
  PROVE  Inv'
<1> USE SlotFacts DEF Inv, table, sched, kstack, Yield, EnterSched
<1>a. cpu[c] = p /\ state[p] = "RUNNING"
  BY DEF Types, Cpus
<1>1. Types'
  BY <1>a DEF Types, State
<1>2. Numbers'
  BY <1>a DEF Numbers, Pids
<1>3. Cpus'
  BY <1>a DEF Cpus, LockHeld, Types
<1>4. InitLives'
  BY <1>a DEF Types, Cpus, Family, InitLives, Live
<1>5. HasParent'
  BY <1>a DEF Types, Family, HasParent, InitLives, Live, Forking, InFork
<1>6. Forking'
  BY <1>a DEF Types, Family, Forking, InFork, Live
<1>7. Parents'
  BY <1>a DEF Types, Family, Parents, Forking, InFork, Live
<1>8. NoMissedExit'
  BY <1>a DEF Types, NoMissedExit, Children, Zombies
<1>9. UniquePids'
  BY <1>a DEF Types, UniquePids
<1> QED
  BY <1>1, <1>2, <1>3, <1>4, <1>5, <1>6, <1>7, <1>8, <1>9 DEF Family

\* The way back to user mode touches no table.
LEMMA SysReturnPreserves ==
  ASSUME Inv, NEW c \in CPU, NEW p \in Slot, SysReturn(c, p)
  PROVE  Inv'
<1> USE SlotFacts DEF Inv, table, sched, kstack, SysReturn, Running, Goto
<1>1. Types'
  BY DEF Types, Cpus, State
<1>2. Numbers'
  BY DEF Numbers, Pids
<1>3. Cpus'
  BY DEF Cpus, LockHeld, Types
<1>4. InitLives'
  BY DEF Types, Cpus, Family, InitLives, Live
<1>5. HasParent'
  BY DEF Types, Cpus, Family, HasParent, InitLives, Live, Forking, InFork
<1>6. Forking'
  BY DEF Types, Cpus, Family, Forking, InFork, Live
<1>7. Parents'
  BY DEF Types, Cpus, Family, Parents, Forking, InFork, Live
<1>8. NoMissedExit'
  BY DEF Types, Cpus, NoMissedExit, Children, Zombies
<1>9. UniquePids'
  BY DEF Types, Cpus, UniquePids
<1> QED
  BY <1>1, <1>2, <1>3, <1>4, <1>5, <1>6, <1>7, <1>8, <1>9 DEF Family

\* A killed process turns to exit.
LEMMA ExitStartPreserves ==
  ASSUME Inv, NEW c \in CPU, NEW p \in Slot, ExitStart(c, p)
  PROVE  Inv'
<1> USE SlotFacts DEF Inv, table, sched, kstack, ExitStart, Running, Goto
<1>1. Types'
  BY DEF Types, Cpus, State
<1>2. Numbers'
  BY DEF Numbers, Pids
<1>3. Cpus'
  BY DEF Cpus, LockHeld, Types
<1>4. InitLives'
  BY DEF Types, Cpus, Family, InitLives, Live
<1>5. HasParent'
  BY DEF Types, Cpus, Family, HasParent, InitLives, Live, Forking, InFork
<1>6. Forking'
  BY DEF Types, Cpus, Family, Forking, InFork, Live
<1>7. Parents'
  BY DEF Types, Cpus, Family, Parents, Forking, InFork, Live
<1>8. NoMissedExit'
  BY DEF Types, Cpus, NoMissedExit, Children, Zombies
<1>9. UniquePids'
  BY DEF Types, Cpus, UniquePids
<1> QED
  BY <1>1, <1>2, <1>3, <1>4, <1>5, <1>6, <1>7, <1>8, <1>9 DEF Family

\* A program calls exit.
LEMMA SysExitPreserves ==
  ASSUME Inv, NEW c \in CPU, NEW p \in Slot, SysExit(c, p)
  PROVE  Inv'
<1> USE SlotFacts DEF Inv, table, sched, kstack, SysExit, Running, Goto
<1>1. Types'
  BY DEF Types, Cpus, State
<1>2. Numbers'
  BY DEF Numbers, Pids
<1>3. Cpus'
  BY DEF Cpus, LockHeld, Types
<1>4. InitLives'
  BY DEF Types, Cpus, Family, InitLives, Live
<1>5. HasParent'
  BY DEF Types, Cpus, Family, HasParent, InitLives, Live, Forking, InFork
<1>6. Forking'
  BY DEF Types, Cpus, Family, Forking, InFork, Live
<1>7. Parents'
  BY DEF Types, Cpus, Family, Parents, Forking, InFork, Live
<1>8. NoMissedExit'
  BY DEF Types, Cpus, NoMissedExit, Children, Zombies
<1>9. UniquePids'
  BY DEF Types, Cpus, UniquePids
<1> QED
  BY <1>1, <1>2, <1>3, <1>4, <1>5, <1>6, <1>7, <1>8, <1>9 DEF Family

\* A program does what it is killed for.
LEMMA FaultPreserves ==
  ASSUME Inv, NEW c \in CPU, NEW p \in Slot, Fault(c, p)
  PROVE  Inv'
<1> USE SlotFacts DEF Inv, table, sched, kstack, Fault, Running
<1>1. Types'
  BY DEF Types, Cpus, State
<1>2. Numbers'
  BY DEF Numbers, Pids
<1>3. Cpus'
  BY DEF Cpus, LockHeld, Types
<1>4. InitLives'
  BY DEF Types, Cpus, Family, InitLives, Live
<1>5. HasParent'
  BY DEF Types, Cpus, Family, HasParent, InitLives, Live, Forking, InFork
<1>6. Forking'
  BY DEF Types, Cpus, Family, Forking, InFork, Live
<1>7. Parents'
  BY DEF Types, Cpus, Family, Parents, Forking, InFork, Live
<1>8. NoMissedExit'
  BY DEF Types, Cpus, NoMissedExit, Children, Zombies
<1>9. UniquePids'
  BY DEF Types, Cpus, UniquePids
<1> QED
  BY <1>1, <1>2, <1>3, <1>4, <1>5, <1>6, <1>7, <1>8, <1>9 DEF Family

\* allocproc takes a free slot, on which nobody else can have a hold, and a new pid.
LEMMA ForkAllocPreserves ==
  ASSUME Inv, NEW c \in CPU, NEW p \in Slot, ForkAlloc(c, p)
  PROVE  Inv'
<1> USE SlotFacts DEF Inv, table, sched, kstack, ForkAlloc, Running, Locked, Unused, Advance
<1> DEFINE np == First(Unused)
<1>a. /\ cpu[c] = p /\ state[p] = "RUNNING"
      /\ np \in Slot /\ state[np] = "UNUSED"
      /\ state' = [state EXCEPT ![np] = "EMBRYO"]
      /\ pid' = [pid EXCEPT ![np] = nextpid]
      /\ child' = [child EXCEPT ![p] = np]
  <2>1. np \in Unused
    BY FirstIn
  <2> QED
    BY <2>1 DEF Types, Cpus
<1>b. np # initproc /\ (\A d \in CPU : cpu[d] # np) /\ (\A i \in Slot : InFork(i) => i # np /\ child[i] # np)
  BY <1>a DEF Cpus, Types, Family, InitLives, Live, Forking
<1> HIDE DEF np
<1>1. Types'
  BY <1>a, <1>b DEF Types, State
<1>2. Numbers'
  BY <1>a, <1>b DEF Numbers, Pids
<1>3. Cpus'
  BY <1>a, <1>b DEF Cpus, LockHeld, Types
<1>4. InitLives'
  BY <1>a, <1>b DEF Types, Cpus, Family, InitLives, Live
<1>5. HasParent'
  BY <1>a, <1>b DEF Types, Family, HasParent, InitLives, Live, Forking, InFork
<1>6. Forking'
  <2>1. pc'[p] = "fork" /\ child'[p] = np /\ state'[np] = "EMBRYO" /\ parent'[np] = 0 /\ state'[p] = "RUNNING"
    BY <1>a DEF Types, Family, Parents
  <2>2. \A i \in Slot : i # p => pc'[i] = pc[i] /\ child'[i] = child[i]
    BY <1>a DEF Types
  <2>3. \A i \in Slot : i # np => state'[i] = state[i]
    BY <1>a DEF Types
  <2> QED
    BY <1>a, <1>b, <2>1, <2>2, <2>3 DEF Types, Family, Forking, InFork, Live
<1>7. Parents'
  BY <1>a, <1>b DEF Types, Family, Parents, Forking, InFork, Live
<1>8. NoMissedExit'
  BY <1>a, <1>b DEF Types, NoMissedExit, Children, Zombies
<1>9. UniquePids'
  BY <1>a, <1>b DEF Types, Numbers, Pids, UniquePids
<1> QED
  BY <1>1, <1>2, <1>3, <1>4, <1>5, <1>6, <1>7, <1>8, <1>9 DEF Family

\* fork finds no slot.
LEMMA ForkNoSlotPreserves ==
  ASSUME Inv, NEW c \in CPU, NEW p \in Slot, ForkNoSlot(c, p)
  PROVE  Inv'
<1> USE SlotFacts DEF Inv, table, sched, kstack, ForkNoSlot, Running, Locked, Goto
<1>1. Types'
  BY DEF Types, Cpus, State
<1>2. Numbers'
  BY DEF Numbers, Pids
<1>3. Cpus'
  BY DEF Cpus, LockHeld, Types
<1>4. InitLives'
  BY DEF Types, Cpus, Family, InitLives, Live
<1>5. HasParent'
  BY DEF Types, Cpus, Family, HasParent, InitLives, Live, Forking, InFork
<1>6. Forking'
  BY DEF Types, Cpus, Family, Forking, InFork, Live
<1>7. Parents'
  BY DEF Types, Cpus, Family, Parents, Forking, InFork, Live
<1>8. NoMissedExit'
  BY DEF Types, Cpus, NoMissedExit, Children, Zombies
<1>9. UniquePids'
  BY DEF Types, Cpus, UniquePids
<1> QED
  BY <1>1, <1>2, <1>3, <1>4, <1>5, <1>6, <1>7, <1>8, <1>9 DEF Family

\* copyuvm fails: the EMBRYO is the caller's own, and its slot is free again.
LEMMA ForkFailPreserves ==
  ASSUME Inv, NEW c \in CPU, NEW p \in Slot, ForkFail(c, p)
  PROVE  Inv'
<1> USE SlotFacts DEF Inv, table, sched, kstack, ForkFail, Running
<1> DEFINE np == child[p]
<1>a. /\ cpu[c] = p /\ state[p] = "RUNNING"
      /\ np \in Slot /\ state[np] = "EMBRYO" /\ parent[np] = IF pc[p] = "fork" THEN 0 ELSE p
      /\ np # initproc /\ np # p
      /\ \A d \in CPU : cpu[d] # np
      /\ \A i \in Slot : InFork(i) => i # np
      /\ \A i \in Slot : InFork(i) /\ i # p => child[i] # np
  <2>1. cpu[c] = p /\ at[c] = "run" /\ InFork(p)
    BY DEF InFork
  <2>2. state[p] = "RUNNING"
    BY <2>1 DEF Cpus, Slot
  <2>3. np \in Slot /\ state[np] = "EMBRYO" /\ parent[np] = IF pc[p] = "fork" THEN 0 ELSE p
    BY <2>1 DEF Family, Forking
  <2>4. np # initproc /\ np # p
    BY <2>2, <2>3 DEF Family, InitLives, Live
  <2>5. \A d \in CPU : cpu[d] # np
    BY <2>3 DEF Cpus, Slot
  <2>6. \A i \in Slot : InFork(i) => i # np
    BY <2>3 DEF Family, Forking, Live
  <2>7. \A i \in Slot : InFork(i) /\ i # p => child[i] # np
    BY <2>1 DEF Family, Forking
  <2> QED
    BY <2>1, <2>2, <2>3, <2>4, <2>5, <2>6, <2>7
<1>1. Types'
  BY <1>a DEF Types, State
<1>2. Numbers'
  BY <1>a DEF Numbers, Pids
<1>3. Cpus'
  BY <1>a DEF Cpus, LockHeld, Types
<1>4. InitLives'
  BY <1>a DEF Types, Cpus, Family, InitLives, Live
<1>5. HasParent'
  BY <1>a DEF Types, Family, HasParent, InitLives, Live, Forking, InFork
<1>6. Forking'
  BY <1>a DEF Types, Family, Forking, InFork, Live
<1>7. Parents'
  BY <1>a DEF Types, Family, Parents, Forking, InFork, Live
<1>8. NoMissedExit'
  BY <1>a DEF Types, NoMissedExit, Children, Zombies
<1>9. UniquePids'
  BY <1>a DEF Types, UniquePids
<1> QED
  BY <1>1, <1>2, <1>3, <1>4, <1>5, <1>6, <1>7, <1>8, <1>9 DEF Family

\* np->parent is set, outside of any lock: nobody else knows the EMBRYO.
LEMMA ForkCopyPreserves ==
  ASSUME Inv, NEW c \in CPU, NEW p \in Slot, ForkCopy(c, p)
  PROVE  Inv'
<1> USE SlotFacts DEF Inv, table, sched, kstack, ForkCopy, Running, Goto
<1> DEFINE np == child[p]
<1>a. /\ cpu[c] = p /\ state[p] = "RUNNING"
      /\ np \in Slot /\ state[np] = "EMBRYO" /\ parent[np] = IF pc[p] = "fork" THEN 0 ELSE p
      /\ np # initproc /\ np # p
      /\ \A d \in CPU : cpu[d] # np
      /\ \A i \in Slot : InFork(i) => i # np
      /\ \A i \in Slot : InFork(i) /\ i # p => child[i] # np
  <2>1. cpu[c] = p /\ at[c] = "run" /\ InFork(p)
    BY DEF InFork
  <2>2. state[p] = "RUNNING"
    BY <2>1 DEF Cpus, Slot
  <2>3. np \in Slot /\ state[np] = "EMBRYO" /\ parent[np] = IF pc[p] = "fork" THEN 0 ELSE p
    BY <2>1 DEF Family, Forking
  <2>4. np # initproc /\ np # p
    BY <2>2, <2>3 DEF Family, InitLives, Live
  <2>5. \A d \in CPU : cpu[d] # np
    BY <2>3 DEF Cpus, Slot
  <2>6. \A i \in Slot : InFork(i) => i # np
    BY <2>3 DEF Family, Forking, Live
  <2>7. \A i \in Slot : InFork(i) /\ i # p => child[i] # np
    BY <2>1 DEF Family, Forking
  <2> QED
    BY <2>1, <2>2, <2>3, <2>4, <2>5, <2>6, <2>7
<1>1. Types'
  BY <1>a DEF Types, State
<1>2. Numbers'
  BY <1>a DEF Numbers, Pids
<1>3. Cpus'
  BY <1>a DEF Cpus, LockHeld, Types
<1>4. InitLives'
  BY <1>a DEF Types, Cpus, Family, InitLives, Live
<1>5. HasParent'
  BY <1>a DEF Types, Family, HasParent, InitLives, Live, Forking, InFork
<1>6. Forking'
  BY <1>a DEF Types, Family, Forking, InFork, Live
<1>7. Parents'
  BY <1>a DEF Types, Family, Parents, Forking, InFork, Live
<1>8. NoMissedExit'
  BY <1>a DEF Types, NoMissedExit, Children, Zombies
<1>9. UniquePids'
  BY <1>a DEF Types, UniquePids
<1> QED
  BY <1>1, <1>2, <1>3, <1>4, <1>5, <1>6, <1>7, <1>8, <1>9 DEF Family

\* The child is RUNNABLE, and its parent is alive: it is in fork.
LEMMA ForkRunPreserves ==
  ASSUME Inv, NEW c \in CPU, NEW p \in Slot, ForkRun(c, p)
  PROVE  Inv'
<1> USE SlotFacts DEF Inv, table, sched, kstack, ForkRun, Running, Locked
<1> DEFINE np == child[p]
<1>a. /\ cpu[c] = p /\ state[p] = "RUNNING"
      /\ np \in Slot /\ state[np] = "EMBRYO" /\ parent[np] = IF pc[p] = "fork" THEN 0 ELSE p
      /\ np # initproc /\ np # p
      /\ \A d \in CPU : cpu[d] # np
      /\ \A i \in Slot : InFork(i) => i # np
      /\ \A i \in Slot : InFork(i) /\ i # p => child[i] # np
  <2>1. cpu[c] = p /\ at[c] = "run" /\ InFork(p)
    BY DEF InFork
  <2>2. state[p] = "RUNNING"
    BY <2>1 DEF Cpus, Slot
  <2>3. np \in Slot /\ state[np] = "EMBRYO" /\ parent[np] = IF pc[p] = "fork" THEN 0 ELSE p
    BY <2>1 DEF Family, Forking
  <2>4. np # initproc /\ np # p
    BY <2>2, <2>3 DEF Family, InitLives, Live
  <2>5. \A d \in CPU : cpu[d] # np
    BY <2>3 DEF Cpus, Slot
  <2>6. \A i \in Slot : InFork(i) => i # np
    BY <2>3 DEF Family, Forking, Live
  <2>7. \A i \in Slot : InFork(i) /\ i # p => child[i] # np
    BY <2>1 DEF Family, Forking
  <2> QED
    BY <2>1, <2>2, <2>3, <2>4, <2>5, <2>6, <2>7
<1>1. Types'
  BY <1>a DEF Types, State
<1>2. Numbers'
  BY <1>a DEF Numbers, Pids
<1>3. Cpus'
  BY <1>a DEF Cpus, LockHeld, Types
<1>4. InitLives'
  BY <1>a DEF Types, Cpus, Family, InitLives, Live
<1>5. HasParent'
  BY <1>a DEF Types, Family, HasParent, InitLives, Live, Forking, InFork
<1>6. Forking'
  BY <1>a DEF Types, Family, Forking, InFork, Live
<1>7. Parents'
  BY <1>a DEF Types, Family, Parents, Forking, InFork, Live
<1>8. NoMissedExit'
  BY <1>a DEF Types, NoMissedExit, Children, Zombies
<1>9. UniquePids'
  BY <1>a DEF Types, UniquePids
<1> QED
  BY <1>1, <1>2, <1>3, <1>4, <1>5, <1>6, <1>7, <1>8, <1>9 DEF Family

\* exit: the children go to initproc and a sleeping parent is woken, in one section.
LEMMA ExitPreserves ==
  ASSUME Inv, NEW c \in CPU, NEW p \in Slot, Exit(c, p)
  PROVE  Inv'
<1> USE SlotFacts DEF Inv, table, sched, kstack, Exit, Running, EnterSched, wakeup1, ExitWakes, Reparent
<1>a. cpu[c] = p /\ state[p] = "RUNNING" /\ p # initproc /\ parent[p] # p /\ parent[p] # 0
  BY DEF Types, Cpus, Family, InitLives, Parents, HasParent, Live
<1>1. Types'
  BY <1>a DEF Types, State
<1>2. Numbers'
  BY <1>a DEF Numbers, Pids
<1>3. Cpus'
  BY <1>a DEF Cpus, LockHeld, Types
<1>4. InitLives'
  BY <1>a DEF Types, Cpus, Family, InitLives, Live
<1>5. HasParent'
  BY <1>a DEF Types, Family, HasParent, InitLives, Live, Forking, InFork
<1>6. Forking'
  BY <1>a DEF Types, Family, Forking, InFork, Live
<1>7. Parents'
  BY <1>a DEF Types, Family, Parents, Forking, InFork, Live
<1>8. NoMissedExit'
  BY <1>a DEF Types, NoMissedExit, Children, Zombies
<1>9. UniquePids'
  BY <1>a DEF Types, UniquePids
<1> QED
  BY <1>1, <1>2, <1>3, <1>4, <1>5, <1>6, <1>7, <1>8, <1>9 DEF Family

\* wait frees the slot of a zombie, which has left its CPU.
LEMMA WaitReapPreserves ==
  ASSUME Inv, NEW c \in CPU, NEW p \in Slot, WaitReap(c, p)
  PROVE  Inv'
<1> USE SlotFacts DEF Inv, table, sched, kstack, WaitReap, WaitReturn, Goto
<1> DEFINE q == First(Zombies(p))
<1>a. /\ cpu[c] = p /\ state[p] = "RUNNING" /\ at[c] \in {"run", "resume"}
      /\ lock = NoCPU \/ lock = c
      /\ q \in Slot /\ state[q] = "ZOMBIE" /\ q # p /\ parent[q] = p
      /\ state' = [state EXCEPT ![q] = "UNUSED"]
      /\ pid' = [pid EXCEPT ![q] = 0]
      /\ parent' = [parent EXCEPT ![q] = 0]
      /\ killed' = [killed EXCEPT ![q] = FALSE]
  <2>1. q \in Zombies(p)
    BY FirstIn DEF Zombies, Children
  <2> QED
    BY <2>1 DEF Types, Cpus, LockHeld, WaitScan, Running, Zombies, Children
<1> HIDE DEF q
<1>b. /\ q # initproc /\ (\A i \in Slot : InFork(i) => i # q /\ child[i] # q)
       /\ \A d \in CPU : cpu[d] # q
       /\ \A i \in Slot : state[i] \in Live \cup {"ZOMBIE"} => parent[i] # q
  BY <1>a DEF Cpus, Types, Family, InitLives, Live, Forking, LockHeld, HasParent, Parents
<1>1. Types'
  BY <1>a, <1>b DEF Types, State
<1>2. Numbers'
  <2>1. nextpid' = nextpid /\ scan' = scan /\ pid \in [Slot -> 0..MaxPid] /\ Pids
    BY DEF Numbers
  <2>2. 0 \in 0..MaxPid /\ 0 < nextpid
    BY DEF Numbers
  <2>3. pid' \in [Slot -> 0..MaxPid]
    BY <1>a, <2>1, <2>2
  <2>4. ASSUME NEW i \in Slot PROVE pid'[i] < nextpid
    BY <1>a, <2>1, <2>2 DEF Pids
  <2> QED
    BY <2>1, <2>3, <2>4 DEF Numbers, Pids
<1>3. Cpus'
  BY <1>a, <1>b DEF Cpus, LockHeld, Types
<1>4. InitLives'
  BY <1>a, <1>b DEF Types, Cpus, Family, InitLives, Live
<1>5. HasParent'
  BY <1>a, <1>b DEF Types, Family, HasParent, InitLives, Live, Forking, InFork
<1>6. Forking'
  BY <1>a, <1>b DEF Types, Family, Forking, InFork, Live
<1>7. Parents'
  BY <1>a, <1>b DEF Types, Family, Parents, Forking, InFork, Live
<1>8. NoMissedExit'
  BY <1>a, <1>b DEF Types, NoMissedExit, Children, Zombies
<1>9. UniquePids'
  BY <1>a, <1>b DEF Types, UniquePids
<1> QED
  BY <1>1, <1>2, <1>3, <1>4, <1>5, <1>6, <1>7, <1>8, <1>9 DEF Family

\* wait has nothing to wait for.
LEMMA WaitFailPreserves ==
  ASSUME Inv, NEW c \in CPU, NEW p \in Slot, WaitFail(c, p)
  PROVE  Inv'
<1> USE SlotFacts DEF Inv, table, sched, kstack, WaitFail, WaitScan, WaitReturn, Running, Goto
<1>a. cpu[c] = p /\ state[p] = "RUNNING"
  BY DEF Running, Types, Cpus
<1>1. Types'
  BY <1>a DEF Types, State
<1>2. Numbers'
  BY <1>a DEF Numbers, Pids
<1>3. Cpus'
  BY <1>a DEF Cpus, LockHeld, Types
<1>4. InitLives'
  BY <1>a DEF Types, Cpus, Family, InitLives, Live
<1>5. HasParent'
  BY <1>a DEF Types, Family, HasParent, InitLives, Live, Forking, InFork
<1>6. Forking'
  BY <1>a DEF Types, Family, Forking, InFork, Live
<1>7. Parents'
  BY <1>a DEF Types, Family, Parents, Forking, InFork, Live
<1>8. NoMissedExit'
  BY <1>a DEF Types, NoMissedExit, Children, Zombies
<1>9. UniquePids'
  BY <1>a DEF Types, UniquePids
<1> QED
  BY <1>1, <1>2, <1>3, <1>4, <1>5, <1>6, <1>7, <1>8, <1>9 DEF Family

\* wait goes to sleep, with children and no zombie among them.
LEMMA WaitSleepPreserves ==
  ASSUME Inv, NEW c \in CPU, NEW p \in Slot, WaitSleep(c, p)
  PROVE  Inv'
<1> USE SlotFacts DEF Inv, table, sched, kstack, WaitSleep, WaitScan, EnterSched, Running
<1>a. cpu[c] = p /\ state[p] = "RUNNING"
  BY DEF Running, Types, Cpus
<1>1. Types'
  BY <1>a DEF Types, State
<1>2. Numbers'
  BY <1>a DEF Numbers, Pids
<1>3. Cpus'
  BY <1>a DEF Cpus, LockHeld, Types
<1>4. InitLives'
  BY <1>a DEF Types, Cpus, Family, InitLives, Live
<1>5. HasParent'
  BY <1>a DEF Types, Family, HasParent, InitLives, Live, Forking, InFork
<1>6. Forking'
  BY <1>a DEF Types, Family, Forking, InFork, Live
<1>7. Parents'
  BY <1>a DEF Types, Family, Parents, Forking, InFork, Live
<1>8. NoMissedExit'
  BY <1>a DEF Types, NoMissedExit, Children, Zombies
<1>9. UniquePids'
  BY <1>a DEF Types, UniquePids
<1> QED
  BY <1>1, <1>2, <1>3, <1>4, <1>5, <1>6, <1>7, <1>8, <1>9 DEF Family

\* A process goes to sleep on something else.
LEMMA SleepIOPreserves ==
  ASSUME Inv, NEW c \in CPU, NEW p \in Slot, SleepIO(c, p)
  PROVE  Inv'
<1> USE SlotFacts DEF Inv, table, sched, kstack, SleepIO, Running, EnterSched
<1>a. cpu[c] = p /\ state[p] = "RUNNING"
  BY DEF Running, Types, Cpus
<1>1. Types'
  BY <1>a DEF Types, State
<1>2. Numbers'
  BY <1>a DEF Numbers, Pids
<1>3. Cpus'
  BY <1>a DEF Cpus, LockHeld, Types
<1>4. InitLives'
  BY <1>a DEF Types, Cpus, Family, InitLives, Live
<1>5. HasParent'
  BY <1>a DEF Types, Family, HasParent, InitLives, Live, Forking, InFork
<1>6. Forking'
  BY <1>a DEF Types, Family, Forking, InFork, Live
<1>7. Parents'
  BY <1>a DEF Types, Family, Parents, Forking, InFork, Live
<1>8. NoMissedExit'
  BY <1>a DEF Types, NoMissedExit, Children, Zombies
<1>9. UniquePids'
  BY <1>a DEF Types, UniquePids
<1> QED
  BY <1>1, <1>2, <1>3, <1>4, <1>5, <1>6, <1>7, <1>8, <1>9 DEF Family

\* An interrupt wakes those asleep on something else.
LEMMA WakeIOPreserves ==
  ASSUME Inv, WakeIO
  PROVE  Inv'
<1> USE SlotFacts DEF Inv, table, sched, kstack, WakeIO, Locked, wakeup1
<1>1. Types'
  BY DEF Types, Cpus, State
<1>2. Numbers'
  BY DEF Numbers, Pids
<1>3. Cpus'
  BY DEF Cpus, LockHeld, Types
<1>4. InitLives'
  BY DEF Types, Cpus, Family, InitLives, Live
<1>5. HasParent'
  BY DEF Types, Cpus, Family, HasParent, InitLives, Live, Forking, InFork
<1>6. Forking'
  BY DEF Types, Cpus, Family, Forking, InFork, Live
<1>7. Parents'
  BY DEF Types, Cpus, Family, Parents, Forking, InFork, Live
<1>8. NoMissedExit'
  BY DEF Types, Cpus, NoMissedExit, Children, Zombies
<1>9. UniquePids'
  BY DEF Types, Cpus, UniquePids
<1> QED
  BY <1>1, <1>2, <1>3, <1>4, <1>5, <1>6, <1>7, <1>8, <1>9 DEF Family

\* kill marks a process, and a sleeping one is made RUNNABLE.
LEMMA KillPreserves ==
  ASSUME Inv, NEW c \in CPU, NEW p \in Slot, NEW k, Kill(c, p, k)
  PROVE  Inv'
<1> USE SlotFacts DEF Inv, table, sched, kstack, Kill, Running, Locked, Goto
<1>a. /\ cpu[c] = p /\ state[p] = "RUNNING"
      /\ \/ UNCHANGED <<killed, state>>
         \/ \E i \in Slot : /\ killed' = [killed EXCEPT ![i] = TRUE]
                            /\ state' = KillWake(i)
  <2> DEFINE M == {i \in Slot : pid[i] = k}
  <2>1. M # {} => First(M) \in Slot
    BY FirstIn
  <2> QED
    BY <2>1 DEF Types, Cpus
<1>b. PICK K \in SUBSET Slot :
           /\ killed' \in [Slot -> BOOLEAN]
           /\ \A i \in Slot \ K : killed'[i] = killed[i]
           /\ state' = [i \in Slot |-> IF i \in K /\ state[i] = "SLEEPING"
                                      THEN "RUNNABLE" ELSE state[i]]
  <2>1. CASE UNCHANGED <<killed, state>>
    <3> WITNESS {} \in SUBSET Slot
    <3>1. state' = [i \in Slot |-> state[i]]
      BY <2>1 DEF Types
    <3>2. killed' \in [Slot -> BOOLEAN] /\ \A i \in Slot : killed'[i] = killed[i]
      BY <2>1 DEF Types
    <3> QED
      BY <3>1, <3>2
  <2>2. CASE \E i \in Slot : /\ killed' = [killed EXCEPT ![i] = TRUE]
                             /\ state' = KillWake(i)
    <3>1. PICK i \in Slot : killed' = [killed EXCEPT ![i] = TRUE] /\ state' = KillWake(i)
      BY <2>2
    <3> WITNESS {i} \in SUBSET Slot
    <3>2. killed' \in [Slot -> BOOLEAN] /\ \A j \in Slot \ {i} : killed'[j] = killed[j]
      BY <3>1 DEF Types
    <3>3. state' = [j \in Slot |-> IF j \in {i} /\ state[j] = "SLEEPING"
                                  THEN "RUNNABLE" ELSE state[j]]
      BY <3>1 DEF Types, KillWake
    <3> QED
      BY <3>2, <3>3
  <2> QED
    BY <1>a, <2>1, <2>2
<1>1. Types'
  BY <1>a, <1>b DEF Types, State
<1>2. Numbers'
  BY <1>a, <1>b DEF Numbers, Pids
<1>3. Cpus'
  BY <1>a, <1>b DEF Cpus, LockHeld, Types
<1>4. InitLives'
  BY <1>a, <1>b DEF Types, Cpus, Family, InitLives, Live
<1>5. HasParent'
  BY <1>a, <1>b DEF Types, Family, HasParent, InitLives, Live, Forking, InFork
<1>6. Forking'
  BY <1>a, <1>b DEF Types, Family, Forking, InFork, Live
<1>7. Parents'
  BY <1>a, <1>b DEF Types, Family, Parents, Forking, InFork, Live
<1>8. NoMissedExit'
  BY <1>a, <1>b DEF Types, NoMissedExit, Children, Zombies
<1>9. UniquePids'
  BY <1>a, <1>b DEF Types, UniquePids
<1> QED
  BY <1>1, <1>2, <1>3, <1>4, <1>5, <1>6, <1>7, <1>8, <1>9 DEF Family

\* The invariant is inductive.
LEMMA NextPreserves == Inv /\ [Next]_vars => Inv'
<1> SUFFICES ASSUME Inv, [Next]_vars PROVE Inv'
  OBVIOUS
<1>1. ASSUME NEW c \in CPU, Scheduler(c) PROVE Inv'
  BY <1>1, SchedAcquirePreserves, SchedPickPreserves, SchedReleasePreserves,
     SwtchPreserves, ResumePreserves DEF Scheduler
<1>2. ASSUME NEW c \in CPU, NEW p \in Slot, Yield(c, p) \/ Kernel(c, p) PROVE Inv'
  BY <1>2, YieldPreserves, SysReturnPreserves, ExitStartPreserves, ExitPreserves,
     ForkFailPreserves, ForkCopyPreserves, ForkRunPreserves DEF Kernel
<1>3. ASSUME NEW c \in CPU, NEW p \in Slot, Wait(c, p) PROVE Inv'
  BY <1>3, WaitReapPreserves, WaitFailPreserves, WaitSleepPreserves DEF Wait
<1>4. ASSUME NEW c \in CPU, NEW p \in Slot, Program(c, p) PROVE Inv'
  BY <1>4, SysExitPreserves, FaultPreserves, ForkAllocPreserves, ForkNoSlotPreserves,
     SleepIOPreserves, KillPreserves DEF Program
<1>5. CASE UNCHANGED vars
  BY <1>5 DEF vars, table, sched, kstack, Inv, Types, Numbers, Pids, Cpus, LockHeld, Family,
     InitLives, HasParent, Forking, InFork, Parents, NoMissedExit, Children, Zombies, UniquePids
<1> QED
  BY <1>1, <1>2, <1>3, <1>4, <1>5, WakeIOPreserves DEF Next

\* The inductive invariant holds at all times.
THEOREM InvariantHolds == Spec => []Inv
  BY InitEstablishes, NextPreserves, PTL DEF Spec

\* ptable.lock, handed across swtch, keeps every process on one CPU: no CPU runs
\* a process that another one has not left yet, or a slot that was given away.
THEOREM OneCPUHolds == Spec => []OneCPU
<1>1. Inv => OneCPU
  BY SlotFacts DEF Inv, OneCPU, TypeOK, Types, Numbers, Cpus
<1> QED
  BY <1>1, InvariantHolds, PTL

\* exit hands its children to initproc, so every process has a live parent.
THEOREM HasParentHolds == Spec => []HasParent
<1>1. Inv => HasParent
  BY DEF Inv, Family
<1> QED
  BY <1>1, InvariantHolds, PTL

\* wait sleeps only when there is something to wait for that will wake it.
THEOREM NoMissedExitHolds == Spec => []NoMissedExit
<1>1. Inv => NoMissedExit
  BY DEF Inv
<1> QED
  BY <1>1, InvariantHolds, PTL

\* nextpid++ under the lock gives every process a pid of its own.
THEOREM UniquePidsHolds == Spec => []UniquePids
<1>1. Inv => UniquePids
  BY DEF Inv
<1> QED
  BY <1>1, InvariantHolds, PTL
=============================================================================
