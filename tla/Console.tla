------------------------------ MODULE Console -------------------------------
(***************************************************************************)
(* The console (console.c): a ring of characters that the keyboard's       *)
(* interrupt handler fills and edits and that processes read, under a      *)
(* spin-lock (spinlock.c) that both take.                                  *)
(*                                                                         *)
(* Each process runs on a CPU of its own, named after it; the interrupt    *)
(* comes to one of them, KbdCPU, and runs on top of the process there.     *)
(* What must not happen is that it comes while that CPU holds the lock,    *)
(* so acquire is as fine as its instructions are for interrupts.  Inside   *)
(* the section one character is one step, because kill needs no lock.      *)
(* sleep() and wakeup() are those of module SleepLock: the CPU of a        *)
(* sleeping process waits in the scheduler, with interrupts on.  Output    *)
(* only takes time.                                                        *)
(***************************************************************************)
EXTENDS Naturals, Sequences, SequencesExt

CONSTANTS
  Proc, KbdCPU, Intr, NoCPU,
  INPUT_BUF,
  UINT,      \* the indices are numbers modulo UINT, 2^32 in the code
  Key,       \* the keys that are typed; x is any that has no meaning here
  Counts,    \* how much the program of each process reads; 0 is a write
  Victims    \* the processes that may be killed

ASSUME ConsoleAssumption ==
  /\ KbdCPU \in Proc /\ Intr \notin Proc /\ NoCPU \notin Proc
  /\ INPUT_BUF \in Nat \ {0} /\ UINT \in Nat /\ UINT > INPUT_BUF /\ UINT % INPUT_BUF = 0
  /\ Key \subseteq {"x", "cr", "nl", "^D", "^H", "^U"}
  /\ Counts \in [Proc -> SUBSET Nat] /\ Victims \subseteq Proc

Context == Proc \cup {Intr}

VARIABLES
  buf, r, w, e,   \* struct input
  kbd,            \* the keyboard has a key ready (which, shows when it is read)
  lock,           \* the CPU that holds cons.lock
  IF_,            \* for each CPU, whether interrupts are on
  ncli, intena,   \* its depth of pushcli, and what to restore
  pc,             \* where each context is
  n, target,      \* consoleread's
  killed

input == <<buf, r, w, e>>
cpu == <<IF_, ncli, intena>>
call == <<n, target>>
vars == <<input, kbd, lock, cpu, pc, call, killed>>

Init ==
  /\ buf = [i \in 0..(INPUT_BUF - 1) |-> "x"]
  /\ r = 0 /\ w = 0 /\ e = 0
  /\ kbd = FALSE
  /\ lock = NoCPU
  /\ IF_ = [c \in Proc |-> TRUE]
  /\ ncli = [c \in Proc |-> 0]
  /\ intena = [c \in Proc |-> FALSE]
  /\ pc = [x \in Context |-> "idle"]
  /\ n = [p \in Proc |-> 0]
  /\ target = [p \in Proc |-> 0]
  /\ killed = [p \in Proc |-> FALSE]

CPUof(x) == IF x = Intr THEN KbdCPU ELSE x

\* A handler suspends the process it interrupts.
Runs(x) == x = Intr \/ x # KbdCPU \/ pc[Intr] = "idle"

Go(x, from, to) ==
  /\ Runs(x)
  /\ pc[x] = from
  /\ pc' = [pc EXCEPT ![x] = to]

Inc(i) == (i + 1) % UINT
Dec(i) == (i + UINT - 1) % UINT

-----------------------------------------------------------------------------
(* spinlock.c *)

\* Mutant: interrupts stay on while the CPU waits for the lock and has it.
PushcliNot(x) ==
  /\ Go(x, "acquire", "xchg")
  /\ LET c == CPUof(x) IN
       /\ intena' = IF ncli[c] = 0 THEN [intena EXCEPT ![c] = IF_[c]] ELSE intena
       /\ ncli' = [ncli EXCEPT ![c] = @ + 1]
  /\ UNCHANGED <<input, kbd, lock, IF_, call, killed>>

\* From cli on the CPU is undisturbed.  (An interrupt after the flags are read
\* and before cli returns with the same flags.)
Pushcli(x) ==
  /\ Go(x, "acquire", "xchg")
  /\ LET c == CPUof(x) IN
       /\ IF_' = [IF_ EXCEPT ![c] = FALSE]
       /\ intena' = IF ncli[c] = 0 THEN [intena EXCEPT ![c] = IF_[c]] ELSE intena
       /\ ncli' = [ncli EXCEPT ![c] = @ + 1]
  /\ UNCHANGED <<input, kbd, lock, call, killed>>

\* The xchg that finds 0.  (A CPU that holds the lock panics: LockSafe.)
Acquire(x) ==
  /\ Go(x, "xchg", "section")
  /\ lock = NoCPU
  /\ lock' = CPUof(x)
  /\ UNCHANGED <<input, kbd, cpu, call, killed>>

\* Mutant: the depth is tested before it is decremented.
SetFlagEarly(c) == ncli[c] = 0 /\ intena[c]

\* popcli's test for sti.
SetFlag(c) == ncli[c] = 1 /\ intena[c]

\* release and popcli.  (intena is dead, and forgotten here, when the depth is 0.)
Release(x, from, to) ==
  /\ Go(x, from, to)
  /\ LET c == CPUof(x) IN
       /\ lock' = NoCPU
       /\ ncli' = [ncli EXCEPT ![c] = @ - 1]
       /\ IF_' = [IF_ EXCEPT ![c] = @ \/ SetFlag(c)]
       /\ intena' = [intena EXCEPT ![c] = @ /\ ncli[c] > 1]

-----------------------------------------------------------------------------
(* The keyboard, kbdintr and consoleintr *)

\* External.
Press ==
  /\ ~kbd
  /\ kbd' = TRUE
  /\ UNCHANGED <<input, lock, cpu, pc, call, killed>>

\* An interrupt gate turns interrupts off.
Interrupt ==
  /\ kbd
  /\ IF_[KbdCPU]
  /\ Go(Intr, "idle", "acquire")
  /\ IF_' = [IF_ EXCEPT ![KbdCPU] = FALSE]
  /\ UNCHANGED <<input, kbd, lock, ncli, intena, call, killed>>

\* iret
InterruptReturn ==
  /\ Go(Intr, "iret", "idle")
  /\ IF_' = [IF_ EXCEPT ![KbdCPU] = TRUE]
  /\ UNCHANGED <<input, kbd, lock, ncli, intena, call, killed>>

\* getc finds a key.
Getc(c) == pc[Intr] = "section" /\ c \in Key /\ kbd /\ kbd' = FALSE

\* Mutant: what a reader may have already is erased as well.
EraseEnd == r

\* How far back the line can be edited.
LineStart == w

\* ^H
Backspace ==
  /\ Getc("^H")
  /\ e' = IF e # LineStart THEN Dec(e) ELSE e
  /\ UNCHANGED <<buf, r, w, lock, cpu, pc, call, killed>>

\* ^U: back to the start of the line.  (Up to INPUT_BUF characters.)
KillLine ==
  /\ Getc("^U")
  /\ LET back(k) == (e + UINT - k) % UINT
         stop(k) == back(k) = LineStart \/ buf[Dec(back(k)) % INPUT_BUF] = "nl"
     IN e' = back(CHOOSE k \in 0..INPUT_BUF : stop(k) /\ \A j \in 0..(k - 1) : ~stop(j))
  /\ UNCHANGED <<buf, r, w, lock, cpu, pc, call, killed>>

\* Mutant: a line that fills the ring is not finished.
FinishesByKey(c, end) == c \in {"nl", "^D"}

\* Readers get the line.
Finishes(c, end) == c \in {"nl", "^D"} \/ end = (r + INPUT_BUF) % UINT

Stored(c) == IF c = "cr" THEN "nl" ELSE c

\* Any other key; it is lost when the ring is full.
TypeChar(c) ==
  /\ c \notin {"^H", "^U"}
  /\ Getc(c)
  /\ IF (e + UINT - r) % UINT < INPUT_BUF
     THEN /\ buf' = [buf EXCEPT ![e % INPUT_BUF] = Stored(c)]
          /\ e' = Inc(e)
          /\ IF Finishes(Stored(c), Inc(e))
             THEN /\ w' = Inc(e)
                  /\ pc' = [x \in Context |-> IF pc[x] = "sleep" THEN "acquire" ELSE pc[x]]
             ELSE UNCHANGED <<w, pc>>
     ELSE UNCHANGED <<buf, e, w, pc>>
  /\ UNCHANGED <<r, lock, cpu, call, killed>>

\* No more keys.
IntrDone ==
  /\ ~kbd
  /\ Release(Intr, "section", "iret")
  /\ UNCHANGED <<input, kbd, call, killed>>

-----------------------------------------------------------------------------
(* consoleread and consolewrite *)

\* A system call, which trap() lets no killed process make; consolewrite is a
\* read of nothing, as far as the ring goes.
Call(p, m) ==
  /\ ~killed[p]
  /\ Go(p, "idle", "acquire")
  /\ n' = [n EXCEPT ![p] = m]
  /\ target' = [target EXCEPT ![p] = m]
  /\ UNCHANGED <<input, kbd, lock, cpu, killed>>

Return(p) ==
  /\ Release(p, "section", "idle")
  /\ n' = [n EXCEPT ![p] = 0]
  /\ target' = [target EXCEPT ![p] = 0]
  /\ UNCHANGED <<input, kbd, killed>>

InRead(p) == Runs(p) /\ pc[p] = "section" /\ n[p] > 0

ReadKilled(p) == InRead(p) /\ r = w /\ killed[p] /\ Return(p)

\* Nothing to read, and not killed.  Kill, which takes no cons.lock, may come
\* between this test and sleep().
ReadTest(p) ==
  /\ InRead(p) /\ r = w /\ ~killed[p]
  /\ Go(p, "section", "tested")
  /\ UNCHANGED <<input, kbd, lock, cpu, call, killed>>

\* sleep(): cons.lock is released and the process asleep before ptable.lock,
\* which kill and wakeup need, is free.
ReadSleep(p) ==
  /\ Release(p, "tested", "sleep")
  /\ UNCHANGED <<input, kbd, call, killed>>

\* One character; n = 0 ends the loop.
ReadChar(p) ==
  /\ InRead(p) /\ r # w
  /\ LET c == buf[r % INPUT_BUF] IN
       /\ c # "^D"
       /\ n' = [n EXCEPT ![p] = IF c = "nl" THEN 0 ELSE @ - 1]
  /\ r' = Inc(r)
  /\ UNCHANGED <<buf, w, e, kbd, lock, cpu, pc, target, killed>>

\* ^D ends the loop, and stays for the next call unless this one has read nothing.
ReadEOF(p) ==
  /\ InRead(p) /\ r # w
  /\ buf[r % INPUT_BUF] = "^D"
  /\ r' = IF n[p] < target[p] THEN r ELSE Inc(r)
  /\ n' = [n EXCEPT ![p] = 0]
  /\ UNCHANGED <<buf, w, e, kbd, lock, cpu, pc, target, killed>>

ReadDone(p) == Runs(p) /\ pc[p] = "section" /\ n[p] = 0 /\ Return(p)

Kill(p) ==
  /\ ~killed[p]
  /\ killed' = [killed EXCEPT ![p] = TRUE]
  /\ pc' = IF pc[p] = "sleep" THEN [pc EXCEPT ![p] = "acquire"] ELSE pc
  /\ UNCHANGED <<input, kbd, lock, cpu, call>>

-----------------------------------------------------------------------------

\* What goes on of itself once it has begun.
Step(x) == Pushcli(x) \/ Acquire(x)

Handle ==
  \/ Interrupt \/ InterruptReturn \/ Backspace \/ KillLine \/ IntrDone
  \/ \E c \in Key : TypeChar(c)

Reading(p) ==
  \/ ReadKilled(p) \/ ReadTest(p) \/ ReadSleep(p)
  \/ ReadChar(p) \/ ReadEOF(p) \/ ReadDone(p)

Next ==
  \/ \E x \in Context : Step(x)
  \/ Handle
  \/ Press
  \/ \E p \in Proc : Reading(p) \/ \E m \in Counts[p] : Call(p, m)
  \/ \E p \in Victims : Kill(p)

Spec == Init /\ [][Next]_vars

\* A process goes on unless it waits in sleep or for a key, and so does a handler;
\* a CPU that spins gets the lock in time, and an interrupt that is let through
\* again and again is taken.
FairSpec ==
  /\ Spec
  /\ SF_vars(Step(Intr) \/ Handle)
  /\ \A p \in Proc : SF_vars(Step(p) \/ Reading(p))

-----------------------------------------------------------------------------
(* Properties *)

\* Types.  The CPU that holds the lock has interrupts off and is in the section,
\* so that no handler spins on a lock of its own CPU (acquire never panics);
\* interrupts are off in the handler, and on, with nothing to restore, wherever
\* a process is outside of acquire and release.
LockSafe ==
  /\ buf \in [0..(INPUT_BUF - 1) -> {"x", "nl", "^D"}]
  /\ r \in 0..(UINT - 1) /\ w \in 0..(UINT - 1) /\ e \in 0..(UINT - 1)
  /\ \A x \in Context :
       /\ pc[x] \in {"section", "tested"} => lock = CPUof(x) /\ ~IF_[CPUof(x)]
       /\ pc[x] = "xchg" => lock # CPUof(x)
  /\ pc[Intr] # "idle" => ~IF_[KbdCPU]
  /\ \A p \in Proc : pc[p] \in {"idle", "acquire", "sleep"} /\ Runs(p) =>
       IF_[p] /\ ncli[p] = 0

Ring(from, to) ==
  [k \in 1..((to + UINT - from) % UINT) |-> buf[(from + k - 1) % INPUT_BUF]]

lines == INSTANCE LineInput WITH
  Plain <- {"x"}, End <- {"nl", "^D"}, ready <- Ring(r, w), line <- Ring(w, e)

\* The ring with its three indices, which wrap around, filled by interrupts and
\* emptied by several readers, is an editor of lines with a queue of finished ones.
RefinesLineInput == lines!Spec

\* No reader sleeps when a line is finished, or when there is no room for the rest
\* of it: no key comes between the test of the indices and sleep(), and no line is
\* finished without a wakeup.  (A kill may come there: a killed reader can sleep,
\* until the next line, and nothing is said of it here.)
ReaderAwake ==
  \A p \in Proc : pc[p] = "sleep" => r = w /\ (e + UINT - r) % UINT < INPUT_BUF

\* A key is handled in the end, whatever the processes do: no section of theirs
\* lasts, and interrupts are on again after each.
KeyHandled == kbd ~> ~kbd
=============================================================================
