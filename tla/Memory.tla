------------------------------- MODULE Memory -------------------------------
(***************************************************************************)
(* Physical pages (kalloc.c) and the address spaces built of them (vm.c)   *)
(* by fork, exec, sbrk, exit and wait.  Every kalloc is a step of its own  *)
(* and fails when the free list is empty, so a call can run out of memory  *)
(* at any point, in competition with the calls of other processes, and has *)
(* to give back what it has taken.  Address spaces under construction or   *)
(* destruction belong to one process, so freeing them is one step.         *)
(*                                                                         *)
(* A page has no identity here: the free list is its length and a space is *)
(* what it points to, and pages are lost, freed twice or shared when the   *)
(* pointers and the list do not add up to NPAGE.  Sizes are in units of    *)
(* which PGSIZE make a page.  A page table covers NPTENTRIES pages and the *)
(* kernel's mappings take NKTAB of them.  Memory mappings are in module    *)
(* Wmap; which process may wait for which in Proc.                         *)
(***************************************************************************)
EXTENDS Naturals, FiniteSets, FiniteSetsExt

CONSTANTS
  NPROC, NPAGE, PGSIZE, NPTENTRIES, NKTAB,
  KERNBASE,    \* the end of user memory
  ExecSizes,   \* the memory the programs in the file system ask for
  Sbrks        \* the amounts by which programs grow and shrink

Proc == 1..NPROC
initproc == 1

\* A size in whole pages.
PGROUNDUP(n) == (n + PGSIZE - 1) \div PGSIZE

VPage == 1..PGROUNDUP(KERNBASE)
Table == 1..((PGROUNDUP(KERNBASE) + NPTENTRIES - 1) \div NPTENTRIES)
PDX(v) == (v - 1) \div NPTENTRIES + 1

ASSUME MemoryAssumption ==
  /\ NPROC \in Nat \ {0} /\ PGSIZE \in Nat \ {0} /\ NPTENTRIES \in Nat \ {0}
  /\ NKTAB \in Nat \ {0} /\ KERNBASE \in Nat /\ KERNBASE > PGSIZE
  /\ NPAGE \in Nat /\ NPAGE >= NKTAB + 4
  /\ ExecSizes \subseteq Nat /\ Sbrks \subseteq Nat

VARIABLES
  free,       \* the length of kmem.free
  state,      \* p->state
  kstack,     \* whether p->kstack is set
  pgdir,      \* p->pgdir: a directory, its tables and the user's pages
  sz,         \* p->sz
  pc,         \* where each process is
  job,        \* the call it is in: kind, child, next page, size to reach, and
              \* how much of that is a program's segments
  new,        \* the address space that fork or exec is building
  mem         \* whether it has a page that is allocated but not yet mapped

vars == <<free, state, kstack, pgdir, sz, pc, job, new, mem>>

\* dir: the directory, ktab: how many tables of the kernel's mappings, utab: the
\* tables of the user part, user: the addresses at which a page is mapped.
NoSpace == [dir |-> 0, ktab |-> 0, utab |-> {}, user |-> {}]
NoJob == [call |-> "none", np |-> 0, at |-> 0, to |-> 0, seg |-> 0]

\* The pages freevm gives back: the user's, the tables, the directory.
PagesOf(s) == Cardinality(s.user) + Cardinality(s.utab) + s.ktab + s.dir

\* kinit, userinit, inituvm: the first process has one page of memory.
FirstSpace == [dir |-> 1, ktab |-> NKTAB, utab |-> {1}, user |-> {1}]

Init ==
  /\ kstack = [p \in Proc |-> IF p = initproc THEN 1 ELSE 0]
  /\ pgdir = [p \in Proc |-> IF p = initproc THEN FirstSpace ELSE NoSpace]
  /\ free = NPAGE - PagesOf(FirstSpace) - 1
  /\ state = [p \in Proc |-> IF p = initproc THEN "RUNNABLE" ELSE "UNUSED"]
  /\ sz = [p \in Proc |-> IF p = initproc THEN PGSIZE ELSE 0]
  /\ pc = [p \in Proc |-> "user"]
  /\ job = [p \in Proc |-> NoJob]
  /\ new = [p \in Proc |-> NoSpace]
  /\ mem = [p \in Proc |-> 0]

\* kalloc, when it succeeds; kfree of n pages.
kalloc == free > 0 /\ free' = free - 1
kfree(n) == free' = free + n

\* Mutant: the boundary is rounded down, to a page that is still in use.
DroppedDown(s, oldsz, newsz) ==
  {v \in s.user : newsz \div PGSIZE < v /\ v <= PGROUNDUP(oldsz)}

\* The addresses at which deallocuvm frees a page: none if newsz >= oldsz.
Dropped(s, oldsz, newsz) ==
  {v \in s.user : PGROUNDUP(newsz) < v /\ v <= PGROUNDUP(oldsz)}

\* deallocuvm; the tables stay.
deallocuvm(s, oldsz, newsz) == [s EXCEPT !.user = @ \ Dropped(s, oldsz, newsz)]

-----------------------------------------------------------------------------
(* Building: copyuvm, exec and growproc go through the same steps *)

Go(p, from, to) == pc[p] = from /\ pc' = [pc EXCEPT ![p] = to]

Unused == {q \in Proc : state[q] = "UNUSED"}

\* fork: a slot of the process table, taken under ptable.lock.
Fork(p) ==
  /\ state[p] = "RUNNABLE"
  /\ Go(p, "user", "kstack")
  /\ Unused # {}
  /\ LET q == Min(Unused) IN
       /\ state' = [state EXCEPT ![q] = "EMBRYO"]
       /\ job' = [job EXCEPT ![p] = [call |-> "fork", np |-> q, at |-> 1,
                                     to |-> sz[p], seg |-> 0]]
  /\ UNCHANGED <<free, kstack, pgdir, sz, new, mem>>

\* exec of a file that is found: n for the program's segments and, on the next
\* boundary, two pages for the guard and the stack.
Exec(p, n) ==
  /\ state[p] = "RUNNABLE"
  /\ Go(p, "user", "pgdir")
  /\ job' = [job EXCEPT ![p] = [call |-> "exec", np |-> 0, at |-> 1,
                                to |-> (PGROUNDUP(n) + 2) * PGSIZE, seg |-> n]]
  /\ UNCHANGED <<free, state, kstack, pgdir, sz, new, mem>>

\* growproc(n), n > 0: allocuvm starts at the boundary above the old size.
Grow(p, n) ==
  /\ state[p] = "RUNNABLE"
  /\ Go(p, "user", "page")
  /\ job' = [job EXCEPT ![p] = [call |-> "sbrk", np |-> 0, at |-> PGROUNDUP(sz[p]) + 1,
                                to |-> sz[p] + n, seg |-> 0]]
  /\ UNCHANGED <<free, state, kstack, pgdir, sz, new, mem>>

\* allocproc's kernel stack.
AllocStack(p) ==
  /\ Go(p, "kstack", "pgdir")
  /\ kalloc
  /\ kstack' = [kstack EXCEPT ![job[p].np] = 1]
  /\ UNCHANGED <<state, pgdir, sz, job, new, mem>>

\* setupkvm: the directory, then the tables of the kernel's mappings.
AllocDir(p) ==
  /\ Go(p, "pgdir", "ktab")
  /\ kalloc
  /\ new' = [new EXCEPT ![p].dir = 1]
  /\ UNCHANGED <<state, kstack, pgdir, sz, job, mem>>

AllocKtab(p) ==
  /\ Go(p, "ktab", IF new[p].ktab + 1 = NKTAB THEN "page" ELSE "ktab")
  /\ kalloc
  /\ new' = [new EXCEPT ![p].ktab = @ + 1]
  /\ UNCHANGED <<state, kstack, pgdir, sz, job, mem>>

\* The loops of allocuvm and copyuvm have another page to allocate.
More(p) == job[p].at <= PGROUNDUP(job[p].to)

\* The newsz of the call of allocuvm that the page is for.
Newsz(p) == IF job[p].at <= PGROUNDUP(job[p].seg) THEN job[p].seg ELSE job[p].to

AllocPage(p) ==
  /\ Go(p, "page", "map")
  /\ More(p) /\ Newsz(p) < KERNBASE
  /\ kalloc
  /\ mem' = [mem EXCEPT ![p] = 1]
  /\ UNCHANGED <<state, kstack, pgdir, sz, job, new>>

\* The space a call is building: sbrk extends the process's own.
Target(p) == IF job[p].call = "sbrk" THEN pgdir[p] ELSE new[p]
NeedsTable(p) == PDX(job[p].at) \notin Target(p).utab

Retarget(p, s) ==
  /\ pgdir' = IF job[p].call = "sbrk" THEN [pgdir EXCEPT ![p] = s] ELSE pgdir
  /\ new' = IF job[p].call = "sbrk" THEN new ELSE [new EXCEPT ![p] = s]

\* mappages and walkpgdir: the entry, in a table that may have to be allocated.
MapPage(p) ==
  /\ Go(p, "map", "page")
  /\ LET v == job[p].at  s == Target(p) IN
       /\ v \notin s.user
       /\ IF NeedsTable(p) THEN kalloc ELSE UNCHANGED free
       /\ Retarget(p, [s EXCEPT !.user = @ \cup {v}, !.utab = @ \cup {PDX(v)}])
  /\ mem' = [mem EXCEPT ![p] = 0]
  /\ job' = [job EXCEPT ![p].at = @ + 1]
  /\ UNCHANGED <<state, kstack, sz>>

Return(p, l) ==
  /\ pc' = [pc EXCEPT ![p] = l]
  /\ job' = [job EXCEPT ![p] = NoJob]
  /\ new' = [new EXCEPT ![p] = NoSpace]
  /\ mem' = [mem EXCEPT ![p] = 0]

\* fork: the child is complete.
ForkDone(p) ==
  /\ pc[p] = "page" /\ job[p].call = "fork" /\ ~More(p)
  /\ pgdir' = [pgdir EXCEPT ![job[p].np] = new[p]]
  /\ sz' = [sz EXCEPT ![job[p].np] = sz[p]]
  /\ state' = [state EXCEPT ![job[p].np] = "RUNNABLE"]
  /\ Return(p, "user")
  /\ UNCHANGED <<free, kstack>>

\* exec commits: the new space replaces the old one, which is freed.
ExecDone(p) ==
  /\ pc[p] = "page" /\ job[p].call = "exec" /\ ~More(p)
  /\ pgdir' = [pgdir EXCEPT ![p] = new[p]]
  /\ sz' = [sz EXCEPT ![p] = job[p].to]
  /\ kfree(PagesOf(pgdir[p]))
  /\ Return(p, "user")
  /\ UNCHANGED <<state, kstack>>

GrowDone(p) ==
  /\ pc[p] = "page" /\ job[p].call = "sbrk" /\ ~More(p) /\ job[p].to < KERNBASE
  /\ sz' = [sz EXCEPT ![p] = job[p].to]
  /\ Return(p, "user")
  /\ UNCHANGED <<free, state, kstack, pgdir>>

-----------------------------------------------------------------------------
(* Failing *)

\* kalloc returns 0, the size is beyond KERNBASE, or mappages finds an entry.
Fails(p) ==
  \/ pc[p] \in {"kstack", "pgdir", "ktab"} /\ free = 0
  \/ pc[p] = "page" /\ Newsz(p) >= KERNBASE
  \/ pc[p] = "page" /\ More(p) /\ free = 0
  \/ /\ pc[p] = "map"
     /\ \/ NeedsTable(p) /\ free = 0
        \/ job[p].at \in Target(p).user

\* copyuvm's bad: and fork's: the new space, the kernel stack and the slot.
ForkFail(p) ==
  /\ job[p].call = "fork" /\ Fails(p)
  /\ LET q == job[p].np IN
       /\ kfree(mem[p] + PagesOf(new[p]) + kstack[q])
       /\ kstack' = [kstack EXCEPT ![q] = 0]
       /\ state' = [state EXCEPT ![q] = "UNUSED"]
  /\ Return(p, "user")
  /\ UNCHANGED <<pgdir, sz>>

\* The file is too short or has a wrong header, which exec sees before setupkvm
\* for the first header and between pages for those of the segments; loaduvm
\* finds less than a segment holds.
LoadFails(p) ==
  \/ pc[p] = "pgdir"
  \/ pc[p] = "page" /\ job[p].at <= PGROUNDUP(job[p].seg) + 1

\* Too many arguments, or copyout meets the guard page below the stack.
ArgsFail(p) == pc[p] = "page" /\ ~More(p)

\* exec's bad: frees the new space.
ExecFail(p) ==
  /\ job[p].call = "exec" /\ (Fails(p) \/ LoadFails(p) \/ ArgsFail(p))
  /\ kfree(mem[p] + PagesOf(new[p]))
  /\ Return(p, "user")
  /\ UNCHANGED <<state, kstack, pgdir, sz>>

\* Mutant: the page that could not be mapped is not given back.
GrowFailLeak(p) ==
  /\ job[p].call = "sbrk" /\ Fails(p)
  /\ kfree(Cardinality(Dropped(pgdir[p], job[p].to, sz[p])))
  /\ pgdir' = [pgdir EXCEPT ![p] = deallocuvm(@, job[p].to, sz[p])]
  /\ Return(p, "user")
  /\ UNCHANGED <<state, kstack, sz>>

\* allocuvm undoes what it has done, in the process's own space.
GrowFail(p) ==
  /\ job[p].call = "sbrk" /\ Fails(p)
  /\ kfree(Cardinality(Dropped(pgdir[p], job[p].to, sz[p])) + mem[p])
  /\ pgdir' = [pgdir EXCEPT ![p] = deallocuvm(@, job[p].to, sz[p])]
  /\ Return(p, "user")
  /\ UNCHANGED <<state, kstack, sz>>

-----------------------------------------------------------------------------
(* Shrinking and ending *)

\* growproc(n), n < 0.  For a new size of 0 it returns -1 and leaves p->sz, and
\* the process has nowhere to return to: its next step is a page fault.
Shrink(p, n) ==
  /\ state[p] = "RUNNABLE" /\ pc[p] = "user"
  /\ n < sz[p] \/ (n = sz[p] /\ p # initproc)
  /\ kfree(Cardinality(Dropped(pgdir[p], sz[p], sz[p] - n)))
  /\ pgdir' = [pgdir EXCEPT ![p] = deallocuvm(@, sz[p], sz[p] - n)]
  /\ sz' = IF n = sz[p] THEN sz ELSE [sz EXCEPT ![p] = @ - n]
  /\ pc' = IF n = sz[p] THEN [pc EXCEPT ![p] = "fault"] ELSE pc
  /\ UNCHANGED <<state, kstack, job, new, mem>>

\* sbrk
Sbrk(p, n) == Grow(p, n) \/ Shrink(p, n)

\* exit, by itself or after a fault: the memory waits for the parent.
Exit(p) ==
  /\ state[p] = "RUNNABLE" /\ p # initproc
  /\ pc[p] \in {"user", "fault"}
  /\ state' = [state EXCEPT ![p] = "ZOMBIE"]
  /\ pc' = [pc EXCEPT ![p] = "user"]
  /\ UNCHANGED <<free, kstack, pgdir, sz, job, new, mem>>

\* wait by another process.
Wait(p, q) ==
  /\ state[p] = "RUNNABLE" /\ pc[p] = "user"
  /\ state[q] = "ZOMBIE"
  /\ kfree(kstack[q] + PagesOf(pgdir[q]))
  /\ kstack' = [kstack EXCEPT ![q] = 0]
  /\ pgdir' = [pgdir EXCEPT ![q] = NoSpace]
  /\ sz' = [sz EXCEPT ![q] = 0]
  /\ state' = [state EXCEPT ![q] = "UNUSED"]
  /\ UNCHANGED <<pc, job, new, mem>>

Next ==
  \E p \in Proc :
    \/ Fork(p) \/ (\E n \in ExecSizes : Exec(p, n))
    \/ \E n \in Sbrks : Sbrk(p, n)
    \/ AllocStack(p) \/ AllocDir(p) \/ AllocKtab(p) \/ AllocPage(p) \/ MapPage(p)
    \/ ForkDone(p) \/ ExecDone(p) \/ GrowDone(p)
    \/ ForkFail(p) \/ ExecFail(p) \/ GrowFail(p)
    \/ Exit(p) \/ (\E q \in Proc : Wait(p, q))

Spec == Init /\ [][Next]_vars

-----------------------------------------------------------------------------
(* Properties *)

Space == [dir : 0..1, ktab : 0..NKTAB, utab : SUBSET Table, user : SUBSET VPage]

\* Types; a slot in fork's hands is the child of one process, and a page is
\* neither mapped nor free only between AllocPage and MapPage.
TypeOK ==
  /\ free \in 0..NPAGE
  /\ state \in [Proc -> {"UNUSED", "EMBRYO", "RUNNABLE", "ZOMBIE"}]
  /\ kstack \in [Proc -> 0..1]
  /\ pgdir \in [Proc -> Space] /\ new \in [Proc -> Space]
  /\ sz \in [Proc -> 0..KERNBASE]
  /\ pc \in [Proc -> {"user", "kstack", "pgdir", "ktab", "page", "map", "fault"}]
  /\ job \in [Proc -> [call : {"none", "fork", "exec", "sbrk"}, np : 0..NPROC,
                       at : Nat, to : Nat, seg : Nat]]
  /\ mem = [p \in Proc |-> IF pc[p] = "map" THEN 1 ELSE 0]
  /\ \A q \in Proc : state[q] = "EMBRYO" =>
       Cardinality({p \in Proc : job[p].np = q}) = 1

\* The pointers to pages that the kernel has: for the kernel stack of a process,
\* the page it is about to map, its address space, and the one being built.
PagesIn(s) ==
  ({"user"} \X s.user) \cup ({"utab"} \X s.utab)
  \cup ({"ktab"} \X (1..s.ktab)) \cup ({"dir"} \X (1..s.dir))

Pointers ==
  [x \in Proc \X {"kstack", "mem", "pgdir", "new"} |->
     CASE x[2] = "kstack" -> {"stack"} \X (1..kstack[x[1]])
       [] x[2] = "mem"    -> {"page"} \X (1..mem[x[1]])
       [] x[2] = "pgdir"  -> PagesIn(pgdir[x[1]])
       [] x[2] = "new"    -> PagesIn(new[x[1]])]

DisjointUnion(f) == UNION {{x} \X f[x] : x \in DOMAIN f}

\* The pages on the free list and those pointed to add up: whichever call fails,
\* wherever it fails, no page is lost, freed twice or left to two users.
PagesExact == TypeOK /\ free + Cardinality(DisjointUnion(Pointers)) = NPAGE

\* What switchuvm needs not to panic, and the kernel to run.
Switchable(p) == kstack[p] = 1 /\ pgdir[p].dir = 1 /\ pgdir[p].ktab = NKTAB

\* A process that can run can be switched to, and has exactly the pages below
\* its size, each in a table that exists (copyuvm never panics "page not
\* present").
SzMapped ==
  \A p \in Proc : state[p] = "RUNNABLE" /\ pc[p] # "fault" =>
    /\ Switchable(p)
    /\ \A v \in pgdir[p].user : PDX(v) \in pgdir[p].utab
    /\ job[p].call # "sbrk" => pgdir[p].user = 1..PGROUNDUP(sz[p])
=============================================================================
