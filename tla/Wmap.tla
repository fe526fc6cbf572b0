-------------------------------- MODULE Wmap --------------------------------
(***************************************************************************)
(* Memory mappings: wmap, wunmap, wremap and getwmapinfo of sysproc.c, the *)
(* page-fault case of trap() that loads a page on its first access, and    *)
(* what fork and exit do to the table of mappings.                         *)
(*                                                                         *)
(* The table is one hash table for the whole machine and has no lock.  A   *)
(* bucket is the chain of its cells, the one in table[] first, so the      *)
(* empty chain stands for startAddress = -1.  What a process has still to  *)
(* do before it is back in its program is a sequence of tasks, executed    *)
(* one at a time: between two of them other processes run.                 *)
(*                                                                         *)
(* Addresses and lengths are numbers, PGSIZE of them to the page.  The     *)
(* contents of pages and the counter loadedPages are left out.             *)
(***************************************************************************)
EXTENDS Integers, SequencesExt

CONSTANTS
  Proc,            \* processes
  MEM_HASH_SIZE,   \* buckets
  MAX_WMMAP_INFO,  \* nodes of nodePool
  PGSIZE,
  NPTENTRIES,      \* pages under one page table
  MMAPBASE, KERNBASE,
  HasFile,         \* the processes that have the file of the mappings open
  Calls,           \* the system calls programs make
  Addrs, Lengths, Flags,  \* and their arguments
  MaxMaps,         \* bound on the entries of the table when wmap is called
  MaxPool          \* bound on the nodes taken, past the end of nodePool too

ASSUME SizeAssumption ==
  /\ MEM_HASH_SIZE > 0 /\ PGSIZE > 0 /\ NPTENTRIES > 0
  /\ MMAPBASE % PGSIZE = 0 /\ KERNBASE % PGSIZE = 0
  /\ 0 < MMAPBASE /\ MMAPBASE < KERNBASE
  /\ HasFile \subseteq Proc

VARIABLES
  table,        \* the chain of each bucket
  poolCounter,  \* nodes taken from nodePool and from behind it; none is ever given back
  hashInit,     \* initHashTable has been called
  corrupt,      \* an entry written outside of table[] and nodePool[] did harm
  alive,        \* processes that exist
  pgtab,        \* page tables each process has in the mmap area
  pte,          \* pages present in each process's page tables
  todo,         \* the tasks of each process
  regions,      \* history: the mappings each process has been given
  plain         \* history: since initHashTable no node was taken, and wremap was
                \* given addresses that wmap returned

hist == <<regions, plain>>
vars == <<table, poolCounter, hashInit, corrupt, alive, pgtab, pte, todo, hist>>

Bucket == 0..(MEM_HASH_SIZE - 1)
hash(a) == a % MEM_HASH_SIZE

MAP_SHARED    == 2
MAP_ANONYMOUS == 4
MAP_FIXED     == 8
Has(f, bit) == (f \div bit) % 2 = 1

Page(a) == a \div PGSIZE
PageTable(g) == g \div NPTENTRIES
RoundUp(n) == ((n + PGSIZE - 1) \div PGSIZE) * PGSIZE
PGROUNDDOWN(a) == Page(a) * PGSIZE

\* The pages met by: for(a = from; a < to; a += PGSIZE).
PagesFrom(from, to) == {Page(a) : a \in {b \in from..(to - 1) : (b - from) % PGSIZE = 0}}

Entry(start, length, numPages, flags) ==
  [start |-> start, length |-> length, numPages |-> numPages, flags |-> flags]

Entries == UNION {{table[i][j] : j \in DOMAIN table[i]} : i \in Bucket}
Positions == UNION {{<<i, j>> : j \in DOMAIN table[i]} : i \in Bucket}
At(x) == table[x[1]][x[2]]

\* At boot the table is all zeros, and its cells so hold the address 0.
Init ==
  /\ table = [i \in Bucket |-> <<Entry(0, 0, 0, 0)>>]
  /\ poolCounter = 0
  /\ hashInit = FALSE
  /\ corrupt = FALSE
  /\ alive \in {{p} : p \in Proc}
  /\ pgtab = [p \in Proc |-> {}]
  /\ pte = [p \in Proc |-> {}]
  /\ todo = [p \in Proc |-> << >>]
  /\ regions = [p \in Proc |-> {}]
  /\ plain = FALSE

-----------------------------------------------------------------------------
(* The hash table *)

Before(x, y) == x[1] < y[1] \/ (x[1] = y[1] /\ x[2] <= y[2])
FirstOf(S) == CHOOSE x \in S : \A y \in S : Before(x, y)

\* hashSearch: the first cell of the address's own chain that starts there.
hashSearch(a) == {x \in Positions : x[1] = hash(a) /\ At(x).start = a}

\* The cells whose pages hold the address.
Holding(a) ==
  {x \in Positions : At(x).start <= a /\ a < At(x).start + At(x).numPages * PGSIZE}

NotFound == << >>

\* pageInMappings
pageInMappings(a) ==
  IF hashSearch(a) # {} THEN FirstOf(hashSearch(a))
  ELSE IF Holding(a) # {} THEN FirstOf(Holding(a)) ELSE NotFound

\* hashInsert: into the cell of table[] if that is empty, else in a new node
\* behind it.
hashInsert(ht, e) ==
  LET i == hash(e.start) IN
    [tab  |-> [ht.tab EXCEPT ![i] = IF @ = << >> THEN <<e>> ELSE <<@[1], e>> \o Tail(@)],
     pool |-> ht.pool + IF ht.tab[i] = << >> THEN 0 ELSE 1]

\* Mutant: the chain behind the first cell is dropped with it.
MoveUpLost(s) == << >>

\* The first cell is removed by moving up the address of the second one, and
\* nothing else of it.
MoveUp(s) ==
  IF Len(s) = 1 THEN << >>
  ELSE <<[s[1] EXCEPT !.start = s[2].start]>> \o SubSeq(s, 3, Len(s))

\* Mutant: the entry is left in the table.
RemoveNothing(tab, a) == tab

\* removeValue
removeValue(tab, a) ==
  LET i == hash(a)
      J == {j \in DOMAIN tab[i] : tab[i][j].start = a}
  IN  IF J = {} THEN tab
      ELSE LET j == CHOOSE j \in J : \A k \in J : j <= k
           IN  [tab EXCEPT ![i] = IF j = 1 THEN MoveUp(@) ELSE RemoveAt(@, j)]

\* The order in which forkHelper and exitHelper come to the buckets.
Buckets == [k \in 1..MEM_HASH_SIZE |-> k - 1]

\* What forkHelper inserts for one bucket: a copy of each cell, and of the
\* first one a second copy, since its first copy is the next cell it comes to.
Copies(tab, i) ==
  LET s == tab[i] IN
    IF s # << >> /\ hash(s[1].start) = i THEN <<s[1]>> \o s ELSE s

forkHelper(ht) ==
  FoldLeft(LAMBDA h, i : FoldLeft(hashInsert, h, Copies(h.tab, i)), ht, Buckets)

\* exitHelper on one bucket: it removes the first cell and goes on from the
\* one behind, but the first entry that it unlinks leads it nowhere.
ExitBucket(tab, i) ==
  LET s == tab[i] IN
    IF s = << >> THEN tab
    ELSE IF hash(s[1].start) # i THEN removeValue(tab, s[1].start)
    ELSE LET t == MoveUp(s)
             K == {k \in 2..Len(t) : t[k].start # t[1].start}
         IN  [tab EXCEPT ![i] =
                IF t = << >> THEN << >>
                ELSE IF K = {} THEN <<t[1]>>
                ELSE LET k == CHOOSE k \in K : \A l \in K : k <= l
                     IN  <<t[1]>> \o SubSeq(t, k + 1, Len(t))]

exitHelper(tab) == FoldLeft(ExitBucket, tab, Buckets)

-----------------------------------------------------------------------------
(* Tasks *)

Insert(a, n, f) == [op |-> "hashInsert", addr |-> a, length |-> n, flags |-> f]
Touch(g)        == [op |-> "touch", page |-> g, ilocked |-> FALSE]
WriteBack(g)    == [op |-> "touch", page |-> g, ilocked |-> TRUE]
Unmap(a)        == [op |-> "wunmap", addr |-> a]
Clear(a, n)     == [op |-> "clear", addr |-> a, length |-> n]
ExitTask        == [op |-> "exit"]
Deadlocked      == [op |-> "deadlock"]

InProgram(p) == p \in alive /\ todo[p] = << >> /\ ~corrupt
Task(p, op) == p \in alive /\ todo[p] # << >> /\ todo[p][1].op = op /\ ~corrupt

Do(p, tasks) == todo' = [todo EXCEPT ![p] = tasks]
Done(p)      == Do(p, Tail(todo[p]))

\* The addresses at which a loop over the pages of [a, a+n) reads them.
PageSeq(a, n) == [k \in 1..(RoundUp(n) \div PGSIZE) |-> Page(a) + k - 1]

-----------------------------------------------------------------------------
(* wmap *)

InArea(a) == MMAPBASE <= a /\ a < KERNBASE

Free(a, n) ==
  \A k \in 0..(RoundUp(n) \div PGSIZE - 1) : pageInMappings(a + k * PGSIZE) = NotFound

\* Mutant: the loop over the pages stops one short.
LeastFreeShort(a, n) ==
  LET ends == {e.start + e.numPages * PGSIZE : e \in Entries}
      S == {b \in {a} \cup {x \in ends : x >= a} : n <= PGSIZE \/ Free(b, n - PGSIZE)}
  IN  CHOOSE b \in S : \A c \in S : b <= c

\* The search of wmap: from a, past the mapping that is in the way, until all
\* pages are free.
LeastFree(a, n) ==
  LET ends == {e.start + e.numPages * PGSIZE : e \in Entries}
      S == {b \in {a} \cup {x \in ends : x >= a} : Free(b, n)}
  IN  CHOOSE b \in S : \A c \in S : b <= c

EndOf(x) == At(x).start + At(x).numPages * PGSIZE

\* Where the search starts: behind the mapping of addr, else behind the one
\* mostRecent points to.  That is a null pointer at first and a cell that may
\* be removed or reused later, so this is any address of the area.
SearchFrom(a) ==
  IF pageInMappings(a) = NotFound
  THEN {b \in MMAPBASE..(KERNBASE - 1) : b % PGSIZE = 0}
  ELSE LET b == EndOf(pageInMappings(a)) IN {IF InArea(b) THEN b ELSE MMAPBASE}

\* The addresses wmap may choose for its arguments; none when it fails.
wmap(a, n, f) ==
  LET b == PGROUNDDOWN(a) IN
    IF n <= 0 THEN {}
    ELSE IF Has(f, MAP_FIXED)
         THEN IF InArea(b) /\ pageInMappings(b) = NotFound THEN {b} ELSE {}
         ELSE {LeastFree(c, n) : c \in SearchFrom(b)}

\* The first call makes the table: initHashTable.
InitHashTable ==
  /\ hashInit' = TRUE
  /\ plain' = TRUE
  /\ table' = [i \in Bucket |-> << >>]

SysWmap(p, a, n, f) ==
  /\ "wmap" \in Calls
  /\ InProgram(p)
  /\ hashInit
  /\ Cardinality(Positions) < MaxMaps
  /\ \E b \in wmap(a, n, f) : Do(p, <<Insert(b, n, f)>>)
  /\ UNCHANGED <<table, poolCounter, hashInit, corrupt, alive, pgtab, pte, hist>>

\* wmap or getwmapinfo finds hashInit == -1.
FirstCall(p) ==
  /\ InProgram(p)
  /\ ~hashInit
  /\ InitHashTable
  /\ UNCHANGED <<poolCounter, corrupt, alive, pgtab, pte, todo, regions>>

\* The table after hashInsert.  A write before table[] destroys something; nodes
\* behind nodePool[] may, or may lie where nothing else is and serve as nodes.
Store(ht, ok) ==
  \/ /\ ok /\ ht.pool <= MaxPool
     /\ table' = ht.tab /\ poolCounter' = ht.pool
     /\ plain' = (plain /\ ht.pool = poolCounter)
     /\ UNCHANGED corrupt
  \/ /\ ~ok \/ ht.pool > MAX_WMMAP_INFO
     /\ corrupt' = TRUE
     /\ UNCHANGED <<table, poolCounter, plain>>

HT == [tab |-> table, pool |-> poolCounter]

\* hashInsert, apart from the search before it: no lock is held in between.
\* An address from KERNBASE on is a negative int and so is its index.
WmapInsert(p) ==
  /\ Task(p, "hashInsert")
  /\ LET t == todo[p][1] IN
       /\ Store(hashInsert(HT, Entry(t.addr, t.length, RoundUp(t.length) \div PGSIZE, t.flags)),
                t.addr < KERNBASE)
       /\ regions' = IF corrupt' THEN regions
                     ELSE [regions EXCEPT ![p] = @ \cup {[start |-> t.addr, length |-> t.length,
                                                           flags |-> t.flags]}]
  /\ Done(p)
  /\ UNCHANGED <<hashInit, alive, pgtab, pte>>

-----------------------------------------------------------------------------
(* Page faults *)

Access(p, g) ==
  /\ "touch" \in Calls
  /\ InProgram(p)
  /\ Do(p, <<Touch(g)>>)
  /\ UNCHANGED <<table, poolCounter, hashInit, corrupt, alive, pgtab, pte, hist>>

\* The page is present.
AccessDone(p) ==
  /\ Task(p, "touch")
  /\ todo[p][1].page \in pte[p]
  /\ Done(p)
  /\ UNCHANGED <<table, poolCounter, hashInit, corrupt, alive, pgtab, pte, hist>>

Faulting(p) == Task(p, "touch") /\ todo[p][1].page \notin pte[p]
FaultNode(p) == pageInMappings(todo[p][1].page * PGSIZE)

\* walkpgdir(pgdir, va, 0): no page table, not merely no page.
NoPte(p, g) == PageTable(g) \notin pgtab[p]

\* T_PGFLT of an access to a mapping: an anonymous page is zeroed, a page of a
\* file is read with fileread, which takes the lock of the inode.
FaultLoad(p) ==
  /\ Faulting(p)
  /\ FaultNode(p) # NotFound
  /\ LET g == todo[p][1].page
         anon == Has(At(FaultNode(p)).flags, MAP_ANONYMOUS)
     IN  /\ NoPte(p, g)
         /\ anon \/ p \in HasFile
         /\ IF ~anon /\ todo[p][1].ilocked
            THEN Do(p, <<Deadlocked>>) /\ UNCHANGED <<pgtab, pte>>
            ELSE /\ pgtab' = [pgtab EXCEPT ![p] = @ \cup {PageTable(g)}]
                 /\ pte' = [pte EXCEPT ![p] = @ \cup {g}]
                 /\ UNCHANGED todo
  /\ UNCHANGED <<table, poolCounter, hashInit, corrupt, alive, hist>>

\* There is a page table: nothing is loaded and the access faults again.
FaultAgain(p) ==
  /\ Faulting(p)
  /\ FaultNode(p) # NotFound
  /\ ~NoPte(p, todo[p][1].page)
  /\ UNCHANGED vars

\* segFault: no mapping, no memory, or no such file.  exit() is called directly.
SegFault(p) ==
  /\ Faulting(p)
  /\ FaultNode(p) = NotFound \/ NoPte(p, todo[p][1].page)
  /\ Do(p, <<ExitTask>>)
  /\ UNCHANGED <<table, poolCounter, hashInit, corrupt, alive, pgtab, pte, hist>>

-----------------------------------------------------------------------------
(* wunmap, wremap *)

SysWunmap(p, a) ==
  /\ "wunmap" \in Calls
  /\ InProgram(p)
  /\ Do(p, <<Unmap(a)>>)
  /\ UNCHANGED <<table, poolCounter, hashInit, corrupt, alive, pgtab, pte, hist>>

\* wunmap up to overwrite_file, which reads the pages with the inode locked.
\* Without the file open it is given a null pointer, and what it then reads is
\* the program's own memory: nothing is taken to be written.
WunmapStart(p) ==
  /\ Task(p, "wunmap")
  /\ LET x == pageInMappings(todo[p][1].addr) IN
       IF x = NotFound THEN Done(p)
       ELSE LET back == ~Has(At(x).flags, MAP_ANONYMOUS) /\ Has(At(x).flags, MAP_SHARED)
                pages == IF back /\ p \in HasFile
                         THEN PageSeq(At(x).start, At(x).length) ELSE << >>
            IN  Do(p, [k \in DOMAIN pages |-> WriteBack(pages[k])]
                      \o <<Clear(todo[p][1].addr, At(x).length)>> \o Tail(todo[p]))
  /\ UNCHANGED <<table, poolCounter, hashInit, corrupt, alive, pgtab, pte, hist>>

\* The rest of wunmap: removeValue, kfree of the pages, and *pte = 0 for each,
\* where pte is null if there is no page table and the store goes to the
\* program's address 0.
WunmapClear(p) ==
  /\ Task(p, "clear")
  /\ LET t == todo[p][1]
         pages == PagesFrom(t.addr, t.addr + t.length)
     IN  /\ table' = removeValue(table, t.addr)
         /\ pte' = [pte EXCEPT ![p] = @ \ pages]
         /\ regions' = [regions EXCEPT ![p] = {r \in @ : r.start # t.addr}]
  /\ Done(p)
  /\ UNCHANGED <<poolCounter, hashInit, corrupt, alive, pgtab, plain>>

SetLength(x, n) == table' = [table EXCEPT ![x[1]][x[2]].length = n]

Resize(p, a, n, x) ==
  /\ regions' = [regions EXCEPT ![p] =
                   {IF r.start = a THEN [r EXCEPT !.length = n] ELSE r : r \in @}]
  /\ plain' = (plain /\ At(x).start = a)

\* The mapping that wremap is given, by any address in it, with its size.
Remapped(p, a, n, x) ==
  /\ "wremap" \in Calls
  /\ InProgram(p)
  /\ x # NotFound
  /\ At(x).length = n

\* Shrink: wunmap_partial clears the page table entries, but the pages stay in
\* numPages.
WremapShrink(p, a, old, new) ==
  LET x == pageInMappings(a) IN
    /\ Remapped(p, a, old, x)
    /\ new < old
    /\ pte' = [pte EXCEPT ![p] = @ \ PagesFrom(a + new, a + old)]
    /\ SetLength(x, new)
    /\ Resize(p, a, new, x)
    /\ UNCHANGED <<poolCounter, hashInit, corrupt, alive, pgtab, todo>>

can_grow_in_place(a, old, new) ==
  \A b \in (a + old)..(a + new - 1) :
    (b - a - old) % PGSIZE = 0 => pageInMappings(b) = NotFound

WremapGrow(p, a, old, new) ==
  LET x == pageInMappings(a) IN
    /\ Remapped(p, a, old, x)
    /\ new > old
    /\ can_grow_in_place(a, old, new)
    /\ SetLength(x, new)
    /\ Resize(p, a, new, x)
    /\ UNCHANGED <<poolCounter, hashInit, corrupt, alive, pgtab, pte, todo>>

\* MREMAP_MAYMOVE: a new mapping, with flags - MAP_FIXED as its flags, then
\* memmove of the old pages, then wunmap.
WremapMove(p, a, old, new) ==
  LET x == pageInMappings(a)
      f == (At(x).flags - MAP_FIXED) % 16
  IN /\ Remapped(p, a, old, x)
     /\ new > old
     /\ ~can_grow_in_place(a, old, new)
     /\ Cardinality(Positions) < MaxMaps
     /\ \E b \in wmap(MMAPBASE, new, f) :
          LET from == PageSeq(a, old)
              to   == PageSeq(b, old)
          IN  Do(p, <<Insert(b, new, f)>>
                    \o [k \in 1..(2 * Len(from)) |->
                          Touch(IF k % 2 = 1 THEN from[(k + 1) \div 2] ELSE to[k \div 2])]
                    \o <<Unmap(a)>>)
     /\ UNCHANGED <<table, poolCounter, hashInit, corrupt, alive, pgtab, pte, hist>>

-----------------------------------------------------------------------------
(* fork, exit *)

\* fork in a process with the mappings R: its address space is copied only up
\* to p->sz, and forkHelper copies the whole table.
Fork(q, R) ==
  /\ "fork" \in Calls
  /\ q \notin alive /\ ~corrupt
  /\ alive' = alive \cup {q}
  /\ Store(forkHelper(HT), TRUE)
  /\ regions' = IF corrupt' THEN regions ELSE [regions EXCEPT ![q] = R]
  /\ UNCHANGED <<hashInit, pgtab, pte, todo>>

\* sys_exit: wunmap of what is in the first bucket, then exit().
SysExit(p) ==
  /\ "exit" \in Calls
  /\ InProgram(p)
  /\ Do(p, [k \in DOMAIN table[0] |-> Unmap(table[0][k].start)] \o <<ExitTask>>)
  /\ UNCHANGED <<table, poolCounter, hashInit, corrupt, alive, pgtab, pte, hist>>

\* exit(), up to and with exitHelper; the parent's wait frees the pages.
Exit(p) ==
  /\ Task(p, "exit")
  /\ table' = exitHelper(table)
  /\ alive' = alive \ {p}
  /\ pgtab' = [pgtab EXCEPT ![p] = {}]
  /\ pte' = [pte EXCEPT ![p] = {}]
  /\ regions' = [regions EXCEPT ![p] = {}]
  /\ Do(p, << >>)
  /\ UNCHANGED <<poolCounter, hashInit, corrupt, plain>>

-----------------------------------------------------------------------------

\* What a process does of itself before it is back in its program.
Step(p) ==
  \/ WmapInsert(p) \/ AccessDone(p) \/ FaultLoad(p) \/ FaultAgain(p) \/ SegFault(p)
  \/ WunmapStart(p) \/ WunmapClear(p) \/ Exit(p)

\* The system calls and accesses of a program.
Program(p) ==
  \/ FirstCall(p)
  \/ SysExit(p)
  \/ \E a \in Addrs :
       \/ SysWunmap(p, a)
       \/ Access(p, Page(a))
       \/ \E n \in Lengths :
            \/ \E f \in Flags : SysWmap(p, a, n, f)
            \/ \E m \in Lengths :
                 WremapShrink(p, a, n, m) \/ WremapGrow(p, a, n, m) \/ WremapMove(p, a, n, m)

Next ==
  \/ \E p \in Proc : Step(p) \/ Program(p)
  \/ \E q \in Proc : \E R \in {{}} \cup {regions[p] : p \in alive} : Fork(q, R)

Spec == Init /\ [][Next]_vars

-----------------------------------------------------------------------------
(* Properties *)

\* Types; after initHashTable every entry is in the bucket of its address.
TypeOK ==
  /\ \A i \in Bucket : \A j \in DOMAIN table[i] :
       /\ table[i][j].start \in Nat /\ table[i][j].length \in Nat
       /\ table[i][j].flags \in 0..15
       /\ hashInit => hash(table[i][j].start) = i /\ table[i][j].numPages > 0
  /\ poolCounter \in 0..MaxPool
  /\ hashInit \in BOOLEAN /\ corrupt \in BOOLEAN /\ plain \in BOOLEAN
  /\ alive \subseteq Proc
  /\ \A p \in Proc : {PageTable(g) : g \in pte[p]} \subseteq pgtab[p]
  /\ \A p \in Proc \ alive : todo[p] = << >> /\ pte[p] = {} /\ regions[p] = {}

Region(e) == [start |-> e.start, length |-> e.length]
PagesOf(r) == PagesFrom(r.start, r.start + r.length)

\* Entries of the table with the address a.
Count(a) == Cardinality({x \in Positions : At(x).start = a})

\* getwmapinfo: the chains of all buckets, one after the other.
getwmapinfo ==
  FlattenSeq([i \in 1..MEM_HASH_SIZE |->
                [j \in DOMAIN table[i - 1] |-> Region(table[i - 1][j])]])

\* As long as every address has had a bucket of its own since initHashTable, and
\* wremap was given the addresses that wmap returned, getwmapinfo reports exactly
\* the mappings that the one process has been given and has not removed, each with
\* its size, however the table was left by the forks before.
InfoExact ==
  /\ TypeOK
  /\ hashInit /\ plain =>
       /\ ToSet(getwmapinfo) = {Region(r) : r \in UNION {regions[p] : p \in Proc}}
       /\ Len(getwmapinfo)
            = Cardinality(UNION {{<<p, r>> : r \in regions[p]} : p \in Proc})

\* The table has the mapping with its size and with pages for all of it: not so
\* one that wremap has grown, and one that took over the cell of another.
Recorded(r) ==
  \E e \in Entries : Region(e) = Region(r) /\ e.length <= e.numPages * PGSIZE

\* Two mappings of a process have a page in common only if the table has one of them
\* wrong, or if MAP_FIXED has placed one of several pages, of which it tests the first.
NoOverlap ==
  \A p \in Proc : \A r, s \in {x \in regions[p] : Recorded(x)
                                /\ (Has(x.flags, MAP_FIXED) => x.length <= PGSIZE)} :
    r # s => PagesOf(r) \cap PagesOf(s) = {}

\* Removing a mapping takes one entry out of its chain and loses no other
\* mapping's address, whether its cell was in table[] or in nodePool[].
UnmapKeepsOthers ==
  [][hashInit /\ alive' = alive =>
       \E a \in {e.start : e \in Entries} \cup {0} :
         \A b \in {e.start : e \in Entries} : Count(b)' >= Count(b) - IF a = b THEN 1 ELSE 0]_vars
=============================================================================
