---------------------------- MODULE MemoryProofs ----------------------------
(***************************************************************************)
(* Pages and address spaces for any number of processes and pages, any     *)
(* programs and any sizes: no page is lost or freed twice, and a process   *)
(* has exactly the memory below its size.                                  *)
(***************************************************************************)
EXTENDS Memory, FiniteSetTheorems, WellFoundedInduction, TLAPS

\* A nonempty set of numbers has a least element.
LEMMA NatMin ==
  ASSUME NEW T, T \subseteq Nat, T # {}
  PROVE  \E x \in T : \A y \in T : x <= y
<1> DEFINE R == OpToRel(<, Nat)
<1>1. IsWellFoundedOn(R, Nat)
  BY NatLessThanWellFounded
<1>2. \E x \in T : \A y \in T : <<y, x>> \notin R
  <2> HIDE DEF R
  <2> QED
    BY <1>1, WFMin
<1>3. \A x, y \in Nat : <<x, y>> \in R <=> x < y
  BY DEF OpToRel
<1> HIDE DEF R
<1>4. PICK x \in T : \A y \in T : <<y, x>> \notin R
  BY <1>2
<1>5. ASSUME NEW y \in T PROVE x <= y
  <2>1. x \in Nat /\ y \in Nat
    OBVIOUS
  <2>2. ~(y < x)
    BY <1>3, <1>4, <2>1
  <2> QED
    BY <2>1, <2>2
<1> QED
  BY <1>5

\* The sizes of rings, and what their indices are counted modulo.
Pos == Nat \ {0}

\* Quotient and remainder.
LEMMA DivMod ==
  ASSUME NEW a \in Nat, NEW m \in Pos
  PROVE  a % m \in 0..(m - 1) /\ a \div m \in Nat /\ a = (m * (a \div m)) + (a % m)
  BY DEF Pos

Types ==
  /\ free \in Nat
  /\ state \in [Proc -> {"UNUSED", "EMBRYO", "RUNNABLE", "ZOMBIE"}]
  /\ kstack \in [Proc -> 0..1]
  /\ pgdir \in [Proc -> Space] /\ new \in [Proc -> Space]
  /\ sz \in [Proc -> 0..(KERNBASE - 1)]
  /\ pc \in [Proc -> {"user", "kstack", "pgdir", "ktab", "page", "map", "fault"}]
  /\ job \in [Proc -> [call : {"none", "fork", "exec", "sbrk"}, np : 0..NPROC,
                       at : Nat, to : Nat, seg : Nat]]
  /\ mem = [p \in Proc |-> IF pc[p] = "map" THEN 1 ELSE 0]

\* Which calls are where.
Calling ==
  \A p \in Proc :
    /\ pc[p] # "user" => state[p] = "RUNNABLE"
    /\ pc[p] \in {"user", "fault"} <=> job[p].call = "none"
    /\ pc[p] = "kstack" => job[p].call = "fork"
    /\ pc[p] \in {"pgdir", "ktab"} => job[p].call \in {"fork", "exec"}

\* The child of a fork belongs to one parent, and has the stack it was given.
Children ==
  /\ \A p \in Proc : job[p].call = "fork" =>
       /\ job[p].np \in Proc /\ state[job[p].np] = "EMBRYO"
       /\ kstack[job[p].np] = IF pc[p] = "kstack" THEN 0 ELSE 1
  /\ \A p \in Proc : job[p].call # "fork" => job[p].np = 0
  /\ \A p, q \in Proc : job[p].np = job[q].np /\ job[p].np # 0 => p = q
  /\ \A q \in Proc : state[q] = "EMBRYO" => \E p \in Proc : job[p].np = q
  /\ \A q \in Proc : state[q] \in {"UNUSED", "EMBRYO"} => pgdir[q] = NoSpace
  /\ \A q \in Proc : state[q] = "UNUSED" => kstack[q] = 0

\* How far a call has come with the pages it asks for.
Progress(p) ==
  /\ job[p].call \in {"fork", "exec"} /\ pc[p] \in {"kstack", "pgdir", "ktab"} => job[p].at = 1
  /\ job[p].call # "none" => job[p].at \in 1..(PGROUNDUP(job[p].to) + 1)
  /\ pc[p] = "map" => job[p].at <= PGROUNDUP(job[p].to) /\ Newsz(p) < KERNBASE
  /\ job[p].call = "fork" => job[p].to = sz[p]
  /\ job[p].call = "sbrk" => sz[p] <= job[p].to /\ PGROUNDUP(sz[p]) < job[p].at
  /\ job[p].call = "exec" =>
       /\ PGROUNDUP(job[p].seg) < PGROUNDUP(job[p].to)
       /\ job[p].at > PGROUNDUP(job[p].seg) + 1 => job[p].to < KERNBASE

\* A space with everything that switchuvm needs and a table for every page.
Complete(s) ==
  /\ s.dir = 1 /\ s.ktab = NKTAB
  /\ \A v \in s.user : PDX(v) \in s.utab

\* What a call has built.
Built(p) ==
  /\ pc[p] \in {"user", "fault", "kstack", "pgdir"} \/ job[p].call = "sbrk" => new[p] = NoSpace
  /\ pc[p] = "ktab" => /\ new[p].dir = 1 /\ new[p].ktab < NKTAB
                       /\ new[p].utab = {} /\ new[p].user = {}
  /\ pc[p] \in {"page", "map"} /\ job[p].call # "sbrk" =>
       Complete(new[p]) /\ new[p].user = 1..(job[p].at - 1)

\* What a process has.
Ready(p) ==
  state[p] = "RUNNABLE" =>
    /\ kstack[p] = 1 /\ Complete(pgdir[p])
    /\ pc[p] # "fault" => pgdir[p].user =
         1..IF job[p].call = "sbrk" THEN job[p].at - 1 ELSE PGROUNDUP(sz[p])

Memories == \A p \in Proc : Progress(p) /\ Built(p) /\ Ready(p)

Balanced ==
  /\ IsFiniteSet(DisjointUnion(Pointers))
  /\ free + Cardinality(DisjointUnion(Pointers)) = NPAGE

Inv == Types /\ Calling /\ Children /\ Memories /\ Balanced

-----------------------------------------------------------------------------
(* Sizes *)

\* Division is monotonic.
LEMMA DivMono ==
  ASSUME NEW a \in Nat, NEW b \in Nat, a <= b, NEW m \in Pos
  PROVE  a \div m <= b \div m
<1> DEFINE s == a \div m
           t == b \div m
<1>1. /\ s \in Nat /\ a % m \in 0..(m - 1) /\ a = (m * s) + (a % m)
      /\ t \in Nat /\ b % m \in 0..(m - 1) /\ b = (m * t) + (b % m)
  BY DivMod
<1> HIDE DEF s, t
<1>2. ASSUME NEW k \in Nat, s = t + 1 + k PROVE FALSE
  <2>1. m * s = (m * t) + m + (m * k) /\ m * k >= 0 /\ m \in Nat
    BY <1>1, <1>2 DEF Pos
  <2> QED
    BY <1>1, <2>1
<1>3. s <= t
  <2>1. s > t => s = t + 1 + (s - t - 1) /\ s - t - 1 \in Nat
    BY <1>1
  <2> QED
    BY <1>1, <1>2, <2>1
<1> QED
  BY <1>3 DEF s, t

\* A multiple and a remainder, divided.
LEMMA DivMultiple ==
  ASSUME NEW q \in Nat, NEW m \in Pos, NEW x \in 0..(m - 1)
  PROVE  ((m * q) + x) \div m = q
  BY DEF Pos

\* The constants.
LEMMA Constants ==
  /\ NPROC \in Nat /\ PGSIZE \in Pos /\ NPTENTRIES \in Pos /\ NKTAB \in Nat /\ NKTAB > 0
  /\ KERNBASE \in Nat /\ PGSIZE \in Nat /\ PGSIZE > 0 /\ KERNBASE > PGSIZE /\ NPAGE \in Nat
  /\ initproc \in Proc /\ Proc = 1..NPROC
  BY MemoryAssumption DEF Pos, Proc, initproc

\* A size in pages is a number.
LEMMA RoundUpNat == \A n \in Nat : PGROUNDUP(n) \in Nat
<1> TAKE n \in Nat
<1>1. n + PGSIZE - 1 \in Nat
  BY Constants
<1> QED
  BY <1>1, Constants, DivMod DEF PGROUNDUP

\* A larger size has no fewer pages.
LEMMA RoundUpMono ==
  ASSUME NEW a \in Nat, NEW b \in Nat, a <= b
  PROVE  PGROUNDUP(a) <= PGROUNDUP(b)
<1>1. a + PGSIZE - 1 \in Nat /\ b + PGSIZE - 1 \in Nat /\ a + PGSIZE - 1 <= b + PGSIZE - 1
  BY Constants
<1> QED
  BY <1>1, Constants, DivMono DEF PGROUNDUP

\* A whole number of pages is that many pages.
LEMMA RoundUpPages == \A k \in Nat : PGROUNDUP(k * PGSIZE) = k
<1> TAKE k \in Nat
<1>1. k * PGSIZE = PGSIZE * k /\ PGSIZE * k \in Nat /\ PGSIZE - 1 \in 0..(PGSIZE - 1)
  BY Constants
<1>2. ((PGSIZE * k) + (PGSIZE - 1)) \div PGSIZE = k
  BY <1>1, Constants, DivMultiple
<1>3. (k * PGSIZE) + PGSIZE - 1 = (PGSIZE * k) + (PGSIZE - 1)
  BY <1>1, Constants
<1> QED
  BY <1>2, <1>3 DEF PGROUNDUP

\* One page, and none.
LEMMA RoundUpOne == PGROUNDUP(PGSIZE) = 1 /\ PGROUNDUP(0) = 0
<1>1. 1 * PGSIZE = PGSIZE /\ 0 * PGSIZE = 0
  BY Constants
<1> QED
  BY <1>1, RoundUpPages

\* The page table of a user page is one of those a space may have.
LEMMA TableOf == \A v \in VPage : PDX(v) \in Table
<1> TAKE v \in VPage
<1> DEFINE top == PGROUNDUP(KERNBASE)
<1>1. top \in Nat /\ v \in 1..top
  BY Constants, RoundUpNat DEF VPage
<1> HIDE DEF top
<1>2. v - 1 \in Nat /\ top - 1 \in Nat /\ v - 1 <= top - 1
  BY <1>1
<1>3. (v - 1) \div NPTENTRIES <= (top - 1) \div NPTENTRIES
  BY <1>2, Constants, DivMono
<1>4. (top + NPTENTRIES - 1) \div NPTENTRIES = ((top - 1) \div NPTENTRIES) + 1
  <2> DEFINE q == (top - 1) \div NPTENTRIES
             x == (top - 1) % NPTENTRIES
  <2>1. q \in Nat /\ x \in 0..(NPTENTRIES - 1) /\ top - 1 = (NPTENTRIES * q) + x
    BY <1>2, Constants, DivMod
  <2> HIDE DEF q, x
  <2>2. q + 1 \in Nat /\ top + NPTENTRIES - 1 = (NPTENTRIES * (q + 1)) + x
    BY <1>1, <2>1, Constants DEF Pos
  <2>3. ((NPTENTRIES * (q + 1)) + x) \div NPTENTRIES = q + 1
    BY <2>1, <2>2, Constants, DivMultiple
  <2> QED
    BY <2>2, <2>3 DEF q
<1>5. (v - 1) \div NPTENTRIES \in Nat /\ (top - 1) \div NPTENTRIES \in Nat
  BY <1>2, Constants, DivMod
<1> DEFINE a == (v - 1) \div NPTENTRIES
           b == (top - 1) \div NPTENTRIES
<1> HIDE DEF a, b
<1>6. a + 1 \in 1..(b + 1)
  BY <1>3, <1>5 DEF a, b
<1>7. Table = 1..(b + 1) /\ PDX(v) = a + 1
  BY <1>4 DEF Table, PDX, a, b, top
<1> QED
  BY <1>6, <1>7

-----------------------------------------------------------------------------
(* Counting *)

\* One part of a disjoint union is exchanged for another.
LEMMA Exchange ==
  ASSUME NEW f, NEW g, NEW x \in DOMAIN f, DOMAIN g = DOMAIN f,
         \A y \in DOMAIN f : y # x => g[y] = f[y],
         IsFiniteSet(DisjointUnion(f)), IsFiniteSet(g[x])
  PROVE  /\ IsFiniteSet(DisjointUnion(g)) /\ IsFiniteSet(f[x])
         /\ Cardinality(DisjointUnion(g))
              = Cardinality(DisjointUnion(f)) - Cardinality(f[x]) + Cardinality(g[x])
<1> DEFINE U == DisjointUnion(f)
           A == {x} \X f[x]
           B == {x} \X g[x]
<1>1. A \subseteq U /\ DisjointUnion(g) = (U \ A) \cup B /\ (U \ A) \cap B = {}
  BY DEF DisjointUnion
<1>2. IsFiniteSet(A)
  BY <1>1, FS_Subset
<1>3. IsFiniteSet({x}) /\ Cardinality({x}) = 1
  BY FS_Singleton
<1>4. IsFiniteSet(f[x])
  <2> DEFINE h == [v \in f[x] |-> <<x, v>>]
  <2>1. h \in Injection(f[x], A)
    BY DEF Injection, IsInjective
  <2> QED
    BY <1>2, <2>1, FS_Injection
<1>5. Cardinality(A) = 1 * Cardinality(f[x])
  BY <1>3, <1>4, FS_Product
<1>6. IsFiniteSet(B) /\ Cardinality(B) = 1 * Cardinality(g[x])
  BY <1>3, FS_Product
<1> HIDE DEF A, B, U
<1>7. IsFiniteSet(U) /\ U \cap A = A
  BY <1>1 DEF U
<1>8. IsFiniteSet(U \ A) /\ Cardinality(U \ A) = Cardinality(U) - Cardinality(A)
  BY <1>7, FS_Difference
<1>9. /\ IsFiniteSet((U \ A) \cup B)
      /\ Cardinality((U \ A) \cup B) = Cardinality(U \ A) + Cardinality(B) - Cardinality({})
  <2> DEFINE V == U \ A
  <2>1. V \cap B = {} /\ IsFiniteSet(V) /\ IsFiniteSet(B)
    BY <1>1, <1>6, <1>8
  <2> HIDE DEF V
  <2>2. /\ IsFiniteSet(V \cup B)
        /\ Cardinality(V \cup B) = Cardinality(V) + Cardinality(B) - Cardinality({})
    BY <2>1, FS_Union
  <2> QED
    BY <2>2 DEF V
<1>10. /\ Cardinality(U) \in Nat /\ Cardinality(A) \in Nat /\ Cardinality(B) \in Nat
       /\ Cardinality(f[x]) \in Nat /\ Cardinality(g[x]) \in Nat /\ Cardinality({}) = 0
  BY <1>2, <1>4, <1>6, <1>7, FS_CardinalityType, FS_EmptySet
<1> QED
  BY <1>1, <1>4, <1>5, <1>6, <1>8, <1>9, <1>10 DEF U

\* n pages of a kind are n pointers.
LEMMA Numbered ==
  ASSUME NEW k, NEW n \in Nat
  PROVE  IsFiniteSet({k} \X (1..n)) /\ Cardinality({k} \X (1..n)) = n
<1>1. IsFiniteSet(1..n) /\ Cardinality(1..n) = n
  <2>1. IsFiniteSet(1..n) /\ Cardinality(1..n) = IF 1 > n THEN 0 ELSE n - 1 + 1
    BY FS_Interval
  <2> QED
    BY <2>1
<1>2. IsFiniteSet({k}) /\ Cardinality({k}) = 1
  BY FS_Singleton
<1>3. IsFiniteSet({k} \X (1..n)) /\ Cardinality({k} \X (1..n)) = 1 * Cardinality(1..n)
  BY <1>1, <1>2, FS_Product
<1> QED
  BY <1>1, <1>3

\* As many pointers of a kind as there are addresses.
LEMMA Addressed ==
  ASSUME NEW k, NEW S, IsFiniteSet(S)
  PROVE  IsFiniteSet({k} \X S) /\ Cardinality({k} \X S) = Cardinality(S)
<1>1. IsFiniteSet({k}) /\ Cardinality({k}) = 1
  BY FS_Singleton
<1>2. IsFiniteSet({k} \X S) /\ Cardinality({k} \X S) = 1 * Cardinality(S)
  BY <1>1, FS_Product
<1> QED
  BY <1>2, FS_CardinalityType

\* Spaces are finite.
LEMMA SpaceFinite ==
  ASSUME NEW s \in Space
  PROVE  /\ IsFiniteSet(s.user) /\ IsFiniteSet(s.utab)
         /\ Cardinality(s.user) \in Nat /\ Cardinality(s.utab) \in Nat
         /\ s.ktab \in Nat /\ s.dir \in Nat
         /\ s.user \subseteq VPage /\ s.utab \subseteq Table
<1>1. IsFiniteSet(VPage) /\ IsFiniteSet(Table)
  <2>1. PGROUNDUP(KERNBASE) \in Nat
    BY Constants, RoundUpNat
  <2>2. PGROUNDUP(KERNBASE) + NPTENTRIES - 1 \in Nat
    BY <2>1, Constants DEF Pos
  <2>3. (PGROUNDUP(KERNBASE) + NPTENTRIES - 1) \div NPTENTRIES \in Nat
    BY <2>2, Constants, DivMod
  <2> QED
    BY <2>1, <2>3, FS_Interval DEF VPage, Table
<1>2. s.user \subseteq VPage /\ s.utab \subseteq Table /\ s.ktab \in Nat /\ s.dir \in Nat
  BY Constants DEF Space
<1>3. IsFiniteSet(s.user) /\ IsFiniteSet(s.utab)
  BY <1>1, <1>2, FS_Subset
<1> QED
  BY <1>2, <1>3, FS_CardinalityType

\* freevm gives back as many pages as a space points to.
LEMMA SpaceCount ==
  ASSUME NEW s \in Space
  PROVE  /\ IsFiniteSet(PagesIn(s)) /\ Cardinality(PagesIn(s)) = PagesOf(s) /\ PagesOf(s) \in Nat
<1> DEFINE A == {"user"} \X s.user
           B == {"utab"} \X s.utab
           C == {"ktab"} \X (1..s.ktab)
           D == {"dir"} \X (1..s.dir)
<1>1. /\ IsFiniteSet(A) /\ Cardinality(A) = Cardinality(s.user)
      /\ IsFiniteSet(B) /\ Cardinality(B) = Cardinality(s.utab)
      /\ IsFiniteSet(C) /\ Cardinality(C) = s.ktab
      /\ IsFiniteSet(D) /\ Cardinality(D) = s.dir
  BY SpaceFinite, Addressed, Numbered
<1>2. A \cap B = {} /\ (A \cup B) \cap C = {} /\ ((A \cup B) \cup C) \cap D = {}
  OBVIOUS
<1>3. PagesIn(s) = ((A \cup B) \cup C) \cup D
  BY DEF PagesIn
<1>4. /\ Cardinality(s.user) \in Nat /\ Cardinality(s.utab) \in Nat
      /\ s.ktab \in Nat /\ s.dir \in Nat
  BY SpaceFinite
<1> HIDE DEF A, B, C, D
<1>5. Cardinality({}) = 0
  BY FS_EmptySet
<1>6. IsFiniteSet(A \cup B) /\ Cardinality(A \cup B) = Cardinality(A) + Cardinality(B) - 0
  BY <1>1, <1>2, <1>5, FS_Union
<1>7. /\ IsFiniteSet((A \cup B) \cup C)
      /\ Cardinality((A \cup B) \cup C) = Cardinality(A \cup B) + Cardinality(C) - 0
  BY <1>1, <1>2, <1>5, <1>6, FS_Union
<1>8. /\ IsFiniteSet(((A \cup B) \cup C) \cup D)
      /\ Cardinality(((A \cup B) \cup C) \cup D)
           = Cardinality((A \cup B) \cup C) + Cardinality(D) - 0
  BY <1>1, <1>2, <1>5, <1>7, FS_Union
<1> QED
  BY <1>1, <1>3, <1>4, <1>6, <1>7, <1>8 DEF PagesOf

\* The spaces that the steps make, and their pages: none to start with.
LEMMA NoSpaceCount == NoSpace \in Space /\ PagesOf(NoSpace) = 0
  BY Constants, FS_EmptySet DEF NoSpace, Space, PagesOf

\* setupkvm has the directory.
LEMMA WithDir ==
  /\ [NoSpace EXCEPT !.dir = 1] \in Space
  /\ PagesOf([NoSpace EXCEPT !.dir = 1]) = 1
<1>1. [NoSpace EXCEPT !.dir = 1] = [dir |-> 1, ktab |-> 0, utab |-> {}, user |-> {}]
  BY DEF NoSpace
<1> DEFINE s == [dir |-> 1, ktab |-> 0, utab |-> {}, user |-> {}]
<1>2. s \in Space
  BY Constants DEF Space
<1>3. PagesOf(s) = Cardinality({}) + Cardinality({}) + 0 + 1
  BY DEF PagesOf
<1>4. PagesOf(s) = 1
  BY <1>3, FS_EmptySet
<1> QED
  BY <1>1, <1>2, <1>4

\* One more table of the kernel's mappings is one more page.
LEMMA WithKtab ==
  ASSUME NEW s \in Space, s.ktab < NKTAB
  PROVE  /\ [s EXCEPT !.ktab = @ + 1] \in Space
         /\ PagesOf([s EXCEPT !.ktab = @ + 1]) = PagesOf(s) + 1
<1>1. /\ Cardinality(s.user) \in Nat /\ Cardinality(s.utab) \in Nat
      /\ s.ktab \in Nat /\ s.dir \in Nat
  BY SpaceFinite
<1> DEFINE t == [s EXCEPT !.ktab = @ + 1]
<1>2. t \in Space
  BY <1>1, Constants DEF Space
<1>3. t.user = s.user /\ t.utab = s.utab /\ t.ktab = s.ktab + 1 /\ t.dir = s.dir
  BY DEF Space
<1>4. PagesOf(t) = PagesOf(s) + 1
  <2> HIDE DEF t
  <2> QED
    BY <1>1, <1>3 DEF PagesOf
<1> QED
  BY <1>2, <1>4

Mapped(s, v) == [s EXCEPT !.user = @ \cup {v}, !.utab = @ \cup {PDX(v)}]

\* mappages: the page, and a table when the address needs one.
LEMMA WithPage ==
  ASSUME NEW s \in Space, NEW v \in VPage, v \notin s.user
  PROVE  /\ Mapped(s, v) \in Space
         /\ PagesOf(Mapped(s, v)) = PagesOf(s) + 1 + (IF PDX(v) \in s.utab THEN 0 ELSE 1)
         /\ Mapped(s, v).user = s.user \cup {v} /\ Mapped(s, v).utab = s.utab \cup {PDX(v)}
         /\ Mapped(s, v).dir = s.dir /\ Mapped(s, v).ktab = s.ktab
<1>1. /\ Cardinality(s.user) \in Nat /\ Cardinality(s.utab) \in Nat
      /\ s.ktab \in Nat /\ s.dir \in Nat /\ IsFiniteSet(s.user) /\ IsFiniteSet(s.utab)
      /\ s.user \subseteq VPage /\ s.utab \subseteq Table
  BY SpaceFinite
<1>2. PDX(v) \in Table
  BY TableOf
<1>3. Cardinality(s.user \cup {v}) = Cardinality(s.user) + 1
  BY <1>1, FS_AddElement
<1>4. Cardinality(s.utab \cup {PDX(v)})
        = Cardinality(s.utab) + (IF PDX(v) \in s.utab THEN 0 ELSE 1)
  <2>1. CASE PDX(v) \in s.utab
    <3>1. s.utab \cup {PDX(v)} = s.utab
      BY <2>1
    <3> QED
      BY <1>1, <2>1, <3>1
  <2>2. CASE PDX(v) \notin s.utab
    BY <1>1, <2>2, FS_AddElement
  <2> QED
    BY <2>1, <2>2
<1>5. /\ Mapped(s, v).user = s.user \cup {v} /\ Mapped(s, v).utab = s.utab \cup {PDX(v)}
      /\ Mapped(s, v).dir = s.dir /\ Mapped(s, v).ktab = s.ktab
  BY DEF Mapped, Space
<1>6. Mapped(s, v) \in Space
  BY <1>1, <1>2 DEF Mapped, Space
<1>7. PagesOf(Mapped(s, v)) = Cardinality(s.user \cup {v}) + Cardinality(s.utab \cup {PDX(v)})
                                + s.ktab + s.dir
  BY <1>5 DEF PagesOf
<1> DEFINE more == IF PDX(v) \in s.utab THEN 0 ELSE 1
<1>8. more \in Nat
  OBVIOUS
<1>9. PagesOf(Mapped(s, v)) = PagesOf(s) + 1 + more
  <2> HIDE DEF more
  <2>1. Cardinality(s.utab \cup {PDX(v)}) = Cardinality(s.utab) + more
    BY <1>4 DEF more
  <2> QED
    BY <1>1, <1>3, <1>7, <1>8, <2>1 DEF PagesOf
<1> QED
  BY <1>5, <1>6, <1>9

\* deallocuvm takes as many pages as it drops, and no table.
LEMMA WithoutPages ==
  ASSUME NEW s \in Space, NEW a, NEW b
  PROVE  /\ deallocuvm(s, a, b) \in Space
         /\ Cardinality(Dropped(s, a, b)) \in Nat
         /\ PagesOf(s) = PagesOf(deallocuvm(s, a, b)) + Cardinality(Dropped(s, a, b))
         /\ deallocuvm(s, a, b).user = s.user \ Dropped(s, a, b)
         /\ deallocuvm(s, a, b).utab = s.utab
         /\ deallocuvm(s, a, b).dir = s.dir /\ deallocuvm(s, a, b).ktab = s.ktab
<1> DEFINE D == Dropped(s, a, b)
           t == deallocuvm(s, a, b)
<1>1. /\ Cardinality(s.user) \in Nat /\ Cardinality(s.utab) \in Nat
      /\ s.ktab \in Nat /\ s.dir \in Nat /\ IsFiniteSet(s.user)
      /\ s.user \subseteq VPage /\ s.utab \subseteq Table
  BY SpaceFinite
<1>2. D \subseteq s.user
  BY DEF Dropped
<1>3. IsFiniteSet(D) /\ Cardinality(D) \in Nat
  BY <1>1, <1>2, FS_Subset, FS_CardinalityType
<1>4. /\ t.user = s.user \ D /\ t.utab = s.utab /\ t.dir = s.dir /\ t.ktab = s.ktab
  <2> HIDE DEF D
  <2> QED
    BY DEF deallocuvm, Space, D
<1>5. t \in Space
  <2> HIDE DEF D
  <2> QED
    BY <1>1 DEF deallocuvm, Space, D
<1>6. s.user \cap D = D
  BY <1>2
<1>7. Cardinality(s.user \ D) = Cardinality(s.user) - Cardinality(D)
  <2> HIDE DEF D
  <2> QED
    BY <1>1, <1>6, FS_Difference
<1>8. PagesOf(s) = PagesOf(t) + Cardinality(D)
  <2> HIDE DEF D, t
  <2> QED
    BY <1>1, <1>3, <1>4, <1>7 DEF PagesOf
<1> QED
  BY <1>3, <1>4, <1>5, <1>8

\* The parts of Pointers, before and after a step.
LEMMA Parts ==
  /\ DOMAIN Pointers = Proc \X {"kstack", "mem", "pgdir", "new"}
  /\ \A x \in Proc :
       /\ Pointers[<<x, "kstack">>] = {"stack"} \X (1..kstack[x])
       /\ Pointers[<<x, "mem">>] = {"page"} \X (1..mem[x])
       /\ Pointers[<<x, "pgdir">>] = PagesIn(pgdir[x])
       /\ Pointers[<<x, "new">>] = PagesIn(new[x])
  BY DEF Pointers

\* The same after a step.
LEMMA PartsNext ==
  /\ DOMAIN Pointers' = Proc \X {"kstack", "mem", "pgdir", "new"}
  /\ \A x \in Proc :
       /\ Pointers'[<<x, "kstack">>] = {"stack"} \X (1..kstack'[x])
       /\ Pointers'[<<x, "mem">>] = {"page"} \X (1..mem'[x])
       /\ Pointers'[<<x, "pgdir">>] = PagesIn(pgdir'[x])
       /\ Pointers'[<<x, "new">>] = PagesIn(new'[x])
  BY DEF Pointers, PagesIn

\* A step that gives to the free list what it takes from the pointers, and the
\* other way round.
LEMMA Balance ==
  ASSUME Types, Types', Balanced, NEW p \in Proc, NEW q \in Proc, NEW r \in Proc,
         \A x \in Proc : x # q => kstack'[x] = kstack[x],
         \A x \in Proc : x # p => mem'[x] = mem[x] /\ new'[x] = new[x],
         \A x \in Proc : x # r => pgdir'[x] = pgdir[x],
         free' + kstack'[q] + mem'[p] + PagesOf(new'[p]) + PagesOf(pgdir'[r])
           = free + kstack[q] + mem[p] + PagesOf(new[p]) + PagesOf(pgdir[r])
  PROVE  Balanced'
<1> DEFINE f == Pointers
           g == Pointers'
           a == <<q, "kstack">>
           b == <<p, "mem">>
           c == <<r, "pgdir">>
           d == <<p, "new">>
           f1 == [f EXCEPT ![a] = g[a]]
           f2 == [f1 EXCEPT ![b] = g[b]]
           f3 == [f2 EXCEPT ![c] = g[c]]
           f4 == [f3 EXCEPT ![d] = g[d]]
           Dom == Proc \X {"kstack", "mem", "pgdir", "new"}
<1>1. /\ kstack[q] \in Nat /\ kstack'[q] \in Nat /\ mem[p] \in Nat /\ mem'[p] \in Nat
      /\ pgdir[r] \in Space /\ pgdir'[r] \in Space /\ new[p] \in Space /\ new'[p] \in Space
      /\ free \in Nat /\ free' \in Nat
  <2>1. \A n \in 0..1 : n \in Nat
    OBVIOUS
  <2>2. kstack[q] \in 0..1 /\ kstack'[q] \in 0..1
    BY DEF Types
  <2>3. mem[p] \in Nat /\ mem'[p] \in Nat
    BY DEF Types
  <2>4. /\ pgdir[r] \in Space /\ pgdir'[r] \in Space /\ new[p] \in Space /\ new'[p] \in Space
        /\ free \in Nat /\ free' \in Nat
    BY DEF Types, Space
  <2> QED
    BY <2>1, <2>2, <2>3, <2>4
<1>2. /\ IsFiniteSet(f[a]) /\ Cardinality(f[a]) = kstack[q]
      /\ IsFiniteSet(g[a]) /\ Cardinality(g[a]) = kstack'[q]
      /\ IsFiniteSet(f[b]) /\ Cardinality(f[b]) = mem[p]
      /\ IsFiniteSet(g[b]) /\ Cardinality(g[b]) = mem'[p]
  <2>1. \A n \in Nat : /\ IsFiniteSet({"stack"} \X (1..n)) /\ Cardinality({"stack"} \X (1..n)) = n
                      /\ IsFiniteSet({"page"} \X (1..n)) /\ Cardinality({"page"} \X (1..n)) = n
    BY Numbered
  <2>2. /\ f[a] = {"stack"} \X (1..kstack[q]) /\ f[b] = {"page"} \X (1..mem[p])
        /\ g[a] = {"stack"} \X (1..kstack'[q]) /\ g[b] = {"page"} \X (1..mem'[p])
    BY Parts, PartsNext
  <2> HIDE DEF f, g, a, b
  <2> QED
    BY <1>1, <2>1, <2>2, Zenon
<1>3. /\ IsFiniteSet(f[c]) /\ Cardinality(f[c]) = PagesOf(pgdir[r]) /\ PagesOf(pgdir[r]) \in Nat
      /\ IsFiniteSet(g[c]) /\ Cardinality(g[c]) = PagesOf(pgdir'[r]) /\ PagesOf(pgdir'[r]) \in Nat
      /\ IsFiniteSet(f[d]) /\ Cardinality(f[d]) = PagesOf(new[p]) /\ PagesOf(new[p]) \in Nat
      /\ IsFiniteSet(g[d]) /\ Cardinality(g[d]) = PagesOf(new'[p]) /\ PagesOf(new'[p]) \in Nat
  <2>1. f[c] = PagesIn(pgdir[r]) /\ f[d] = PagesIn(new[p])
    BY Parts
  <2>2. g[c] = PagesIn(pgdir'[r]) /\ g[d] = PagesIn(new'[p])
    BY PartsNext
  <2> QED
    BY <1>1, <2>1, <2>2, SpaceCount
<1>4. /\ DOMAIN f = Dom /\ DOMAIN g = Dom
      /\ a \in Dom /\ b \in Dom /\ c \in Dom /\ d \in Dom
      /\ a # b /\ a # c /\ a # d /\ b # c /\ b # d /\ c # d
  BY Parts, PartsNext
<1>5. \A y \in Dom : y \notin {a, b, c, d} => g[y] = f[y]
  <2> SUFFICES ASSUME NEW y \in Dom, y \notin {a, b, c, d}
               PROVE  g[y] = f[y]
    OBVIOUS
  <2>1. PICK x \in Proc, k \in {"kstack", "mem", "pgdir", "new"} : y = <<x, k>>
    <3> HIDE DEF f, g, a, b, c, d
    <3> QED
      BY DEF Dom
  <2>2. CASE k = "kstack"
    <3>1. x # q /\ y = <<x, "kstack">>
      <4>1. y # <<q, "kstack">>
        OBVIOUS
      <4> QED
        BY <2>1, <2>2, <4>1
    <3>2. g[y] = {"stack"} \X (1..kstack'[x]) /\ f[y] = {"stack"} \X (1..kstack[x])
      BY <3>1, Parts, PartsNext
    <3>3. kstack'[x] = kstack[x]
      BY <3>1
    <3> QED
      BY <3>2, <3>3
  <2>3. CASE k = "mem"
    <3>1. x # p /\ y = <<x, "mem">>
      <4>1. y # <<p, "mem">>
        OBVIOUS
      <4> QED
        BY <2>1, <2>3, <4>1
    <3>2. g[y] = {"page"} \X (1..mem'[x]) /\ f[y] = {"page"} \X (1..mem[x])
      BY <3>1, Parts, PartsNext
    <3>3. mem'[x] = mem[x]
      BY <3>1
    <3> QED
      BY <3>2, <3>3
  <2>4. CASE k = "pgdir"
    <3>1. x # r /\ y = <<x, "pgdir">>
      <4>1. y # <<r, "pgdir">>
        OBVIOUS
      <4> QED
        BY <2>1, <2>4, <4>1
    <3>2. g[y] = PagesIn(pgdir'[x]) /\ f[y] = PagesIn(pgdir[x])
      BY <3>1, Parts, PartsNext
    <3>3. pgdir'[x] = pgdir[x]
      BY <3>1
    <3> QED
      BY <3>2, <3>3
  <2>5. CASE k = "new"
    <3>1. x # p /\ y = <<x, "new">>
      <4>1. y # <<p, "new">>
        OBVIOUS
      <4> QED
        BY <2>1, <2>5, <4>1
    <3>2. g[y] = PagesIn(new'[x]) /\ f[y] = PagesIn(new[x])
      BY <3>1, Parts, PartsNext
    <3>3. new'[x] = new[x]
      BY <3>1
    <3> QED
      BY <3>2, <3>3
  <2> QED
    BY <2>2, <2>3, <2>4, <2>5
<1> HIDE DEF f, g, a, b, c, d, Dom
<1>6. /\ DOMAIN f1 = Dom /\ f1[a] = g[a] /\ \A y \in Dom : y # a => f1[y] = f[y]
      /\ DOMAIN f2 = Dom /\ f2[b] = g[b] /\ \A y \in Dom : y # b => f2[y] = f1[y]
      /\ DOMAIN f3 = Dom /\ f3[c] = g[c] /\ \A y \in Dom : y # c => f3[y] = f2[y]
      /\ DOMAIN f4 = Dom /\ f4[d] = g[d] /\ \A y \in Dom : y # d => f4[y] = f3[y]
  BY <1>4
<1>7. g = f4
  <2>1. \A y \in Dom : g[y] = f4[y]
    BY <1>4, <1>5, <1>6
  <2>2. g = [y \in Dom |-> g[y]] /\ f4 = [y \in Dom |-> f4[y]]
    <3>1. f4 = [y \in Dom |-> f4[y]]
      <4>1. f = [y \in Dom |-> f[y]]
        BY DEF f, Pointers, Dom
      <4>2. f1 = [y \in Dom |-> f1[y]]
        BY ONLY <4>1 DEF f1
      <4>3. f2 = [y \in Dom |-> f2[y]]
        BY ONLY <4>2 DEF f2
      <4>4. f3 = [y \in Dom |-> f3[y]]
        BY ONLY <4>3 DEF f3
      <4> QED
        BY ONLY <4>4 DEF f4
    <3>2. g = [y \in Dom |-> g[y]]
      BY DEF g, Pointers, Dom
    <3> QED
      BY <3>1, <3>2
  <2> QED
    BY <2>1, <2>2
<1> HIDE DEF f1, f2, f3, f4
<1>8. f1[b] = f[b] /\ f2[c] = f[c] /\ f3[d] = f[d]
  BY <1>4, <1>6
<1>9. IsFiniteSet(DisjointUnion(f)) /\ Cardinality(DisjointUnion(f)) \in Nat
  BY FS_CardinalityType DEF Balanced, f
<1>10. /\ IsFiniteSet(DisjointUnion(f1))
       /\ Cardinality(DisjointUnion(f1)) = Cardinality(DisjointUnion(f)) - kstack[q] + kstack'[q]
  BY <1>2, <1>4, <1>6, <1>9, Exchange
<1>11. /\ IsFiniteSet(DisjointUnion(f2))
       /\ Cardinality(DisjointUnion(f2)) = Cardinality(DisjointUnion(f1)) - mem[p] + mem'[p]
  BY <1>2, <1>4, <1>6, <1>8, <1>10, Exchange
<1>12. /\ IsFiniteSet(DisjointUnion(f3))
       /\ Cardinality(DisjointUnion(f3))
            = Cardinality(DisjointUnion(f2)) - PagesOf(pgdir[r]) + PagesOf(pgdir'[r])
  BY <1>3, <1>4, <1>6, <1>8, <1>11, Exchange
<1>13. /\ IsFiniteSet(DisjointUnion(f4))
       /\ Cardinality(DisjointUnion(f4))
            = Cardinality(DisjointUnion(f3)) - PagesOf(new[p]) + PagesOf(new'[p])
  BY <1>3, <1>4, <1>6, <1>8, <1>12, Exchange
<1>14. free + Cardinality(DisjointUnion(f)) = NPAGE
  BY DEF Balanced, f
<1>15. free' + Cardinality(DisjointUnion(f4)) = NPAGE
  <2> DEFINE n0 == Cardinality(DisjointUnion(f))
             n4 == Cardinality(DisjointUnion(f4))
  <2>1. n0 \in Nat /\ n4 = n0 - kstack[q] + kstack'[q] - mem[p] + mem'[p] - PagesOf(pgdir[r])
                              + PagesOf(pgdir'[r]) - PagesOf(new[p]) + PagesOf(new'[p])
    <3> DEFINE n1 == Cardinality(DisjointUnion(f1))
               n2 == Cardinality(DisjointUnion(f2))
               n3 == Cardinality(DisjointUnion(f3))
    <3>1. n0 \in Nat /\ n1 = n0 - kstack[q] + kstack'[q] /\ n2 = n1 - mem[p] + mem'[p]
      BY <1>9, <1>10, <1>11
    <3>2. n3 = n2 - PagesOf(pgdir[r]) + PagesOf(pgdir'[r])
      BY <1>12
    <3>3. n4 = n3 - PagesOf(new[p]) + PagesOf(new'[p])
      BY <1>13
    <3> HIDE DEF n0, n1, n2, n3, n4
    <3> QED
      BY <1>1, <1>3, <3>1, <3>2, <3>3
  <2> HIDE DEF n0, n4
  <2>2. free + n0 = NPAGE
    BY <1>14 DEF n0
  <2>3. free' + n4 = NPAGE
    <3> DEFINE A == PagesOf(new[p])
               B == PagesOf(new'[p])
               C == PagesOf(pgdir[r])
               D == PagesOf(pgdir'[r])
               K == kstack[q]
               L == kstack'[q]
               M == mem[p]
               N == mem'[p]
               F == free
               G == free'
    <3>1. /\ A \in Nat /\ B \in Nat /\ C \in Nat /\ D \in Nat /\ K \in Nat /\ L \in Nat
          /\ M \in Nat /\ N \in Nat /\ F \in Nat /\ G \in Nat /\ n0 \in Nat
      BY <1>1, <1>3, <2>1
    <3>2. n4 = n0 - K + L - M + N - C + D - A + B
      BY <2>1
    <3>3. G + L + N + B + D = F + K + M + A + C
      OBVIOUS
    <3>4. F + n0 = NPAGE
      BY <2>2
    <3> HIDE DEF A, B, C, D, K, L, M, N, F, G
    <3>5. G + n4 = NPAGE
      BY <3>1, <3>2, <3>3, <3>4
    <3> QED
      BY <3>5 DEF G
  <2> QED
    BY <2>3 DEF n4
<1> QED
  BY <1>7, <1>13, <1>15 DEF Balanced, g, DisjointUnion

-----------------------------------------------------------------------------
(* Steps *)

\* A process that a step leaves alone, or stops.
LEMMA Untouched ==
  ASSUME Memories, NEW x \in Proc,
         job'[x] = job[x] /\ pc'[x] = pc[x] /\ new'[x] = new[x] /\ sz'[x] = sz[x],
         state'[x] = "RUNNABLE" =>
           state[x] = "RUNNABLE" /\ kstack'[x] = kstack[x] /\ pgdir'[x] = pgdir[x]
  PROVE  Progress(x)' /\ Built(x)' /\ Ready(x)'
<1>1. Progress(x) /\ Built(x) /\ Ready(x)
  BY DEF Memories
<1>2. Progress(x)'
  BY <1>1 DEF Progress, Newsz, PGROUNDUP
<1>3. Built(x)'
  BY <1>1 DEF Built, Complete, PDX
<1>4. Ready(x)'
  BY <1>1 DEF Ready, Complete, PDX, PGROUNDUP
<1> QED
  BY <1>2, <1>3, <1>4

\* A process that is in no call, and one whose call is over.
Idle(x) == pc[x] \in {"user", "fault"} /\ job[x].call = "none" /\ new[x] = NoSpace

\* Such a process has nothing to show for a call.
LEMMA IdleProgress == \A x \in Proc : Idle(x)' => Progress(x)' /\ Built(x)'
<1> TAKE x \in Proc
<1> SUFFICES ASSUME Idle(x)' PROVE Progress(x)' /\ Built(x)'
  OBVIOUS
<1>1. pc'[x] \in {"user", "fault"} /\ job'[x].call = "none" /\ new'[x] = NoSpace
  BY DEF Idle, NoSpace
<1>2. Progress(x)'
  BY <1>1 DEF Progress
<1>3. Built(x)'
  BY <1>1 DEF Built, NoSpace
<1> QED
  BY <1>2, <1>3

\* Nothing changes hands.
LEMMA NothingMoves ==
  ASSUME Balanced, UNCHANGED <<free, kstack, pgdir, new, mem>>
  PROVE  Balanced'
<1>1. Pointers' = Pointers
  BY DEF Pointers, PagesIn
<1> QED
  BY <1>1 DEF Balanced, DisjointUnion

\* A slot that is not running is in no call.
LEMMA Resting ==
  ASSUME Inv, NEW x \in Proc, state[x] # "RUNNABLE"
  PROVE  pc[x] = "user" /\ job[x].call = "none" /\ job[x].np = 0 /\ new[x] = NoSpace
<1>1. pc[x] = "user" /\ job[x].call = "none"
  BY DEF Inv, Calling
<1> QED
  BY <1>1 DEF Inv, Children, Memories, Built

\* Only an embryo is the child of a fork.
LEMMA NotChild ==
  ASSUME Inv, NEW q \in Proc, state[q] # "EMBRYO"
  PROVE  \A x \in Proc : job[x].np # q
<1> SUFFICES ASSUME NEW x \in Proc, job[x].np = q PROVE FALSE
  OBVIOUS
<1>1. q # 0
  BY Constants
<1> QED
  BY <1>1 DEF Inv, Children

\* fork takes a slot that no other fork has.
LEMMA ForkPreserves ==
  ASSUME Inv, NEW p \in Proc, Fork(p)
  PROVE  Inv'
<1> DEFINE q == Min(Unused)
<1>1. q \in Proc /\ state[q] = "UNUSED"
  <2>1. Unused \subseteq Nat /\ Unused # {}
    BY Constants DEF Unused, Fork
  <2>2. \E x \in Unused : \A y \in Unused : x <= y
    BY <2>1, NatMin
  <2>3. q \in Unused
    BY <2>2 DEF Min
  <2> QED
    BY <2>3 DEF Unused
<1> DEFINE j == [call |-> "fork", np |-> q, at |-> 1, to |-> sz[p], seg |-> 0]
<1>2. /\ state[p] = "RUNNABLE" /\ pc[p] = "user" /\ pc' = [pc EXCEPT ![p] = "kstack"]
      /\ state' = [state EXCEPT ![q] = "EMBRYO"] /\ job' = [job EXCEPT ![p] = j]
      /\ UNCHANGED <<free, kstack, pgdir, sz, new, mem>>
  BY DEF Fork, Go
<1> HIDE DEF q
<1>3. pc[q] = "user" /\ job[q].call = "none" /\ job[q].np = 0 /\ new[q] = NoSpace /\ q # p
  BY <1>1, <1>2, Resting
<1>4. \A x \in Proc : job[x].np # q
  BY <1>1, NotChild
<1>5. sz[p] \in Nat
  BY Constants DEF Inv, Types
<1>6. Types'
  <2>1. j \in [call : {"none", "fork", "exec", "sbrk"}, np : 0..NPROC,
               at : Nat, to : Nat, seg : Nat]
    BY <1>1, <1>5, Constants
  <2> HIDE DEF j
  <2> QED
    BY <1>1, <1>2, <2>1 DEF Inv, Types, Space
<1>7. /\ job'[p] = j /\ pc'[p] = "kstack" /\ state'[q] = "EMBRYO"
      /\ \A x \in Proc : x # p => job'[x] = job[x] /\ pc'[x] = pc[x]
      /\ \A x \in Proc : x # q => state'[x] = state[x]
  BY <1>1, <1>2 DEF Inv, Types
<1>8. Calling'
  BY <1>2, <1>3, <1>7 DEF Inv, Calling
<1>9. Children'
  <2> USE DEF Inv, Children
  <2>1. ASSUME NEW x \in Proc, job'[x].call = "fork"
        PROVE  /\ job'[x].np \in Proc /\ state'[job'[x].np] = "EMBRYO"
               /\ kstack'[job'[x].np] = IF pc'[x] = "kstack" THEN 0 ELSE 1
    <3>1. CASE x = p
      BY <1>1, <1>2, <1>7, <3>1
    <3>2. CASE x # p
      BY <1>2, <1>4, <1>7, <2>1, <3>2
    <3> QED
      BY <3>1, <3>2
  <2>2. \A x \in Proc : job'[x].call # "fork" => job'[x].np = 0
    BY <1>7
  <2>3. \A x, y \in Proc : job'[x].np = job'[y].np /\ job'[x].np # 0 => x = y
    BY <1>4, <1>7
  <2>4. ASSUME NEW x \in Proc, state'[x] = "EMBRYO" PROVE \E y \in Proc : job'[y].np = x
    <3>1. CASE x = q
      BY <1>7, <3>1
    <3>2. CASE x # q
      <4>1. PICK y \in Proc : job[y].np = x
        BY <1>7, <2>4, <3>2
      <4>2. y # p
        BY <1>2, <1>7, <4>1, Constants DEF Calling
      <4> QED
        BY <1>7, <4>1, <4>2
    <3> QED
      BY <3>1, <3>2
  <2>5. /\ \A x \in Proc : state'[x] \in {"UNUSED", "EMBRYO"} => pgdir'[x] = NoSpace
        /\ \A x \in Proc : state'[x] = "UNUSED" => kstack'[x] = 0
    BY <1>1, <1>2, <1>7
  <2> QED
    BY <2>1, <2>2, <2>3, <2>4, <2>5 DEF NoSpace
<1>10. Memories'
  <2> SUFFICES ASSUME NEW x \in Proc PROVE Progress(x)' /\ Built(x)' /\ Ready(x)'
    BY DEF Memories
  <2>1. CASE x # p
    BY <1>2, <1>7, <2>1, Untouched DEF Inv
  <2>2. CASE x = p
    <3>1. Ready(p) /\ Built(p) /\ job[p].call = "none"
      BY <1>2 DEF Inv, Memories, Calling
    <3>2. Progress(p)'
      <4>1. PGROUNDUP(sz[p]) \in Nat
        BY <1>5, RoundUpNat
      <4> QED
        BY <1>2, <1>7, <4>1 DEF Progress
    <3>3. Built(p)' /\ Ready(p)'
      BY <1>2, <1>3, <1>7, <3>1 DEF Built, Ready, Complete
    <3> QED
      BY <2>2, <3>2, <3>3
  <2> QED
    BY <2>1, <2>2
<1>11. Balanced'
  BY <1>2, NothingMoves DEF Inv
<1> QED
  BY <1>6, <1>8, <1>9, <1>10, <1>11 DEF Inv

\* A step that touches no child of a fork.
LEMMA SameChildren ==
  ASSUME Children, kstack' = kstack,
         \A x \in Proc :
           /\ job'[x].np = job[x].np
           /\ job'[x].call = "fork" <=> job[x].call = "fork"
           /\ job[x].call = "fork" => (pc'[x] = "kstack" <=> pc[x] = "kstack"),
         \A x \in Proc : state[x] \in {"UNUSED", "EMBRYO"} \/ state'[x] \in {"UNUSED", "EMBRYO"}
           => state'[x] = state[x] /\ pgdir'[x] = pgdir[x]
  PROVE  Children'
<1> USE DEF Children
<1>1. ASSUME NEW x \in Proc, job'[x].call = "fork"
      PROVE  /\ job'[x].np \in Proc /\ state'[job'[x].np] = "EMBRYO"
             /\ kstack'[job'[x].np] = IF pc'[x] = "kstack" THEN 0 ELSE 1
  BY <1>1
<1>2. \A x \in Proc : job'[x].call # "fork" => job'[x].np = 0
  OBVIOUS
<1>3. \A x, y \in Proc : job'[x].np = job'[y].np /\ job'[x].np # 0 => x = y
  OBVIOUS
<1>4. ASSUME NEW x \in Proc, state'[x] = "EMBRYO" PROVE \E y \in Proc : job'[y].np = x
  <2>1. state[x] = "EMBRYO"
    BY <1>4
  <2> QED
    BY <2>1
<1>5. /\ \A x \in Proc : state'[x] \in {"UNUSED", "EMBRYO"} => pgdir'[x] = NoSpace
      /\ \A x \in Proc : state'[x] = "UNUSED" => kstack'[x] = 0
  OBVIOUS
<1> QED
  BY <1>1, <1>2, <1>3, <1>4, <1>5 DEF NoSpace

\* The types of what belongs to one process.
LEMMA TypesAt ==
  ASSUME Inv, NEW p \in Proc
  PROVE  /\ sz[p] \in Nat /\ sz[p] < KERNBASE
         /\ job[p].at \in Nat /\ job[p].to \in Nat /\ job[p].seg \in Nat
         /\ pgdir[p] \in Space /\ new[p] \in Space /\ kstack[p] \in Nat
         /\ mem[p] = IF pc[p] = "map" THEN 1 ELSE 0
         /\ PGROUNDUP(sz[p]) \in Nat
         /\ PGROUNDUP(job[p].to) \in Nat /\ PGROUNDUP(job[p].seg) \in Nat
<1>1. sz[p] \in 0..(KERNBASE - 1) /\ kstack[p] \in 0..1
  BY DEF Inv, Types
<1>2. /\ job[p].at \in Nat /\ job[p].to \in Nat /\ job[p].seg \in Nat
      /\ mem[p] = IF pc[p] = "map" THEN 1 ELSE 0
  BY DEF Inv, Types
<1>3. pgdir[p] \in Space /\ new[p] \in Space
  BY DEF Inv, Types, Space
<1>4. sz[p] \in Nat /\ sz[p] < KERNBASE /\ kstack[p] \in Nat
  BY <1>1, Constants
<1> QED
  BY <1>2, <1>3, <1>4, RoundUpNat

\* exec asks for its segments and two pages more.
LEMMA ExecPreserves ==
  ASSUME Inv, NEW p \in Proc, NEW n \in ExecSizes, Exec(p, n)
  PROVE  Inv'
<1> DEFINE j == [call |-> "exec", np |-> 0, at |-> 1,
                 to |-> (PGROUNDUP(n) + 2) * PGSIZE, seg |-> n]
<1>1. /\ state[p] = "RUNNABLE" /\ pc[p] = "user" /\ pc' = [pc EXCEPT ![p] = "pgdir"]
      /\ job' = [job EXCEPT ![p] = j]
      /\ UNCHANGED <<free, state, kstack, pgdir, sz, new, mem>>
  BY DEF Exec, Go
<1>2. n \in Nat /\ PGROUNDUP(n) \in Nat /\ PGROUNDUP(n) + 2 \in Nat
  BY MemoryAssumption, RoundUpNat
<1>3. j.to \in Nat /\ PGROUNDUP(j.to) = PGROUNDUP(n) + 2
  <2> DEFINE k == PGROUNDUP(n) + 2
  <2>1. k \in Nat /\ j.to = k * PGSIZE
    BY <1>2
  <2> HIDE DEF k, j
  <2>2. k * PGSIZE \in Nat /\ PGROUNDUP(k * PGSIZE) = k
    BY <2>1, RoundUpPages, Constants
  <2> QED
    BY <2>1, <2>2 DEF k
<1>4. Types'
  <2>1. j \in [call : {"none", "fork", "exec", "sbrk"}, np : 0..NPROC,
               at : Nat, to : Nat, seg : Nat]
    BY <1>2, <1>3, Constants
  <2> HIDE DEF j
  <2> QED
    BY <1>1, <2>1 DEF Inv, Types, Space
<1>5. /\ job'[p] = j /\ pc'[p] = "pgdir"
      /\ \A x \in Proc : x # p => job'[x] = job[x] /\ pc'[x] = pc[x]
  BY <1>1 DEF Inv, Types
<1>6. job[p].call = "none" /\ job[p].np = 0
  BY <1>1 DEF Inv, Calling, Children
<1>7. j.call = "exec" /\ j.np = 0 /\ j.at = 1 /\ j.seg = n
  OBVIOUS
<1> HIDE DEF j
<1>8. Calling'
  BY <1>1, <1>5, <1>7 DEF Inv, Calling
<1>9. Children'
  BY <1>1, <1>5, <1>6, <1>7, SameChildren DEF Inv
<1>10. Memories'
  <2> SUFFICES ASSUME NEW x \in Proc PROVE Progress(x)' /\ Built(x)' /\ Ready(x)'
    BY DEF Memories
  <2>1. CASE x # p
    BY <1>1, <1>5, <2>1, Untouched DEF Inv
  <2>2. CASE x = p
    <3>1. Ready(p) /\ Built(p)
      BY DEF Inv, Memories
    <3>2. Progress(p)'
      BY <1>2, <1>3, <1>5, <1>7 DEF Progress
    <3>3. Built(p)' /\ Ready(p)'
      BY <1>1, <1>5, <1>6, <1>7, <3>1 DEF Built, Ready, Complete
    <3> QED
      BY <2>2, <3>2, <3>3
  <2> QED
    BY <2>1, <2>2
<1>11. Balanced'
  BY <1>1, NothingMoves DEF Inv
<1> QED
  BY <1>4, <1>8, <1>9, <1>10, <1>11 DEF Inv

\* sbrk starts at the boundary above the process's pages.
LEMMA GrowPreserves ==
  ASSUME Inv, NEW p \in Proc, NEW n \in Sbrks, Grow(p, n)
  PROVE  Inv'
<1> DEFINE j == [call |-> "sbrk", np |-> 0, at |-> PGROUNDUP(sz[p]) + 1,
                 to |-> sz[p] + n, seg |-> 0]
<1>1. /\ state[p] = "RUNNABLE" /\ pc[p] = "user" /\ pc' = [pc EXCEPT ![p] = "page"]
      /\ job' = [job EXCEPT ![p] = j]
      /\ UNCHANGED <<free, state, kstack, pgdir, sz, new, mem>>
  BY DEF Grow, Go
<1>2. n \in Nat /\ sz[p] \in Nat /\ PGROUNDUP(sz[p]) \in Nat /\ PGROUNDUP(sz[p] + n) \in Nat
  BY MemoryAssumption, RoundUpNat, TypesAt
<1>3. sz[p] + n \in Nat /\ PGROUNDUP(sz[p]) <= PGROUNDUP(sz[p] + n)
  BY <1>2, RoundUpMono
<1>4. Types'
  <2>1. j \in [call : {"none", "fork", "exec", "sbrk"}, np : 0..NPROC,
               at : Nat, to : Nat, seg : Nat]
    BY <1>2, <1>3, Constants
  <2> HIDE DEF j
  <2> QED
    BY <1>1, <2>1 DEF Inv, Types, Space
<1>5. /\ job'[p] = j /\ pc'[p] = "page"
      /\ \A x \in Proc : x # p => job'[x] = job[x] /\ pc'[x] = pc[x]
  BY <1>1 DEF Inv, Types
<1>6. job[p].call = "none" /\ job[p].np = 0
  BY <1>1 DEF Inv, Calling, Children
<1>7. j.call = "sbrk" /\ j.np = 0 /\ j.at = PGROUNDUP(sz[p]) + 1 /\ j.to = sz[p] + n
  OBVIOUS
<1> HIDE DEF j
<1>8. Calling'
  BY <1>1, <1>5, <1>7 DEF Inv, Calling
<1>9. Children'
  BY <1>1, <1>5, <1>6, <1>7, SameChildren DEF Inv
<1>10. Memories'
  <2> SUFFICES ASSUME NEW x \in Proc PROVE Progress(x)' /\ Built(x)' /\ Ready(x)'
    BY DEF Memories
  <2>1. CASE x # p
    BY <1>1, <1>5, <2>1, Untouched DEF Inv
  <2>2. CASE x = p
    <3>1. Ready(p) /\ Built(p)
      BY DEF Inv, Memories
    <3>2. Progress(p)'
      BY <1>1, <1>2, <1>3, <1>5, <1>7 DEF Progress
    <3>3. Built(p)'
      BY <1>1, <1>5, <1>6, <1>7, <3>1 DEF Built
    <3>4. Ready(p)'
      <4>1. j.at - 1 = PGROUNDUP(sz[p])
        BY <1>2, <1>7
      <4> QED
        BY <1>1, <1>5, <1>6, <1>7, <3>1, <4>1 DEF Ready, Complete
    <3> QED
      BY <2>2, <3>2, <3>3, <3>4
  <2> QED
    BY <2>1, <2>2
<1>11. Balanced'
  BY <1>1, NothingMoves DEF Inv
<1> QED
  BY <1>4, <1>8, <1>9, <1>10, <1>11 DEF Inv

\* The steps that take a page: the child's kernel stack.
LEMMA AllocStackPreserves ==
  ASSUME Inv, NEW p \in Proc, AllocStack(p)
  PROVE  Inv'
<1> DEFINE q == job[p].np
<1>1. /\ pc[p] = "kstack" /\ pc' = [pc EXCEPT ![p] = "pgdir"]
      /\ free > 0 /\ free' = free - 1 /\ kstack' = [kstack EXCEPT ![q] = 1]
      /\ UNCHANGED <<state, pgdir, sz, job, new, mem>>
  BY DEF AllocStack, Go, kalloc
<1>2. job[p].call = "fork" /\ state[p] = "RUNNABLE"
  BY <1>1 DEF Inv, Calling
<1>3. q \in Proc /\ state[q] = "EMBRYO" /\ kstack[q] = 0 /\ q # p
  BY <1>1, <1>2 DEF Inv, Children
<1>4. \A x \in Proc : x # p /\ job[x].call = "fork" => job[x].np # q
  BY <1>3, Constants DEF Inv, Children
<1> HIDE DEF q
<1>5. Types'
  BY <1>1, <1>3 DEF Inv, Types, Space
<1>6. /\ pc'[p] = "pgdir" /\ \A x \in Proc : x # p => pc'[x] = pc[x]
      /\ kstack'[q] = 1 /\ \A x \in Proc : x # q => kstack'[x] = kstack[x]
  BY <1>1, <1>3 DEF Inv, Types
<1>7. Calling'
  BY <1>1, <1>2, <1>6 DEF Inv, Calling
<1>8. Children'
  BY <1>1, <1>2, <1>3, <1>4, <1>6 DEF Inv, Children, NoSpace, q
<1>9. Memories'
  <2> SUFFICES ASSUME NEW x \in Proc PROVE Progress(x)' /\ Built(x)' /\ Ready(x)'
    BY DEF Memories
  <2>1. CASE x # p
    BY <1>1, <1>3, <1>6, <2>1, Untouched DEF Inv
  <2>2. CASE x = p
    <3>1. Ready(p) /\ Built(p) /\ Progress(p)
      BY DEF Inv, Memories
    <3>2. Progress(p)'
      BY <1>1, <1>2, <1>6, <3>1 DEF Progress
    <3>3. Built(p)' /\ Ready(p)'
      BY <1>1, <1>2, <1>3, <1>6, <3>1 DEF Built, Ready, Complete
    <3> QED
      BY <2>2, <3>2, <3>3
  <2> QED
    BY <2>1, <2>2
<1>10. Balanced'
  <2>1. free \in Nat
    BY DEF Inv, Types
  <2>2. /\ pgdir[p] \in Space /\ new[p] \in Space /\ mem[p] \in Nat
    BY TypesAt
  <2>3. /\ PagesOf(new[p]) \in Nat /\ PagesOf(pgdir[p]) \in Nat
        /\ PagesOf(new'[p]) = PagesOf(new[p]) /\ PagesOf(pgdir'[p]) = PagesOf(pgdir[p])
        /\ mem'[p] = mem[p]
    BY <1>1, <2>2, SpaceCount DEF PagesOf
  <2>4. free' + kstack'[q] + mem'[p] + PagesOf(new'[p]) + PagesOf(pgdir'[p])
           = free + kstack[q] + mem[p] + PagesOf(new[p]) + PagesOf(pgdir[p])
    BY <1>1, <1>3, <1>6, <2>1, <2>2, <2>3
  <2> QED
    BY <1>1, <1>3, <1>5, <1>6, <2>4, Balance DEF Inv
<1> QED
  BY <1>5, <1>7, <1>8, <1>9, <1>10 DEF Inv

\* The directory of the new space.
LEMMA AllocDirPreserves ==
  ASSUME Inv, NEW p \in Proc, AllocDir(p)
  PROVE  Inv'
<1>1. /\ pc[p] = "pgdir" /\ pc' = [pc EXCEPT ![p] = "ktab"]
      /\ free > 0 /\ free' = free - 1 /\ new' = [new EXCEPT ![p].dir = 1]
      /\ UNCHANGED <<state, kstack, pgdir, sz, job, mem>>
  BY DEF AllocDir, Go, kalloc
<1>2. /\ job[p].call \in {"fork", "exec"} /\ state[p] = "RUNNABLE" /\ new[p] = NoSpace
      /\ job[p].at = 1
  BY <1>1 DEF Inv, Calling, Memories, Built, Progress
<1> DEFINE s == [NoSpace EXCEPT !.dir = 1]
<1>3. new' = [new EXCEPT ![p] = s]
  BY <1>1, <1>2
<1>4. s \in Space /\ PagesOf(s) = 1 /\ s.dir = 1 /\ s.ktab = 0 /\ s.utab = {} /\ s.user = {}
  BY WithDir DEF NoSpace
<1> HIDE DEF s
<1>5. Types'
  BY <1>1, <1>3, <1>4 DEF Inv, Types
<1>6. /\ pc'[p] = "ktab" /\ \A x \in Proc : x # p => pc'[x] = pc[x]
      /\ new'[p] = s /\ \A x \in Proc : x # p => new'[x] = new[x]
  BY <1>1, <1>3 DEF Inv, Types
<1>7. Calling'
  BY <1>1, <1>2, <1>6 DEF Inv, Calling
<1>8. Children'
  BY <1>1, <1>6, SameChildren DEF Inv
<1>9. Memories'
  <2> SUFFICES ASSUME NEW x \in Proc PROVE Progress(x)' /\ Built(x)' /\ Ready(x)'
    BY DEF Memories
  <2>1. CASE x # p
    BY <1>1, <1>6, <2>1, Untouched DEF Inv
  <2>2. CASE x = p
    <3>1. Ready(p) /\ Built(p) /\ Progress(p)
      BY DEF Inv, Memories
    <3>2. Progress(p)'
      BY <1>1, <1>2, <1>6, <3>1 DEF Progress
    <3>3. Built(p)'
      BY <1>1, <1>2, <1>4, <1>6, Constants DEF Built
    <3>4. Ready(p)'
      BY <1>1, <1>6, <3>1 DEF Ready, Complete
    <3> QED
      BY <2>2, <3>2, <3>3, <3>4
  <2> QED
    BY <2>1, <2>2
<1>10. Balanced'
  <2>1. free \in Nat
    BY DEF Inv, Types
  <2>2. /\ pgdir[p] \in Space /\ mem[p] \in Nat /\ kstack[p] \in Nat
    BY TypesAt
  <2>3. /\ PagesOf(new[p]) = 0 /\ PagesOf(pgdir[p]) \in Nat
        /\ PagesOf(new'[p]) = 1 /\ PagesOf(pgdir'[p]) = PagesOf(pgdir[p])
        /\ mem'[p] = mem[p] /\ kstack'[p] = kstack[p]
    BY <1>1, <1>2, <1>4, <1>6, <2>2, SpaceCount, NoSpaceCount DEF PagesOf
  <2>4. free' + kstack'[p] + mem'[p] + PagesOf(new'[p]) + PagesOf(pgdir'[p])
           = free + kstack[p] + mem[p] + PagesOf(new[p]) + PagesOf(pgdir[p])
    BY <1>1, <2>1, <2>2, <2>3
  <2> QED
    BY <1>1, <1>5, <1>6, <2>4, Balance DEF Inv
<1> QED
  BY <1>5, <1>7, <1>8, <1>9, <1>10 DEF Inv

\* A table of the kernel's mappings; after the last of them the space is complete.
LEMMA AllocKtabPreserves ==
  ASSUME Inv, NEW p \in Proc, AllocKtab(p)
  PROVE  Inv'
<1> DEFINE l == IF new[p].ktab + 1 = NKTAB THEN "page" ELSE "ktab"
           s == [new[p] EXCEPT !.ktab = @ + 1]
<1>1. /\ pc[p] = "ktab" /\ pc' = [pc EXCEPT ![p] = l]
      /\ free > 0 /\ free' = free - 1 /\ new' = [new EXCEPT ![p] = s]
      /\ UNCHANGED <<state, kstack, pgdir, sz, job, mem>>
  BY DEF AllocKtab, Go, kalloc
<1>2. /\ job[p].call \in {"fork", "exec"} /\ state[p] = "RUNNABLE"
      /\ job[p].at = 1 /\ new[p].dir = 1 /\ new[p].ktab < NKTAB
      /\ new[p].utab = {} /\ new[p].user = {}
  BY <1>1 DEF Inv, Calling, Memories, Built, Progress
<1>3. new[p] \in Space /\ new[p].ktab \in Nat
  BY TypesAt, SpaceFinite
<1>4. /\ s \in Space /\ PagesOf(s) = PagesOf(new[p]) + 1
      /\ s.dir = 1 /\ s.ktab = new[p].ktab + 1 /\ s.utab = {} /\ s.user = {}
  <2>1. s \in Space /\ PagesOf(s) = PagesOf(new[p]) + 1
    BY <1>2, <1>3, WithKtab
  <2>2. s.dir = 1 /\ s.ktab = new[p].ktab + 1 /\ s.utab = {} /\ s.user = {}
    BY <1>2, <1>3 DEF Space
  <2> QED
    BY <2>1, <2>2
<1>5. l \in {"page", "ktab"} /\ (l = "page" => s.ktab = NKTAB) /\ (l = "ktab" => s.ktab < NKTAB)
  BY <1>2, <1>3, <1>4, Constants
<1> HIDE DEF s, l
<1>6. Types'
  BY <1>1, <1>4, <1>5 DEF Inv, Types
<1>7. /\ pc'[p] = l /\ \A x \in Proc : x # p => pc'[x] = pc[x]
      /\ new'[p] = s /\ \A x \in Proc : x # p => new'[x] = new[x]
  BY <1>1 DEF Inv, Types
<1>8. Calling'
  BY <1>1, <1>2, <1>5, <1>7 DEF Inv, Calling
<1>9. Children'
  BY <1>1, <1>5, <1>7, SameChildren DEF Inv
<1>10. Memories'
  <2> SUFFICES ASSUME NEW x \in Proc PROVE Progress(x)' /\ Built(x)' /\ Ready(x)'
    BY DEF Memories
  <2>1. CASE x # p
    BY <1>1, <1>7, <2>1, Untouched DEF Inv
  <2>2. CASE x = p
    <3>1. Ready(p) /\ Built(p) /\ Progress(p)
      BY DEF Inv, Memories
    <3>2. Progress(p)'
      BY <1>1, <1>2, <1>5, <1>7, <3>1 DEF Progress
    <3>3. Built(p)'
      <4>1. 1..(1 - 1) = {}
        OBVIOUS
      <4> QED
        BY <1>1, <1>2, <1>4, <1>5, <1>7, <4>1 DEF Built, Complete
    <3>4. Ready(p)'
      BY <1>1, <1>5, <1>7, <3>1 DEF Ready, Complete
    <3> QED
      BY <2>2, <3>2, <3>3, <3>4
  <2> QED
    BY <2>1, <2>2
<1>11. Balanced'
  <2>1. free \in Nat
    BY DEF Inv, Types
  <2>2. /\ pgdir[p] \in Space /\ mem[p] \in Nat /\ kstack[p] \in Nat
    BY TypesAt
  <2>3. /\ PagesOf(new[p]) \in Nat /\ PagesOf(pgdir[p]) \in Nat
        /\ PagesOf(new'[p]) = PagesOf(new[p]) + 1 /\ PagesOf(pgdir'[p]) = PagesOf(pgdir[p])
        /\ mem'[p] = mem[p] /\ kstack'[p] = kstack[p]
    BY <1>1, <1>3, <1>4, <1>7, <2>2, SpaceCount DEF PagesOf
  <2>4. free' + kstack'[p] + mem'[p] + PagesOf(new'[p]) + PagesOf(pgdir'[p])
           = free + kstack[p] + mem[p] + PagesOf(new[p]) + PagesOf(pgdir[p])
    BY <1>1, <2>1, <2>2, <2>3
  <2> QED
    BY <1>1, <1>6, <1>7, <2>4, Balance DEF Inv
<1> QED
  BY <1>6, <1>8, <1>9, <1>10, <1>11 DEF Inv

\* A page that is not mapped yet.
LEMMA AllocPagePreserves ==
  ASSUME Inv, NEW p \in Proc, AllocPage(p)
  PROVE  Inv'
<1>1. /\ pc[p] = "page" /\ pc' = [pc EXCEPT ![p] = "map"]
      /\ job[p].at <= PGROUNDUP(job[p].to) /\ Newsz(p) < KERNBASE
      /\ free > 0 /\ free' = free - 1 /\ mem' = [mem EXCEPT ![p] = 1]
      /\ UNCHANGED <<state, kstack, pgdir, sz, job, new>>
  BY DEF AllocPage, Go, More, kalloc
<1>2. job[p].call # "none" /\ state[p] = "RUNNABLE" /\ mem[p] = 0
  BY <1>1, TypesAt DEF Inv, Calling
<1>3. Types'
  <2>1. mem' = [x \in Proc |-> IF pc'[x] = "map" THEN 1 ELSE 0]
    BY <1>1 DEF Inv, Types
  <2>2. free' \in Nat
    BY <1>1 DEF Inv, Types
  <2>3. pc' \in [Proc -> {"user", "kstack", "pgdir", "ktab", "page", "map", "fault"}]
    BY <1>1 DEF Inv, Types
  <2> QED
    BY <1>1, <2>1, <2>2, <2>3 DEF Inv, Types
<1>4. /\ pc'[p] = "map" /\ \A x \in Proc : x # p => pc'[x] = pc[x]
      /\ mem'[p] = 1 /\ \A x \in Proc : x # p => mem'[x] = mem[x]
  BY <1>1 DEF Inv, Types
<1>5. Calling'
  BY <1>1, <1>2, <1>4 DEF Inv, Calling
<1>6. Children'
  BY <1>1, <1>4, SameChildren DEF Inv
<1>7. Memories'
  <2> SUFFICES ASSUME NEW x \in Proc PROVE Progress(x)' /\ Built(x)' /\ Ready(x)'
    BY DEF Memories
  <2>1. CASE x # p
    BY <1>1, <1>4, <2>1, Untouched DEF Inv
  <2>2. CASE x = p
    <3>1. Ready(p) /\ Built(p) /\ Progress(p)
      BY DEF Inv, Memories
    <3>2. Progress(p)'
      BY <1>1, <1>2, <1>4, <3>1 DEF Progress, Newsz
    <3>3. Built(p)'
      BY <1>1, <1>2, <1>4, <3>1 DEF Built, Complete
    <3>4. Ready(p)'
      BY <1>1, <1>2, <1>4, <3>1 DEF Ready, Complete
    <3> QED
      BY <2>2, <3>2, <3>3, <3>4
  <2> QED
    BY <2>1, <2>2
<1>8. Balanced'
  <2>1. free \in Nat
    BY DEF Inv, Types
  <2>2. /\ pgdir[p] \in Space /\ new[p] \in Space /\ kstack[p] \in Nat
    BY TypesAt
  <2>3. /\ PagesOf(new[p]) \in Nat /\ PagesOf(pgdir[p]) \in Nat
        /\ PagesOf(new'[p]) = PagesOf(new[p]) /\ PagesOf(pgdir'[p]) = PagesOf(pgdir[p])
        /\ kstack'[p] = kstack[p]
    BY <1>1, <2>2, SpaceCount DEF PagesOf
  <2>4. free' + kstack'[p] + mem'[p] + PagesOf(new'[p]) + PagesOf(pgdir'[p])
           = free + kstack[p] + mem[p] + PagesOf(new[p]) + PagesOf(pgdir[p])
    BY <1>1, <1>2, <1>4, <2>1, <2>2, <2>3
  <2> QED
    BY <1>1, <1>3, <1>4, <2>4, Balance DEF Inv
<1> QED
  BY <1>3, <1>5, <1>6, <1>7, <1>8 DEF Inv

\* The page becomes the next one of the space that the call is building.
LEMMA MapPagePreserves ==
  ASSUME Inv, NEW p \in Proc, MapPage(p)
  PROVE  Inv'
<1> DEFINE v == job[p].at
           s == Target(p)
           j == [job[p] EXCEPT !.at = @ + 1]
<1>1. /\ pc[p] = "map" /\ pc' = [pc EXCEPT ![p] = "page"] /\ v \notin s.user
      /\ IF NeedsTable(p) THEN free > 0 /\ free' = free - 1 ELSE free' = free
      /\ Retarget(p, Mapped(s, v))
      /\ mem' = [mem EXCEPT ![p] = 0] /\ job' = [job EXCEPT ![p] = j]
      /\ UNCHANGED <<state, kstack, sz>>
  BY DEF MapPage, Go, kalloc, Mapped
<1>2. job[p].call # "none" /\ state[p] = "RUNNABLE" /\ mem[p] = 1
  BY <1>1, TypesAt DEF Inv, Calling
<1>3. /\ v \in Nat /\ job[p].to \in Nat /\ job[p].seg \in Nat /\ PGROUNDUP(job[p].to) \in Nat
      /\ PGROUNDUP(job[p].seg) \in Nat /\ pgdir[p] \in Space /\ new[p] \in Space
      /\ kstack[p] \in Nat /\ s \in Space
  BY TypesAt DEF Target
<1>4. v \in 1..PGROUNDUP(job[p].to) /\ Newsz(p) < KERNBASE
  BY <1>1, <1>2, <1>3 DEF Inv, Memories, Progress
<1>5. v \in VPage
  <2>1. Newsz(p) \in Nat /\ v <= PGROUNDUP(Newsz(p)) /\ v >= 1
    BY <1>3, <1>4 DEF Newsz
  <2>2. PGROUNDUP(Newsz(p)) <= PGROUNDUP(KERNBASE)
    BY <1>4, <2>1, RoundUpMono, Constants
  <2>3. PGROUNDUP(KERNBASE) \in Nat /\ PGROUNDUP(Newsz(p)) \in Nat
    BY <2>1, RoundUpNat, Constants
  <2> QED
    BY <1>3, <2>1, <2>2, <2>3 DEF VPage
<1> DEFINE m == Mapped(s, v)
           d == IF PDX(v) \in s.utab THEN 0 ELSE 1
<1>6. /\ m \in Space /\ PagesOf(m) = PagesOf(s) + 1 + d
      /\ m.user = s.user \cup {v} /\ m.utab = s.utab \cup {PDX(v)}
      /\ m.dir = s.dir /\ m.ktab = s.ktab
  BY <1>1, <1>3, <1>5, WithPage
<1>7. /\ j.at = v + 1 /\ j.call = job[p].call /\ j.np = job[p].np /\ j.to = job[p].to
      /\ j.seg = job[p].seg
      /\ j \in [call : {"none", "fork", "exec", "sbrk"}, np : 0..NPROC,
                at : Nat, to : Nat, seg : Nat]
  <2>1. job[p] \in [call : {"none", "fork", "exec", "sbrk"}, np : 0..NPROC,
                    at : Nat, to : Nat, seg : Nat]
    BY DEF Inv, Types
  <2> QED
    BY <2>1
<1>8. /\ job[p].call = "sbrk" =>
           s = pgdir[p] /\ pgdir' = [pgdir EXCEPT ![p] = m] /\ new' = new
      /\ job[p].call # "sbrk" =>
           s = new[p] /\ new' = [new EXCEPT ![p] = m] /\ pgdir' = pgdir
  BY <1>1 DEF Retarget, Target
<1>9. d \in 0..1 /\ free' = free - d /\ free' \in Nat /\ free \in Nat
  <2>1. free \in Nat
    BY DEF Inv, Types
  <2>2. NeedsTable(p) <=> PDX(v) \notin s.utab
    BY DEF NeedsTable
  <2> QED
    BY <1>1, <2>1, <2>2
<1> HIDE DEF s, m, j, d
<1>10. pgdir' \in [Proc -> Space] /\ new' \in [Proc -> Space]
  <2>1. CASE job[p].call = "sbrk"
    BY <1>6, <1>8, <2>1 DEF Inv, Types
  <2>2. CASE job[p].call # "sbrk"
    BY <1>6, <1>8, <2>2 DEF Inv, Types
  <2> QED
    BY <2>1, <2>2
<1>11. Types'
  <2>1. mem' = [x \in Proc |-> IF pc'[x] = "map" THEN 1 ELSE 0]
    BY <1>1 DEF Inv, Types
  <2>2. pc' \in [Proc -> {"user", "kstack", "pgdir", "ktab", "page", "map", "fault"}]
    BY <1>1 DEF Inv, Types
  <2>3. job' \in [Proc -> [call : {"none", "fork", "exec", "sbrk"}, np : 0..NPROC,
                           at : Nat, to : Nat, seg : Nat]]
    BY <1>1, <1>7 DEF Inv, Types
  <2> QED
    BY <1>1, <1>9, <1>10, <2>1, <2>2, <2>3 DEF Inv, Types
<1>12. /\ pc'[p] = "page" /\ \A x \in Proc : x # p => pc'[x] = pc[x]
       /\ mem'[p] = 0 /\ \A x \in Proc : x # p => mem'[x] = mem[x]
       /\ job'[p] = j /\ \A x \in Proc : x # p => job'[x] = job[x]
  BY <1>1 DEF Inv, Types
<1>13. \A x \in Proc : x # p => pgdir'[x] = pgdir[x] /\ new'[x] = new[x]
  BY <1>8 DEF Inv, Types
<1>14. /\ job[p].call = "sbrk" => pgdir'[p] = m /\ new'[p] = new[p]
       /\ job[p].call # "sbrk" => pgdir'[p] = pgdir[p] /\ new'[p] = m
  BY <1>8 DEF Inv, Types
<1>15. Calling'
  BY <1>1, <1>2, <1>7, <1>12 DEF Inv, Calling
<1>16. Children'
  BY <1>1, <1>2, <1>7, <1>12, <1>13, SameChildren DEF Inv
<1>17. Complete(s) => Complete(m)
  BY <1>6 DEF Complete
<1>18. s.user = 1..(v - 1) => m.user = 1..(j.at - 1)
  <2>1. 1..(v - 1) \cup {v} = 1..v /\ j.at - 1 = v
    BY <1>3, <1>4, <1>7
  <2> QED
    BY <1>6, <2>1
<1>19. Memories'
  <2> SUFFICES ASSUME NEW x \in Proc PROVE Progress(x)' /\ Built(x)' /\ Ready(x)'
    BY DEF Memories
  <2>1. CASE x # p
    BY <1>1, <1>12, <1>13, <2>1, Untouched DEF Inv
  <2>2. CASE x = p
    <3>1. Ready(p) /\ Built(p) /\ Progress(p)
      BY DEF Inv, Memories
    <3>2. Progress(p)'
      <4>1. job[p].call = "exec" /\ j.at > PGROUNDUP(j.seg) + 1 => j.to < KERNBASE
        BY <1>3, <1>4, <1>7 DEF Newsz
      <4>2. j.at \in 1..(PGROUNDUP(j.to) + 1)
        BY <1>3, <1>4, <1>7
      <4>3. job[p].call = "sbrk" => sz[p] <= j.to /\ PGROUNDUP(sz[p]) < j.at
        <5>1. PGROUNDUP(sz[p]) \in Nat
          BY TypesAt
        <5> QED
          BY <1>3, <1>7, <3>1, <5>1 DEF Progress
      <4> QED
        BY <1>1, <1>2, <1>7, <1>12, <3>1, <4>1, <4>2, <4>3 DEF Progress
    <3>3. Built(p)'
      <4>1. CASE job[p].call = "sbrk"
        BY <1>1, <1>7, <1>12, <1>14, <3>1, <4>1 DEF Built, NoSpace
      <4>2. CASE job[p].call # "sbrk"
        <5>1. Complete(new[p]) /\ new[p].user = 1..(v - 1)
          BY <1>1, <3>1, <4>2 DEF Built
        <5>2. Complete(m) /\ m.user = 1..(j.at - 1)
          BY <1>8, <1>17, <1>18, <4>2, <5>1
        <5> QED
          BY <1>7, <1>12, <1>14, <4>2, <5>2 DEF Built, Complete
      <4> QED
        BY <4>1, <4>2
    <3>4. Ready(p)'
      <4>1. kstack[p] = 1 /\ Complete(pgdir[p])
        BY <1>2, <3>1 DEF Ready
      <4>2. CASE job[p].call = "sbrk"
        <5>1. pgdir[p].user = 1..(v - 1)
          BY <1>1, <1>2, <3>1, <4>2 DEF Ready
        <5>2. Complete(m) /\ m.user = 1..(j.at - 1)
          BY <1>8, <1>17, <1>18, <4>1, <4>2, <5>1
        <5> QED
          BY <1>1, <1>7, <1>12, <1>14, <4>1, <4>2, <5>2 DEF Ready, Complete
      <4>3. CASE job[p].call # "sbrk"
        <5>1. pgdir[p].user = 1..PGROUNDUP(sz[p])
          BY <1>1, <1>2, <3>1, <4>3 DEF Ready
        <5> QED
          BY <1>1, <1>7, <1>12, <1>14, <4>1, <4>3, <5>1 DEF Ready, Complete
      <4> QED
        BY <4>2, <4>3
    <3> QED
      BY <2>2, <3>2, <3>3, <3>4
  <2> QED
    BY <2>1, <2>2
<1>20. Balanced'
  <2>1. /\ PagesOf(new[p]) \in Nat /\ PagesOf(pgdir[p]) \in Nat /\ kstack'[p] = kstack[p]
    BY <1>1, <1>3, SpaceCount
  <2>2. PagesOf(new'[p]) + PagesOf(pgdir'[p]) = PagesOf(new[p]) + PagesOf(pgdir[p]) + 1 + d
    <3>1. CASE job[p].call = "sbrk"
      BY <1>6, <1>8, <1>9, <1>14, <2>1, <3>1
    <3>2. CASE job[p].call # "sbrk"
      BY <1>6, <1>8, <1>9, <1>14, <2>1, <3>2
    <3> QED
      BY <3>1, <3>2
  <2>3. PagesOf(new'[p]) \in Nat /\ PagesOf(pgdir'[p]) \in Nat
    BY <1>10, SpaceCount
  <2>4. free' + kstack'[p] + mem'[p] + PagesOf(new'[p]) + PagesOf(pgdir'[p])
           = free + kstack[p] + mem[p] + PagesOf(new[p]) + PagesOf(pgdir[p])
    BY <1>2, <1>3, <1>9, <1>12, <2>1, <2>2, <2>3
  <2> QED
    BY <1>1, <1>11, <1>12, <1>13, <2>4, Balance DEF Inv
<1> QED
  BY <1>11, <1>15, <1>16, <1>19, <1>20 DEF Inv

\* What the end of a call leaves of it.
LEMMA Returned ==
  ASSUME Inv, NEW p \in Proc, Return(p, "user")
  PROVE  /\ pc'[p] = "user" /\ job'[p] = NoJob /\ new'[p] = NoSpace /\ mem'[p] = 0
         /\ job'[p].call = "none" /\ job'[p].np = 0
         /\ \A x \in Proc : x # p => /\ pc'[x] = pc[x] /\ job'[x] = job[x]
                                     /\ new'[x] = new[x] /\ mem'[x] = mem[x]
         /\ new' \in [Proc -> Space]
         /\ pc' \in [Proc -> {"user", "kstack", "pgdir", "ktab", "page", "map", "fault"}]
         /\ job' \in [Proc -> [call : {"none", "fork", "exec", "sbrk"}, np : 0..NPROC,
                               at : Nat, to : Nat, seg : Nat]]
         /\ mem' = [x \in Proc |-> IF pc'[x] = "map" THEN 1 ELSE 0]
         /\ Progress(p)' /\ Built(p)'
<1> USE DEF Return
<1>1. NoJob \in [call : {"none", "fork", "exec", "sbrk"}, np : 0..NPROC,
                 at : Nat, to : Nat, seg : Nat]
      /\ NoJob.call = "none" /\ NoJob.np = 0
  BY Constants DEF NoJob
<1>2. NoSpace \in Space
  BY NoSpaceCount
<1>3. /\ pc'[p] = "user" /\ job'[p] = NoJob /\ new'[p] = NoSpace /\ mem'[p] = 0
      /\ \A x \in Proc : x # p => /\ pc'[x] = pc[x] /\ job'[x] = job[x]
                                  /\ new'[x] = new[x] /\ mem'[x] = mem[x]
  BY DEF Inv, Types
<1>4. new' \in [Proc -> Space]
  BY <1>2 DEF Inv, Types
<1>5. pc' \in [Proc -> {"user", "kstack", "pgdir", "ktab", "page", "map", "fault"}]
  BY DEF Inv, Types
<1>6. job' \in [Proc -> [call : {"none", "fork", "exec", "sbrk"}, np : 0..NPROC,
                         at : Nat, to : Nat, seg : Nat]]
  BY <1>1 DEF Inv, Types
<1>7. mem' = [x \in Proc |-> IF pc'[x] = "map" THEN 1 ELSE 0]
  BY DEF Inv, Types
<1>8. Idle(p)'
  BY <1>1, <1>3 DEF Idle, NoSpace
<1> QED
  BY <1>1, <1>3, <1>4, <1>5, <1>6, <1>7, <1>8, IdleProgress

\* The child gets the space, and with it as many pages as the parent's size has.
LEMMA ForkDonePreserves ==
  ASSUME Inv, NEW p \in Proc, ForkDone(p)
  PROVE  Inv'
<1>1. PICK q \in Proc : q = job[p].np
  BY DEF Inv, Children, ForkDone
<1>2. /\ pc[p] = "page" /\ job[p].call = "fork" /\ ~(job[p].at <= PGROUNDUP(job[p].to))
      /\ pgdir' = [pgdir EXCEPT ![q] = new[p]] /\ sz' = [sz EXCEPT ![q] = sz[p]]
      /\ state' = [state EXCEPT ![q] = "RUNNABLE"] /\ Return(p, "user")
      /\ UNCHANGED <<free, kstack>>
  BY <1>1 DEF ForkDone, More
<1>3. state[p] = "RUNNABLE"
  BY <1>2 DEF Inv, Calling
<1>4. q \in Proc /\ state[q] = "EMBRYO" /\ kstack[q] = 1 /\ pgdir[q] = NoSpace /\ q # p
  BY <1>2, <1>3, <1>1 DEF Inv, Children
<1>5. \A x \in Proc : x # p => job[x].np # q
  BY <1>4, <1>1, Constants DEF Inv, Children
<1>6. pc[q] = "user" /\ job[q].call = "none" /\ new[q] = NoSpace
  BY <1>4, Resting
<1>7. /\ pc'[p] = "user" /\ job'[p] = NoJob /\ new'[p] = NoSpace /\ mem'[p] = 0
      /\ job'[p].call = "none" /\ job'[p].np = 0
      /\ \A x \in Proc : x # p => /\ pc'[x] = pc[x] /\ job'[x] = job[x]
                                  /\ new'[x] = new[x] /\ mem'[x] = mem[x]
      /\ Progress(p)' /\ Built(p)'
  BY <1>2, Returned
<1>8. /\ pgdir'[q] = new[p] /\ sz'[q] = sz[p] /\ state'[q] = "RUNNABLE"
      /\ \A x \in Proc : x # q => pgdir'[x] = pgdir[x] /\ sz'[x] = sz[x] /\ state'[x] = state[x]
  BY <1>2, <1>4 DEF Inv, Types
<1>9. Types'
  <2>1. pgdir' \in [Proc -> Space]
    BY <1>2, <1>4 DEF Inv, Types
  <2>2. sz' \in [Proc -> 0..(KERNBASE - 1)]
    BY <1>2, <1>4 DEF Inv, Types
  <2>3. state' \in [Proc -> {"UNUSED", "EMBRYO", "RUNNABLE", "ZOMBIE"}]
    BY <1>2, <1>4 DEF Inv, Types
  <2>4. free' \in Nat /\ kstack' \in [Proc -> 0..1]
    BY <1>2 DEF Inv, Types
  <2> QED
    BY <1>2, <2>1, <2>2, <2>3, <2>4, Returned DEF Types
<1>10. Calling'
  BY <1>3, <1>4, <1>6, <1>7, <1>8 DEF Inv, Calling
<1>11. Children'
  <2> USE DEF Inv, Children
  <2>1. ASSUME NEW x \in Proc, job'[x].call = "fork"
        PROVE  /\ job'[x].np \in Proc /\ state'[job'[x].np] = "EMBRYO"
               /\ kstack'[job'[x].np] = IF pc'[x] = "kstack" THEN 0 ELSE 1
    BY <1>2, <1>5, <1>7, <1>8, <2>1
  <2>2. \A x \in Proc : job'[x].call # "fork" => job'[x].np = 0
    BY <1>7
  <2>3. \A x, y \in Proc : job'[x].np = job'[y].np /\ job'[x].np # 0 => x = y
    BY <1>7
  <2>4. ASSUME NEW x \in Proc, state'[x] = "EMBRYO" PROVE \E y \in Proc : job'[y].np = x
    <3>1. x # q
      BY <1>8, <2>4
    <3>2. PICK y \in Proc : job[y].np = x
      BY <1>8, <2>4, <3>1
    <3>3. y # p
      BY <1>1, <3>1, <3>2
    <3> QED
      BY <1>7, <3>2, <3>3
  <2>5. /\ \A x \in Proc : state'[x] \in {"UNUSED", "EMBRYO"} => pgdir'[x] = NoSpace
        /\ \A x \in Proc : state'[x] = "UNUSED" => kstack'[x] = 0
    BY <1>2, <1>8
  <2> QED
    BY <2>1, <2>2, <2>3, <2>4, <2>5 DEF NoSpace
<1>12. Memories'
  <2> SUFFICES ASSUME NEW x \in Proc PROVE Progress(x)' /\ Built(x)' /\ Ready(x)'
    BY DEF Memories
  <2>1. CASE x # p /\ x # q
    BY <1>2, <1>7, <1>8, <2>1, Untouched DEF Inv
  <2>2. CASE x = p
    <3>1. Ready(p)
      BY DEF Inv, Memories
    <3>2. Ready(p)'
      BY <1>2, <1>3, <1>4, <1>7, <1>8, <3>1 DEF Ready, Complete
    <3> QED
      BY <1>7, <2>2, <3>2
  <2>3. CASE x = q
    <3>1. Idle(q)'
      BY <1>4, <1>6, <1>7 DEF Idle, NoSpace
    <3>2. Complete(new[p]) /\ new[p].user = 1..PGROUNDUP(sz[p])
      <4>1. Complete(new[p]) /\ new[p].user = 1..(job[p].at - 1)
        BY <1>2 DEF Inv, Memories, Built
      <4>2. job[p].to = sz[p] /\ job[p].at \in 1..(PGROUNDUP(job[p].to) + 1)
        BY <1>2 DEF Inv, Memories, Progress
      <4>3. job[p].at - 1 = PGROUNDUP(sz[p])
        BY <1>2, <4>2, TypesAt
      <4> QED
        BY <4>1, <4>3
    <3>3. Ready(q)'
      BY <1>2, <1>4, <1>6, <1>7, <1>8, <3>2 DEF Ready, Complete
    <3> QED
      BY <1>4, <2>3, <3>1, <3>3, IdleProgress
  <2> QED
    BY <2>1, <2>2, <2>3
<1>13. Balanced'
  <2>1. /\ free \in Nat /\ kstack[p] \in Nat /\ mem[p] = 0 /\ new[p] \in Space
    BY <1>2, TypesAt DEF Inv, Types
  <2>2. /\ PagesOf(new[p]) \in Nat /\ PagesOf(new'[p]) = 0
        /\ PagesOf(pgdir[q]) = 0 /\ PagesOf(pgdir'[q]) = PagesOf(new[p])
    BY <1>4, <1>7, <1>8, <2>1, SpaceCount, NoSpaceCount
  <2>3. free' + kstack'[p] + mem'[p] + PagesOf(new'[p]) + PagesOf(pgdir'[q])
           = free + kstack[p] + mem[p] + PagesOf(new[p]) + PagesOf(pgdir[q])
    BY <1>2, <1>7, <2>1, <2>2
  <2> QED
    BY <1>2, <1>4, <1>7, <1>8, <1>9, <2>3, Balance DEF Inv
<1> QED
  BY <1>9, <1>10, <1>11, <1>12, <1>13 DEF Inv

\* The new space takes the place of the old one, whose pages are freed.
LEMMA ExecDonePreserves ==
  ASSUME Inv, NEW p \in Proc, ExecDone(p)
  PROVE  Inv'
<1>1. /\ pc[p] = "page" /\ job[p].call = "exec" /\ ~(job[p].at <= PGROUNDUP(job[p].to))
      /\ pgdir' = [pgdir EXCEPT ![p] = new[p]] /\ sz' = [sz EXCEPT ![p] = job[p].to]
      /\ free' = free + PagesOf(pgdir[p]) /\ Return(p, "user")
      /\ UNCHANGED <<state, kstack>>
  BY DEF ExecDone, More, kfree
<1>2. state[p] = "RUNNABLE" /\ job[p].np = 0
  BY <1>1 DEF Inv, Calling, Children
<1>3. /\ job[p].to \in Nat /\ job[p].at \in Nat /\ job[p].seg \in Nat
      /\ PGROUNDUP(job[p].to) \in Nat /\ PGROUNDUP(job[p].seg) \in Nat
      /\ pgdir[p] \in Space /\ new[p] \in Space /\ kstack[p] \in Nat /\ mem[p] = 0
  BY <1>1, TypesAt
<1>4. /\ PGROUNDUP(job[p].seg) < PGROUNDUP(job[p].to)
      /\ job[p].at > PGROUNDUP(job[p].seg) + 1 => job[p].to < KERNBASE
      /\ job[p].at \in 1..(PGROUNDUP(job[p].to) + 1)
  BY <1>1 DEF Inv, Memories, Progress
<1>5. job[p].to \in 0..(KERNBASE - 1) /\ job[p].at - 1 = PGROUNDUP(job[p].to)
  <2> DEFINE to == job[p].to
             at == job[p].at
             low == PGROUNDUP(job[p].seg)
             top == PGROUNDUP(job[p].to)
  <2>1. to \in Nat /\ at \in Nat /\ low \in Nat /\ top \in Nat /\ KERNBASE \in Nat
    BY <1>3, Constants
  <2>2. low < top /\ (at > low + 1 => to < KERNBASE) /\ at \in 1..(top + 1) /\ ~(at <= top)
    BY <1>1, <1>4
  <2> HIDE DEF to, at, low, top
  <2>3. to \in 0..(KERNBASE - 1) /\ at - 1 = top
    BY ONLY <2>1, <2>2
  <2> QED
    BY <2>3 DEF to, at, top
<1>6. PagesOf(pgdir[p]) \in Nat /\ PagesOf(new[p]) \in Nat /\ free \in Nat
  BY <1>3, SpaceCount DEF Inv, Types
<1>7. /\ pc'[p] = "user" /\ job'[p] = NoJob /\ new'[p] = NoSpace /\ mem'[p] = 0
      /\ job'[p].call = "none" /\ job'[p].np = 0
      /\ \A x \in Proc : x # p => /\ pc'[x] = pc[x] /\ job'[x] = job[x]
                                  /\ new'[x] = new[x] /\ mem'[x] = mem[x]
      /\ Progress(p)' /\ Built(p)'
  BY <1>1, Returned
<1>8. /\ pgdir'[p] = new[p] /\ sz'[p] = job[p].to
      /\ \A x \in Proc : x # p => pgdir'[x] = pgdir[x] /\ sz'[x] = sz[x]
  BY <1>1 DEF Inv, Types
<1>9. Types'
  <2>1. pgdir' \in [Proc -> Space]
    BY <1>1, <1>3 DEF Inv, Types
  <2>2. sz' \in [Proc -> 0..(KERNBASE - 1)]
    BY <1>1, <1>5 DEF Inv, Types
  <2>3. /\ free' \in Nat /\ kstack' \in [Proc -> 0..1]
        /\ state' \in [Proc -> {"UNUSED", "EMBRYO", "RUNNABLE", "ZOMBIE"}]
    BY <1>1, <1>6 DEF Inv, Types
  <2> QED
    BY <1>1, <2>1, <2>2, <2>3, Returned DEF Types
<1>10. Calling'
  BY <1>1, <1>2, <1>7 DEF Inv, Calling
<1>11. Children'
  BY <1>1, <1>2, <1>7, <1>8, SameChildren DEF Inv
<1>12. Memories'
  <2> SUFFICES ASSUME NEW x \in Proc PROVE Progress(x)' /\ Built(x)' /\ Ready(x)'
    BY DEF Memories
  <2>1. CASE x # p
    BY <1>1, <1>7, <1>8, <2>1, Untouched DEF Inv
  <2>2. CASE x = p
    <3>1. Complete(new[p]) /\ new[p].user = 1..(job[p].at - 1) /\ kstack[p] = 1
      BY <1>1, <1>2 DEF Inv, Memories, Built, Ready
    <3>2. Ready(p)'
      BY <1>1, <1>2, <1>5, <1>7, <1>8, <3>1 DEF Ready, Complete
    <3> QED
      BY <1>7, <2>2, <3>2
  <2> QED
    BY <2>1, <2>2
<1>13. Balanced'
  <2>1. PagesOf(new'[p]) = 0 /\ PagesOf(pgdir'[p]) = PagesOf(new[p])
    BY <1>7, <1>8, NoSpaceCount
  <2>2. free' + kstack'[p] + mem'[p] + PagesOf(new'[p]) + PagesOf(pgdir'[p])
           = free + kstack[p] + mem[p] + PagesOf(new[p]) + PagesOf(pgdir[p])
    BY <1>1, <1>3, <1>6, <1>7, <2>1
  <2> QED
    BY <1>1, <1>7, <1>8, <1>9, <2>2, Balance DEF Inv
<1> QED
  BY <1>9, <1>10, <1>11, <1>12, <1>13 DEF Inv

\* The size follows the pages that were added.
LEMMA GrowDonePreserves ==
  ASSUME Inv, NEW p \in Proc, GrowDone(p)
  PROVE  Inv'
<1>1. /\ pc[p] = "page" /\ job[p].call = "sbrk" /\ ~(job[p].at <= PGROUNDUP(job[p].to))
      /\ job[p].to < KERNBASE /\ sz' = [sz EXCEPT ![p] = job[p].to] /\ Return(p, "user")
      /\ UNCHANGED <<free, state, kstack, pgdir>>
  BY DEF GrowDone, More
<1>2. state[p] = "RUNNABLE" /\ job[p].np = 0 /\ new[p] = NoSpace
  BY <1>1 DEF Inv, Calling, Children, Memories, Built
<1>3. /\ job[p].to \in Nat /\ job[p].at \in Nat /\ PGROUNDUP(job[p].to) \in Nat
      /\ pgdir[p] \in Space /\ kstack[p] \in Nat /\ mem[p] = 0
  BY <1>1, TypesAt
<1>4. job[p].at \in 1..(PGROUNDUP(job[p].to) + 1)
  BY <1>1 DEF Inv, Memories, Progress
<1>5. job[p].to \in 0..(KERNBASE - 1) /\ job[p].at - 1 = PGROUNDUP(job[p].to)
  <2> DEFINE to == job[p].to
             at == job[p].at
             top == PGROUNDUP(job[p].to)
  <2>1. to \in Nat /\ at \in Nat /\ top \in Nat /\ KERNBASE \in Nat
    BY <1>3, Constants
  <2>2. to < KERNBASE /\ at \in 1..(top + 1) /\ ~(at <= top)
    BY <1>1, <1>4
  <2> HIDE DEF to, at, top
  <2>3. to \in 0..(KERNBASE - 1) /\ at - 1 = top
    BY ONLY <2>1, <2>2
  <2> QED
    BY <2>3 DEF to, at, top
<1>6. PagesOf(pgdir[p]) \in Nat /\ free \in Nat
  BY <1>3, SpaceCount DEF Inv, Types
<1>7. /\ pc'[p] = "user" /\ job'[p] = NoJob /\ new'[p] = NoSpace /\ mem'[p] = 0
      /\ job'[p].call = "none" /\ job'[p].np = 0
      /\ \A x \in Proc : x # p => /\ pc'[x] = pc[x] /\ job'[x] = job[x]
                                  /\ new'[x] = new[x] /\ mem'[x] = mem[x]
      /\ Progress(p)' /\ Built(p)'
  BY <1>1, Returned
<1>8. sz'[p] = job[p].to /\ \A x \in Proc : x # p => sz'[x] = sz[x]
  BY <1>1 DEF Inv, Types
<1>9. Types'
  <2>1. sz' \in [Proc -> 0..(KERNBASE - 1)]
    BY <1>1, <1>5 DEF Inv, Types
  <2>2. /\ free' \in Nat /\ kstack' \in [Proc -> 0..1] /\ pgdir' \in [Proc -> Space]
        /\ state' \in [Proc -> {"UNUSED", "EMBRYO", "RUNNABLE", "ZOMBIE"}]
    BY <1>1, <1>6 DEF Inv, Types
  <2> QED
    BY <1>1, <2>1, <2>2, Returned DEF Types
<1>10. Calling'
  BY <1>1, <1>2, <1>7 DEF Inv, Calling
<1>11. Children'
  BY <1>1, <1>2, <1>7, SameChildren DEF Inv
<1>12. Memories'
  <2> SUFFICES ASSUME NEW x \in Proc PROVE Progress(x)' /\ Built(x)' /\ Ready(x)'
    BY DEF Memories
  <2>1. CASE x # p
    BY <1>1, <1>7, <1>8, <2>1, Untouched DEF Inv
  <2>2. CASE x = p
    <3>1. Complete(pgdir[p]) /\ pgdir[p].user = 1..(job[p].at - 1) /\ kstack[p] = 1
      BY <1>1, <1>2 DEF Inv, Memories, Ready
    <3>2. Ready(p)'
      BY <1>1, <1>2, <1>5, <1>7, <1>8, <3>1 DEF Ready, Complete
    <3> QED
      BY <1>7, <2>2, <3>2
  <2> QED
    BY <2>1, <2>2
<1>13. Balanced'
  <2>1. new' = new
    BY <1>1, <1>2 DEF Return, Inv, Types
  <2>2. mem' = mem
    BY <1>1, <1>3 DEF Return, Inv, Types
  <2> QED
    BY <1>1, <2>1, <2>2, NothingMoves DEF Inv
<1> QED
  BY <1>9, <1>10, <1>11, <1>12, <1>13 DEF Inv

\* The failures give back what the call has taken: fork its space, stack and slot.
LEMMA ForkFailPreserves ==
  ASSUME Inv, NEW p \in Proc, ForkFail(p)
  PROVE  Inv'
<1>0. PICK q \in Proc : q = job[p].np
  BY DEF Inv, Children, ForkFail
<1>1. /\ job[p].call = "fork" /\ free' = free + mem[p] + PagesOf(new[p]) + kstack[q]
      /\ kstack' = [kstack EXCEPT ![q] = 0] /\ state' = [state EXCEPT ![q] = "UNUSED"]
      /\ Return(p, "user") /\ UNCHANGED <<pgdir, sz>>
  <2>1. mem[p] \in Nat /\ PagesOf(new[p]) \in Nat /\ kstack[q] \in Nat /\ free \in Nat
    BY TypesAt, SpaceCount DEF Inv, Types
  <2> QED
    BY <1>0, <2>1 DEF ForkFail, kfree
<1>2. state[p] = "RUNNABLE" /\ pc[p] # "fault"
  BY <1>1 DEF Inv, Calling
<1>3. state[q] = "EMBRYO" /\ pgdir[q] = NoSpace /\ q # p
  BY <1>0, <1>1, <1>2 DEF Inv, Children
<1>4. \A x \in Proc : x # p => job[x].np # q
  BY <1>0, <1>3, Constants DEF Inv, Children
<1>5. /\ pc'[p] = "user" /\ job'[p] = NoJob /\ new'[p] = NoSpace /\ mem'[p] = 0
      /\ job'[p].call = "none" /\ job'[p].np = 0
      /\ \A x \in Proc : x # p => /\ pc'[x] = pc[x] /\ job'[x] = job[x]
                                  /\ new'[x] = new[x] /\ mem'[x] = mem[x]
      /\ Progress(p)' /\ Built(p)'
  BY <1>1, Returned
<1>6. /\ kstack'[q] = 0 /\ state'[q] = "UNUSED"
      /\ \A x \in Proc : x # q => kstack'[x] = kstack[x] /\ state'[x] = state[x]
  BY <1>1 DEF Inv, Types
<1>7. /\ mem[p] \in Nat /\ PagesOf(new[p]) \in Nat /\ PagesOf(pgdir[p]) \in Nat
      /\ kstack[q] \in Nat /\ free \in Nat
  BY TypesAt, SpaceCount DEF Inv, Types
<1>8. Types'
  <2>1. kstack' \in [Proc -> 0..1]
    BY <1>1 DEF Inv, Types
  <2>2. state' \in [Proc -> {"UNUSED", "EMBRYO", "RUNNABLE", "ZOMBIE"}]
    BY <1>1 DEF Inv, Types
  <2>3. free' \in Nat
    BY <1>1, <1>7
  <2> QED
    BY <1>1, <2>1, <2>2, <2>3, Returned DEF Inv, Types
<1>9. Calling'
  BY <1>2, <1>3, <1>5, <1>6, Resting DEF Inv, Calling
<1>10. Children'
  <2> USE DEF Inv, Children
  <2>1. ASSUME NEW x \in Proc, job'[x].call = "fork"
        PROVE  /\ job'[x].np \in Proc /\ state'[job'[x].np] = "EMBRYO"
               /\ kstack'[job'[x].np] = IF pc'[x] = "kstack" THEN 0 ELSE 1
    BY <1>4, <1>5, <1>6, <2>1
  <2>2. \A x \in Proc : job'[x].call # "fork" => job'[x].np = 0
    BY <1>5
  <2>3. \A x, y \in Proc : job'[x].np = job'[y].np /\ job'[x].np # 0 => x = y
    BY <1>5
  <2>4. ASSUME NEW x \in Proc, state'[x] = "EMBRYO" PROVE \E y \in Proc : job'[y].np = x
    <3>1. x # q
      BY <1>6, <2>4
    <3>2. PICK y \in Proc : job[y].np = x
      BY <1>6, <2>4, <3>1
    <3>3. y # p
      BY <1>0, <3>1, <3>2
    <3> QED
      BY <1>5, <3>2, <3>3
  <2>5. /\ \A x \in Proc : state'[x] \in {"UNUSED", "EMBRYO"} => pgdir'[x] = NoSpace
        /\ \A x \in Proc : state'[x] = "UNUSED" => kstack'[x] = 0
    BY <1>1, <1>3, <1>6
  <2> QED
    BY <2>1, <2>2, <2>3, <2>4, <2>5 DEF NoSpace
<1>11. Memories'
  <2> SUFFICES ASSUME NEW x \in Proc PROVE Progress(x)' /\ Built(x)' /\ Ready(x)'
    BY DEF Memories
  <2>1. CASE x # p
    BY <1>1, <1>5, <1>6, <2>1, Untouched DEF Inv
  <2>2. CASE x = p
    <3>1. Ready(p)
      BY DEF Inv, Memories
    <3>2. Ready(p)'
      BY <1>1, <1>2, <1>3, <1>5, <1>6, <3>1 DEF Ready, Complete
    <3> QED
      BY <1>5, <2>2, <3>2
  <2> QED
    BY <2>1, <2>2
<1>12. Balanced'
  <2>1. PagesOf(new'[p]) = 0 /\ PagesOf(pgdir'[p]) = PagesOf(pgdir[p])
    BY <1>1, <1>5, NoSpaceCount DEF PagesOf
  <2>2. free' + kstack'[q] + mem'[p] + PagesOf(new'[p]) + PagesOf(pgdir'[p])
           = free + kstack[q] + mem[p] + PagesOf(new[p]) + PagesOf(pgdir[p])
    BY <1>1, <1>5, <1>6, <1>7, <2>1
  <2> QED
    BY <1>1, <1>5, <1>6, <1>8, <2>2, Balance DEF Inv
<1> QED
  BY <1>8, <1>9, <1>10, <1>11, <1>12 DEF Inv

\* exec frees the space it was building and leaves the old one.
LEMMA ExecFailPreserves ==
  ASSUME Inv, NEW p \in Proc, ExecFail(p)
  PROVE  Inv'
<1>1. /\ job[p].call = "exec" /\ free' = free + (mem[p] + PagesOf(new[p]))
      /\ Return(p, "user") /\ UNCHANGED <<state, kstack, pgdir, sz>>
  BY DEF ExecFail, kfree
<1>2. state[p] = "RUNNABLE" /\ job[p].np = 0 /\ pc[p] # "fault"
  BY <1>1 DEF Inv, Calling, Children
<1>3. /\ mem[p] \in Nat /\ PagesOf(new[p]) \in Nat /\ PagesOf(pgdir[p]) \in Nat
      /\ kstack[p] \in Nat /\ free \in Nat
  BY TypesAt, SpaceCount DEF Inv, Types
<1>4. /\ pc'[p] = "user" /\ job'[p] = NoJob /\ new'[p] = NoSpace /\ mem'[p] = 0
      /\ job'[p].call = "none" /\ job'[p].np = 0
      /\ \A x \in Proc : x # p => /\ pc'[x] = pc[x] /\ job'[x] = job[x]
                                  /\ new'[x] = new[x] /\ mem'[x] = mem[x]
      /\ Progress(p)' /\ Built(p)'
  BY <1>1, Returned
<1>5. Types'
  <2>1. free' \in Nat
    BY <1>1, <1>3
  <2> QED
    BY <1>1, <2>1, Returned DEF Inv, Types
<1>6. Calling'
  BY <1>1, <1>2, <1>4 DEF Inv, Calling
<1>7. Children'
  BY <1>1, <1>2, <1>4, SameChildren DEF Inv
<1>8. Memories'
  <2> SUFFICES ASSUME NEW x \in Proc PROVE Progress(x)' /\ Built(x)' /\ Ready(x)'
    BY DEF Memories
  <2>1. CASE x # p
    BY <1>1, <1>4, <2>1, Untouched DEF Inv
  <2>2. CASE x = p
    <3>1. Ready(p)
      BY DEF Inv, Memories
    <3>2. Ready(p)'
      BY <1>1, <1>2, <1>4, <3>1 DEF Ready, Complete
    <3> QED
      BY <1>4, <2>2, <3>2
  <2> QED
    BY <2>1, <2>2
<1>9. Balanced'
  <2>1. PagesOf(new'[p]) = 0 /\ PagesOf(pgdir'[p]) = PagesOf(pgdir[p])
    BY <1>1, <1>4, NoSpaceCount DEF PagesOf
  <2>2. free' + kstack'[p] + mem'[p] + PagesOf(new'[p]) + PagesOf(pgdir'[p])
           = free + kstack[p] + mem[p] + PagesOf(new[p]) + PagesOf(pgdir[p])
    BY <1>1, <1>3, <1>4, <2>1
  <2> QED
    BY <1>1, <1>4, <1>5, <2>2, Balance DEF Inv
<1> QED
  BY <1>5, <1>6, <1>7, <1>8, <1>9 DEF Inv

\* A process's own space without the pages above a boundary.
LEMMA Cut ==
  ASSUME NEW s \in Space, NEW a \in Nat, NEW b \in Nat, NEW n \in Nat,
         Complete(s), s.user = 1..n, PGROUNDUP(b) <= n, n <= PGROUNDUP(a)
  PROVE  Complete(deallocuvm(s, a, b)) /\ deallocuvm(s, a, b).user = 1..PGROUNDUP(b)
<1>1. /\ deallocuvm(s, a, b).user = s.user \ Dropped(s, a, b)
      /\ deallocuvm(s, a, b).utab = s.utab
      /\ deallocuvm(s, a, b).dir = s.dir /\ deallocuvm(s, a, b).ktab = s.ktab
  BY WithoutPages
<1>2. Complete(deallocuvm(s, a, b))
  BY <1>1 DEF Complete
<1>3. PGROUNDUP(a) \in Nat /\ PGROUNDUP(b) \in Nat
  BY RoundUpNat
<1>4. 1..n \ {v \in 1..n : PGROUNDUP(b) < v /\ v <= PGROUNDUP(a)} = 1..PGROUNDUP(b)
  BY <1>3
<1> QED
  BY <1>1, <1>2, <1>4 DEF Dropped

\* allocuvm drops the pages above the old size, which is what it had added.
LEMMA GrowFailPreserves ==
  ASSUME Inv, NEW p \in Proc, GrowFail(p)
  PROVE  Inv'
<1> DEFINE s == deallocuvm(pgdir[p], job[p].to, sz[p])
           d == Cardinality(Dropped(pgdir[p], job[p].to, sz[p]))
<1>1. /\ job[p].call = "sbrk" /\ free' = free + (d + mem[p])
      /\ pgdir' = [pgdir EXCEPT ![p] = s]
      /\ Return(p, "user") /\ UNCHANGED <<state, kstack, sz>>
  BY DEF GrowFail, kfree
<1>2. state[p] = "RUNNABLE" /\ job[p].np = 0 /\ pc[p] # "fault" /\ new[p] = NoSpace
  BY <1>1 DEF Inv, Calling, Children, Memories, Built
<1>3. /\ pgdir[p] \in Space /\ job[p].to \in Nat /\ job[p].at \in Nat /\ sz[p] \in Nat
      /\ PGROUNDUP(sz[p]) \in Nat /\ PGROUNDUP(job[p].to) \in Nat
      /\ mem[p] \in Nat /\ kstack[p] \in Nat /\ free \in Nat
  BY TypesAt DEF Inv, Types
<1>4. s \in Space /\ d \in Nat /\ PagesOf(pgdir[p]) = PagesOf(s) + d
  BY <1>3, WithoutPages
<1>5. Complete(s) /\ s.user = 1..PGROUNDUP(sz[p])
  <2>1. Complete(pgdir[p]) /\ pgdir[p].user = 1..(job[p].at - 1)
    BY <1>1, <1>2 DEF Inv, Memories, Ready
  <2>2. PGROUNDUP(sz[p]) < job[p].at /\ job[p].at \in 1..(PGROUNDUP(job[p].to) + 1)
    BY <1>1 DEF Inv, Memories, Progress
  <2>3. /\ job[p].at - 1 \in Nat /\ PGROUNDUP(sz[p]) <= job[p].at - 1
        /\ job[p].at - 1 <= PGROUNDUP(job[p].to)
    BY <1>3, <2>2
  <2> QED
    BY <1>3, <2>1, <2>3, Cut
<1> HIDE DEF s, d
<1>6. /\ pc'[p] = "user" /\ job'[p] = NoJob /\ new'[p] = NoSpace /\ mem'[p] = 0
      /\ job'[p].call = "none" /\ job'[p].np = 0
      /\ \A x \in Proc : x # p => /\ pc'[x] = pc[x] /\ job'[x] = job[x]
                                  /\ new'[x] = new[x] /\ mem'[x] = mem[x]
      /\ Progress(p)' /\ Built(p)'
  BY <1>1, Returned
<1>7. pgdir'[p] = s /\ \A x \in Proc : x # p => pgdir'[x] = pgdir[x]
  BY <1>1 DEF Inv, Types
<1>8. Types'
  <2>1. free' \in Nat
    BY <1>1, <1>3, <1>4
  <2>2. pgdir' \in [Proc -> Space]
    BY <1>1, <1>4 DEF Inv, Types
  <2> QED
    BY <1>1, <2>1, <2>2, Returned DEF Inv, Types
<1>9. Calling'
  BY <1>1, <1>2, <1>6 DEF Inv, Calling
<1>10. Children'
  BY <1>1, <1>2, <1>6, <1>7, SameChildren DEF Inv
<1>11. Memories'
  <2> SUFFICES ASSUME NEW x \in Proc PROVE Progress(x)' /\ Built(x)' /\ Ready(x)'
    BY DEF Memories
  <2>1. CASE x # p
    BY <1>1, <1>6, <1>7, <2>1, Untouched DEF Inv
  <2>2. CASE x = p
    <3>1. Ready(p)
      BY DEF Inv, Memories
    <3>2. Ready(p)'
      BY <1>1, <1>2, <1>5, <1>6, <1>7, <3>1 DEF Ready, Complete
    <3> QED
      BY <1>6, <2>2, <3>2
  <2> QED
    BY <2>1, <2>2
<1>12. Balanced'
  <2>1. PagesOf(new'[p]) = 0 /\ PagesOf(new[p]) = 0 /\ PagesOf(pgdir'[p]) = PagesOf(s)
    BY <1>2, <1>6, <1>7, NoSpaceCount
  <2>2. PagesOf(s) \in Nat
    BY <1>4, SpaceCount
  <2>3. free' + kstack'[p] + mem'[p] + PagesOf(new'[p]) + PagesOf(pgdir'[p])
           = free + kstack[p] + mem[p] + PagesOf(new[p]) + PagesOf(pgdir[p])
    BY <1>1, <1>3, <1>4, <1>6, <2>1, <2>2
  <2> QED
    BY <1>1, <1>6, <1>7, <1>8, <2>3, Balance DEF Inv
<1> QED
  BY <1>8, <1>9, <1>10, <1>11, <1>12 DEF Inv

\* sbrk with a negative amount drops the pages above the new size.
LEMMA ShrinkPreserves ==
  ASSUME Inv, NEW p \in Proc, NEW n \in Sbrks, Shrink(p, n)
  PROVE  Inv'
<1> DEFINE s == deallocuvm(pgdir[p], sz[p], sz[p] - n)
           d == Cardinality(Dropped(pgdir[p], sz[p], sz[p] - n))
<1>1. /\ state[p] = "RUNNABLE" /\ pc[p] = "user" /\ free' = free + d
      /\ pgdir' = [pgdir EXCEPT ![p] = s]
      /\ sz' = IF n = sz[p] THEN sz ELSE [sz EXCEPT ![p] = @ - n]
      /\ pc' = IF n = sz[p] THEN [pc EXCEPT ![p] = "fault"] ELSE pc
      /\ UNCHANGED <<state, kstack, job, new, mem>>
  BY DEF Shrink, kfree
<1>2. /\ job[p].call = "none" /\ new[p] = NoSpace
  BY <1>1 DEF Inv, Calling, Memories, Built
<1>3. /\ pgdir[p] \in Space /\ sz[p] \in Nat /\ sz[p] < KERNBASE /\ n \in Nat
      /\ PGROUNDUP(sz[p]) \in Nat /\ kstack[p] \in Nat /\ free \in Nat
  BY TypesAt, MemoryAssumption DEF Inv, Types
<1>4. n <= sz[p] /\ sz[p] - n \in Nat
  BY <1>3 DEF Shrink
<1>5. s \in Space /\ d \in Nat /\ PagesOf(pgdir[p]) = PagesOf(s) + d
  BY <1>3, WithoutPages
<1>6. Complete(s) /\ s.user = 1..PGROUNDUP(sz[p] - n) /\ kstack[p] = 1
  <2>1. Complete(pgdir[p]) /\ pgdir[p].user = 1..PGROUNDUP(sz[p]) /\ kstack[p] = 1
    BY <1>1, <1>2 DEF Inv, Memories, Ready
  <2>2. PGROUNDUP(sz[p] - n) <= PGROUNDUP(sz[p])
    BY <1>3, <1>4, RoundUpMono
  <2> QED
    BY <1>3, <1>4, <2>1, <2>2, Cut
<1> HIDE DEF s, d
<1>7. pgdir'[p] = s /\ \A x \in Proc : x # p => pgdir'[x] = pgdir[x]
  BY <1>1 DEF Inv, Types
<1>8. /\ n = sz[p] => pc'[p] = "fault" /\ sz'[p] = sz[p]
      /\ n # sz[p] => pc'[p] = "user" /\ sz'[p] = sz[p] - n
      /\ \A x \in Proc : x # p => pc'[x] = pc[x] /\ sz'[x] = sz[x]
  BY <1>1 DEF Inv, Types
<1>9. Types'
  <2>1. free' \in Nat
    BY <1>1, <1>3, <1>5
  <2>2. pgdir' \in [Proc -> Space]
    BY <1>1, <1>5 DEF Inv, Types
  <2>3. sz' \in [Proc -> 0..(KERNBASE - 1)]
    <3>1. sz[p] - n \in 0..(KERNBASE - 1)
      BY <1>3, <1>4, Constants
    <3> QED
      BY <1>1, <3>1 DEF Inv, Types
  <2>4. /\ pc' \in [Proc -> {"user", "kstack", "pgdir", "ktab", "page", "map", "fault"}]
        /\ mem' = [x \in Proc |-> IF pc'[x] = "map" THEN 1 ELSE 0]
    BY <1>1 DEF Inv, Types
  <2> QED
    BY <1>1, <2>1, <2>2, <2>3, <2>4 DEF Inv, Types
<1>10. Calling'
  BY <1>1, <1>2, <1>8 DEF Inv, Calling
<1>11. Children'
  BY <1>1, <1>2, <1>7, <1>8, SameChildren DEF Inv
<1>12. Memories'
  <2> SUFFICES ASSUME NEW x \in Proc PROVE Progress(x)' /\ Built(x)' /\ Ready(x)'
    BY DEF Memories
  <2>1. CASE x # p
    BY <1>1, <1>7, <1>8, <2>1, Untouched DEF Inv
  <2>2. CASE x = p
    <3>1. Idle(p)'
      BY <1>1, <1>2, <1>8 DEF Idle, NoSpace
    <3>2. Ready(p)'
      BY <1>1, <1>2, <1>6, <1>7, <1>8 DEF Ready, Complete
    <3> QED
      BY <2>2, <3>1, <3>2, IdleProgress
  <2> QED
    BY <2>1, <2>2
<1>13. Balanced'
  <2>1. mem[p] = 0 /\ mem'[p] = 0 /\ kstack'[p] = kstack[p]
    BY <1>1, TypesAt
  <2>2. /\ PagesOf(new'[p]) = 0 /\ PagesOf(new[p]) = 0 /\ PagesOf(pgdir'[p]) = PagesOf(s)
        /\ PagesOf(s) \in Nat
    BY <1>1, <1>2, <1>5, <1>7, NoSpaceCount, SpaceCount
  <2>3. free' + kstack'[p] + mem'[p] + PagesOf(new'[p]) + PagesOf(pgdir'[p])
           = free + kstack[p] + mem[p] + PagesOf(new[p]) + PagesOf(pgdir[p])
    BY <1>1, <1>3, <1>5, <2>1, <2>2
  <2> QED
    BY <1>1, <1>7, <1>9, <2>3, Balance DEF Inv
<1> QED
  BY <1>9, <1>10, <1>11, <1>12, <1>13 DEF Inv

\* A process that exits keeps its pages.
LEMMA ExitPreserves ==
  ASSUME Inv, NEW p \in Proc, Exit(p)
  PROVE  Inv'
<1>1. /\ state[p] = "RUNNABLE" /\ pc[p] \in {"user", "fault"}
      /\ state' = [state EXCEPT ![p] = "ZOMBIE"] /\ pc' = [pc EXCEPT ![p] = "user"]
      /\ UNCHANGED <<free, kstack, pgdir, sz, job, new, mem>>
  BY DEF Exit
<1>2. job[p].call = "none" /\ new[p] = NoSpace
  BY <1>1 DEF Inv, Calling, Memories, Built
<1>3. /\ state'[p] = "ZOMBIE" /\ pc'[p] = "user"
      /\ \A x \in Proc : x # p => state'[x] = state[x] /\ pc'[x] = pc[x]
  BY <1>1 DEF Inv, Types
<1>4. Types'
  <2>1. /\ pc' \in [Proc -> {"user", "kstack", "pgdir", "ktab", "page", "map", "fault"}]
        /\ mem' = [x \in Proc |-> IF pc'[x] = "map" THEN 1 ELSE 0]
    BY <1>1 DEF Inv, Types
  <2>2. state' \in [Proc -> {"UNUSED", "EMBRYO", "RUNNABLE", "ZOMBIE"}]
    BY <1>1 DEF Inv, Types
  <2> QED
    BY <1>1, <2>1, <2>2 DEF Inv, Types
<1>5. Calling'
  BY <1>1, <1>2, <1>3 DEF Inv, Calling
<1>6. Children'
  BY <1>1, <1>2, <1>3, SameChildren DEF Inv
<1>7. Memories'
  <2> SUFFICES ASSUME NEW x \in Proc PROVE Progress(x)' /\ Built(x)' /\ Ready(x)'
    BY DEF Memories
  <2>1. CASE x # p
    BY <1>1, <1>3, <2>1, Untouched DEF Inv
  <2>2. CASE x = p
    <3>1. Idle(p)' /\ Ready(p)'
      BY <1>1, <1>2, <1>3 DEF Idle, Ready, NoSpace
    <3> QED
      BY <2>2, <3>1, IdleProgress
  <2> QED
    BY <2>1, <2>2
<1>8. Balanced'
  BY <1>1, NothingMoves DEF Inv
<1> QED
  BY <1>4, <1>5, <1>6, <1>7, <1>8 DEF Inv

\* wait frees the pages of a process that has exited, which no fork still builds.
LEMMA WaitPreserves ==
  ASSUME Inv, NEW p \in Proc, NEW q \in Proc, Wait(p, q)
  PROVE  Inv'
<1>1. /\ state[p] = "RUNNABLE" /\ state[q] = "ZOMBIE"
      /\ free' = free + (kstack[q] + PagesOf(pgdir[q]))
      /\ kstack' = [kstack EXCEPT ![q] = 0] /\ pgdir' = [pgdir EXCEPT ![q] = NoSpace]
      /\ sz' = [sz EXCEPT ![q] = 0] /\ state' = [state EXCEPT ![q] = "UNUSED"]
      /\ UNCHANGED <<pc, job, new, mem>>
  BY DEF Wait, kfree
<1>2. pc[q] = "user" /\ job[q].call = "none" /\ new[q] = NoSpace
  BY <1>1, Resting
<1>3. \A x \in Proc : job[x].np # q
  BY <1>1, NotChild
<1>4. /\ kstack'[q] = 0 /\ pgdir'[q] = NoSpace /\ state'[q] = "UNUSED"
      /\ \A x \in Proc : x # q => /\ kstack'[x] = kstack[x] /\ pgdir'[x] = pgdir[x]
                                  /\ sz'[x] = sz[x] /\ state'[x] = state[x]
  BY <1>1 DEF Inv, Types
<1>5. /\ kstack[q] \in Nat /\ PagesOf(pgdir[q]) \in Nat /\ free \in Nat
      /\ mem[q] \in Nat /\ PagesOf(new[q]) = 0
  BY <1>2, TypesAt, SpaceCount, NoSpaceCount DEF Inv, Types
<1>6. Types'
  <2>1. free' \in Nat
    BY <1>1, <1>5
  <2>2. kstack' \in [Proc -> 0..1]
    BY <1>1 DEF Inv, Types
  <2>3. pgdir' \in [Proc -> Space]
    BY <1>1, NoSpaceCount DEF Inv, Types
  <2>4. sz' \in [Proc -> 0..(KERNBASE - 1)]
    <3>1. 0 \in 0..(KERNBASE - 1)
      BY Constants
    <3> QED
      BY <1>1, <3>1 DEF Inv, Types
  <2>5. state' \in [Proc -> {"UNUSED", "EMBRYO", "RUNNABLE", "ZOMBIE"}]
    BY <1>1 DEF Inv, Types
  <2> QED
    BY <1>1, <2>1, <2>2, <2>3, <2>4, <2>5 DEF Inv, Types
<1>7. Calling'
  BY <1>1, <1>2, <1>4 DEF Inv, Calling
<1>8. Children'
  BY <1>1, <1>2, <1>3, <1>4 DEF Inv, Children, NoSpace
<1>9. Memories'
  <2> SUFFICES ASSUME NEW x \in Proc PROVE Progress(x)' /\ Built(x)' /\ Ready(x)'
    BY DEF Memories
  <2>1. CASE x # q
    BY <1>1, <1>4, <2>1, Untouched DEF Inv
  <2>2. CASE x = q
    <3>1. Idle(q)' /\ Ready(q)'
      BY <1>1, <1>2, <1>4 DEF Idle, Ready, NoSpace
    <3> QED
      BY <2>2, <3>1, IdleProgress
  <2> QED
    BY <2>1, <2>2
<1>10. Balanced'
  <2>1. PagesOf(pgdir'[q]) = 0 /\ PagesOf(new'[q]) = 0 /\ mem'[q] = mem[q]
    BY <1>1, <1>4, <1>5, NoSpaceCount DEF PagesOf
  <2>2. free' + kstack'[q] + mem'[q] + PagesOf(new'[q]) + PagesOf(pgdir'[q])
           = free + kstack[q] + mem[q] + PagesOf(new[q]) + PagesOf(pgdir[q])
    BY <1>1, <1>4, <1>5, <2>1
  <2> QED
    BY <1>1, <1>4, <1>6, <2>2, Balance DEF Inv
<1> QED
  BY <1>6, <1>7, <1>8, <1>9, <1>10 DEF Inv

\* The first process, with one page.
LEMMA FirstSpaceCount ==
  /\ FirstSpace \in Space /\ PagesOf(FirstSpace) = NKTAB + 3
  /\ Complete(FirstSpace) /\ FirstSpace.user = 1..PGROUNDUP(PGSIZE)
<1>1. 1 \in VPage
  <2>1. PGROUNDUP(KERNBASE) \in Nat /\ PGROUNDUP(PGSIZE) <= PGROUNDUP(KERNBASE)
    <3>1. KERNBASE \in Nat /\ PGSIZE \in Nat /\ PGSIZE <= KERNBASE
      BY Constants
    <3>2. PGROUNDUP(KERNBASE) \in Nat
      BY ONLY <3>1, RoundUpNat
    <3>3. PGROUNDUP(PGSIZE) <= PGROUNDUP(KERNBASE)
      BY ONLY <3>1, RoundUpMono
    <3> QED
      BY <3>2, <3>3
  <2> QED
    BY <2>1, RoundUpOne DEF VPage
<1>2. PDX(1) = 1
  <2>1. 0 \div NPTENTRIES = 0
    BY Constants DEF Pos
  <2> QED
    BY <2>1 DEF PDX
<1>3. 1 \in Table
  BY <1>1, <1>2, TableOf
<1>4. Cardinality({1}) = 1
  BY FS_Singleton
<1>5. FirstSpace \in Space
  BY <1>1, <1>3, Constants DEF FirstSpace, Space
<1>6. PagesOf(FirstSpace) = NKTAB + 3
  BY <1>4, Constants DEF FirstSpace, PagesOf
<1>7. Complete(FirstSpace)
  BY <1>2 DEF FirstSpace, Complete
<1>8. FirstSpace.user = 1..PGROUNDUP(PGSIZE)
  <2>1. 1..1 = {1}
    OBVIOUS
  <2> QED
    BY <2>1, RoundUpOne DEF FirstSpace
<1> QED
  BY <1>5, <1>6, <1>7, <1>8

\* The first process has all the pages that are not free.
LEMMA Initial == Init => Inv
<1> SUFFICES ASSUME Init PROVE Inv
  OBVIOUS
<1> USE DEF Init
<1>1. Types
  <2>1. free \in Nat
    BY FirstSpaceCount, MemoryAssumption
  <2>2. /\ state \in [Proc -> {"UNUSED", "EMBRYO", "RUNNABLE", "ZOMBIE"}]
        /\ kstack \in [Proc -> 0..1]
    OBVIOUS
  <2>3. pgdir \in [Proc -> Space] /\ new \in [Proc -> Space]
    BY FirstSpaceCount, NoSpaceCount
  <2>4. sz \in [Proc -> 0..(KERNBASE - 1)]
    BY Constants
  <2>5. job \in [Proc -> [call : {"none", "fork", "exec", "sbrk"}, np : 0..NPROC,
                          at : Nat, to : Nat, seg : Nat]]
    BY Constants DEF NoJob
  <2>6. /\ pc \in [Proc -> {"user", "kstack", "pgdir", "ktab", "page", "map", "fault"}]
        /\ mem = [p \in Proc |-> IF pc[p] = "map" THEN 1 ELSE 0]
    OBVIOUS
  <2> QED
    BY <2>1, <2>2, <2>3, <2>4, <2>5, <2>6 DEF Types
<1>2. \A p \in Proc : pc[p] = "user" /\ job[p].call = "none" /\ job[p].np = 0 /\ new[p] = NoSpace
  BY DEF NoJob
<1>3. Calling
  BY <1>2 DEF Calling
<1>4. Children
  BY <1>2, Constants DEF Children
<1>5. Memories
  <2> SUFFICES ASSUME NEW p \in Proc PROVE Progress(p) /\ Built(p) /\ Ready(p)
    BY DEF Memories
  <2>1. Progress(p) /\ Built(p)
    BY <1>2 DEF Progress, Built
  <2>2. Ready(p)
    BY <1>2, FirstSpaceCount DEF Ready
  <2> QED
    BY <2>1, <2>2
<1>6. Balanced
  <2> DEFINE U == DisjointUnion(Pointers)
             S == {<<initproc, "kstack">>} \X ({"stack"} \X (1..1))
             P == {<<initproc, "pgdir">>} \X PagesIn(FirstSpace)
  <2>1. U = S \cup P
    <3>1. \A x \in Proc :
            /\ Pointers[<<x, "kstack">>] = IF x = initproc THEN {"stack"} \X (1..1) ELSE {}
            /\ Pointers[<<x, "mem">>] = {}
            /\ Pointers[<<x, "pgdir">>] = IF x = initproc THEN PagesIn(FirstSpace) ELSE {}
            /\ Pointers[<<x, "new">>] = {}
      <4>1. 1..0 = {}
        OBVIOUS
      <4>2. PagesIn(NoSpace) = {}
        BY <4>1 DEF PagesIn, NoSpace
      <4> TAKE x \in Proc
      <4>3. Pointers[<<x, "kstack">>] = {"stack"} \X (1..kstack[x])
        BY Parts
      <4>4. Pointers[<<x, "mem">>] = {"page"} \X (1..mem[x])
        BY Parts
      <4>5. Pointers[<<x, "pgdir">>] = PagesIn(pgdir[x]) /\ Pointers[<<x, "new">>] = PagesIn(new[x])
        BY Parts
      <4>6. Pointers[<<x, "kstack">>] = IF x = initproc THEN {"stack"} \X (1..1) ELSE {}
        BY <4>1, <4>3
      <4>7. Pointers[<<x, "mem">>] = {}
        BY <4>1, <4>4
      <4> QED
        BY <4>2, <4>5, <4>6, <4>7
    <3>2. DOMAIN Pointers = Proc \X {"kstack", "mem", "pgdir", "new"} /\ initproc \in Proc
      BY Parts, Constants
    <3> DEFINE f == Pointers
    <3> HIDE DEF f
    <3>3. \A u : u \in DisjointUnion(f) <=> \E x \in DOMAIN f : u \in {x} \X f[x]
      BY DEF DisjointUnion
    <3>4. ASSUME NEW u \in DisjointUnion(f) PROVE u \in S \cup P
      <4>1. PICK x \in DOMAIN f : u \in {x} \X f[x]
        BY <3>3
      <4>2. PICK y \in Proc, k \in {"kstack", "mem", "pgdir", "new"} : x = <<y, k>>
        BY <3>2 DEF f
      <4>3. f[x] # {}
        BY <4>1
      <4>4. x = <<initproc, "kstack">> \/ x = <<initproc, "pgdir">>
        BY <3>1, <4>2, <4>3 DEF f
      <4> QED
        BY <3>1, <3>2, <4>1, <4>4 DEF f
    <3>5. <<initproc, "kstack">> \in DOMAIN f /\ <<initproc, "pgdir">> \in DOMAIN f
      BY <3>2 DEF f
    <3>6. /\ {<<initproc, "kstack">>} \X f[<<initproc, "kstack">>] = S
          /\ {<<initproc, "pgdir">>} \X f[<<initproc, "pgdir">>] = P
      BY <3>1, <3>2 DEF f
    <3>7. S \subseteq DisjointUnion(f) /\ P \subseteq DisjointUnion(f)
      <4> HIDE DEF S, P
      <4> QED
        BY <3>3, <3>5, <3>6
    <3> QED
      BY <3>4, <3>7 DEF f
  <2>2. IsFiniteSet(S) /\ Cardinality(S) = 1
    <3>1. IsFiniteSet({"stack"} \X (1..1)) /\ Cardinality({"stack"} \X (1..1)) = 1
      BY Numbered
    <3> QED
      BY <3>1, Addressed
  <2>3. IsFiniteSet(P) /\ Cardinality(P) = NKTAB + 3
    <3>1. IsFiniteSet(PagesIn(FirstSpace)) /\ Cardinality(PagesIn(FirstSpace)) = NKTAB + 3
      BY FirstSpaceCount, SpaceCount
    <3> QED
      BY <3>1, Addressed
  <2>4. S \cap P = {}
    OBVIOUS
  <2>5. free = NPAGE - (NKTAB + 3) - 1
    BY FirstSpaceCount
  <2> HIDE DEF S, P, U, Init
  <2>6. IsFiniteSet(S \cup P) /\ Cardinality(S \cup P) = 1 + (NKTAB + 3) - 0
    BY <2>2, <2>3, <2>4, FS_Union, FS_EmptySet
  <2>7. IsFiniteSet(U) /\ Cardinality(U) = NKTAB + 4
    BY <2>1, <2>6, Constants
  <2>8. free + (NKTAB + 4) = NPAGE
    BY <2>5, Constants
  <2> QED
    BY <2>7, <2>8 DEF Balanced, U
<1> QED
  BY <1>1, <1>3, <1>4, <1>5, <1>6 DEF Inv

\* The invariant holds.
THEOREM InvariantHolds == Spec => []Inv
<1>1. Init => Inv
  BY Initial
<1>2. Inv /\ [Next]_vars => Inv'
  <2> SUFFICES ASSUME Inv, [Next]_vars PROVE Inv'
    OBVIOUS
  <2>1. CASE UNCHANGED vars
    <3>1. Types' /\ Calling' /\ Children'
      BY <2>1 DEF Inv, vars, Types, Calling, Children, Space, NoSpace
    <3>2. Memories'
      <4> SUFFICES ASSUME NEW x \in Proc PROVE Progress(x)' /\ Built(x)' /\ Ready(x)'
        BY DEF Memories
      <4> QED
        BY <2>1, Untouched DEF Inv, vars
    <3>3. Balanced'
      BY <2>1, NothingMoves DEF Inv, vars
    <3> QED
      BY <3>1, <3>2, <3>3 DEF Inv
  <2>2. CASE Next
    <3>1. PICK p \in Proc :
            \/ Fork(p) \/ (\E n \in ExecSizes : Exec(p, n))
            \/ \E n \in Sbrks : Grow(p, n) \/ Shrink(p, n)
            \/ AllocStack(p) \/ AllocDir(p) \/ AllocKtab(p) \/ AllocPage(p) \/ MapPage(p)
            \/ ForkDone(p) \/ ExecDone(p) \/ GrowDone(p)
            \/ ForkFail(p) \/ ExecFail(p) \/ GrowFail(p)
            \/ Exit(p) \/ (\E q \in Proc : Wait(p, q))
      BY <2>2 DEF Next, Sbrk
    <3> QED
      BY <3>1, ForkPreserves, ExecPreserves, GrowPreserves, ShrinkPreserves,
         AllocStackPreserves, AllocDirPreserves, AllocKtabPreserves, AllocPagePreserves,
         MapPagePreserves, ForkDonePreserves, ExecDonePreserves, GrowDonePreserves,
         ForkFailPreserves, ExecFailPreserves, GrowFailPreserves, ExitPreserves, WaitPreserves
  <2> QED
    BY <2>1, <2>2
<1> QED
  BY <1>1, <1>2, PTL DEF Spec

\* However fork, exec, sbrk, exit and wait of any number of processes interleave,
\* and wherever each of them runs out of memory, the pages of the free list and
\* the pages pointed to add up to all there are: none is lost, freed twice or
\* given to two users (kalloc.c, vm.c, allocproc, fork, growproc, exec, wait).
THEOREM PagesExactHolds == Spec => []PagesExact
<1>1. Inv => PagesExact
  <2> SUFFICES ASSUME Inv PROVE PagesExact
    OBVIOUS
  <2>1. free \in 0..NPAGE
    <3>1. Cardinality(DisjointUnion(Pointers)) \in Nat /\ free \in Nat
      BY FS_CardinalityType DEF Inv, Balanced, Types
    <3> QED
      BY <3>1, Constants DEF Inv, Balanced
  <2>2. sz \in [Proc -> 0..KERNBASE]
    <3>1. \A n \in 0..(KERNBASE - 1) : n \in 0..KERNBASE
      BY Constants
    <3> QED
      BY <3>1 DEF Inv, Types
  <2>3. ASSUME NEW q \in Proc, state[q] = "EMBRYO"
        PROVE  Cardinality({p \in Proc : job[p].np = q}) = 1
    <3>1. PICK p \in Proc : job[p].np = q
      BY <2>3 DEF Inv, Children
    <3>2. {x \in Proc : job[x].np = q} = {p}
      BY <3>1, Constants DEF Inv, Children
    <3> QED
      BY <3>2, FS_Singleton
  <2>4. TypeOK
    BY <2>1, <2>2, <2>3 DEF TypeOK, Inv, Types
  <2> QED
    BY <2>4 DEF PagesExact, Inv, Balanced
<1> QED
  BY <1>1, InvariantHolds, PTL

\* A process that can run has a kernel stack, the kernel's mappings and exactly
\* the pages below p->sz, so that switchuvm and copyuvm do not panic (vm.c).
THEOREM SzMappedHolds == Spec => []SzMapped
<1>1. Inv => SzMapped
  BY DEF Inv, Memories, Ready, Complete, SzMapped, Switchable
<1> QED
  BY <1>1, InvariantHolds, PTL
=============================================================================
