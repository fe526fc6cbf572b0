---------------------------- MODULE FileSysProofs ----------------------------
(***************************************************************************)
(* References to inodes and open files, for any number of processes, any   *)
(* disk and any calls: every pointer is counted, on every path through     *)
(* every call.                                                             *)
(***************************************************************************)
EXTENDS FileSys, SleepLock, FiniteSetTheorems, WellFoundedInduction, TLAPS

Elem == Entry \cup {"."}
Op == {"open", "openw", "creat", "mkdir", "mknod", "chdir", "unlink", "link"}
Node == Inum \cup {0}

Locals == [op : Op \cup {"none"}, rest : Seq(Elem), new : {c.new : c \in Calls} \cup {<< >>},
           dp : Node, ip : Node, puts : Seq(Inum), then : Label]

NodeTypes ==
  /\ dinode \in [Inum -> [type : {"none", "DIR", "FILE", "DEV"}, nlink : Int]]
  /\ dir \in [Inum -> [Entry -> Node]]
  /\ valid \in [Inum -> BOOLEAN]
  /\ lock \in [Inum -> Proc \cup {Nobody}]

FileTypes ==
  /\ file \in [File -> [ref : Nat, ip : Node]]
  /\ ofile \in [Proc -> [Fd -> File \cup {0}]] /\ cwd \in [Proc -> Node]

Types ==
  /\ NodeTypes /\ FileTypes
  /\ ref \in [Inum -> Nat]
  /\ pc \in [Proc -> Label] /\ loc \in [Proc -> Locals]

\* The labels of iput.
Putting == {"iput", "itrunc", "iref"}

\* Which inodes a call has in its variables at label x.
Fits(x, l) ==
  /\ x \in {"user", "exit"} => l.dp = 0 /\ l.ip = 0
  /\ x = "walk" => l.op \in Op /\ l.dp # 0 /\ (l.ip # 0 => l.op = "link")
  /\ x \in {"create", "unlink", "unlinkbad"} => l.dp # 0 /\ l.ip = 0
  /\ x \in {"createnew", "unlinkip", "linkdir", "linkput"} => l.dp # 0 /\ l.ip # 0
  /\ x \in {"created", "createold", "open", "openfile", "chdir", "unlinked", "link", "linkbad"} =>
       l.dp = 0 /\ l.ip # 0
  /\ x \in {"create", "createnew", "unlink", "unlinkip", "linkdir"} => l.rest # << >>
  /\ x = "link" => l.op = "link"

\* What it has to put before it goes on.
Shape(x, l) ==
  /\ Len(l.puts) <= 2
  /\ l.op = "link" => Elems(l.new) \in Seq(Elem)
  /\ IF x \in Putting THEN l.puts # << >> /\ l.then \notin Putting /\ Fits(l.then, l)
     ELSE l.puts = << >> /\ Fits(x, l)

Shapes == \A p \in Proc : Shape(pc[p], loc[p])

\* A process that does not exist, or is on its last step, has no descriptors.
Gone(x, l) == x = "user" \/ (x \in Putting /\ l.then = "user")
Alive == \A p \in Proc : cwd[p] = 0 => Gone(pc[p], loc[p]) /\ \A d \in Fd : ofile[p][d] = 0

\* The counts, and that a file that is not used points to nothing.
Counted == \A i \in Inum : ref[i] = Cardinality(Pointers(i))
Described == \A f \in File : file[f].ref = Cardinality(Descriptors(f))
Unused == \A f \in File : file[f].ref = 0 <=> file[f].ip = 0

Inv == Types /\ Shapes /\ Alive /\ Counted /\ Described /\ Unused

-----------------------------------------------------------------------------
(* Counting *)

One(a, i) == IF a = i THEN 1 ELSE 0

First(s) == IF Len(s) >= 1 THEN s[1] ELSE 0
Second(s) == IF Len(s) >= 2 THEN s[2] ELSE 0

\* How often the variables of a call point to inode i.
Owns(l, i) == One(l.dp, i) + One(l.ip, i) + One(First(l.puts), i) + One(Second(l.puts), i)

\* The places are finitely many.
LEMMA Finite ==
  /\ IsFiniteSet(Place) /\ IsFiniteSet(Proc \X Fd) /\ IsFiniteSet(Fd)
  /\ \A i : IsFiniteSet(Pointers(i)) /\ Cardinality(Pointers(i)) \in Nat
  /\ \A f : IsFiniteSet(Descriptors(f)) /\ Cardinality(Descriptors(f)) \in Nat
<1>1. IsFiniteSet(File) /\ IsFiniteSet(Fd) /\ IsFiniteSet(Proc)
  <2>1. NFILE \in Int /\ NOFILE \in Int /\ 1 \in Int
    BY FileSysAssumption
  <2> QED
    BY <2>1, FS_Interval, FileSysAssumption DEF File, Fd
<1>2. IsFiniteSet({"file"})
  BY FS_Singleton
<1>3. IsFiniteSet({"cwd", "dp", "ip", "put1", "put2"})
  <2>1. IsFiniteSet({"cwd"})
    BY FS_Singleton
  <2>2. IsFiniteSet({"cwd"} \cup {"dp"})
    BY <2>1, FS_AddElement
  <2>3. IsFiniteSet(({"cwd"} \cup {"dp"}) \cup {"ip"})
    BY <2>2, FS_AddElement
  <2>4. IsFiniteSet((({"cwd"} \cup {"dp"}) \cup {"ip"}) \cup {"put1"})
    BY <2>3, FS_AddElement
  <2>5. IsFiniteSet(((({"cwd"} \cup {"dp"}) \cup {"ip"}) \cup {"put1"}) \cup {"put2"})
    BY <2>4, FS_AddElement
  <2>6. ((({"cwd"} \cup {"dp"}) \cup {"ip"}) \cup {"put1"}) \cup {"put2"} = {"cwd", "dp", "ip", "put1", "put2"}
    OBVIOUS
  <2> QED
    BY <2>5, <2>6
<1>4. IsFiniteSet({"file"} \X File) /\ IsFiniteSet({"cwd", "dp", "ip", "put1", "put2"} \X Proc)
      /\ IsFiniteSet(Proc \X Fd)
  BY <1>1, <1>2, <1>3, FS_Product
<1>5. IsFiniteSet(Place)
  BY <1>4, FS_Union DEF Place
<1>6. ASSUME NEW i PROVE IsFiniteSet(Pointers(i)) /\ Cardinality(Pointers(i)) \in Nat
  <2>1. Pointers(i) \subseteq Place
    BY DEF Pointers
  <2> QED
    BY <1>5, <2>1, FS_Subset, FS_CardinalityType
<1>7. ASSUME NEW f PROVE IsFiniteSet(Descriptors(f)) /\ Cardinality(Descriptors(f)) \in Nat
  <2>1. Descriptors(f) \subseteq Proc \X Fd
    BY DEF Descriptors
  <2> QED
    BY <1>4, <2>1, FS_Subset, FS_CardinalityType
<1> QED
  BY <1>1, <1>4, <1>5, <1>6, <1>7

\* One more element, or not.
If(a, i, x) == IF a = i THEN {x} ELSE {}

LEMMA CardIf ==
  ASSUME NEW S, IsFiniteSet(S), NEW x, x \notin S, NEW a, NEW i
  PROVE  /\ IsFiniteSet(S \cup If(a, i, x))
         /\ Cardinality(S \cup If(a, i, x)) = Cardinality(S) + One(a, i)
         /\ Cardinality(S) \in Nat
<1>1. Cardinality(S) \in Nat
  BY FS_CardinalityType
<1>2. CASE a = i
  <2>1. IsFiniteSet(S \cup {x}) /\ Cardinality(S \cup {x}) = Cardinality(S) + 1
    BY FS_AddElement
  <2>2. S \cup If(a, i, x) = S \cup {x} /\ One(a, i) = 1
    BY <1>2 DEF If, One
  <2> QED
    BY <1>1, <2>1, <2>2
<1>3. CASE a # i
  <2>1. S \cup If(a, i, x) = S /\ One(a, i) = 0
    BY <1>3 DEF If, One
  <2>2. Cardinality(S) = Cardinality(S) + 0
    BY <1>1
  <2> QED
    BY ONLY <1>1, <2>1, <2>2, IsFiniteSet(S)
<1> QED
  BY <1>2, <1>3

\* The targets of the places of process p.
LEMMA OwnTargets ==
  ASSUME NEW p
  PROVE  /\ Target(<<"cwd", p>>) = cwd[p]
         /\ Target(<<"dp", p>>) = loc[p].dp
         /\ Target(<<"ip", p>>) = loc[p].ip
         /\ Target(<<"put1", p>>) = First(loc[p].puts)
         /\ Target(<<"put2", p>>) = Second(loc[p].puts)
  BY DEF Target, First, Second

LEMMA OwnTargetsNext ==
  ASSUME NEW p
  PROVE  /\ Target(<<"cwd", p>>)' = cwd'[p]
         /\ Target(<<"dp", p>>)' = loc'[p].dp
         /\ Target(<<"ip", p>>)' = loc'[p].ip
         /\ Target(<<"put1", p>>)' = First(loc'[p].puts)
         /\ Target(<<"put2", p>>)' = Second(loc'[p].puts)
  BY DEF Target, First, Second

\* A file's.
LEMMA FileTargets == \A f : Target(<<"file", f>>) = file[f].ip /\ Target(<<"file", f>>)' = file'[f].ip
  BY DEF Target

\* What the places are.
LEMMA Places ==
  \A x : x \in Place <=> \/ \E f \in File : x = <<"file", f>>
                         \/ \E k \in {"cwd", "dp", "ip", "put1", "put2"}, q \in Proc : x = <<k, q>>
  BY DEF Place

\* The places of other processes, and of files other than g.
Elsewhere(p, g) ==
  {x \in Place : (\E f \in File : f # g /\ x = <<"file", f>>)
                 \/ \E k \in {"cwd", "dp", "ip", "put1", "put2"}, q \in Proc : q # p /\ x = <<k, q>>}

Away(p, g, i) == {x \in Elsewhere(p, g) : Target(x) = i}

\* Pointers to an inode are those of process p, of file g and the others.
Parts(A, p, g, i, c, d, e, s, f) ==
  (((((A \cup If(c, i, <<"cwd", p>>)) \cup If(d, i, <<"dp", p>>)) \cup If(e, i, <<"ip", p>>))
      \cup If(First(s), i, <<"put1", p>>)) \cup If(Second(s), i, <<"put2", p>>)) \cup If(f, i, <<"file", g>>)

LEMMA PartsSize ==
  ASSUME NEW A, NEW p, NEW g, A \subseteq Elsewhere(p, g), NEW i, NEW c, NEW d, NEW e, NEW s, NEW f
  PROVE  /\ Cardinality(A) \in Nat
         /\ Cardinality(Parts(A, p, g, i, c, d, e, s, f))
              = Cardinality(A) + (One(c, i) + (One(d, i) + One(e, i) + One(First(s), i) + One(Second(s), i))
                                  + One(f, i))
<1> DEFINE A1 == A \cup If(c, i, <<"cwd", p>>)
           A2 == A1 \cup If(d, i, <<"dp", p>>)
           A3 == A2 \cup If(e, i, <<"ip", p>>)
           A4 == A3 \cup If(First(s), i, <<"put1", p>>)
           A5 == A4 \cup If(Second(s), i, <<"put2", p>>)
           A6 == A5 \cup If(f, i, <<"file", g>>)
<1>1. IsFiniteSet(A)
  <2>1. A \in SUBSET Place
    BY DEF Elsewhere
  <2> QED
    BY <2>1, Finite, FS_Subset
<1>2. /\ <<"cwd", p>> \notin A /\ <<"dp", p>> \notin A1 /\ <<"ip", p>> \notin A2
      /\ <<"put1", p>> \notin A3 /\ <<"put2", p>> \notin A4 /\ <<"file", g>> \notin A5
  <2>1. \A x \in A : /\ x # <<"cwd", p>> /\ x # <<"dp", p>> /\ x # <<"ip", p>>
                     /\ x # <<"put1", p>> /\ x # <<"put2", p>> /\ x # <<"file", g>>
    BY DEF Elsewhere
  <2>2. \A a, x, y : y \in If(a, i, x) => y = x
    BY DEF If
  <2> QED
    BY <2>1, <2>2
<1> HIDE DEF A1, A2, A3, A4, A5, A6
<1>3. IsFiniteSet(A1) /\ Cardinality(A1) = Cardinality(A) + One(c, i) /\ Cardinality(A) \in Nat
  <2>1. A1 = A \cup If(c, i, <<"cwd", p>>) /\ <<"cwd", p>> \notin A /\ IsFiniteSet(A)
    BY <1>2, <1>1 DEF A1
  <2> QED
    BY ONLY <2>1, CardIf
<1>4. IsFiniteSet(A2) /\ Cardinality(A2) = Cardinality(A1) + One(d, i)
  <2>1. A2 = A1 \cup If(d, i, <<"dp", p>>) /\ <<"dp", p>> \notin A1 /\ IsFiniteSet(A1)
    BY <1>2, <1>3 DEF A2
  <2> QED
    BY ONLY <2>1, CardIf
<1>5. IsFiniteSet(A3) /\ Cardinality(A3) = Cardinality(A2) + One(e, i)
  <2>1. A3 = A2 \cup If(e, i, <<"ip", p>>) /\ <<"ip", p>> \notin A2 /\ IsFiniteSet(A2)
    BY <1>2, <1>4 DEF A3
  <2> QED
    BY ONLY <2>1, CardIf
<1>6. IsFiniteSet(A4) /\ Cardinality(A4) = Cardinality(A3) + One(First(s), i)
  <2>1. A4 = A3 \cup If(First(s), i, <<"put1", p>>) /\ <<"put1", p>> \notin A3 /\ IsFiniteSet(A3)
    BY <1>2, <1>5 DEF A4
  <2> QED
    BY ONLY <2>1, CardIf
<1>7. IsFiniteSet(A5) /\ Cardinality(A5) = Cardinality(A4) + One(Second(s), i)
  <2>1. A5 = A4 \cup If(Second(s), i, <<"put2", p>>) /\ <<"put2", p>> \notin A4 /\ IsFiniteSet(A4)
    BY <1>2, <1>6 DEF A5
  <2> QED
    BY ONLY <2>1, CardIf
<1>8. Cardinality(A6) = Cardinality(A5) + One(f, i)
  <2>1. A6 = A5 \cup If(f, i, <<"file", g>>) /\ <<"file", g>> \notin A5 /\ IsFiniteSet(A5)
    BY <1>2, <1>7 DEF A6
  <2> QED
    BY ONLY <2>1, CardIf
<1>9. \A a : One(a, i) \in Nat
  BY DEF One
<1>10. Parts(A, p, g, i, c, d, e, s, f) = A6
  BY DEF Parts, A1, A2, A3, A4, A5, A6
<1> QED
  BY ONLY <1>3, <1>4, <1>5, <1>6, <1>7, <1>8, <1>9, <1>10

\* The target of a file that is none.
IpOf(g) == IF g \in File THEN file[g].ip ELSE 0

LEMMA PointersParts ==
  ASSUME NEW p \in Proc, NEW g \in File \cup {0}, NEW i \in Inum
  PROVE  Pointers(i) = Parts(Away(p, g, i), p, g, i, cwd[p], loc[p].dp, loc[p].ip, loc[p].puts, IpOf(g))
<1> DEFINE U == Parts(Away(p, g, i), p, g, i, cwd[p], loc[p].dp, loc[p].ip, loc[p].puts, IpOf(g))
<1>1. \A y : y \in U <=> \/ y \in Away(p, g, i)
                         \/ y = <<"cwd", p>> /\ cwd[p] = i
                         \/ y = <<"dp", p>> /\ loc[p].dp = i
                         \/ y = <<"ip", p>> /\ loc[p].ip = i
                         \/ y = <<"put1", p>> /\ First(loc[p].puts) = i
                         \/ y = <<"put2", p>> /\ Second(loc[p].puts) = i
                         \/ y = <<"file", g>> /\ IpOf(g) = i
  BY DEF Parts, If
<1> HIDE DEF U
<1>2. 0 # i /\ 0 \notin File
  BY DEF Inum, File
<1>3. ASSUME NEW y \in Pointers(i) PROVE y \in U
  <2>1. y \in Place /\ Target(y) = i
    BY DEF Pointers
  <2>2. CASE y \in Elsewhere(p, g)
    BY <1>1, <2>1, <2>2 DEF Away
  <2>3. CASE g \in File /\ y = <<"file", g>>
    BY <1>1, <2>1, <2>3, FileTargets DEF IpOf
  <2>4. CASE \E k \in {"cwd", "dp", "ip", "put1", "put2"} : y = <<k, p>>
    BY <1>1, <2>1, <2>4, OwnTargets
  <2> QED
    BY <1>2, <2>1, <2>2, <2>3, <2>4, Places DEF Elsewhere
<1>4. ASSUME NEW y \in U PROVE y \in Pointers(i)
  <2>1. CASE y \in Away(p, g, i)
    BY <2>1 DEF Away, Elsewhere, Pointers
  <2>2. CASE y = <<"file", g>> /\ IpOf(g) = i
    <3>1. g \in File /\ Target(y) = i
      BY <1>2, <2>2, FileTargets DEF IpOf
    <3> QED
      BY <2>2, <3>1, Places DEF Pointers
  <2>3. CASE y # <<"file", g>> /\ y \notin Away(p, g, i)
    <3>1. Target(y) = i /\ \E k \in {"cwd", "dp", "ip", "put1", "put2"} : y = <<k, p>>
      BY <1>1, <2>3, OwnTargets
    <3> QED
      BY <3>1, Places DEF Pointers
  <2> QED
    BY <1>1, <2>1, <2>2, <2>3
<1> QED
  BY <1>3, <1>4 DEF U

LEMMA PointersPartsNext ==
  ASSUME NEW p \in Proc, NEW g \in File \cup {0}, NEW i \in Inum
  PROVE  Pointers(i)' = Parts(Away(p, g, i)', p, g, i, cwd'[p], loc'[p].dp, loc'[p].ip, loc'[p].puts, IpOf(g)')
<1> DEFINE All == \A q \in Proc, h \in File \cup {0}, j \in Inum :
      Pointers(j) = Parts(Away(q, h, j), q, h, j, cwd[q], loc[q].dp, loc[q].ip, loc[q].puts, IpOf(h))
<1>1. All
  BY PointersParts
<1>2. All'
  <2> HIDE DEF All
  <2> QED
    BY <1>1, PTL
<1> QED
  BY <1>2

\* A step of p that changes file g leaves the other pointers.
LEMMA AwaySame ==
  ASSUME NEW p \in Proc, NEW g \in File \cup {0}, NEW i \in Inum,
         \A q \in Proc : q # p => cwd'[q] = cwd[q] /\ loc'[q] = loc[q],
         \A f \in File : f # g => file'[f].ip = file[f].ip
  PROVE  Away(p, g, i)' = Away(p, g, i)
<1>1. Elsewhere(p, g)' = Elsewhere(p, g)
  BY DEF Elsewhere
<1>2. ASSUME NEW x \in Elsewhere(p, g) PROVE Target(x)' = Target(x)
  <2>1. CASE \E f \in File : f # g /\ x = <<"file", f>>
    BY <2>1, FileTargets
  <2>2. CASE \E k \in {"cwd", "dp", "ip", "put1", "put2"}, q \in Proc : q # p /\ x = <<k, q>>
    <3>1. PICK k \in {"cwd", "dp", "ip", "put1", "put2"}, q \in Proc : q # p /\ x = <<k, q>>
      BY <2>2
    <3>2. cwd'[q] = cwd[q] /\ loc'[q] = loc[q]
      BY <3>1
    <3>3. /\ Target(<<"cwd", q>>)' = Target(<<"cwd", q>>) /\ Target(<<"dp", q>>)' = Target(<<"dp", q>>)
          /\ Target(<<"ip", q>>)' = Target(<<"ip", q>>)
      BY ONLY <3>2, OwnTargets, OwnTargetsNext
    <3>4. /\ Target(<<"put1", q>>)' = Target(<<"put1", q>>) /\ Target(<<"put2", q>>)' = Target(<<"put2", q>>)
      BY ONLY <3>2, OwnTargets, OwnTargetsNext
    <3> QED
      BY ONLY <3>1, <3>3, <3>4
  <2> QED
    BY <2>1, <2>2 DEF Elsewhere
<1> QED
  BY <1>1, <1>2 DEF Away

\* References are counted if the step counts what it does to its own pointers.
Account(c, l, f, i) == One(c, i) + Owns(l, i) + One(f, i)

LEMMA Recount ==
  ASSUME Counted, NEW p \in Proc, NEW g \in File \cup {0},
         \A q \in Proc : q # p => cwd'[q] = cwd[q] /\ loc'[q] = loc[q],
         \A f \in File : f # g => file'[f].ip = file[f].ip,
         \A i \in Inum : /\ ref'[i] \in Int
                         /\ ref'[i] + Account(cwd[p], loc[p], IpOf(g), i)
                              = ref[i] + Account(cwd'[p], loc'[p], IpOf(g)', i)
  PROVE  Counted' /\ \A i \in Inum : ref'[i] \in Nat
<1> SUFFICES ASSUME NEW i \in Inum PROVE ref'[i] = Cardinality(Pointers(i)') /\ ref'[i] \in Nat
  BY DEF Counted
<1>1. PICK A : A = Away(p, g, i) /\ A = Away(p, g, i)'
  BY AwaySame
<1>2. A \subseteq Elsewhere(p, g)
  BY <1>1 DEF Away
<1>3. PICK c, l, f, c2, l2, f2 : /\ c = cwd[p] /\ l = loc[p] /\ f = IpOf(g)
                                 /\ c2 = cwd'[p] /\ l2 = loc'[p] /\ f2 = IpOf(g)'
  OBVIOUS
<1>4. PICK S : S = Pointers(i)
  OBVIOUS
<1>5. PICK S2 : S2 = Pointers(i)'
  OBVIOUS
<1>6. Cardinality(A) \in Nat /\ Cardinality(S) = Cardinality(A) + Account(c, l, f, i)
  <2>1. S = Parts(A, p, g, i, c, l.dp, l.ip, l.puts, f)
    BY <1>1, <1>3, <1>4, PointersParts
  <2>2. /\ Cardinality(A) \in Nat
        /\ Cardinality(Parts(A, p, g, i, c, l.dp, l.ip, l.puts, f))
              = Cardinality(A) + (One(c, i) + (One(l.dp, i) + One(l.ip, i) + One(First(l.puts), i)
                                               + One(Second(l.puts), i)) + One(f, i))
    BY ONLY <1>2, PartsSize
  <2>3. Account(c, l, f, i) = One(c, i) + (One(l.dp, i) + One(l.ip, i) + One(First(l.puts), i)
                                           + One(Second(l.puts), i)) + One(f, i)
    BY ONLY DEF Account, Owns
  <2> QED
    BY ONLY <2>1, <2>2, <2>3
<1>7. Cardinality(S2) = Cardinality(A) + Account(c2, l2, f2, i)
  <2>1. S2 = Parts(A, p, g, i, c2, l2.dp, l2.ip, l2.puts, f2)
    BY <1>1, <1>3, <1>5, PointersPartsNext
  <2>2. /\ Cardinality(A) \in Nat
        /\ Cardinality(Parts(A, p, g, i, c2, l2.dp, l2.ip, l2.puts, f2))
              = Cardinality(A) + (One(c2, i) + (One(l2.dp, i) + One(l2.ip, i) + One(First(l2.puts), i)
                                               + One(Second(l2.puts), i)) + One(f2, i))
    BY ONLY <1>2, PartsSize
  <2>3. Account(c2, l2, f2, i) = One(c2, i) + (One(l2.dp, i) + One(l2.ip, i) + One(First(l2.puts), i)
                                           + One(Second(l2.puts), i)) + One(f2, i)
    BY ONLY DEF Account, Owns
  <2> QED
    BY ONLY <2>1, <2>2, <2>3
<1>8. ref[i] = Cardinality(S) /\ ref'[i] \in Int
      /\ ref'[i] + Account(c, l, f, i) = ref[i] + Account(c2, l2, f2, i)
  BY <1>3, <1>4 DEF Counted
<1>9. \A a, b, d : Account(a, b, d, i) \in Nat
  BY DEF Account, Owns, One
<1>10. ref'[i] = Cardinality(S2) /\ ref'[i] \in Nat
  BY ONLY <1>6, <1>7, <1>8, <1>9
<1> QED
  BY <1>5, <1>10

\* One file more or less.
LEMMA OneIs == \A a, i : One(a, i) \in Nat
  BY DEF One

-----------------------------------------------------------------------------
(* The inode layer and the variables of calls *)

\* A record of local variables.
Rec(op, rest, new, dp, ip, puts, then) ==
  [op |-> op, rest |-> rest, new |-> new, dp |-> dp, ip |-> ip, puts |-> puts, then |-> then]

LEMMA RecIs ==
  ASSUME NEW op, NEW rest, NEW new, NEW dp, NEW ip, NEW puts, NEW then
  PROVE  LET r == Rec(op, rest, new, dp, ip, puts, then) IN
         /\ r.op = op /\ r.rest = rest /\ r.new = new /\ r.dp = dp /\ r.ip = ip
         /\ r.puts = puts /\ r.then = then
  BY DEF Rec

\* The variables that steps assign to.
SetRest(l, a) == [l EXCEPT !.rest = a]
SetDp(l, a) == [l EXCEPT !.dp = a]
SetIp(l, a) == [l EXCEPT !.ip = a]
SetPuts(l, a) == [l EXCEPT !.puts = a]
SetThen(l, a) == [l EXCEPT !.then = a]
SetPut(l, a, b) == [l EXCEPT !.puts = a, !.then = b]
SetIpDp(l, a, b) == [l EXCEPT !.ip = a, !.dp = b]
SetDpIp(l, a, b) == [l EXCEPT !.dp = a, !.ip = b]
SetDpRest(l, a, b) == [l EXCEPT !.dp = a, !.rest = b]
SetNext(l, b) == [l EXCEPT !.rest = Tail(@), !.dp = b]

\* What the steps assign to them.
LEMMA Assigned ==
  ASSUME NEW l \in Locals, NEW a, NEW b
  PROVE  /\ SetPut(l, a, b) = Rec(l.op, l.rest, l.new, l.dp, l.ip, a, b)
         /\ SetIpDp(l, a, b) = Rec(l.op, l.rest, l.new, b, a, l.puts, l.then)
         /\ SetDpIp(l, a, b) = Rec(l.op, l.rest, l.new, a, b, l.puts, l.then)
         /\ SetDpRest(l, a, b) = Rec(l.op, b, l.new, a, l.ip, l.puts, l.then)
         /\ SetDp(l, a) = Rec(l.op, l.rest, l.new, a, l.ip, l.puts, l.then)
         /\ SetIp(l, a) = Rec(l.op, l.rest, l.new, l.dp, a, l.puts, l.then)
         /\ SetNext(l, b) = Rec(l.op, Tail(l.rest), l.new, b, l.ip, l.puts, l.then)
<1>1. l = Rec(l.op, l.rest, l.new, l.dp, l.ip, l.puts, l.then)
  BY DEF Locals, Rec
<1>2. PICK o, e, n, d, i, s, t, c :
        /\ l = Rec(o, e, n, d, i, s, t)
        /\ o = l.op /\ e = l.rest /\ n = l.new /\ d = l.dp /\ i = l.ip /\ s = l.puts /\ t = l.then
        /\ c = Tail(e)
  BY <1>1
<1>3. l = Rec(o, e, n, d, i, s, t)
  BY <1>2
<1>4. SetPut(l, a, b) = Rec(o, e, n, d, i, a, b)
  <2>1. PICK m : m = SetPuts(l, a)
    OBVIOUS
  <2>2. m = Rec(o, e, n, d, i, a, t)
    BY ONLY <1>3, <2>1 DEF Rec, SetPuts
  <2>3. SetThen(m, b) = Rec(o, e, n, d, i, a, b)
    BY ONLY <2>2 DEF Rec, SetThen
  <2>4. SetPut(l, a, b) = SetThen(m, b)
    BY <2>1 DEF SetPut, SetPuts, SetThen
  <2> QED
    BY ONLY <2>3, <2>4
<1>5. SetIpDp(l, a, b) = Rec(o, e, n, b, a, s, t)
  <2>1. PICK m : m = SetIp(l, a)
    OBVIOUS
  <2>2. m = Rec(o, e, n, d, a, s, t)
    BY ONLY <1>3, <2>1 DEF Rec, SetIp
  <2>3. SetDp(m, b) = Rec(o, e, n, b, a, s, t)
    BY ONLY <2>2 DEF Rec, SetDp
  <2>4. SetIpDp(l, a, b) = SetDp(m, b)
    BY <2>1 DEF SetIpDp, SetIp, SetDp
  <2> QED
    BY ONLY <2>3, <2>4
<1>6. SetDpIp(l, a, b) = Rec(o, e, n, a, b, s, t)
  <2>1. PICK m : m = SetDp(l, a)
    OBVIOUS
  <2>2. m = Rec(o, e, n, a, i, s, t)
    BY ONLY <1>3, <2>1 DEF Rec, SetDp
  <2>3. SetIp(m, b) = Rec(o, e, n, a, b, s, t)
    BY ONLY <2>2 DEF Rec, SetIp
  <2>4. SetDpIp(l, a, b) = SetIp(m, b)
    BY <2>1 DEF SetDpIp, SetDp, SetIp
  <2> QED
    BY ONLY <2>3, <2>4
<1>7. SetDpRest(l, a, b) = Rec(o, b, n, a, i, s, t)
  <2>1. PICK m : m = SetDp(l, a)
    OBVIOUS
  <2>2. m = Rec(o, e, n, a, i, s, t)
    BY ONLY <1>3, <2>1 DEF Rec, SetDp
  <2>3. SetRest(m, b) = Rec(o, b, n, a, i, s, t)
    BY ONLY <2>2 DEF Rec, SetRest
  <2>4. SetDpRest(l, a, b) = SetRest(m, b)
    BY <2>1 DEF SetDpRest, SetDp, SetRest
  <2> QED
    BY ONLY <2>3, <2>4
<1>8. SetDp(l, a) = Rec(o, e, n, a, i, s, t)
  BY ONLY <1>3 DEF Rec, SetDp
<1>9. SetIp(l, a) = Rec(o, e, n, d, a, s, t)
  BY ONLY <1>3 DEF Rec, SetIp
<1>10. SetNext(l, b) = Rec(o, c, n, b, i, s, t)
  <2>1. PICK m : m = SetRest(l, c)
    OBVIOUS
  <2>2. m = Rec(o, c, n, d, i, s, t)
    BY ONLY <1>3, <2>1 DEF Rec, SetRest
  <2>3. SetDp(m, b) = Rec(o, c, n, b, i, s, t)
    BY ONLY <2>2 DEF Rec, SetDp
  <2>4. SetNext(l, b) = SetDp(m, b)
    BY <1>2, <2>1 DEF SetNext, SetRest, SetDp
  <2> QED
    BY ONLY <2>3, <2>4
<1> QED
  BY ONLY <1>2, <1>4, <1>5, <1>6, <1>7, <1>8, <1>9, <1>10

LEMMA InLocals ==
  ASSUME NEW op \in Op \cup {"none"}, NEW rest \in Seq(Elem), NEW new \in {c.new : c \in Calls} \cup {<< >>},
         NEW dp \in Node, NEW ip \in Node, NEW puts \in Seq(Inum), NEW then \in Label
  PROVE  Rec(op, rest, new, dp, ip, puts, then) \in Locals
  BY DEF Rec, Locals

LEMMA LocalsAre ==
  ASSUME NEW l \in Locals
  PROVE  /\ l.op \in Op \cup {"none"} /\ l.rest \in Seq(Elem) /\ l.new \in {c.new : c \in Calls} \cup {<< >>}
         /\ l.dp \in Node /\ l.ip \in Node /\ l.puts \in Seq(Inum) /\ l.then \in Label
  BY DEF Locals

LEMMA NoLocalsIs ==
  /\ NoLocals = Rec("none", << >>, << >>, 0, 0, << >>, "user")
  /\ NoLocals \in Locals
<1>1. NoLocals = Rec("none", << >>, << >>, 0, 0, << >>, "user")
  BY DEF NoLocals, Rec
<1>2. << >> \in Seq(Elem) /\ << >> \in Seq(Inum) /\ 0 \in Node /\ "user" \in Label
  BY DEF Node, Label
<1>3. Rec("none", << >>, << >>, 0, 0, << >>, "user") \in Locals
  BY <1>2, InLocals
<1> QED
  BY <1>1, <1>3

\* Where p is after a step.
LEMMA GotoIs ==
  ASSUME Types, NEW p \in Proc, NEW x \in Label, NEW r \in Locals, Goto(p, x, r)
  PROVE  /\ pc' \in [Proc -> Label] /\ loc' \in [Proc -> Locals] /\ pc'[p] = x /\ loc'[p] = r
         /\ \A q \in Proc : q # p => pc'[q] = pc[q] /\ loc'[q] = loc[q]
<1>1. pc \in [Proc -> Label] /\ loc \in [Proc -> Locals]
  BY DEF Types
<1>2. pc' = [pc EXCEPT ![p] = x] /\ loc' = [loc EXCEPT ![p] = r]
  BY DEF Goto
<1> QED
  BY ONLY <1>1, <1>2, p \in Proc, x \in Label, r \in Locals

\* What the files count does not change with the variables of calls.
LEMMA FilesKept ==
  ASSUME Described, Unused, file' = file, ofile' = ofile
  PROVE  Described' /\ Unused'
<1>1. \A f : Descriptors(f)' = Descriptors(f)
  BY DEF Descriptors
<1> QED
  BY <1>1 DEF Described, Unused

\* Shapes of the processes that do nothing.
LEMMA ShapesKept ==
  ASSUME Shapes, NEW p \in Proc, Shape(pc'[p], loc'[p]),
         \A q \in Proc : q # p => pc'[q] = pc[q] /\ loc'[q] = loc[q]
  PROVE  Shapes'
<1>1. ASSUME NEW q \in Proc PROVE Shape(pc'[q], loc'[q])
  <2>1. CASE q = p
    BY <2>1
  <2>2. CASE q # p
    <3>1. pc'[q] = pc[q] /\ loc'[q] = loc[q] /\ Shape(pc[q], loc[q])
      BY <2>2 DEF Shapes
    <3> QED
      BY ONLY <3>1
  <2> QED
    BY <2>1, <2>2
<1> QED
  BY <1>1 DEF Shapes

\* A step of a call that leaves the files: what is left to show.
LEMMA CallStep ==
  ASSUME Inv, NEW p \in Proc, NEW x \in Label, NEW r \in Locals, Goto(p, x, r),
         UNCHANGED files, Shape(x, r), cwd[p] # 0 \/ Gone(x, r), NodeTypes',
         ref' = [i \in Inum |-> ref'[i]],
         \A i \in Inum : ref'[i] \in Int /\ ref'[i] + Owns(loc[p], i) = ref[i] + Owns(r, i)
  PROVE  Inv'
<1>1. /\ pc' \in [Proc -> Label] /\ loc' \in [Proc -> Locals] /\ pc'[p] = x /\ loc'[p] = r
      /\ \A q \in Proc : q # p => pc'[q] = pc[q] /\ loc'[q] = loc[q]
  BY GotoIs DEF Inv
<1>2. file' = file /\ ofile' = ofile /\ cwd' = cwd
  BY DEF files
<1>3. Counted' /\ \A i \in Inum : ref'[i] \in Nat
  <2>1. /\ \A q \in Proc : q # p => cwd'[q] = cwd[q] /\ loc'[q] = loc[q]
        /\ \A f \in File : f # 0 => file'[f].ip = file[f].ip
        /\ 0 \in File \cup {0} /\ Counted
    BY <1>1, <1>2 DEF Inv
  <2>2. ASSUME NEW i \in Inum
        PROVE  /\ ref'[i] \in Int
               /\ ref'[i] + Account(cwd[p], loc[p], IpOf(0), i)
                    = ref[i] + Account(cwd'[p], loc'[p], IpOf(0)', i)
    <3>1. cwd'[p] = cwd[p] /\ loc'[p] = r /\ IpOf(0)' = IpOf(0)
      BY <1>1, <1>2 DEF IpOf
    <3>2. PICK c, f, a, b : c = cwd[p] /\ f = IpOf(0) /\ a = Owns(loc[p], i) /\ b = Owns(r, i)
      OBVIOUS
    <3>3. ref'[i] \in Int /\ ref[i] \in Int /\ ref'[i] + a = ref[i] + b
      BY <3>2 DEF Inv, Types
    <3>4. a \in Nat /\ b \in Nat /\ One(c, i) \in Nat /\ One(f, i) \in Nat
      BY <3>2 DEF Owns, One
    <3>5. /\ Account(cwd[p], loc[p], IpOf(0), i) = One(c, i) + a + One(f, i)
          /\ Account(cwd'[p], loc'[p], IpOf(0)', i) = One(c, i) + b + One(f, i)
      BY <3>1, <3>2 DEF Account
    <3> QED
      BY ONLY <3>3, <3>4, <3>5
  <2> QED
    BY ONLY p \in Proc, <2>1, <2>2, Recount
<1>4. Described' /\ Unused'
  BY <1>2, FilesKept DEF Inv
<1>5. Shapes'
  <2>1. Shape(pc'[p], loc'[p])
    BY <1>1
  <2> QED
    BY <1>1, <2>1, ShapesKept DEF Inv
<1>6. Alive'
  <2>1. ASSUME NEW q \in Proc, cwd'[q] = 0
        PROVE  Gone(pc'[q], loc'[q]) /\ \A d \in Fd : ofile'[q][d] = 0
    <3>1. cwd[q] = 0 /\ Gone(pc[q], loc[q]) /\ \A d \in Fd : ofile'[q][d] = 0
      BY <1>2, <2>1 DEF Inv, Alive
    <3>2. CASE q = p
      <4>1. Gone(pc'[q], loc'[q])
        BY <1>1, <3>1, <3>2
      <4> QED
        BY <3>1, <4>1
    <3>3. CASE q # p
      <4>1. pc'[q] = pc[q] /\ loc'[q] = loc[q]
        BY <1>1, <3>3
      <4> QED
        BY <3>1, <4>1
    <3> QED
      BY <3>2, <3>3
  <2> QED
    BY <2>1 DEF Alive
<1>7. Types'
  <2>1. FileTypes'
    BY <1>2 DEF Inv, Types, FileTypes
  <2>2. ref' \in [Inum -> Nat]
    BY <1>3
  <2> QED
    BY <1>1, <2>1, <2>2 DEF Types
<1> QED
  BY <1>3, <1>4, <1>5, <1>6, <1>7 DEF Inv

\* iget and ilock.
LEMMA TouchIs ==
  ASSUME Types, NEW L, NEW G, Touch(L, G)
  PROVE  /\ ref' = [i \in Inum |-> ref'[i]]
         /\ valid' \in [Inum -> BOOLEAN]
         /\ \A i \in Inum : ref'[i] = ref[i] + IF i \in G THEN 1 ELSE 0
<1>1. ref' = [i \in Inum |-> ref[i] + IF i \in G THEN 1 ELSE 0]
  BY DEF Touch
<1>2. valid' = [i \in Inum |-> (valid[i] \/ i \in L) /\ ~(i \in G /\ ref[i] = 0)]
  BY DEF Touch
<1>3. valid' \in [Inum -> BOOLEAN]
  BY ONLY <1>2
<1>4. ref' = [i \in Inum |-> ref'[i]] /\ \A i \in Inum : ref'[i] = ref[i] + IF i \in G THEN 1 ELSE 0
  BY ONLY <1>1
<1> QED
  BY <1>3, <1>4

LEMMA TouchNone ==
  ASSUME Types, NEW L, Touch(L, {})
  PROVE  /\ ref' = [i \in Inum |-> ref'[i]]
         /\ valid' \in [Inum -> BOOLEAN]
         /\ \A i \in Inum : ref'[i] = ref[i]
<1>1. /\ ref' = [i \in Inum |-> ref'[i]]
      /\ valid' \in [Inum -> BOOLEAN]
      /\ \A i \in Inum : ref'[i] = ref[i] + 0 /\ ref[i] \in Nat
  BY TouchIs DEF Types
<1> QED
  BY <1>1

LEMMA TouchOne ==
  ASSUME Types, NEW L, NEW g, Touch(L, {g})
  PROVE  /\ ref' = [i \in Inum |-> ref'[i]]
         /\ valid' \in [Inum -> BOOLEAN]
         /\ \A i \in Inum : ref'[i] = ref[i] + One(g, i)
<1>1. /\ ref' = [i \in Inum |-> ref'[i]]
      /\ valid' \in [Inum -> BOOLEAN]
      /\ \A i \in Inum : ref'[i] = ref[i] + IF i \in {g} THEN 1 ELSE 0
  BY TouchIs
<1>2. \A i : (IF i \in {g} THEN 1 ELSE 0) = One(g, i)
  BY DEF One
<1> QED
  BY <1>1, <1>2

LEMMA CacheKept ==
  ASSUME Types, UNCHANGED cache
  PROVE  /\ ref' = [i \in Inum |-> ref'[i]]
         /\ valid' \in [Inum -> BOOLEAN]
         /\ \A i \in Inum : ref'[i] = ref[i]
  BY DEF Types, NodeTypes, cache

LEMMA HoldingIs ==
  ASSUME Types, NEW p \in Proc, NEW S, Holding(p, S)
  PROVE  lock' \in [Inum -> Proc \cup {Nobody}]
  BY DEF Types, NodeTypes, Holding

\* Counting one.
LEMMA OneZero == \A i \in Inum : One(0, i) = 0
  BY DEF One, Inum

LEMMA FirstIs ==
  ASSUME NEW a, NEW b
  PROVE  /\ First(<< >>) = 0 /\ Second(<< >>) = 0
         /\ First(<<a>>) = a /\ Second(<<a>>) = 0
         /\ First(<<a, b>>) = a /\ Second(<<a, b>>) = b
  BY DEF First, Second

\* What Inv says of one process.
LEMMA At ==
  ASSUME Inv, NEW p \in Proc
  PROVE  /\ loc[p] \in Locals /\ pc[p] \in Label /\ cwd[p] \in Node /\ Shape(pc[p], loc[p])
         /\ pc[p] \notin Putting /\ pc[p] # "user" => cwd[p] # 0
<1>1. loc[p] \in Locals /\ pc[p] \in Label /\ cwd[p] \in Node
  BY DEF Inv, Types, FileTypes
<1>2. Shape(pc[p], loc[p])
  BY DEF Inv, Shapes
<1>3. cwd[p] = 0 => pc[p] = "user" \/ pc[p] \in Putting
  BY DEF Inv, Alive, Gone
<1> QED
  BY <1>1, <1>2, <1>3

\* A call at a label of its own goes on at another one.
LEMMA GoStep ==
  ASSUME Inv, NEW p \in Proc, pc[p] \notin Putting, NEW x \in Label, x \notin Putting,
         cwd[p] # 0, NEW m \in Locals, Goto(p, x, m), UNCHANGED files, NodeTypes',
         m.puts = << >>, Fits(x, m), m.op = "link" => Elems(m.new) \in Seq(Elem),
         ref' = [i \in Inum |-> ref'[i]],
         \A i \in Inum : /\ ref'[i] \in Int
                         /\ ref'[i] + (One(loc[p].dp, i) + One(loc[p].ip, i)) = ref[i] + (One(m.dp, i) + One(m.ip, i))
  PROVE  Inv'
<1>1. Shape(x, m)
  BY DEF Shape
<1>2. loc[p].puts = << >>
  BY At DEF Shape
<1>3. ASSUME NEW i \in Inum
      PROVE  ref'[i] \in Int /\ ref'[i] + Owns(loc[p], i) = ref[i] + Owns(m, i)
  <2>1. PICK l : l = loc[p]
    OBVIOUS
  <2>2. First(l.puts) = 0 /\ Second(l.puts) = 0 /\ First(m.puts) = 0 /\ Second(m.puts) = 0
    BY <1>2, <2>1, FirstIs
  <2>3. Owns(l, i) = One(l.dp, i) + One(l.ip, i) + 0 + 0 /\ Owns(m, i) = One(m.dp, i) + One(m.ip, i) + 0 + 0
    BY <2>2, OneZero DEF Owns
  <2>4. ref'[i] \in Int /\ ref[i] \in Int /\ ref'[i] + (One(l.dp, i) + One(l.ip, i)) = ref[i] + (One(m.dp, i) + One(m.ip, i))
    BY <2>1 DEF Inv, Types
  <2>5. ref'[i] + Owns(l, i) = ref[i] + Owns(m, i)
    BY ONLY <2>3, <2>4, OneIs
  <2> QED
    BY <2>1, <2>4, <2>5
<1> QED
  BY <1>1, <1>3, CallStep

\* Or it has inodes to put first.
LEMMA PutStep ==
  ASSUME Inv, NEW p \in Proc, pc[p] \notin Putting, NEW x \in Label, x \notin Putting,
         cwd[p] # 0, NEW m \in Locals, NEW s \in Seq(Inum), s # << >>, Len(s) <= 2,
         Put(p, s, x, m), UNCHANGED files, NodeTypes',
         Fits(x, m), m.op = "link" => Elems(m.new) \in Seq(Elem),
         ref' = [i \in Inum |-> ref'[i]],
         \A i \in Inum : /\ ref'[i] \in Int
                         /\ ref'[i] + (One(loc[p].dp, i) + One(loc[p].ip, i))
                              = ref[i] + (One(m.dp, i) + One(m.ip, i) + One(First(s), i) + One(Second(s), i))
  PROVE  Inv'
<1>1. PICK r : r = Rec(m.op, m.rest, m.new, m.dp, m.ip, s, x)
  OBVIOUS
<1>2. r.op = m.op /\ r.rest = m.rest /\ r.new = m.new /\ r.dp = m.dp /\ r.ip = m.ip /\ r.puts = s /\ r.then = x
  BY <1>1, RecIs
<1>3. r \in Locals
  BY <1>1, LocalsAre, InLocals
<1>4. "iput" \in Label /\ "iput" \in Putting
  BY DEF Label, Putting
<1>5. Goto(p, "iput", r)
  <2>1. SetPut(m, s, x) = r
    BY <1>1, Assigned
  <2> QED
    BY <2>1 DEF Put, SetPut
<1>6. Shape("iput", r)
  <2>1. Fits(x, r)
    BY <1>2 DEF Fits
  <2> QED
    BY <1>2, <1>4, <2>1 DEF Shape
<1>7. loc[p].puts = << >>
  BY At DEF Shape
<1>8. ASSUME NEW i \in Inum
      PROVE  ref'[i] \in Int /\ ref'[i] + Owns(loc[p], i) = ref[i] + Owns(r, i)
  <2>1. PICK l : l = loc[p]
    OBVIOUS
  <2>2. First(l.puts) = 0 /\ Second(l.puts) = 0
    BY <1>7, <2>1, FirstIs
  <2>3. /\ Owns(l, i) = One(l.dp, i) + One(l.ip, i) + 0 + 0
        /\ Owns(r, i) = One(m.dp, i) + One(m.ip, i) + One(First(s), i) + One(Second(s), i)
    BY <1>2, <2>2, OneZero DEF Owns
  <2>4. /\ ref'[i] \in Int /\ ref[i] \in Int
        /\ ref'[i] + (One(l.dp, i) + One(l.ip, i))
             = ref[i] + (One(m.dp, i) + One(m.ip, i) + One(First(s), i) + One(Second(s), i))
    BY <2>1 DEF Inv, Types
  <2>5. ref'[i] + Owns(l, i) = ref[i] + Owns(r, i)
    BY ONLY <2>3, <2>4, OneIs
  <2> QED
    BY <2>1, <2>4, <2>5
<1> QED
  BY <1>3, <1>4, <1>5, <1>6, <1>8, CallStep

\* The call is over once its inodes are put.
LEMMA FinishStep ==
  ASSUME Inv, NEW p \in Proc, pc[p] \notin Putting, cwd[p] # 0,
         NEW s \in Seq(Inum), s # << >>, Len(s) <= 2, Finish(p, s), UNCHANGED files, NodeTypes',
         ref' = [i \in Inum |-> ref'[i]],
         \A i \in Inum : /\ ref'[i] \in Int
                         /\ ref'[i] + (One(loc[p].dp, i) + One(loc[p].ip, i))
                              = ref[i] + (One(First(s), i) + One(Second(s), i))
  PROVE  Inv'
<1>1. PICK m : m = NoLocals
  OBVIOUS
<1>2. m \in Locals /\ m.dp = 0 /\ m.ip = 0 /\ m.op = "none"
  BY <1>1, NoLocalsIs, RecIs
<1>3. "user" \in Label /\ "user" \notin Putting /\ Fits("user", m) /\ Put(p, s, "user", m)
  BY <1>1, <1>2 DEF Label, Putting, Fits, Finish
<1>4. ASSUME NEW i \in Inum
      PROVE  /\ ref'[i] \in Int
             /\ ref'[i] + (One(loc[p].dp, i) + One(loc[p].ip, i))
                  = ref[i] + (One(m.dp, i) + One(m.ip, i) + One(First(s), i) + One(Second(s), i))
  <2>1. One(m.dp, i) = 0 /\ One(m.ip, i) = 0
    BY <1>2, OneZero
  <2>2. One(First(s), i) + One(Second(s), i) = 0 + 0 + One(First(s), i) + One(Second(s), i)
    BY OneIs
  <2> QED
    BY <2>1, <2>2
<1>5. m.op = "link" => Elems(m.new) \in Seq(Elem)
  BY <1>2
<1> QED
  BY <1>2, <1>3, <1>4, <1>5, PutStep


\* What the other parts of NodeTypes need.
LEMMA InodesKept ==
  ASSUME Types, UNCHANGED inodes, valid' \in [Inum -> BOOLEAN], lock' \in [Inum -> Proc \cup {Nobody}]
  PROVE  NodeTypes'
  BY DEF Types, NodeTypes, inodes

LEMMA NodesKept ==
  ASSUME Types, UNCHANGED disk, valid' \in [Inum -> BOOLEAN], lock' \in [Inum -> Proc \cup {Nobody}]
  PROVE  NodeTypes'
<1>1. UNCHANGED inodes
  BY DEF disk
<1> QED
  BY <1>1, InodesKept

LEMMA LockKept ==
  ASSUME Types, lock' = lock
  PROVE  lock' \in [Inum -> Proc \cup {Nobody}]
  BY DEF Types, NodeTypes

\* A sequence of inodes to put.
LEMMA PutsAre ==
  ASSUME NEW s \in Seq(Inum), s # << >>, Len(s) <= 2
  PROVE  /\ Head(s) \in Inum /\ Head(s) = First(s)
         /\ Tail(s) \in Seq(Inum) /\ Len(Tail(s)) <= 2
         /\ First(Tail(s)) = Second(s) /\ Second(Tail(s)) = 0
<1>1. Len(s) \in Nat /\ Len(s) # 0
  OBVIOUS
<1>2. Head(s) \in Inum /\ Head(s) = First(s)
  BY <1>1 DEF First
<1>3. Tail(s) \in Seq(Inum) /\ Len(Tail(s)) = Len(s) - 1
  BY <1>1
<1>4. CASE Len(s) = 1
  <2>1. Len(Tail(s)) = 0
    BY <1>3, <1>4
  <2>2. First(Tail(s)) = 0 /\ Second(Tail(s)) = 0 /\ Second(s) = 0
    BY <1>4, <2>1 DEF First, Second
  <2> QED
    BY <1>2, <1>3, <2>1, <2>2
<1>5. CASE Len(s) = 2
  <2>1. Len(Tail(s)) = 1 /\ Tail(s)[1] = s[2]
    BY <1>3, <1>5
  <2>2. First(Tail(s)) = s[2] /\ Second(Tail(s)) = 0
    <3>1. PICK t : t = Tail(s)
      OBVIOUS
    <3>2. Len(t) = 1 /\ t[1] = s[2]
      BY <2>1, <3>1
    <3>3. First(t) = s[2] /\ Second(t) = 0
      BY ONLY <3>2 DEF First, Second
    <3> QED
      BY ONLY <3>1, <3>3
  <2>3. Second(s) = s[2]
    BY ONLY <1>5 DEF Second
  <2> QED
    BY <1>2, <1>3, <2>1, <2>2, <2>3
<1>6. Len(s) = 1 \/ Len(s) = 2
  <2>1. PICK n \in Nat : n = Len(s)
    BY <1>1
  <2>2. n # 0 /\ n <= 2
    BY <1>1, <2>1
  <2>3. n = 1 \/ n = 2
    BY ONLY n \in Nat, <2>2
  <2> QED
    BY ONLY <2>1, <2>3
<1> QED
  BY <1>4, <1>5, <1>6

LEMMA IputStep ==
  ASSUME Inv, NEW p \in Proc, Iput(p)
  PROVE  Inv'
<1>1. PICK l : l = loc[p]
  OBVIOUS
<1>2. l \in Locals /\ Shape("iput", l) /\ pc[p] = "iput" /\ l.puts \in Seq(Inum)
  BY <1>1, At, LocalsAre DEF Iput
<1>3. Head(l.puts) \in Inum
  <2>1. l.puts # << >> /\ Len(l.puts) <= 2
    BY <1>2 DEF Shape, Putting
  <2> QED
    BY <1>2, <2>1, PutsAre
<1>4. PICK x \in {"itrunc", "iref"} : Goto(p, x, l)
  BY <1>1 DEF Iput
<1>5. x \in Label /\ Shape(x, l)
  BY <1>2 DEF Shape, Putting, Label
<1>6. UNCHANGED files /\ UNCHANGED disk /\ UNCHANGED cache
  BY DEF Iput
<1>7. cwd[p] # 0 \/ Gone(x, l)
  BY <1>1, <1>2 DEF Inv, Alive, Gone, Putting
<1>8. lock' \in [Inum -> Proc \cup {Nobody}]
  <2>1. lock' = lock \/ lock' = [lock EXCEPT ![Head(l.puts)] = p]
    BY <1>1 DEF Iput
  <2>2. lock \in [Inum -> Proc \cup {Nobody}]
    BY DEF Inv, Types, NodeTypes
  <2> QED
    BY ONLY <1>3, <2>1, <2>2, p \in Proc
<1>9. /\ ref' = [i \in Inum |-> ref'[i]]
      /\ valid' \in [Inum -> BOOLEAN]
      /\ \A i \in Inum : ref'[i] = ref[i]
  BY <1>6, CacheKept DEF Inv
<1>10. NodeTypes'
  BY <1>6, <1>8, <1>9, NodesKept DEF Inv
<1>11. \A i \in Inum : ref'[i] \in Int /\ ref'[i] + Owns(loc[p], i) = ref[i] + Owns(l, i)
  BY <1>1, <1>9 DEF Inv, Types
<1> QED
  BY <1>2, <1>4, <1>5, <1>6, <1>7, <1>9, <1>10, <1>11, CallStep

LEMMA ItruncStep ==
  ASSUME Inv, NEW p \in Proc, Itrunc(p)
  PROVE  Inv'
<1>1. PICK l : l = loc[p]
  OBVIOUS
<1>2. l \in Locals /\ Shape("itrunc", l) /\ pc[p] = "itrunc" /\ l.puts \in Seq(Inum)
  BY <1>1, At, LocalsAre DEF Itrunc
<1>3. PICK h \in Inum : h = Head(l.puts)
  <2>1. l.puts # << >> /\ Len(l.puts) <= 2
    BY <1>2 DEF Shape, Putting
  <2> QED
    BY <1>2, <2>1, PutsAre
<1>4. Goto(p, "iref", l)
  BY <1>1 DEF Itrunc
<1>5. "iref" \in Label /\ Shape("iref", l)
  BY <1>2 DEF Shape, Putting, Label
<1>6. UNCHANGED files /\ ref' = ref
  BY DEF Itrunc
<1>7. cwd[p] # 0 \/ Gone("iref", l)
  BY <1>1, <1>2 DEF Inv, Alive, Gone, Putting
<1>8. NodeTypes'
  <2>1. /\ dinode' = [dinode EXCEPT ![h] = Free]
        /\ dir' = [dir EXCEPT ![h] = NoEntries]
        /\ valid' = [valid EXCEPT ![h] = FALSE]
        /\ lock' = [lock EXCEPT ![h] = Nobody]
    BY <1>1, <1>3 DEF Itrunc
  <2>2. NodeTypes
    BY DEF Inv, Types
  <2>3. Free \in [type : {"none", "DIR", "FILE", "DEV"}, nlink : Int]
    BY DEF Free
  <2>4. NoEntries \in [Entry -> Node]
    BY DEF NoEntries, Node
  <2> QED
    BY <2>1, <2>2, <2>3, <2>4 DEF NodeTypes
<1>9. ref' = [i \in Inum |-> ref'[i]] /\ \A i \in Inum : ref'[i] = ref[i]
  BY <1>6 DEF Inv, Types
<1>11. \A i \in Inum : ref'[i] \in Int /\ ref'[i] + Owns(loc[p], i) = ref[i] + Owns(l, i)
  BY <1>1, <1>9 DEF Inv, Types
<1> QED
  BY <1>2, <1>4, <1>5, <1>6, <1>7, <1>8, <1>9, <1>11, CallStep

LEMMA IrefStep ==
  ASSUME Inv, NEW p \in Proc, Iref(p)
  PROVE  Inv'
<1>1. PICK l : l = loc[p]
  OBVIOUS
<1>2. l \in Locals /\ Shape("iref", l) /\ pc[p] = "iref" /\ l.puts \in Seq(Inum) /\ l.then \in Label
  BY <1>1, At, LocalsAre DEF Iref
<1>3. l.puts # << >> /\ Len(l.puts) <= 2 /\ l.then \notin Putting /\ Fits(l.then, l)
  BY <1>2 DEF Shape, Putting
<1>4. PICK h, t : h = Head(l.puts) /\ t = Tail(l.puts)
  OBVIOUS
<1>5. /\ h \in Inum /\ h = First(l.puts) /\ t \in Seq(Inum) /\ Len(t) <= 2
      /\ First(t) = Second(l.puts) /\ Second(t) = 0
  BY <1>2, <1>3, <1>4, PutsAre
<1>6. PICK x, u : /\ IF t # << >> THEN x = "iput" /\ u = l.then ELSE x = l.then /\ u = "user"
                  /\ Goto(p, x, SetPut(l, t, u))
  BY <1>1, <1>4 DEF Iref, Put, SetPut
<1>7. PICK r : r = SetPut(l, t, u)
  OBVIOUS
<1>8. r = Rec(l.op, l.rest, l.new, l.dp, l.ip, t, u)
  BY <1>2, <1>7, Assigned
<1>9. r.op = l.op /\ r.rest = l.rest /\ r.new = l.new /\ r.dp = l.dp /\ r.ip = l.ip /\ r.puts = t /\ r.then = u
  BY <1>8, RecIs
<1>10. u \in Label /\ x \in Label
  BY <1>2, <1>6 DEF Label
<1>11. r \in Locals
  BY <1>2, <1>5, <1>8, <1>10, LocalsAre, InLocals
<1>12. Shape(x, r)
  <2>1. Fits(l.then, r)
    BY <1>3, <1>9 DEF Fits
  <2>2. Len(r.puts) <= 2 /\ (r.op = "link" => Elems(r.new) \in Seq(Elem))
    BY <1>2, <1>5, <1>9 DEF Shape
  <2>3. IF x \in Putting THEN r.puts # << >> /\ r.then \notin Putting /\ Fits(r.then, r)
        ELSE r.puts = << >> /\ Fits(x, r)
    BY <1>3, <1>6, <1>9, <2>1 DEF Putting
  <2> QED
    BY <2>2, <2>3 DEF Shape
<1>13. cwd[p] # 0 \/ Gone(x, r)
  <2>1. cwd[p] # 0 \/ l.then = "user"
    BY <1>1, <1>2 DEF Inv, Alive, Gone
  <2> QED
    BY <2>1, <1>6, <1>9 DEF Gone, Putting
<1>14. UNCHANGED files /\ UNCHANGED disk /\ valid' = valid /\ lock' = lock /\ ref' = [ref EXCEPT ![h] = @ - 1]
  BY <1>1, <1>4 DEF Iref
<1>15. NodeTypes'
  BY <1>14 DEF Inv, Types, NodeTypes, disk, inodes
<1>16. ref \in [Inum -> Nat]
  BY DEF Inv, Types
<1>17. ref' = [i \in Inum |-> ref'[i]] /\ \A i \in Inum : ref[i] \in Nat /\ ref'[i] = ref[i] - One(h, i)
  <2>1. \A i \in Inum : ref[i] \in Nat /\ ref'[i] = IF i = h THEN ref[i] - 1 ELSE ref[i]
    BY ONLY <1>5, <1>14, <1>16
  <2>2. \A i \in Inum : ref[i] \in Nat /\ ref'[i] = ref[i] - One(h, i)
    BY ONLY <2>1 DEF One
  <2>3. ref' = [i \in Inum |-> ref'[i]]
    BY ONLY <1>14, <1>16
  <2> QED
    BY ONLY <2>2, <2>3
<1>18. ASSUME NEW i \in Inum PROVE ref'[i] \in Int /\ ref'[i] + Owns(l, i) = ref[i] + Owns(r, i)
  <2>1. PICK s : s = l.puts
    OBVIOUS
  <2>2. Owns(l, i) = One(l.dp, i) + One(l.ip, i) + One(h, i) + One(Second(s), i)
    BY <1>5, <2>1 DEF Owns
  <2>3. Owns(r, i) = One(l.dp, i) + One(l.ip, i) + One(Second(s), i) + 0
    BY <1>5, <1>9, <2>1, OneZero DEF Owns
  <2>4. ref[i] \in Nat /\ ref'[i] = ref[i] - One(h, i)
    BY <1>17
  <2> QED
    BY ONLY <2>2, <2>3, <2>4, OneIs
<1>19. Goto(p, x, r)
  BY <1>6, <1>7
<1>20. \A i \in Inum : ref'[i] \in Int /\ ref'[i] + Owns(loc[p], i) = ref[i] + Owns(r, i)
  BY <1>1, <1>18
<1>21. UNCHANGED files /\ ref' = [i \in Inum |-> ref'[i]]
  BY <1>14, <1>17
<1> QED
  BY ONLY Inv, p \in Proc, <1>10, <1>11, <1>12, <1>13, <1>15, <1>19, <1>20, <1>21, CallStep

-----------------------------------------------------------------------------
(* Paths *)

\* A call at a label of its own.
LEMMA Within ==
  ASSUME Inv, NEW p \in Proc, NEW x, pc[p] = x, x \notin Putting, NEW l, l = loc[p]
  PROVE  /\ l \in Locals /\ l.dp \in Node /\ l.ip \in Node /\ l.rest \in Seq(Elem) /\ l.op \in Op \cup {"none"}
         /\ l.puts = << >> /\ Fits(x, l) /\ (x # "user" => cwd[p] # 0)
         /\ l.op = "link" => Elems(l.new) \in Seq(Elem)
<1>1. /\ l \in Locals /\ Shape(x, l) /\ (x # "user" => cwd[p] # 0)
  BY At
<1> QED
  BY <1>1, LocalsAre DEF Shape

\* An inode that is not null.
LEMMA NotNull == \A i \in Node : i # 0 => i \in Inum
  BY DEF Node

LEMMA NullNode == 0 \in Node /\ \A i \in Inum : i \in Node /\ i # 0
  BY DEF Node, Inum

LEMMA LookupIs ==
  ASSUME Types, NEW d \in Inum, NEW n \in Elem
  PROVE  Lookup(d, n) \in Node
<1>1. dir \in [Inum -> [Entry -> Node]]
  BY DEF Types, NodeTypes
<1>2. CASE n = "."
  BY <1>2, NullNode DEF Lookup
<1>3. CASE n # "."
  <2>1. n \in Entry
    BY <1>3 DEF Elem
  <2> QED
    BY <1>1, <1>3, <2>1 DEF Lookup
<1> QED
  BY <1>2, <1>3

LEMMA RestIs ==
  ASSUME NEW s \in Seq(Elem), s # << >>
  PROVE  Head(s) \in Elem /\ Tail(s) \in Seq(Elem)
  OBVIOUS

LEMMA OnePut == \A a \in Inum : <<a>> \in Seq(Inum) /\ <<a>> # << >> /\ Len(<<a>>) <= 2
  OBVIOUS

\* Where the walk leads.
LEMMA WalkLabels ==
  ASSUME NEW l \in Locals, Fits("walk", l)
  PROVE  /\ After(l) \in Label /\ After(l) \notin Putting
         /\ Parent(l) => /\ After(l) \in {"create", "unlink", "linkdir"}
                         /\ (After(l) = "linkdir" <=> l.ip # 0)
         /\ ~Parent(l) => /\ After(l) \in {"open", "chdir", "link"} /\ l.ip = 0
                          /\ (After(l) = "link" => l.op = "link")
<1>1. l.op \in Op /\ (l.ip # 0 => l.op = "link")
  BY DEF Fits
<1> QED
  BY <1>1 DEF After, Parent, Op, Label, Putting

LEMMA WalkDoneStep ==
  ASSUME Inv, NEW p \in Proc, WalkDone(p)
  PROVE  Inv'
<1>1. PICK l, x : l = loc[p] /\ x = After(l)
  OBVIOUS
<1>2. pc[p] = "walk" /\ "walk" \notin Putting
  BY DEF WalkDone, Putting
<1>3. /\ l \in Locals /\ l.dp \in Node /\ l.ip \in Node /\ l.rest \in Seq(Elem) /\ l.op \in Op \cup {"none"}
      /\ l.puts = << >> /\ Fits("walk", l) /\ cwd[p] # 0
      /\ l.op = "link" => Elems(l.new) \in Seq(Elem)
  BY <1>1, <1>2, Within
<1>4. l.dp # 0
  BY <1>3 DEF Fits
<1>5. UNCHANGED disk /\ UNCHANGED lock /\ UNCHANGED files
  BY DEF WalkDone
<1>6. x \in Label /\ x \notin Putting
  BY <1>1, <1>3, WalkLabels
<1>7. Types
  BY DEF Inv
<1>8. CASE Parent(l)
  <2>1. Touch({l.dp}, {}) /\ Goto(p, x, l) /\ Len(l.rest) = 1
    BY <1>1, <1>8 DEF WalkDone, WalkEnd
  <2>2. Fits(x, l)
    <3>1. x \in {"create", "unlink", "linkdir"} /\ (x = "linkdir" <=> l.ip # 0)
      BY <1>1, <1>3, <1>8, WalkLabels
    <3>2. l.rest # << >>
      BY <2>1
    <3> QED
      BY ONLY <1>4, <3>1, <3>2 DEF Fits
  <2>3. /\ ref' = [i \in Inum |-> ref'[i]]
        /\ valid' \in [Inum -> BOOLEAN]
        /\ \A i \in Inum : ref'[i] = ref[i]
    BY <1>7, <2>1, TouchNone
  <2>4. NodeTypes'
    BY <1>5, <1>7, <2>3, NodesKept, LockKept
  <2>5. \A i \in Inum : /\ ref'[i] \in Int
                        /\ ref'[i] + (One(loc[p].dp, i) + One(loc[p].ip, i)) = ref[i] + (One(l.dp, i) + One(l.ip, i))
    BY <1>1, <1>7, <2>3 DEF Types
  <2> QED
    BY ONLY Inv, p \in Proc, <1>2, <1>3, <1>5, <1>6, <2>1, <2>2, <2>3, <2>4, <2>5, GoStep
<1>9. CASE ~Parent(l)
  <2>1. UNCHANGED cache /\ Goto(p, x, SetIpDp(l, l.dp, 0))
    BY <1>1, <1>9 DEF WalkDone, SetIpDp
  <2>2. PICK m : m = SetIpDp(l, l.dp, 0)
    OBVIOUS
  <2>3. m = Rec(l.op, l.rest, l.new, 0, l.dp, l.puts, l.then)
    BY <1>3, <2>2, Assigned
  <2>4. m.op = l.op /\ m.rest = l.rest /\ m.new = l.new /\ m.dp = 0 /\ m.ip = l.dp /\ m.puts = l.puts
    BY <2>3, RecIs
  <2>5. m \in Locals
    BY <1>3, <2>3, LocalsAre, InLocals, NullNode
  <2>6. x \in {"open", "chdir", "link"} /\ (x = "link" => l.op = "link") /\ l.ip = 0
    BY <1>1, <1>3, <1>9, WalkLabels
  <2>7. Fits(x, m)
    BY ONLY <1>4, <2>4, <2>6 DEF Fits
  <2>8. /\ ref' = [i \in Inum |-> ref'[i]]
        /\ valid' \in [Inum -> BOOLEAN]
        /\ \A i \in Inum : ref'[i] = ref[i]
    BY <1>7, <2>1, CacheKept
  <2>9. NodeTypes'
    BY <1>5, <1>7, <2>8, NodesKept, LockKept
  <2>10. ASSUME NEW i \in Inum
         PROVE  /\ ref'[i] \in Int
                /\ ref'[i] + (One(loc[p].dp, i) + One(loc[p].ip, i)) = ref[i] + (One(m.dp, i) + One(m.ip, i))
    <3>1. ref'[i] = ref[i] /\ ref[i] \in Nat
      BY <1>7, <2>8 DEF Types
    <3>2. One(loc[p].ip, i) = 0 /\ One(m.dp, i) = 0 /\ One(m.ip, i) = One(l.dp, i) /\ loc[p].dp = l.dp
      BY <1>1, <2>4, <2>6, OneZero
    <3> QED
      BY <3>1, <3>2, OneIs
  <2>11. Goto(p, x, m) /\ m.puts = << >> /\ (m.op = "link" => Elems(m.new) \in Seq(Elem))
    BY <1>3, <2>1, <2>2, <2>4
  <2> QED
    BY ONLY Inv, p \in Proc, <1>2, <1>3, <1>5, <1>6, <2>5, <2>7, <2>8, <2>9, <2>10, <2>11, GoStep
<1> QED
  BY <1>8, <1>9

LEMMA WalkStepStep ==
  ASSUME Inv, NEW p \in Proc, WalkStep(p)
  PROVE  Inv'
<1>1. PICK l, n : l = loc[p] /\ n = Lookup(l.dp, Head(l.rest))
  OBVIOUS
<1>2. pc[p] = "walk" /\ "walk" \notin Putting /\ "walk" \in Label
  BY DEF WalkStep, Putting, Label
<1>3. /\ l \in Locals /\ l.dp \in Node /\ l.ip \in Node /\ l.rest \in Seq(Elem) /\ l.op \in Op \cup {"none"}
      /\ l.puts = << >> /\ Fits("walk", l) /\ cwd[p] # 0
      /\ l.op = "link" => Elems(l.new) \in Seq(Elem)
  BY <1>1, <1>2, Within
<1>4. l.dp # 0 /\ l.dp \in Inum
  BY <1>3, NotNull DEF Fits
<1>5. UNCHANGED inodes /\ UNCHANGED lock /\ UNCHANGED files
  BY DEF WalkStep
<1>6. l.rest # << >> /\ n # 0 /\ Touch({l.dp}, {n}) /\ Put(p, <<l.dp>>, "walk", SetNext(l, n))
  BY <1>1 DEF WalkStep, SetNext
<1>7. Types
  BY DEF Inv
<1>8. Head(l.rest) \in Elem /\ Tail(l.rest) \in Seq(Elem) /\ n \in Node
  BY <1>1, <1>3, <1>4, <1>6, <1>7, RestIs, LookupIs
<1>9. PICK m : m = SetNext(l, n)
  OBVIOUS
<1>10. m = Rec(l.op, Tail(l.rest), l.new, n, l.ip, l.puts, l.then)
  BY <1>3, <1>9, Assigned
<1>11. m.op = l.op /\ m.new = l.new /\ m.dp = n /\ m.ip = l.ip
  BY <1>10, RecIs
<1>12. m \in Locals
  BY <1>3, <1>8, <1>10, LocalsAre, InLocals
<1>13. Fits("walk", m)
  BY <1>3, <1>6, <1>11 DEF Fits
<1>14. /\ ref' = [i \in Inum |-> ref'[i]]
       /\ valid' \in [Inum -> BOOLEAN]
       /\ \A i \in Inum : ref'[i] = ref[i] + One(n, i)
  BY <1>6, <1>7, TouchOne
<1>15. NodeTypes'
  BY <1>5, <1>7, <1>14, InodesKept, LockKept
<1>16. PICK s : s = <<l.dp>>
  OBVIOUS
<1>17. s \in Seq(Inum) /\ s # << >> /\ Len(s) <= 2 /\ First(s) = l.dp /\ Second(s) = 0
  BY <1>4, <1>16, OnePut, FirstIs
<1>18. ASSUME NEW i \in Inum
       PROVE  /\ ref'[i] \in Int
              /\ ref'[i] + (One(loc[p].dp, i) + One(loc[p].ip, i))
                   = ref[i] + (One(m.dp, i) + One(m.ip, i) + One(First(s), i) + One(Second(s), i))
  <2>1. ref'[i] = ref[i] + One(n, i) /\ ref[i] \in Nat
    BY <1>7, <1>14 DEF Types
  <2>2. One(Second(s), i) = 0 /\ One(First(s), i) = One(l.dp, i) /\ m.dp = n /\ m.ip = l.ip
    BY <1>11, <1>17, OneZero
  <2>3. loc[p].dp = l.dp /\ loc[p].ip = l.ip
    BY <1>1
  <2> QED
    BY ONLY <2>1, <2>2, <2>3, OneIs
<1>19. Put(p, s, "walk", m) /\ (m.op = "link" => Elems(m.new) \in Seq(Elem))
  BY <1>3, <1>6, <1>9, <1>11, <1>16
<1> QED
  BY ONLY Inv, p \in Proc, <1>2, <1>3, <1>5, <1>12, <1>13, <1>14, <1>15, <1>17, <1>18, <1>19, PutStep

\* The path is not found.
LEMMA WalkBadStep ==
  ASSUME Inv, NEW p \in Proc, pc[p] = "walk", WalkBad(p, loc[p]), UNCHANGED files, NodeTypes',
         ref' = [i \in Inum |-> ref'[i]], \A i \in Inum : ref'[i] = ref[i]
  PROVE  Inv'
<1>1. PICK l : l = loc[p]
  OBVIOUS
<1>2. pc[p] \notin Putting
  BY DEF Putting
<1>3. /\ l \in Locals /\ l.dp \in Node /\ l.ip \in Node /\ l.rest \in Seq(Elem) /\ l.op \in Op \cup {"none"}
      /\ l.puts = << >> /\ Fits("walk", l) /\ cwd[p] # 0
      /\ l.op = "link" => Elems(l.new) \in Seq(Elem)
  BY <1>1, <1>2, Within
<1>4. l.dp \in Inum /\ l.dp # 0
  BY <1>3, NotNull DEF Fits
<1>5. PICK s : s = <<l.dp>>
  OBVIOUS
<1>6. s \in Seq(Inum) /\ s # << >> /\ Len(s) <= 2 /\ First(s) = l.dp /\ Second(s) = 0
  BY <1>4, <1>5, OnePut, FirstIs
<1>7. \A i \in Inum : ref'[i] = ref[i] /\ ref[i] \in Nat
  BY DEF Inv, Types
<1>8. CASE l.ip = 0
  <2>1. Finish(p, s)
    BY <1>1, <1>5, <1>8 DEF WalkBad, Finish
  <2>2. ASSUME NEW i \in Inum
        PROVE  /\ ref'[i] \in Int
               /\ ref'[i] + (One(loc[p].dp, i) + One(loc[p].ip, i)) = ref[i] + (One(First(s), i) + One(Second(s), i))
    <3>1. loc[p].dp = l.dp /\ loc[p].ip = 0 /\ One(0, i) = 0 /\ ref'[i] = ref[i] /\ ref[i] \in Nat
      BY <1>1, <1>7, <1>8, OneZero
    <3> QED
      BY ONLY <1>6, <3>1, OneIs
  <2> QED
    BY ONLY Inv, p \in Proc, UNCHANGED files, NodeTypes', ref' = [i \in Inum |-> ref'[i]],
            <1>2, <1>3, <1>6, <2>1, <2>2, FinishStep
<1>9. CASE l.ip # 0
  <2>1. PICK m : m = SetDp(l, 0)
    OBVIOUS
  <2>2. m = Rec(l.op, l.rest, l.new, 0, l.ip, l.puts, l.then)
    BY <1>3, <2>1, Assigned
  <2>3. m.op = l.op /\ m.new = l.new /\ m.dp = 0 /\ m.ip = l.ip
    BY <2>2, RecIs
  <2>4. m \in Locals
    BY <1>3, <2>2, LocalsAre, InLocals, NullNode
  <2>5. "linkbad" \in Label /\ "linkbad" \notin Putting /\ Fits("linkbad", m)
    BY <1>9, <2>3 DEF Label, Putting, Fits
  <2>6. Put(p, s, "linkbad", m) /\ (m.op = "link" => Elems(m.new) \in Seq(Elem))
    BY <1>1, <1>3, <1>5, <1>9, <2>1, <2>3 DEF WalkBad, SetDp
  <2>7. ASSUME NEW i \in Inum
        PROVE  /\ ref'[i] \in Int
               /\ ref'[i] + (One(loc[p].dp, i) + One(loc[p].ip, i))
                    = ref[i] + (One(m.dp, i) + One(m.ip, i) + One(First(s), i) + One(Second(s), i))
    <3>1. loc[p].dp = l.dp /\ loc[p].ip = l.ip /\ One(0, i) = 0 /\ ref'[i] = ref[i] /\ ref[i] \in Nat
      BY <1>1, <1>7, OneZero
    <3> QED
      BY ONLY <1>6, <2>3, <3>1, OneIs
  <2> QED
    BY ONLY Inv, p \in Proc, UNCHANGED files, NodeTypes', ref' = [i \in Inum |-> ref'[i]],
            <1>2, <1>3, <1>6, <2>4, <2>5, <2>6, <2>7, PutStep
<1> QED
  BY <1>8, <1>9

LEMMA WalkNoNameStep ==
  ASSUME Inv, NEW p \in Proc, WalkNoName(p)
  PROVE  Inv'
<1>1. UNCHANGED disk /\ UNCHANGED cache /\ UNCHANGED lock /\ UNCHANGED files /\ pc[p] = "walk" /\ WalkBad(p, loc[p])
  BY DEF WalkNoName
<1>2. Types
  BY DEF Inv
<1>3. ref' = [i \in Inum |-> ref'[i]] /\ valid' \in [Inum -> BOOLEAN] /\ \A i \in Inum : ref'[i] = ref[i]
  BY <1>1, <1>2, CacheKept
<1>4. NodeTypes'
  BY <1>1, <1>2, <1>3, NodesKept, LockKept
<1> QED
  BY <1>1, <1>3, <1>4, WalkBadStep

LEMMA WalkFailStep ==
  ASSUME Inv, NEW p \in Proc, WalkFail(p)
  PROVE  Inv'
<1>1. /\ UNCHANGED disk /\ UNCHANGED lock /\ UNCHANGED files /\ pc[p] = "walk" /\ WalkBad(p, loc[p])
      /\ Touch({loc[p].dp}, {})
  BY DEF WalkFail
<1>2. Types
  BY DEF Inv
<1>3. ref' = [i \in Inum |-> ref'[i]] /\ valid' \in [Inum -> BOOLEAN] /\ \A i \in Inum : ref'[i] = ref[i]
  BY <1>1, <1>2, TouchNone
<1>4. NodeTypes'
  BY <1>1, <1>2, <1>3, NodesKept, LockKept
<1> QED
  BY <1>1, <1>3, <1>4, WalkBadStep

-----------------------------------------------------------------------------
(* create *)

LEMMA CreateFoundStep ==
  ASSUME Inv, NEW p \in Proc, CreateFound(p)
  PROVE  Inv'
<1>1. PICK l, n : l = loc[p] /\ n = Lookup(l.dp, Head(l.rest))
  OBVIOUS
<1>2. pc[p] = "create" /\ pc[p] \notin Putting
  BY DEF CreateFound, Putting
<1>3. /\ l \in Locals /\ l.dp \in Node /\ l.ip \in Node /\ l.rest \in Seq(Elem) /\ l.op \in Op \cup {"none"}
      /\ l.puts = << >> /\ Fits("create", l) /\ cwd[p] # 0
      /\ l.op = "link" => Elems(l.new) \in Seq(Elem)
  BY <1>1, <1>2, Within
<1>4. Types
  BY DEF Inv
<1>5. l.dp \in Inum /\ l.dp # 0 /\ l.ip = 0 /\ l.rest # << >>
  BY <1>3, NotNull DEF Fits
<1>6. l.dp \in Inum /\ l.dp # 0 /\ l.ip = 0 /\ l.rest # << >> /\ n \in Node /\ n # 0
  BY <1>1, <1>3, <1>4, <1>5, RestIs, LookupIs DEF CreateFound
<1>7. UNCHANGED files
  BY DEF CreateFound
<1> QED
  <2>1. Put(p, <<l.dp>>, "createold", SetDpIp(l, 0, n)) /\ Touch({l.dp}, {n}) /\ UNCHANGED lock /\ UNCHANGED inodes
    BY <1>1 DEF CreateFound, SetDpIp
  <2>2. /\ ref' = [i \in Inum |-> ref'[i]]
        /\ valid' \in [Inum -> BOOLEAN]
        /\ \A i \in Inum : ref'[i] = ref[i] + One(n, i)
    BY <1>4, <2>1, TouchOne
  <2>3. NodeTypes'
    BY <1>4, <2>1, <2>2, InodesKept, LockKept
  <2>4. PICK m : m = SetDpIp(l, 0, n)
    OBVIOUS
  <2>5. m = Rec(l.op, l.rest, l.new, 0, n, l.puts, l.then)
    BY <1>3, <2>4, Assigned
  <2>6. m.op = l.op /\ m.new = l.new /\ m.rest = l.rest /\ m.dp = 0 /\ m.ip = n /\ m.puts = l.puts
    BY <2>5, RecIs
  <2>7. m \in Locals
    BY <1>3, <1>6, <2>5, LocalsAre, InLocals, NullNode
  <2>8. "createold" \in Label /\ "createold" \notin Putting /\ Fits("createold", m)
    BY <1>3, <1>6, <2>6 DEF Label, Putting, Fits
  <2>9. PICK s : s = <<l.dp>>
    OBVIOUS
  <2>10. s \in Seq(Inum) /\ s # << >> /\ Len(s) <= 2 /\ First(s) = l.dp /\ Second(s) = 0
    BY <1>6, <2>9, OnePut, FirstIs
  <2>11. ASSUME NEW i \in Inum
         PROVE  /\ ref'[i] \in Int
                /\ ref'[i] + (One(loc[p].dp, i) + One(loc[p].ip, i)) = ref[i] + (One(m.dp, i) + One(m.ip, i) + One(First(s), i) + One(Second(s), i))
    <3>1. ref'[i] = ref[i] + One(n, i) /\ ref[i] \in Nat
      BY <1>4, <2>2 DEF Types
    <3>2. loc[p].dp = l.dp /\ loc[p].ip = l.ip /\ One(0, i) = 0
      BY <1>1, OneZero
    <3> QED
      BY ONLY <3>1, <3>2, <1>6, <2>6, <2>10, OneIs
  <2>12. Put(p, s, "createold", m) /\ (m.op = "link" => Elems(m.new) \in Seq(Elem)) /\ m.puts = << >>
    BY <1>3, <2>1, <2>4, <2>6, <2>9
  <2> QED
    BY ONLY Inv, p \in Proc, <1>2, <1>3, <1>7, <2>2, <2>3, <2>11, <2>7, <2>8, <2>12, <2>10, PutStep

LEMMA CreatedStep ==
  ASSUME Inv, NEW p \in Proc, Created(p)
  PROVE  Inv'
<1>1. PICK l : l = loc[p]
  OBVIOUS
<1>2. pc[p] = "created" /\ pc[p] \notin Putting
  BY DEF Created, Putting
<1>3. /\ l \in Locals /\ l.dp \in Node /\ l.ip \in Node /\ l.rest \in Seq(Elem) /\ l.op \in Op \cup {"none"}
      /\ l.puts = << >> /\ Fits("created", l) /\ cwd[p] # 0
      /\ l.op = "link" => Elems(l.new) \in Seq(Elem)
  BY <1>1, <1>2, Within
<1>4. Types
  BY DEF Inv
<1>5. l.ip \in Inum /\ l.ip # 0 /\ l.dp = 0
  BY <1>3, NotNull DEF Fits
<1>6. UNCHANGED files
  BY DEF Created
<1> QED
  <2>1. Finish(p, <<l.ip>>) /\ UNCHANGED cache /\ Holding(p, {}) /\ UNCHANGED disk
    BY <1>1 DEF Created
  <2>2. /\ ref' = [i \in Inum |-> ref'[i]]
        /\ valid' \in [Inum -> BOOLEAN]
        /\ \A i \in Inum : ref'[i] = ref[i]
    BY <1>4, <2>1, CacheKept
  <2>3. NodeTypes'
    BY <1>4, <2>1, <2>2, NodesKept, HoldingIs
  <2>4. PICK s : s = <<l.ip>>
    OBVIOUS
  <2>5. s \in Seq(Inum) /\ s # << >> /\ Len(s) <= 2 /\ First(s) = l.ip /\ Second(s) = 0
    BY <1>5, <2>4, OnePut, FirstIs
  <2>6. ASSUME NEW i \in Inum
        PROVE  /\ ref'[i] \in Int
               /\ ref'[i] + (One(loc[p].dp, i) + One(loc[p].ip, i)) = ref[i] + (One(First(s), i) + One(Second(s), i))
    <3>1. ref'[i] = ref[i] /\ ref[i] \in Nat
      BY <1>4, <2>2 DEF Types
    <3>2. loc[p].dp = l.dp /\ loc[p].ip = l.ip /\ One(0, i) = 0
      BY <1>1, OneZero
    <3> QED
      BY ONLY <3>1, <3>2, <1>5, <2>5, OneIs
  <2>7. Finish(p, s)
    BY <2>1, <2>4
  <2> QED
    BY ONLY Inv, p \in Proc, <1>2, <1>3, <1>6, <2>2, <2>3, <2>6, <2>7, <2>5, FinishStep

LEMMA CreateOldStep ==
  ASSUME Inv, NEW p \in Proc, CreateOld(p)
  PROVE  Inv'
<1>1. PICK l : l = loc[p]
  OBVIOUS
<1>2. pc[p] = "createold" /\ pc[p] \notin Putting
  BY DEF CreateOld, Putting
<1>3. /\ l \in Locals /\ l.dp \in Node /\ l.ip \in Node /\ l.rest \in Seq(Elem) /\ l.op \in Op \cup {"none"}
      /\ l.puts = << >> /\ Fits("createold", l) /\ cwd[p] # 0
      /\ l.op = "link" => Elems(l.new) \in Seq(Elem)
  BY <1>1, <1>2, Within
<1>4. Types
  BY DEF Inv
<1>5. l.ip \in Inum /\ l.ip # 0 /\ l.dp = 0
  BY <1>3, NotNull DEF Fits
<1>6. UNCHANGED files
  BY DEF CreateOld
<1>7. CASE l.op = "creat" /\ dinode[l.ip].type = "FILE"
  <2>1. Goto(p, "openfile", l) /\ Touch({l.ip}, {}) /\ Holding(p, {l.ip}) /\ UNCHANGED disk
    BY <1>1, <1>7 DEF CreateOld
  <2>2. /\ ref' = [i \in Inum |-> ref'[i]]
        /\ valid' \in [Inum -> BOOLEAN]
        /\ \A i \in Inum : ref'[i] = ref[i]
    BY <1>4, <2>1, TouchNone
  <2>3. NodeTypes'
    BY <1>4, <2>1, <2>2, NodesKept, HoldingIs
  <2>4. "openfile" \in Label /\ "openfile" \notin Putting /\ Fits("openfile", l)
    BY <1>3, <1>5, <1>7 DEF Label, Putting, Fits
  <2>5. ASSUME NEW i \in Inum
        PROVE  /\ ref'[i] \in Int
               /\ ref'[i] + (One(loc[p].dp, i) + One(loc[p].ip, i)) = ref[i] + (One(l.dp, i) + One(l.ip, i))
    <3>1. ref'[i] = ref[i] /\ ref[i] \in Nat
      BY <1>4, <2>2 DEF Types
    <3>2. loc[p].dp = l.dp /\ loc[p].ip = l.ip /\ One(0, i) = 0
      BY <1>1, OneZero
    <3> QED
      BY ONLY <3>1, <3>2, <1>5, OneIs
  <2> QED
    BY ONLY Inv, p \in Proc, <1>2, <1>3, <1>6, <2>2, <2>3, <2>5, <2>4, <2>1, GoStep
<1>8. CASE ~(l.op = "creat" /\ dinode[l.ip].type = "FILE")
  <2>1. Finish(p, <<l.ip>>) /\ Touch({l.ip}, {}) /\ Holding(p, {}) /\ UNCHANGED disk
    BY <1>1, <1>8 DEF CreateOld
  <2>2. /\ ref' = [i \in Inum |-> ref'[i]]
        /\ valid' \in [Inum -> BOOLEAN]
        /\ \A i \in Inum : ref'[i] = ref[i]
    BY <1>4, <2>1, TouchNone
  <2>3. NodeTypes'
    BY <1>4, <2>1, <2>2, NodesKept, HoldingIs
  <2>4. PICK s : s = <<l.ip>>
    OBVIOUS
  <2>5. s \in Seq(Inum) /\ s # << >> /\ Len(s) <= 2 /\ First(s) = l.ip /\ Second(s) = 0
    BY <1>5, <2>4, OnePut, FirstIs
  <2>6. ASSUME NEW i \in Inum
        PROVE  /\ ref'[i] \in Int
               /\ ref'[i] + (One(loc[p].dp, i) + One(loc[p].ip, i)) = ref[i] + (One(First(s), i) + One(Second(s), i))
    <3>1. ref'[i] = ref[i] /\ ref[i] \in Nat
      BY <1>4, <2>2 DEF Types
    <3>2. loc[p].dp = l.dp /\ loc[p].ip = l.ip /\ One(0, i) = 0
      BY <1>1, OneZero
    <3> QED
      BY ONLY <3>1, <3>2, <1>5, <2>5, OneIs
  <2>7. Finish(p, s)
    BY <2>1, <2>4
  <2> QED
    BY ONLY Inv, p \in Proc, <1>2, <1>3, <1>6, <2>2, <2>3, <2>6, <2>7, <2>5, FinishStep
<1> QED
  BY <1>7, <1>8

LEMMA OpenStep ==
  ASSUME Inv, NEW p \in Proc, Open(p)
  PROVE  Inv'
<1>1. PICK l : l = loc[p]
  OBVIOUS
<1>2. pc[p] = "open" /\ pc[p] \notin Putting
  BY DEF Open, Putting
<1>3. /\ l \in Locals /\ l.dp \in Node /\ l.ip \in Node /\ l.rest \in Seq(Elem) /\ l.op \in Op \cup {"none"}
      /\ l.puts = << >> /\ Fits("open", l) /\ cwd[p] # 0
      /\ l.op = "link" => Elems(l.new) \in Seq(Elem)
  BY <1>1, <1>2, Within
<1>4. Types
  BY DEF Inv
<1>5. l.ip \in Inum /\ l.ip # 0 /\ l.dp = 0
  BY <1>3, NotNull DEF Fits
<1>6. UNCHANGED files
  BY DEF Open
<1>7. CASE dinode[l.ip].type = "DIR" /\ l.op = "openw"
  <2>1. Finish(p, <<l.ip>>) /\ Touch({l.ip}, {}) /\ Holding(p, {}) /\ UNCHANGED disk
    BY <1>1, <1>7 DEF Open
  <2>2. /\ ref' = [i \in Inum |-> ref'[i]]
        /\ valid' \in [Inum -> BOOLEAN]
        /\ \A i \in Inum : ref'[i] = ref[i]
    BY <1>4, <2>1, TouchNone
  <2>3. NodeTypes'
    BY <1>4, <2>1, <2>2, NodesKept, HoldingIs
  <2>4. PICK s : s = <<l.ip>>
    OBVIOUS
  <2>5. s \in Seq(Inum) /\ s # << >> /\ Len(s) <= 2 /\ First(s) = l.ip /\ Second(s) = 0
    BY <1>5, <2>4, OnePut, FirstIs
  <2>6. ASSUME NEW i \in Inum
        PROVE  /\ ref'[i] \in Int
               /\ ref'[i] + (One(loc[p].dp, i) + One(loc[p].ip, i)) = ref[i] + (One(First(s), i) + One(Second(s), i))
    <3>1. ref'[i] = ref[i] /\ ref[i] \in Nat
      BY <1>4, <2>2 DEF Types
    <3>2. loc[p].dp = l.dp /\ loc[p].ip = l.ip /\ One(0, i) = 0
      BY <1>1, OneZero
    <3> QED
      BY ONLY <3>1, <3>2, <1>5, <2>5, OneIs
  <2>7. Finish(p, s)
    BY <2>1, <2>4
  <2> QED
    BY ONLY Inv, p \in Proc, <1>2, <1>3, <1>6, <2>2, <2>3, <2>6, <2>7, <2>5, FinishStep
<1>8. CASE ~(dinode[l.ip].type = "DIR" /\ l.op = "openw")
  <2>1. Goto(p, "openfile", l) /\ Touch({l.ip}, {}) /\ Holding(p, {l.ip}) /\ UNCHANGED disk
    BY <1>1, <1>8 DEF Open
  <2>2. /\ ref' = [i \in Inum |-> ref'[i]]
        /\ valid' \in [Inum -> BOOLEAN]
        /\ \A i \in Inum : ref'[i] = ref[i]
    BY <1>4, <2>1, TouchNone
  <2>3. NodeTypes'
    BY <1>4, <2>1, <2>2, NodesKept, HoldingIs
  <2>4. "openfile" \in Label /\ "openfile" \notin Putting /\ Fits("openfile", l)
    BY <1>3, <1>5, <1>8 DEF Label, Putting, Fits
  <2>5. ASSUME NEW i \in Inum
        PROVE  /\ ref'[i] \in Int
               /\ ref'[i] + (One(loc[p].dp, i) + One(loc[p].ip, i)) = ref[i] + (One(l.dp, i) + One(l.ip, i))
    <3>1. ref'[i] = ref[i] /\ ref[i] \in Nat
      BY <1>4, <2>2 DEF Types
    <3>2. loc[p].dp = l.dp /\ loc[p].ip = l.ip /\ One(0, i) = 0
      BY <1>1, OneZero
    <3> QED
      BY ONLY <3>1, <3>2, <1>5, OneIs
  <2> QED
    BY ONLY Inv, p \in Proc, <1>2, <1>3, <1>6, <2>2, <2>3, <2>5, <2>4, <2>1, GoStep
<1> QED
  BY <1>7, <1>8

LEMMA OpenFailStep ==
  ASSUME Inv, NEW p \in Proc, OpenFail(p)
  PROVE  Inv'
<1>1. PICK l : l = loc[p]
  OBVIOUS
<1>2. pc[p] = "openfile" /\ pc[p] \notin Putting
  BY DEF OpenFail, Putting
<1>3. /\ l \in Locals /\ l.dp \in Node /\ l.ip \in Node /\ l.rest \in Seq(Elem) /\ l.op \in Op \cup {"none"}
      /\ l.puts = << >> /\ Fits("openfile", l) /\ cwd[p] # 0
      /\ l.op = "link" => Elems(l.new) \in Seq(Elem)
  BY <1>1, <1>2, Within
<1>4. Types
  BY DEF Inv
<1>5. l.ip \in Inum /\ l.ip # 0 /\ l.dp = 0
  BY <1>3, NotNull DEF Fits
<1>6. UNCHANGED files
  BY DEF OpenFail
<1> QED
  <2>1. Finish(p, <<l.ip>>) /\ UNCHANGED cache /\ Holding(p, {}) /\ UNCHANGED disk
    BY <1>1 DEF OpenFail
  <2>2. /\ ref' = [i \in Inum |-> ref'[i]]
        /\ valid' \in [Inum -> BOOLEAN]
        /\ \A i \in Inum : ref'[i] = ref[i]
    BY <1>4, <2>1, CacheKept
  <2>3. NodeTypes'
    BY <1>4, <2>1, <2>2, NodesKept, HoldingIs
  <2>4. PICK s : s = <<l.ip>>
    OBVIOUS
  <2>5. s \in Seq(Inum) /\ s # << >> /\ Len(s) <= 2 /\ First(s) = l.ip /\ Second(s) = 0
    BY <1>5, <2>4, OnePut, FirstIs
  <2>6. ASSUME NEW i \in Inum
        PROVE  /\ ref'[i] \in Int
               /\ ref'[i] + (One(loc[p].dp, i) + One(loc[p].ip, i)) = ref[i] + (One(First(s), i) + One(Second(s), i))
    <3>1. ref'[i] = ref[i] /\ ref[i] \in Nat
      BY <1>4, <2>2 DEF Types
    <3>2. loc[p].dp = l.dp /\ loc[p].ip = l.ip /\ One(0, i) = 0
      BY <1>1, OneZero
    <3> QED
      BY ONLY <3>1, <3>2, <1>5, <2>5, OneIs
  <2>7. Finish(p, s)
    BY <2>1, <2>4
  <2> QED
    BY ONLY Inv, p \in Proc, <1>2, <1>3, <1>6, <2>2, <2>3, <2>6, <2>7, <2>5, FinishStep


-----------------------------------------------------------------------------
(* Changes of the disk *)

Inodes == [Inum -> [type : {"none", "DIR", "FILE", "DEV"}, nlink : Int]]
Dirs == [Inum -> [Entry -> Node]]

LEMMA DiskIs ==
  ASSUME Types
  PROVE  dinode \in Inodes /\ dir \in Dirs
  BY DEF Types, NodeTypes, Inodes, Dirs

LEMMA NodesAre ==
  ASSUME Types, dinode' \in Inodes, dir' \in Dirs, valid' \in [Inum -> BOOLEAN],
         lock' \in [Inum -> Proc \cup {Nobody}]
  PROVE  NodeTypes'
  BY DEF NodeTypes, Inodes, Dirs

SetLinks(D, d, k) == [D EXCEPT ![d].nlink = k]
AddLinks(D, d, k) == [D EXCEPT ![d].nlink = @ + k]
SubLinks(D, d, k) == [D EXCEPT ![d].nlink = @ - k]

\* Links that are counted.
LEMMA LinksAre ==
  ASSUME NEW D \in Inodes, NEW d \in Inum, NEW k \in Int
  PROVE  SetLinks(D, d, k) \in Inodes /\ AddLinks(D, d, k) \in Inodes /\ SubLinks(D, d, k) \in Inodes
<1>1. D[d] \in [type : {"none", "DIR", "FILE", "DEV"}, nlink : Int]
  BY DEF Inodes
<1>2. ASSUME NEW j \in Int PROVE SetLinks(D, d, j) \in Inodes
  <2>1. PICK r : r = [D[d] EXCEPT !.nlink = j]
    OBVIOUS
  <2>2. r \in [type : {"none", "DIR", "FILE", "DEV"}, nlink : Int]
    BY <1>1, <2>1
  <2>3. SetLinks(D, d, j) = [D EXCEPT ![d] = r]
    BY <2>1 DEF SetLinks
  <2> QED
    BY ONLY D \in Inodes, d \in Inum, <2>2, <2>3 DEF Inodes
<1>3. D[d].nlink \in Int
  BY <1>1
<1>4. AddLinks(D, d, k) = SetLinks(D, d, D[d].nlink + k) /\ SubLinks(D, d, k) = SetLinks(D, d, D[d].nlink - k)
  BY DEF AddLinks, SubLinks, SetLinks
<1>5. D[d].nlink + k \in Int /\ D[d].nlink - k \in Int
  BY <1>3
<1> QED
  BY <1>2, <1>4, <1>5

\* An entry that is written.
LEMMA EnteredIs ==
  ASSUME Types, NEW d \in Inum, NEW n, NEW i \in Node
  PROVE  Entered(d, n, i) \in Dirs
<1>1. PICK e : e = [dir[d] EXCEPT ![n] = i]
  OBVIOUS
<1>2. dir \in Dirs /\ dir[d] \in [Entry -> Node]
  BY DiskIs DEF Dirs
<1>3. e \in [Entry -> Node]
  BY ONLY <1>1, <1>2, i \in Node
<1>4. Entered(d, n, i) = [dir EXCEPT ![d] = e]
  BY <1>1 DEF Entered
<1> QED
  BY ONLY <1>2, <1>3, <1>4, d \in Inum DEF Dirs

\* The first of a set of numbers.
LEMMA NatMin ==
  ASSUME NEW T, T \subseteq Nat, T # {}
  PROVE  Min(T) \in T
<1> DEFINE R == OpToRel(<, Nat)
<1>1. IsWellFoundedOn(R, Nat)
  BY NatLessThanWellFounded
<1>2. \E x \in T : \A y \in T : <<y, x>> \notin R
  <2> HIDE DEF R
  <2> QED
    BY <1>1, WFMin
<1>3. \A x, y \in Nat : <<x, y>> \in R <=> x < y
  BY DEF OpToRel
<1> HIDE DEF R
<1>4. PICK x \in T : \A y \in T : <<y, x>> \notin R
  BY <1>2
<1>5. ASSUME NEW y \in T PROVE x <= y
  <2>1. x \in Nat /\ y \in Nat
    OBVIOUS
  <2>2. ~(y < x)
    BY <1>3, <1>4, <2>1
  <2> QED
    BY <2>1, <2>2
<1> QED
  BY <1>5 DEF Min

LEMMA CreateTypes == \A op : TypeOf(op) \in {"none", "DIR", "FILE", "DEV"}
  BY DEF TypeOf

LEMMA TwoPut == \A a, b \in Inum : <<a, b>> \in Seq(Inum) /\ <<a, b>> # << >> /\ Len(<<a, b>>) <= 2
  OBVIOUS

LEMMA CreateAllocStep ==
  ASSUME Inv, NEW p \in Proc, CreateAlloc(p)
  PROVE  Inv'
<1>1. PICK l, n : l = loc[p] /\ n = Min({i \in Inum : dinode[i].type = "none"})
  OBVIOUS
<1>2. pc[p] = "create" /\ pc[p] \notin Putting
  BY DEF CreateAlloc, Putting
<1>3. /\ l \in Locals /\ l.dp \in Node /\ l.ip \in Node /\ l.rest \in Seq(Elem) /\ l.op \in Op \cup {"none"}
      /\ l.puts = << >> /\ Fits("create", l) /\ cwd[p] # 0
      /\ l.op = "link" => Elems(l.new) \in Seq(Elem)
  BY <1>1, <1>2, Within
<1>4. Types
  BY DEF Inv
<1>5. l.dp \in Inum /\ l.dp # 0 /\ l.ip = 0 /\ l.rest # << >>
  BY <1>3, NotNull DEF Fits
<1>6. PICK T : T = {i \in Inum : dinode[i].type = "none"} /\ T # {}
  BY DEF CreateAlloc
<1>7. n \in T
  <2>1. T \subseteq Nat
    BY <1>6 DEF Inum
  <2> QED
    BY <1>1, <1>6, <2>1, NatMin
<1>8. l.dp \in Inum /\ l.dp # 0 /\ l.ip = 0 /\ l.rest # << >> /\ n \in Inum /\ n \in Node /\ n # 0
  BY <1>5, <1>6, <1>7, NullNode
<1>9. UNCHANGED files
  BY DEF CreateAlloc
<1> QED
  <2>1. Goto(p, "createnew", SetIp(l, n)) /\ Touch({l.dp}, {n}) /\ Holding(p, {l.dp})
    BY <1>1 DEF CreateAlloc, SetIp
  <2>2. /\ ref' = [i \in Inum |-> ref'[i]]
        /\ valid' \in [Inum -> BOOLEAN]
        /\ \A i \in Inum : ref'[i] = ref[i] + One(n, i)
    BY <1>4, <2>1, TouchOne
  <2>3. NodeTypes'
    <3>1. dinode' = [dinode EXCEPT ![n] = [type |-> TypeOf(l.op), nlink |-> 0]] /\ dir' = dir
      BY <1>1 DEF CreateAlloc
    <3>2. PICK r : r = [type |-> TypeOf(l.op), nlink |-> 0]
      OBVIOUS
    <3>3. r \in [type : {"none", "DIR", "FILE", "DEV"}, nlink : Int]
      BY <3>2, CreateTypes
    <3>4. dinode \in Inodes /\ dir \in Dirs
      BY <1>4, DiskIs
    <3>5. dinode' \in Inodes
      BY ONLY <1>8, <3>1, <3>2, <3>3, <3>4 DEF Inodes
    <3> QED
      BY <1>4, <2>1, <2>2, <3>1, <3>4, <3>5, NodesAre, HoldingIs
  <2>4. PICK m : m = SetIp(l, n)
    OBVIOUS
  <2>5. m = Rec(l.op, l.rest, l.new, l.dp, n, l.puts, l.then)
    BY <1>3, <2>4, Assigned
  <2>6. m.op = l.op /\ m.new = l.new /\ m.rest = l.rest /\ m.dp = l.dp /\ m.ip = n /\ m.puts = l.puts
    BY <2>5, RecIs
  <2>7. m \in Locals
    BY <1>3, <1>8, <2>5, LocalsAre, InLocals, NullNode
  <2>8. "createnew" \in Label /\ "createnew" \notin Putting /\ Fits("createnew", m)
    BY <1>3, <1>8, <2>6 DEF Label, Putting, Fits
  <2>9. ASSUME NEW i \in Inum
        PROVE  /\ ref'[i] \in Int
               /\ ref'[i] + (One(loc[p].dp, i) + One(loc[p].ip, i)) = ref[i] + (One(m.dp, i) + One(m.ip, i))
    <3>1. ref'[i] = ref[i] + One(n, i) /\ ref[i] \in Nat
      BY <1>4, <2>2 DEF Types
    <3>2. loc[p].dp = l.dp /\ loc[p].ip = l.ip /\ One(0, i) = 0
      BY <1>1, OneZero
    <3> QED
      BY ONLY <3>1, <3>2, <1>8, <2>6, OneIs
  <2>10. Goto(p, "createnew", m) /\ (m.op = "link" => Elems(m.new) \in Seq(Elem)) /\ m.puts = << >>
    BY <1>3, <2>1, <2>4, <2>6
  <2> QED
    BY ONLY Inv, p \in Proc, <1>2, <1>3, <1>9, <2>2, <2>3, <2>9, <2>7, <2>8, <2>10, GoStep

LEMMA CreateNewStep ==
  ASSUME Inv, NEW p \in Proc, CreateNew(p)
  PROVE  Inv'
<1>1. PICK l, n : l = loc[p] /\ n = IF l.op = "creat" THEN "openfile" ELSE "created"
  OBVIOUS
<1>2. pc[p] = "createnew" /\ pc[p] \notin Putting
  BY DEF CreateNew, Putting
<1>3. /\ l \in Locals /\ l.dp \in Node /\ l.ip \in Node /\ l.rest \in Seq(Elem) /\ l.op \in Op \cup {"none"}
      /\ l.puts = << >> /\ Fits("createnew", l) /\ cwd[p] # 0
      /\ l.op = "link" => Elems(l.new) \in Seq(Elem)
  BY <1>1, <1>2, Within
<1>4. Types
  BY DEF Inv
<1>5. l.dp \in Inum /\ l.dp # 0 /\ l.ip \in Inum /\ l.ip # 0 /\ n \in {"openfile", "created"}
  BY <1>3, NotNull, <1>1 DEF Fits
<1>6. UNCHANGED files
  BY DEF CreateNew
<1> QED
  <2>1. Put(p, <<l.dp>>, n, SetDp(l, 0)) /\ Touch({l.ip}, {}) /\ Holding(p, {l.ip})
    BY <1>1 DEF CreateNew, SetDp
  <2>2. /\ ref' = [i \in Inum |-> ref'[i]]
        /\ valid' \in [Inum -> BOOLEAN]
        /\ \A i \in Inum : ref'[i] = ref[i]
    BY <1>4, <2>1, TouchNone
  <2>3. NodeTypes'
    <3>1. PICK k, e : k = (IF TypeOf(l.op) = "DIR" THEN 1 ELSE 0) /\ e = (IF TypeOf(l.op) = "DIR" THEN l.dp ELSE 0)
      OBVIOUS
    <3>2. k \in Int /\ e \in Node
      BY <1>5, <3>1, NullNode
    <3>3. dinode' = SetLinks(AddLinks(dinode, l.dp, k), l.ip, 1)
      <4>1. dinode' = SetLinks(AddLinks(dinode, l.dp, IF TypeOf(l.op) = "DIR" THEN 1 ELSE 0), l.ip, 1)
        BY <1>1 DEF CreateNew, AddLinks, SetLinks
      <4> QED
        BY <3>1, <4>1
    <3>4. PICK D, E : D = AddLinks(dinode, l.dp, k) /\ E = Entered(l.dp, Head(l.rest), l.ip)
      OBVIOUS
    <3>5. dinode \in Inodes /\ 1 \in Int
      BY <1>4, DiskIs
    <3>6. D \in Inodes
      BY <1>5, <3>2, <3>4, <3>5, LinksAre
    <3>7. dinode' \in Inodes
      BY <1>5, <3>3, <3>4, <3>5, <3>6, LinksAre
    <3>8. E \in Dirs
      BY <1>4, <1>3, <1>5, <3>4, EnteredIs
    <3>9. dir' = [E EXCEPT ![l.ip][".."] = e]
      BY <1>1, <3>1, <3>4 DEF CreateNew
    <3>10. dir' \in Dirs
      BY ONLY <1>5, <3>2, <3>8, <3>9 DEF Dirs
    <3> QED
      BY <1>4, <2>1, <2>2, <3>7, <3>10, NodesAre, HoldingIs
  <2>4. PICK m : m = SetDp(l, 0)
    OBVIOUS
  <2>5. m = Rec(l.op, l.rest, l.new, 0, l.ip, l.puts, l.then)
    BY <1>3, <2>4, Assigned
  <2>6. m.op = l.op /\ m.new = l.new /\ m.rest = l.rest /\ m.dp = 0 /\ m.ip = l.ip /\ m.puts = l.puts
    BY <2>5, RecIs
  <2>7. m \in Locals
    BY <1>3, <1>5, <2>5, LocalsAre, InLocals, NullNode
  <2>8. n \in Label /\ n \notin Putting /\ Fits(n, m)
    BY <1>3, <1>5, <2>6 DEF Label, Putting, Fits
  <2>9. PICK s : s = <<l.dp>>
    OBVIOUS
  <2>10. s \in Seq(Inum) /\ s # << >> /\ Len(s) <= 2 /\ First(s) = l.dp /\ Second(s) = 0
    BY <1>5, <2>9, OnePut, FirstIs
  <2>11. ASSUME NEW i \in Inum
         PROVE  /\ ref'[i] \in Int
                /\ ref'[i] + (One(loc[p].dp, i) + One(loc[p].ip, i)) = ref[i] + (One(m.dp, i) + One(m.ip, i) + One(First(s), i) + One(Second(s), i))
    <3>1. ref'[i] = ref[i] /\ ref[i] \in Nat
      BY <1>4, <2>2 DEF Types
    <3>2. loc[p].dp = l.dp /\ loc[p].ip = l.ip /\ One(0, i) = 0
      BY <1>1, OneZero
    <3> QED
      BY ONLY <3>1, <3>2, <1>5, <2>6, <2>10, OneIs
  <2>12. Put(p, s, n, m) /\ (m.op = "link" => Elems(m.new) \in Seq(Elem)) /\ m.puts = << >>
    BY <1>3, <2>1, <2>4, <2>6, <2>9
  <2> QED
    BY ONLY Inv, p \in Proc, <1>2, <1>3, <1>6, <2>2, <2>3, <2>11, <2>7, <2>8, <2>12, <2>10, PutStep

-----------------------------------------------------------------------------
(* unlink *)

LEMMA UnlinkLookupStep ==
  ASSUME Inv, NEW p \in Proc, UnlinkLookup(p)
  PROVE  Inv'
<1>1. PICK l, n : l = loc[p] /\ n = Lookup(l.dp, Head(l.rest))
  OBVIOUS
<1>2. pc[p] = "unlink" /\ pc[p] \notin Putting
  BY DEF UnlinkLookup, Putting
<1>3. /\ l \in Locals /\ l.dp \in Node /\ l.ip \in Node /\ l.rest \in Seq(Elem) /\ l.op \in Op \cup {"none"}
      /\ l.puts = << >> /\ Fits("unlink", l) /\ cwd[p] # 0
      /\ l.op = "link" => Elems(l.new) \in Seq(Elem)
  BY <1>1, <1>2, Within
<1>4. Types
  BY DEF Inv
<1>5. l.dp \in Inum /\ l.dp # 0 /\ l.ip = 0 /\ l.rest # << >>
  BY <1>3, NotNull DEF Fits
<1>6. l.dp \in Inum /\ l.dp # 0 /\ l.ip = 0 /\ l.rest # << >> /\ n \in Node
  BY <1>1, <1>3, <1>4, <1>5, RestIs, LookupIs
<1>7. UNCHANGED files
  BY DEF UnlinkLookup
<1>8. CASE Head(l.rest) \in {".", ".."} \/ n = 0
  <2>1. Finish(p, <<l.dp>>) /\ Touch({l.dp}, {}) /\ Holding(p, {}) /\ UNCHANGED disk
    BY <1>1, <1>8 DEF UnlinkLookup
  <2>2. /\ ref' = [i \in Inum |-> ref'[i]]
        /\ valid' \in [Inum -> BOOLEAN]
        /\ \A i \in Inum : ref'[i] = ref[i]
    BY <1>4, <2>1, TouchNone
  <2>3. NodeTypes'
    BY <1>4, <2>1, <2>2, NodesKept, HoldingIs
  <2>4. PICK s : s = <<l.dp>>
    OBVIOUS
  <2>5. s \in Seq(Inum) /\ s # << >> /\ Len(s) <= 2 /\ First(s) = l.dp /\ Second(s) = 0
    BY <1>6, <2>4, OnePut, FirstIs
  <2>6. ASSUME NEW i \in Inum
        PROVE  /\ ref'[i] \in Int
               /\ ref'[i] + (One(loc[p].dp, i) + One(loc[p].ip, i)) = ref[i] + (One(First(s), i) + One(Second(s), i))
    <3>1. ref'[i] = ref[i] /\ ref[i] \in Nat
      BY <1>4, <2>2 DEF Types
    <3>2. loc[p].dp = l.dp /\ loc[p].ip = l.ip /\ One(0, i) = 0
      BY <1>1, OneZero
    <3> QED
      BY ONLY <3>1, <3>2, <1>6, <2>5, OneIs
  <2>7. Finish(p, s)
    BY <2>1, <2>4
  <2> QED
    BY ONLY Inv, p \in Proc, <1>2, <1>3, <1>7, <2>2, <2>3, <2>6, <2>7, <2>5, FinishStep
<1>9. CASE ~(Head(l.rest) \in {".", ".."} \/ n = 0)
  <2>1. Goto(p, "unlinkip", SetIp(l, n)) /\ Touch({l.dp}, {n}) /\ Holding(p, {l.dp}) /\ UNCHANGED disk
    BY <1>1, <1>9 DEF UnlinkLookup, SetIp
  <2>2. /\ ref' = [i \in Inum |-> ref'[i]]
        /\ valid' \in [Inum -> BOOLEAN]
        /\ \A i \in Inum : ref'[i] = ref[i] + One(n, i)
    BY <1>4, <2>1, TouchOne
  <2>3. NodeTypes'
    BY <1>4, <2>1, <2>2, NodesKept, HoldingIs
  <2>4. PICK m : m = SetIp(l, n)
    OBVIOUS
  <2>5. m = Rec(l.op, l.rest, l.new, l.dp, n, l.puts, l.then)
    BY <1>3, <2>4, Assigned
  <2>6. m.op = l.op /\ m.new = l.new /\ m.rest = l.rest /\ m.dp = l.dp /\ m.ip = n /\ m.puts = l.puts
    BY <2>5, RecIs
  <2>7. m \in Locals
    BY <1>3, <1>6, <2>5, LocalsAre, InLocals, NullNode
  <2>8. "unlinkip" \in Label /\ "unlinkip" \notin Putting /\ Fits("unlinkip", m)
    BY <1>3, <1>6, <2>6, <1>9 DEF Label, Putting, Fits
  <2>9. ASSUME NEW i \in Inum
        PROVE  /\ ref'[i] \in Int
               /\ ref'[i] + (One(loc[p].dp, i) + One(loc[p].ip, i)) = ref[i] + (One(m.dp, i) + One(m.ip, i))
    <3>1. ref'[i] = ref[i] + One(n, i) /\ ref[i] \in Nat
      BY <1>4, <2>2 DEF Types
    <3>2. loc[p].dp = l.dp /\ loc[p].ip = l.ip /\ One(0, i) = 0
      BY <1>1, OneZero
    <3> QED
      BY ONLY <3>1, <3>2, <1>6, <2>6, OneIs
  <2>10. Goto(p, "unlinkip", m) /\ (m.op = "link" => Elems(m.new) \in Seq(Elem)) /\ m.puts = << >>
    BY <1>3, <2>1, <2>4, <2>6
  <2> QED
    BY ONLY Inv, p \in Proc, <1>2, <1>3, <1>7, <2>2, <2>3, <2>9, <2>7, <2>8, <2>10, GoStep
<1> QED
  BY <1>8, <1>9

LEMMA UnlinkFullStep ==
  ASSUME Inv, NEW p \in Proc, UnlinkFull(p)
  PROVE  Inv'
<1>1. PICK l : l = loc[p]
  OBVIOUS
<1>2. pc[p] = "unlinkip" /\ pc[p] \notin Putting
  BY DEF UnlinkFull, Putting
<1>3. /\ l \in Locals /\ l.dp \in Node /\ l.ip \in Node /\ l.rest \in Seq(Elem) /\ l.op \in Op \cup {"none"}
      /\ l.puts = << >> /\ Fits("unlinkip", l) /\ cwd[p] # 0
      /\ l.op = "link" => Elems(l.new) \in Seq(Elem)
  BY <1>1, <1>2, Within
<1>4. Types
  BY DEF Inv
<1>5. l.dp \in Inum /\ l.dp # 0 /\ l.ip \in Inum /\ l.ip # 0
  BY <1>3, NotNull DEF Fits
<1>6. UNCHANGED files
  BY DEF UnlinkFull
<1> QED
  <2>1. Put(p, <<l.ip>>, "unlinkbad", SetIp(l, 0)) /\ Touch({l.ip}, {}) /\ UNCHANGED lock /\ UNCHANGED disk
    BY <1>1 DEF UnlinkFull, SetIp
  <2>2. /\ ref' = [i \in Inum |-> ref'[i]]
        /\ valid' \in [Inum -> BOOLEAN]
        /\ \A i \in Inum : ref'[i] = ref[i]
    BY <1>4, <2>1, TouchNone
  <2>3. NodeTypes'
    BY <1>4, <2>1, <2>2, NodesKept, LockKept
  <2>4. PICK m : m = SetIp(l, 0)
    OBVIOUS
  <2>5. m = Rec(l.op, l.rest, l.new, l.dp, 0, l.puts, l.then)
    BY <1>3, <2>4, Assigned
  <2>6. m.op = l.op /\ m.new = l.new /\ m.rest = l.rest /\ m.dp = l.dp /\ m.ip = 0 /\ m.puts = l.puts
    BY <2>5, RecIs
  <2>7. m \in Locals
    BY <1>3, <1>5, <2>5, LocalsAre, InLocals, NullNode
  <2>8. "unlinkbad" \in Label /\ "unlinkbad" \notin Putting /\ Fits("unlinkbad", m)
    BY <1>3, <1>5, <2>6 DEF Label, Putting, Fits
  <2>9. PICK s : s = <<l.ip>>
    OBVIOUS
  <2>10. s \in Seq(Inum) /\ s # << >> /\ Len(s) <= 2 /\ First(s) = l.ip /\ Second(s) = 0
    BY <1>5, <2>9, OnePut, FirstIs
  <2>11. ASSUME NEW i \in Inum
         PROVE  /\ ref'[i] \in Int
                /\ ref'[i] + (One(loc[p].dp, i) + One(loc[p].ip, i)) = ref[i] + (One(m.dp, i) + One(m.ip, i) + One(First(s), i) + One(Second(s), i))
    <3>1. ref'[i] = ref[i] /\ ref[i] \in Nat
      BY <1>4, <2>2 DEF Types
    <3>2. loc[p].dp = l.dp /\ loc[p].ip = l.ip /\ One(0, i) = 0
      BY <1>1, OneZero
    <3> QED
      BY ONLY <3>1, <3>2, <1>5, <2>6, <2>10, OneIs
  <2>12. Put(p, s, "unlinkbad", m) /\ (m.op = "link" => Elems(m.new) \in Seq(Elem)) /\ m.puts = << >>
    BY <1>3, <2>1, <2>4, <2>6, <2>9
  <2> QED
    BY ONLY Inv, p \in Proc, <1>2, <1>3, <1>6, <2>2, <2>3, <2>11, <2>7, <2>8, <2>12, <2>10, PutStep

LEMMA UnlinkBadStep ==
  ASSUME Inv, NEW p \in Proc, UnlinkBad(p)
  PROVE  Inv'
<1>1. PICK l : l = loc[p]
  OBVIOUS
<1>2. pc[p] = "unlinkbad" /\ pc[p] \notin Putting
  BY DEF UnlinkBad, Putting
<1>3. /\ l \in Locals /\ l.dp \in Node /\ l.ip \in Node /\ l.rest \in Seq(Elem) /\ l.op \in Op \cup {"none"}
      /\ l.puts = << >> /\ Fits("unlinkbad", l) /\ cwd[p] # 0
      /\ l.op = "link" => Elems(l.new) \in Seq(Elem)
  BY <1>1, <1>2, Within
<1>4. Types
  BY DEF Inv
<1>5. l.dp \in Inum /\ l.dp # 0 /\ l.ip = 0
  BY <1>3, NotNull DEF Fits
<1>6. UNCHANGED files
  BY DEF UnlinkBad
<1> QED
  <2>1. Finish(p, <<l.dp>>) /\ UNCHANGED cache /\ Holding(p, {}) /\ UNCHANGED disk
    BY <1>1 DEF UnlinkBad
  <2>2. /\ ref' = [i \in Inum |-> ref'[i]]
        /\ valid' \in [Inum -> BOOLEAN]
        /\ \A i \in Inum : ref'[i] = ref[i]
    BY <1>4, <2>1, CacheKept
  <2>3. NodeTypes'
    BY <1>4, <2>1, <2>2, NodesKept, HoldingIs
  <2>4. PICK s : s = <<l.dp>>
    OBVIOUS
  <2>5. s \in Seq(Inum) /\ s # << >> /\ Len(s) <= 2 /\ First(s) = l.dp /\ Second(s) = 0
    BY <1>5, <2>4, OnePut, FirstIs
  <2>6. ASSUME NEW i \in Inum
        PROVE  /\ ref'[i] \in Int
               /\ ref'[i] + (One(loc[p].dp, i) + One(loc[p].ip, i)) = ref[i] + (One(First(s), i) + One(Second(s), i))
    <3>1. ref'[i] = ref[i] /\ ref[i] \in Nat
      BY <1>4, <2>2 DEF Types
    <3>2. loc[p].dp = l.dp /\ loc[p].ip = l.ip /\ One(0, i) = 0
      BY <1>1, OneZero
    <3> QED
      BY ONLY <3>1, <3>2, <1>5, <2>5, OneIs
  <2>7. Finish(p, s)
    BY <2>1, <2>4
  <2> QED
    BY ONLY Inv, p \in Proc, <1>2, <1>3, <1>6, <2>2, <2>3, <2>6, <2>7, <2>5, FinishStep

LEMMA UnlinkEraseStep ==
  ASSUME Inv, NEW p \in Proc, UnlinkErase(p)
  PROVE  Inv'
<1>1. PICK l : l = loc[p]
  OBVIOUS
<1>2. pc[p] = "unlinkip" /\ pc[p] \notin Putting
  BY DEF UnlinkErase, Putting
<1>3. /\ l \in Locals /\ l.dp \in Node /\ l.ip \in Node /\ l.rest \in Seq(Elem) /\ l.op \in Op \cup {"none"}
      /\ l.puts = << >> /\ Fits("unlinkip", l) /\ cwd[p] # 0
      /\ l.op = "link" => Elems(l.new) \in Seq(Elem)
  BY <1>1, <1>2, Within
<1>4. Types
  BY DEF Inv
<1>5. l.dp \in Inum /\ l.dp # 0 /\ l.ip \in Inum /\ l.ip # 0
  BY <1>3, NotNull DEF Fits
<1>6. UNCHANGED files
  BY DEF UnlinkErase
<1> QED
  <2>1. Put(p, <<l.dp>>, "unlinked", SetDp(l, 0)) /\ Touch({l.ip}, {}) /\ Holding(p, {l.ip})
    BY <1>1 DEF UnlinkErase, SetDp
  <2>2. /\ ref' = [i \in Inum |-> ref'[i]]
        /\ valid' \in [Inum -> BOOLEAN]
        /\ \A i \in Inum : ref'[i] = ref[i]
    BY <1>4, <2>1, TouchNone
  <2>3. NodeTypes'
    <3>1. PICK k : k = IF dinode[l.ip].type = "DIR" THEN 1 ELSE 0
      OBVIOUS
    <3>2. k \in Int
      BY <3>1
    <3>3. dinode' = SubLinks(dinode, l.dp, k) /\ dir' = Entered(l.dp, Head(l.rest), 0)
      BY <1>1, <3>1 DEF UnlinkErase, SubLinks
    <3>4. dinode' \in Inodes
      BY <1>4, <1>5, <3>2, <3>3, DiskIs, LinksAre
    <3>5. dir' \in Dirs
      BY <1>4, <1>5, <3>3, EnteredIs, NullNode
    <3> QED
      BY <1>4, <2>1, <2>2, <3>4, <3>5, NodesAre, HoldingIs
  <2>4. PICK m : m = SetDp(l, 0)
    OBVIOUS
  <2>5. m = Rec(l.op, l.rest, l.new, 0, l.ip, l.puts, l.then)
    BY <1>3, <2>4, Assigned
  <2>6. m.op = l.op /\ m.new = l.new /\ m.rest = l.rest /\ m.dp = 0 /\ m.ip = l.ip /\ m.puts = l.puts
    BY <2>5, RecIs
  <2>7. m \in Locals
    BY <1>3, <1>5, <2>5, LocalsAre, InLocals, NullNode
  <2>8. "unlinked" \in Label /\ "unlinked" \notin Putting /\ Fits("unlinked", m)
    BY <1>3, <1>5, <2>6 DEF Label, Putting, Fits
  <2>9. PICK s : s = <<l.dp>>
    OBVIOUS
  <2>10. s \in Seq(Inum) /\ s # << >> /\ Len(s) <= 2 /\ First(s) = l.dp /\ Second(s) = 0
    BY <1>5, <2>9, OnePut, FirstIs
  <2>11. ASSUME NEW i \in Inum
         PROVE  /\ ref'[i] \in Int
                /\ ref'[i] + (One(loc[p].dp, i) + One(loc[p].ip, i)) = ref[i] + (One(m.dp, i) + One(m.ip, i) + One(First(s), i) + One(Second(s), i))
    <3>1. ref'[i] = ref[i] /\ ref[i] \in Nat
      BY <1>4, <2>2 DEF Types
    <3>2. loc[p].dp = l.dp /\ loc[p].ip = l.ip /\ One(0, i) = 0
      BY <1>1, OneZero
    <3> QED
      BY ONLY <3>1, <3>2, <1>5, <2>6, <2>10, OneIs
  <2>12. Put(p, s, "unlinked", m) /\ (m.op = "link" => Elems(m.new) \in Seq(Elem)) /\ m.puts = << >>
    BY <1>3, <2>1, <2>4, <2>6, <2>9
  <2> QED
    BY ONLY Inv, p \in Proc, <1>2, <1>3, <1>6, <2>2, <2>3, <2>11, <2>7, <2>8, <2>12, <2>10, PutStep

LEMMA UnlinkedStep ==
  ASSUME Inv, NEW p \in Proc, Unlinked(p)
  PROVE  Inv'
<1>1. PICK l : l = loc[p]
  OBVIOUS
<1>2. pc[p] = "unlinked" /\ pc[p] \notin Putting
  BY DEF Unlinked, Putting
<1>3. /\ l \in Locals /\ l.dp \in Node /\ l.ip \in Node /\ l.rest \in Seq(Elem) /\ l.op \in Op \cup {"none"}
      /\ l.puts = << >> /\ Fits("unlinked", l) /\ cwd[p] # 0
      /\ l.op = "link" => Elems(l.new) \in Seq(Elem)
  BY <1>1, <1>2, Within
<1>4. Types
  BY DEF Inv
<1>5. l.ip \in Inum /\ l.ip # 0 /\ l.dp = 0
  BY <1>3, NotNull DEF Fits
<1>6. UNCHANGED files
  BY DEF Unlinked
<1> QED
  <2>1. Finish(p, <<l.ip>>) /\ UNCHANGED cache /\ Holding(p, {})
    BY <1>1 DEF Unlinked
  <2>2. /\ ref' = [i \in Inum |-> ref'[i]]
        /\ valid' \in [Inum -> BOOLEAN]
        /\ \A i \in Inum : ref'[i] = ref[i]
    BY <1>4, <2>1, CacheKept
  <2>3. NodeTypes'
    <3>1. dinode' = SubLinks(dinode, l.ip, 1) /\ dir' = dir /\ 1 \in Int
      BY <1>1 DEF Unlinked, SubLinks
    <3>2. dinode' \in Inodes /\ dir' \in Dirs
      BY <1>4, <1>5, <3>1, DiskIs, LinksAre
    <3> QED
      BY <1>4, <2>1, <2>2, <3>2, NodesAre, HoldingIs
  <2>4. PICK s : s = <<l.ip>>
    OBVIOUS
  <2>5. s \in Seq(Inum) /\ s # << >> /\ Len(s) <= 2 /\ First(s) = l.ip /\ Second(s) = 0
    BY <1>5, <2>4, OnePut, FirstIs
  <2>6. ASSUME NEW i \in Inum
        PROVE  /\ ref'[i] \in Int
               /\ ref'[i] + (One(loc[p].dp, i) + One(loc[p].ip, i)) = ref[i] + (One(First(s), i) + One(Second(s), i))
    <3>1. ref'[i] = ref[i] /\ ref[i] \in Nat
      BY <1>4, <2>2 DEF Types
    <3>2. loc[p].dp = l.dp /\ loc[p].ip = l.ip /\ One(0, i) = 0
      BY <1>1, OneZero
    <3> QED
      BY ONLY <3>1, <3>2, <1>5, <2>5, OneIs
  <2>7. Finish(p, s)
    BY <2>1, <2>4
  <2> QED
    BY ONLY Inv, p \in Proc, <1>2, <1>3, <1>6, <2>2, <2>3, <2>6, <2>7, <2>5, FinishStep

-----------------------------------------------------------------------------
(* link *)

\* Where a path starts.
LEMMA StartIs ==
  ASSUME Types, NEW p \in Proc, cwd[p] # 0, NEW path
  PROVE  Start(p, path) \in Inum
<1>1. cwd[p] \in Inum
  BY NotNull DEF Types, FileTypes
<1>2. ROOTINO \in Inum
  BY FileSysAssumption
<1> QED
  BY <1>1, <1>2 DEF Start

LEMMA LinkIncStep ==
  ASSUME Inv, NEW p \in Proc, LinkInc(p)
  PROVE  Inv'
<1>1. PICK l, n : l = loc[p] /\ n = Start(p, l.new)
  OBVIOUS
<1>2. pc[p] = "link" /\ pc[p] \notin Putting
  BY DEF LinkInc, Putting
<1>3. /\ l \in Locals /\ l.dp \in Node /\ l.ip \in Node /\ l.rest \in Seq(Elem) /\ l.op \in Op \cup {"none"}
      /\ l.puts = << >> /\ Fits("link", l) /\ cwd[p] # 0
      /\ l.op = "link" => Elems(l.new) \in Seq(Elem)
  BY <1>1, <1>2, Within
<1>4. Types
  BY DEF Inv
<1>5. l.ip \in Inum /\ l.ip # 0 /\ l.dp = 0 /\ l.op = "link" /\ Elems(l.new) \in Seq(Elem)
  BY <1>3, NotNull DEF Fits
<1>6. l.ip \in Inum /\ l.ip # 0 /\ l.dp = 0 /\ l.op = "link" /\ l.op \in Op /\ n \in Inum /\ n \in Node /\ n # 0 /\ Elems(l.new) \in Seq(Elem)
  BY <1>1, <1>3, <1>4, <1>5, StartIs, NullNode DEF Op
<1>7. UNCHANGED files
  BY DEF LinkInc
<1>8. CASE dinode[l.ip].type = "DIR"
  <2>1. Finish(p, <<l.ip>>) /\ Touch({l.ip}, {}) /\ UNCHANGED lock
    BY <1>1, <1>8 DEF LinkInc
  <2>2. /\ ref' = [i \in Inum |-> ref'[i]]
        /\ valid' \in [Inum -> BOOLEAN]
        /\ \A i \in Inum : ref'[i] = ref[i]
    BY <1>4, <2>1, TouchNone
  <2>3. NodeTypes'
    <3>1. dinode' = AddLinks(dinode, l.ip, 0) /\ dir' = dir /\ 0 \in Int
      BY <1>1, <1>8 DEF LinkInc, AddLinks
    <3>2. dinode' \in Inodes /\ dir' \in Dirs
      BY <1>4, <1>6, <3>1, DiskIs, LinksAre
    <3> QED
      BY <1>4, <2>1, <2>2, <3>2, NodesAre, LockKept
  <2>4. PICK s : s = <<l.ip>>
    OBVIOUS
  <2>5. s \in Seq(Inum) /\ s # << >> /\ Len(s) <= 2 /\ First(s) = l.ip /\ Second(s) = 0
    BY <1>6, <2>4, OnePut, FirstIs
  <2>6. ASSUME NEW i \in Inum
        PROVE  /\ ref'[i] \in Int
               /\ ref'[i] + (One(loc[p].dp, i) + One(loc[p].ip, i)) = ref[i] + (One(First(s), i) + One(Second(s), i))
    <3>1. ref'[i] = ref[i] /\ ref[i] \in Nat
      BY <1>4, <2>2 DEF Types
    <3>2. loc[p].dp = l.dp /\ loc[p].ip = l.ip /\ One(0, i) = 0
      BY <1>1, OneZero
    <3> QED
      BY ONLY <3>1, <3>2, <1>6, <2>5, OneIs
  <2>7. Finish(p, s)
    BY <2>1, <2>4
  <2> QED
    BY ONLY Inv, p \in Proc, <1>2, <1>3, <1>7, <2>2, <2>3, <2>6, <2>7, <2>5, FinishStep
<1>9. CASE dinode[l.ip].type # "DIR"
  <2>1. Goto(p, "walk", SetDpRest(l, n, Elems(l.new))) /\ Touch({l.ip}, {n}) /\ UNCHANGED lock
    BY <1>1, <1>9 DEF LinkInc, SetDpRest
  <2>2. /\ ref' = [i \in Inum |-> ref'[i]]
        /\ valid' \in [Inum -> BOOLEAN]
        /\ \A i \in Inum : ref'[i] = ref[i] + One(n, i)
    BY <1>4, <2>1, TouchOne
  <2>3. NodeTypes'
    <3>1. dinode' = AddLinks(dinode, l.ip, 1) /\ dir' = dir /\ 1 \in Int
      BY <1>1, <1>9 DEF LinkInc, AddLinks
    <3>2. dinode' \in Inodes /\ dir' \in Dirs
      BY <1>4, <1>6, <3>1, DiskIs, LinksAre
    <3> QED
      BY <1>4, <2>1, <2>2, <3>2, NodesAre, LockKept
  <2>4. PICK m : m = SetDpRest(l, n, Elems(l.new))
    OBVIOUS
  <2>5. m = Rec(l.op, Elems(l.new), l.new, n, l.ip, l.puts, l.then)
    BY <1>3, <2>4, Assigned
  <2>6. m.op = l.op /\ m.new = l.new /\ m.rest = Elems(l.new) /\ m.dp = n /\ m.ip = l.ip /\ m.puts = l.puts
    BY <2>5, RecIs
  <2>7. m \in Locals
    BY <1>3, <1>6, <2>5, LocalsAre, InLocals, NullNode
  <2>8. "walk" \in Label /\ "walk" \notin Putting /\ Fits("walk", m)
    BY <1>3, <1>6, <2>6, <1>9 DEF Label, Putting, Fits
  <2>9. ASSUME NEW i \in Inum
        PROVE  /\ ref'[i] \in Int
               /\ ref'[i] + (One(loc[p].dp, i) + One(loc[p].ip, i)) = ref[i] + (One(m.dp, i) + One(m.ip, i))
    <3>1. ref'[i] = ref[i] + One(n, i) /\ ref[i] \in Nat
      BY <1>4, <2>2 DEF Types
    <3>2. loc[p].dp = l.dp /\ loc[p].ip = l.ip /\ One(0, i) = 0
      BY <1>1, OneZero
    <3> QED
      BY ONLY <3>1, <3>2, <1>6, <2>6, OneIs
  <2>10. Goto(p, "walk", m) /\ (m.op = "link" => Elems(m.new) \in Seq(Elem)) /\ m.puts = << >>
    BY <1>3, <2>1, <2>4, <2>6
  <2> QED
    BY ONLY Inv, p \in Proc, <1>2, <1>3, <1>7, <2>2, <2>3, <2>9, <2>7, <2>8, <2>10, GoStep
<1> QED
  BY <1>8, <1>9

LEMMA LinkExistsStep ==
  ASSUME Inv, NEW p \in Proc, LinkExists(p)
  PROVE  Inv'
<1>1. PICK l, n : l = loc[p] /\ n = Lookup(l.dp, Head(l.rest))
  OBVIOUS
<1>2. pc[p] = "linkdir" /\ pc[p] \notin Putting
  BY DEF LinkExists, Putting
<1>3. /\ l \in Locals /\ l.dp \in Node /\ l.ip \in Node /\ l.rest \in Seq(Elem) /\ l.op \in Op \cup {"none"}
      /\ l.puts = << >> /\ Fits("linkdir", l) /\ cwd[p] # 0
      /\ l.op = "link" => Elems(l.new) \in Seq(Elem)
  BY <1>1, <1>2, Within
<1>4. Types
  BY DEF Inv
<1>5. l.dp \in Inum /\ l.dp # 0 /\ l.ip \in Inum /\ l.ip # 0 /\ l.rest # << >>
  BY <1>3, NotNull DEF Fits
<1>6. l.dp \in Inum /\ l.dp # 0 /\ l.ip \in Inum /\ l.ip # 0 /\ l.rest # << >> /\ n \in Inum
  BY <1>1, <1>3, <1>4, <1>5, RestIs, LookupIs, NotNull DEF LinkExists
<1>7. UNCHANGED files
  BY DEF LinkExists
<1> QED
  <2>1. Put(p, <<n>>, "linkput", l) /\ Touch({l.dp}, {n}) /\ Holding(p, {l.dp}) /\ UNCHANGED disk
    BY <1>1 DEF LinkExists
  <2>2. /\ ref' = [i \in Inum |-> ref'[i]]
        /\ valid' \in [Inum -> BOOLEAN]
        /\ \A i \in Inum : ref'[i] = ref[i] + One(n, i)
    BY <1>4, <2>1, TouchOne
  <2>3. NodeTypes'
    BY <1>4, <2>1, <2>2, NodesKept, HoldingIs
  <2>4. "linkput" \in Label /\ "linkput" \notin Putting /\ Fits("linkput", l)
    BY <1>3, <1>6 DEF Label, Putting, Fits
  <2>5. PICK s : s = <<n>>
    OBVIOUS
  <2>6. s \in Seq(Inum) /\ s # << >> /\ Len(s) <= 2 /\ First(s) = n /\ Second(s) = 0
    BY <1>6, <2>5, OnePut, FirstIs
  <2>7. ASSUME NEW i \in Inum
        PROVE  /\ ref'[i] \in Int
               /\ ref'[i] + (One(loc[p].dp, i) + One(loc[p].ip, i)) = ref[i] + (One(l.dp, i) + One(l.ip, i) + One(First(s), i) + One(Second(s), i))
    <3>1. ref'[i] = ref[i] + One(n, i) /\ ref[i] \in Nat
      BY <1>4, <2>2 DEF Types
    <3>2. loc[p].dp = l.dp /\ loc[p].ip = l.ip /\ One(0, i) = 0
      BY <1>1, OneZero
    <3> QED
      BY ONLY <3>1, <3>2, <1>6, <2>6, OneIs
  <2>8. Put(p, s, "linkput", l)
    BY <2>1, <2>5
  <2> QED
    BY ONLY Inv, p \in Proc, <1>2, <1>3, <1>7, <2>2, <2>3, <2>7, <2>4, <2>8, <2>6, PutStep

LEMMA LinkPutStep ==
  ASSUME Inv, NEW p \in Proc, LinkPut(p)
  PROVE  Inv'
<1>1. PICK l : l = loc[p]
  OBVIOUS
<1>2. pc[p] = "linkput" /\ pc[p] \notin Putting
  BY DEF LinkPut, Putting
<1>3. /\ l \in Locals /\ l.dp \in Node /\ l.ip \in Node /\ l.rest \in Seq(Elem) /\ l.op \in Op \cup {"none"}
      /\ l.puts = << >> /\ Fits("linkput", l) /\ cwd[p] # 0
      /\ l.op = "link" => Elems(l.new) \in Seq(Elem)
  BY <1>1, <1>2, Within
<1>4. Types
  BY DEF Inv
<1>5. l.dp \in Inum /\ l.dp # 0 /\ l.ip \in Inum /\ l.ip # 0
  BY <1>3, NotNull DEF Fits
<1>6. UNCHANGED files
  BY DEF LinkPut
<1> QED
  <2>1. Put(p, <<l.dp>>, "linkbad", SetDp(l, 0)) /\ UNCHANGED cache /\ Holding(p, {}) /\ UNCHANGED disk
    BY <1>1 DEF LinkPut, SetDp
  <2>2. /\ ref' = [i \in Inum |-> ref'[i]]
        /\ valid' \in [Inum -> BOOLEAN]
        /\ \A i \in Inum : ref'[i] = ref[i]
    BY <1>4, <2>1, CacheKept
  <2>3. NodeTypes'
    BY <1>4, <2>1, <2>2, NodesKept, HoldingIs
  <2>4. PICK m : m = SetDp(l, 0)
    OBVIOUS
  <2>5. m = Rec(l.op, l.rest, l.new, 0, l.ip, l.puts, l.then)
    BY <1>3, <2>4, Assigned
  <2>6. m.op = l.op /\ m.new = l.new /\ m.rest = l.rest /\ m.dp = 0 /\ m.ip = l.ip /\ m.puts = l.puts
    BY <2>5, RecIs
  <2>7. m \in Locals
    BY <1>3, <1>5, <2>5, LocalsAre, InLocals, NullNode
  <2>8. "linkbad" \in Label /\ "linkbad" \notin Putting /\ Fits("linkbad", m)
    BY <1>3, <1>5, <2>6 DEF Label, Putting, Fits
  <2>9. PICK s : s = <<l.dp>>
    OBVIOUS
  <2>10. s \in Seq(Inum) /\ s # << >> /\ Len(s) <= 2 /\ First(s) = l.dp /\ Second(s) = 0
    BY <1>5, <2>9, OnePut, FirstIs
  <2>11. ASSUME NEW i \in Inum
         PROVE  /\ ref'[i] \in Int
                /\ ref'[i] + (One(loc[p].dp, i) + One(loc[p].ip, i)) = ref[i] + (One(m.dp, i) + One(m.ip, i) + One(First(s), i) + One(Second(s), i))
    <3>1. ref'[i] = ref[i] /\ ref[i] \in Nat
      BY <1>4, <2>2 DEF Types
    <3>2. loc[p].dp = l.dp /\ loc[p].ip = l.ip /\ One(0, i) = 0
      BY <1>1, OneZero
    <3> QED
      BY ONLY <3>1, <3>2, <1>5, <2>6, <2>10, OneIs
  <2>12. Put(p, s, "linkbad", m) /\ (m.op = "link" => Elems(m.new) \in Seq(Elem)) /\ m.puts = << >>
    BY <1>3, <2>1, <2>4, <2>6, <2>9
  <2> QED
    BY ONLY Inv, p \in Proc, <1>2, <1>3, <1>6, <2>2, <2>3, <2>11, <2>7, <2>8, <2>12, <2>10, PutStep

LEMMA LinkDoneStep ==
  ASSUME Inv, NEW p \in Proc, LinkDone(p)
  PROVE  Inv'
<1>1. PICK l : l = loc[p]
  OBVIOUS
<1>2. pc[p] = "linkdir" /\ pc[p] \notin Putting
  BY DEF LinkDone, Putting
<1>3. /\ l \in Locals /\ l.dp \in Node /\ l.ip \in Node /\ l.rest \in Seq(Elem) /\ l.op \in Op \cup {"none"}
      /\ l.puts = << >> /\ Fits("linkdir", l) /\ cwd[p] # 0
      /\ l.op = "link" => Elems(l.new) \in Seq(Elem)
  BY <1>1, <1>2, Within
<1>4. Types
  BY DEF Inv
<1>5. l.dp \in Inum /\ l.dp # 0 /\ l.ip \in Inum /\ l.ip # 0
  BY <1>3, NotNull DEF Fits
<1>6. UNCHANGED files
  BY DEF LinkDone
<1> QED
  <2>1. Finish(p, <<l.dp, l.ip>>) /\ Touch({l.dp}, {}) /\ UNCHANGED lock
    BY <1>1 DEF LinkDone
  <2>2. /\ ref' = [i \in Inum |-> ref'[i]]
        /\ valid' \in [Inum -> BOOLEAN]
        /\ \A i \in Inum : ref'[i] = ref[i]
    BY <1>4, <2>1, TouchNone
  <2>3. NodeTypes'
    <3>1. dinode' = dinode /\ dir' = Entered(l.dp, Head(l.rest), l.ip)
      BY <1>1 DEF LinkDone
    <3>2. dinode' \in Inodes /\ dir' \in Dirs
      BY <1>4, <1>3, <1>5, <3>1, DiskIs, EnteredIs
    <3> QED
      BY <1>4, <2>1, <2>2, <3>2, NodesAre, LockKept
  <2>4. PICK s : s = <<l.dp, l.ip>>
    OBVIOUS
  <2>5. s \in Seq(Inum) /\ s # << >> /\ Len(s) <= 2 /\ First(s) = l.dp /\ Second(s) = l.ip
    BY <1>5, <2>4, TwoPut, FirstIs
  <2>6. ASSUME NEW i \in Inum
        PROVE  /\ ref'[i] \in Int
               /\ ref'[i] + (One(loc[p].dp, i) + One(loc[p].ip, i)) = ref[i] + (One(First(s), i) + One(Second(s), i))
    <3>1. ref'[i] = ref[i] /\ ref[i] \in Nat
      BY <1>4, <2>2 DEF Types
    <3>2. loc[p].dp = l.dp /\ loc[p].ip = l.ip /\ One(0, i) = 0
      BY <1>1, OneZero
    <3> QED
      BY ONLY <3>1, <3>2, <1>5, <2>5, OneIs
  <2>7. Finish(p, s)
    BY <2>1, <2>4
  <2> QED
    BY ONLY Inv, p \in Proc, <1>2, <1>3, <1>6, <2>2, <2>3, <2>6, <2>7, <2>5, FinishStep

LEMMA LinkBadStep ==
  ASSUME Inv, NEW p \in Proc, LinkBad(p)
  PROVE  Inv'
<1>1. PICK l : l = loc[p]
  OBVIOUS
<1>2. pc[p] = "linkbad" /\ pc[p] \notin Putting
  BY DEF LinkBad, Putting
<1>3. /\ l \in Locals /\ l.dp \in Node /\ l.ip \in Node /\ l.rest \in Seq(Elem) /\ l.op \in Op \cup {"none"}
      /\ l.puts = << >> /\ Fits("linkbad", l) /\ cwd[p] # 0
      /\ l.op = "link" => Elems(l.new) \in Seq(Elem)
  BY <1>1, <1>2, Within
<1>4. Types
  BY DEF Inv
<1>5. l.ip \in Inum /\ l.ip # 0 /\ l.dp = 0
  BY <1>3, NotNull DEF Fits
<1>6. UNCHANGED files
  BY DEF LinkBad
<1> QED
  <2>1. Finish(p, <<l.ip>>) /\ Touch({l.ip}, {}) /\ UNCHANGED lock
    BY <1>1 DEF LinkBad
  <2>2. /\ ref' = [i \in Inum |-> ref'[i]]
        /\ valid' \in [Inum -> BOOLEAN]
        /\ \A i \in Inum : ref'[i] = ref[i]
    BY <1>4, <2>1, TouchNone
  <2>3. NodeTypes'
    <3>1. dinode' = SubLinks(dinode, l.ip, 1) /\ dir' = dir /\ 1 \in Int
      BY <1>1 DEF LinkBad, SubLinks
    <3>2. dinode' \in Inodes /\ dir' \in Dirs
      BY <1>4, <1>5, <3>1, DiskIs, LinksAre
    <3> QED
      BY <1>4, <2>1, <2>2, <3>2, NodesAre, LockKept
  <2>4. PICK s : s = <<l.ip>>
    OBVIOUS
  <2>5. s \in Seq(Inum) /\ s # << >> /\ Len(s) <= 2 /\ First(s) = l.ip /\ Second(s) = 0
    BY <1>5, <2>4, OnePut, FirstIs
  <2>6. ASSUME NEW i \in Inum
        PROVE  /\ ref'[i] \in Int
               /\ ref'[i] + (One(loc[p].dp, i) + One(loc[p].ip, i)) = ref[i] + (One(First(s), i) + One(Second(s), i))
    <3>1. ref'[i] = ref[i] /\ ref[i] \in Nat
      BY <1>4, <2>2 DEF Types
    <3>2. loc[p].dp = l.dp /\ loc[p].ip = l.ip /\ One(0, i) = 0
      BY <1>1, OneZero
    <3> QED
      BY ONLY <3>1, <3>2, <1>5, <2>5, OneIs
  <2>7. Finish(p, s)
    BY <2>1, <2>4
  <2> QED
    BY ONLY Inv, p \in Proc, <1>2, <1>3, <1>6, <2>2, <2>3, <2>6, <2>7, <2>5, FinishStep

-----------------------------------------------------------------------------
(* Beginning and ending *)

SetOp(l, a) == [l EXCEPT !.op = a]
SetNew(l, a) == [l EXCEPT !.new = a]
SetCall(l, a, b, e, d) == [l EXCEPT !.op = a, !.rest = b, !.new = e, !.dp = d]

\* The variables of a call that begins.
LEMMA Started ==
  ASSUME NEW a, NEW b, NEW e, NEW d
  PROVE  SetCall(NoLocals, a, b, e, d) = Rec(a, b, e, d, 0, << >>, "user")
<1>1. PICK l, s, u : l = NoLocals /\ s = << >> /\ u = "user"
  OBVIOUS
<1>2. l = Rec("none", s, s, 0, 0, s, u)
  BY <1>1, NoLocalsIs
<1>3. PICK l1 : l1 = SetOp(l, a)
  OBVIOUS
<1>4. l1 = Rec(a, s, s, 0, 0, s, u)
  BY ONLY <1>2, <1>3 DEF Rec, SetOp
<1>5. PICK l2 : l2 = SetRest(l1, b)
  OBVIOUS
<1>6. l2 = Rec(a, b, s, 0, 0, s, u)
  BY ONLY <1>4, <1>5 DEF Rec, SetRest
<1>7. PICK l3 : l3 = SetNew(l2, e)
  OBVIOUS
<1>8. l3 = Rec(a, b, e, 0, 0, s, u)
  BY ONLY <1>6, <1>7 DEF Rec, SetNew
<1>9. SetDp(l3, d) = Rec(a, b, e, d, 0, s, u)
  BY ONLY <1>8 DEF Rec, SetDp
<1>10. SetCall(l, a, b, e, d) = SetDp(l3, d)
  BY <1>3, <1>5, <1>7 DEF SetCall, SetOp, SetRest, SetNew, SetDp
<1> QED
  BY ONLY <1>1, <1>9, <1>10

LEMMA BeginStep ==
  ASSUME Inv, NEW p \in Proc, NEW c \in Calls, Begin(p, c)
  PROVE  Inv'
<1>1. PICK l, n : l = loc[p] /\ n = Start(p, c.path)
  OBVIOUS
<1>2. pc[p] = "user" /\ pc[p] \notin Putting /\ cwd[p] # 0
  BY DEF Begin, Putting
<1>3. Fits("user", l)
  BY <1>1, <1>2, Within
<1>4. l.dp = 0 /\ l.ip = 0
  BY <1>3 DEF Fits
<1>5. Types
  BY DEF Inv
<1>6. n \in Inum /\ n \in Node /\ n # 0
  BY <1>1, <1>2, <1>5, StartIs, NullNode
<1>7. /\ c.op \in Op /\ Elems(c.path) \in Seq(Elem)
      /\ (c.op = "link" => Elems(c.new) \in Seq(Elem))
  BY CallsAssumption DEF Op, Elem
<1>8. PICK m : m = Rec(c.op, Elems(c.path), c.new, n, 0, << >>, "user")
  OBVIOUS
<1>9. m.op = c.op /\ m.new = c.new /\ m.dp = n /\ m.ip = 0 /\ m.puts = << >>
  BY <1>8, RecIs
<1>10. m \in Locals
  <2>1. c.new \in {e.new : e \in Calls} \cup {<< >>} /\ << >> \in Seq(Inum) /\ 0 \in Node /\ "user" \in Label
        /\ c.op \in Op \cup {"none"}
    BY <1>7 DEF Label, Node
  <2> QED
    BY <1>6, <1>7, <1>8, <2>1, InLocals
<1>11. Goto(p, "walk", m)
  <2>1. SetCall(NoLocals, c.op, Elems(c.path), c.new, n) = m
    BY <1>8, Started
  <2> QED
    BY <1>1, <2>1 DEF Begin, SetCall
<1>12. "walk" \in Label /\ "walk" \notin Putting /\ Fits("walk", m)
  BY <1>6, <1>7, <1>9 DEF Label, Putting, Fits
<1>13. Touch({}, {n}) /\ UNCHANGED files /\ UNCHANGED disk /\ UNCHANGED lock
  BY <1>1 DEF Begin
<1>14. /\ ref' = [i \in Inum |-> ref'[i]]
       /\ valid' \in [Inum -> BOOLEAN]
       /\ \A i \in Inum : ref'[i] = ref[i] + One(n, i)
  BY <1>5, <1>13, TouchOne
<1>15. NodeTypes'
  BY <1>5, <1>13, <1>14, NodesKept, LockKept
<1>16. ASSUME NEW i \in Inum
       PROVE  /\ ref'[i] \in Int
              /\ ref'[i] + (One(loc[p].dp, i) + One(loc[p].ip, i)) = ref[i] + (One(m.dp, i) + One(m.ip, i))
  <2>1. ref'[i] = ref[i] + One(n, i) /\ ref[i] \in Nat
    BY <1>5, <1>14 DEF Types
  <2>2. loc[p].dp = 0 /\ loc[p].ip = 0 /\ One(0, i) = 0
    BY <1>1, <1>4, OneZero
  <2> QED
    BY ONLY <1>9, <2>1, <2>2, OneIs
<1>17. m.op = "link" => Elems(m.new) \in Seq(Elem)
  BY <1>7, <1>9
<1> QED
  BY ONLY Inv, p \in Proc, <1>2, <1>9, <1>10, <1>11, <1>12, <1>13, <1>14, <1>15, <1>16, <1>17, GoStep

LEMMA ExitStep ==
  ASSUME Inv, NEW p \in Proc, Exit(p)
  PROVE  Inv'
<1>1. PICK l, m : l = loc[p] /\ m = NoLocals
  OBVIOUS
<1>2. pc[p] = "user" /\ pc[p] \notin Putting /\ cwd[p] # 0
  BY DEF Exit, Putting
<1>3. Fits("user", l)
  BY <1>1, <1>2, Within
<1>4. l.dp = 0 /\ l.ip = 0
  BY <1>3 DEF Fits
<1>5. Types
  BY DEF Inv
<1>6. m \in Locals /\ m.dp = 0 /\ m.ip = 0 /\ m.op = "none" /\ m.puts = << >>
  BY <1>1, NoLocalsIs, RecIs
<1>7. "exit" \in Label /\ "exit" \notin Putting /\ Fits("exit", m)
  BY <1>6 DEF Label, Putting, Fits
<1>8. Goto(p, "exit", m) /\ UNCHANGED cache /\ UNCHANGED files /\ UNCHANGED disk /\ UNCHANGED lock
  BY <1>1 DEF Exit
<1>9. /\ ref' = [i \in Inum |-> ref'[i]]
      /\ valid' \in [Inum -> BOOLEAN]
      /\ \A i \in Inum : ref'[i] = ref[i]
  BY <1>5, <1>8, CacheKept
<1>10. NodeTypes'
  BY <1>5, <1>8, <1>9, NodesKept, LockKept
<1>11. ASSUME NEW i \in Inum
       PROVE  /\ ref'[i] \in Int
              /\ ref'[i] + (One(loc[p].dp, i) + One(loc[p].ip, i)) = ref[i] + (One(m.dp, i) + One(m.ip, i))
  <2>1. ref'[i] = ref[i] /\ ref[i] \in Nat
    BY <1>5, <1>9 DEF Types
  <2>2. loc[p].dp = 0 /\ loc[p].ip = 0
    BY <1>1, <1>4
  <2> QED
    BY ONLY <1>6, <2>1, <2>2, OneIs
<1>12. m.op = "link" => Elems(m.new) \in Seq(Elem)
  BY <1>6
<1> QED
  BY ONLY Inv, p \in Proc, <1>2, <1>6, <1>7, <1>8, <1>9, <1>10, <1>11, <1>12, GoStep

-----------------------------------------------------------------------------
(* Files, descriptors and current directories *)

\* A step that changes file g and the directory of p: what is left to show.
LEMMA FileStep ==
  ASSUME Inv, NEW p \in Proc, NEW g \in File \cup {0}, NEW x \in Label, NEW r \in Locals, Goto(p, x, r),
         Shape(x, r), FileTypes', NodeTypes', Described', Unused', ref' = [i \in Inum |-> ref'[i]],
         \A q \in Proc : q # p => cwd'[q] = cwd[q] /\ ofile'[q] = ofile[q],
         cwd'[p] = 0 => Gone(x, r) /\ \A d \in Fd : ofile'[p][d] = 0,
         \A f \in File : f # g => file'[f].ip = file[f].ip,
         \A i \in Inum : /\ ref'[i] \in Int
                         /\ ref'[i] + Account(cwd[p], loc[p], IpOf(g), i) = ref[i] + Account(cwd'[p], r, IpOf(g)', i)
  PROVE  Inv'
<1>1. /\ pc' \in [Proc -> Label] /\ loc' \in [Proc -> Locals] /\ pc'[p] = x /\ loc'[p] = r
      /\ \A q \in Proc : q # p => pc'[q] = pc[q] /\ loc'[q] = loc[q]
  BY GotoIs DEF Inv
<1>2. Counted' /\ \A i \in Inum : ref'[i] \in Nat
  <2>1. \A q \in Proc : q # p => cwd'[q] = cwd[q] /\ loc'[q] = loc[q]
    BY <1>1
  <2>2. \A i \in Inum : /\ ref'[i] \in Int
                        /\ ref'[i] + Account(cwd[p], loc[p], IpOf(g), i)
                             = ref[i] + Account(cwd'[p], loc'[p], IpOf(g)', i)
    BY <1>1
  <2>3. Counted
    BY DEF Inv
  <2> QED
    BY ONLY p \in Proc, g \in File \cup {0}, \A f \in File : f # g => file'[f].ip = file[f].ip,
            <2>1, <2>2, <2>3, Recount
<1>3. Shapes'
  <2>1. Shape(pc'[p], loc'[p])
    BY <1>1
  <2> QED
    BY <1>1, <2>1, ShapesKept DEF Inv
<1>4. Alive'
  <2>1. ASSUME NEW q \in Proc, cwd'[q] = 0
        PROVE  Gone(pc'[q], loc'[q]) /\ \A d \in Fd : ofile'[q][d] = 0
    <3>1. CASE q = p
      BY <1>1, <2>1, <3>1
    <3>2. CASE q # p
      <4>1. pc'[q] = pc[q] /\ loc'[q] = loc[q] /\ cwd[q] = 0 /\ ofile'[q] = ofile[q]
        BY <1>1, <2>1, <3>2
      <4>2. Gone(pc[q], loc[q]) /\ \A d \in Fd : ofile[q][d] = 0
        BY <4>1 DEF Inv, Alive
      <4> QED
        BY ONLY <4>1, <4>2
    <3> QED
      BY <3>1, <3>2
  <2> QED
    BY <2>1 DEF Alive
<1>5. Types'
  BY <1>1, <1>2 DEF Types
<1> QED
  BY <1>2, <1>3, <1>4, <1>5 DEF Inv

\* The variables of a call that puts s and is over, or goes on with exit.
LEMMA FinishIs ==
  ASSUME NEW s \in Seq(Inum), s # << >>, Len(s) <= 2, NEW x \in {"user", "exit"}
  PROVE  \E r \in Locals : /\ r = SetPut(NoLocals, s, x) /\ Shape("iput", r) /\ (x = "user" => Gone("iput", r))
                           /\ r.dp = 0 /\ r.ip = 0 /\ r.puts = s
<1>1. PICK r : r = SetPut(NoLocals, s, x)
  OBVIOUS
<1>2. PICK m : m = NoLocals
  OBVIOUS
<1>3. m \in Locals /\ m = Rec("none", << >>, << >>, 0, 0, << >>, "user")
  BY <1>2, NoLocalsIs
<1>4. m.op = "none" /\ m.rest = << >> /\ m.new = << >> /\ m.dp = 0 /\ m.ip = 0
  BY <1>3, RecIs
<1>5. r = Rec("none", << >>, << >>, 0, 0, s, x)
  BY <1>1, <1>2, <1>3, <1>4, Assigned
<1>6. r.op = "none" /\ r.dp = 0 /\ r.ip = 0 /\ r.puts = s /\ r.then = x
  BY <1>5, RecIs
<1>7. r \in Locals
  <2>1. << >> \in Seq(Elem) /\ 0 \in Node /\ x \in Label
    BY DEF Node, Label
  <2> QED
    BY <1>5, <2>1, InLocals
<1>8. Shape("iput", r) /\ (x = "user" => Gone("iput", r))
  BY <1>6 DEF Shape, Putting, Fits, Gone
<1> QED
  BY <1>1, <1>6, <1>7, <1>8

\* What a call that puts one inode has.
LEMMA OwnsOne ==
  ASSUME NEW r, r.dp = 0, r.ip = 0, NEW a, r.puts = <<a>>
  PROVE  \A i \in Inum : Owns(r, i) = One(a, i)
<1>1. First(r.puts) = a /\ Second(r.puts) = 0
  BY FirstIs
<1>2. ASSUME NEW i \in Inum PROVE Owns(r, i) = One(a, i)
  <2>1. Owns(r, i) = 0 + 0 + One(a, i) + 0
    BY <1>1, OneZero DEF Owns
  <2> QED
    BY <2>1, OneIs
<1> QED
  BY <1>2

\* And one that is not in iput.
LEMMA OwnsNone ==
  ASSUME NEW r, r.puts = << >>
  PROVE  \A i \in Inum : Owns(r, i) = One(r.dp, i) + One(r.ip, i)
<1>1. First(r.puts) = 0 /\ Second(r.puts) = 0
  BY FirstIs
<1>2. ASSUME NEW i \in Inum PROVE Owns(r, i) = One(r.dp, i) + One(r.ip, i)
  <2>1. Owns(r, i) = One(r.dp, i) + One(r.ip, i) + 0 + 0
    BY <1>1, OneZero DEF Owns
  <2> QED
    BY <2>1, OneIs
<1> QED
  BY <1>2

LEMMA ChdirStep ==
  ASSUME Inv, NEW p \in Proc, Chdir(p)
  PROVE  Inv'
<1>1. PICK l, c : l = loc[p] /\ c = cwd[p]
  OBVIOUS
<1>2. pc[p] = "chdir" /\ pc[p] \notin Putting
  BY DEF Chdir, Putting
<1>3. l \in Locals /\ l.ip \in Node /\ l.puts = << >> /\ Fits("chdir", l) /\ cwd[p] # 0
  BY <1>1, <1>2, Within
<1>4. l.ip \in Inum /\ l.dp = 0 /\ l.ip # 0
  BY <1>3, NotNull DEF Fits
<1>5. Types
  BY DEF Inv
<1>6. c \in Inum /\ c # 0
  BY <1>1, <1>3, <1>5, NotNull DEF Types, FileTypes
<1>7. Touch({l.ip}, {}) /\ UNCHANGED disk /\ UNCHANGED lock /\ file' = file /\ ofile' = ofile
  BY <1>1 DEF Chdir
<1>8. /\ ref' = [i \in Inum |-> ref'[i]]
      /\ valid' \in [Inum -> BOOLEAN]
      /\ \A i \in Inum : ref'[i] = ref[i]
  BY <1>5, <1>7, TouchNone
<1>9. NodeTypes'
  BY <1>5, <1>7, <1>8, NodesKept, LockKept
<1>10. PICK a, e : /\ cwd' = [cwd EXCEPT ![p] = e] /\ Finish(p, <<a>>)
                   /\ (a = c /\ e = l.ip) \/ (a = l.ip /\ e = c)
  <2>1. CASE dinode[l.ip].type = "DIR"
    BY <1>1, <2>1 DEF Chdir
  <2>2. CASE dinode[l.ip].type # "DIR"
    <3>1. cwd' = cwd /\ Finish(p, <<l.ip>>)
      BY <1>1, <2>2 DEF Chdir
    <3>2. cwd' = [cwd EXCEPT ![p] = c]
      BY <1>1, <1>5, <3>1 DEF Types, FileTypes
    <3> QED
      BY <3>1, <3>2
  <2> QED
    BY <2>1, <2>2
<1>11. a \in Inum /\ e \in Inum /\ e # 0 /\ e \in Node
  BY <1>4, <1>6, <1>10, NullNode
<1>12. PICK r \in Locals : /\ r = SetPut(NoLocals, <<a>>, "user") /\ Shape("iput", r)
                           /\ r.dp = 0 /\ r.ip = 0 /\ r.puts = <<a>>
  BY <1>11, OnePut, FinishIs
<1>13. Goto(p, "iput", r) /\ "iput" \in Label
  BY <1>10, <1>12 DEF Finish, Put, SetPut, Label
<1>14. cwd \in [Proc -> Node]
  BY <1>5 DEF Types, FileTypes
<1>15. cwd' \in [Proc -> Node] /\ cwd'[p] = e /\ \A q \in Proc : q # p => cwd'[q] = cwd[q]
  BY ONLY <1>10, <1>11, <1>14, p \in Proc
<1>16. FileTypes'
  BY <1>5, <1>7, <1>15 DEF Types, FileTypes
<1>17. Described' /\ Unused'
  BY <1>7, FilesKept DEF Inv
<1>18. ASSUME NEW i \in Inum
       PROVE  /\ ref'[i] \in Int
              /\ ref'[i] + Account(cwd[p], loc[p], IpOf(0), i) = ref[i] + Account(cwd'[p], r, IpOf(0)', i)
  <2>1. PICK f : f = IpOf(0)
    OBVIOUS
  <2>2. IpOf(0)' = f
    BY <1>7, <2>1 DEF IpOf
  <2>3. /\ Account(cwd[p], loc[p], IpOf(0), i) = One(c, i) + One(l.ip, i) + One(f, i)
        /\ Account(cwd'[p], r, IpOf(0)', i) = One(e, i) + One(a, i) + One(f, i)
    <3>1. Owns(l, i) = One(0, i) + One(l.ip, i) /\ One(0, i) = 0
      BY <1>3, <1>4, OwnsNone, OneZero
    <3>2. Owns(l, i) = One(l.ip, i)
      BY <3>1, OneIs
    <3>3. Owns(r, i) = One(a, i)
      BY <1>12, OwnsOne
    <3> QED
      BY <1>1, <1>15, <2>1, <2>2, <3>2, <3>3 DEF Account
  <2>4. ref'[i] = ref[i] /\ ref[i] \in Nat
    BY <1>5, <1>8 DEF Types
  <2>5. One(c, i) + One(l.ip, i) + One(f, i) = One(e, i) + One(a, i) + One(f, i)
    BY ONLY <1>10, OneIs
  <2>6. One(c, i) + One(l.ip, i) + One(f, i) \in Nat
    BY ONLY OneIs
  <2> QED
    BY ONLY <2>3, <2>4, <2>5, <2>6
<1>19. /\ \A q \in Proc : q # p => cwd'[q] = cwd[q] /\ ofile'[q] = ofile[q]
       /\ cwd'[p] # 0 /\ 0 \in File \cup {0}
       /\ \A f \in File : f # 0 => file'[f].ip = file[f].ip
  BY <1>7, <1>11, <1>15
<1> QED
  BY ONLY Inv, p \in Proc, <1>8, <1>9, <1>12, <1>13, <1>16, <1>17, <1>18, <1>19, FileStep

LEMMA ExitCwdStep ==
  ASSUME Inv, NEW p \in Proc, ExitCwd(p)
  PROVE  Inv'
<1>1. PICK l, c : l = loc[p] /\ c = cwd[p]
  OBVIOUS
<1>2. pc[p] = "exit" /\ pc[p] \notin Putting
  BY DEF ExitCwd, Putting
<1>3. l \in Locals /\ l.puts = << >> /\ Fits("exit", l) /\ cwd[p] # 0
  BY <1>1, <1>2, Within
<1>4. l.dp = 0 /\ l.ip = 0
  BY <1>3 DEF Fits
<1>5. Types
  BY DEF Inv
<1>6. c \in Inum
  BY <1>1, <1>3, <1>5, NotNull DEF Types, FileTypes
<1>7. /\ UNCHANGED disk /\ UNCHANGED cache /\ UNCHANGED lock /\ file' = file /\ ofile' = ofile
      /\ cwd' = [cwd EXCEPT ![p] = 0] /\ Finish(p, <<c>>) /\ \A d \in Fd : ofile'[p][d] = 0
  BY <1>1 DEF ExitCwd
<1>8. /\ ref' = [i \in Inum |-> ref'[i]]
      /\ valid' \in [Inum -> BOOLEAN]
      /\ \A i \in Inum : ref'[i] = ref[i]
  BY <1>5, <1>7, CacheKept
<1>9. NodeTypes'
  BY <1>5, <1>7, <1>8, NodesKept, LockKept
<1>10. PICK r \in Locals : /\ r = SetPut(NoLocals, <<c>>, "user") /\ Shape("iput", r) /\ Gone("iput", r)
                           /\ r.dp = 0 /\ r.ip = 0 /\ r.puts = <<c>>
  BY <1>6, OnePut, FinishIs
<1>11. Goto(p, "iput", r) /\ "iput" \in Label
  BY <1>7, <1>10 DEF Finish, Put, SetPut, Label
<1>12. cwd \in [Proc -> Node] /\ 0 \in Node
  BY <1>5 DEF Types, FileTypes, Node
<1>13. cwd' \in [Proc -> Node] /\ cwd'[p] = 0 /\ \A q \in Proc : q # p => cwd'[q] = cwd[q]
  BY ONLY <1>7, <1>12, p \in Proc
<1>14. FileTypes'
  BY <1>5, <1>7, <1>13 DEF Types, FileTypes
<1>15. Described' /\ Unused'
  BY <1>7, FilesKept DEF Inv
<1>16. ASSUME NEW i \in Inum
       PROVE  /\ ref'[i] \in Int
              /\ ref'[i] + Account(cwd[p], loc[p], IpOf(0), i) = ref[i] + Account(cwd'[p], r, IpOf(0)', i)
  <2>1. PICK f : f = IpOf(0)
    OBVIOUS
  <2>2. IpOf(0)' = f
    BY <1>7, <2>1 DEF IpOf
  <2>3. /\ Account(cwd[p], loc[p], IpOf(0), i) = One(c, i) + (0 + 0) + One(f, i)
        /\ Account(cwd'[p], r, IpOf(0)', i) = 0 + One(c, i) + One(f, i)
    <3>1. Owns(l, i) = 0 + 0 /\ One(0, i) = 0
      BY <1>3, <1>4, OwnsNone, OneZero
    <3>2. Owns(r, i) = One(c, i)
      BY <1>10, OwnsOne
    <3> QED
      BY <1>1, <1>13, <2>1, <2>2, <3>1, <3>2 DEF Account
  <2>4. ref'[i] = ref[i] /\ ref[i] \in Nat
    BY <1>5, <1>8 DEF Types
  <2> QED
    BY ONLY <2>3, <2>4, OneIs
<1>17. /\ \A q \in Proc : q # p => cwd'[q] = cwd[q] /\ ofile'[q] = ofile[q]
       /\ 0 \in File \cup {0}
       /\ \A f \in File : f # 0 => file'[f].ip = file[f].ip
  BY <1>7, <1>13
<1> QED
  BY ONLY Inv, p \in Proc, <1>7, <1>8, <1>9, <1>10, <1>11, <1>14, <1>15, <1>16, <1>17, FileStep

\* The descriptors after a step are finitely many too.
LEMMA FinitePrime == \A f : Cardinality(Descriptors(f)') \in Nat
<1> DEFINE All == \A f : Cardinality(Descriptors(f)) \in Nat
<1>1. All
  BY Finite
<1>2. All'
  <2> HIDE DEF All
  <2> QED
    BY <1>1, PTL
<1> QED
  BY <1>2

\* One descriptor that changes.
LEMMA DescriptorChange ==
  ASSUME Types, NEW p \in Proc, NEW d \in Fd, NEW v \in File \cup {0},
         ofile' = [ofile EXCEPT ![p][d] = v], NEW f
  PROVE  Cardinality(Descriptors(f)') + One(ofile[p][d], f) = Cardinality(Descriptors(f)) + One(v, f)
<1>1. PICK x, o : x = <<p, d>> /\ o = ofile[p][d]
  OBVIOUS
<1>2. PICK B : B = {y \in Proc \X Fd : y # x /\ ofile[y[1]][y[2]] = f}
  OBVIOUS
<1>3. ofile \in [Proc -> [Fd -> File \cup {0}]]
  BY DEF Types, FileTypes
<1>4. /\ ofile' \in [Proc -> [Fd -> File \cup {0}]] /\ ofile'[p][d] = v
      /\ \A q \in Proc, e \in Fd : <<q, e>> # x => ofile'[q][e] = ofile[q][e]
  <2>1. PICK w : w = [ofile[p] EXCEPT ![d] = v]
    OBVIOUS
  <2>2. w \in [Fd -> File \cup {0}] /\ w[d] = v /\ \A e \in Fd : e # d => w[e] = ofile[p][e]
    BY ONLY <1>3, <2>1, p \in Proc, d \in Fd, v \in File \cup {0}
  <2>3. ofile' = [ofile EXCEPT ![p] = w]
    BY <2>1
  <2>4. ofile' \in [Proc -> [Fd -> File \cup {0}]] /\ ofile'[p] = w /\ \A q \in Proc : q # p => ofile'[q] = ofile[q]
    BY ONLY <1>3, <2>2, <2>3, p \in Proc
  <2> QED
    BY <1>1, <2>2, <2>4
<1>5. x \notin B /\ IsFiniteSet(B)
  <2>1. B \in SUBSET (Proc \X Fd) /\ x \notin B
    BY <1>2
  <2> QED
    BY <2>1, Finite, FS_Subset
<1>6. Descriptors(f) = B \cup If(o, f, x)
  BY <1>1, <1>2 DEF Descriptors, If
<1>7. Descriptors(f)' = B \cup If(v, f, x)
  BY <1>1, <1>2, <1>4 DEF Descriptors, If
<1>8. /\ Cardinality(B \cup If(o, f, x)) = Cardinality(B) + One(o, f)
      /\ Cardinality(B \cup If(v, f, x)) = Cardinality(B) + One(v, f)
      /\ Cardinality(B) \in Nat
  BY <1>5, CardIf
<1>9. PICK D, E : D = Descriptors(f) /\ E = Descriptors(f)'
  OBVIOUS
<1>10. Cardinality(D) = Cardinality(B) + One(o, f) /\ Cardinality(E) = Cardinality(B) + One(v, f)
  BY <1>6, <1>7, <1>8, <1>9
<1>11. Cardinality(E) + One(o, f) = Cardinality(D) + One(v, f)
  BY ONLY <1>8, <1>10, OneIs
<1> QED
  BY <1>1, <1>9, <1>11

\* Types, and the other descriptors.
LEMMA DescriptorTypes ==
  ASSUME Types, NEW p \in Proc, NEW d \in Fd, NEW v \in File \cup {0},
         ofile' = [ofile EXCEPT ![p][d] = v]
  PROVE  ofile' \in [Proc -> [Fd -> File \cup {0}]] /\ \A q \in Proc : q # p => ofile'[q] = ofile[q]
<1>1. ofile \in [Proc -> [Fd -> File \cup {0}]]
  BY DEF Types, FileTypes
<1>2. PICK w : w = [ofile[p] EXCEPT ![d] = v]
  OBVIOUS
<1>3. w \in [Fd -> File \cup {0}]
  BY ONLY <1>1, <1>2, p \in Proc, d \in Fd, v \in File \cup {0}
<1>4. ofile' = [ofile EXCEPT ![p] = w]
  BY <1>2
<1> QED
  BY ONLY <1>1, <1>3, <1>4, p \in Proc

\* A file in use has a descriptor, and conversely.
LEMMA InUse ==
  ASSUME Inv, NEW p \in Proc, NEW d \in Fd, ofile[p][d] # 0
  PROVE  /\ ofile[p][d] \in File /\ file[ofile[p][d]].ref \in Nat
         /\ file[ofile[p][d]].ref # 0 /\ file[ofile[p][d]].ip \in Inum
<1>1. PICK f : f = ofile[p][d]
  OBVIOUS
<1>2. f \in File
  BY <1>1 DEF Inv, Types, FileTypes
<1>3. file[f].ref \in Nat /\ file[f].ip \in Node
  BY <1>2 DEF Inv, Types, FileTypes
<1>4. file[f].ref = Cardinality(Descriptors(f))
  BY <1>2 DEF Inv, Described
<1>5. <<p, d>> \in Descriptors(f)
  BY <1>1 DEF Descriptors
<1>6. file[f].ref # 0
  BY <1>4, <1>5, Finite, FS_EmptySet
<1>7. file[f].ip # 0
  BY <1>2, <1>6 DEF Inv, Unused
<1> QED
  BY <1>1, <1>2, <1>3, <1>6, <1>7, NotNull

\* The file that changes with a descriptor.
LEMMA FileChange ==
  ASSUME Inv, NEW f \in File, NEW k \in Nat, NEW j \in Node, file' = [file EXCEPT ![f] = [ref |-> k, ip |-> j]],
         k = 0 <=> j = 0,
         k = Cardinality(Descriptors(f)'),
         \A h \in File : h # f => Cardinality(Descriptors(h)') = Cardinality(Descriptors(h))
  PROVE  /\ file' \in [File -> [ref : Nat, ip : Node]] /\ Described' /\ Unused'
         /\ IpOf(f)' = j /\ \A h \in File : h # f => file'[h].ip = file[h].ip
<1>1. file \in [File -> [ref : Nat, ip : Node]]
  BY DEF Inv, Types, FileTypes
<1>2. PICK r : r = [ref |-> k, ip |-> j]
  OBVIOUS
<1>3. r \in [ref : Nat, ip : Node] /\ r.ref = k /\ r.ip = j
  BY ONLY <1>2, k \in Nat, j \in Node
<1>4. file' = [file EXCEPT ![f] = r]
  BY <1>2
<1>5. file' \in [File -> [ref : Nat, ip : Node]] /\ file'[f] = r /\ \A h \in File : h # f => file'[h] = file[h]
  BY ONLY <1>1, <1>3, <1>4, f \in File
<1>6. IpOf(f)' = j
  BY <1>3, <1>5 DEF IpOf
<1>7. ASSUME NEW h \in File
      PROVE  file'[h].ref = Cardinality(Descriptors(h)') /\ (file'[h].ref = 0 <=> file'[h].ip = 0)
  <2>1. CASE h = f
    BY <1>3, <1>5, <2>1
  <2>2. CASE h # f
    <3>1. file'[h] = file[h] /\ Cardinality(Descriptors(h)') = Cardinality(Descriptors(h))
      BY <1>5, <2>2
    <3>2. file[h].ref = Cardinality(Descriptors(h)) /\ (file[h].ref = 0 <=> file[h].ip = 0)
      BY DEF Inv, Described, Unused
    <3> QED
      BY <3>1, <3>2
  <2> QED
    BY <2>1, <2>2
<1> QED
  BY <1>5, <1>6, <1>7 DEF Described, Unused

LEMMA OpenFileStep ==
  ASSUME Inv, NEW p \in Proc, OpenFile(p)
  PROVE  Inv'
<1>1. PICK l, f, d : l = loc[p] /\ f = Min(FreeFile) /\ d = Min(FreeFd(p))
  OBVIOUS
<1>2. pc[p] = "openfile" /\ pc[p] \notin Putting
  BY DEF OpenFile, Putting
<1>3. l \in Locals /\ l.ip \in Node /\ l.puts = << >> /\ Fits("openfile", l) /\ cwd[p] # 0
  BY <1>1, <1>2, Within
<1>4. l.ip \in Inum /\ l.dp = 0 /\ l.ip # 0
  BY <1>3, NotNull DEF Fits
<1>5. Types
  BY DEF Inv
<1>6. f \in File /\ file[f].ref = 0
  <2>1. FreeFile \subseteq Nat /\ FreeFile # {}
    BY DEF FreeFile, File, OpenFile
  <2>2. f \in FreeFile
    BY <1>1, <2>1, NatMin
  <2> QED
    BY <2>2 DEF FreeFile
<1>7. d \in Fd /\ ofile[p][d] = 0
  <2>1. FreeFd(p) \subseteq Nat /\ FreeFd(p) # {}
    BY DEF FreeFd, Fd, OpenFile
  <2>2. d \in FreeFd(p)
    BY <1>1, <2>1, NatMin
  <2> QED
    BY <2>2 DEF FreeFd
<1>8. /\ file' = [file EXCEPT ![f] = [ref |-> 1, ip |-> l.ip]] /\ ofile' = [ofile EXCEPT ![p][d] = f]
      /\ Holding(p, {}) /\ Goto(p, "user", NoLocals) /\ UNCHANGED disk /\ UNCHANGED cache /\ cwd' = cwd
  BY <1>1 DEF OpenFile
<1>9. f \in File \cup {0} /\ 0 # f
  BY <1>6 DEF File
<1>10. /\ ref' = [i \in Inum |-> ref'[i]]
       /\ valid' \in [Inum -> BOOLEAN]
       /\ \A i \in Inum : ref'[i] = ref[i]
  BY <1>5, <1>8, CacheKept
<1>11. NodeTypes'
  BY <1>5, <1>8, <1>10, NodesKept, HoldingIs
<1>12. ofile' \in [Proc -> [Fd -> File \cup {0}]] /\ \A q \in Proc : q # p => ofile'[q] = ofile[q]
  BY <1>5, <1>7, <1>8, <1>9, DescriptorTypes
<1>13. \A h : Cardinality(Descriptors(h)') + One(0, h) = Cardinality(Descriptors(h)) + One(f, h)
  <2>1. \A h : Cardinality(Descriptors(h)') + One(ofile[p][d], h) = Cardinality(Descriptors(h)) + One(f, h)
    BY <1>5, <1>7, <1>8, <1>9, DescriptorChange
  <2> QED
    BY <1>7, <2>1
<1>14. ASSUME NEW h \in File PROVE Cardinality(Descriptors(h)') = Cardinality(Descriptors(h)) + One(f, h)
  <2>1. PICK a, b : a = Cardinality(Descriptors(h)') /\ b = Cardinality(Descriptors(h))
    OBVIOUS
  <2>2. One(0, h) = 0
    BY DEF One, File
  <2>3. a + 0 = b + One(f, h)
    BY <1>13, <2>1, <2>2
  <2>4. a \in Nat
    BY <2>1, FinitePrime
  <2> QED
    BY <2>1, <2>3, <2>4
<1>15. /\ 1 = Cardinality(Descriptors(f)')
       /\ \A h \in File : h # f => Cardinality(Descriptors(h)') = Cardinality(Descriptors(h))
  <2>1. Cardinality(Descriptors(f)) = 0
    BY <1>6 DEF Inv, Described
  <2>2. One(f, f) = 1 /\ \A h : h # f => One(f, h) = 0
    BY DEF One
  <2>3. \A h \in File : Cardinality(Descriptors(h)) \in Nat
    BY Finite
  <2>4. 1 = Cardinality(Descriptors(f)')
    BY <1>6, <1>14, <2>1, <2>2
  <2>5. ASSUME NEW h \in File, h # f PROVE Cardinality(Descriptors(h)') = Cardinality(Descriptors(h))
    <3>1. PICK b \in Nat : b = Cardinality(Descriptors(h))
      BY <2>3
    <3>2. Cardinality(Descriptors(h)') = b + 0
      BY <1>14, <2>2, <2>5, <3>1
    <3>3. b + 0 = b
      OBVIOUS
    <3> QED
      BY <3>1, <3>2, <3>3
  <2> QED
    BY <2>4, <2>5
<1>16. /\ file' \in [File -> [ref : Nat, ip : Node]] /\ Described' /\ Unused'
       /\ IpOf(f)' = l.ip /\ \A h \in File : h # f => file'[h].ip = file[h].ip
  <2>1. PICK k, j : k = 1 /\ j = l.ip
    OBVIOUS
  <2>2. k \in Nat /\ (k = 0 <=> j = 0) /\ j \in Node /\ k = Cardinality(Descriptors(f)')
        /\ file' = [file EXCEPT ![f] = [ref |-> k, ip |-> j]]
    BY <1>3, <1>4, <1>8, <1>15, <2>1
  <2>3. /\ file' \in [File -> [ref : Nat, ip : Node]] /\ Described' /\ Unused'
        /\ IpOf(f)' = j /\ \A h \in File : h # f => file'[h].ip = file[h].ip
    BY ONLY Inv, <1>6, <1>15, <2>2, FileChange
  <2> QED
    BY <2>1, <2>3
<1>17. FileTypes'
  BY <1>5, <1>8, <1>12, <1>16 DEF Types, FileTypes
<1>18. PICK r \in Locals : r = NoLocals
  BY NoLocalsIs
<1>19. r.dp = 0 /\ r.ip = 0 /\ r.puts = << >> /\ r.op = "none"
  BY <1>18, NoLocalsIs, RecIs
<1>20. Shape("user", r) /\ "user" \in Label /\ Goto(p, "user", r)
  BY <1>8, <1>18, <1>19 DEF Shape, Fits, Putting, Label
<1>21. ASSUME NEW i \in Inum
       PROVE  /\ ref'[i] \in Int
              /\ ref'[i] + Account(cwd[p], loc[p], IpOf(f), i) = ref[i] + Account(cwd'[p], r, IpOf(f)', i)
  <2>1. IpOf(f) = 0
    BY <1>6 DEF IpOf, Inv, Unused
  <2>2. PICK c : c = cwd[p]
    OBVIOUS
  <2>3. /\ Account(cwd[p], loc[p], IpOf(f), i) = One(c, i) + (0 + One(l.ip, i)) + 0
        /\ Account(cwd'[p], r, IpOf(f)', i) = One(c, i) + (0 + 0) + One(l.ip, i)
    <3>1. Owns(l, i) = 0 + One(l.ip, i) /\ One(0, i) = 0 /\ Owns(r, i) = 0 + 0
      BY <1>3, <1>4, <1>19, OwnsNone, OneZero
    <3> QED
      BY <1>1, <1>8, <1>16, <2>1, <2>2, <3>1 DEF Account
  <2>4. ref'[i] = ref[i] /\ ref[i] \in Nat
    BY <1>5, <1>10 DEF Types
  <2> QED
    BY ONLY <2>3, <2>4, OneIs
<1>22. /\ \A q \in Proc : q # p => cwd'[q] = cwd[q] /\ ofile'[q] = ofile[q]
       /\ cwd'[p] # 0
  BY <1>3, <1>8, <1>12
<1> QED
  BY ONLY Inv, p \in Proc, <1>9, <1>10, <1>11, <1>16, <1>17, <1>18, <1>20, <1>21, <1>22, FileStep

\* A step that leaves p where it is.
LEMMA GotoSame ==
  ASSUME Types, NEW p \in Proc, pc' = pc, loc' = loc
  PROVE  Goto(p, pc[p], loc[p]) /\ pc[p] \in Label /\ loc[p] \in Locals
<1>1. pc \in [Proc -> Label] /\ loc \in [Proc -> Locals]
  BY DEF Types
<1> QED
  BY <1>1 DEF Goto

\* One descriptor of one file more or less.
LEMMA CountedDescriptor ==
  ASSUME Inv, NEW p \in Proc, NEW d \in Fd, NEW v \in File \cup {0}, ofile' = [ofile EXCEPT ![p][d] = v]
  PROVE  \A h \in File : /\ file[h].ref = Cardinality(Descriptors(h)) /\ file[h].ref \in Nat
                         /\ Cardinality(Descriptors(h)') \in Nat
                         /\ Cardinality(Descriptors(h)') + One(ofile[p][d], h) = file[h].ref + One(v, h)
<1>1. Types
  BY DEF Inv
<1>2. \A h : Cardinality(Descriptors(h)') + One(ofile[p][d], h) = Cardinality(Descriptors(h)) + One(v, h)
  BY <1>1, DescriptorChange
<1>3. \A h \in File : file[h].ref = Cardinality(Descriptors(h)) /\ file[h].ref \in Nat
  BY DEF Inv, Types, FileTypes, Described
<1> QED
  BY <1>2, <1>3, FinitePrime

LEMMA CloseStep ==
  ASSUME Inv, NEW p \in Proc, NEW d \in Fd, NEW x \in {"user", "exit"}, pc[p] = x, Close(p, d, x)
  PROVE  Inv'
<1>1. PICK l, f, c : l = loc[p] /\ f = ofile[p][d] /\ c = cwd[p]
  OBVIOUS
<1>2. pc[p] \notin Putting
  BY DEF Putting
<1>3. l \in Locals /\ l.puts = << >> /\ Fits(x, l)
  BY <1>1, <1>2, Within
<1>4. l.dp = 0 /\ l.ip = 0
  BY <1>3 DEF Fits
<1>5. Types
  BY DEF Inv
<1>6. PICK k, j : k = file[f].ref /\ j = file[f].ip
  OBVIOUS
<1>7. f # 0 /\ f \in File /\ k \in Nat /\ k # 0 /\ j \in Inum /\ j # 0
  BY <1>1, <1>6, InUse, NullNode DEF Close
<1>8. c # 0
  BY <1>1, <1>7 DEF Inv, Alive
<1>9. PICK b : b = IF k = 1 THEN 0 ELSE j
  OBVIOUS
<1>10. /\ ofile' = [ofile EXCEPT ![p][d] = 0] /\ UNCHANGED disk /\ UNCHANGED cache /\ UNCHANGED lock /\ cwd' = cwd
       /\ file' = [file EXCEPT ![f] = [ref |-> k - 1, ip |-> b]]
  <2>1. /\ ofile' = [ofile EXCEPT ![p][d] = 0] /\ UNCHANGED disk /\ UNCHANGED cache /\ UNCHANGED lock /\ cwd' = cwd
    BY DEF Close
  <2>2. CASE k = 1
    <3>1. file' = [file EXCEPT ![f] = [ref |-> 0, ip |-> 0]]
      BY <1>1, <1>6, <2>2 DEF Close
    <3>2. k - 1 = 0 /\ b = 0
      BY <1>9, <2>2
    <3> QED
      BY <2>1, <3>1, <3>2
  <2>3. CASE k # 1
    <3>1. file' = [file EXCEPT ![f] = [ref |-> file[f].ref - 1, ip |-> file[f].ip]]
      BY <1>1, <1>6, <2>3 DEF Close
    <3>2. b = j
      BY <1>9, <2>3
    <3> QED
      BY <1>6, <2>1, <3>1, <3>2
  <2> QED
    BY <2>2, <2>3
<1>11. 0 \in File \cup {0} /\ f \in File \cup {0}
  BY <1>7
<1>12. /\ ref' = [i \in Inum |-> ref'[i]]
       /\ valid' \in [Inum -> BOOLEAN]
       /\ \A i \in Inum : ref'[i] = ref[i]
  BY <1>5, <1>10, CacheKept
<1>13. NodeTypes'
  BY <1>5, <1>10, <1>12, NodesKept, LockKept
<1>14. ofile' \in [Proc -> [Fd -> File \cup {0}]] /\ \A q \in Proc : q # p => ofile'[q] = ofile[q]
  BY <1>5, <1>10, <1>11, DescriptorTypes
<1>15. \A h \in File : /\ file[h].ref = Cardinality(Descriptors(h)) /\ file[h].ref \in Nat
                       /\ Cardinality(Descriptors(h)') \in Nat
                       /\ Cardinality(Descriptors(h)') + One(f, h) = file[h].ref + One(0, h)
  BY <1>1, <1>10, <1>11, CountedDescriptor
<1>16. \A h \in File : One(0, h) = 0 /\ (h # f => One(f, h) = 0) /\ One(f, f) = 1
  BY DEF One, File
<1>17. k - 1 = Cardinality(Descriptors(f)')
  <2>1. PICK a : a = Cardinality(Descriptors(f)')
    OBVIOUS
  <2>2. a \in Nat /\ a + 1 = k + 0
    BY <1>6, <1>7, <1>15, <1>16, <2>1
  <2>3. k - 1 = a
    BY ONLY <1>7, <2>2
  <2> QED
    BY <2>1, <2>3
<1>18. ASSUME NEW h \in File, h # f PROVE Cardinality(Descriptors(h)') = Cardinality(Descriptors(h))
  <2>1. PICK a, e : a = Cardinality(Descriptors(h)') /\ e = file[h].ref
    OBVIOUS
  <2>2. a \in Nat /\ e \in Nat /\ a + 0 = e + 0
    BY <1>15, <1>16, <1>18, <2>1
  <2>3. a = e
    BY ONLY <2>2
  <2> QED
    BY <1>15, <2>1, <2>3
<1>19. k - 1 \in Nat /\ (k - 1 = 0 <=> b = 0) /\ b \in Node
  BY <1>7, <1>9, NullNode
<1>20. /\ file' \in [File -> [ref : Nat, ip : Node]] /\ Described' /\ Unused'
       /\ IpOf(f)' = b /\ \A h \in File : h # f => file'[h].ip = file[h].ip
  <2>1. PICK k1 : k1 = k - 1
    OBVIOUS
  <2>2. k1 \in Nat /\ (k1 = 0 <=> b = 0) /\ b \in Node /\ k1 = Cardinality(Descriptors(f)')
        /\ file' = [file EXCEPT ![f] = [ref |-> k1, ip |-> b]]
    BY <1>10, <1>17, <1>19, <2>1
  <2> QED
    BY ONLY Inv, <1>7, <1>18, <2>2, FileChange
<1>21. FileTypes'
  BY <1>5, <1>10, <1>14, <1>20 DEF Types, FileTypes
<1>22. PICK y \in Label, r \in Locals :
         /\ Goto(p, y, r) /\ Shape(y, r)
         /\ \A i \in Inum : Owns(r, i) = IF k = 1 THEN One(j, i) ELSE 0
  <2>1. CASE k = 1
    <3>1. PICK r \in Locals : /\ r = SetPut(NoLocals, <<j>>, x) /\ Shape("iput", r)
                              /\ r.dp = 0 /\ r.ip = 0 /\ r.puts = <<j>>
      BY <1>7, OnePut, FinishIs
    <3>2. Goto(p, "iput", r) /\ "iput" \in Label
      BY <1>1, <1>6, <2>1, <3>1 DEF Close, Put, SetPut, Label
    <3>3. \A i \in Inum : Owns(r, i) = One(j, i)
      BY <3>1, OwnsOne
    <3> QED
      BY <2>1, <3>1, <3>2, <3>3
  <2>2. CASE k # 1
    <3>1. PICK r \in Locals : r = NoLocals
      BY NoLocalsIs
    <3>2. r.dp = 0 /\ r.ip = 0 /\ r.puts = << >> /\ r.op = "none"
      BY <3>1, NoLocalsIs, RecIs
    <3>3. Shape(x, r) /\ x \in Label
      BY <3>2 DEF Shape, Fits, Putting, Label
    <3>4. Goto(p, x, r)
      BY <1>1, <1>6, <2>2, <3>1 DEF Close
    <3>5. \A i \in Inum : Owns(r, i) = 0 + 0
      BY <3>2, OwnsNone, OneZero
    <3>6. \A i \in Inum : Owns(r, i) = 0
      BY <3>5
    <3> QED
      BY <2>2, <3>1, <3>3, <3>4, <3>6
  <2> QED
    BY <2>1, <2>2
<1>23. ASSUME NEW i \in Inum
       PROVE  /\ ref'[i] \in Int
              /\ ref'[i] + Account(cwd[p], loc[p], IpOf(f), i) = ref[i] + Account(cwd'[p], r, IpOf(f)', i)
  <2>1. IpOf(f) = j
    BY <1>6, <1>7 DEF IpOf
  <2>2. /\ Account(cwd[p], loc[p], IpOf(f), i) = One(c, i) + (0 + 0) + One(j, i)
        /\ Account(cwd'[p], r, IpOf(f)', i) = One(c, i) + Owns(r, i) + One(b, i)
    <3>1. Owns(l, i) = 0 + 0
      BY <1>3, <1>4, OwnsNone, OneZero
    <3> QED
      BY <1>1, <1>10, <1>20, <2>1, <3>1 DEF Account
  <2>3. ref'[i] = ref[i] /\ ref[i] \in Nat
    BY <1>5, <1>12 DEF Types
  <2>4. Owns(r, i) + One(b, i) = One(j, i) /\ Owns(r, i) \in Nat
    <3>1. CASE k = 1
      <4>1. Owns(r, i) = One(j, i) /\ One(b, i) = 0
        BY <1>9, <1>22, <3>1, OneZero
      <4> QED
        BY <4>1, OneIs
    <3>2. CASE k # 1
      <4>1. Owns(r, i) = 0 /\ b = j
        BY <1>9, <1>22, <3>2
      <4> QED
        BY <4>1, OneIs
    <3> QED
      BY <3>1, <3>2
  <2> QED
    BY ONLY <2>2, <2>3, <2>4, OneIs
<1>24. /\ \A q \in Proc : q # p => cwd'[q] = cwd[q] /\ ofile'[q] = ofile[q]
       /\ cwd'[p] # 0
  BY <1>1, <1>8, <1>10, <1>14
<1> QED
  BY ONLY Inv, p \in Proc, <1>11, <1>12, <1>13, <1>20, <1>21, <1>22, <1>23, <1>24, FileStep

LEMMA SysDupStep ==
  ASSUME Inv, NEW p \in Proc, NEW d \in Fd, SysDup(p, d)
  PROVE  Inv'
<1>1. PICK f, e : f = ofile[p][d] /\ e = Min(FreeFd(p))
  OBVIOUS
<1>2. Types
  BY DEF Inv
<1>3. PICK k, j : k = file[f].ref /\ j = file[f].ip
  OBVIOUS
<1>4. f # 0 /\ f \in File /\ k \in Nat /\ k # 0 /\ j \in Inum /\ j # 0 /\ f \in File \cup {0}
  BY <1>1, <1>3, InUse, NullNode DEF SysDup, argfd
<1>5. e \in Fd /\ ofile[p][e] = 0
  <2>1. FreeFd(p) \subseteq Nat /\ FreeFd(p) # {}
    BY DEF FreeFd, Fd, SysDup
  <2>2. e \in FreeFd(p)
    BY <1>1, <2>1, NatMin
  <2> QED
    BY <2>2 DEF FreeFd
<1>6. /\ ofile' = [ofile EXCEPT ![p][e] = f] /\ UNCHANGED disk /\ UNCHANGED cache /\ UNCHANGED lock
      /\ cwd' = cwd /\ pc' = pc /\ loc' = loc
      /\ file' = [file EXCEPT ![f] = [ref |-> k + 1, ip |-> j]]
  <2>1. /\ ofile' = [ofile EXCEPT ![p][e] = f] /\ UNCHANGED disk /\ UNCHANGED cache /\ UNCHANGED lock
        /\ cwd' = cwd /\ pc' = pc /\ loc' = loc /\ file' = [file EXCEPT ![f] = filedup(f, 1)]
    BY <1>1 DEF SysDup
  <2>2. file[f] \in [ref : Nat, ip : Node]
    BY <1>2, <1>4 DEF Types, FileTypes
  <2>3. filedup(f, 1) = [ref |-> k + 1, ip |-> j]
    BY <1>3, <2>2 DEF filedup
  <2> QED
    BY <2>1, <2>3
<1>7. /\ ref' = [i \in Inum |-> ref'[i]]
      /\ valid' \in [Inum -> BOOLEAN]
      /\ \A i \in Inum : ref'[i] = ref[i]
  BY <1>2, <1>6, CacheKept
<1>8. NodeTypes'
  BY <1>2, <1>6, <1>7, NodesKept, LockKept
<1>9. ofile' \in [Proc -> [Fd -> File \cup {0}]] /\ \A q \in Proc : q # p => ofile'[q] = ofile[q]
  BY <1>2, <1>4, <1>5, <1>6, DescriptorTypes
<1>10. \A h \in File : /\ file[h].ref = Cardinality(Descriptors(h)) /\ file[h].ref \in Nat
                       /\ Cardinality(Descriptors(h)') \in Nat
                       /\ Cardinality(Descriptors(h)') + One(0, h) = file[h].ref + One(f, h)
  <2>1. \A h \in File : /\ file[h].ref = Cardinality(Descriptors(h)) /\ file[h].ref \in Nat
                        /\ Cardinality(Descriptors(h)') \in Nat
                        /\ Cardinality(Descriptors(h)') + One(ofile[p][e], h) = file[h].ref + One(f, h)
    BY <1>4, <1>5, <1>6, CountedDescriptor
  <2> QED
    BY <1>5, <2>1
<1>11. \A h \in File : One(0, h) = 0 /\ (h # f => One(f, h) = 0) /\ One(f, f) = 1
  BY DEF One, File
<1>12. k + 1 = Cardinality(Descriptors(f)')
  <2>1. PICK a : a = Cardinality(Descriptors(f)')
    OBVIOUS
  <2>2. a \in Nat /\ a + 0 = k + 1
    BY <1>3, <1>4, <1>10, <1>11, <2>1
  <2>3. k + 1 = a
    BY ONLY <1>4, <2>2
  <2> QED
    BY <2>1, <2>3
<1>13. ASSUME NEW h \in File, h # f PROVE Cardinality(Descriptors(h)') = Cardinality(Descriptors(h))
  <2>1. PICK a, b : a = Cardinality(Descriptors(h)') /\ b = file[h].ref
    OBVIOUS
  <2>2. a \in Nat /\ b \in Nat /\ a + 0 = b + 0
    BY <1>10, <1>11, <1>13, <2>1
  <2>3. a = b
    BY ONLY <2>2
  <2> QED
    BY <1>10, <2>1, <2>3
<1>14. /\ file' \in [File -> [ref : Nat, ip : Node]] /\ Described' /\ Unused'
       /\ IpOf(f)' = j /\ \A h \in File : h # f => file'[h].ip = file[h].ip
  <2>1. PICK k1 : k1 = k + 1
    OBVIOUS
  <2>2. k1 \in Nat /\ (k1 = 0 <=> j = 0) /\ j \in Node /\ k1 = Cardinality(Descriptors(f)')
        /\ file' = [file EXCEPT ![f] = [ref |-> k1, ip |-> j]]
    BY <1>4, <1>6, <1>12, <2>1, NullNode
  <2> QED
    BY ONLY Inv, <1>4, <1>13, <2>2, FileChange
<1>15. FileTypes'
  BY <1>2, <1>6, <1>9, <1>14 DEF Types, FileTypes
<1>16. PICK x \in Label, r \in Locals : x = pc[p] /\ r = loc[p] /\ Goto(p, x, r)
  BY <1>2, <1>6, GotoSame
<1>17. Shape(x, r)
  BY <1>16 DEF Inv, Shapes
<1>18. ASSUME NEW i \in Inum
       PROVE  /\ ref'[i] \in Int
              /\ ref'[i] + Account(cwd[p], loc[p], IpOf(f), i) = ref[i] + Account(cwd'[p], r, IpOf(f)', i)
  <2>1. IpOf(f) = j
    BY <1>3, <1>4 DEF IpOf
  <2>2. Account(cwd[p], loc[p], IpOf(f), i) = Account(cwd'[p], r, IpOf(f)', i)
    BY <1>6, <1>14, <1>16, <2>1
  <2>3. ref'[i] = ref[i] /\ ref[i] \in Nat
    BY <1>2, <1>7 DEF Types
  <2> QED
    BY <2>2, <2>3
<1>19. /\ \A q \in Proc : q # p => cwd'[q] = cwd[q] /\ ofile'[q] = ofile[q]
       /\ cwd'[p] # 0
  <2>1. cwd[p] # 0
    BY <1>1, <1>4 DEF Inv, Alive
  <2> QED
    BY <1>6, <1>9, <2>1
<1> QED
  BY ONLY Inv, p \in Proc, <1>4, <1>7, <1>8, <1>14, <1>15, <1>16, <1>17, <1>18, <1>19, FileStep

\* The descriptors a child gets.
LEMMA ChildDescriptors ==
  ASSUME Types, NEW p \in Proc, NEW q \in Proc, p # q, \A d \in Fd : ofile[q][d] = 0,
         ofile' = [ofile EXCEPT ![q] = ofile[p]], NEW f \in File
  PROVE  /\ Cardinality({d \in Fd : ofile[p][d] = f}) \in Nat
         /\ Cardinality(Descriptors(f)') = Cardinality(Descriptors(f)) + Cardinality({d \in Fd : ofile[p][d] = f})
         /\ Cardinality(Descriptors(f)) = 0 => Cardinality({d \in Fd : ofile[p][d] = f}) = 0
<1>1. PICK F : F = {d \in Fd : ofile[p][d] = f}
  OBVIOUS
<1>2. PICK D, E : D = Descriptors(f) /\ E = Descriptors(f)'
  OBVIOUS
<1>3. IsFiniteSet(F) /\ Cardinality(F) \in Nat
  <2>1. F \in SUBSET Fd
    BY <1>1
  <2> QED
    BY <2>1, Finite, FS_Subset, FS_CardinalityType
<1>4. IsFiniteSet(D) /\ Cardinality(D) \in Nat
  BY <1>2, Finite
<1>5. IsFiniteSet({q} \X F) /\ Cardinality({q} \X F) = Cardinality(F)
  <2>1. IsFiniteSet({q}) /\ Cardinality({q}) = 1
    BY FS_Singleton
  <2>2. IsFiniteSet({q} \X F) /\ Cardinality({q} \X F) = Cardinality({q}) * Cardinality(F)
    BY <1>3, <2>1, FS_Product
  <2>3. 1 * Cardinality(F) = Cardinality(F)
    BY <1>3
  <2> QED
    BY <2>1, <2>2, <2>3
<1>6. 0 # f
  BY DEF File
<1>7. ofile \in [Proc -> [Fd -> File \cup {0}]]
  BY DEF Types, FileTypes
<1>8. ofile'[q] = ofile[p] /\ \A r \in Proc : r # q => ofile'[r] = ofile[r]
  BY <1>7
<1>9. E = D \cup ({q} \X F)
  <2>1. ASSUME NEW y \in E PROVE y \in D \cup ({q} \X F)
    <3>1. PICK r \in Proc, e \in Fd : y = <<r, e>> /\ ofile'[r][e] = f
      BY <1>2 DEF Descriptors
    <3>2. CASE r = q
      BY <1>1, <1>8, <3>1, <3>2
    <3>3. CASE r # q
      BY <1>2, <1>8, <3>1, <3>3 DEF Descriptors
    <3> QED
      BY <3>2, <3>3
  <2>2. ASSUME NEW y \in D PROVE y \in E
    <3>1. PICK r \in Proc, e \in Fd : y = <<r, e>> /\ ofile[r][e] = f
      BY <1>2 DEF Descriptors
    <3>2. r # q
      BY <1>6, <3>1
    <3> QED
      BY <1>2, <1>8, <3>1, <3>2 DEF Descriptors
  <2>3. ASSUME NEW y \in {q} \X F PROVE y \in E
    <3>1. PICK e \in Fd : y = <<q, e>> /\ ofile[p][e] = f
      BY <1>1
    <3> QED
      BY <1>2, <1>8, <3>1 DEF Descriptors
  <2> QED
    BY <2>1, <2>2, <2>3
<1>10. D \cap ({q} \X F) = {}
  BY <1>2, <1>6 DEF Descriptors
<1>11. Cardinality(E) = Cardinality(D) + Cardinality(F)
  <2>1. Cardinality(D \cup ({q} \X F)) = Cardinality(D) + Cardinality({q} \X F) - Cardinality(D \cap ({q} \X F))
    BY <1>4, <1>5, FS_Union
  <2>2. Cardinality(D \cap ({q} \X F)) = 0
    BY <1>10, FS_EmptySet
  <2>3. Cardinality(E) = Cardinality(D) + Cardinality(F) - 0
    BY <1>5, <1>9, <2>1, <2>2
  <2> QED
    BY <1>3, <1>4, <2>3
<1>12. Cardinality(D) = 0 => Cardinality(F) = 0
  <2>1. SUFFICES ASSUME Cardinality(D) = 0 PROVE F = {}
    BY FS_EmptySet
  <2>2. D = {}
    BY <1>4, <2>1, FS_EmptySet
  <2>3. ASSUME NEW e \in F PROVE FALSE
    <3>1. <<p, e>> \in D
      BY <1>1, <1>2, <2>3 DEF Descriptors
    <3> QED
      BY <2>2, <3>1
  <2> QED
    BY <2>3
<1> QED
  BY <1>1, <1>2, <1>3, <1>11, <1>12

LEMMA ForkStep ==
  ASSUME Inv, NEW p \in Proc, NEW q \in Proc, Fork(p, q)
  PROVE  Inv'
<1>1. PICK c : c = cwd[p]
  OBVIOUS
<1>2. Types
  BY DEF Inv
<1>3. c # 0 /\ c \in Inum /\ c \in Node /\ cwd[q] = 0 /\ p # q /\ \A d \in Fd : ofile[q][d] = 0
  BY <1>1, <1>2, NotNull DEF Fork, Types, FileTypes, Inv, Alive
<1>4. /\ ofile' = [ofile EXCEPT ![q] = ofile[p]] /\ cwd' = [cwd EXCEPT ![q] = c] /\ Touch({}, {c})
      /\ UNCHANGED disk /\ UNCHANGED lock /\ pc' = pc /\ loc' = loc
      /\ file' = [f \in File |-> filedup(f, Cardinality({d \in Fd : ofile[p][d] = f}))]
  BY <1>1 DEF Fork
<1>5. /\ ref' = [i \in Inum |-> ref'[i]]
      /\ valid' \in [Inum -> BOOLEAN]
      /\ \A i \in Inum : ref'[i] = ref[i] + One(c, i)
  BY <1>2, <1>4, TouchOne
<1>6. NodeTypes'
  BY <1>2, <1>4, <1>5, NodesKept, LockKept
<1>7. /\ ofile \in [Proc -> [Fd -> File \cup {0}]] /\ cwd \in [Proc -> Node]
      /\ file \in [File -> [ref : Nat, ip : Node]]
  BY <1>2 DEF Types, FileTypes
<1>8. /\ ofile' \in [Proc -> [Fd -> File \cup {0}]] /\ \A r \in Proc : r # q => ofile'[r] = ofile[r]
  BY ONLY <1>4, <1>7, p \in Proc, q \in Proc
<1>9. cwd' \in [Proc -> Node] /\ cwd'[q] = c /\ \A r \in Proc : r # q => cwd'[r] = cwd[r]
  BY ONLY <1>3, <1>4, <1>7, q \in Proc
<1>10. ASSUME NEW f \in File
       PROVE  /\ file'[f] \in [ref : Nat, ip : Node] /\ file'[f].ip = file[f].ip
              /\ file'[f].ref = Cardinality(Descriptors(f)') /\ (file'[f].ref = 0 <=> file'[f].ip = 0)
  <2>1. PICK n, a, b : /\ n = Cardinality({d \in Fd : ofile[p][d] = f})
                       /\ a = file[f].ref /\ b = file[f].ip
    OBVIOUS
  <2>2. a = Cardinality(Descriptors(f)) /\ (a = 0 <=> b = 0)
    BY <2>1 DEF Inv, Described, Unused
  <2>3. n \in Nat /\ Cardinality(Descriptors(f)') = a + n /\ (a = 0 => n = 0)
    BY <1>2, <1>3, <1>4, <2>1, <2>2, ChildDescriptors
  <2>4. a \in Nat /\ b \in Node /\ file[f] \in [ref : Nat, ip : Node]
    BY <1>7, <2>1
  <2>5. file'[f] = filedup(f, n)
    BY <1>4, <2>1
  <2>6. filedup(f, n) = [ref |-> a + n, ip |-> b]
    BY <2>1, <2>4 DEF filedup
  <2>7. a + n \in Nat /\ (a + n = 0 <=> b = 0)
    BY ONLY <2>2, <2>3, <2>4
  <2>8. file'[f].ref = a + n /\ file'[f].ip = b /\ file'[f] \in [ref : Nat, ip : Node]
    BY ONLY <2>4, <2>5, <2>6, <2>7
  <2> QED
    BY <2>1, <2>3, <2>7, <2>8
<1>11. Described' /\ Unused'
  BY <1>10 DEF Described, Unused
<1>12. FileTypes'
  <2>1. file' = [f \in File |-> file'[f]]
    BY <1>4
  <2>2. file' \in [File -> [ref : Nat, ip : Node]]
    BY <1>10, <2>1
  <2> QED
    BY <1>8, <1>9, <2>2 DEF FileTypes
<1>13. PICK x \in Label, r \in Locals : x = pc[q] /\ r = loc[q] /\ Goto(q, x, r)
  BY <1>2, <1>4, GotoSame
<1>14. Shape(x, r)
  BY <1>13 DEF Inv, Shapes
<1>15. ASSUME NEW i \in Inum
       PROVE  /\ ref'[i] \in Int
              /\ ref'[i] + Account(cwd[q], loc[q], IpOf(0), i) = ref[i] + Account(cwd'[q], r, IpOf(0)', i)
  <2>1. PICK o, f : o = Owns(r, i) /\ f = IpOf(0)
    OBVIOUS
  <2>2. IpOf(0)' = f
    BY <2>1 DEF IpOf, File
  <2>3. /\ Account(cwd[q], loc[q], IpOf(0), i) = 0 + o + One(f, i)
        /\ Account(cwd'[q], r, IpOf(0)', i) = One(c, i) + o + One(f, i)
    BY <1>3, <1>9, <1>13, <2>1, <2>2, OneZero DEF Account
  <2>4. ref'[i] = ref[i] + One(c, i) /\ ref[i] \in Nat
    BY <1>2, <1>5 DEF Types
  <2>5. o \in Nat
    BY <2>1 DEF Owns, One
  <2> QED
    BY ONLY <2>3, <2>4, <2>5, OneIs
<1>16. /\ \A r1 \in Proc : r1 # q => cwd'[r1] = cwd[r1] /\ ofile'[r1] = ofile[r1]
       /\ cwd'[q] # 0 /\ 0 \in File \cup {0}
       /\ \A f \in File : f # 0 => file'[f].ip = file[f].ip
  BY <1>3, <1>8, <1>9, <1>10
<1> QED
  BY ONLY Inv, q \in Proc, <1>5, <1>6, <1>11, <1>12, <1>13, <1>14, <1>15, <1>16, FileStep

-----------------------------------------------------------------------------
(* References are counted *)

LEMMA InitTypes ==
  ASSUME Init
  PROVE  Types
<1>1. NodeTypes
  <2>1. dinode \in [Inum -> [type : {"none", "DIR", "FILE", "DEV"}, nlink : Int]]
    <3>1. Free \in [type : {"none", "DIR", "FILE", "DEV"}, nlink : Int]
      BY DEF Free
    <3>2. \A i \in DOMAIN Image : [type |-> Image[i].type, nlink |-> Image[i].nlink]
                                    \in [type : {"none", "DIR", "FILE", "DEV"}, nlink : Int]
      BY FileSysAssumption
    <3> QED
      BY <3>1, <3>2 DEF Init
  <2>2. dir \in [Inum -> [Entry -> Node]]
    <3>1. \A i \in DOMAIN Image : \A e \in DOMAIN Image[i].ents : Image[i].ents[e] \in Inum
      BY FileSysAssumption
    <3> QED
      BY <3>1 DEF Init, Node
  <2> QED
    BY <2>1, <2>2 DEF Init, NodeTypes
<1>2. FileTypes
  <2>1. ROOTINO \in Node /\ 0 \in Node
    BY FileSysAssumption DEF Node
  <2>2. [ref |-> 0, ip |-> 0] \in [ref : Nat, ip : Node]
    BY <2>1
  <2> QED
    BY <2>1, <2>2 DEF Init, FileTypes
<1>3. ref \in [Inum -> Nat] /\ pc \in [Proc -> Label] /\ loc \in [Proc -> Locals]
  BY NoLocalsIs DEF Init, Label
<1> QED
  BY <1>1, <1>2, <1>3 DEF Types

LEMMA InitInv ==
  ASSUME Init
  PROVE  Inv
<1>1. Types
  BY InitTypes
<1>2. PICK r : r = NoLocals
  OBVIOUS
<1>3. r.dp = 0 /\ r.ip = 0 /\ r.puts = << >> /\ r.op = "none" /\ r.then = "user"
  BY <1>2, NoLocalsIs, RecIs
<1>4. \A p \in Proc : pc[p] = "user" /\ loc[p] = r /\ \A d \in Fd : ofile[p][d] = 0
  BY <1>2 DEF Init
<1>5. Shapes
  <2>1. Shape("user", r)
    BY <1>3 DEF Shape, Fits, Putting
  <2> QED
    BY <1>4, <2>1 DEF Shapes
<1>6. Alive
  BY <1>4 DEF Alive, Gone
<1>7. \A f \in File : file[f].ref = 0 /\ file[f].ip = 0
  BY DEF Init
<1>8. Described
  <2>1. ASSUME NEW f \in File PROVE Descriptors(f) = {}
    <3>1. 0 # f
      BY DEF File
    <3> QED
      BY <1>4, <3>1 DEF Descriptors
  <2> QED
    BY <1>7, <2>1, FS_EmptySet DEF Described
<1>9. Unused
  BY <1>7 DEF Unused
<1>10. Counted
  <2>1. PICK p \in Proc : cwd = [q \in Proc |-> IF q = p THEN ROOTINO ELSE 0]
    BY DEF Init
  <2>2. cwd[p] = ROOTINO /\ \A q \in Proc : q # p => cwd[q] = 0
    BY <2>1
  <2>3. First(r.puts) = 0 /\ Second(r.puts) = 0
    BY <1>3, FirstIs
  <2>4. ASSUME NEW x \in Place, x # <<"cwd", p>> PROVE Target(x) = 0
    <3>1. CASE \E f \in File : x = <<"file", f>>
      BY <1>7, <3>1, FileTargets
    <3>2. CASE \E k \in {"cwd", "dp", "ip", "put1", "put2"}, q \in Proc : x = <<k, q>>
      <4>1. PICK k \in {"cwd", "dp", "ip", "put1", "put2"}, q \in Proc : x = <<k, q>>
        BY <3>2
      <4>2. loc[q] = r /\ (k = "cwd" => q # p)
        BY <1>4, <2>4, <4>1
      <4>3. /\ Target(<<"cwd", q>>) = cwd[q] /\ Target(<<"dp", q>>) = 0 /\ Target(<<"ip", q>>) = 0
            /\ Target(<<"put1", q>>) = 0 /\ Target(<<"put2", q>>) = 0
        BY <1>3, <2>3, <4>2, OwnTargets
      <4> QED
        BY <2>2, <4>1, <4>2, <4>3
    <3> QED
      BY <3>1, <3>2, Places
  <2>5. <<"cwd", p>> \in Place /\ Target(<<"cwd", p>>) = ROOTINO
    BY <2>2, Places, OwnTargets
  <2>6. ASSUME NEW i \in Inum PROVE ref[i] = Cardinality(Pointers(i))
    <3>1. i # 0
      BY DEF Inum
    <3>2. CASE i = ROOTINO
      <4>1. Pointers(i) = {<<"cwd", p>>}
        BY <2>4, <2>5, <3>1, <3>2 DEF Pointers
      <4>2. ref[i] = 1
        BY <3>2 DEF Init
      <4> QED
        BY <4>1, <4>2, FS_Singleton
    <3>3. CASE i # ROOTINO
      <4>1. Pointers(i) = {}
        BY <2>4, <2>5, <3>1, <3>3 DEF Pointers
      <4>2. ref[i] = 0
        BY <3>3 DEF Init
      <4> QED
        BY <4>1, <4>2, FS_EmptySet
    <3> QED
      BY <3>2, <3>3
  <2> QED
    BY <2>6 DEF Counted
<1> QED
  BY <1>1, <1>5, <1>6, <1>8, <1>9, <1>10 DEF Inv

LEMMA NextInv ==
  ASSUME Inv, Next
  PROVE  Inv'
<1>1. PICK p \in Proc : \/ Step(p) \/ \E c \in Calls : Begin(p, c)
                        \/ \E d \in Fd : SysClose(p, d) \/ SysDup(p, d)
                        \/ \E q \in Proc : Fork(p, q)
                        \/ Exit(p)
  BY DEF Next
<1>2. CASE Step(p)
  <2>1. CASE Iput(p) \/ Itrunc(p) \/ Iref(p)
    BY <2>1, IputStep, ItruncStep, IrefStep
  <2>2. CASE WalkDone(p) \/ WalkStep(p) \/ WalkNoName(p) \/ WalkFail(p)
    BY <2>2, WalkDoneStep, WalkStepStep, WalkNoNameStep, WalkFailStep
  <2>3. CASE CreateFound(p) \/ CreateAlloc(p) \/ CreateNew(p) \/ Created(p) \/ CreateOld(p)
    BY <2>3, CreateFoundStep, CreateAllocStep, CreateNewStep, CreatedStep, CreateOldStep
  <2>4. CASE Open(p) \/ OpenFile(p) \/ OpenFail(p) \/ Chdir(p) \/ ExitCwd(p)
    BY <2>4, OpenStep, OpenFileStep, OpenFailStep, ChdirStep, ExitCwdStep
  <2>5. CASE ExitClose(p)
    BY <2>5, CloseStep DEF ExitClose
  <2>6. CASE UnlinkLookup(p) \/ UnlinkFull(p) \/ UnlinkBad(p) \/ UnlinkErase(p) \/ Unlinked(p)
    BY <2>6, UnlinkLookupStep, UnlinkFullStep, UnlinkBadStep, UnlinkEraseStep, UnlinkedStep
  <2>7. CASE LinkInc(p) \/ LinkExists(p) \/ LinkPut(p) \/ LinkDone(p) \/ LinkBad(p)
    BY <2>7, LinkIncStep, LinkExistsStep, LinkPutStep, LinkDoneStep, LinkBadStep
  <2> QED
    BY <1>2, <2>1, <2>2, <2>3, <2>4, <2>5, <2>6, <2>7 DEF Step
<1>3. CASE \E c \in Calls : Begin(p, c)
  BY <1>3, BeginStep
<1>4. CASE \E d \in Fd : SysClose(p, d) \/ SysDup(p, d)
  <2>1. PICK d \in Fd : SysClose(p, d) \/ SysDup(p, d)
    BY <1>4
  <2>2. CASE SysClose(p, d)
    <3>1. pc[p] = "user" /\ Close(p, d, "user")
      BY <2>2 DEF SysClose, argfd
    <3> QED
      BY <3>1, CloseStep
  <2>3. CASE SysDup(p, d)
    BY <2>3, SysDupStep
  <2> QED
    BY <2>1, <2>2, <2>3
<1>5. CASE \E q \in Proc : Fork(p, q)
  BY <1>5, ForkStep
<1>6. CASE Exit(p)
  BY <1>6, ExitStep
<1> QED
  BY <1>1, <1>2, <1>3, <1>4, <1>5, <1>6

LEMMA StutterInv ==
  ASSUME Inv, UNCHANGED vars
  PROVE  Inv'
<1>1. /\ dinode' = dinode /\ dir' = dir /\ valid' = valid /\ ref' = ref /\ lock' = lock
      /\ file' = file /\ ofile' = ofile /\ cwd' = cwd /\ pc' = pc /\ loc' = loc
  BY DEF vars, disk, inodes, cache, files
<1>2. Types'
  BY <1>1 DEF Inv, Types, NodeTypes, FileTypes
<1>3. Shapes' /\ Alive'
  BY <1>1 DEF Inv, Shapes, Alive
<1>4. Described' /\ Unused'
  BY <1>1, FilesKept DEF Inv
<1>5. \A x : Target(x)' = Target(x)
  BY <1>1 DEF Target
<1>6. \A i : Pointers(i)' = Pointers(i)
  BY <1>5 DEF Pointers
<1>7. Counted'
  BY <1>1, <1>6 DEF Inv, Counted
<1> QED
  BY <1>2, <1>3, <1>4, <1>7 DEF Inv

\* ip->ref and f->ref are exact at every moment, whatever the calls do to each
\* other: a reference that a path through namex, create, sys_open, sys_unlink,
\* sys_link, sys_chdir, fork or exit takes is put once, also when the call fails.
THEOREM RefExactHolds == Spec => []RefExact
<1>1. Init => Inv
  BY InitInv
<1>2. Inv /\ [Next]_vars => Inv'
  BY NextInv, StutterInv
<1>3. Inv => RefExact
  <2> SUFFICES ASSUME Inv PROVE RefExact
    OBVIOUS
  <2>1. \A p \in Proc : Len(loc[p].puts) <= 2
    BY DEF Inv, Shapes, Shape
  <2>2. /\ \A i \in Inum : ref[i] = Cardinality(Pointers(i))
        /\ \A f \in File : file[f].ref = Cardinality(Descriptors(f))
    BY DEF Inv, Counted, Described
  <2> QED
    BY <2>1, <2>2 DEF Inv, Types, NodeTypes, FileTypes, Node, RefExact
<1> QED
  BY <1>1, <1>2, <1>3, PTL DEF Spec

-----------------------------------------------------------------------------
(* The lock of an inode                                                    *)
(*                                                                         *)
(* A step of FileSys takes or gives up ip->lock at once.  The lock is a    *)
(* sleep-lock, whose acquiresleep and releasesleep are the steps of module *)
(* SleepLock.  That they may be one step rests on mutual exclusion, on     *)
(* holdingsleep and on no wakeup being lost.                               *)

\* The state initsleeplock leaves behind satisfies the inductive invariant.
LEMMA LockEstablished == LockInit => IndInv
  BY NoProcAssumption DEF LockInit, IndInv, LockTypeOK, LocksHeld, HoldingsleepExact,
         holdingsleep, SleepersCovered, NoLostWakeup, LockLabel,
         LkLabels, PtLabels, CritLabels

\* Every step of acquiresleep keeps the inductive invariant.
LEMMA LockAcquire ==
  ASSUME IndInv, NEW p \in Locker,
         AcquireSleep(p) \/ AcquireLk(p)
         \/ TakeLock(p) \/ MustSleep(p)
  PROVE  IndInv'
<1> USE NoProcAssumption DEF IndInv, Go, LockTypeOK, LocksHeld,
           HoldingsleepExact, holdingsleep, SleepersCovered, NoLostWakeup,
           LockLabel, LkLabels, PtLabels, CritLabels
<1>1. CASE AcquireSleep(p)
  BY <1>1 DEF AcquireSleep
<1>2. CASE AcquireLk(p)
  BY <1>2 DEF AcquireLk
<1>3. CASE TakeLock(p)
  BY <1>3 DEF TakeLock
<1>4. CASE MustSleep(p)
  BY <1>4 DEF MustSleep
<1> QED
  BY <1>1, <1>2, <1>3, <1>4

\* Every step of sleep, from the acquire of ptable.lock to the return, keeps
\* the inductive invariant.
LEMMA LockSleep ==
  ASSUME IndInv, NEW p \in Locker,
         \/ SleepLockPt(p) \/ SleepDropLk(p) \/ SleepBlock(p)
         \/ Scheduled(p) \/ SleepReturn(p)
  PROVE  IndInv'
<1> USE NoProcAssumption DEF IndInv, Go, LockTypeOK, LocksHeld,
           HoldingsleepExact, holdingsleep, SleepersCovered, NoLostWakeup,
           LockLabel, LkLabels, PtLabels, CritLabels
<1>1. CASE SleepLockPt(p)
  BY <1>1 DEF SleepLockPt
<1>2. CASE SleepDropLk(p)
  BY <1>2 DEF SleepDropLk
<1>3. CASE SleepBlock(p)
  BY <1>3 DEF SleepBlock
<1>4. CASE Scheduled(p)
  BY <1>4 DEF Scheduled
<1>5. CASE SleepReturn(p)
  BY <1>5 DEF SleepReturn
<1> QED
  BY <1>1, <1>2, <1>3, <1>4, <1>5

\* Every step of releasesleep, and kill, keeps the inductive invariant.
LEMMA LockRelease ==
  ASSUME IndInv, NEW p \in Locker,
         \/ ReleaseSleep(p) \/ ReleaseLockLk(p) \/ Unlock(p) \/ Wakeup(p)
         \/ ReleaseLk(p) \/ Kill(p)
  PROVE  IndInv'
<1> USE NoProcAssumption DEF IndInv, Go, LockTypeOK, LocksHeld,
           HoldingsleepExact, holdingsleep, SleepersCovered, NoLostWakeup,
           LockLabel, LkLabels, PtLabels, CritLabels
<1>1. CASE ReleaseSleep(p)
  BY <1>1 DEF ReleaseSleep
<1>2. CASE ReleaseLockLk(p)
  BY <1>2 DEF ReleaseLockLk
<1>3. CASE Unlock(p)
  BY <1>3 DEF Unlock
<1>4. CASE Wakeup(p)
  BY <1>4 DEF Wakeup, wakeup1
<1>5. CASE ReleaseLk(p)
  BY <1>5 DEF ReleaseLk
<1>6. CASE Kill(p)
  BY <1>6 DEF Kill
<1> QED
  BY <1>1, <1>2, <1>3, <1>4, <1>5, <1>6

\* The invariant is inductive over the whole next-state relation.
LEMMA LockPreserved == IndInv /\ [LockNext]_lockvars => IndInv'
<1> SUFFICES ASSUME IndInv, [LockNext]_lockvars PROVE IndInv'
  OBVIOUS
<1>1. CASE LockNext
  <2>1. PICK p \in Locker : AcquireSleep(p) \/ LockStep(p) \/ Kill(p)
    BY <1>1 DEF LockNext
  <2> QED
    BY <2>1, LockAcquire, LockSleep, LockRelease DEF LockStep
<1>2. CASE UNCHANGED lockvars
  BY <1>2 DEF lockvars, IndInv, LockTypeOK, LocksHeld, HoldingsleepExact,
         holdingsleep, SleepersCovered, NoLostWakeup
<1> QED
  BY <1>1, <1>2

\* The inductive invariant holds of sleeplock.c, sleep and wakeup at all times.
THEOREM LockInvariantHolds == LockSpec => []IndInv
  BY LockEstablished, LockPreserved, PTL DEF LockSpec

\* Types, and lk->pid names a process exactly while lk->locked is set.
THEOREM LockTypeCorrect == LockSpec => []LockTypeOK
<1>1. IndInv => LockTypeOK
  BY DEF IndInv
<1> QED
  BY <1>1, LockInvariantHolds, PTL

\* holdingsleep is exact, so the panics that call it fire only on misuse.
THEOREM HoldingsleepCorrect == LockSpec => []HoldingsleepExact
<1>1. IndInv => HoldingsleepExact
  BY DEF IndInv
<1> QED
  BY <1>1, LockInvariantHolds, PTL

\* acquiresleep has returned to at most one process at a time: lk->pid names
\* every process inside, and it is a single value.
THEOREM MutualExclusionHolds == LockSpec => []MutualExclusion
<1>1. IndInv => MutualExclusion
  BY DEF IndInv, MutualExclusion, HoldingsleepExact, holdingsleep
<1> QED
  BY <1>1, LockInvariantHolds, PTL

\* sleep's claim that taking ptable.lock before releasing lk->lk misses no
\* wakeup.
THEOREM NoWakeupLost == LockSpec => []NoLostWakeup
<1>1. IndInv => NoLostWakeup
  BY DEF IndInv
<1> QED
  BY <1>1, LockInvariantHolds, PTL
=============================================================================
