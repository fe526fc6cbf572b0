----------------------------- MODULE PipeProofs -----------------------------
(***************************************************************************)
(* A pipe for any number of processes and any size of the ring: its page   *)
(* is freed exactly when nobody can come to it, nobody sleeps on what is   *)
(* ready, and the ring is a bounded FIFO queue.                            *)
(***************************************************************************)
EXTENDS Pipe, Integers, SequenceTheorems, FiniteSetTheorems, TLAPS

(* Rings: remainders, and what is between two indices *)

\* The sizes of rings, and what their indices are counted modulo.
Pos == Nat \ {0}

\* Quotient and remainder.
LEMMA DivMod ==
  ASSUME NEW a \in Nat, NEW m \in Pos
  PROVE  a % m \in 0..(m - 1) /\ a \div m \in Nat /\ a = (m * (a \div m)) + (a % m)
  BY DEF Pos

\* The remainder of what is written as a multiple and a remainder.
LEMMA ModUnique ==
  ASSUME NEW q \in Nat, NEW m \in Pos, NEW x \in 0..(m - 1)
  PROVE  ((m * q) + x) % m = x
  BY DEF Pos

\* A number below the modulus is its own remainder; once around, it is less by it.
LEMMA ModWrap ==
  ASSUME NEW m \in Pos, NEW x \in Nat
  PROVE  /\ x < m => x % m = x
         /\ x >= m /\ x < 2 * m => x % m = x - m
  BY DEF Pos

\* A multiple of the modulus changes no remainder.
LEMMA ModMultiple ==
  ASSUME NEW a \in Nat, NEW q \in Nat, NEW m \in Pos
  PROVE  ((m * q) + a) % m = a % m
<1> DEFINE t == a \div m
           x == a % m
<1>1. x \in 0..(m - 1) /\ t \in Nat /\ a = (m * t) + x
  BY DivMod
<1> HIDE DEF t
<1>2. q + t \in Nat /\ (m * q) + ((m * t) + x) = (m * (q + t)) + x
  BY <1>1 DEF Pos
<1>3. ((m * (q + t)) + x) % m = x
  <2> HIDE DEF x
  <2> QED
    BY <1>1, <1>2, ModUnique
<1> QED
  BY <1>1, <1>2, <1>3

\* A remainder of a sum can be taken of a remainder.
LEMMA ModAdd ==
  ASSUME NEW a \in Nat, NEW b \in Nat, NEW m \in Pos
  PROVE  ((a % m) + b) % m = (a + b) % m
<1> DEFINE t == a \div m
           x == a % m
<1>1. x \in 0..(m - 1) /\ t \in Nat /\ a = (m * t) + x
  BY DivMod
<1> HIDE DEF t, x
<1>2. x + b \in Nat /\ a + b = (m * t) + (x + b)
  BY <1>1 DEF Pos
<1>3. ((m * t) + (x + b)) % m = (x + b) % m
  BY <1>1, <1>2, ModMultiple
<1> QED
  BY <1>2, <1>3 DEF x

\* Indices that wrap around at a multiple of the size of a ring index it as if
\* they did not.
LEMMA ModModAdd ==
  ASSUME NEW a \in Nat, NEW b \in Nat, NEW m \in Pos, NEW d \in Pos, m % d = 0
  PROVE  ((a % m) + b) % d = (a + b) % d
<1> DEFINE t == a \div m
           x == a % m
           u == m \div d
<1>1. x \in 0..(m - 1) /\ t \in Nat /\ a = (m * t) + x
  BY DivMod
<1>2. u \in Nat /\ m = d * u
  <2>1. u \in Nat /\ m = (d * u) + (m % d)
    BY DivMod DEF Pos
  <2> QED
    BY <2>1 DEF Pos
<1> HIDE DEF t, x, u
<1>3. u * t \in Nat /\ x + b \in Nat /\ a + b = (d * (u * t)) + (x + b)
  BY <1>1, <1>2
<1>4. ((d * (u * t)) + (x + b)) % d = (x + b) % d
  BY <1>3, ModMultiple
<1> QED
  BY <1>3, <1>4 DEF x

\* Two places less than a round apart are the same only if they are no distance
\* apart.
LEMMA ModSame ==
  ASSUME NEW a \in Nat, NEW m \in Pos, NEW x \in 0..(m - 1), NEW y \in 0..(m - 1),
         (a + x) % m = (a + y) % m
  PROVE  x = y
<1> DEFINE t == a % m
<1>1. t \in 0..(m - 1) /\ t \in Nat
  BY DivMod
<1>2. (t + x) % m = (t + y) % m
  <2>1. x \in Nat /\ y \in Nat
    OBVIOUS
  <2>2. (t + x) % m = (a + x) % m /\ (t + y) % m = (a + y) % m
    BY <2>1, ModAdd
  <2> QED
    BY <2>2
<1> HIDE DEF t
<1>3. ASSUME NEW z \in 0..(m - 1)
      PROVE  /\ t + z < m => (t + z) % m = t + z
             /\ t + z >= m => (t + z) % m = t + z - m
  <2>1. t + z \in Nat /\ t + z < 2 * m
    BY <1>1 DEF Pos
  <2> QED
    BY <1>1, <2>1 DEF Pos
<1>4. /\ t + x < m => (t + x) % m = t + x
      /\ t + x >= m => (t + x) % m = t + x - m
      /\ t + y < m => (t + y) % m = t + y
      /\ t + y >= m => (t + y) % m = t + y - m
  BY <1>3
<1> QED
  BY <1>1, <1>2, <1>4 DEF Pos

\* How far index b is ahead of index a, when indices are counted modulo m.
Dist(m, a, b) == (b + m - a) % m

Index(m) == 0..(m - 1)

Buffers(d, S) == [Index(d) -> S]

Store(ring, i, c) == [ring EXCEPT ![i] = c]

\* The contents of ring, of size d, between indices a and b.
Contents(m, d, ring, a, b) == [k \in 1..Dist(m, a, b) |-> ring[(a + k - 1) % d]]

\* The distance is that of a circle.
LEMMA DistCases ==
  ASSUME NEW m \in Pos, NEW a \in Index(m), NEW b \in Index(m)
  PROVE  /\ a <= b => Dist(m, a, b) = b - a
         /\ b < a => Dist(m, a, b) = b + m - a
         /\ Dist(m, a, b) \in Index(m)
<1>1. b + m - a \in Nat /\ b + m - a < 2 * m
  BY DEF Index, Pos
<1>2. b + m - a < m => (b + m - a) % m = b + m - a
  BY <1>1, ModWrap
<1>3. b + m - a >= m => (b + m - a) % m = b - a
  BY <1>1 DEF Index, Pos
<1> QED
  BY <1>1, <1>2, <1>3 DEF Dist, Index, Pos

\* An index that is k ahead.
LEMMA DistAhead ==
  ASSUME NEW m \in Pos, NEW a \in Index(m), NEW k \in Index(m)
  PROVE  (a + k) % m \in Index(m) /\ Dist(m, a, (a + k) % m) = k
<1>1. a + k \in Nat /\ a + k < 2 * m
  BY DEF Index, Pos
<1>2. /\ a + k < m => (a + k) % m = a + k
      /\ a + k >= m => (a + k) % m = a + k - m
  BY <1>1 DEF Index, Pos
<1> DEFINE b == (a + k) % m
<1>3. b \in Index(m)
  BY <1>1, <1>2 DEF Index, Pos
<1>4. /\ a <= b => Dist(m, a, b) = b - a
      /\ b < a => Dist(m, a, b) = b + m - a
  <2> HIDE DEF b
  <2> QED
    BY <1>3, DistCases
<1> QED
  BY <1>1, <1>2, <1>3, <1>4 DEF Index, Pos

\* An index is where its distance puts it.
LEMMA DistReach ==
  ASSUME NEW m \in Pos, NEW a \in Index(m), NEW b \in Index(m)
  PROVE  (a + Dist(m, a, b)) % m = b
<1> DEFINE k == Dist(m, a, b)
<1>1. /\ a <= b => k = b - a
      /\ b < a => k = b + m - a
      /\ k \in Index(m)
  BY DistCases
<1> HIDE DEF k
<1>2. a + k \in Nat /\ a + k < 2 * m
  BY <1>1 DEF Index, Pos
<1>3. (a + k) % m = b
  BY <1>1, <1>2, ModWrap DEF Index, Pos
<1> QED
  BY <1>3 DEF k

\* An index is incremented and decremented.
LEMMA IndexStep ==
  ASSUME NEW m \in Pos, NEW a \in Index(m)
  PROVE  /\ a + 1 = m => (a + 1) % m = 0
         /\ a + 1 < m => (a + 1) % m = a + 1
         /\ a = 0 => (a + m - 1) % m = m - 1
         /\ a > 0 => (a + m - 1) % m = a - 1
         /\ (a + 1) % m \in Index(m)
         /\ (a + m - 1) % m \in Index(m)
<1>1. a + 1 = m => (a + 1) % m = 0
  BY DEF Index, Pos
<1>2. a + 1 < m => (a + 1) % m = a + 1
  BY DEF Index, Pos
<1>3. a = 0 => (a + m - 1) % m = m - 1
  BY DEF Index, Pos
<1>4. a > 0 => (a + m - 1) % m = a - 1
  BY DEF Index, Pos
<1> QED
  BY <1>1, <1>2, <1>3, <1>4 DEF Index, Pos

\* What the steps of the two indices do to their distance.
LEMMA DistStep ==
  ASSUME NEW m \in Pos, NEW a \in Index(m), NEW b \in Index(m)
  PROVE  /\ Dist(m, a, b) = 0 <=> a = b
         /\ Dist(m, a, b) + 1 < m => Dist(m, a, (b + 1) % m) = Dist(m, a, b) + 1
         /\ a # b => Dist(m, (a + 1) % m, b) = Dist(m, a, b) - 1
         /\ a # b => Dist(m, a, (b + m - 1) % m) = Dist(m, a, b) - 1
<1> DEFINE u == (a + 1) % m
           v == (b + 1) % m
           x == (b + m - 1) % m
<1>1. /\ u \in Index(m) /\ (a + 1 = m => u = 0) /\ (a + 1 < m => u = a + 1)
      /\ v \in Index(m) /\ (b + 1 = m => v = 0) /\ (b + 1 < m => v = b + 1)
      /\ x \in Index(m) /\ (b = 0 => x = m - 1) /\ (b > 0 => x = b - 1)
  BY IndexStep
<1>2. \A y, z \in Index(m) : /\ y <= z => Dist(m, y, z) = z - y
                             /\ z < y => Dist(m, y, z) = z + m - y
  BY DistCases
<1> HIDE DEF u, v, x
<1>3. Dist(m, a, b) + 1 < m => Dist(m, a, v) = Dist(m, a, b) + 1
  BY <1>1, <1>2 DEF Index, Pos
<1>4. a # b => Dist(m, u, b) = Dist(m, a, b) - 1
  BY <1>1, <1>2 DEF Index, Pos
<1>5. a # b => Dist(m, a, x) = Dist(m, a, b) - 1
  BY <1>1, <1>2 DEF Index, Pos
<1>6. Dist(m, a, b) = 0 <=> a = b
  BY <1>2 DEF Index, Pos
<1> QED
  BY <1>3, <1>4, <1>5, <1>6 DEF u, v, x

\* The contents of a ring are a sequence.
LEMMA ContentsSeq ==
  ASSUME NEW m \in Pos, NEW d \in Pos, NEW S, NEW ring \in Buffers(d, S),
         NEW a \in Index(m), NEW b \in Index(m)
  PROVE  /\ Contents(m, d, ring, a, b) \in Seq(S)
         /\ Len(Contents(m, d, ring, a, b)) = Dist(m, a, b)
         /\ \A k \in 1..Dist(m, a, b) :
              Contents(m, d, ring, a, b)[k] = ring[(a + k - 1) % d]
<1> DEFINE D == Dist(m, a, b)
<1>1. D \in Nat
  BY DistCases DEF Index, Pos
<1>2. ASSUME NEW k \in 1..D PROVE ring[(a + k - 1) % d] \in S
  <2>1. a + k - 1 \in Nat
    BY <1>1 DEF Index, Pos
  <2>2. (a + k - 1) % d \in Index(d)
    BY <2>1, DivMod DEF Index, Pos
  <2> QED
    BY <2>2 DEF Buffers
<1> HIDE DEF D
<1>3. [k \in 1..D |-> ring[(a + k - 1) % d]] \in Seq(S)
  BY <1>1, <1>2
<1>4. Contents(m, d, ring, a, b) = [k \in 1..D |-> ring[(a + k - 1) % d]]
  BY DEF Contents, D
<1>5. Len([k \in 1..D |-> ring[(a + k - 1) % d]]) = D
  BY <1>1
<1> QED
  BY <1>3, <1>4, <1>5 DEF D

\* The place in the ring of what lies k behind index b, seen from index a.
LEMMA RingPlace ==
  ASSUME NEW m \in Pos, NEW d \in Pos, m % d = 0,
         NEW a \in Index(m), NEW b \in Index(m), NEW k \in Nat
  PROVE  (b + k) % d = (a + (Dist(m, a, b) + k)) % d
<1> DEFINE D == Dist(m, a, b)
<1>1. D \in Index(m) /\ (a + D) % m = b
  BY DistCases, DistReach
<1> HIDE DEF D
<1>2. a + D \in Nat /\ (a + D) + k = a + (D + k)
  BY <1>1 DEF Index, Pos
<1>3. (((a + D) % m) + k) % d = ((a + D) + k) % d
  <2> DEFINE x == a + D
  <2>1. x \in Nat
    BY <1>2
  <2> HIDE DEF x
  <2>2. ((x % m) + k) % d = (x + k) % d
    BY <2>1, ModModAdd
  <2> QED
    BY <2>2 DEF x
<1> QED
  BY <1>1, <1>2, <1>3 DEF D

\* A place that lies behind the contents, and less than a round from their start,
\* is not one of theirs.
LEMMA ContentsKeep ==
  ASSUME NEW m \in Pos, NEW d \in Pos, m % d = 0,
         NEW S, NEW ring \in Buffers(d, S), NEW c \in S,
         NEW a \in Index(m), NEW b \in Index(m), NEW x \in Index(m),
         Dist(m, a, b) <= Dist(m, a, x), Dist(m, a, x) < d
  PROVE  Contents(m, d, Store(ring, x % d, c), a, b) = Contents(m, d, ring, a, b)
<1> DEFINE D == Dist(m, a, b)
           X == Dist(m, a, x)
<1>1. D \in Nat /\ X \in Nat /\ D <= X /\ X < d
  BY DistCases DEF Index, Pos
<1>2. x % d = (a + X) % d
  BY RingPlace, <1>1 DEF Index, Pos
<1> HIDE DEF X
<1>3. ASSUME NEW k \in 1..D PROVE [ring EXCEPT ![x % d] = c][(a + k - 1) % d] = ring[(a + k - 1) % d]
  <2>1. k - 1 \in 0..(d - 1) /\ X \in 0..(d - 1) /\ k - 1 # X /\ a \in Nat
    BY <1>1 DEF Index, Pos
  <2>2. (a + (k - 1)) % d # (a + X) % d
    BY <2>1, ModSame
  <2>3. a + k - 1 = a + (k - 1) /\ a + k - 1 \in Nat
    BY <2>1
  <2>4. (a + k - 1) % d \in Index(d)
    BY <2>3, DivMod DEF Index, Pos
  <2> QED
    BY <1>2, <2>2, <2>3, <2>4
<1> QED
  BY <1>3 DEF Contents, Store

\* A character is put at the end.
LEMMA ContentsPut ==
  ASSUME NEW m \in Pos, NEW d \in Pos, m % d = 0, d < m,
         NEW S, NEW ring \in Buffers(d, S), NEW c \in S,
         NEW a \in Index(m), NEW b \in Index(m), Dist(m, a, b) < d
  PROVE  Contents(m, d, Store(ring, b % d, c), a, (b + 1) % m)
           = Append(Contents(m, d, ring, a, b), c)
<1> DEFINE D == Dist(m, a, b)
           z == (b + 1) % m
           new == Store(ring, b % d, c)
           s == Contents(m, d, ring, a, b)
           t == Contents(m, d, new, a, z)
<1>1. D \in Nat /\ D < d /\ D + 1 < m
  <2>1. D \in Index(m)
    BY DistCases
  <2> QED
    BY <2>1 DEF Index, Pos
<1>2. z \in Index(m) /\ Dist(m, a, z) = D + 1
  BY <1>1, IndexStep, DistStep
<1>3. b % d \in Index(d) /\ b % d = (a + D) % d
  <2>1. (b + 0) % d = (a + (D + 0)) % d
    BY RingPlace
  <2>2. b \in Nat /\ b + 0 = b /\ a + (D + 0) = a + D
    BY <1>1 DEF Index, Pos
  <2>3. b % d \in 0..(d - 1)
    BY <2>2, DivMod
  <2> QED
    BY <2>1, <2>2, <2>3 DEF Index, Pos
<1>4. new \in Buffers(d, S)
  BY <1>3 DEF Buffers, Store
<1>5. /\ s \in Seq(S) /\ Len(s) = D
      /\ \A k \in 1..D : s[k] = ring[(a + k - 1) % d]
  BY ContentsSeq
<1>6. /\ t \in Seq(S) /\ Len(t) = D + 1
      /\ \A k \in 1..(D + 1) : t[k] = new[(a + k - 1) % d]
  <2> DEFINE E == Dist(m, a, z)
  <2> HIDE DEF z, new
  <2>1. /\ t \in Seq(S) /\ Len(t) = E
        /\ \A k \in 1..E : t[k] = new[(a + k - 1) % d]
    BY <1>2, <1>4, ContentsSeq
  <2> QED
    BY <1>2, <2>1
<1>7. Contents(m, d, new, a, b) = s
  <2>1. Dist(m, a, b) <= Dist(m, a, b)
    BY <1>1
  <2> QED
    BY <1>1, <2>1, ContentsKeep
<1>8. \A k \in 1..D : s[k] = new[(a + k - 1) % d]
  <2> DEFINE u == Contents(m, d, new, a, b)
  <2> HIDE DEF z, new
  <2>1. \A k \in 1..D : u[k] = new[(a + k - 1) % d]
    BY <1>4, ContentsSeq
  <2> QED
    BY <1>7, <2>1
<1> HIDE DEF D, z, s, t
<1>9. t[D + 1] = c
  <2>1. D + 1 \in 1..(D + 1) /\ a + (D + 1) - 1 = a + D
    BY <1>1 DEF Index, Pos
  <2>2. t[D + 1] = new[(a + (D + 1) - 1) % d]
    BY <1>6, <2>1
  <2> QED
    BY <1>3, <2>1, <2>2 DEF Buffers, Store
<1>10. /\ Append(s, c) \in Seq(S) /\ Len(Append(s, c)) = D + 1
       /\ \A k \in 1..D : Append(s, c)[k] = s[k]
       /\ Append(s, c)[D + 1] = c
  BY <1>1, <1>5
<1>11. ASSUME NEW k \in 1..(D + 1) PROVE t[k] = Append(s, c)[k]
  <2>1. CASE k = D + 1
    BY <1>9, <1>10, <2>1
  <2>2. CASE k # D + 1
    <3>1. k \in 1..D
      BY <1>1, <2>2
    <3> QED
      BY <1>6, <1>8, <1>10, <3>1
  <2> QED
    BY <2>1, <2>2
<1>12. t = Append(s, c)
  BY <1>6, <1>10, <1>11, SeqEqual
<1> QED
  BY <1>12 DEF t, s, z, new

\* The oldest character is taken.
LEMMA ContentsGet ==
  ASSUME NEW m \in Pos, NEW d \in Pos, m % d = 0,
         NEW S, NEW ring \in Buffers(d, S), NEW a \in Index(m), NEW b \in Index(m), a # b
  PROVE  /\ Contents(m, d, ring, a, b) # << >>
         /\ Head(Contents(m, d, ring, a, b)) = ring[a % d]
         /\ Contents(m, d, ring, (a + 1) % m, b) = Tail(Contents(m, d, ring, a, b))
<1> DEFINE D == Dist(m, a, b)
           x == (a + 1) % m
           s == Contents(m, d, ring, a, b)
           t == Contents(m, d, ring, x, b)
<1>1. D \in Nat /\ D > 0
  <2>1. D \in Index(m) /\ D # 0
    BY DistCases, DistStep
  <2> QED
    BY <2>1 DEF Index, Pos
<1>2. x \in Index(m) /\ Dist(m, x, b) = D - 1
  BY IndexStep, DistStep
<1>3. /\ s \in Seq(S) /\ Len(s) = D
      /\ \A k \in 1..D : s[k] = ring[(a + k - 1) % d]
  BY ContentsSeq
<1>4. /\ t \in Seq(S) /\ Len(t) = D - 1
      /\ \A k \in 1..(D - 1) : t[k] = ring[(x + k - 1) % d]
  <2> HIDE DEF x
  <2> QED
    BY <1>2, ContentsSeq
<1>5. ASSUME NEW k \in 1..(D - 1) PROVE (x + k - 1) % d = (a + (k + 1) - 1) % d
  <2>1. a + 1 \in Nat /\ k - 1 \in Nat /\ x + k - 1 = x + (k - 1)
        /\ (a + 1) + (k - 1) = a + (k + 1) - 1
    BY <1>1, <1>2 DEF Index, Pos
  <2>2. (((a + 1) % m) + (k - 1)) % d = ((a + 1) + (k - 1)) % d
    BY <2>1, ModModAdd
  <2> QED
    BY <2>1, <2>2
<1> HIDE DEF x, s, t, D
<1>6. s # << >> /\ Head(s) = s[1] /\ Tail(s) \in Seq(S) /\ Len(Tail(s)) = D - 1
      /\ \A k \in 1..(D - 1) : Tail(s)[k] = s[k + 1]
  BY <1>1, <1>3
<1>7. Head(s) = ring[a % d]
  <2>1. 1 \in 1..D /\ a + 1 - 1 = a
    BY <1>1 DEF Index, Pos
  <2> QED
    BY <1>3, <1>6, <2>1
<1>8. ASSUME NEW k \in 1..(D - 1) PROVE t[k] = Tail(s)[k]
  <2>1. k + 1 \in 1..D
    BY <1>1
  <2> QED
    BY <1>3, <1>4, <1>5, <1>6, <2>1
<1>9. t = Tail(s)
  BY <1>4, <1>6, <1>8, SeqEqual
<1> QED
  BY <1>6, <1>7, <1>9 DEF s, t, x

-----------------------------------------------------------------------------
(* State *)

Writing == {"write", "wloop", "wsleep", "wasleep"}
Reading == {"read", "rloop", "rsleep", "rasleep", "rcopy"}

Types ==
  /\ data \in Buffers(PIPESIZE, Byte)
  /\ nread \in Index(UINT) /\ nwrite \in Index(UINT)
  /\ readopen \in BOOLEAN /\ writeopen \in BOOLEAN /\ freed \in BOOLEAN
  /\ fds \in [Proc -> SUBSET End]
  /\ pc \in [Proc -> Label]
  /\ killed \in [Proc -> BOOLEAN]
  /\ wbuf \in [Proc -> Seq(Byte)] /\ rbuf \in [Proc -> Seq(Byte)]
  /\ want \in [Proc -> Nat]

\* f->ref counts the descriptors.
Holders(e) == {p \in Proc : e \in fds[p]}
Counts == ref = [e \in End |-> Cardinality(Holders(e))]

\* A process in a call has the descriptor; the one that has closed the last is on
\* its way to pipeclose, and until it is there the end is open.
Ends ==
  /\ \A p \in Proc : pc[p] \in Writing => "write" \in fds[p]
  /\ \A p \in Proc : pc[p] \in Reading => "read" \in fds[p]
  /\ \A p, q \in Proc : pc[p] = "closewrite" =>
       "write" \notin fds[q] /\ (pc[q] = "closewrite" => q = p)
  /\ \A p, q \in Proc : pc[p] = "closeread" =>
       "read" \notin fds[q] /\ (pc[q] = "closeread" => q = p)
  /\ writeopen <=> \E p \in Proc : "write" \in fds[p] \/ pc[p] = "closewrite"
  /\ readopen <=> \E p \in Proc : "read" \in fds[p] \/ pc[p] = "closeread"
  /\ freed <=> ~readopen /\ ~writeopen

Mutex == \A p, q \in Proc : pc[p] \in Locking /\ pc[q] \in Locking => p = q

\* Why each sleeper is asleep: what it waits for has not happened, or the process
\* that holds p->lock is going to wake it.
Sleepers ==
  /\ \A p \in Proc : pc[p] = "wsleep" =>
       Full /\ readopen /\ \A q \in Proc : pc[q] # "rasleep"
  /\ \A p \in Proc : pc[p] = "wasleep" =>
       readopen /\ (Full \/ \E q \in Proc : pc[q] = "rcopy")
  /\ \A p \in Proc : pc[p] = "rsleep" => MustWait
  /\ (\A q \in Proc : ~killed[q]) => \A p \in Proc : pc[p] = "rasleep" =>
       MustWait \/ \E q \in Proc : pc[q] = "wloop"

Fits == Used <= PIPESIZE

\* Only a write in progress has bytes to send.
Unsent == \A p \in Proc : pc[p] \notin Writing => wbuf[p] = << >>

Inv == Types /\ Counts /\ Ends /\ Mutex /\ Sleepers /\ Fits /\ Unsent

-----------------------------------------------------------------------------
(* The ring *)

\* What the constants are.
LEMMA Constants ==
  /\ PIPESIZE \in Pos /\ UINT \in Pos /\ UINT % PIPESIZE = 0
  /\ PIPESIZE \in Nat /\ UINT \in Nat /\ PIPESIZE < UINT
  /\ PIPESIZE \in Index(UINT) /\ PIPESIZE # 0
  BY PipeAssumption DEF Pos, Index

\* The two counters and what they say of the ring.
LEMMA RingIs ==
  ASSUME Types
  PROVE  /\ Used = Dist(UINT, nread, nwrite) /\ Used \in Nat
         /\ Full <=> Used = PIPESIZE
         /\ nread = nwrite <=> Used = 0
         /\ Queue = Contents(UINT, PIPESIZE, data, nread, nwrite)
         /\ Queue \in Seq(Byte) /\ Len(Queue) = Used
<1> USE Constants DEF Types
<1>1. Used = Dist(UINT, nread, nwrite)
  BY DEF Used, Dist
<1>2. Used \in Index(UINT) /\ (nread = nwrite <=> Used = 0)
  BY <1>1, DistCases, DistStep
<1>3. Used \in Nat
  BY <1>2 DEF Index
<1>4. Full <=> Used = PIPESIZE
  <2>1. Dist(UINT, nread, (nread + PIPESIZE) % UINT) = PIPESIZE
    BY DistAhead
  <2>2. (nread + Dist(UINT, nread, nwrite)) % UINT = nwrite
    BY DistReach
  <2> QED
    BY <1>1, <2>1, <2>2 DEF Full
<1>5. Queue = Contents(UINT, PIPESIZE, data, nread, nwrite)
  BY DEF Queue, Contents, Used, Dist
<1>6. Queue \in Seq(Byte) /\ Len(Queue) = Used
  <2> HIDE DEF Types
  <2>1. /\ PIPESIZE \in Pos /\ UINT \in Pos /\ data \in Buffers(PIPESIZE, Byte)
        /\ nread \in Index(UINT) /\ nwrite \in Index(UINT)
    BY DEF Types
  <2>2. /\ Contents(UINT, PIPESIZE, data, nread, nwrite) \in Seq(Byte)
        /\ Len(Contents(UINT, PIPESIZE, data, nread, nwrite)) = Dist(UINT, nread, nwrite)
    BY ONLY <2>1, ContentsSeq
  <2> QED
    BY <1>1, <1>5, <2>2
<1> QED
  BY <1>1, <1>2, <1>3, <1>4, <1>5, <1>6

\* A byte goes to the end of the queue.
LEMMA PutByte ==
  ASSUME Types, Fits, ~Full, NEW b \in Byte,
         data' = [data EXCEPT ![nwrite % PIPESIZE] = b], nwrite' = Inc(nwrite), nread' = nread
  PROVE  /\ data' \in Buffers(PIPESIZE, Byte) /\ nwrite' \in Index(UINT)
         /\ Used < PIPESIZE /\ Used' = Used + 1
         /\ Queue' = Append(Queue, b)
<1> USE Constants DEF Types
<1>1. Used = Dist(UINT, nread, nwrite) /\ Used \in Nat /\ Used < PIPESIZE /\ Used + 1 < UINT
  BY RingIs DEF Fits
<1>2. nwrite' \in Index(UINT) /\ Dist(UINT, nread, nwrite') = Used + 1
  BY <1>1, IndexStep, DistStep DEF Inc
<1>3. data' = Store(data, nwrite % PIPESIZE, b)
  BY DEF Store
<1>4. nwrite % PIPESIZE \in Index(PIPESIZE)
  <2>1. nwrite \in Nat
    BY DEF Index
  <2> QED
    BY <2>1, DivMod DEF Index
<1>5. data' \in Buffers(PIPESIZE, Byte)
  BY <1>4 DEF Buffers
<1>6. Contents(UINT, PIPESIZE, Store(data, nwrite % PIPESIZE, b), nread, (nwrite + 1) % UINT)
        = Append(Contents(UINT, PIPESIZE, data, nread, nwrite), b)
  BY <1>1, ContentsPut
<1>7. Queue' = Contents(UINT, PIPESIZE, data', nread', nwrite')
  BY DEF Queue, Contents, Used, Dist
<1>8. Queue' = Append(Queue, b)
  BY <1>3, <1>6, <1>7, RingIs DEF Inc
<1>9. Used' = Used + 1
  BY <1>2 DEF Used, Dist
<1> QED
  BY <1>1, <1>2, <1>5, <1>8, <1>9

\* A byte is taken from the front.
LEMMA GetByte ==
  ASSUME Types, nread # nwrite, nread' = Inc(nread), UNCHANGED <<data, nwrite>>
  PROVE  /\ nread' \in Index(UINT) /\ data[nread % PIPESIZE] \in Byte
         /\ Used' = Used - 1
         /\ Queue # << >> /\ data[nread % PIPESIZE] = Head(Queue)
         /\ Queue' = Tail(Queue)
<1> USE Constants DEF Types
<1>1. nread' \in Index(UINT) /\ Dist(UINT, nread', nwrite) = Dist(UINT, nread, nwrite) - 1
  BY IndexStep, DistStep DEF Inc
<1>2. /\ Contents(UINT, PIPESIZE, data, nread, nwrite) # << >>
      /\ Head(Contents(UINT, PIPESIZE, data, nread, nwrite)) = data[nread % PIPESIZE]
      /\ Contents(UINT, PIPESIZE, data, (nread + 1) % UINT, nwrite)
           = Tail(Contents(UINT, PIPESIZE, data, nread, nwrite))
  BY ContentsGet
<1>3. Queue' = Contents(UINT, PIPESIZE, data', nread', nwrite')
  BY DEF Queue, Contents, Used, Dist
<1>4. nread % PIPESIZE \in Index(PIPESIZE)
  <2>1. nread \in Nat
    BY DEF Index
  <2> QED
    BY <2>1, DivMod DEF Index
<1>5. data[nread % PIPESIZE] \in Byte
  BY <1>4 DEF Buffers
<1>6. Used' = Used - 1
  BY <1>1, RingIs DEF Used, Dist
<1> QED
  BY <1>1, <1>2, <1>3, <1>5, <1>6, RingIs DEF Inc

-----------------------------------------------------------------------------
(* The invariant *)

\* Who wakes nobody and does not fall asleep leaves the sleepers their reasons.
LEMMA SleepersKept ==
  ASSUME Sleepers, NEW p \in Proc, pc \in [Proc -> Label], NEW l,
         pc' = [pc EXCEPT ![p] = l], l \notin {"wsleep", "wasleep", "rsleep", "rasleep"},
         pc[p] \notin {"rcopy", "wloop"}, killed' = killed, readopen' = readopen,
         Full' = Full, MustWait' = MustWait
  PROVE  Sleepers'
<1>1. pc'[p] = l /\ \A q \in Proc : q # p => pc'[q] = pc[q]
  OBVIOUS
<1>2. \A q \in Proc : pc'[q] \in {"wsleep", "wasleep", "rsleep", "rasleep"} => pc'[q] = pc[q]
  BY <1>1
<1>3. \A q \in Proc : pc[q] \in {"rcopy", "wloop"} => pc'[q] = pc[q]
  BY <1>1
<1> QED
  BY ONLY Sleepers, killed' = killed, readopen' = readopen, Full' = Full, MustWait' = MustWait,
          <1>2, <1>3 DEF Sleepers

\* write is called with a descriptor, and with nothing left from another call.
LEMMA SysWritePreserves ==
  ASSUME Inv, NEW p \in Proc, NEW s \in Writes, SysWrite(p, s)
  PROVE  Inv'
<1> USE DEF Inv, pipe, SysWrite, Go
<1>1. Types'
  BY PipeAssumption DEF Types, Label
<1>2. Counts'
  BY DEF Counts, Holders
<1>3. Ends'
  BY DEF Types, Ends, Writing, Reading
<1>4. Mutex'
  BY DEF Types, Mutex, Locking, LockFree
<1>5. Sleepers'
  <2>1. Full' = Full /\ MustWait' = MustWait
    BY DEF Full, MustWait
  <2> QED
    BY <2>1, SleepersKept DEF Types
<1>6. Fits'
  BY DEF Fits, Used
<1>7. Unsent'
  BY DEF Types, Unsent, Writing
<1> QED
  BY <1>1, <1>2, <1>3, <1>4, <1>5, <1>6, <1>7

\* A writer takes p->lock.
LEMMA WriteLockPreserves ==
  ASSUME Inv, NEW p \in Proc, WriteLock(p)
  PROVE  Inv'
<1> USE DEF Inv, pipe, WriteLock, Go
<1>1. Types'
  BY DEF Types, Label
<1>2. Counts'
  BY DEF Counts, Holders
<1>3. Ends'
  BY DEF Types, Ends, Writing, Reading
<1>4. Mutex'
  BY DEF Types, Mutex, Locking, LockFree
<1>5. Sleepers'
  BY DEF Types, Ends, Mutex, Sleepers, Locking, LockFree, Reading, Writing, Full, MustWait
<1>6. Fits'
  BY DEF Fits, Used
<1>7. Unsent'
  BY DEF Types, Unsent, Writing
<1> QED
  BY <1>1, <1>2, <1>3, <1>4, <1>5, <1>6, <1>7

\* A byte goes into the ring; a writer in its loop will wake the readers.
LEMMA WriteBytePreserves ==
  ASSUME Inv, NEW p \in Proc, WriteByte(p)
  PROVE  Inv'
<1> USE DEF Inv, pipe, WriteByte
<1>a. wbuf[p] \in Seq(Byte) /\ Head(wbuf[p]) \in Byte /\ Tail(wbuf[p]) \in Seq(Byte)
  BY DEF Types
<1>b. /\ data' \in Buffers(PIPESIZE, Byte) /\ nwrite' \in Index(UINT)
      /\ Used < PIPESIZE /\ Used' = Used + 1 /\ Used \in Nat
  BY <1>a, PutByte, RingIs
<1>1. Types'
  BY <1>a, <1>b DEF Types, Label
<1>2. Counts'
  BY DEF Counts, Holders
<1>3. Ends'
  BY DEF Types, Ends, Writing, Reading
<1>4. Mutex'
  BY DEF Types, Mutex, Locking, LockFree
<1>5. Sleepers'
  BY DEF Types, Ends, Mutex, Sleepers, Locking, LockFree, Reading, Writing, Full, MustWait
<1>6. Fits'
  BY <1>b, Constants DEF Fits
<1>7. Unsent'
  BY DEF Types, Unsent, Writing
<1> QED
  BY <1>1, <1>2, <1>3, <1>4, <1>5, <1>6, <1>7

\* All bytes are written: every sleeping reader is woken.
LEMMA WriteDonePreserves ==
  ASSUME Inv, NEW p \in Proc, WriteDone(p)
  PROVE  Inv'
<1> USE DEF Inv, pipe, WriteDone, GoWake
<1>1. Types'
  BY DEF Types, Label
<1>2. Counts'
  BY DEF Counts, Holders
<1>3. Ends'
  BY DEF Types, Ends, Writing, Reading
<1>4. Mutex'
  BY DEF Types, Mutex, Locking, LockFree
<1>5. Sleepers'
  BY DEF Types, Ends, Mutex, Sleepers, Locking, LockFree, Reading, Writing, Full, MustWait
<1>6. Fits'
  BY DEF Fits, Used
<1>7. Unsent'
  BY DEF Types, Unsent, Writing
<1> QED
  BY <1>1, <1>2, <1>3, <1>4, <1>5, <1>6, <1>7

\* The writer gives up. While nobody is killed it does so only without a reader.
LEMMA WriteFailPreserves ==
  ASSUME Inv, NEW p \in Proc, WriteFail(p)
  PROVE  Inv'
<1> USE DEF Inv, pipe, WriteFail, Go
<1>1. Types'
  BY DEF Types, Label
<1>2. Counts'
  BY DEF Counts, Holders
<1>3. Ends'
  BY DEF Types, Ends, Writing, Reading
<1>4. Mutex'
  BY DEF Types, Mutex, Locking, LockFree
<1>5. Sleepers'
  BY DEF Types, Ends, Mutex, Sleepers, Locking, LockFree, Reading, Writing, Full, MustWait
<1>6. Fits'
  BY DEF Fits, Used
<1>7. Unsent'
  BY DEF Types, Unsent, Writing
<1> QED
  BY <1>1, <1>2, <1>3, <1>4, <1>5, <1>6, <1>7

\* The pipe is full and every sleeping reader is woken before the writer sleeps.
LEMMA WriteFullPreserves ==
  ASSUME Inv, NEW p \in Proc, WriteFull(p)
  PROVE  Inv'
<1> USE DEF Inv, pipe, WriteFull, GoWake
<1>1. Types'
  BY DEF Types, Label
<1>2. Counts'
  BY DEF Counts, Holders
<1>3. Ends'
  BY DEF Types, Ends, Writing, Reading
<1>4. Mutex'
  BY DEF Types, Mutex, Locking, LockFree
<1>5. Sleepers'
  BY DEF Types, Ends, Mutex, Sleepers, Locking, LockFree, Reading, Writing, Full, MustWait
<1>6. Fits'
  BY DEF Fits, Used
<1>7. Unsent'
  BY DEF Types, Unsent, Writing
<1> QED
  BY <1>1, <1>2, <1>3, <1>4, <1>5, <1>6, <1>7

\* The writer sleeps on what it tested under the lock.
LEMMA WriteSleepPreserves ==
  ASSUME Inv, NEW p \in Proc, WriteSleep(p)
  PROVE  Inv'
<1> USE DEF Inv, pipe, WriteSleep, Go
<1>1. Types'
  BY DEF Types, Label
<1>2. Counts'
  BY DEF Counts, Holders
<1>3. Ends'
  BY DEF Types, Ends, Writing, Reading
<1>4. Mutex'
  BY DEF Types, Mutex, Locking, LockFree
<1>5. Sleepers'
  BY DEF Types, Ends, Mutex, Sleepers, Locking, LockFree, Reading, Writing, Full, MustWait
<1>6. Fits'
  BY DEF Fits, Used
<1>7. Unsent'
  BY DEF Types, Unsent, Writing
<1> QED
  BY <1>1, <1>2, <1>3, <1>4, <1>5, <1>6, <1>7

\* read is called with a descriptor.
LEMMA SysReadPreserves ==
  ASSUME Inv, NEW p \in Proc, NEW n \in Reads, SysRead(p, n)
  PROVE  Inv'
<1> USE DEF Inv, pipe, SysRead, Go
<1>1. Types'
  BY PipeAssumption DEF Types, Label
<1>2. Counts'
  BY DEF Counts, Holders
<1>3. Ends'
  BY DEF Types, Ends, Writing, Reading
<1>4. Mutex'
  BY DEF Types, Mutex, Locking, LockFree
<1>5. Sleepers'
  BY DEF Types, Ends, Mutex, Sleepers, Locking, LockFree, Reading, Writing, Full, MustWait
<1>6. Fits'
  BY DEF Fits, Used
<1>7. Unsent'
  BY DEF Types, Unsent, Writing
<1> QED
  BY <1>1, <1>2, <1>3, <1>4, <1>5, <1>6, <1>7

\* A reader takes p->lock.
LEMMA ReadLockPreserves ==
  ASSUME Inv, NEW p \in Proc, ReadLock(p)
  PROVE  Inv'
<1> USE DEF Inv, pipe, ReadLock, Go
<1>1. Types'
  BY DEF Types, Label
<1>2. Counts'
  BY DEF Counts, Holders
<1>3. Ends'
  BY DEF Types, Ends, Writing, Reading
<1>4. Mutex'
  BY DEF Types, Mutex, Locking, LockFree
<1>5. Sleepers'
  BY DEF Types, Ends, Mutex, Sleepers, Locking, LockFree, Reading, Writing, Full, MustWait
<1>6. Fits'
  BY DEF Fits, Used
<1>7. Unsent'
  BY DEF Types, Unsent, Writing
<1> QED
  BY <1>1, <1>2, <1>3, <1>4, <1>5, <1>6, <1>7

\* A killed reader returns.
LEMMA ReadKilledPreserves ==
  ASSUME Inv, NEW p \in Proc, ReadKilled(p)
  PROVE  Inv'
<1> USE DEF Inv, pipe, ReadKilled, Go
<1>1. Types'
  BY DEF Types, Label
<1>2. Counts'
  BY DEF Counts, Holders
<1>3. Ends'
  BY DEF Types, Ends, Writing, Reading
<1>4. Mutex'
  BY DEF Types, Mutex, Locking, LockFree
<1>5. Sleepers'
  BY DEF Types, Ends, Mutex, Sleepers, Locking, LockFree, Reading, Writing, Full, MustWait
<1>6. Fits'
  BY DEF Fits, Used
<1>7. Unsent'
  BY DEF Types, Unsent, Writing
<1> QED
  BY <1>1, <1>2, <1>3, <1>4, <1>5, <1>6, <1>7

\* The reader finds the pipe empty and open.
LEMMA ReadEmptyPreserves ==
  ASSUME Inv, NEW p \in Proc, ReadEmpty(p)
  PROVE  Inv'
<1> USE DEF Inv, pipe, ReadEmpty, Go
<1>1. Types'
  BY DEF Types, Label
<1>2. Counts'
  BY DEF Counts, Holders
<1>3. Ends'
  BY DEF Types, Ends, Writing, Reading
<1>4. Mutex'
  BY DEF Types, Mutex, Locking, LockFree
<1>5. Sleepers'
  BY DEF Types, Ends, Mutex, Sleepers, Locking, LockFree, Reading, Writing, Full, MustWait
<1>6. Fits'
  BY DEF Fits, Used
<1>7. Unsent'
  BY DEF Types, Unsent, Writing
<1> QED
  BY <1>1, <1>2, <1>3, <1>4, <1>5, <1>6, <1>7

\* The reader sleeps on what it tested under the lock.
LEMMA ReadSleepPreserves ==
  ASSUME Inv, NEW p \in Proc, ReadSleep(p)
  PROVE  Inv'
<1> USE DEF Inv, pipe, ReadSleep, Go
<1>1. Types'
  BY DEF Types, Label
<1>2. Counts'
  BY DEF Counts, Holders
<1>3. Ends'
  BY DEF Types, Ends, Writing, Reading
<1>4. Mutex'
  BY DEF Types, Mutex, Locking, LockFree
<1>5. Sleepers'
  BY DEF Types, Ends, Mutex, Sleepers, Locking, LockFree, Reading, Writing, Full, MustWait
<1>6. Fits'
  BY DEF Fits, Used
<1>7. Unsent'
  BY DEF Types, Unsent, Writing
<1> QED
  BY <1>1, <1>2, <1>3, <1>4, <1>5, <1>6, <1>7

\* The reader finds bytes, or no writer.
LEMMA ReadCopyPreserves ==
  ASSUME Inv, NEW p \in Proc, ReadCopy(p)
  PROVE  Inv'
<1> USE DEF Inv, pipe, ReadCopy, Go
<1>1. Types'
  BY DEF Types, Label
<1>2. Counts'
  BY DEF Counts, Holders
<1>3. Ends'
  BY DEF Types, Ends, Writing, Reading
<1>4. Mutex'
  BY DEF Types, Mutex, Locking, LockFree
<1>5. Sleepers'
  BY DEF Types, Ends, Mutex, Sleepers, Locking, LockFree, Reading, Writing, Full, MustWait
<1>6. Fits'
  BY DEF Fits, Used
<1>7. Unsent'
  BY DEF Types, Unsent, Writing
<1> QED
  BY <1>1, <1>2, <1>3, <1>4, <1>5, <1>6, <1>7

\* A byte is taken; a reader that copies will wake the writers.
LEMMA ReadBytePreserves ==
  ASSUME Inv, NEW p \in Proc, ReadByte(p)
  PROVE  Inv'
<1> USE DEF Inv, pipe, ReadByte
<1>a. /\ nread' \in Index(UINT) /\ data[Slot(nread)] \in Byte
      /\ Used' = Used - 1 /\ Used \in Nat
  BY GetByte, RingIs DEF Slot
<1>b. rbuf[p] \in Seq(Byte) /\ Append(rbuf[p], data[Slot(nread)]) \in Seq(Byte)
  BY <1>a DEF Types
<1>1. Types'
  BY <1>a, <1>b DEF Types, Label
<1>2. Counts'
  BY DEF Counts, Holders
<1>3. Ends'
  BY DEF Types, Ends, Writing, Reading
<1>4. Mutex'
  BY DEF Types, Mutex, Locking, LockFree
<1>5. Sleepers'
  BY DEF Types, Ends, Mutex, Sleepers, Locking, LockFree, Reading, Writing, Full, MustWait
<1>6. Fits'
  BY <1>a, Constants DEF Fits
<1>7. Unsent'
  BY DEF Types, Unsent, Writing
<1> QED
  BY <1>1, <1>2, <1>3, <1>4, <1>5, <1>6, <1>7

\* The reader is done: every sleeping writer is woken.
LEMMA ReadDonePreserves ==
  ASSUME Inv, NEW p \in Proc, ReadDone(p)
  PROVE  Inv'
<1> USE DEF Inv, pipe, ReadDone, GoWake
<1>1. Types'
  BY DEF Types, Label
<1>2. Counts'
  BY DEF Counts, Holders
<1>3. Ends'
  BY DEF Types, Ends, Writing, Reading
<1>4. Mutex'
  BY DEF Types, Mutex, Locking, LockFree
<1>5. Sleepers'
  BY DEF Types, Ends, Mutex, Sleepers, Locking, LockFree, Reading, Writing, Full, MustWait
<1>6. Fits'
  BY DEF Fits, Used
<1>7. Unsent'
  BY DEF Types, Unsent, Writing
<1> QED
  BY <1>1, <1>2, <1>3, <1>4, <1>5, <1>6, <1>7

\* A descriptor is closed. The one who finds no other goes to pipeclose.
LEMMA FileClosePreserves ==
  ASSUME Inv, NEW p \in Proc, NEW e \in End, FileClose(p, e)
  PROVE  Inv'
<1> USE DEF Inv, pipe, FileClose, Go, CloseLabel
<1>a. /\ p \in Holders(e) /\ IsFiniteSet(Holders(e)) /\ ref[e] = Cardinality(Holders(e))
      /\ ref[e] \in Nat
  <2>1. Holders(e) \subseteq Proc /\ p \in Holders(e)
    BY DEF Holders
  <2>2. IsFiniteSet(Holders(e)) /\ Cardinality(Holders(e)) \in Nat
    BY <2>1, PipeAssumption, FS_Subset, FS_CardinalityType
  <2> QED
    BY <2>1, <2>2 DEF Counts
<1>b. IF ref[e] > 1 THEN \E q \in Proc : q # p /\ e \in fds[q]
                    ELSE \A q \in Proc : e \in fds[q] => q = p
  <2>1. Cardinality({p}) = 1 /\ (Cardinality(Holders(e)) = 1 => \E x : Holders(e) = {x})
    BY <1>a, FS_Singleton
  <2>2. Cardinality(Holders(e)) # 0
    BY <1>a, FS_EmptySet
  <2>3. CASE ref[e] > 1
    <3>1. ASSUME Holders(e) = {p} PROVE FALSE
      <4>1. Cardinality(Holders(e)) = 1
        BY <2>1, <3>1, Zenon
      <4> QED
        BY <1>a, <2>3, <4>1
    <3> QED
      BY <1>a, <2>3, <3>1 DEF Holders
  <2>4. CASE ~(ref[e] > 1)
    <3>1. Holders(e) = {p}
      BY <1>a, <2>1, <2>2, <2>4
    <3> QED
      BY <2>4, <3>1 DEF Holders
  <2> QED
    BY <2>3, <2>4
<1>1. Types'
  BY DEF Types, Label
<1>2. Counts'
  <2>1. ASSUME NEW x \in End, x # e PROVE Holders(x)' = Holders(x)
    BY <2>1 DEF Holders, Types
  <2>2. Holders(e)' = Holders(e) \ {p}
    BY DEF Holders, Types
  <2>3. Cardinality(Holders(e) \ {p}) = Cardinality(Holders(e)) - 1
    BY <1>a, FS_RemoveElement
  <2>4. ASSUME NEW x \in End PROVE ref'[x] = Cardinality(Holders(x)')
    BY <2>1, <2>2, <2>3 DEF Counts
  <2>5. ref' = [x \in End |-> ref'[x]]
    BY DEF Counts
  <2> QED
    BY <2>4, <2>5 DEF Counts
<1>c. /\ e \in {"read", "write"} /\ e \in fds[p] /\ pc[p] = "user"
      /\ pc'[p] = IF ref[e] > 1 THEN "user" ELSE CloseLabel(e)
      /\ \A q \in Proc : q # p => pc'[q] = pc[q] /\ fds'[q] = fds[q]
      /\ fds'[p] = fds[p] \ {e}
      /\ (readopen' <=> readopen) /\ (writeopen' <=> writeopen) /\ (freed' <=> freed)
  BY DEF Types, End
<1>d. /\ pc'[p] = "closewrite" => e = "write" /\ \A q \in Proc : e \notin fds'[q]
      /\ pc'[p] = "closeread" => e = "read" /\ \A q \in Proc : e \notin fds'[q]
      /\ pc'[p] \in {"user", "closewrite", "closeread"}
  <2> HIDE DEF Inv, FileClose, Go
  <2> QED
    BY <1>b, <1>c
<1>3. Ends'
  <2>1. Ends
    OBVIOUS
  <2> HIDE DEF Inv, FileClose, Go, CloseLabel
  <2>2. \A q \in Proc : pc'[q] \in Writing => "write" \in fds'[q]
    BY <1>c, <1>d, <2>1 DEF Ends, Writing
  <2>8. \A q \in Proc : pc'[q] \in Reading => "read" \in fds'[q]
    BY <1>c, <1>d, <2>1 DEF Ends, Reading
  <2>3. \A q, r \in Proc : pc'[q] = "closewrite" =>
          "write" \notin fds'[r] /\ (pc'[r] = "closewrite" => r = q)
    <3>1. ASSUME NEW q \in Proc, pc[q] = "closewrite"
          PROVE  e # "write" /\ pc'[p] # "closewrite"
      BY <1>c, <1>d, <2>1, <3>1 DEF Ends
    <3> QED
      BY <1>c, <1>d, <2>1, <3>1 DEF Ends
  <2>4. \A q, r \in Proc : pc'[q] = "closeread" =>
          "read" \notin fds'[r] /\ (pc'[r] = "closeread" => r = q)
    <3>1. ASSUME NEW q \in Proc, pc[q] = "closeread"
          PROVE  e # "read" /\ pc'[p] # "closeread"
      BY <1>c, <1>d, <2>1, <3>1 DEF Ends
    <3> QED
      BY <1>c, <1>d, <2>1, <3>1 DEF Ends
  <2>5. writeopen' <=> \E q \in Proc : "write" \in fds'[q] \/ pc'[q] = "closewrite"
    <3>1. CASE e = "write"
      <4>1. writeopen'
        BY <1>c, <2>1, <3>1 DEF Ends
      <4>2. \E q \in Proc : "write" \in fds'[q] \/ pc'[q] = "closewrite"
        <5>1. CASE ref[e] > 1
          <6>1. PICK q \in Proc : q # p /\ e \in fds[q]
            BY <1>b, <5>1
          <6> QED
            BY <1>c, <3>1, <6>1
        <5>2. CASE ~(ref[e] > 1)
          BY <1>c, <3>1, <5>2 DEF CloseLabel
        <5> QED
          BY <5>1, <5>2
      <4> QED
        BY <4>1, <4>2
    <3>2. CASE e # "write"
      <4>1. ASSUME NEW q \in Proc
            PROVE  ("write" \in fds'[q] \/ pc'[q] = "closewrite")
                     <=> ("write" \in fds[q] \/ pc[q] = "closewrite")
        BY <1>c, <1>d, <3>2
      <4>2. (\E q \in Proc : "write" \in fds'[q] \/ pc'[q] = "closewrite")
              <=> (\E q \in Proc : "write" \in fds[q] \/ pc[q] = "closewrite")
        BY ONLY <4>1
      <4>3. writeopen <=> \E q \in Proc : "write" \in fds[q] \/ pc[q] = "closewrite"
        BY <2>1 DEF Ends
      <4>4. writeopen' <=> writeopen
        BY <1>c
      <4> QED
        BY ONLY <4>2, <4>3, <4>4
    <3> QED
      BY <3>1, <3>2
  <2>6. readopen' <=> \E q \in Proc : "read" \in fds'[q] \/ pc'[q] = "closeread"
    <3>1. CASE e = "read"
      <4>1. readopen'
        BY <1>c, <2>1, <3>1 DEF Ends
      <4>2. \E q \in Proc : "read" \in fds'[q] \/ pc'[q] = "closeread"
        <5>1. CASE ref[e] > 1
          <6>1. PICK q \in Proc : q # p /\ e \in fds[q]
            BY <1>b, <5>1
          <6> QED
            BY <1>c, <3>1, <6>1
        <5>2. CASE ~(ref[e] > 1)
          BY <1>c, <3>1, <5>2 DEF CloseLabel
        <5> QED
          BY <5>1, <5>2
      <4> QED
        BY <4>1, <4>2
    <3>2. CASE e # "read"
      <4>1. ASSUME NEW q \in Proc
            PROVE  ("read" \in fds'[q] \/ pc'[q] = "closeread")
                     <=> ("read" \in fds[q] \/ pc[q] = "closeread")
        BY <1>c, <1>d, <3>2
      <4>2. (\E q \in Proc : "read" \in fds'[q] \/ pc'[q] = "closeread")
              <=> (\E q \in Proc : "read" \in fds[q] \/ pc[q] = "closeread")
        BY ONLY <4>1
      <4>3. readopen <=> \E q \in Proc : "read" \in fds[q] \/ pc[q] = "closeread"
        BY <2>1 DEF Ends
      <4>4. readopen' <=> readopen
        BY <1>c
      <4> QED
        BY ONLY <4>2, <4>3, <4>4
    <3> QED
      BY <3>1, <3>2
  <2>7. freed' <=> ~readopen' /\ ~writeopen'
    <3>1. freed <=> ~readopen /\ ~writeopen
      BY <2>1 DEF Ends
    <3> QED
      BY <1>c, <3>1
  <2> QED
    BY <2>2, <2>3, <2>4, <2>5, <2>6, <2>7, <2>8, Zenon DEF Ends
<1>4. Mutex'
  BY DEF Types, Mutex, Locking, LockFree
<1>5. Sleepers'
  BY DEF Types, Ends, Mutex, Sleepers, Locking, LockFree, Reading, Writing, Full, MustWait
<1>6. Fits'
  BY DEF Fits, Used
<1>7. Unsent'
  BY DEF Types, Unsent, Writing
<1> QED
  BY <1>1, <1>2, <1>3, <1>4, <1>5, <1>6, <1>7

\* No more data: nobody has the end, so nobody else is on the way here.
LEMMA PipeCloseWritePreserves ==
  ASSUME Inv, NEW p \in Proc, PipeCloseWrite(p)
  PROVE  Inv'
<1> USE DEF Inv, pipe, PipeCloseWrite, GoWake, BothClosed
<1>1. Types'
  BY DEF Types, Label
<1>2. Counts'
  BY DEF Counts, Holders
<1>3. Ends'
  BY DEF Types, Ends, Writing, Reading
<1>4. Mutex'
  BY DEF Types, Mutex, Locking, LockFree
<1>5. Sleepers'
  BY DEF Types, Ends, Mutex, Sleepers, Locking, LockFree, Reading, Writing, Full, MustWait
<1>6. Fits'
  BY DEF Fits, Used
<1>7. Unsent'
  BY DEF Types, Unsent, Writing
<1> QED
  BY <1>1, <1>2, <1>3, <1>4, <1>5, <1>6, <1>7

\* No more readers.
LEMMA PipeCloseReadPreserves ==
  ASSUME Inv, NEW p \in Proc, PipeCloseRead(p)
  PROVE  Inv'
<1> USE DEF Inv, pipe, PipeCloseRead, GoWake, BothClosed
<1>1. Types'
  BY DEF Types, Label
<1>2. Counts'
  BY DEF Counts, Holders
<1>3. Ends'
  BY DEF Types, Ends, Writing, Reading
<1>4. Mutex'
  BY DEF Types, Mutex, Locking, LockFree
<1>5. Sleepers'
  BY DEF Types, Ends, Mutex, Sleepers, Locking, LockFree, Reading, Writing, Full, MustWait
<1>6. Fits'
  BY DEF Fits, Used
<1>7. Unsent'
  BY DEF Types, Unsent, Writing
<1> QED
  BY <1>1, <1>2, <1>3, <1>4, <1>5, <1>6, <1>7

\* A child shares the ends of its parent, so none is reopened.
LEMMA ForkPreserves ==
  ASSUME Inv, NEW p \in Proc, NEW q \in Proc, Fork(p, q)
  PROVE  Inv'
<1> USE DEF Inv, pipe, Fork
<1>1. Types'
  BY DEF Types, Label
<1>2. Counts'
  <2>1. ASSUME NEW x \in End PROVE ref'[x] = Cardinality(Holders(x)')
    <3>1. Holders(x) \subseteq Proc /\ q \notin Holders(x) /\ ref[x] = Cardinality(Holders(x))
      BY DEF Holders, Counts
    <3>2. Holders(x)' = IF x \in fds[p] THEN Holders(x) \cup {q} ELSE Holders(x)
      BY DEF Holders, Types
    <3>3. IsFiniteSet(Holders(x))
      BY <3>1, PipeAssumption, FS_Subset
    <3>4. Cardinality(Holders(x) \cup {q}) = Cardinality(Holders(x)) + 1 /\ Cardinality(Holders(x)) \in Nat
      BY <3>1, <3>3, FS_AddElement, FS_CardinalityType
    <3> QED
      BY <3>1, <3>2, <3>4
  <2>2. ref' = [x \in End |-> ref'[x]]
    OBVIOUS
  <2> QED
    BY <2>1, <2>2 DEF Counts
<1>3. Ends'
  BY DEF Types, Ends, Writing, Reading
<1>4. Mutex'
  BY DEF Types, Mutex, Locking, LockFree
<1>5. Sleepers'
  BY DEF Types, Ends, Mutex, Sleepers, Locking, LockFree, Reading, Writing, Full, MustWait
<1>6. Fits'
  BY DEF Fits, Used
<1>7. Unsent'
  BY DEF Types, Unsent, Writing
<1> QED
  BY <1>1, <1>2, <1>3, <1>4, <1>5, <1>6, <1>7

\* kill wakes one sleeper.
LEMMA KillPreserves ==
  ASSUME Inv, NEW p \in Proc, Kill(p)
  PROVE  Inv'
<1> USE DEF Inv, pipe, Kill
<1>1. Types'
  BY DEF Types, Label
<1>2. Counts'
  BY DEF Counts, Holders
<1>3. Ends'
  BY DEF Types, Ends, Writing, Reading
<1>4. Mutex'
  BY DEF Types, Mutex, Locking, LockFree
<1>5. Sleepers'
  BY DEF Types, Ends, Mutex, Sleepers, Locking, LockFree, Reading, Writing, Full, MustWait
<1>6. Fits'
  BY DEF Fits, Used
<1>7. Unsent'
  BY DEF Types, Unsent, Writing
<1> QED
  BY <1>1, <1>2, <1>3, <1>4, <1>5, <1>6, <1>7

\* pipealloc leaves a state that satisfies the invariant.
LEMMA InitEstablishes == Init => Inv
<1> SUFFICES ASSUME Init PROVE Inv
  OBVIOUS
<1> USE Constants DEF Init
<1>1. PICK p \in Proc : fds = [q \in Proc |-> IF q = p THEN End ELSE {}]
  OBVIOUS
<1>2. Types
  <2>1. data \in Buffers(PIPESIZE, Byte) /\ nread \in Index(UINT) /\ nwrite \in Index(UINT)
    BY DEF Buffers, Index, Pos
  <2>2. wbuf \in [Proc -> Seq(Byte)] /\ rbuf \in [Proc -> Seq(Byte)]
    BY EmptySeq
  <2> QED
    BY <1>1, <2>1, <2>2 DEF Types, Label
<1>3. Counts
  <2>1. ASSUME NEW e \in End PROVE Holders(e) = {p}
    BY <1>1 DEF Holders
  <2> QED
    BY <2>1, FS_Singleton DEF Counts
<1>4. Ends /\ Mutex /\ Sleepers /\ Unsent
  BY <1>1 DEF Ends, Mutex, Sleepers, Unsent, Writing, Reading, Locking, End
<1>5. Fits
  BY <1>2, RingIs DEF Fits
<1> QED
  BY <1>2, <1>3, <1>4, <1>5 DEF Inv

\* The invariant is inductive.
LEMMA NextPreserves == Inv /\ [Next]_vars => Inv'
<1> SUFFICES ASSUME Inv, [Next]_vars PROVE Inv'
  OBVIOUS
<1>1. ASSUME NEW p \in Proc, Step(p) PROVE Inv'
  BY <1>1, WriteLockPreserves, WriteBytePreserves, WriteDonePreserves, WriteFailPreserves,
     WriteFullPreserves, WriteSleepPreserves, ReadLockPreserves, ReadKilledPreserves,
     ReadEmptyPreserves, ReadSleepPreserves, ReadCopyPreserves, ReadBytePreserves,
     ReadDonePreserves, PipeCloseWritePreserves, PipeCloseReadPreserves DEF Step
<1>2. ASSUME NEW p \in Proc, ExitClose(p) \/ Program(p) \/ Kill(p) PROVE Inv'
  BY <1>2, FileClosePreserves, SysWritePreserves, SysReadPreserves, ForkPreserves,
     KillPreserves DEF ExitClose, Program
<1>3. CASE UNCHANGED vars
  BY <1>3 DEF vars, pipe, Inv, Types, Counts, Holders, Ends, Mutex, Sleepers, Full, MustWait,
     Fits, Used, Unsent
<1> QED
  BY <1>1, <1>2, <1>3 DEF Next

-----------------------------------------------------------------------------
(* The theorems *)

\* The inductive invariant holds at all times.
THEOREM InvariantHolds == Spec => []Inv
  BY InitEstablishes, NextPreserves, PTL DEF Spec

\* The page is given to kfree exactly when the last descriptor is closed and the
\* last pipeclose is done: no use after free, and no leak.
THEOREM FreedExactlyHolds == Spec => []FreedExactly
<1>1. ASSUME Inv PROVE FreedExactly
  <2> USE <1>1 DEF Inv
  <2>1. TypeOK
    BY DEF TypeOK, Types, Counts, Holders, Fits, Buffers, Index
  <2>2. freed <=> \A p \in Proc : fds[p] = {} /\ pc[p] = "user"
    <3>1. ASSUME freed, NEW p \in Proc PROVE fds[p] = {} /\ pc[p] = "user"
      <4>1. "read" \notin fds[p] /\ "write" \notin fds[p] /\ pc[p] \notin {"closeread", "closewrite"}
        BY <3>1 DEF Ends
      <4>2. pc[p] \notin Writing /\ pc[p] \notin Reading
        BY <4>1 DEF Ends
      <4>3. fds[p] \subseteq End /\ pc[p] \in Label
        BY DEF Types
      <4> QED
        BY <4>1, <4>2, <4>3 DEF End, Label, Writing, Reading
    <3>2. ASSUME \A p \in Proc : fds[p] = {} /\ pc[p] = "user" PROVE freed
      BY <3>2 DEF Ends
    <3> QED
      BY <3>1, <3>2
  <2> QED
    BY <2>1, <2>2 DEF FreedExactly
<1> QED
  BY <1>1, InvariantHolds, PTL

\* Whoever sleeps when the lock is free has something to wait for.
THEOREM NoSleepOnReadyHolds == Spec => []NoSleepOnReady
<1>1. ASSUME Inv PROVE NoSleepOnReady
  <2> USE <1>1 DEF Inv
  <2>1. ASSUME LockFree, NEW p \in Proc, pc[p] = "wasleep" PROVE Full /\ readopen
    <3>1. \A q \in Proc : pc[q] # "rcopy"
      BY <2>1 DEF LockFree, Locking
    <3> QED
      BY <2>1, <3>1 DEF Sleepers
  <2>2. ASSUME LockFree, NEW p \in Proc, pc[p] = "rasleep", \A q \in Proc : ~killed[q]
        PROVE  MustWait
    <3>1. \A q \in Proc : pc[q] # "wloop"
      BY <2>2 DEF LockFree, Locking
    <3> QED
      BY <2>2, <3>1 DEF Sleepers
  <2> QED
    BY <2>1, <2>2 DEF NoSleepOnReady
<1> QED
  BY <1>1, InvariantHolds, PTL

\* A step of the pipe is a step of the queue.
LEMMA NextRefines == Inv /\ [Next]_vars => [fifo!Next]_fifo!vars
<1> SUFFICES ASSUME Inv, [Next]_vars PROVE [fifo!Next]_fifo!vars
  OBVIOUS
<1> USE DEF Inv, fifo!vars
<1>a. UNCHANGED <<pipe, wbuf, rbuf>> => UNCHANGED fifo!vars
  BY DEF pipe, Queue, Used
<1>b. UNCHANGED pipe => Queue' = Queue
  BY DEF pipe, Queue, Used
<1>1. ASSUME NEW p \in Proc, WriteByte(p) PROVE fifo!Put(p)
  <2>1. Head(wbuf[p]) \in Byte
    BY <1>1 DEF WriteByte, Types
  <2>2. Queue' = Append(Queue, Head(wbuf[p])) /\ Len(Queue) < PIPESIZE
    BY <1>1, <2>1, PutByte, RingIs DEF WriteByte
  <2> QED
    BY <1>1, <2>2 DEF WriteByte, fifo!Put
<1>2. ASSUME NEW p \in Proc, ReadByte(p) PROVE fifo!Get(p)
  <2>1. Queue # << >> /\ data[Slot(nread)] = Head(Queue) /\ Queue' = Tail(Queue)
    BY <1>2, GetByte DEF ReadByte, Slot
  <2> QED
    BY <1>2, <2>1 DEF ReadByte, fifo!Get
<1>3. ASSUME NEW p \in Proc, NEW s \in Writes, SysWrite(p, s) PROVE fifo!Offer(p)
  <2>1. wbuf[p] = << >> /\ wbuf'[p] = s /\ s \in Seq(Byte) /\ wbuf' = [wbuf EXCEPT ![p] = s]
    BY <1>3, PipeAssumption DEF SysWrite, Go, Types, Unsent, Writing
  <2> QED
    BY <1>3, <1>b, <2>1 DEF SysWrite, fifo!Offer
<1>4. ASSUME NEW p \in Proc, WriteFail(p) PROVE fifo!GiveUp(p)
  BY <1>4, <1>b DEF WriteFail, fifo!GiveUp
<1>5. ASSUME NEW p \in Proc, ReadDone(p) PROVE fifo!Return(p)
  BY <1>5, <1>b DEF ReadDone, fifo!Return
<1>6. ASSUME NEW p \in Proc,
             \/ WriteLock(p) \/ WriteDone(p) \/ WriteFull(p) \/ WriteSleep(p)
             \/ ReadLock(p) \/ ReadKilled(p) \/ ReadEmpty(p) \/ ReadSleep(p) \/ ReadCopy(p)
      PROVE  UNCHANGED <<pipe, wbuf, rbuf>>
  BY <1>6 DEF WriteLock, WriteDone, WriteFull, WriteSleep, ReadLock, ReadKilled, ReadEmpty,
     ReadSleep, ReadCopy
<1>7. ASSUME NEW p \in Proc, PipeCloseWrite(p) \/ PipeCloseRead(p) PROVE UNCHANGED fifo!vars
  BY <1>7 DEF PipeCloseWrite, PipeCloseRead, Queue, Used
<1>8. ASSUME NEW p \in Proc,
             \/ \E n \in Reads : SysRead(p, n)
             \/ \E e \in End : FileClose(p, e)
             \/ \E q \in Proc : Fork(p, q)
             \/ Kill(p)
      PROVE  UNCHANGED <<pipe, wbuf, rbuf>>
  BY <1>8 DEF SysRead, FileClose, Fork, Kill
<1>9. UNCHANGED vars => UNCHANGED fifo!vars
  BY <1>a DEF vars
<1> QED
  BY <1>a, <1>1, <1>2, <1>3, <1>4, <1>5, <1>6, <1>7, <1>8, <1>9
     DEF Next, Step, ExitClose, Program, fifo!Next

\* The ring is a bounded FIFO queue: no byte is lost, duplicated or reordered by
\* readers and writers that sleep, wrap around, give up or are killed.
THEOREM RefinesFifoHolds == Spec => RefinesFifo
<1>1. Init => fifo!Init
  <2> SUFFICES ASSUME Init PROVE fifo!Init
    OBVIOUS
  <2>1. Types /\ nread = nwrite
    BY InitEstablishes DEF Inv, Init
  <2>2. Queue \in Seq(Byte) /\ Len(Queue) = 0
    BY <2>1, RingIs
  <2>3. Queue = << >>
    BY <2>2, EmptySeq
  <2> QED
    BY <2>3 DEF Init, fifo!Init
<1> QED
  BY <1>1, NextRefines, InvariantHolds, PTL DEF Spec, RefinesFifo, fifo!Spec
=============================================================================
