---------------------------- MODULE ConsoleProofs ----------------------------
(***************************************************************************)
(* The console for any number of processes and any size of the ring: the   *)
(* lock is safe from the interrupt handler, readers are woken, and the     *)
(* ring is an editor of lines.                                             *)
(***************************************************************************)
EXTENDS Console, Integers, SequenceTheorems, TLAPS

(* Rings: remainders, and what is between two indices *)

\* The sizes of rings, and what their indices are counted modulo.
Pos == Nat \ {0}

\* Quotient and remainder.
LEMMA DivMod ==
  ASSUME NEW a \in Nat, NEW m \in Pos
  PROVE  a % m \in 0..(m - 1) /\ a \div m \in Nat /\ a = (m * (a \div m)) + (a % m)
  BY DEF Pos

\* The remainder of what is written as a multiple and a remainder.
LEMMA ModUnique ==
  ASSUME NEW q \in Nat, NEW m \in Pos, NEW x \in 0..(m - 1)
  PROVE  ((m * q) + x) % m = x
  BY DEF Pos

\* A number below the modulus is its own remainder; once around, it is less by it.
LEMMA ModWrap ==
  ASSUME NEW m \in Pos, NEW x \in Nat
  PROVE  /\ x < m => x % m = x
         /\ x >= m /\ x < 2 * m => x % m = x - m
  BY DEF Pos

\* A multiple of the modulus changes no remainder.
LEMMA ModMultiple ==
  ASSUME NEW a \in Nat, NEW q \in Nat, NEW m \in Pos
  PROVE  ((m * q) + a) % m = a % m
<1> DEFINE t == a \div m
           x == a % m
<1>1. x \in 0..(m - 1) /\ t \in Nat /\ a = (m * t) + x
  BY DivMod
<1> HIDE DEF t
<1>2. q + t \in Nat /\ (m * q) + ((m * t) + x) = (m * (q + t)) + x
  BY <1>1 DEF Pos
<1>3. ((m * (q + t)) + x) % m = x
  <2> HIDE DEF x
  <2> QED
    BY <1>1, <1>2, ModUnique
<1> QED
  BY <1>1, <1>2, <1>3

\* A remainder of a sum can be taken of a remainder.
LEMMA ModAdd ==
  ASSUME NEW a \in Nat, NEW b \in Nat, NEW m \in Pos
  PROVE  ((a % m) + b) % m = (a + b) % m
<1> DEFINE t == a \div m
           x == a % m
<1>1. x \in 0..(m - 1) /\ t \in Nat /\ a = (m * t) + x
  BY DivMod
<1> HIDE DEF t, x
<1>2. x + b \in Nat /\ a + b = (m * t) + (x + b)
  BY <1>1 DEF Pos
<1>3. ((m * t) + (x + b)) % m = (x + b) % m
  BY <1>1, <1>2, ModMultiple
<1> QED
  BY <1>2, <1>3 DEF x

\* Indices that wrap around at a multiple of the size of a ring index it as if
\* they did not.
LEMMA ModModAdd ==
  ASSUME NEW a \in Nat, NEW b \in Nat, NEW m \in Pos, NEW d \in Pos, m % d = 0
  PROVE  ((a % m) + b) % d = (a + b) % d
<1> DEFINE t == a \div m
           x == a % m
           u == m \div d
<1>1. x \in 0..(m - 1) /\ t \in Nat /\ a = (m * t) + x
  BY DivMod
<1>2. u \in Nat /\ m = d * u
  <2>1. u \in Nat /\ m = (d * u) + (m % d)
    BY DivMod DEF Pos
  <2> QED
    BY <2>1 DEF Pos
<1> HIDE DEF t, x, u
<1>3. u * t \in Nat /\ x + b \in Nat /\ a + b = (d * (u * t)) + (x + b)
  BY <1>1, <1>2
<1>4. ((d * (u * t)) + (x + b)) % d = (x + b) % d
  BY <1>3, ModMultiple
<1> QED
  BY <1>3, <1>4 DEF x

\* Two places less than a round apart are the same only if they are no distance
\* apart.
LEMMA ModSame ==
  ASSUME NEW a \in Nat, NEW m \in Pos, NEW x \in 0..(m - 1), NEW y \in 0..(m - 1),
         (a + x) % m = (a + y) % m
  PROVE  x = y
<1> DEFINE t == a % m
<1>1. t \in 0..(m - 1) /\ t \in Nat
  BY DivMod
<1>2. (t + x) % m = (t + y) % m
  <2>1. x \in Nat /\ y \in Nat
    OBVIOUS
  <2>2. (t + x) % m = (a + x) % m /\ (t + y) % m = (a + y) % m
    BY <2>1, ModAdd
  <2> QED
    BY <2>2
<1> HIDE DEF t
<1>3. ASSUME NEW z \in 0..(m - 1)
      PROVE  /\ t + z < m => (t + z) % m = t + z
             /\ t + z >= m => (t + z) % m = t + z - m
  <2>1. t + z \in Nat /\ t + z < 2 * m
    BY <1>1 DEF Pos
  <2> QED
    BY <1>1, <2>1 DEF Pos
<1>4. /\ t + x < m => (t + x) % m = t + x
      /\ t + x >= m => (t + x) % m = t + x - m
      /\ t + y < m => (t + y) % m = t + y
      /\ t + y >= m => (t + y) % m = t + y - m
  BY <1>3
<1> QED
  BY <1>1, <1>2, <1>4 DEF Pos

\* How far index b is ahead of index a, when indices are counted modulo m.
Dist(m, a, b) == (b + m - a) % m

Index(m) == 0..(m - 1)

Buffers(d, S) == [Index(d) -> S]

Store(ring, i, c) == [ring EXCEPT ![i] = c]

\* The contents of ring, of size d, between indices a and b.
Contents(m, d, ring, a, b) == [k \in 1..Dist(m, a, b) |-> ring[(a + k - 1) % d]]

\* The distance is that of a circle.
LEMMA DistCases ==
  ASSUME NEW m \in Pos, NEW a \in Index(m), NEW b \in Index(m)
  PROVE  /\ a <= b => Dist(m, a, b) = b - a
         /\ b < a => Dist(m, a, b) = b + m - a
         /\ Dist(m, a, b) \in Index(m)
<1>1. b + m - a \in Nat /\ b + m - a < 2 * m
  BY DEF Index, Pos
<1>2. b + m - a < m => (b + m - a) % m = b + m - a
  BY <1>1, ModWrap
<1>3. b + m - a >= m => (b + m - a) % m = b - a
  BY <1>1 DEF Index, Pos
<1> QED
  BY <1>1, <1>2, <1>3 DEF Dist, Index, Pos

\* An index that is k ahead.
LEMMA DistAhead ==
  ASSUME NEW m \in Pos, NEW a \in Index(m), NEW k \in Index(m)
  PROVE  (a + k) % m \in Index(m) /\ Dist(m, a, (a + k) % m) = k
<1>1. a + k \in Nat /\ a + k < 2 * m
  BY DEF Index, Pos
<1>2. /\ a + k < m => (a + k) % m = a + k
      /\ a + k >= m => (a + k) % m = a + k - m
  BY <1>1 DEF Index, Pos
<1> DEFINE b == (a + k) % m
<1>3. b \in Index(m)
  BY <1>1, <1>2 DEF Index, Pos
<1>4. /\ a <= b => Dist(m, a, b) = b - a
      /\ b < a => Dist(m, a, b) = b + m - a
  <2> HIDE DEF b
  <2> QED
    BY <1>3, DistCases
<1> QED
  BY <1>1, <1>2, <1>3, <1>4 DEF Index, Pos

\* An index is where its distance puts it.
LEMMA DistReach ==
  ASSUME NEW m \in Pos, NEW a \in Index(m), NEW b \in Index(m)
  PROVE  (a + Dist(m, a, b)) % m = b
<1> DEFINE k == Dist(m, a, b)
<1>1. /\ a <= b => k = b - a
      /\ b < a => k = b + m - a
      /\ k \in Index(m)
  BY DistCases
<1> HIDE DEF k
<1>2. a + k \in Nat /\ a + k < 2 * m
  BY <1>1 DEF Index, Pos
<1>3. (a + k) % m = b
  BY <1>1, <1>2, ModWrap DEF Index, Pos
<1> QED
  BY <1>3 DEF k

\* An index is incremented and decremented.
LEMMA IndexStep ==
  ASSUME NEW m \in Pos, NEW a \in Index(m)
  PROVE  /\ a + 1 = m => (a + 1) % m = 0
         /\ a + 1 < m => (a + 1) % m = a + 1
         /\ a = 0 => (a + m - 1) % m = m - 1
         /\ a > 0 => (a + m - 1) % m = a - 1
         /\ (a + 1) % m \in Index(m)
         /\ (a + m - 1) % m \in Index(m)
<1>1. a + 1 = m => (a + 1) % m = 0
  BY DEF Index, Pos
<1>2. a + 1 < m => (a + 1) % m = a + 1
  BY DEF Index, Pos
<1>3. a = 0 => (a + m - 1) % m = m - 1
  BY DEF Index, Pos
<1>4. a > 0 => (a + m - 1) % m = a - 1
  BY DEF Index, Pos
<1> QED
  BY <1>1, <1>2, <1>3, <1>4 DEF Index, Pos

\* What the steps of the two indices do to their distance.
LEMMA DistStep ==
  ASSUME NEW m \in Pos, NEW a \in Index(m), NEW b \in Index(m)
  PROVE  /\ Dist(m, a, b) = 0 <=> a = b
         /\ Dist(m, a, b) + 1 < m => Dist(m, a, (b + 1) % m) = Dist(m, a, b) + 1
         /\ a # b => Dist(m, (a + 1) % m, b) = Dist(m, a, b) - 1
         /\ a # b => Dist(m, a, (b + m - 1) % m) = Dist(m, a, b) - 1
<1> DEFINE u == (a + 1) % m
           v == (b + 1) % m
           x == (b + m - 1) % m
<1>1. /\ u \in Index(m) /\ (a + 1 = m => u = 0) /\ (a + 1 < m => u = a + 1)
      /\ v \in Index(m) /\ (b + 1 = m => v = 0) /\ (b + 1 < m => v = b + 1)
      /\ x \in Index(m) /\ (b = 0 => x = m - 1) /\ (b > 0 => x = b - 1)
  BY IndexStep
<1>2. \A y, z \in Index(m) : /\ y <= z => Dist(m, y, z) = z - y
                             /\ z < y => Dist(m, y, z) = z + m - y
  BY DistCases
<1> HIDE DEF u, v, x
<1>3. Dist(m, a, b) + 1 < m => Dist(m, a, v) = Dist(m, a, b) + 1
  BY <1>1, <1>2 DEF Index, Pos
<1>4. a # b => Dist(m, u, b) = Dist(m, a, b) - 1
  BY <1>1, <1>2 DEF Index, Pos
<1>5. a # b => Dist(m, a, x) = Dist(m, a, b) - 1
  BY <1>1, <1>2 DEF Index, Pos
<1>6. Dist(m, a, b) = 0 <=> a = b
  BY <1>2 DEF Index, Pos
<1> QED
  BY <1>3, <1>4, <1>5, <1>6 DEF u, v, x

\* Two distances that make less than a round add up.
LEMMA DistSum ==
  ASSUME NEW m \in Pos, NEW a \in Index(m), NEW b \in Index(m), NEW c \in Index(m),
         Dist(m, a, b) + Dist(m, b, c) < m
  PROVE  Dist(m, a, c) = Dist(m, a, b) + Dist(m, b, c)
<1>1. \A x, y \in Index(m) : /\ x <= y => Dist(m, x, y) = y - x
                             /\ y < x => Dist(m, x, y) = y + m - x
  BY DistCases
<1> QED
  BY <1>1 DEF Index, Pos

\* The contents of a ring are a sequence.
LEMMA ContentsSeq ==
  ASSUME NEW m \in Pos, NEW d \in Pos, NEW S, NEW ring \in Buffers(d, S),
         NEW a \in Index(m), NEW b \in Index(m)
  PROVE  /\ Contents(m, d, ring, a, b) \in Seq(S)
         /\ Len(Contents(m, d, ring, a, b)) = Dist(m, a, b)
         /\ \A k \in 1..Dist(m, a, b) :
              Contents(m, d, ring, a, b)[k] = ring[(a + k - 1) % d]
<1> DEFINE D == Dist(m, a, b)
<1>1. D \in Nat
  BY DistCases DEF Index, Pos
<1>2. ASSUME NEW k \in 1..D PROVE ring[(a + k - 1) % d] \in S
  <2>1. a + k - 1 \in Nat
    BY <1>1 DEF Index, Pos
  <2>2. (a + k - 1) % d \in Index(d)
    BY <2>1, DivMod DEF Index, Pos
  <2> QED
    BY <2>2 DEF Buffers
<1> HIDE DEF D
<1>3. [k \in 1..D |-> ring[(a + k - 1) % d]] \in Seq(S)
  BY <1>1, <1>2
<1>4. Contents(m, d, ring, a, b) = [k \in 1..D |-> ring[(a + k - 1) % d]]
  BY DEF Contents, D
<1>5. Len([k \in 1..D |-> ring[(a + k - 1) % d]]) = D
  BY <1>1
<1> QED
  BY <1>3, <1>4, <1>5 DEF D

\* The place in the ring of what lies k behind index b, seen from index a.
LEMMA RingPlace ==
  ASSUME NEW m \in Pos, NEW d \in Pos, m % d = 0,
         NEW a \in Index(m), NEW b \in Index(m), NEW k \in Nat
  PROVE  (b + k) % d = (a + (Dist(m, a, b) + k)) % d
<1> DEFINE D == Dist(m, a, b)
<1>1. D \in Index(m) /\ (a + D) % m = b
  BY DistCases, DistReach
<1> HIDE DEF D
<1>2. a + D \in Nat /\ (a + D) + k = a + (D + k)
  BY <1>1 DEF Index, Pos
<1>3. (((a + D) % m) + k) % d = ((a + D) + k) % d
  <2> DEFINE x == a + D
  <2>1. x \in Nat
    BY <1>2
  <2> HIDE DEF x
  <2>2. ((x % m) + k) % d = (x + k) % d
    BY <2>1, ModModAdd
  <2> QED
    BY <2>2 DEF x
<1> QED
  BY <1>1, <1>2, <1>3 DEF D

\* A place that lies behind the contents, and less than a round from their start,
\* is not one of theirs.
LEMMA ContentsKeep ==
  ASSUME NEW m \in Pos, NEW d \in Pos, m % d = 0,
         NEW S, NEW ring \in Buffers(d, S), NEW c \in S,
         NEW a \in Index(m), NEW b \in Index(m), NEW x \in Index(m),
         Dist(m, a, b) <= Dist(m, a, x), Dist(m, a, x) < d
  PROVE  Contents(m, d, Store(ring, x % d, c), a, b) = Contents(m, d, ring, a, b)
<1> DEFINE D == Dist(m, a, b)
           X == Dist(m, a, x)
<1>1. D \in Nat /\ X \in Nat /\ D <= X /\ X < d
  BY DistCases DEF Index, Pos
<1>2. x % d = (a + X) % d
  BY RingPlace, <1>1 DEF Index, Pos
<1> HIDE DEF X
<1>3. ASSUME NEW k \in 1..D PROVE [ring EXCEPT ![x % d] = c][(a + k - 1) % d] = ring[(a + k - 1) % d]
  <2>1. k - 1 \in 0..(d - 1) /\ X \in 0..(d - 1) /\ k - 1 # X /\ a \in Nat
    BY <1>1 DEF Index, Pos
  <2>2. (a + (k - 1)) % d # (a + X) % d
    BY <2>1, ModSame
  <2>3. a + k - 1 = a + (k - 1) /\ a + k - 1 \in Nat
    BY <2>1
  <2>4. (a + k - 1) % d \in Index(d)
    BY <2>3, DivMod DEF Index, Pos
  <2> QED
    BY <1>2, <2>2, <2>3, <2>4
<1> QED
  BY <1>3 DEF Contents, Store

\* A character is put at the end.
LEMMA ContentsPut ==
  ASSUME NEW m \in Pos, NEW d \in Pos, m % d = 0, d < m,
         NEW S, NEW ring \in Buffers(d, S), NEW c \in S,
         NEW a \in Index(m), NEW b \in Index(m), Dist(m, a, b) < d
  PROVE  Contents(m, d, Store(ring, b % d, c), a, (b + 1) % m)
           = Append(Contents(m, d, ring, a, b), c)
<1> DEFINE D == Dist(m, a, b)
           z == (b + 1) % m
           new == Store(ring, b % d, c)
           s == Contents(m, d, ring, a, b)
           t == Contents(m, d, new, a, z)
<1>1. D \in Nat /\ D < d /\ D + 1 < m
  <2>1. D \in Index(m)
    BY DistCases
  <2> QED
    BY <2>1 DEF Index, Pos
<1>2. z \in Index(m) /\ Dist(m, a, z) = D + 1
  BY <1>1, IndexStep, DistStep
<1>3. b % d \in Index(d) /\ b % d = (a + D) % d
  <2>1. (b + 0) % d = (a + (D + 0)) % d
    BY RingPlace
  <2>2. b \in Nat /\ b + 0 = b /\ a + (D + 0) = a + D
    BY <1>1 DEF Index, Pos
  <2>3. b % d \in 0..(d - 1)
    BY <2>2, DivMod
  <2> QED
    BY <2>1, <2>2, <2>3 DEF Index, Pos
<1>4. new \in Buffers(d, S)
  BY <1>3 DEF Buffers, Store
<1>5. /\ s \in Seq(S) /\ Len(s) = D
      /\ \A k \in 1..D : s[k] = ring[(a + k - 1) % d]
  BY ContentsSeq
<1>6. /\ t \in Seq(S) /\ Len(t) = D + 1
      /\ \A k \in 1..(D + 1) : t[k] = new[(a + k - 1) % d]
  <2> DEFINE E == Dist(m, a, z)
  <2> HIDE DEF z, new
  <2>1. /\ t \in Seq(S) /\ Len(t) = E
        /\ \A k \in 1..E : t[k] = new[(a + k - 1) % d]
    BY <1>2, <1>4, ContentsSeq
  <2> QED
    BY <1>2, <2>1
<1>7. Contents(m, d, new, a, b) = s
  <2>1. Dist(m, a, b) <= Dist(m, a, b)
    BY <1>1
  <2> QED
    BY <1>1, <2>1, ContentsKeep
<1>8. \A k \in 1..D : s[k] = new[(a + k - 1) % d]
  <2> DEFINE u == Contents(m, d, new, a, b)
  <2> HIDE DEF z, new
  <2>1. \A k \in 1..D : u[k] = new[(a + k - 1) % d]
    BY <1>4, ContentsSeq
  <2> QED
    BY <1>7, <2>1
<1> HIDE DEF D, z, s, t
<1>9. t[D + 1] = c
  <2>1. D + 1 \in 1..(D + 1) /\ a + (D + 1) - 1 = a + D
    BY <1>1 DEF Index, Pos
  <2>2. t[D + 1] = new[(a + (D + 1) - 1) % d]
    BY <1>6, <2>1
  <2> QED
    BY <1>3, <2>1, <2>2 DEF Buffers, Store
<1>10. /\ Append(s, c) \in Seq(S) /\ Len(Append(s, c)) = D + 1
       /\ \A k \in 1..D : Append(s, c)[k] = s[k]
       /\ Append(s, c)[D + 1] = c
  BY <1>1, <1>5
<1>11. ASSUME NEW k \in 1..(D + 1) PROVE t[k] = Append(s, c)[k]
  <2>1. CASE k = D + 1
    BY <1>9, <1>10, <2>1
  <2>2. CASE k # D + 1
    <3>1. k \in 1..D
      BY <1>1, <2>2
    <3> QED
      BY <1>6, <1>8, <1>10, <3>1
  <2> QED
    BY <2>1, <2>2
<1>12. t = Append(s, c)
  BY <1>6, <1>10, <1>11, SeqEqual
<1> QED
  BY <1>12 DEF t, s, z, new

\* The oldest character is taken.
LEMMA ContentsGet ==
  ASSUME NEW m \in Pos, NEW d \in Pos, m % d = 0,
         NEW S, NEW ring \in Buffers(d, S), NEW a \in Index(m), NEW b \in Index(m), a # b
  PROVE  /\ Contents(m, d, ring, a, b) # << >>
         /\ Head(Contents(m, d, ring, a, b)) = ring[a % d]
         /\ Contents(m, d, ring, (a + 1) % m, b) = Tail(Contents(m, d, ring, a, b))
<1> DEFINE D == Dist(m, a, b)
           x == (a + 1) % m
           s == Contents(m, d, ring, a, b)
           t == Contents(m, d, ring, x, b)
<1>1. D \in Nat /\ D > 0
  <2>1. D \in Index(m) /\ D # 0
    BY DistCases, DistStep
  <2> QED
    BY <2>1 DEF Index, Pos
<1>2. x \in Index(m) /\ Dist(m, x, b) = D - 1
  BY IndexStep, DistStep
<1>3. /\ s \in Seq(S) /\ Len(s) = D
      /\ \A k \in 1..D : s[k] = ring[(a + k - 1) % d]
  BY ContentsSeq
<1>4. /\ t \in Seq(S) /\ Len(t) = D - 1
      /\ \A k \in 1..(D - 1) : t[k] = ring[(x + k - 1) % d]
  <2> HIDE DEF x
  <2> QED
    BY <1>2, ContentsSeq
<1>5. ASSUME NEW k \in 1..(D - 1) PROVE (x + k - 1) % d = (a + (k + 1) - 1) % d
  <2>1. a + 1 \in Nat /\ k - 1 \in Nat /\ x + k - 1 = x + (k - 1)
        /\ (a + 1) + (k - 1) = a + (k + 1) - 1
    BY <1>1, <1>2 DEF Index, Pos
  <2>2. (((a + 1) % m) + (k - 1)) % d = ((a + 1) + (k - 1)) % d
    BY <2>1, ModModAdd
  <2> QED
    BY <2>1, <2>2
<1> HIDE DEF x, s, t, D
<1>6. s # << >> /\ Head(s) = s[1] /\ Tail(s) \in Seq(S) /\ Len(Tail(s)) = D - 1
      /\ \A k \in 1..(D - 1) : Tail(s)[k] = s[k + 1]
  BY <1>1, <1>3
<1>7. Head(s) = ring[a % d]
  <2>1. 1 \in 1..D /\ a + 1 - 1 = a
    BY <1>1 DEF Index, Pos
  <2> QED
    BY <1>3, <1>6, <2>1
<1>8. ASSUME NEW k \in 1..(D - 1) PROVE t[k] = Tail(s)[k]
  <2>1. k + 1 \in 1..D
    BY <1>1
  <2> QED
    BY <1>3, <1>4, <1>5, <1>6, <2>1
<1>9. t = Tail(s)
  BY <1>4, <1>6, <1>8, SeqEqual
<1> QED
  BY <1>6, <1>7, <1>9 DEF s, t, x

\* The newest character is taken back.
LEMMA ContentsBack ==
  ASSUME NEW m \in Pos, NEW d \in Pos,
         NEW S, NEW ring \in Buffers(d, S), NEW a \in Index(m), NEW b \in Index(m), a # b
  PROVE  LET s == Contents(m, d, ring, a, b)
         IN  s # << >> /\ Contents(m, d, ring, a, (b + m - 1) % m) = SubSeq(s, 1, Len(s) - 1)
<1> DEFINE D == Dist(m, a, b)
           x == (b + m - 1) % m
           s == Contents(m, d, ring, a, b)
           t == Contents(m, d, ring, a, x)
<1>1. D \in Nat /\ D > 0
  <2>1. D \in Index(m) /\ D # 0
    BY DistCases, DistStep
  <2> QED
    BY <2>1 DEF Index, Pos
<1>2. x \in Index(m) /\ Dist(m, a, x) = D - 1
  BY IndexStep, DistStep
<1>3. /\ s \in Seq(S) /\ Len(s) = D
      /\ \A k \in 1..D : s[k] = ring[(a + k - 1) % d]
  BY ContentsSeq
<1>4. /\ t \in Seq(S) /\ Len(t) = D - 1
      /\ \A k \in 1..(D - 1) : t[k] = ring[(a + k - 1) % d]
  <2> HIDE DEF x
  <2> QED
    BY <1>2, ContentsSeq
<1> HIDE DEF x, s, t, D
<1>5. /\ s # << >>
      /\ SubSeq(s, 1, D - 1) \in Seq(S) /\ Len(SubSeq(s, 1, D - 1)) = D - 1
      /\ \A k \in 1..(D - 1) : SubSeq(s, 1, D - 1)[k] = s[k]
  BY <1>1, <1>3
<1>6. ASSUME NEW k \in 1..(D - 1) PROVE t[k] = SubSeq(s, 1, D - 1)[k]
  <2>1. k \in 1..D
    BY <1>1
  <2> QED
    BY <1>3, <1>4, <1>5, <2>1
<1>7. t = SubSeq(s, 1, D - 1)
  BY <1>4, <1>5, <1>6, SeqEqual
<1> QED
  BY <1>3, <1>5, <1>7 DEF s, t, x

\* What lies between the first and the last of three indices.
LEMMA ContentsJoin ==
  ASSUME NEW m \in Pos, NEW d \in Pos, m % d = 0, NEW S, NEW ring \in Buffers(d, S),
         NEW a \in Index(m), NEW b \in Index(m), NEW c \in Index(m),
         Dist(m, a, b) + Dist(m, b, c) < m
  PROVE  Contents(m, d, ring, a, c) = Contents(m, d, ring, a, b) \o Contents(m, d, ring, b, c)
<1> DEFINE D == Dist(m, a, b)
           E == Dist(m, b, c)
           s == Contents(m, d, ring, a, b)
           t == Contents(m, d, ring, b, c)
           u == Contents(m, d, ring, a, c)
<1>1. D \in Nat /\ E \in Nat
  <2>1. D \in Index(m) /\ E \in Index(m)
    BY DistCases
  <2> QED
    BY <2>1 DEF Index, Pos
<1>2. Dist(m, a, c) = D + E
  BY DistSum
<1>3. /\ s \in Seq(S) /\ Len(s) = D
      /\ \A k \in 1..D : s[k] = ring[(a + k - 1) % d]
  BY ContentsSeq
<1>4. /\ t \in Seq(S) /\ Len(t) = E
      /\ \A k \in 1..E : t[k] = ring[(b + k - 1) % d]
  BY ContentsSeq
<1>5. /\ u \in Seq(S) /\ Len(u) = D + E
      /\ \A k \in 1..(D + E) : u[k] = ring[(a + k - 1) % d]
  BY <1>2, ContentsSeq
<1>6. ASSUME NEW k \in 1..E PROVE (b + k - 1) % d = (a + (D + k) - 1) % d
  <2>1. k - 1 \in Nat /\ b + k - 1 = b + (k - 1) /\ a + (D + (k - 1)) = a + (D + k) - 1
    BY <1>1 DEF Index, Pos
  <2>2. (b + (k - 1)) % d = (a + (D + (k - 1))) % d
    BY <2>1, RingPlace
  <2> QED
    BY <2>1, <2>2
<1> HIDE DEF s, t, u, D, E
<1>7. /\ s \o t \in Seq(S) /\ Len(s \o t) = D + E
      /\ \A k \in 1..D : (s \o t)[k] = s[k]
      /\ \A k \in (D + 1)..(D + E) : (s \o t)[k] = t[k - D]
  <2>1. /\ s \o t \in Seq(S) /\ Len(s \o t) = D + E
        /\ \A k \in 1..(D + E) : (s \o t)[k] = IF k <= D THEN s[k] ELSE t[k - D]
    <3>1. /\ s \o t \in Seq(S) /\ Len(s \o t) = Len(s) + Len(t)
          /\ \A k \in 1..(Len(s) + Len(t)) :
               (s \o t)[k] = IF k <= Len(s) THEN s[k] ELSE t[k - Len(s)]
      <4>1. s \in Seq(S) /\ t \in Seq(S)
        BY <1>3, <1>4
      <4> QED
        BY ONLY <4>1, ConcatProperties
    <3>2. Len(s) = D /\ Len(t) = E
      BY <1>3, <1>4
    <3> QED
      BY ONLY <3>1, <3>2
  <2> QED
    BY <1>1, <2>1
<1>8. ASSUME NEW k \in 1..(D + E) PROVE u[k] = (s \o t)[k]
  <2>1. CASE k \in 1..D
    BY <1>3, <1>5, <1>7, <2>1
  <2>2. CASE k \notin 1..D
    <3>1. k \in (D + 1)..(D + E) /\ k - D \in 1..E /\ D + (k - D) = k
      BY <1>1, <2>2
    <3> QED
      BY <1>4, <1>5, <1>6, <1>7, <3>1
  <2> QED
    BY <2>1, <2>2
<1>9. u = s \o t
  BY <1>5, <1>7, <1>8, SeqEqual
<1> QED
  BY <1>9 DEF s, t, u

-----------------------------------------------------------------------------
(* State *)

Char == {"x", "nl", "^D"}

\* The finished lines and the one that is edited, as LineInput has them.
ready == Ring(r, w)
line  == Ring(w, e)

Types ==
  /\ lock \in Proc \cup {NoCPU}
  /\ IF_ \in [Proc -> BOOLEAN]
  /\ ncli \in [Proc -> {0, 1}]
  /\ intena \in [Proc -> BOOLEAN]
  /\ pc \in [Context -> {"idle", "acquire", "xchg", "section", "tested", "sleep", "iret"}]
  /\ pc[Intr] \notin {"sleep", "tested"}
  /\ \A p \in Proc : pc[p] # "iret"

Inside == {"section", "tested"}
Holding == Inside \cup {"xchg"}

\* Interrupts are off, by one pushcli, exactly from acquire to release; the
\* handler comes in only where they are on, and has nothing to restore.
Cli ==
  /\ \A p \in Proc : p # KbdCPU \/ pc[Intr] = "idle" =>
       /\ pc[p] \in Holding => ncli[p] = 1 /\ ~IF_[p] /\ intena[p]
       /\ pc[p] \notin Holding => ncli[p] = 0 /\ IF_[p] /\ ~intena[p]
  /\ pc[Intr] # "idle" =>
       /\ pc[KbdCPU] \notin Holding /\ ~IF_[KbdCPU] /\ ~intena[KbdCPU]
       /\ pc[Intr] \in Holding => ncli[KbdCPU] = 1
       /\ pc[Intr] \notin Holding => ncli[KbdCPU] = 0

\* The lock is held by the CPU of the one context that is in the section.
Holder ==
  /\ \A x \in Context : pc[x] \in Inside => lock = CPUof(x)
  /\ lock # NoCPU => \E x \in Context : pc[x] \in Inside /\ lock = CPUof(x)

LockInv == Types /\ Cli /\ Holder

RingTypes ==
  /\ buf \in Buffers(INPUT_BUF, Char)
  /\ r \in Index(UINT) /\ w \in Index(UINT) /\ e \in Index(UINT)

\* The edited line has no end in it; together with the finished ones it fits in the
\* ring, and a ring that is full is finished.
Lines ==
  /\ line \in Seq({"x"})
  /\ Len(ready) + Len(line) <= INPUT_BUF
  /\ Len(ready) + Len(line) = INPUT_BUF => w = e

\* Nobody sleeps, or is about to, while there is something to read.
Asleep == \A p \in Proc : pc[p] \in {"tested", "sleep"} => r = w

RingInv == RingTypes /\ Lines /\ Asleep

Inv == LockInv /\ RingInv

-----------------------------------------------------------------------------
(* The lock *)

\* What the constants are.
LEMMA Constants ==
  /\ KbdCPU \in Proc /\ Intr \notin Proc /\ NoCPU \notin Proc
  /\ INPUT_BUF \in Pos /\ UINT \in Pos /\ UINT % INPUT_BUF = 0
  /\ INPUT_BUF \in Nat /\ UINT \in Nat /\ INPUT_BUF < UINT
  BY ConsoleAssumption DEF Pos

\* Nothing is done to the lock and nobody moves.
LEMMA LockKept ==
  ASSUME LockInv, UNCHANGED <<lock, cpu, pc>>
  PROVE  LockInv'
  BY DEF LockInv, Types, Cli, Holder, cpu, Holding, Inside, CPUof, Context

\* wakeup and kill: sleepers go to acquire, by themselves.
LEMMA WokenKeepsLock ==
  ASSUME LockInv, UNCHANGED <<lock, cpu>>,
         NEW W \in SUBSET Proc, \A p \in W : pc[p] = "sleep",
         pc' = [x \in Context |-> IF x \in W THEN "acquire" ELSE pc[x]]
  PROVE  LockInv'
<1> USE Constants DEF LockInv, cpu, Context
<1>1. Types'
  BY DEF Types
<1>2. Cli'
  BY DEF Types, Cli, Holding, Inside
<1>3. Holder'
  BY DEF Types, Holder, Inside, CPUof
<1> QED
  BY <1>1, <1>2, <1>3

\* acquire turns interrupts off first.
LEMMA PushcliKeepsLock ==
  ASSUME LockInv, NEW x \in Context, Pushcli(x)
  PROVE  LockInv'
<1> USE Constants DEF LockInv, Context, Pushcli, Go, Runs
<1>1. CPUof(x) \in Proc
  BY DEF CPUof
<1>2. ncli[CPUof(x)] = 0 /\ (IF_[CPUof(x)] <=> x # Intr)
  BY DEF Types, Cli, Holding, Inside, CPUof
<1>3. Types'
  BY <1>1, <1>2 DEF Types
<1>4. Cli'
  BY <1>1, <1>2 DEF Types, Cli, Holding, Inside, CPUof
<1>5. Holder'
  BY DEF Types, Holder, Inside, CPUof
<1> QED
  BY <1>3, <1>4, <1>5

\* xchg gets a free lock.
LEMMA AcquireKeepsLock ==
  ASSUME LockInv, NEW x \in Context, Acquire(x)
  PROVE  LockInv'
<1> USE Constants DEF LockInv, Context, Acquire, Go, Runs, cpu
<1>1. CPUof(x) \in Proc
  BY DEF CPUof
<1>2. Types'
  BY <1>1 DEF Types
<1>3. Cli'
  BY DEF Types, Cli, Holding, Inside, CPUof
<1>4. Holder'
  BY <1>1 DEF Types, Holder, Inside, CPUof
<1> QED
  BY <1>2, <1>3, <1>4

\* release gives the lock up, and interrupts are on again unless the handler is
\* the one that releases.
LEMMA ReleaseKeepsLock ==
  ASSUME LockInv, NEW x \in Context, NEW from \in Inside, NEW to \in {"idle", "sleep", "iret"},
         Release(x, from, to), to = "iret" <=> x = Intr
  PROVE  LockInv'
<1> USE Constants DEF LockInv, Context, Release, Go, Runs
<1>1. CPUof(x) \in Proc
  BY DEF CPUof
<1>2. ncli[CPUof(x)] = 1 /\ ~IF_[CPUof(x)] /\ (intena[CPUof(x)] <=> x # Intr)
  BY DEF Types, Cli, Holding, Inside, CPUof
<1>3. \A y \in Context : pc[y] \in Inside => y = x
  BY DEF Types, Cli, Holder, Holding, Inside, CPUof
<1>4. Types'
  BY <1>1, <1>2 DEF Types, SetFlag
<1>5. Cli'
  BY <1>1, <1>2 DEF Types, Cli, Holding, Inside, CPUof, SetFlag
<1>6. Holder'
  BY <1>3 DEF Types, Holder, Inside, CPUof
<1> QED
  BY <1>4, <1>5, <1>6

\* consoleread's test of killed keeps the lock.
LEMMA TestKeepsLock ==
  ASSUME LockInv, NEW p \in Proc, ReadTest(p)
  PROVE  LockInv'
<1> USE Constants DEF LockInv, Context, ReadTest, Go, Runs, cpu
<1>1. Types'
  BY DEF Types
<1>2. Cli'
  BY DEF Types, Cli, Holding, Inside
<1>3. Holder'
  BY DEF Types, Holder, Inside, CPUof
<1> QED
  BY <1>1, <1>2, <1>3

\* The handler comes in on a CPU that is not between acquire and release.
LEMMA InterruptKeepsLock ==
  ASSUME LockInv, Interrupt
  PROVE  LockInv'
<1> USE Constants DEF LockInv, Context, Interrupt, Go
<1>1. Types'
  BY DEF Types
<1>2. Cli'
  BY DEF Types, Cli, Holding, Inside
<1>3. Holder'
  BY DEF Types, Holder, Inside, CPUof
<1> QED
  BY <1>1, <1>2, <1>3

\* iret turns interrupts on, as they were.
LEMMA InterruptReturnKeepsLock ==
  ASSUME LockInv, InterruptReturn
  PROVE  LockInv'
<1> USE Constants DEF LockInv, Context, InterruptReturn, Go
<1>1. Types'
  BY DEF Types
<1>2. Cli'
  BY DEF Types, Cli, Holding, Inside
<1>3. Holder'
  BY DEF Types, Holder, Inside, CPUof
<1> QED
  BY <1>1, <1>2, <1>3

\* A system call begins.
LEMMA CallKeepsLock ==
  ASSUME LockInv, NEW p \in Proc, NEW m, Call(p, m)
  PROVE  LockInv'
<1> USE Constants DEF LockInv, Context, Call, Go, cpu
<1>1. Types'
  BY DEF Types
<1>2. Cli'
  BY DEF Types, Cli, Holding, Inside
<1>3. Holder'
  BY DEF Types, Holder, Inside, CPUof
<1> QED
  BY <1>1, <1>2, <1>3

\* The locking is safe in every step.
LEMMA NextKeepsLock == LockInv /\ [Next]_vars => LockInv'
<1> SUFFICES ASSUME LockInv, [Next]_vars PROVE LockInv'
  OBVIOUS
<1>1. ASSUME NEW x \in Context, Step(x) PROVE LockInv'
  BY <1>1, PushcliKeepsLock, AcquireKeepsLock DEF Step
<1>2. ASSUME NEW c \in Key, TypeChar(c) PROVE LockInv'
  <2> DEFINE W == {p \in Proc : pc[p] = "sleep"}
  <2>1. W \in SUBSET Proc /\ \A p \in W : pc[p] = "sleep"
    OBVIOUS
  <2>2. UNCHANGED <<lock, cpu>>
    BY <1>2 DEF TypeChar
  <2>3. CASE pc' = pc
    BY <2>2, <2>3, LockKept
  <2>4. CASE pc' = [x \in Context |-> IF pc[x] = "sleep" THEN "acquire" ELSE pc[x]]
    <3>1. pc' = [x \in Context |-> IF x \in W THEN "acquire" ELSE pc[x]]
      BY <2>4 DEF Context, LockInv, Types
    <3> QED
      BY <2>1, <2>2, <3>1, WokenKeepsLock
  <2> QED
    BY <1>2, <2>3, <2>4 DEF TypeChar
<1>3. CASE Handle
  <2>1. CASE Backspace \/ KillLine
    BY <2>1, LockKept DEF Backspace, KillLine
  <2>2. CASE IntrDone
    BY <2>2, ReleaseKeepsLock DEF IntrDone, Context, Inside
  <2> QED
    BY <1>2, <1>3, <2>1, <2>2, InterruptKeepsLock, InterruptReturnKeepsLock DEF Handle
<1>4. CASE Press
  BY <1>4, LockKept DEF Press
<1>5. ASSUME NEW p \in Proc, Reading(p) PROVE LockInv'
  <2> USE Constants DEF Context
  <2>1. CASE ReadKilled(p) \/ ReadDone(p)
    BY <2>1, ReleaseKeepsLock DEF ReadKilled, ReadDone, Return, Inside
  <2>2. CASE ReadSleep(p)
    BY <2>2, ReleaseKeepsLock DEF ReadSleep, Inside
  <2>3. CASE ReadChar(p) \/ ReadEOF(p)
    BY <2>3, LockKept DEF ReadChar, ReadEOF
  <2> QED
    BY <1>5, <2>1, <2>2, <2>3, TestKeepsLock DEF Reading
<1>6. ASSUME NEW p \in Proc, NEW m \in Counts[p], Call(p, m) PROVE LockInv'
  BY <1>6, CallKeepsLock
<1>7. ASSUME NEW p \in Victims, Kill(p) PROVE LockInv'
  <2> DEFINE W == {q \in {p} : pc[q] = "sleep"}
  <2>1. W \in SUBSET Proc /\ \A q \in W : pc[q] = "sleep"
    BY ConsoleAssumption
  <2>2. pc' = [x \in Context |-> IF x \in W THEN "acquire" ELSE pc[x]]
    BY <1>7, ConsoleAssumption DEF Kill, Context, LockInv, Types
  <2> QED
    BY <1>7, <2>1, <2>2, WokenKeepsLock DEF Kill
<1>8. CASE UNCHANGED vars
  BY <1>8, LockKept DEF vars
<1> QED
  BY <1>1, <1>3, <1>4, <1>5, <1>6, <1>7, <1>8 DEF Next

-----------------------------------------------------------------------------
(* The ring *)

\* The two sequences are contents of the ring.
LEMMA RingIs ==
  /\ ready = Contents(UINT, INPUT_BUF, buf, r, w)
  /\ line = Contents(UINT, INPUT_BUF, buf, w, e)
  /\ ready' = Contents(UINT, INPUT_BUF, buf', r', w')
  /\ line' = Contents(UINT, INPUT_BUF, buf', w', e')
  BY DEF ready, line, Ring, Contents, Dist

\* They are sequences, as long as the indices are apart.
LEMMA RingFacts ==
  ASSUME RingTypes
  PROVE  /\ ready \in Seq(Char) /\ Len(ready) = Dist(UINT, r, w)
         /\ line \in Seq(Char) /\ Len(line) = Dist(UINT, w, e)
         /\ Dist(UINT, r, w) \in Nat /\ Dist(UINT, w, e) \in Nat
         /\ (ready = << >> <=> r = w) /\ (line = << >> <=> w = e)
         /\ \A k \in 1..Dist(UINT, w, e) : line[k] = buf[(w + k - 1) % INPUT_BUF]
<1> USE Constants DEF RingTypes
<1>1. /\ ready \in Seq(Char) /\ Len(ready) = Dist(UINT, r, w)
      /\ line \in Seq(Char) /\ Len(line) = Dist(UINT, w, e)
  BY RingIs, ContentsSeq
<1>2. /\ Dist(UINT, r, w) \in Index(UINT) /\ Dist(UINT, w, e) \in Index(UINT)
      /\ (Dist(UINT, r, w) = 0 <=> r = w) /\ (Dist(UINT, w, e) = 0 <=> w = e)
  BY DistCases, DistStep
<1>3. (ready = << >> <=> Len(ready) = 0) /\ (line = << >> <=> Len(line) = 0)
  BY <1>1, EmptySeq
<1>4. ASSUME NEW k \in 1..Dist(UINT, w, e) PROVE line[k] = buf[(w + k - 1) % INPUT_BUF]
  BY RingIs DEF Contents
<1> QED
  BY <1>1, <1>2, <1>3, <1>4 DEF Index

\* Together they are as long as the ring is full.
LEMMA RingFull ==
  ASSUME RingTypes, Lines
  PROVE  Dist(UINT, r, e) = Len(ready) + Len(line)
<1> USE Constants DEF RingTypes
<1>1. Dist(UINT, r, w) + Dist(UINT, w, e) < UINT
  BY RingFacts DEF Lines
<1> QED
  BY <1>1, RingFacts, DistSum

\* The indices have no line between them when they are equal.
LEMMA RingEmpty ==
  ASSUME NEW b \in Buffers(INPUT_BUF, Char), NEW i \in Index(UINT)
  PROVE  Contents(UINT, INPUT_BUF, b, i, i) = << >>
<1>1. Dist(UINT, i, i) = 0
  BY Constants, DistStep
<1>2. Contents(UINT, INPUT_BUF, b, i, i) \in Seq(Char) /\ Len(Contents(UINT, INPUT_BUF, b, i, i)) = 0
  BY <1>1, Constants, ContentsSeq
<1> QED
  BY <1>2, EmptySeq

\* ^H takes the last character of the line back, and no other.
LEMMA BackspaceStep ==
  ASSUME RingTypes, Backspace
  PROVE  /\ RingTypes' /\ ready' = ready
         /\ \/ line' = line
            \/ line # << >> /\ line' = Front(line)
<1> USE Constants DEF RingTypes, Backspace, LineStart, Dec
<1>1. e' \in Index(UINT)
  BY IndexStep
<1>2. ready' = ready
  BY RingIs
<1>3. CASE e = w
  BY <1>1, <1>2, <1>3, RingIs
<1>4. CASE e # w
  <2>1. /\ line # << >>
        /\ Contents(UINT, INPUT_BUF, buf, w, (e + UINT - 1) % UINT) = SubSeq(line, 1, Len(line) - 1)
    BY <1>4, ContentsBack, RingIs
  <2>2. e' = (e + UINT - 1) % UINT
    BY <1>4
  <2>3. line' = Front(line)
    BY <2>1, <2>2, RingIs DEF Front
  <2> QED
    BY <1>1, <1>2, <2>1, <2>3
<1> QED
  BY <1>3, <1>4

\* A reader takes the first character, or leaves it.
LEMMA ReadStep ==
  ASSUME RingTypes, NEW p \in Proc, ReadChar(p) \/ ReadEOF(p)
  PROVE  /\ RingTypes' /\ line' = line /\ r # w
         /\ \/ ready' = ready
            \/ ready # << >> /\ ready' = Tail(ready)
<1> USE Constants DEF RingTypes
<1>1. r # w /\ UNCHANGED <<buf, w, e>> /\ (r' = r \/ r' = (r + 1) % UINT)
  BY DEF ReadChar, ReadEOF, Inc
<1>2. r' \in Index(UINT)
  BY <1>1, IndexStep
<1>3. line' = line
  BY <1>1, RingIs
<1>4. CASE r' = r
  BY <1>1, <1>2, <1>3, <1>4, RingIs
<1>5. CASE r' = (r + 1) % UINT
  <2>1. ready # << >> /\ Contents(UINT, INPUT_BUF, buf, (r + 1) % UINT, w) = Tail(ready)
    BY <1>1, ContentsGet, RingIs
  <2>2. ready' = Tail(ready)
    BY <1>1, <1>5, <2>1, RingIs
  <2> QED
    BY <1>1, <1>2, <1>3, <2>1, <2>2
<1> QED
  BY <1>1, <1>4, <1>5

\* k characters before the end of a line, if it has as many.
LEMMA LineBack ==
  ASSUME RingTypes, NEW k \in 0..Dist(UINT, w, e)
  PROVE  /\ (e + UINT - k) % UINT \in Index(UINT)
         /\ Dist(UINT, w, (e + UINT - k) % UINT) = Dist(UINT, w, e) - k
<1> USE Constants DEF RingTypes
<1> DEFINE L == Dist(UINT, w, e)
           x == (e + UINT - k) % UINT
<1>1. /\ w <= e => L = e - w
      /\ e < w => L = e + UINT - w
      /\ L \in Index(UINT)
  BY DistCases
<1> HIDE DEF L
<1>2. /\ k <= e => x = e - k
      /\ k > e => x = e + UINT - k
  <2>1. k \in 0..(UINT - 1)
    BY <1>1 DEF Index, L
  <2> QED
    BY <2>1 DEF Index
<1> HIDE DEF x
<1>3. x \in Index(UINT)
  BY <1>1, <1>2 DEF Index, L
<1>4. /\ w <= x => Dist(UINT, w, x) = x - w
      /\ x < w => Dist(UINT, w, x) = x + UINT - w
  BY <1>3, DistCases
<1>5. Dist(UINT, w, x) = L - k
  BY <1>1, <1>2, <1>4 DEF Index, L
<1> QED
  BY <1>3, <1>5 DEF x, L

\* ^U goes back to the start of the line: the line has no end in it before which
\* the loop would stop.
LEMMA KillLineStep ==
  ASSUME RingTypes, Lines, KillLine
  PROVE  RingTypes' /\ e' = w /\ ready' = ready /\ line' = << >>
<1> USE Constants DEF RingTypes
<1> DEFINE L == Dist(UINT, w, e)
           back(k) == (e + UINT - k) % UINT
           stop(k) == back(k) = w \/ buf[Dec(back(k)) % INPUT_BUF] = "nl"
           first(k) == stop(k) /\ \A j \in 0..(k - 1) : ~stop(j)
<1>1. L \in 0..INPUT_BUF /\ Len(line) = L /\ line \in Seq({"x"})
  BY RingFacts DEF Lines
<1>2. \A k \in 0..L : back(k) \in Index(UINT) /\ Dist(UINT, w, back(k)) = L - k
  BY LineBack
<1>3. stop(L) /\ back(L) = w
  <2>1. L \in 0..L /\ L - L = 0
    BY <1>1
  <2>2. back(L) \in Index(UINT) /\ Dist(UINT, w, back(L)) = 0
    BY <1>2, <2>1
  <2> HIDE DEF back
  <2>3. back(L) = w
    BY <2>2, DistStep
  <2> QED
    BY <2>3
<1>4. ASSUME NEW k \in 0..(L - 1) PROVE ~stop(k)
  <2> DEFINE x == back(k)
             y == (x + UINT - 1) % UINT
  <2>1. k \in 0..L /\ L - k \in 1..L /\ L - k # 0
    BY <1>1
  <2>2. x \in Index(UINT) /\ Dist(UINT, w, x) = L - k
    BY <1>2, <2>1
  <2> HIDE DEF x
  <2>3. x # w
    BY <2>1, <2>2, DistStep
  <2>4. y \in Index(UINT) /\ Dist(UINT, w, y) = (L - k) - 1
    BY <2>2, <2>3, DistStep, IndexStep
  <2> HIDE DEF y
  <2>5. (y + 0) % INPUT_BUF = (w + (((L - k) - 1) + 0)) % INPUT_BUF
    BY <2>4, RingPlace
  <2>6. y + 0 = y /\ w + (((L - k) - 1) + 0) = w + (L - k) - 1
    BY <1>1, <2>4 DEF Index
  <2>7. line[L - k] = buf[(w + (L - k) - 1) % INPUT_BUF]
    BY <2>1, RingFacts
  <2>8. line[L - k] \in {"x"}
    BY <1>1, <2>1, ElementOfSeq
  <2>9. buf[y % INPUT_BUF] # "nl"
    BY <2>5, <2>6, <2>7, <2>8
  <2> QED
    BY <2>3, <2>9 DEF x, y, Dec
<1> HIDE DEF stop, back, L
<1>5. first(L)
  BY <1>3, <1>4
<1>6. ASSUME NEW k \in 0..INPUT_BUF, first(k) PROVE k = L
  <2>1. ~(k < L)
    BY <1>1, <1>4, <1>6
  <2>2. ~(L < k)
    BY <1>1, <1>3, <1>6
  <2> QED
    BY <1>1, <2>1, <2>2
<1>7. (CHOOSE k \in 0..INPUT_BUF : first(k)) = L
  BY <1>1, <1>5, <1>6
<1>8. e' = back(CHOOSE k \in 0..INPUT_BUF : first(k)) /\ UNCHANGED <<buf, r, w>>
  BY DEF KillLine, LineStart, stop, back
<1>9. e' = w
  BY <1>3, <1>7, <1>8
<1>10. line' = << >>
  BY <1>8, <1>9, RingIs, RingEmpty
<1> QED
  BY <1>8, <1>9, <1>10, RingIs

\* A key that is stored goes to the end of the line; the line is finished by an end
\* or by the end of the room.
LEMMA TypeCharStep ==
  ASSUME RingTypes, Lines, pc[Intr] # "sleep", NEW c \in Key, TypeChar(c)
  PROVE  /\ RingTypes' /\ r' = r /\ Stored(c) \in Char
         /\ \/ UNCHANGED <<ready, line, w, e, pc>>
            \/ /\ Len(ready) + Len(line) < INPUT_BUF
               /\ Stored(c) \in {"nl", "^D"} \/ Len(ready) + Len(line) + 1 = INPUT_BUF
               /\ ready' = ready \o Append(line, Stored(c)) /\ line' = << >>
               /\ w' = e' /\ \A p \in Proc : pc'[p] # "sleep"
            \/ /\ Stored(c) \notin {"nl", "^D"} /\ Len(ready) + Len(line) + 1 < INPUT_BUF
               /\ ready' = ready /\ line' = Append(line, Stored(c))
               /\ UNCHANGED <<w, pc>>
<1> USE Constants DEF RingTypes
<1> DEFINE d == Stored(c)
           x == (e + 1) % UINT
           b == Store(buf, e % INPUT_BUF, d)
           N == Len(ready) + Len(line)
           W == Dist(UINT, r, w)
           L == Dist(UINT, w, e)
<1>1. d \in Char /\ r' = r
  BY ConsoleAssumption DEF TypeChar, Stored, Char
<1>2. Dist(UINT, r, e) = N /\ (e + UINT - r) % UINT = N /\ N = W + L /\ W \in Nat /\ L \in Nat
  BY RingFull, RingFacts DEF Dist
<1> HIDE DEF d
<1>3. CASE ~(N < INPUT_BUF)
  <2>1. UNCHANGED <<buf, r, w, e, pc>>
    BY <1>2, <1>3 DEF TypeChar
  <2> QED
    BY <1>1, <2>1, RingIs DEF d
<1>4. CASE N < INPUT_BUF
  <2>1. /\ buf' = b /\ e' = x
        /\ \/ /\ Finishes(d, x) /\ w' = x
              /\ pc' = [y \in Context |-> IF pc[y] = "sleep" THEN "acquire" ELSE pc[y]]
           \/ ~Finishes(d, x) /\ UNCHANGED <<w, pc>>
    BY <1>2, <1>4 DEF TypeChar, d, Inc, Store
  <2>2. x \in Index(UINT) /\ Dist(UINT, r, x) = N + 1
    <3>1. Dist(UINT, r, e) + 1 < UINT
      BY <1>2, <1>4
    <3> QED
      BY <1>2, <3>1, IndexStep, DistStep
  <2>3. e % INPUT_BUF \in Index(INPUT_BUF)
    <3>1. e \in Nat
      BY DEF Index
    <3> QED
      BY <3>1, DivMod DEF Index
  <2>4. b \in Buffers(INPUT_BUF, Char)
    BY <1>1, <2>3 DEF Buffers, Store
  <2>5. Contents(UINT, INPUT_BUF, b, w, x) = Append(line, d)
    <3>1. Dist(UINT, w, e) < INPUT_BUF
      BY <1>2, <1>4
    <3> QED
      BY <1>1, <3>1, RingIs, ContentsPut
  <2>6. Contents(UINT, INPUT_BUF, b, r, w) = ready
    <3>1. Dist(UINT, r, w) <= Dist(UINT, r, e) /\ Dist(UINT, r, e) < INPUT_BUF
      BY <1>2, <1>4
    <3> QED
      BY <1>1, <3>1, RingIs, ContentsKeep
  <2>7. Finishes(d, x) <=> d \in {"nl", "^D"} \/ N + 1 = INPUT_BUF
    <3>1. INPUT_BUF \in Index(UINT)
      BY DEF Index, Pos
    <3>2. Dist(UINT, r, (r + INPUT_BUF) % UINT) = INPUT_BUF
      BY <3>1, DistAhead
    <3>3. x = (r + (N + 1)) % UINT
      BY <2>2, DistReach
    <3> HIDE DEF x
    <3> QED
      BY <2>2, <3>2, <3>3 DEF Finishes
  <2> HIDE DEF x, b
  <2>8. RingTypes'
    BY <1>1, <2>1, <2>2, <2>4
  <2>9. CASE Finishes(d, x)
    <3>1. w' = x /\ e' = x /\ pc' = [y \in Context |-> IF pc[y] = "sleep" THEN "acquire" ELSE pc[y]]
      BY <2>1, <2>9
    <3>2. line' = << >>
      BY <2>1, <2>2, <2>4, <3>1, RingIs, RingEmpty
    <3>3. Dist(UINT, w, x) = L + 1
      <4>1. Dist(UINT, w, e) + 1 < UINT
        BY <1>2, <1>4
      <4> QED
        BY <4>1, DistStep DEF x
    <3>4. Dist(UINT, r, w) + Dist(UINT, w, x) < UINT
      BY <1>2, <1>4, <3>3
    <3>5. Contents(UINT, INPUT_BUF, b, r, x) = ready \o Append(line, d)
      <4>1. Contents(UINT, INPUT_BUF, b, r, x) =
              Contents(UINT, INPUT_BUF, b, r, w) \o Contents(UINT, INPUT_BUF, b, w, x)
        BY <2>2, <2>4, <3>4, ContentsJoin
      <4> QED
        BY <2>5, <2>6, <4>1
    <3>6. ready' = ready \o Append(line, d)
      BY <1>1, <2>1, <3>1, <3>5, RingIs
    <3>7. \A p \in Proc : pc'[p] # "sleep"
      BY <3>1 DEF Context
    <3> QED
      BY <1>1, <1>4, <2>7, <2>8, <2>9, <3>1, <3>2, <3>6, <3>7 DEF d
  <2>10. CASE ~Finishes(d, x)
    <3>1. UNCHANGED <<w, pc>> /\ d \notin {"nl", "^D"} /\ N + 1 # INPUT_BUF
      BY <2>1, <2>7, <2>10
    <3>2. ready' = ready /\ line' = Append(line, d)
      BY <1>1, <2>1, <2>5, <2>6, <3>1, RingIs
    <3>3. N + 1 < INPUT_BUF
      BY <1>2, <1>4, <3>1
    <3> QED
      BY <1>1, <2>8, <3>1, <3>2, <3>3 DEF d
  <2> QED
    BY <2>9, <2>10
<1> QED
  BY <1>3, <1>4

\* A step that leaves the ring alone; only a reader that has found it empty goes to
\* sleep.
Quiet ==
  /\ UNCHANGED input
  /\ \A p \in Proc : pc'[p] \in {"tested", "sleep"} => pc[p] \in {"tested", "sleep"} \/ r = w

\* The other steps are those of the handler and of the readers.
LEMMA RingSteps ==
  ASSUME LockInv, [Next]_vars
  PROVE  \/ Quiet \/ Backspace \/ KillLine
         \/ \E c \in Key : TypeChar(c)
         \/ \E p \in Proc : ReadChar(p) \/ ReadEOF(p)
<1> USE Constants DEF LockInv, Types, Context, Quiet, Go
<1>1. ASSUME NEW x \in Context, Step(x) PROVE Quiet
  BY <1>1 DEF Step, Pushcli, Acquire
<1>2. CASE Interrupt \/ InterruptReturn \/ IntrDone
  BY <1>2 DEF Interrupt, InterruptReturn, IntrDone, Release
<1>3. CASE Press
  BY <1>3 DEF Press
<1>4. ASSUME NEW p \in Proc, ReadKilled(p) \/ ReadTest(p) \/ ReadSleep(p) \/ ReadDone(p)
      PROVE  Quiet
  BY <1>4 DEF ReadKilled, ReadTest, ReadSleep, ReadDone, Return, Release
<1>5. ASSUME NEW p \in Proc, NEW m \in Counts[p], Call(p, m) PROVE Quiet
  BY <1>5 DEF Call
<1>6. ASSUME NEW p \in Victims, Kill(p) PROVE Quiet
  BY <1>6, ConsoleAssumption DEF Kill
<1>7. CASE UNCHANGED vars
  BY <1>7 DEF vars
<1> QED
  BY <1>1, <1>2, <1>3, <1>4, <1>5, <1>6, <1>7 DEF Next, Handle, Reading

\* The ring stays in order, and no sleeper is left behind, in every step.
LEMMA NextKeepsRing == LockInv /\ RingInv /\ [Next]_vars => RingInv'
<1> SUFFICES ASSUME LockInv, RingInv, [Next]_vars PROVE RingInv'
  OBVIOUS
<1> USE DEF RingInv
<1>a. /\ RingTypes' => /\ Len(ready') \in Nat /\ Len(line') \in Nat
                       /\ (ready' = << >> <=> r' = w') /\ (line' = << >> <=> w' = e')
  <2>1. ASSUME RingTypes'
        PROVE  /\ ready' \in Seq(Char) /\ line' \in Seq(Char)
               /\ Len(ready') = Dist(UINT, r', w') /\ Len(line') = Dist(UINT, w', e')
               /\ (Dist(UINT, r', w') = 0 <=> r' = w') /\ (Dist(UINT, w', e') = 0 <=> w' = e')
    BY <2>1, Constants, RingIs, ContentsSeq, DistStep DEF RingTypes
  <2>2. \A s \in Seq(Char) : Len(s) \in Nat /\ (s = << >> <=> Len(s) = 0)
    BY EmptySeq
  <2> QED
    BY <2>1, <2>2
<1>b. /\ Len(ready) \in Nat /\ Len(line) \in Nat /\ INPUT_BUF \in Nat \ {0}
      /\ (ready = << >> <=> r = w) /\ (line = << >> <=> w = e)
  BY RingFacts, Constants DEF Pos
<1>1. CASE Quiet
  <2>1. ready' = ready /\ line' = line /\ RingTypes'
    BY <1>1, RingIs DEF Quiet, input, RingTypes
  <2> QED
    BY <1>1, <2>1 DEF Quiet, input, Lines, Asleep
<1>2. CASE Backspace
  <2>1. /\ RingTypes' /\ ready' = ready /\ UNCHANGED <<r, w, pc>>
        /\ line' = line \/ (line # << >> /\ line' = SubSeq(line, 1, Len(line) - 1))
    BY <1>2, BackspaceStep DEF Backspace, Front
  <2>2. line # << >> => /\ SubSeq(line, 1, Len(line) - 1) \in Seq({"x"})
                        /\ Len(SubSeq(line, 1, Len(line) - 1)) = Len(line) - 1
    BY <1>b DEF Lines
  <2>3. Lines'
    <3>1. line' = line => Lines'
      BY <1>a, <1>b, <2>1 DEF Lines
    <3>2. ASSUME line # << >>, line' = SubSeq(line, 1, Len(line) - 1) PROVE Lines'
      <4>1. line' \in Seq({"x"}) /\ Len(line') = Len(line) - 1
        BY <2>2, <3>2
      <4> QED
        BY <1>b, <2>1, <4>1 DEF Lines
    <3> QED
      BY <2>1, <3>1, <3>2
  <2> QED
    BY <2>1, <2>3 DEF Asleep
<1>3. CASE KillLine
  <2>1. RingTypes' /\ ready' = ready /\ line' = << >> /\ e' = w /\ UNCHANGED <<r, w, pc>>
    BY <1>3, KillLineStep DEF KillLine
  <2>2. line' \in Seq({"x"}) /\ Len(line') = 0
    BY <2>1
  <2>3. Lines'
    BY <1>b, <2>1, <2>2 DEF Lines
  <2> QED
    BY <2>1, <2>3 DEF Asleep
<1>4. ASSUME NEW c \in Key, TypeChar(c) PROVE RingInv'
  <2> DEFINE d == Stored(c)
  <2>1. /\ RingTypes' /\ r' = r /\ d \in Char
        /\ \/ UNCHANGED <<ready, line, w, e, pc>>
           \/ /\ Len(ready) + Len(line) < INPUT_BUF
              /\ ready' = ready \o Append(line, d) /\ line' = << >>
              /\ w' = e' /\ \A p \in Proc : pc'[p] # "sleep"
           \/ /\ d \notin {"nl", "^D"} /\ Len(ready) + Len(line) + 1 < INPUT_BUF
              /\ ready' = ready /\ line' = Append(line, d)
              /\ UNCHANGED <<w, pc>>
    BY <1>4, TypeCharStep DEF LockInv, Types
  <2>a. \A p \in Proc : pc[p] # "tested" /\ pc'[p] # "tested"
    <3>1. pc[Intr] = "section"
      BY <1>4 DEF TypeChar, Getc
    <3>2. \A p \in Proc : pc[p] # "tested"
      BY <3>1, Constants DEF LockInv, Types, Cli, Holder, Holding, Inside, Context, CPUof
    <3> QED
      BY <1>4, <3>2 DEF TypeChar, Context
  <2> HIDE DEF d
  <2>2. CASE UNCHANGED <<ready, line, w, e, pc>>
    BY <2>1, <2>2 DEF Lines, Asleep
  <2>3. CASE /\ Len(ready) + Len(line) < INPUT_BUF
             /\ ready' = ready \o Append(line, d) /\ line' = << >>
             /\ w' = e' /\ \A p \in Proc : pc'[p] # "sleep"
    <3>1. ready \in Seq(Char) /\ line \in Seq(Char)
      BY RingFacts
    <3>2. Append(line, d) \in Seq(Char) /\ Len(Append(line, d)) = Len(line) + 1
      BY <2>1, <3>1
    <3>3. Len(ready \o Append(line, d)) = Len(ready) + (Len(line) + 1)
      BY <3>1, <3>2, ConcatProperties
    <3>4. line' \in Seq({"x"}) /\ Len(line') = 0
      BY <2>3
    <3>5. Lines'
      BY <1>b, <2>3, <3>3, <3>4 DEF Lines
    <3> QED
      BY <2>a, <2>1, <2>3, <3>5 DEF Asleep
  <2>4. CASE /\ d \notin {"nl", "^D"} /\ Len(ready) + Len(line) + 1 < INPUT_BUF
             /\ ready' = ready /\ line' = Append(line, d)
             /\ UNCHANGED <<w, pc>>
    <3>1. d = "x"
      BY <2>1, <2>4 DEF Char
    <3>2. line' \in Seq({"x"}) /\ Len(line') = Len(line) + 1
      BY <2>4, <3>1 DEF Lines
    <3>3. Lines'
      BY <1>b, <2>4, <3>2 DEF Lines
    <3> QED
      BY <2>1, <2>4, <3>3 DEF Asleep
  <2> QED
    BY <2>1, <2>2, <2>3, <2>4
<1>5. ASSUME NEW p \in Proc, ReadChar(p) \/ ReadEOF(p) PROVE RingInv'
  <2>1. /\ RingTypes' /\ line' = line /\ r # w /\ UNCHANGED <<w, e, pc>>
        /\ ready' = ready \/ (ready # << >> /\ ready' = Tail(ready))
    BY <1>5, ReadStep DEF ReadChar, ReadEOF
  <2>2. ready # << >> => Len(Tail(ready)) = Len(ready) - 1
    BY RingFacts
  <2>3. Len(ready') <= Len(ready) /\ Len(ready') \in Nat
    BY <1>b, <2>1, <2>2
  <2>4. Lines'
    BY <1>b, <2>1, <2>3 DEF Lines
  <2> QED
    BY <2>1, <2>4 DEF Asleep
<1> QED
  BY <1>1, <1>2, <1>3, <1>4, <1>5, RingSteps

-----------------------------------------------------------------------------
(* The theorems *)

\* The console starts with an empty ring and all CPUs outside of the lock.
LEMMA InitEstablishes == Init => Inv
<1> SUFFICES ASSUME Init PROVE Inv
  OBVIOUS
<1> USE Constants DEF Init
<1>1. Types
  BY DEF Types, Context
<1>2. Cli /\ Holder /\ Asleep
  BY DEF Cli, Holder, Holding, Inside, Context, Asleep
<1>3. RingTypes
  BY DEF RingTypes, Buffers, Index, Pos, Char
<1>4. ready = << >> /\ line = << >>
  BY <1>3, RingFacts
<1>5. Len(ready) = 0 /\ Len(line) = 0 /\ line \in Seq({"x"})
  BY <1>4
<1>6. Lines
  BY <1>5 DEF Lines
<1> QED
  BY <1>1, <1>2, <1>3, <1>6 DEF Inv, LockInv, RingInv

\* The inductive invariant holds at all times.
THEOREM InvariantHolds == Spec => []Inv
<1>1. Inv /\ [Next]_vars => Inv'
  BY NextKeepsLock, NextKeepsRing DEF Inv
<1> QED
  BY <1>1, InitEstablishes, PTL DEF Spec

\* cli before xchg, and sti only after the store that frees the lock, keep the
\* interrupt handler off a CPU that holds cons.lock: acquire never panics.
THEOREM LockSafeHolds == Spec => []LockSafe
<1>1. ASSUME Inv PROVE LockSafe
  <2> USE <1>1, Constants DEF Inv, LockInv, RingInv, Context
  <2>1. buf \in [0..(INPUT_BUF - 1) -> {"x", "nl", "^D"}]
    BY DEF RingTypes, Buffers, Index, Char
  <2>2. r \in 0..(UINT - 1) /\ w \in 0..(UINT - 1) /\ e \in 0..(UINT - 1)
    BY DEF RingTypes, Index
  <2>3. ASSUME NEW x \in Context
        PROVE  /\ pc[x] \in {"section", "tested"} => lock = CPUof(x) /\ ~IF_[CPUof(x)]
               /\ pc[x] = "xchg" => lock # CPUof(x)
    BY <2>3 DEF Types, Cli, Holder, Holding, Inside, CPUof
  <2>4. pc[Intr] # "idle" => ~IF_[KbdCPU]
    BY DEF Cli
  <2>5. ASSUME NEW p \in Proc, pc[p] \in {"idle", "acquire", "sleep"}, Runs(p)
        PROVE  IF_[p] /\ ncli[p] = 0
    BY <2>5 DEF Cli, Runs, Holding, Inside
  <2> QED
    BY <2>1, <2>2, <2>3, <2>4, <2>5 DEF LockSafe
<1> QED
  BY <1>1, InvariantHolds, PTL

\* No reader sleeps while a line is finished or the ring is full.
THEOREM ReaderAwakeHolds == Spec => []ReaderAwake
<1>1. ASSUME Inv PROVE ReaderAwake
  <2> USE <1>1, Constants DEF Inv, RingInv
  <2>1. ASSUME NEW p \in Proc, pc[p] = "sleep" PROVE r = w /\ (e + UINT - r) % UINT < INPUT_BUF
    <3>1. r = w /\ Len(ready) = 0 /\ Len(line) \in Nat /\ (w = e => Len(line) = 0)
      <4>1. r = w
        BY <2>1 DEF Asleep
      <4> QED
        BY <4>1, RingFacts
    <3>2. (e + UINT - r) % UINT = Len(ready) + Len(line)
      BY RingFull DEF Dist
    <3> QED
      BY <3>1, <3>2 DEF Lines, Pos
  <2> QED
    BY <2>1 DEF ReaderAwake
<1> QED
  BY <1>1, InvariantHolds, PTL

\* A step of the console is a step of the editor of lines.
LEMMA NextRefines == Inv /\ [Next]_vars => [lines!Next]_<<ready, line>>
<1> SUFFICES ASSUME Inv, [Next]_vars PROVE [lines!Next]_<<ready, line>>
  OBVIOUS
<1> USE DEF Inv, RingInv
<1>a. /\ lines!Erase <=> line # << >> /\ line' = Front(line) /\ ready' = ready
      /\ lines!KillLine <=> line' = << >> /\ ready' = ready
      /\ lines!Take <=> ready # << >> /\ ready' = Tail(ready) /\ line' = line
  <2>1. lines!Erase <=> line # << >> /\ line' = Front(line) /\ ready' = ready
    BY DEF lines!Erase, lines!Front, Front, ready, line
  <2>2. lines!KillLine <=> line' = << >> /\ ready' = ready
    BY DEF lines!KillLine, ready, line
  <2>3. lines!Take <=> ready # << >> /\ ready' = Tail(ready) /\ line' = line
    BY DEF lines!Take, ready, line
  <2> QED
    BY <2>1, <2>2, <2>3
<1>b. ASSUME NEW d, NEW finished,
             finished <=> d \in {"nl", "^D"} \/ Len(ready) + Len(Append(line, d)) = INPUT_BUF
      PROVE  lines!Type(d) <=>
               /\ Len(ready) + Len(line) < INPUT_BUF
               /\ ready' = IF finished THEN ready \o Append(line, d) ELSE ready
               /\ line' = IF finished THEN << >> ELSE Append(line, d)
  BY <1>b DEF lines!Type, ready, line
<1>c. lines!Next <=> \/ \E d \in {"x"} \cup {"nl", "^D"} : lines!Type(d)
                     \/ lines!Erase \/ lines!KillLine \/ lines!Take
  BY DEF lines!Next
<1>1. CASE Quiet
  BY <1>1, RingIs DEF Quiet, input
<1>2. CASE Backspace
  BY <1>2, <1>a, <1>c, BackspaceStep
<1>3. CASE KillLine
  BY <1>3, <1>a, <1>c, KillLineStep
<1>4. ASSUME NEW c \in Key, TypeChar(c) PROVE [lines!Next]_<<ready, line>>
  <2> DEFINE d == Stored(c)
             finished == d \in {"nl", "^D"} \/ Len(ready) + Len(Append(line, d)) = INPUT_BUF
  <2>1. /\ d \in Char
        /\ \/ UNCHANGED <<ready, line>>
           \/ /\ Len(ready) + Len(line) < INPUT_BUF
              /\ d \in {"nl", "^D"} \/ Len(ready) + Len(line) + 1 = INPUT_BUF
              /\ ready' = ready \o Append(line, d) /\ line' = << >>
           \/ /\ d \notin {"nl", "^D"} /\ Len(ready) + Len(line) + 1 < INPUT_BUF
              /\ ready' = ready /\ line' = Append(line, d)
    BY <1>4, TypeCharStep DEF LockInv, Types
  <2> HIDE DEF d
  <2>2. Len(Append(line, d)) = Len(line) + 1 /\ Len(line) \in Nat /\ Len(ready) \in Nat
    BY <2>1, RingFacts
  <2>3. \/ UNCHANGED <<ready, line>>
        \/ /\ Len(ready) + Len(line) < INPUT_BUF
           /\ ready' = IF finished THEN ready \o Append(line, d) ELSE ready
           /\ line' = IF finished THEN << >> ELSE Append(line, d)
    <3>1. CASE UNCHANGED <<ready, line>>
      BY <3>1
    <3>2. CASE /\ Len(ready) + Len(line) < INPUT_BUF
               /\ d \in {"nl", "^D"} \/ Len(ready) + Len(line) + 1 = INPUT_BUF
               /\ ready' = ready \o Append(line, d) /\ line' = << >>
      <4>1. finished
        BY <2>2, <3>2
      <4> HIDE DEF finished
      <4> QED
        BY <3>2, <4>1
    <3>3. CASE /\ d \notin {"nl", "^D"} /\ Len(ready) + Len(line) + 1 < INPUT_BUF
               /\ ready' = ready /\ line' = Append(line, d)
      <4>1. ~finished /\ Len(ready) + Len(line) < INPUT_BUF
        BY <2>2, <3>3, Constants
      <4> HIDE DEF finished
      <4> QED
        BY <3>3, <4>1
    <3> QED
      BY <2>1, <3>1, <3>2, <3>3
  <2> HIDE DEF finished
  <2>4. UNCHANGED <<ready, line>> \/ lines!Type(d)
    BY <2>3, <1>b DEF finished
  <2> QED
    BY <2>1, <2>4, <1>c DEF Char
<1>5. ASSUME NEW p \in Proc, ReadChar(p) \/ ReadEOF(p) PROVE [lines!Next]_<<ready, line>>
  BY <1>5, <1>a, <1>c, ReadStep
<1> QED
  BY <1>1, <1>2, <1>3, <1>4, <1>5, RingSteps

\* The ring is an editor of lines: what is typed is read in order, once, when its
\* line is finished, and what is erased never.
THEOREM RefinesLineInputHolds == Spec => RefinesLineInput
<1>1. Init => lines!Init
  <2> SUFFICES ASSUME Init PROVE lines!Init
    OBVIOUS
  <2>1. RingTypes /\ r = w /\ w = e
    BY InitEstablishes DEF Inv, RingInv, Init
  <2>2. ready = << >> /\ line = << >>
    BY <2>1, RingFacts
  <2> QED
    BY <2>2 DEF lines!Init, ready, line
<1> QED
  BY <1>1, NextRefines, InvariantHolds, PTL DEF Spec, RefinesLineInput, lines!Spec, ready, line
=============================================================================
