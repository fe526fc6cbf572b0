----------------------------- MODULE DiskProofs -----------------------------
(***************************************************************************)
(* The buffer cache and the disk driver for any number of processes,       *)
(* blocks and buffers: the counts and the queue are exact, a buffer is     *)
(* out of reach only while it is used, and they are a store of blocks.     *)
(***************************************************************************)
EXTENDS Disk, FiniteSetTheorems, TLAPS

Holding == {"iderw", "wait", "woken", "hold"}
Waiting == {"iderw", "wait"}

Types ==
  /\ buf \in [Buf -> [blockno : Block \cup {NoBlock}, valid : BOOLEAN, dirty : BOOLEAN,
                      refcnt : Nat, data : Data]]
  /\ lock \in [Buf -> Hand \cup {Nobody}]
  /\ idequeue \in Seq(Buf)
  /\ disk \in [Block -> Data]
  /\ pc \in [Hand -> Label]
  /\ bp \in [Hand -> Buf \cup {0}]

\* The list links every buffer once.
Linked ==
  /\ lru \in [Buf -> Buf]
  /\ \A j, k \in Buf : lru[j] = lru[k] => j = k
  /\ \A i \in Buf : \E k \in Buf : lru[k] = i

\* A block has one buffer, and only what was read is changed.
Blocks ==
  /\ \A i, j \in Buf : buf[i].blockno = buf[j].blockno /\ buf[i].blockno # NoBlock => i = j
  /\ \A i \in Buf : (buf[i].dirty => buf[i].valid) /\ (buf[i].valid => buf[i].blockno \in Block)

Refs ==
  /\ \A i \in Buf : buf[i].refcnt = Cardinality(Users(i))
  /\ \A p \in Hand : pc[p] # "idle" => bp[p] \in Buf /\ buf[bp[p]].blockno \in Block

\* The processes past acquiresleep are the holders of the locks, and what each
\* knows of its buffer.
Locks ==
  /\ \A p \in Hand : pc[p] \in Holding => lock[bp[p]] = p
  /\ \A i \in Buf : lock[i] # Nobody => bp[lock[i]] = i /\ pc[lock[i]] \in Holding
  /\ \A p \in Hand : pc[p] \in Waiting => buf[bp[p]].dirty \/ ~buf[bp[p]].valid
  /\ \A p \in Hand : pc[p] \in {"woken", "hold"} => buf[bp[p]].valid
  /\ \A p \in Hand : pc[p] = "woken" => ~buf[bp[p]].dirty

\* The queue has the requests of the processes that wait, each once.
Queued ==
  /\ \A j, k \in DOMAIN idequeue : idequeue[j] = idequeue[k] => j = k
  /\ \A k \in DOMAIN idequeue : \E p \in Hand : pc[p] = "wait" /\ bp[p] = idequeue[k]
  /\ \A p \in Hand : pc[p] = "wait" => \E k \in DOMAIN idequeue : idequeue[k] = bp[p]

\* The drive has the first request, or has finished it.
Driven ==
  \/ idequeue = << >> /\ drive = NoRequest
  \/ idequeue # << >> /\ drive = Request(Head(idequeue))
  \/ /\ idequeue # << >> /\ drive = [NoRequest EXCEPT !.state = "interrupt"]
     /\ LET i == Head(idequeue) IN buf[i].dirty => disk[buf[i].blockno] = buf[i].data

\* A clean buffer holds what is on the disk.
Clean ==
  \A i \in Buf :
    buf[i].valid /\ ~buf[i].dirty /\ buf[i].blockno \notin BadBlock
      => disk[buf[i].blockno] = buf[i].data

Inv == Types /\ Linked /\ Blocks /\ Refs /\ Locks /\ Queued /\ Driven /\ Clean
-----------------------------------------------------------------------------
(* The buffers *)

\* Buffers are numbered from 1.
LEMMA BufIs == NBUF \in Nat /\ Buf = 1..NBUF /\ 0 \notin Buf /\ Buf \subseteq Nat
  BY DiskAssumption DEF Buf

\* There are two hands to a process.
LEMMA HandFinite == IsFiniteSet(Hand)
<1>1. IsFiniteSet({1, 2})
  <2>1. IsFiniteSet({1})
    BY FS_Singleton
  <2>2. IsFiniteSet({1} \cup {2})
    BY <2>1, FS_AddElement
  <2>3. {1, 2} = {1} \cup {2}
    OBVIOUS
  <2> QED
    BY <2>2, <2>3
<1> QED
  BY <1>1, DiskAssumption, FS_Product DEF Hand

\* A buffer has finitely many users.
LEMMA UsersFinite == \A i : IsFiniteSet(Users(i)) /\ Users(i) \subseteq Hand
  BY HandFinite, FS_Subset DEF Users

\* A buffer that nobody uses is not locked.
LEMMA UnusedFree ==
  ASSUME Inv, NEW i \in Buf, buf[i].refcnt = 0
  PROVE  Users(i) = {} /\ lock[i] = Nobody
<1>1. Users(i) = {}
  <2>1. IsFiniteSet(Users(i))
    BY UsersFinite
  <2>2. Cardinality(Users(i)) = 0
    BY DEF Inv, Refs
  <2> QED
    BY <2>1, <2>2, FS_EmptySet
<1>2. ASSUME lock[i] # Nobody PROVE lock[i] \in Users(i)
  <2>1. lock[i] \in Hand
    BY <1>2 DEF Inv, Types
  <2>2. bp[lock[i]] = i /\ pc[lock[i]] # "idle"
    BY <1>2 DEF Inv, Locks, Holding
  <2> QED
    BY <2>1, <2>2 DEF Users
<1> QED
  BY <1>1, <1>2

\* The first request is of one process, which waits with the buffer locked.
LEMMA FirstRequest ==
  ASSUME Inv, idequeue # << >>
  PROVE  /\ Head(idequeue) \in Buf /\ Len(idequeue) \in Nat \ {0}
         /\ Head(idequeue) = idequeue[1] /\ 1 \in DOMAIN idequeue
         /\ \E p \in Hand : pc[p] = "wait" /\ bp[p] = Head(idequeue)
  BY DEF Inv, Types, Queued

-----------------------------------------------------------------------------
(* The invariant *)

\* Another process comes to use buffer i.
LEMMA NewUser ==
  ASSUME Inv, NEW p \in Hand, NEW i \in Buf, pc[p] = "idle",
         pc' = [pc EXCEPT ![p] = "lock"], bp' = [bp EXCEPT ![p] = i]
  PROVE  /\ Cardinality(Users(i)') = Cardinality(Users(i)) + 1
         /\ \A j \in Buf : j # i => Users(j)' = Users(j)
<1>1. Users(i)' = Users(i) \cup {p}
  BY DEF Inv, Types, Users
<1>2. p \notin Users(i)
  BY DEF Users
<1>3. Cardinality(Users(i) \cup {p}) = Cardinality(Users(i)) + 1
  BY <1>2, UsersFinite, FS_AddElement
<1>4. \A j \in Buf : j # i => Users(j)' = Users(j)
  BY DEF Inv, Types, Users
<1> QED
  BY <1>1, <1>3, <1>4

\* One more process waits for a buffer.
LEMMA BgetCachedPreserves ==
  ASSUME Inv, NEW p \in Hand, NEW b \in Block, BgetCached(p, b)
  PROVE  Inv'
<1>0. PICK i \in Buf : /\ buf[i].blockno = b /\ bp' = [bp EXCEPT ![p] = i]
                      /\ buf' = [buf EXCEPT ![i].refcnt = @ + 1]
  BY DEF BgetCached, Cached
<1>11. /\ Cardinality(Users(i)') = Cardinality(Users(i)) + 1
       /\ \A j \in Buf : j # i => Users(j)' = Users(j)
  BY <1>0, NewUser DEF BgetCached, Go
<1> USE DEF Inv, driver, Go, BgetCached
<1>1. Types'
  <2>1. buf'[i] \in [blockno : Block \cup {NoBlock}, valid : BOOLEAN, dirty : BOOLEAN,
                     refcnt : Nat, data : Data]
    <3>1. buf'[i] = [buf[i] EXCEPT !.refcnt = @ + 1]
      BY <1>0 DEF Types
    <3>2. buf[i] \in [blockno : Block \cup {NoBlock}, valid : BOOLEAN, dirty : BOOLEAN,
                     refcnt : Nat, data : Data]
      BY DEF Types
    <3>3. buf[i].refcnt + 1 \in Nat
      BY <3>2
    <3> QED
      BY <3>1, <3>2, <3>3
  <2>2. \A j \in Buf : j # i => buf'[j] = buf[j]
    BY <1>0 DEF Types
  <2>3. DOMAIN buf' = Buf /\ buf' = [j \in Buf |-> buf'[j]]
    BY <1>0 DEF Types
  <2>4. buf' \in [Buf -> [blockno : Block \cup {NoBlock}, valid : BOOLEAN, dirty : BOOLEAN,
                         refcnt : Nat, data : Data]]
    BY <2>1, <2>2, <2>3 DEF Types
  <2> QED
    BY <2>4, <1>0 DEF Types, Label
<1>2. Linked'
  BY DEF Linked
<1>3. Blocks'
  BY <1>0 DEF Types, Blocks
<1>4. Refs'
  <2>1. buf'[i].refcnt = Cardinality(Users(i)')
    BY <1>0, <1>11 DEF Types, Refs
  <2>2. ASSUME NEW j \in Buf, j # i PROVE buf'[j].refcnt = Cardinality(Users(j)')
    BY <2>2, <1>0, <1>11 DEF Types, Refs
  <2>3. \A q \in Hand : pc'[q] # "idle" => bp'[q] \in Buf /\ buf'[bp'[q]].blockno \in Block
    BY <1>0 DEF Types, Refs
  <2> QED
    BY <2>1, <2>2, <2>3 DEF Refs
<1>5. Locks'
  BY <1>0 DEF Types, Refs, Locks, Holding, Waiting
<1>6. Queued'
  BY <1>0 DEF Types, Queued
<1>7. Driven'
  BY <1>0, FirstRequest DEF Types, Driven, Request
<1>8. Clean'
  BY <1>0 DEF Types, Clean
<1> QED
  BY <1>1, <1>2, <1>3, <1>4, <1>5, <1>6, <1>7, <1>8

\* A buffer without a user and without changes gets another block.
LEMMA BgetRecyclePreserves ==
  ASSUME Inv, NEW p \in Hand, NEW b \in Block, BgetRecycle(p, b)
  PROVE  Inv'
<1>0. PICK i \in Buf : /\ buf[i].refcnt = 0 /\ ~buf[i].dirty /\ bp' = [bp EXCEPT ![p] = i]
                      /\ buf' = [buf EXCEPT ![i] = [@ EXCEPT !.blockno = b, !.valid = FALSE,
                                                             !.dirty = FALSE, !.refcnt = 1]]
  BY DEF BgetRecycle, Victim, Recyclable
<1>10. Users(i) = {} /\ lock[i] = Nobody
  BY <1>0, UnusedFree
<1>11. /\ Cardinality(Users(i)') = 1
       /\ \A j \in Buf : j # i => Users(j)' = Users(j)
  <2>1. /\ Cardinality(Users(i)') = Cardinality(Users(i)) + 1
        /\ \A j \in Buf : j # i => Users(j)' = Users(j)
    BY <1>0, NewUser DEF BgetRecycle, Go
  <2>2. Cardinality(Users(i)) = 0
    BY <1>10, FS_EmptySet
  <2> QED
    BY <2>1, <2>2
<1> USE DEF Inv, driver, Go, BgetRecycle
<1>1. Types'
  <2>1. buf'[i] \in [blockno : Block \cup {NoBlock}, valid : BOOLEAN, dirty : BOOLEAN,
                     refcnt : Nat, data : Data]
    <3>1. buf[i] \in [blockno : Block \cup {NoBlock}, valid : BOOLEAN, dirty : BOOLEAN,
                      refcnt : Nat, data : Data]
      BY DEF Types
    <3>2. buf'[i] = [buf[i] EXCEPT !.blockno = b, !.valid = FALSE, !.dirty = FALSE, !.refcnt = 1]
      BY <1>0 DEF Types
    <3> HIDE DEF Inv, driver, Go, BgetRecycle
    <3>3. buf'[i] = [blockno |-> b, valid |-> FALSE, dirty |-> FALSE, refcnt |-> 1,
                     data |-> buf[i].data]
      BY <3>1, <3>2
    <3>4. buf[i].data \in Data
      BY <3>1
    <3> QED
      BY <3>3, <3>4
  <2>2. \A j \in Buf : j # i => buf'[j] = buf[j]
    BY <1>0 DEF Types
  <2>3. DOMAIN buf' = Buf /\ buf' = [j \in Buf |-> buf'[j]]
    BY <1>0 DEF Types
  <2>4. buf' \in [Buf -> [blockno : Block \cup {NoBlock}, valid : BOOLEAN, dirty : BOOLEAN,
                         refcnt : Nat, data : Data]]
    BY <2>1, <2>2, <2>3 DEF Types
  <2> QED
    BY <2>4, <1>0 DEF Types, Label
<1>2. Linked'
  BY DEF Linked
<1>3. Blocks'
  BY <1>0, DiskAssumption DEF Types, Blocks, Cached
<1>4. Refs'
  <2>1. buf'[i].refcnt = Cardinality(Users(i)')
    BY <1>0, <1>11 DEF Types, Refs
  <2>2. ASSUME NEW j \in Buf, j # i PROVE buf'[j].refcnt = Cardinality(Users(j)')
    BY <2>2, <1>0, <1>11 DEF Types, Refs
  <2>3. \A q \in Hand : pc'[q] # "idle" => bp'[q] \in Buf /\ buf'[bp'[q]].blockno \in Block
    BY <1>0, <1>10 DEF Types, Refs
  <2> QED
    BY <2>1, <2>2, <2>3 DEF Refs
<1>5. Locks'
  BY <1>0, <1>10 DEF Types, Refs, Locks, Holding, Waiting, Users
<1>6. Queued'
  BY <1>0 DEF Types, Queued
<1>7. Driven'
  BY <1>0, <1>10, FirstRequest DEF Types, Driven, Request, Users
<1>8. Clean'
  BY <1>0 DEF Types, Clean
<1> QED
  BY <1>1, <1>2, <1>3, <1>4, <1>5, <1>6, <1>7, <1>8

\* A process gets the lock of its buffer.
LEMMA BreadPreserves ==
  ASSUME Inv, NEW p \in Hand, Bread(p)
  PROVE  Inv'
<1> USE DEF Inv, driver, Go, Bread
<1>1. Types'
  BY BufIs DEF Types, Label
<1>2. Linked'
  BY DEF Linked
<1>3. Blocks'
  BY DEF Types, Blocks
<1>4. Refs'
  BY BufIs DEF Types, Refs, Users
<1>5. Locks'
  <2>1. ASSUME NEW q \in Hand PROVE pc'[q] \in Holding => lock'[bp'[q]] = q
    BY <2>1, DiskAssumption DEF Types, Refs, Locks, Holding, Label
  <2>2. ASSUME NEW i \in Buf PROVE lock'[i] # Nobody => bp'[lock'[i]] = i /\ pc'[lock'[i]] \in Holding
    BY <2>2, DiskAssumption DEF Types, Refs, Locks, Holding
  <2>3. ASSUME NEW q \in Hand
        PROVE  /\ pc'[q] \in Waiting => buf'[bp'[q]].dirty \/ ~buf'[bp'[q]].valid
               /\ pc'[q] \in {"woken", "hold"} => buf'[bp'[q]].valid
               /\ pc'[q] = "woken" => ~buf'[bp'[q]].dirty
    BY <2>3 DEF Types, Locks, Waiting
  <2> QED
    BY <2>1, <2>2, <2>3 DEF Locks
<1>6. Queued'
  BY DEF Types, Refs, Queued
<1>7. Driven'
  BY FirstRequest DEF Types, Driven, Request
<1>8. Clean'
  BY DEF Types, Clean
<1> QED
  BY <1>1, <1>2, <1>3, <1>4, <1>5, <1>6, <1>7, <1>8

\* A holder changes its buffer for the log.
LEMMA LogWritePreserves ==
  ASSUME Inv, NEW p \in Hand, NEW d \in Data, LogWrite(p, d)
  PROVE  Inv'
<1> USE DEF Inv, driver, Go, LogWrite
<1>0. bp[p] \in Buf /\ lock[bp[p]] = p /\ buf[bp[p]].valid /\ buf[bp[p]].blockno \in Block
  BY DEF Types, Refs, Locks, Holding
<1>n. /\ buf'[bp[p]].dirty /\ buf'[bp[p]].data = d
      /\ buf'[bp[p]].valid = buf[bp[p]].valid /\ buf'[bp[p]].refcnt = buf[bp[p]].refcnt
      /\ buf'[bp[p]].blockno = buf[bp[p]].blockno
      /\ \A i \in Buf : i # bp[p] => buf'[i] = buf[i]
  BY <1>0 DEF Types
<1>1. Types'
  <2>1. buf'[bp[p]] \in [blockno : Block \cup {NoBlock}, valid : BOOLEAN, dirty : BOOLEAN,
                         refcnt : Nat, data : Data]
    <3>1. buf'[bp[p]] = [blockno |-> buf[bp[p]].blockno, valid |-> buf[bp[p]].valid,
                         dirty |-> TRUE, refcnt |-> buf[bp[p]].refcnt, data |-> d]
      BY <1>0 DEF Types
    <3>2. /\ buf[bp[p]].blockno \in Block \cup {NoBlock} /\ buf[bp[p]].valid \in BOOLEAN
          /\ buf[bp[p]].refcnt \in Nat
      BY <1>0 DEF Types
    <3> QED
      BY ONLY <3>1, <3>2, d \in Data
  <2>2. buf' = [i \in Buf |-> buf'[i]]
    BY DEF Types
  <2>3. buf' \in [Buf -> [blockno : Block \cup {NoBlock}, valid : BOOLEAN, dirty : BOOLEAN,
                         refcnt : Nat, data : Data]]
    BY <1>n, <2>1, <2>2 DEF Types
  <2> QED
    BY <2>3 DEF Types, Label
<1>2. Linked'
  BY DEF Linked
<1>3. Blocks'
  BY <1>0 DEF Types, Blocks
<1>4. Refs'
  <2>1. \A i : Users(i)' = Users(i)
    BY DEF Types, Users
  <2>2. \A i \in Buf : buf'[i].refcnt = buf[i].refcnt /\ buf'[i].blockno = buf[i].blockno
    BY <1>n
  <2>3. \A q \in Hand : (pc'[q] # "idle" => pc[q] # "idle") /\ bp'[q] = bp[q]
    BY DEF Types
  <2> HIDE DEF LogWrite
  <2> QED
    BY <2>1, <2>2, <2>3 DEF Refs
<1>5. Locks'
  <2>1. \A q \in Hand : q # p => pc'[q] = pc[q] /\ (pc[q] \in Holding => bp[q] # bp[p])
    BY <1>0 DEF Types, Locks
  <2>2. /\ pc[p] = "hold" /\ pc'[p] \in {"hold", "iderw"} /\ lock' = lock /\ bp' = bp
    BY DEF Types
  <2>3. \A q \in Hand : pc[q] # "idle" => bp[q] \in Buf
    BY DEF Refs
  <2> HIDE DEF LogWrite
  <2>4. /\ \A q \in Hand : pc'[q] \in Holding => lock'[bp'[q]] = q
        /\ \A i \in Buf : lock'[i] # Nobody => bp'[lock'[i]] = i /\ pc'[lock'[i]] \in Holding
    <3>1. pc'[p] \in Holding /\ pc[p] \in Holding /\ lock[bp[p]] = p
      BY <1>0, <2>2 DEF Holding
    <3>2. \A i \in Buf : lock[i] # Nobody => lock[i] \in Hand
      BY DEF Types
    <3>3. \A q \in Hand : pc'[q] \in Holding <=> pc[q] \in Holding
      BY <2>1, <3>1
    <3> QED
      BY <2>2, <3>2, <3>3 DEF Locks
  <2>5. ASSUME NEW q \in Hand
        PROVE  /\ pc'[q] \in Waiting => buf'[bp'[q]].dirty \/ ~buf'[bp'[q]].valid
               /\ pc'[q] \in {"woken", "hold"} => buf'[bp'[q]].valid
               /\ pc'[q] = "woken" => ~buf'[bp'[q]].dirty
    <3>1. CASE q = p
      BY <1>0, <1>n, <2>2, <3>1 DEF Waiting
    <3>2. CASE q # p
      BY <1>n, <2>1, <2>2, <2>3, <3>2 DEF Locks, Holding, Waiting
    <3> QED
      BY <3>1, <3>2
  <2> QED
    BY <2>4, <2>5 DEF Locks
<1>6. Queued'
  BY DEF Types, Refs, Queued
<1>7. Driven'
  <2>1. \A j \in Buf : (\E q \in Hand : pc[q] = "wait" /\ bp[q] = j) => buf'[j] = buf[j]
    BY <1>0 DEF Types, Locks, Holding
  <2> QED
    BY <2>1, FirstRequest DEF Driven, Request
<1>8. Clean'
  BY <1>0 DEF Types, Clean
<1> QED
  BY <1>1, <1>2, <1>3, <1>4, <1>5, <1>6, <1>7, <1>8

\* A holder changes its buffer and takes it to the driver.
LEMMA BwritePreserves ==
  ASSUME Inv, NEW p \in Hand, NEW d \in Data, Bwrite(p, d)
  PROVE  Inv'
<1> USE DEF Inv, driver, Go, Bwrite
<1>0. bp[p] \in Buf /\ lock[bp[p]] = p /\ buf[bp[p]].valid /\ buf[bp[p]].blockno \in Block
  BY DEF Types, Refs, Locks, Holding
<1>n. /\ buf'[bp[p]].dirty /\ buf'[bp[p]].data = d
      /\ buf'[bp[p]].valid = buf[bp[p]].valid /\ buf'[bp[p]].refcnt = buf[bp[p]].refcnt
      /\ buf'[bp[p]].blockno = buf[bp[p]].blockno
      /\ \A i \in Buf : i # bp[p] => buf'[i] = buf[i]
  BY <1>0 DEF Types
<1>1. Types'
  <2>1. buf'[bp[p]] \in [blockno : Block \cup {NoBlock}, valid : BOOLEAN, dirty : BOOLEAN,
                         refcnt : Nat, data : Data]
    <3>1. buf'[bp[p]] = [blockno |-> buf[bp[p]].blockno, valid |-> buf[bp[p]].valid,
                         dirty |-> TRUE, refcnt |-> buf[bp[p]].refcnt, data |-> d]
      BY <1>0 DEF Types
    <3>2. /\ buf[bp[p]].blockno \in Block \cup {NoBlock} /\ buf[bp[p]].valid \in BOOLEAN
          /\ buf[bp[p]].refcnt \in Nat
      BY <1>0 DEF Types
    <3> QED
      BY ONLY <3>1, <3>2, d \in Data
  <2>2. buf' = [i \in Buf |-> buf'[i]]
    BY DEF Types
  <2>3. buf' \in [Buf -> [blockno : Block \cup {NoBlock}, valid : BOOLEAN, dirty : BOOLEAN,
                         refcnt : Nat, data : Data]]
    BY <1>n, <2>1, <2>2 DEF Types
  <2> QED
    BY <2>3 DEF Types, Label
<1>2. Linked'
  BY DEF Linked
<1>3. Blocks'
  BY <1>0 DEF Types, Blocks
<1>4. Refs'
  <2>1. \A i : Users(i)' = Users(i)
    BY DEF Types, Users
  <2>2. \A i \in Buf : buf'[i].refcnt = buf[i].refcnt /\ buf'[i].blockno = buf[i].blockno
    BY <1>n
  <2>3. \A q \in Hand : (pc'[q] # "idle" => pc[q] # "idle") /\ bp'[q] = bp[q]
    BY DEF Types
  <2> HIDE DEF Bwrite
  <2> QED
    BY <2>1, <2>2, <2>3 DEF Refs
<1>5. Locks'
  <2>1. \A q \in Hand : q # p => pc'[q] = pc[q] /\ (pc[q] \in Holding => bp[q] # bp[p])
    BY <1>0 DEF Types, Locks
  <2>2. /\ pc[p] = "hold" /\ pc'[p] \in {"hold", "iderw"} /\ lock' = lock /\ bp' = bp
    BY DEF Types
  <2>3. \A q \in Hand : pc[q] # "idle" => bp[q] \in Buf
    BY DEF Refs
  <2> HIDE DEF Bwrite
  <2>4. /\ \A q \in Hand : pc'[q] \in Holding => lock'[bp'[q]] = q
        /\ \A i \in Buf : lock'[i] # Nobody => bp'[lock'[i]] = i /\ pc'[lock'[i]] \in Holding
    <3>1. pc'[p] \in Holding /\ pc[p] \in Holding /\ lock[bp[p]] = p
      BY <1>0, <2>2 DEF Holding
    <3>2. \A i \in Buf : lock[i] # Nobody => lock[i] \in Hand
      BY DEF Types
    <3>3. \A q \in Hand : pc'[q] \in Holding <=> pc[q] \in Holding
      BY <2>1, <3>1
    <3> QED
      BY <2>2, <3>2, <3>3 DEF Locks
  <2>5. ASSUME NEW q \in Hand
        PROVE  /\ pc'[q] \in Waiting => buf'[bp'[q]].dirty \/ ~buf'[bp'[q]].valid
               /\ pc'[q] \in {"woken", "hold"} => buf'[bp'[q]].valid
               /\ pc'[q] = "woken" => ~buf'[bp'[q]].dirty
    <3>1. CASE q = p
      BY <1>0, <1>n, <2>2, <3>1 DEF Waiting
    <3>2. CASE q # p
      BY <1>n, <2>1, <2>2, <2>3, <3>2 DEF Locks, Holding, Waiting
    <3> QED
      BY <3>1, <3>2
  <2> QED
    BY <2>4, <2>5 DEF Locks
<1>6. Queued'
  BY DEF Types, Refs, Queued
<1>7. Driven'
  <2>1. \A j \in Buf : (\E q \in Hand : pc[q] = "wait" /\ bp[q] = j) => buf'[j] = buf[j]
    BY <1>0 DEF Types, Locks, Holding
  <2> QED
    BY <2>1, FirstRequest DEF Driven, Request
<1>8. Clean'
  BY <1>0 DEF Types, Clean
<1> QED
  BY <1>1, <1>2, <1>3, <1>4, <1>5, <1>6, <1>7, <1>8

\* A holder gives the lock back.
LEMMA BrelsePreserves ==
  ASSUME Inv, NEW p \in Hand, Brelse(p)
  PROVE  Inv'
<1> USE DEF Inv, driver, Go, Brelse
<1>1. Types'
  BY BufIs DEF Types, Label
<1>2. Linked'
  BY DEF Linked
<1>3. Blocks'
  BY DEF Types, Blocks
<1>4. Refs'
  BY BufIs DEF Types, Refs, Users
<1>5. Locks'
  BY BufIs DEF Types, Refs, Locks, Holding, Waiting
<1>6. Queued'
  BY DEF Types, Refs, Queued
<1>7. Driven'
  BY FirstRequest DEF Types, Driven, Request
<1>8. Clean'
  BY DEF Types, Clean
<1> QED
  BY <1>1, <1>2, <1>3, <1>4, <1>5, <1>6, <1>7, <1>8

\* brelse's list: i comes first, and the others keep their order.
LEMMA FrontIs ==
  ASSUME Linked, NEW i \in Buf
  PROVE  /\ MoveToFront(i) \in [Buf -> Buf]
         /\ \E k \in Buf : /\ lru[k] = i
                           /\ \A j \in Buf : MoveToFront(i)[j] =
                                IF j = 1 THEN i ELSE IF j <= k THEN lru[j - 1] ELSE lru[j]
<1> DEFINE k == CHOOSE k \in Buf : lru[k] = i
<1>1. k \in Buf /\ lru[k] = i
  BY DEF Linked
<1> HIDE DEF k
<1>2. MoveToFront(i) = <<i>> \o (SubSeq(lru, 1, k - 1) \o SubSeq(lru, k + 1, Len(lru)))
  BY DEF MoveToFront, RemoveAt, k
<1>3. lru \in Seq(Buf) /\ Len(lru) = NBUF /\ NBUF \in Nat /\ k \in 1..NBUF /\ i \in 1..NBUF
  <2>1. NBUF \in Nat /\ Buf = 1..NBUF /\ lru \in [1..NBUF -> Buf]
    BY BufIs DEF Linked
  <2>2. lru \in Seq(Buf) /\ Len(lru) = NBUF
    BY <2>1
  <2> QED
    BY <1>1, <2>1, <2>2
<1> DEFINE s == SubSeq(lru, 1, k - 1)
           t == SubSeq(lru, k + 1, NBUF)
<1>4. /\ s \in Seq(Buf) /\ Len(s) = k - 1
      /\ \A j \in 1..(k - 1) : s[j] = lru[j]
  BY <1>3
<1>5. /\ t \in Seq(Buf) /\ Len(t) = NBUF - k
      /\ \A j \in 1..(NBUF - k) : t[j] = lru[k + j]
  BY <1>3
<1> HIDE DEF s, t
<1> DEFINE u == s \o t
<1>6. /\ u \in Seq(Buf) /\ Len(u) = NBUF - 1
      /\ \A j \in 1..(NBUF - 1) : u[j] = IF j < k THEN lru[j] ELSE lru[j + 1]
  <2>1. u \in Seq(Buf) /\ Len(u) = (k - 1) + (NBUF - k)
    BY <1>4, <1>5
  <2>2. \A j \in 1..((k - 1) + (NBUF - k)) : u[j] = IF j <= k - 1 THEN s[j] ELSE t[j - (k - 1)]
    BY <1>4, <1>5
  <2>3. ASSUME NEW j \in 1..(NBUF - 1) PROVE u[j] = IF j < k THEN lru[j] ELSE lru[j + 1]
    <3>0. j \in 1..((k - 1) + (NBUF - k))
      BY <1>3
    <3>1. u[j] = IF j <= k - 1 THEN s[j] ELSE t[j - (k - 1)]
      BY <2>2, <3>0
    <3>2. CASE j < k
      BY <1>3, <1>4, <3>1, <3>2
    <3>3. CASE ~(j < k)
      <4>1. j - (k - 1) \in 1..(NBUF - k) /\ k + (j - (k - 1)) = j + 1
        BY <1>3, <3>3
      <4>2. t[j - (k - 1)] = lru[k + (j - (k - 1))]
        BY <1>5, <4>1
      <4> QED
        BY <1>3, <3>1, <3>3, <4>1, <4>2
    <3> QED
      BY <3>2, <3>3
  <2> QED
    BY <1>3, <2>1, <2>3
<1> HIDE DEF u
<1>7. MoveToFront(i) = <<i>> \o u
  BY <1>2, <1>3 DEF s, t, u
<1>8. /\ <<i>> \o u \in Seq(Buf) /\ Len(<<i>> \o u) = NBUF
      /\ \A j \in 1..NBUF : (<<i>> \o u)[j] =
           IF j = 1 THEN i ELSE IF j <= k THEN lru[j - 1] ELSE lru[j]
  BY <1>3, <1>6
<1>9. MoveToFront(i) \in [Buf -> Buf]
  <2>1. MoveToFront(i) \in Seq(Buf) /\ Len(MoveToFront(i)) = NBUF
    BY <1>7, <1>8
  <2>2. MoveToFront(i) \in [1..NBUF -> Buf]
    BY <2>1
  <2> QED
    BY <2>2, BufIs
<1>10. \A j \in Buf : MoveToFront(i)[j] =
         IF j = 1 THEN i ELSE IF j <= k THEN lru[j - 1] ELSE lru[j]
  BY <1>7, <1>8, BufIs
<1> QED
  BY <1>1, <1>9, <1>10

\* So the list still links every buffer once.
LEMMA FrontLinked ==
  ASSUME Linked, NEW i \in Buf, lru' = MoveToFront(i)
  PROVE  Linked'
<1>1. lru' \in [Buf -> Buf]
  BY FrontIs
<1>2. PICK k \in Buf :
        /\ lru[k] = i
        /\ \A j \in Buf : lru'[j] = IF j = 1 THEN i ELSE IF j <= k THEN lru[j - 1] ELSE lru[j]
  BY FrontIs
<1>3. 1..NBUF = Buf /\ NBUF \in Nat /\ \A m \in Buf : m # 1 => m - 1 \in Buf
  BY BufIs
<1>4. ASSUME NEW l \in Buf, NEW j \in Buf, lru'[l] = lru'[j], l < j PROVE FALSE
  <2>1. lru'[j] = IF j <= k THEN lru[j - 1] ELSE lru[j]
    BY <1>2, <1>3, <1>4
  <2>2. \A m \in Buf : lru[m] = i => m = k
    BY <1>2 DEF Linked
  <2>3. CASE l = 1
    BY <1>2, <1>3, <1>4, <2>1, <2>2, <2>3
  <2>4. CASE l # 1
    <3>1. lru'[l] = IF l <= k THEN lru[l - 1] ELSE lru[l]
      BY <1>2, <2>4
    <3>2. l - 1 \in Buf /\ j - 1 \in Buf
      BY <1>3, <1>4, <2>4
    <3>3. CASE l <= k /\ j <= k
      <4>1. l - 1 = j - 1
        BY <1>4, <2>1, <3>1, <3>2, <3>3 DEF Linked
      <4> QED
        BY <1>3, <1>4, <4>1
    <3>4. CASE l <= k /\ ~(j <= k)
      <4>1. l - 1 = j
        BY <1>4, <2>1, <3>1, <3>2, <3>4 DEF Linked
      <4> QED
        BY <1>3, <1>4, <4>1
    <3>5. CASE ~(l <= k) /\ j <= k
      BY <1>3, <1>4, <3>5
    <3>6. CASE ~(l <= k) /\ ~(j <= k)
      <4>1. l = j
        BY <1>4, <2>1, <3>1, <3>6 DEF Linked
      <4> QED
        BY <1>3, <1>4, <4>1
    <3> QED
      BY <3>3, <3>4, <3>5, <3>6
  <2> QED
    BY <2>3, <2>4
<1>5. ASSUME NEW l \in Buf PROVE \E m \in Buf : lru'[m] = l
  <2>1. PICK m \in Buf : lru[m] = l
    BY DEF Linked
  <2>2. CASE m = k
    <3>1. 1 \in Buf /\ lru'[1] = l
      BY <1>2, <1>3, <2>1, <2>2
    <3> QED
      BY <3>1
  <2>3. CASE m < k
    <3>1. m + 1 \in Buf /\ m + 1 # 1 /\ m + 1 <= k /\ (m + 1) - 1 = m
      BY <1>3, <2>3
    <3>2. lru'[m + 1] = lru[m]
      BY <1>2, <3>1
    <3> QED
      BY <2>1, <3>1, <3>2
  <2>4. CASE m > k
    <3>1. m # 1 /\ ~(m <= k)
      BY <1>3, <2>4
    <3> QED
      BY <1>2, <2>1, <3>1
  <2> QED
    BY <1>3, <2>2, <2>3, <2>4
<1>6. ASSUME NEW l \in Buf, NEW j \in Buf, lru'[l] = lru'[j] PROVE l = j
  BY <1>3, <1>4, <1>6
<1> QED
  BY <1>1, <1>5, <1>6 DEF Linked

\* A process stops using its buffer.
LEMMA BrelseUnrefPreserves ==
  ASSUME Inv, NEW p \in Hand, BrelseUnref(p)
  PROVE  Inv'
<1>0. PICK i \in Buf :
      /\ i = bp[p] /\ pc[p] = "brelse" /\ pc' = [pc EXCEPT ![p] = "idle"]
      /\ bp' = [bp EXCEPT ![p] = 0]
      /\ buf' = [buf EXCEPT ![i].refcnt = @ - 1]
  BY DEF Inv, Types, Refs, BrelseUnref, Go
<1>10. buf[i].refcnt - 1 \in Nat /\ Cardinality(Users(i)') = buf[i].refcnt - 1
  <2>1. p \in Users(i) /\ buf[i].refcnt = Cardinality(Users(i))
    BY <1>0 DEF Inv, Refs, Users
  <2>2. Users(i)' = Users(i) \ {p}
    BY <1>0, BufIs DEF Inv, Types, Users
  <2>3. /\ IsFiniteSet(Users(i) \ {p})
        /\ Cardinality(Users(i) \ {p}) = Cardinality(Users(i)) - 1
    BY <2>1, UsersFinite, FS_RemoveElement
  <2>4. Cardinality(Users(i) \ {p}) \in Nat
    BY <2>3, FS_CardinalityType
  <2> QED
    BY <2>1, <2>2, <2>3, <2>4
<1>11. \A j \in Buf : j # i => Users(j)' = Users(j)
  BY <1>0, BufIs DEF Inv, Types, Users
<1> USE DEF Inv, driver, Go, BrelseUnref
<1>1. Types'
  <2>1. buf'[i] \in [blockno : Block \cup {NoBlock}, valid : BOOLEAN, dirty : BOOLEAN,
                     refcnt : Nat, data : Data]
    <3>1. buf'[i] = [buf[i] EXCEPT !.refcnt = @ - 1]
      BY <1>0 DEF Types
    <3>2. buf[i] \in [blockno : Block \cup {NoBlock}, valid : BOOLEAN, dirty : BOOLEAN,
                     refcnt : Nat, data : Data]
      BY DEF Types
    <3> QED
      BY <1>10, <3>1, <3>2
  <2>2. \A j \in Buf : j # i => buf'[j] = buf[j]
    BY <1>0 DEF Types
  <2>3. DOMAIN buf' = Buf /\ buf' = [j \in Buf |-> buf'[j]]
    BY <1>0 DEF Types
  <2>4. buf' \in [Buf -> [blockno : Block \cup {NoBlock}, valid : BOOLEAN, dirty : BOOLEAN,
                         refcnt : Nat, data : Data]]
    <3>1. buf \in [Buf -> [blockno : Block \cup {NoBlock}, valid : BOOLEAN, dirty : BOOLEAN,
                           refcnt : Nat, data : Data]]
      BY DEF Types
    <3> HIDE DEF Inv, driver, Go, BrelseUnref
    <3> QED
      BY <2>1, <2>2, <2>3, <3>1
  <2> QED
    BY <2>4, <1>0 DEF Types, Label
<1>2. Linked'
  <2>1. CASE lru' = lru
    BY <2>1 DEF Linked
  <2>2. CASE lru' = MoveToFront(i)
    BY <2>2, FrontLinked
  <2> QED
    BY <1>0, <2>1, <2>2
<1>3. Blocks'
  BY DEF Types, Blocks
<1>4. Refs'
  <2>1. buf'[i].refcnt = Cardinality(Users(i)')
    BY <1>0, <1>10, <1>11 DEF Types, Refs
  <2>2. ASSUME NEW j \in Buf, j # i PROVE buf'[j].refcnt = Cardinality(Users(j)')
    BY <2>2, <1>0, <1>10, <1>11 DEF Types, Refs
  <2>3. \A q \in Hand : pc'[q] # "idle" => bp'[q] \in Buf /\ buf'[bp'[q]].blockno \in Block
    BY <1>0 DEF Types, Refs
  <2> QED
    BY <2>1, <2>2, <2>3 DEF Refs
<1>5. Locks'
  BY BufIs DEF Types, Refs, Locks, Holding, Waiting
<1>6. Queued'
  BY DEF Types, Refs, Queued
<1>7. Driven'
  BY FirstRequest DEF Types, Driven, Request
<1>8. Clean'
  BY DEF Types, Clean
<1> QED
  BY <1>1, <1>2, <1>3, <1>4, <1>5, <1>6, <1>7, <1>8

\* Append, and what it does to a queue of distinct elements.
LEMMA AppendIs ==
  ASSUME NEW S, NEW s \in Seq(S), NEW x \in S
  PROVE  /\ Append(s, x) \in Seq(S) /\ DOMAIN Append(s, x) = 1..(Len(s) + 1)
         /\ DOMAIN s = 1..Len(s) /\ Len(s) \in Nat
         /\ Append(s, x) # << >>
         /\ Append(s, x)[Len(s) + 1] = x
         /\ \A k \in 1..Len(s) : Append(s, x)[k] = s[k]
         /\ s = << >> => Head(Append(s, x)) = x
         /\ s # << >> => Head(Append(s, x)) = Head(s)
<1>1. Len(s) \in Nat /\ DOMAIN s = 1..Len(s)
  OBVIOUS
<1>2. /\ Append(s, x) \in Seq(S) /\ Len(Append(s, x)) = Len(s) + 1
      /\ Append(s, x)[Len(s) + 1] = x
      /\ \A k \in 1..Len(s) : Append(s, x)[k] = s[k]
  OBVIOUS
<1>3. DOMAIN Append(s, x) = 1..(Len(s) + 1)
  BY <1>1, <1>2
<1>4. Append(s, x) # << >>
  BY <1>1, <1>2
<1>5. Head(Append(s, x)) = Append(s, x)[1]
  BY <1>2, <1>4
<1>6. s = << >> => Len(s) = 0
  OBVIOUS
<1>7. s # << >> => Len(s) >= 1 /\ Head(s) = s[1]
  OBVIOUS
<1> QED
  BY <1>1, <1>2, <1>3, <1>4, <1>5, <1>6, <1>7

\* Tail, and what it does to the queue.
LEMMA TailIs ==
  ASSUME NEW S, NEW s \in Seq(S), s # << >>
  PROVE  /\ Tail(s) \in Seq(S) /\ Len(s) \in Nat \ {0}
         /\ DOMAIN s = 1..Len(s) /\ DOMAIN Tail(s) = 1..(Len(s) - 1)
         /\ \A k \in 1..(Len(s) - 1) : Tail(s)[k] = s[k + 1]
         /\ Head(s) = s[1] /\ Head(s) \in S
         /\ Tail(s) # << >> => Head(Tail(s)) = s[2] /\ s[2] \in S /\ 2 \in DOMAIN s
  OBVIOUS

\* A request joins the queue.
LEMMA IderwPreserves ==
  ASSUME Inv, NEW p \in Hand, Iderw(p)
  PROVE  Inv'
<1> USE DEF Inv, driver, Go, Iderw
<1>0. bp[p] \in Buf
  BY DEF Refs
<1>1. Types'
  <2>1. idequeue' \in Seq(Buf)
    BY <1>0, AppendIs DEF Types
  <2> QED
    BY <2>1 DEF Types, Label
<1>2. Linked'
  BY DEF Linked
<1>3. Blocks'
  BY DEF Types, Blocks
<1>4. Refs'
  BY BufIs DEF Types, Refs, Users
<1>5. Locks'
  BY BufIs DEF Types, Refs, Locks, Holding, Waiting
<1>6. Queued'
  <2>1. /\ DOMAIN idequeue' = 1..(Len(idequeue) + 1) /\ DOMAIN idequeue = 1..Len(idequeue)
        /\ Len(idequeue) \in Nat /\ idequeue'[Len(idequeue) + 1] = bp[p]
        /\ \A k \in 1..Len(idequeue) : idequeue'[k] = idequeue[k]
    BY <1>0, AppendIs DEF Types
  <2>2. \A k \in 1..Len(idequeue) : idequeue[k] # bp[p]
    BY <2>1 DEF Queued, Types, Locks, Holding
  <2>3. ASSUME NEW j \in DOMAIN idequeue', NEW k \in DOMAIN idequeue', idequeue'[j] = idequeue'[k]
        PROVE  j = k
    BY <2>1, <2>2, <2>3 DEF Queued
  <2>4. ASSUME NEW k \in DOMAIN idequeue'
        PROVE  \E q \in Hand : pc'[q] = "wait" /\ bp'[q] = idequeue'[k]
    <3>1. CASE k = Len(idequeue) + 1
      BY <2>1, <3>1 DEF Types
    <3>2. CASE k \in 1..Len(idequeue)
      <4>1. PICK q \in Hand : pc[q] = "wait" /\ bp[q] = idequeue[k]
        BY <2>1, <3>2 DEF Queued
      <4> QED
        BY <2>1, <3>2, <4>1 DEF Types
    <3> QED
      BY <2>1, <3>1, <3>2
  <2>5. ASSUME NEW q \in Hand, pc'[q] = "wait"
        PROVE  \E k \in DOMAIN idequeue' : idequeue'[k] = bp'[q]
    <3>1. CASE q = p
      BY <2>1, <3>1
    <3>2. CASE q # p
      <4>1. PICK k \in DOMAIN idequeue : idequeue[k] = bp[q]
        BY <2>5, <3>2 DEF Types, Queued
      <4> QED
        BY <2>1, <4>1
    <3> QED
      BY <3>1, <3>2
  <2> QED
    BY <2>3, <2>4, <2>5 DEF Queued
<1>7. Driven'
  <2>1. /\ idequeue' # << >>
        /\ idequeue = << >> => Head(idequeue') = bp[p]
        /\ idequeue # << >> => Head(idequeue') = Head(idequeue)
    BY <1>0, AppendIs DEF Types
  <2> QED
    BY <2>1 DEF Driven, Request
<1>8. Clean'
  BY DEF Types, Clean
<1> QED
  BY <1>1, <1>2, <1>3, <1>4, <1>5, <1>6, <1>7, <1>8

\* The drive finishes the first request.
LEMMA DriveDonePreserves ==
  ASSUME Inv, DriveDone
  PROVE  Inv'
<1> USE DEF Inv, driver, Go, DriveDone
<1>0. /\ idequeue # << >> /\ drive = Request(Head(idequeue))
      /\ Head(idequeue) \in Buf /\ buf[Head(idequeue)].blockno \in Block
  <2>1. idequeue # << >> /\ drive = Request(Head(idequeue))
    BY DEF Driven, NoRequest
  <2> QED
    BY <2>1, FirstRequest DEF Refs
<1>10. disk' = IF buf[Head(idequeue)].dirty
               THEN [disk EXCEPT ![buf[Head(idequeue)].blockno] = buf[Head(idequeue)].data]
               ELSE disk
  BY <1>0 DEF Request
<1>11. /\ buf[Head(idequeue)].blockno \in Block /\ buf[Head(idequeue)].data \in Data
       /\ disk \in [Block -> Data]
  BY <1>0 DEF Types
<1>1. Types'
  <2>1. disk' \in [Block -> Data]
    BY <1>10, <1>11
  <2> QED
    BY <2>1 DEF Types
<1>2. Linked'
  BY DEF Linked
<1>3. Blocks'
  BY DEF Types, Blocks
<1>4. Refs'
  BY BufIs DEF Types, Refs, Users
<1>5. Locks'
  BY BufIs DEF Types, Refs, Locks, Holding, Waiting
<1>6. Queued'
  BY DEF Types, Refs, Queued
<1>7. Driven'
  <2>1. buf[Head(idequeue)].dirty => disk'[buf[Head(idequeue)].blockno] = buf[Head(idequeue)].data
    BY <1>0, <1>10 DEF Types
  <2> QED
    BY <1>0, <2>1 DEF Driven
<1>8. Clean'
  <2> SUFFICES ASSUME NEW i \in Buf, buf[i].valid, ~buf[i].dirty, buf[i].blockno \notin BadBlock
               PROVE  disk'[buf[i].blockno] = buf[i].data
    BY DEF Clean
  <2>1. disk[buf[i].blockno] = buf[i].data /\ buf[i].blockno \in Block
    BY DEF Clean, Blocks
  <2>2. CASE buf[Head(idequeue)].dirty
    <3>1. buf[i].blockno # buf[Head(idequeue)].blockno
      BY <1>0, <2>1, <2>2, DiskAssumption DEF Blocks
    <3> QED
      BY <1>0, <1>10, <2>1, <2>2, <3>1 DEF Types
  <2>3. CASE ~buf[Head(idequeue)].dirty
    BY <1>10, <2>1, <2>3
  <2> QED
    BY <2>2, <2>3
<1> QED
  BY <1>1, <1>2, <1>3, <1>4, <1>5, <1>6, <1>7, <1>8

\* What ideintr does to the first buffer.
LEMMA IdeintrIs ==
  ASSUME Inv, Ideintr, NEW i, i = Head(idequeue)
  PROVE  /\ i \in Buf /\ buf[i].blockno \in Block /\ idequeue # << >>
         /\ \E d \in Data :
              /\ buf[i].dirty => d = buf[i].data
              /\ ~buf[i].dirty /\ buf[i].blockno \notin BadBlock => d = disk[buf[i].blockno]
              /\ buf' = [buf EXCEPT ![i] = [@ EXCEPT !.data = d, !.valid = TRUE, !.dirty = FALSE]]
         /\ buf[i].dirty => disk[buf[i].blockno] = buf[i].data
         /\ \E p \in Hand : /\ pc[p] = "wait" /\ bp[p] = i /\ lock[i] = p
                            /\ pc' = [pc EXCEPT ![p] = "woken"]
<1>1. i \in Buf /\ buf[i].blockno \in Block /\ idequeue # << >>
  BY FirstRequest DEF Ideintr, Inv, Refs
<1>2. PICK d \in IF buf[i].dirty THEN {buf[i].data} ELSE ReadData(i) :
        buf' = [buf EXCEPT ![i] = Completed(i, d)]
  BY DEF Ideintr
<1>3. /\ buf[i].dirty => d = buf[i].data
      /\ ~buf[i].dirty /\ buf[i].blockno \notin BadBlock => d = disk[buf[i].blockno]
  BY <1>2 DEF ReadData
<1>4. d \in Data
  <2>1. disk[buf[i].blockno] \in Data /\ buf[i].data \in Data
    BY <1>1 DEF Inv, Types
  <2> QED
    BY <1>2, <2>1 DEF ReadData
<1>5. buf' = [buf EXCEPT ![i] = [@ EXCEPT !.data = d, !.valid = TRUE, !.dirty = FALSE]]
  BY <1>1, <1>2 DEF Completed, Inv, Types
<1>6. buf[i].dirty => disk[buf[i].blockno] = buf[i].data
  BY DEF Ideintr, Inv, Driven, Request, NoRequest
<1>7. PICK p \in Hand : pc[p] = "wait" /\ bp[p] = i
  BY FirstRequest, <1>1
<1>8. lock[i] = p /\ \A q \in Hand : pc[q] = "wait" /\ bp[q] = i => q = p
  BY <1>7 DEF Inv, Locks, Holding
<1>9. pc' = [pc EXCEPT ![p] = "woken"]
  BY <1>7, <1>8 DEF Ideintr, Inv, Types
<1> QED
  BY <1>1, <1>3, <1>4, <1>5, <1>6, <1>7, <1>8, <1>9

\* The interrupt handler takes the first request off the queue.
LEMMA IdeintrPreserves ==
  ASSUME Inv, Ideintr
  PROVE  Inv'
<1> USE DEF Inv, driver, Go
<1> DEFINE i == Head(idequeue)
<1>0. i \in Buf /\ buf[i].blockno \in Block /\ idequeue # << >>
  BY IdeintrIs
<1>10. PICK d \in Data :
         /\ buf[i].dirty => d = buf[i].data
         /\ ~buf[i].dirty /\ buf[i].blockno \notin BadBlock => d = disk[buf[i].blockno]
         /\ buf' = [buf EXCEPT ![i] = [@ EXCEPT !.data = d, !.valid = TRUE, !.dirty = FALSE]]
  BY IdeintrIs
<1>11. PICK p \in Hand : /\ pc[p] = "wait" /\ bp[p] = i /\ lock[i] = p
                         /\ pc' = [pc EXCEPT ![p] = "woken"]
  BY IdeintrIs
<1>12. /\ UNCHANGED <<lock, lru, disk, bp>> /\ idequeue' = Tail(idequeue)
       /\ drive' = NextRequest(Tail(idequeue))
  BY DEF Ideintr
<1>13. /\ idequeue' \in Seq(Buf) /\ Len(idequeue) \in Nat \ {0}
       /\ DOMAIN idequeue = 1..Len(idequeue) /\ DOMAIN idequeue' = 1..(Len(idequeue) - 1)
       /\ \A k \in 1..(Len(idequeue) - 1) : idequeue'[k] = idequeue[k + 1]
       /\ i = idequeue[1]
       /\ idequeue' # << >> => /\ Head(idequeue') = idequeue[2] /\ idequeue[2] \in Buf
                               /\ 2 \in DOMAIN idequeue
  BY <1>0, <1>12, TailIs DEF Types
<1>14. buf[i].dirty => disk[buf[i].blockno] = buf[i].data
  BY IdeintrIs
<1> HIDE DEF i
<1> USE <1>0
<1>1. Types'
  <2>1. buf'[i] \in [blockno : Block \cup {NoBlock}, valid : BOOLEAN, dirty : BOOLEAN,
                     refcnt : Nat, data : Data]
    BY <1>10, <1>12 DEF Types
  <2>2. \A j \in Buf : j # i => buf'[j] = buf[j]
    BY <1>10, <1>12 DEF Types
  <2>3. DOMAIN buf' = Buf /\ buf' = [j \in Buf |-> buf'[j]]
    BY <1>10, <1>12 DEF Types
  <2>4. buf' \in [Buf -> [blockno : Block \cup {NoBlock}, valid : BOOLEAN, dirty : BOOLEAN,
                         refcnt : Nat, data : Data]]
    BY <2>1, <2>2, <2>3 DEF Types
  <2> QED
    BY <1>11, <1>12, <1>13, <2>4 DEF Types, Label
<1>2. Linked'
  BY <1>12 DEF Linked
<1>3. Blocks'
  BY <1>10 DEF Types, Blocks
<1>4. Refs'
  <2>1. \A j : Users(j)' = Users(j)
    BY <1>11, <1>12 DEF Types, Users
  <2>2. \A j \in Buf : buf'[j].refcnt = buf[j].refcnt /\ buf'[j].blockno = buf[j].blockno
    BY <1>10 DEF Types
  <2>3. \A q \in Hand : pc'[q] # "idle" => pc[q] # "idle"
    BY <1>11 DEF Types
  <2> QED
    BY <1>12, <2>1, <2>2, <2>3 DEF Refs
<1>5. Locks'
  BY <1>10, <1>11, <1>12 DEF Types, Refs, Locks, Holding, Waiting
<1>6. Queued'
  <2>1. ASSUME NEW j \in DOMAIN idequeue', NEW k \in DOMAIN idequeue', idequeue'[j] = idequeue'[k]
        PROVE  j = k
    <3>1. /\ j + 1 \in DOMAIN idequeue /\ k + 1 \in DOMAIN idequeue
          /\ idequeue[j + 1] = idequeue[k + 1] /\ j \in Nat /\ k \in Nat
      BY <1>13, <2>1
    <3>2. j + 1 = k + 1
      BY <3>1 DEF Queued
    <3> QED
      BY <3>1, <3>2
  <2>2. ASSUME NEW k \in DOMAIN idequeue'
        PROVE  \E q \in Hand : pc'[q] = "wait" /\ bp'[q] = idequeue'[k]
    <3>1. k + 1 \in DOMAIN idequeue /\ idequeue'[k] = idequeue[k + 1] /\ idequeue[k + 1] # i
      <4>1. /\ k + 1 \in DOMAIN idequeue /\ 1 \in DOMAIN idequeue /\ k + 1 # 1
            /\ idequeue'[k] = idequeue[k + 1]
        BY <1>13
      <4> QED
        BY <1>13, <4>1 DEF Queued
    <3>2. PICK q \in Hand : pc[q] = "wait" /\ bp[q] = idequeue[k + 1]
      BY <3>1 DEF Queued
    <3> QED
      BY <1>11, <1>12, <3>1, <3>2 DEF Types
  <2>3. ASSUME NEW q \in Hand, pc'[q] = "wait"
        PROVE  \E k \in DOMAIN idequeue' : idequeue'[k] = bp'[q]
    <3>1. pc[q] = "wait" /\ bp[q] # i
      BY <1>11, <2>3 DEF Types, Locks, Holding
    <3>2. PICK k \in DOMAIN idequeue : idequeue[k] = bp[q]
      BY <3>1 DEF Queued
    <3>3. k - 1 \in DOMAIN idequeue' /\ idequeue'[k - 1] = idequeue[k]
      BY <1>13, <3>1, <3>2
    <3> QED
      BY <1>12, <3>2, <3>3
  <2> QED
    BY <2>1, <2>2, <2>3 DEF Queued
<1>7. Driven'
  <2>1. ASSUME idequeue' # << >>
        PROVE  Head(idequeue') \in Buf /\ Head(idequeue') # i
    BY <1>13, <2>1 DEF Queued
  <2>2. ASSUME idequeue' # << >>
        PROVE  drive' = Request(Head(idequeue))'
    BY <1>10, <1>12, <2>1, <2>2 DEF Types, Request, NextRequest
  <2>3. ASSUME idequeue' = << >>
        PROVE  drive' = NoRequest
    BY <1>12, <2>3 DEF NextRequest
  <2> QED
    BY <2>2, <2>3 DEF Driven
<1>8. Clean'
  BY <1>10, <1>12, <1>14 DEF Types, Clean
<1> QED
  BY <1>1, <1>2, <1>3, <1>4, <1>5, <1>6, <1>7, <1>8

\* The process whose request is done has its buffer.
LEMMA IderwReturnPreserves ==
  ASSUME Inv, NEW p \in Hand, IderwReturn(p)
  PROVE  Inv'
<1> USE DEF Inv, driver, Go, IderwReturn
<1>0. pc[p] = "woken" /\ pc' = [pc EXCEPT ![p] = "hold"]
  BY DEF Locks
<1>1. Types'
  BY BufIs DEF Types, Label
<1>2. Linked'
  BY DEF Linked
<1>3. Blocks'
  BY DEF Types, Blocks
<1>4. Refs'
  BY BufIs DEF Types, Refs, Users
<1>5. Locks'
  BY <1>0 DEF Types, Refs, Locks, Holding, Waiting
<1>6. Queued'
  BY <1>0 DEF Types, Queued
<1>7. Driven'
  BY FirstRequest DEF Types, Driven, Request
<1>8. Clean'
  BY DEF Types, Clean
<1> QED
  BY <1>1, <1>2, <1>3, <1>4, <1>5, <1>6, <1>7, <1>8

\* binit.
LEMMA InitEstablishes == Init => Inv
<1> SUFFICES ASSUME Init PROVE Inv
  OBVIOUS
<1> USE DEF Init
<1>1. Types
  BY DiskAssumption DEF Types, Label
<1>2. Linked
  <2>1. NBUF \in Nat /\ Buf = 1..NBUF /\ lru = [i \in 1..NBUF |-> NBUF + 1 - i]
    BY BufIs
  <2>2. ASSUME NEW i \in 1..NBUF PROVE NBUF + 1 - i \in 1..NBUF /\ lru[NBUF + 1 - i] = i
    BY <2>1
  <2>3. ASSUME NEW j \in 1..NBUF, NEW k \in 1..NBUF, lru[j] = lru[k] PROVE j = k
    BY <2>1, <2>3
  <2> QED
    BY <2>1, <2>2, <2>3 DEF Linked
<1>3. Blocks /\ Locks /\ Queued /\ Driven /\ Clean
  BY DEF Blocks, Locks, Queued, Driven, Clean, Holding, Waiting
<1>4. Refs
  <2>1. \A i : Users(i) = {}
    BY DEF Users
  <2> QED
    BY <2>1, FS_EmptySet DEF Refs
<1> QED
  BY <1>1, <1>2, <1>3, <1>4 DEF Inv

\* The invariant is inductive.
LEMMA NextPreserves == Inv /\ [Next]_vars => Inv'
<1> SUFFICES ASSUME Inv, [Next]_vars PROVE Inv'
  OBVIOUS
<1>1. ASSUME NEW p \in Hand, Step(p) \/ Brelse(p) PROVE Inv'
  BY <1>1, BreadPreserves, IderwPreserves, IderwReturnPreserves, BrelseUnrefPreserves,
     BrelsePreserves DEF Step
<1>2. ASSUME NEW p \in Hand, Call(p) PROVE Inv'
  BY <1>2, BgetCachedPreserves, BgetRecyclePreserves, LogWritePreserves, BwritePreserves DEF Call
<1>3. CASE UNCHANGED vars
  <2> USE <1>3 DEF Inv, vars, driver
  <2>1. Types' /\ Linked' /\ Blocks' /\ Locks'
    BY DEF Types, Linked, Blocks, Locks
  <2>2. Queued' /\ Driven' /\ Clean'
    BY DEF Queued, Driven, Clean, Request
  <2>3. Refs'
    BY DEF Refs, Users
  <2> QED
    BY <2>1, <2>2, <2>3
<1> QED
  BY <1>1, <1>2, <1>3, DriveDonePreserves, IdeintrPreserves DEF Next

\* What bio.c and ide.c keep true of buffers, locks, references, the list, the
\* queue and the drive.
THEOREM InvariantHolds == Spec => []Inv
  BY InitEstablishes, NextPreserves, PTL DEF Spec

-----------------------------------------------------------------------------
(* The cache and the queue *)

\* When no buffer can be recycled, each one has a process at work with it or is
\* kept dirty by the log, outside of the queue.
LEMMA AllInUse ==
  ASSUME Inv, \A i \in Buf : ~Recyclable(i)
  PROVE  NBUF <= Cardinality({p \in Hand : pc[p] # "idle"}) + Cardinality(Pinned)
<1> DEFINE Q == {p \in Hand : pc[p] # "idle"}
           f == [q \in Q |-> bp[q]]
           U == {bp[q] : q \in Q}
<1>1. IsFiniteSet(Q)
  BY HandFinite, FS_Subset
<1>2. f \in Surjection(Q, U)
  BY DEF Surjection
<1>3. IsFiniteSet(U) /\ Cardinality(U) <= Cardinality(Q)
  BY <1>1, <1>2, FS_Surjection
<1>4. ASSUME NEW i \in Buf PROVE i \in U \cup Pinned
  <2>1. CASE buf[i].refcnt = 0
    <3>1. Users(i) = {} /\ buf[i].dirty
      BY <2>1, UnusedFree DEF Recyclable
    <3>2. \A k \in DOMAIN idequeue : idequeue[k] # i
      BY <3>1 DEF Inv, Queued, Users
    <3> QED
      BY <3>1, <3>2 DEF Pinned, Range
  <2>2. CASE buf[i].refcnt # 0
    <3>1. Users(i) # {}
      BY <2>2, FS_EmptySet DEF Inv, Refs
    <3> QED
      BY <3>1 DEF Users
  <2> QED
    BY <2>1, <2>2
<1>p. IsFiniteSet(Buf) /\ IsFiniteSet(Pinned)
  <2>1. IsFiniteSet(Buf)
    BY BufIs, FS_Interval
  <2> QED
    BY <2>1, FS_Subset DEF Pinned
<1> HIDE DEF Q, U, f
<1>5. /\ IsFiniteSet(U \cup Pinned)
      /\ Cardinality(U \cup Pinned)
           = Cardinality(U) + Cardinality(Pinned) - Cardinality(U \cap Pinned)
  BY <1>3, <1>p, FS_Union
<1>6. Cardinality(U) \in Nat /\ Cardinality(Pinned) \in Nat /\ Cardinality(U \cap Pinned) \in Nat
  BY <1>3, <1>p, FS_Intersection, FS_CardinalityType
<1>7. Cardinality(Buf) = NBUF /\ Cardinality(Buf) <= Cardinality(U \cup Pinned)
  <2>1. Cardinality(Buf) <= Cardinality(U \cup Pinned)
    BY <1>4, <1>5, FS_Subset
  <2>2. NBUF \in Nat /\ Cardinality(1..NBUF) = IF 1 > NBUF THEN 0 ELSE NBUF - 1 + 1
    BY BufIs, FS_Interval
  <2> QED
    BY <2>1, <2>2, BufIs
<1>8. Cardinality(Q) \in Nat /\ NBUF \in Nat
  BY <1>1, BufIs, FS_CardinalityType
<1>9. NBUF <= Cardinality(Q) + Cardinality(Pinned)
  BY <1>3, <1>5, <1>6, <1>7, <1>8
<1> QED
  BY <1>9 DEF Q

\* The cache is exact: one buffer for a block, references counted, every buffer
\* on the list once, and bget panics for want of a buffer only when each one has a
\* use.
THEOREM CacheExactHolds == Spec => []CacheExact
<1>1. Inv => CacheExact
  <2> SUFFICES ASSUME Inv PROVE CacheExact
    OBVIOUS
  <2>1. \A b \in Block : Cardinality(Cached(b)) <= 1
    <3> TAKE b \in Block
    <3>1. \A i, j \in Cached(b) : i = j
      BY DiskAssumption DEF Inv, Blocks, Cached
    <3>2. Cached(b) = {} \/ \E i : Cached(b) = {i}
      BY <3>1
    <3> QED
      BY <3>2, FS_EmptySet, FS_Singleton
  <2>2. lru \in [Buf -> Buf] /\ IsInjective(lru)
    BY DEF Inv, Linked, IsInjective
  <2>3. \/ \E i \in Buf : Recyclable(i)
        \/ NBUF <= Cardinality({p \in Hand : pc[p] # "idle"}) + Cardinality(Pinned)
    BY AllInUse
  <2>4. \A i \in Buf : buf[i].refcnt = Cardinality(Users(i))
    BY DEF Inv, Refs
  <2> QED
    BY <2>1, <2>2, <2>3, <2>4 DEF CacheExact, Inv, Types
<1> QED
  BY <1>1, InvariantHolds, PTL

\* The drive works on the first request of the queue, which has each waiting
\* process's buffer once.
THEOREM QueueExactHolds == Spec => []QueueExact
<1>1. Inv => QueueExact
  <2> SUFFICES ASSUME Inv PROVE QueueExact
    OBVIOUS
  <2>1. (drive.state = "none") = (idequeue = << >>)
    BY DEF Inv, Driven, Request, NoRequest
  <2>2. drive.state = "busy" => drive = Request(Head(idequeue))
    BY DEF Inv, Driven, Request, NoRequest
  <2>3. IsInjective(idequeue)
    BY DEF Inv, Queued, IsInjective
  <2>4. Range(idequeue) = {bp[p] : p \in {q \in Hand : pc[q] = "wait"}}
    BY DEF Inv, Queued, Range
  <2>5. \A p \in Hand : pc[p] \in {"iderw", "wait"} =>
          lock[bp[p]] = p /\ (buf[bp[p]].dirty \/ ~buf[bp[p]].valid)
    BY DEF Inv, Locks, Holding, Waiting
  <2> QED
    BY <2>1, <2>2, <2>3, <2>4, <2>5 DEF QueueExact
<1> QED
  BY <1>1, InvariantHolds, PTL

-----------------------------------------------------------------------------
(* The store of blocks *)

\* What a block's buffer, if it is valid, makes of the block.
LEMMA ViewIs ==
  ASSUME Inv, NEW b \in Good
  PROVE  /\ \A i \in Buf : buf[i].valid /\ buf[i].blockno = b =>
              View[b] = buf[i].data /\ Holder[b] = lock[i]
         /\ (\A i \in Buf : ~(buf[i].valid /\ buf[i].blockno = b)) =>
              View[b] = disk[b] /\ Holder[b] = Nobody
<1>1. \A i \in Buf : buf[i].valid /\ buf[i].blockno = b => ValidBuf(b) = {i}
  BY DiskAssumption DEF Inv, Blocks, ValidBuf, Cached, Good
<1>2. \A i : (CHOOSE x \in {i} : TRUE) = i
  OBVIOUS
<1>3. (\A i \in Buf : ~(buf[i].valid /\ buf[i].blockno = b)) => ValidBuf(b) = {}
  BY DEF ValidBuf, Cached
<1> QED
  BY <1>1, <1>2, <1>3 DEF View, Holder

\* The same of the next state.
LEMMA ViewIsNext ==
  ASSUME Inv', NEW b \in Good
  PROVE  /\ \A i \in Buf : buf'[i].valid /\ buf'[i].blockno = b =>
              View'[b] = buf'[i].data /\ Holder'[b] = lock'[i]
         /\ (\A i \in Buf : ~(buf'[i].valid /\ buf'[i].blockno = b)) =>
              View'[b] = disk'[b] /\ Holder'[b] = Nobody
<1>1. \A i \in Buf : buf'[i].valid /\ buf'[i].blockno = b => ValidBuf(b)' = {i}
  BY DiskAssumption DEF Inv, Blocks, ValidBuf, Cached, Good
<1>2. \A i : (CHOOSE x \in {i} : TRUE) = i
  OBVIOUS
<1>3. (\A i \in Buf : ~(buf'[i].valid /\ buf'[i].blockno = b)) => ValidBuf(b)' = {}
  BY DEF ValidBuf, Cached
<1> QED
  BY <1>1, <1>2, <1>3 DEF View, Holder

\* A step that leaves the valid buffer of c and the disk's copy alone.
LEMMA Elsewhere ==
  ASSUME Inv, Inv', NEW c \in Good, disk'[c] = disk[c],
         \A j \in Buf : buf'[j].valid /\ buf'[j].blockno = c <=> buf[j].valid /\ buf[j].blockno = c,
         \A j \in Buf : buf[j].valid /\ buf[j].blockno = c =>
           buf'[j].data = buf[j].data /\ lock'[j] = lock[j]
  PROVE  View'[c] = View[c] /\ Holder'[c] = Holder[c]
<1>1. CASE \E j \in Buf : buf[j].valid /\ buf[j].blockno = c
  BY <1>1, ViewIs, ViewIsNext
<1>2. CASE \A j \in Buf : ~(buf[j].valid /\ buf[j].blockno = c)
  BY <1>2, ViewIs, ViewIsNext
<1> QED
  BY <1>1, <1>2

\* The mapped variables are functions on the good blocks.
LEMMA Mapped ==
  /\ View = [b \in Good |-> View[b]] /\ View' = [b \in Good |-> View'[b]]
  /\ Holder = [b \in Good |-> Holder[b]] /\ Holder' = [b \in Good |-> Holder'[b]]
  /\ Stable = [b \in Good |-> disk[b]] /\ Stable' = [b \in Good |-> disk'[b]]
  BY DEF View, Holder, Stable

\* Nothing of the abstract state changes.
LEMMA Stutters ==
  ASSUME \A c \in Good : View'[c] = View[c] /\ Holder'[c] = Holder[c] /\ disk'[c] = disk[c],
         Syncing' = Syncing
  PROVE  [store!Next]_(store!vars)
<1>1. View' = View /\ Holder' = Holder /\ Stable' = Stable
  BY Mapped
<1> QED
  BY <1>1 DEF store!vars

\* References, the list and the queue are not part of the abstract state.
LEMMA BookkeepingStutters ==
  ASSUME Inv, Inv', UNCHANGED <<lock, disk>>,
         \A i \in Buf : /\ buf'[i].valid = buf[i].valid /\ buf'[i].blockno = buf[i].blockno
                        /\ buf'[i].data = buf[i].data,
         \A q \in Hand : pc'[q] \in Waiting <=> pc[q] \in Waiting,
         \A q \in Hand : pc[q] \in Waiting => bp'[q] = bp[q]
  PROVE  [store!Next]_(store!vars)
<1>1. \A c \in Good : View'[c] = View[c] /\ Holder'[c] = Holder[c]
  BY Elsewhere
<1>2. \A q \in Hand : pc[q] \in Waiting => bp[q] \in Buf
  BY DEF Inv, Refs, Waiting
<1>3. Syncing' = Syncing
  BY <1>2 DEF Syncing, Waiting
<1> QED
  BY <1>1, <1>3, Stutters

\* bget of a cached block, the end of brelse, and the two ends of iderw.
LEMMA QuietSteps ==
  ASSUME Inv, Inv', NEW p \in Hand,
         \/ \E b \in Block : BgetCached(p, b)
         \/ BrelseUnref(p) \/ Iderw(p) \/ IderwReturn(p)
  PROVE  [store!Next]_(store!vars)
<1>1. ASSUME NEW b \in Block, BgetCached(p, b) PROVE [store!Next]_(store!vars)
  <2>1. PICK i \in Buf : buf' = [buf EXCEPT ![i].refcnt = @ + 1] /\ bp' = [bp EXCEPT ![p] = i]
    BY <1>1 DEF BgetCached, Cached
  <2> QED
    BY <1>1, <2>1, BookkeepingStutters DEF BgetCached, Go, Inv, Types, driver, Waiting
<1>2. CASE BrelseUnref(p)
  BY <1>2, BookkeepingStutters DEF BrelseUnref, Go, Inv, Types, Refs, driver, Waiting
<1>3. CASE Iderw(p)
  BY <1>3, BookkeepingStutters DEF Iderw, Go, Inv, Types, Waiting
<1>4. CASE IderwReturn(p)
  BY <1>4, BookkeepingStutters DEF IderwReturn, Go, Inv, Types, Locks, driver, Waiting
<1> QED
  BY <1>1, <1>2, <1>3, <1>4

\* A recycled buffer had what is on the disk, and nobody held it.
LEMMA RecycleStutters ==
  ASSUME Inv, Inv', NEW p \in Hand, NEW b \in Block, BgetRecycle(p, b)
  PROVE  [store!Next]_(store!vars)
<1>1. PICK i \in Buf : /\ buf[i].refcnt = 0 /\ ~buf[i].dirty /\ bp' = [bp EXCEPT ![p] = i]
                       /\ buf' = [buf EXCEPT ![i] = [@ EXCEPT !.blockno = b, !.valid = FALSE,
                                                              !.dirty = FALSE, !.refcnt = 1]]
  BY DEF BgetRecycle, Victim, Recyclable
<1>2. /\ lock[i] = Nobody /\ Users(i) = {}
      /\ UNCHANGED <<lock, disk>> /\ pc[p] = "idle" /\ pc' = [pc EXCEPT ![p] = "lock"]
  BY <1>1, UnusedFree DEF BgetRecycle, Go, driver
<1>3. /\ ~buf'[i].valid
      /\ \A j \in Buf : j # i => buf'[j] = buf[j]
  BY <1>1 DEF Inv, Types
<1>4. ASSUME NEW c \in Good PROVE View'[c] = View[c] /\ Holder'[c] = Holder[c]
  <2>1. CASE buf[i].valid /\ buf[i].blockno = c
    <3>1. View[c] = disk[c] /\ Holder[c] = Nobody
      BY <1>1, <1>2, <2>1, ViewIs DEF Inv, Clean, Good
    <3>2. \A j \in Buf : ~(buf'[j].valid /\ buf'[j].blockno = c)
      BY <1>3, <2>1, DiskAssumption DEF Inv, Blocks, Good
    <3> QED
      BY <1>2, <3>1, <3>2, ViewIsNext
  <2>2. CASE ~(buf[i].valid /\ buf[i].blockno = c)
    BY <1>2, <1>3, <2>2, Elsewhere
  <2> QED
    BY <2>1, <2>2
<1>5. Syncing' = Syncing
  <2>1. \A q \in Hand : pc'[q] \in Waiting <=> pc[q] \in Waiting
    BY <1>2 DEF Inv, Types, Waiting
  <2>2. \A q \in Hand : pc[q] \in Waiting => bp'[q] = bp[q] /\ bp[q] \in Buf /\ bp[q] # i
    BY <1>1, <1>2 DEF Inv, Types, Refs, Waiting, Users
  <2> QED
    BY <1>3, <2>1, <2>2 DEF Syncing, Waiting
<1> QED
  BY <1>2, <1>4, <1>5, Stutters

\* bread gets a valid buffer's lock, or that of one yet to be read.
LEMMA BreadStep ==
  ASSUME Inv, Inv', NEW p \in Hand, Bread(p)
  PROVE  [store!Next]_(store!vars)
<1>1. PICK i \in Buf : /\ i = bp[p] /\ buf[i].blockno \in Block
                       /\ lock[i] = Nobody /\ lock' = [lock EXCEPT ![i] = p]
  BY DEF Inv, Refs, Bread, Go
<1>2. UNCHANGED <<buf, disk, bp>> /\ pc[p] = "lock"
      /\ pc' = [pc EXCEPT ![p] = IF buf[i].valid THEN "hold" ELSE "iderw"]
  BY <1>1 DEF Bread, driver, Go
<1>3. lock'[i] = p /\ \A j \in Buf : j # i => lock'[j] = lock[j]
  BY <1>1 DEF Inv, Types
<1>4. Syncing' = Syncing
  <2>1. ASSUME NEW q \in Hand, q # p PROVE q \in Syncing' <=> q \in Syncing
    BY <1>2, <2>1 DEF Inv, Types, Syncing
  <2>2. p \notin Syncing /\ p \notin Syncing'
    BY <1>1, <1>2 DEF Inv, Types, Syncing
  <2> QED
    BY <2>1, <2>2 DEF Syncing
<1>5. CASE buf[i].valid /\ buf[i].blockno \in Good
  <2> DEFINE b == buf[i].blockno
  <2>1. Holder[b] = Nobody /\ Holder'[b] = p /\ View'[b] = View[b]
    BY <1>1, <1>2, <1>3, <1>5, ViewIs, ViewIsNext
  <2>2. ASSUME NEW c \in Good, c # b PROVE View'[c] = View[c] /\ Holder'[c] = Holder[c]
    BY <1>2, <1>3, <2>2, Elsewhere
  <2>3. View' = View /\ Holder' = [Holder EXCEPT ![b] = p] /\ Stable' = Stable
    BY <1>2, <1>5, <2>1, <2>2, Mapped
  <2>4. store!Acquire(p, b)
    BY <1>4, <2>1, <2>3 DEF store!Acquire
  <2> QED
    BY <1>5, <2>4 DEF store!Next
<1>6. CASE ~(buf[i].valid /\ buf[i].blockno \in Good)
  <2>1. ASSUME NEW c \in Good PROVE View'[c] = View[c] /\ Holder'[c] = Holder[c]
    BY <1>2, <1>3, <1>6, Elsewhere
  <2> QED
    BY <1>2, <1>4, <2>1, Stutters
<1> QED
  BY <1>5, <1>6

\* releasesleep of a block's buffer releases the block.
LEMMA BrelseStep ==
  ASSUME Inv, Inv', NEW p \in Hand, Brelse(p)
  PROVE  [store!Next]_(store!vars)
<1>1. PICK i \in Buf : /\ i = bp[p] /\ buf[i].blockno \in Block /\ buf[i].valid
                       /\ lock[i] = p /\ lock' = [lock EXCEPT ![i] = Nobody]
  BY DEF Inv, Refs, Locks, Holding, Brelse, Go
<1>2. UNCHANGED <<buf, disk, bp>> /\ pc[p] = "hold" /\ pc' = [pc EXCEPT ![p] = "brelse"]
  BY <1>1 DEF Brelse, driver, Go
<1>3. lock'[i] = Nobody /\ \A j \in Buf : j # i => lock'[j] = lock[j]
  BY <1>1 DEF Inv, Types
<1>4. Syncing' = Syncing /\ p \notin Syncing
  BY <1>2 DEF Inv, Types, Syncing
<1>5. CASE buf[i].blockno \in Good
  <2> DEFINE b == buf[i].blockno
  <2>1. Holder[b] = p /\ Holder'[b] = Nobody /\ View'[b] = View[b]
    BY <1>1, <1>2, <1>3, <1>5, ViewIs, ViewIsNext
  <2>2. ASSUME NEW c \in Good, c # b PROVE View'[c] = View[c] /\ Holder'[c] = Holder[c]
    BY <1>2, <1>3, <2>2, Elsewhere
  <2>3. View' = View /\ Holder' = [Holder EXCEPT ![b] = Nobody] /\ Stable' = Stable
    BY <1>2, <1>5, <2>1, <2>2, Mapped
  <2>4. store!Release(p, b)
    BY <1>4, <2>1, <2>3 DEF store!Release
  <2> QED
    BY <1>5, <2>4 DEF store!Next
<1>6. CASE buf[i].blockno \notin Good
  <2>1. ASSUME NEW c \in Good PROVE View'[c] = View[c] /\ Holder'[c] = Holder[c]
    BY <1>2, <1>3, <1>6, Elsewhere
  <2> QED
    BY <1>2, <1>4, <2>1, Stutters
<1> QED
  BY <1>5, <1>6

\* A holder stores d, for the log or as the first half of bwrite.
LEMMA StoreStep ==
  ASSUME Inv, Inv', NEW p \in Hand, NEW d \in Data, LogWrite(p, d) \/ Bwrite(p, d)
  PROVE  [store!Next]_(store!vars)
<1>1. PICK i \in Buf : /\ i = bp[p] /\ buf[i].blockno \in Block /\ buf[i].valid /\ lock[i] = p
                       /\ buf' = [buf EXCEPT ![i] = [@ EXCEPT !.data = d, !.dirty = TRUE]]
  BY DEF Inv, Refs, Locks, Holding, LogWrite, Bwrite, Go
<1>2. UNCHANGED <<lock, disk, bp>> /\ pc[p] = "hold" /\ p \notin Syncing
  BY DEF LogWrite, Bwrite, driver, Go, Syncing
<1>3. /\ buf'[i].valid /\ buf'[i].data = d /\ buf'[i].blockno = buf[i].blockno
      /\ \A j \in Buf : j # i => buf'[j] = buf[j]
  BY <1>1 DEF Inv, Types
<1>4. \A j \in Buf : buf'[j].valid = buf[j].valid /\ buf'[j].blockno = buf[j].blockno
  BY <1>1, <1>3
<1>5. ASSUME NEW q \in Hand, q # p PROVE q \in Syncing' <=> q \in Syncing
  <2>1. pc'[q] = pc[q] /\ (pc[q] # "idle" => bp[q] \in Buf)
    BY <1>5 DEF LogWrite, Bwrite, Go, Inv, Types, Refs
  <2> QED
    BY <1>2, <1>4, <2>1 DEF Syncing
<1>6. LogWrite(p, d) => Syncing' = Syncing
  BY <1>2, <1>5 DEF LogWrite, Syncing
<1>7. CASE buf[i].blockno \in Good
  <2> DEFINE b == buf[i].blockno
  <2>1. Holder[b] = p /\ Holder'[b] = p /\ View'[b] = d
    BY <1>1, <1>2, <1>3, <1>7, ViewIs, ViewIsNext
  <2>2. ASSUME NEW c \in Good, c # b PROVE View'[c] = View[c] /\ Holder'[c] = Holder[c]
    BY <1>2, <1>3, <2>2, Elsewhere
  <2>3. View' = [View EXCEPT ![b] = d] /\ Holder' = Holder /\ Stable' = Stable
    BY <1>2, <1>7, <2>1, <2>2, Mapped
  <2>4. CASE LogWrite(p, d)
    <3>1. store!Update(p, b, d)
      BY <1>2, <1>6, <2>1, <2>3, <2>4 DEF store!Update
    <3> QED
      BY <1>7, <3>1 DEF store!Next
  <2>5. CASE Bwrite(p, d)
    <3>1. p \in Syncing'
      BY <1>1, <1>2, <1>3, <1>7, <2>5 DEF Bwrite, Go, Inv, Types, Syncing
    <3>2. Syncing' = Syncing \cup {p}
      BY <1>5, <3>1 DEF Syncing
    <3>3. store!BeginSync(p, b, d)
      BY <1>2, <2>1, <2>3, <3>2 DEF store!BeginSync
    <3> QED
      BY <1>7, <3>3 DEF store!Next
  <2> QED
    BY <2>4, <2>5
<1>8. CASE buf[i].blockno \notin Good
  <2>1. ASSUME NEW c \in Good PROVE View'[c] = View[c] /\ Holder'[c] = Holder[c]
    BY <1>2, <1>3, <1>8, Elsewhere
  <2>2. p \notin Syncing'
    BY <1>1, <1>2, <1>3, <1>8 DEF Syncing
  <2>3. Syncing' = Syncing
    BY <1>2, <1>5, <2>2 DEF Syncing
  <2> QED
    BY <1>2, <2>1, <2>3, Stutters
<1> QED
  BY <1>7, <1>8

\* A write that the drive finishes is of a block whose holder waits for it.
LEMMA DriveDoneStep ==
  ASSUME Inv, Inv', DriveDone
  PROVE  [store!Next]_(store!vars)
<1>1. idequeue # << >> /\ drive = Request(Head(idequeue))
  BY DEF Inv, Driven, DriveDone, NoRequest
<1>2. PICK i \in Buf : i = Head(idequeue)
  BY <1>1, FirstRequest
<1>3. PICK p \in Hand : pc[p] = "wait" /\ bp[p] = i
  BY <1>1, <1>2, FirstRequest
<1>4. lock[i] = p /\ buf[i].blockno \in Block /\ (buf[i].dirty => buf[i].valid)
  BY <1>3 DEF Inv, Refs, Locks, Blocks, Holding
<1>5. disk' = IF buf[i].dirty THEN [disk EXCEPT ![buf[i].blockno] = buf[i].data] ELSE disk
  BY <1>1, <1>2 DEF DriveDone, Request
<1>6. UNCHANGED <<buf, lock, pc, bp>> /\ Syncing' = Syncing
  BY DEF DriveDone, Syncing
<1>7. CASE buf[i].dirty /\ buf[i].blockno \in Good
  <2> DEFINE b == buf[i].blockno
  <2>1. Holder[b] = p /\ Holder'[b] = p /\ View[b] = buf[i].data /\ View'[b] = View[b]
    BY <1>4, <1>6, <1>7, ViewIs, ViewIsNext
  <2>2. disk'[b] = buf[i].data /\ \A c \in Good : c # b => disk'[c] = disk[c]
    BY <1>4, <1>5, <1>7 DEF Inv, Types, Good
  <2>3. ASSUME NEW c \in Good, c # b PROVE View'[c] = View[c] /\ Holder'[c] = Holder[c]
    BY <1>6, <2>2, <2>3, Elsewhere
  <2>4. View' = View /\ Holder' = Holder /\ Stable' = [Stable EXCEPT ![b] = View[b]]
    BY <1>7, <2>1, <2>2, <2>3, Mapped
  <2>5. p \in Syncing
    BY <1>3, <1>4, <1>7 DEF Syncing
  <2>6. store!Persist(b)
    BY <1>6, <2>1, <2>4, <2>5 DEF store!Persist
  <2> QED
    BY <1>7, <2>6 DEF store!Next
<1>8. CASE ~(buf[i].dirty /\ buf[i].blockno \in Good)
  <2>1. \A c \in Good : disk'[c] = disk[c]
    BY <1>4, <1>5, <1>8 DEF Inv, Types, Good
  <2>2. ASSUME NEW c \in Good PROVE View'[c] = View[c] /\ Holder'[c] = Holder[c]
    BY <1>6, <2>1, Elsewhere
  <2> QED
    BY <1>6, <2>1, <2>2, Stutters
<1> QED
  BY <1>7, <1>8

\* The interrupt ends a synchronous write, or makes a block that was read
\* visible with its reader as the holder.
LEMMA IdeintrStep ==
  ASSUME Inv, Inv', Ideintr
  PROVE  [store!Next]_(store!vars)
<1>1. PICK i \in Buf : i = Head(idequeue) /\ buf[i].blockno \in Block
  BY IdeintrIs
<1>2. PICK d \in Data :
        /\ buf[i].dirty => d = buf[i].data
        /\ ~buf[i].dirty /\ buf[i].blockno \notin BadBlock => d = disk[buf[i].blockno]
        /\ buf' = [buf EXCEPT ![i] = [@ EXCEPT !.data = d, !.valid = TRUE, !.dirty = FALSE]]
  BY <1>1, IdeintrIs
<1>3. PICK p \in Hand : /\ pc[p] = "wait" /\ bp[p] = i /\ lock[i] = p
                        /\ pc' = [pc EXCEPT ![p] = "woken"]
  BY <1>1, IdeintrIs
<1>4. UNCHANGED <<lock, disk, bp>> /\ (buf[i].dirty => disk[buf[i].blockno] = buf[i].data)
  BY <1>1, IdeintrIs DEF Ideintr
<1>5. /\ buf'[i].valid /\ buf'[i].data = d /\ buf'[i].blockno = buf[i].blockno
      /\ \A j \in Buf : j # i => buf'[j] = buf[j]
  BY <1>2 DEF Inv, Types
<1>6. buf[i].dirty <=> buf[i].valid
  BY <1>3 DEF Inv, Locks, Blocks, Waiting
<1>7. p \notin Syncing' /\ \A q \in Hand : q # p => (q \in Syncing' <=> q \in Syncing)
  <2>1. p \notin Syncing'
    BY <1>3 DEF Inv, Types, Syncing
  <2>2. ASSUME NEW q \in Hand, q # p PROVE q \in Syncing' <=> q \in Syncing
    <3>1. pc'[q] = pc[q] /\ bp'[q] = bp[q]
      BY <1>3, <1>4, <2>2 DEF Inv, Types
    <3>2. pc[q] \in {"iderw", "wait"} => bp[q] \in Buf /\ bp[q] # i
      BY <1>3, <2>2 DEF Inv, Refs, Locks, Holding
    <3> QED
      BY <1>5, <3>1, <3>2 DEF Syncing
  <2> QED
    BY <2>1, <2>2
<1>8. ASSUME NEW c \in Good, c # buf[i].blockno PROVE View'[c] = View[c] /\ Holder'[c] = Holder[c]
  BY <1>4, <1>5, <1>8, Elsewhere
<1>9. CASE buf[i].blockno \in Good
  <2> DEFINE b == buf[i].blockno
  <2>1. Holder'[b] = p /\ View'[b] = d /\ d = disk[b]
    BY <1>2, <1>3, <1>4, <1>5, <1>9, ViewIsNext DEF Good
  <2>2. CASE buf[i].valid
    <3>1. Holder[b] = p /\ View[b] = d
      BY <1>2, <1>3, <1>6, <1>9, <2>2, ViewIs
    <3>2. View' = View /\ Holder' = Holder /\ Stable' = Stable
      BY <1>4, <1>8, <1>9, <2>1, <3>1, Mapped
    <3>3. p \in Syncing
      BY <1>3, <1>9, <2>2 DEF Syncing
    <3>4. Syncing' = Syncing \ {p}
      BY <1>7 DEF Syncing
    <3>5. Stable[b] = View[b]
      BY <1>9, <2>1, <3>1 DEF Stable
    <3>6. store!EndSync(p, b)
      BY <3>1, <3>2, <3>3, <3>4, <3>5 DEF store!EndSync
    <3> QED
      BY <1>9, <3>6 DEF store!Next
  <2>3. CASE ~buf[i].valid
    <3>1. \A j \in Buf : ~(buf[j].valid /\ buf[j].blockno = b)
      BY <1>1, <2>3, DiskAssumption DEF Inv, Blocks
    <3>2. Holder[b] = Nobody /\ View[b] = disk[b]
      BY <1>9, <3>1, ViewIs
    <3>3. View' = View /\ Holder' = [Holder EXCEPT ![b] = p] /\ Stable' = Stable
      BY <1>4, <1>8, <1>9, <2>1, <3>2, Mapped
    <3>4. p \notin Syncing
      BY <1>3, <2>3 DEF Syncing
    <3>5. Syncing' = Syncing
      BY <1>7, <3>4 DEF Syncing
    <3>6. store!Acquire(p, b)
      BY <3>2, <3>3, <3>5 DEF store!Acquire
    <3> QED
      BY <1>9, <3>6 DEF store!Next
  <2> QED
    BY <2>2, <2>3
<1>10. CASE buf[i].blockno \notin Good
  <2>1. p \notin Syncing
    BY <1>3, <1>10 DEF Syncing
  <2>2. Syncing' = Syncing
    BY <1>7, <2>1 DEF Syncing
  <2>3. \A c \in Good : c # buf[i].blockno
    BY <1>10
  <2> QED
    BY <1>4, <1>8, <2>2, <2>3, Stutters
<1> QED
  BY <1>9, <1>10

\* The buffer cache over the disk driver is a store of blocks: what a holder
\* stores is what the next holder sees, however buffers are recycled, and is on
\* the disk when bwrite returns.
THEOREM RefinesBlockStoreHolds == Spec => RefinesBlockStore
<1>1. Init => store!Init
  <2> SUFFICES ASSUME Init PROVE store!Init
    OBVIOUS
  <2>1. \A b \in Good : ValidBuf(b) = {}
    BY DEF Init, ValidBuf, Cached
  <2>2. View = Stable /\ Holder = [b \in Good |-> Nobody] /\ Syncing = {}
    BY <2>1 DEF View, Stable, Holder, Syncing, Init
  <2>3. Stable \in [Good -> Data]
    BY DiskAssumption DEF Init, Stable, Good
  <2> QED
    BY <2>2, <2>3 DEF store!Init
<1>2. Inv /\ Inv' /\ [Next]_vars => [store!Next]_(store!vars)
  <2> SUFFICES ASSUME Inv, Inv', [Next]_vars PROVE [store!Next]_(store!vars)
    OBVIOUS
  <2>1. ASSUME NEW p \in Hand, Step(p) \/ Brelse(p) PROVE [store!Next]_(store!vars)
    BY <2>1, QuietSteps, BreadStep, BrelseStep DEF Step
  <2>2. ASSUME NEW p \in Hand, Call(p) PROVE [store!Next]_(store!vars)
    BY <2>2, QuietSteps, RecycleStutters, StoreStep DEF Call
  <2>3. CASE UNCHANGED vars
    BY <2>3 DEF store!vars, vars, driver, View, Stable, Holder, Syncing, ValidBuf, Cached
  <2> QED
    BY <2>1, <2>2, <2>3, DriveDoneStep, IdeintrStep DEF Next
<1> QED
  BY <1>1, <1>2, InvariantHolds, PTL DEF Spec, store!Spec, RefinesBlockStore
=============================================================================
