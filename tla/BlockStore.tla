----------------------------- MODULE BlockStore -----------------------------
(***************************************************************************)
(* What the buffer cache and the disk driver promise together: blocks that *)
(* one process at a time holds, whose contents are the last ones stored by *)
(* a holder, and which are on the disk when a synchronous write returns.   *)
(***************************************************************************)
CONSTANTS Proc, Block, Data, Nobody

VARIABLES
  view,     \* the contents a holder sees
  stable,   \* the contents on the disk
  holder,   \* the process that holds the block
  syncing   \* the processes inside a synchronous write

vars == <<view, stable, holder, syncing>>

Init ==
  /\ stable \in [Block -> Data]
  /\ view = stable
  /\ holder = [b \in Block |-> Nobody]
  /\ syncing = {}

Acquire(p, b) ==
  /\ holder[b] = Nobody
  /\ holder' = [holder EXCEPT ![b] = p]
  /\ UNCHANGED <<view, stable, syncing>>

Update(p, b, d) ==
  /\ holder[b] = p /\ p \notin syncing
  /\ view' = [view EXCEPT ![b] = d]
  /\ UNCHANGED <<stable, holder, syncing>>

BeginSync(p, b, d) ==
  /\ holder[b] = p /\ p \notin syncing
  /\ view' = [view EXCEPT ![b] = d]
  /\ syncing' = syncing \cup {p}
  /\ UNCHANGED <<stable, holder>>

\* The contents reach the disk while their holder waits for it.
Persist(b) ==
  /\ holder[b] \in syncing
  /\ stable' = [stable EXCEPT ![b] = view[b]]
  /\ UNCHANGED <<view, holder, syncing>>

EndSync(p, b) ==
  /\ holder[b] = p /\ p \in syncing
  /\ stable[b] = view[b]
  /\ syncing' = syncing \ {p}
  /\ UNCHANGED <<view, stable, holder>>

Release(p, b) ==
  /\ holder[b] = p /\ p \notin syncing
  /\ holder' = [holder EXCEPT ![b] = Nobody]
  /\ UNCHANGED <<view, stable, syncing>>

Next ==
  \E b \in Block :
    \/ Persist(b)
    \/ \E p \in Proc :
         \/ Acquire(p, b) \/ EndSync(p, b) \/ Release(p, b)
         \/ \E d \in Data : Update(p, b, d) \/ BeginSync(p, b, d)

Spec == Init /\ [][Next]_vars
=============================================================================
