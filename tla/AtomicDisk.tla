----------------------------- MODULE AtomicDisk -----------------------------
(***************************************************************************)
(* What log.c promises to the file system: a disk on which groups of       *)
(* complete operations take effect all at once.  A crash loses what was    *)
(* not yet stable and never leaves a part of an operation behind.          *)
(***************************************************************************)

CONSTANTS Proc, Block, Val

VARIABLES
  stable,   \* what a reboot would find
  current,  \* what a read returns now
  ops       \* the operations between begin_op and end_op

vars == <<stable, current, ops>>

Init ==
  /\ stable \in [Block -> Val]
  /\ current = stable
  /\ ops = {}

Begin(p) ==
  /\ p \notin ops
  /\ ops' = ops \cup {p}
  /\ UNCHANGED <<stable, current>>

Write(p, b, v) ==
  /\ p \in ops
  /\ current' = [current EXCEPT ![b] = v]
  /\ UNCHANGED <<stable, ops>>

End(p) ==
  /\ p \in ops
  /\ ops' = ops \ {p}
  /\ UNCHANGED <<stable, current>>

\* Everything becomes stable at once, and only between operations.
Sync ==
  /\ ops = {}
  /\ stable' = current
  /\ UNCHANGED <<current, ops>>

Crash ==
  /\ current' = stable
  /\ ops' = {}
  /\ UNCHANGED stable

Next ==
  \/ \E p \in Proc :
       Begin(p) \/ End(p) \/ \E b \in Block, v \in Val : Write(p, b, v)
  \/ Sync
  \/ Crash

Spec == Init /\ [][Next]_vars
=============================================================================
