-------------------------------- MODULE Fifo --------------------------------
(***************************************************************************)
(* What a pipe promises its users: a bounded queue.  The bytes that a call *)
(* of write has still to send leave it in order for the end of the queue,  *)
(* a call of read takes them from the front, and none is lost, duplicated  *)
(* or made up in between.  A call may give up: then the rest of its bytes  *)
(* is never sent.                                                          *)
(***************************************************************************)
EXTENDS Naturals, Sequences

CONSTANTS Proc, Byte, Capacity

VARIABLES
  queue,  \* the bytes on their way
  wbuf,   \* what each process's write has still to send
  rbuf    \* what each process's read has taken so far

vars == <<queue, wbuf, rbuf>>

Init ==
  /\ queue = << >>
  /\ wbuf = [p \in Proc |-> << >>]
  /\ rbuf = [p \in Proc |-> << >>]

Offer(p) ==
  /\ wbuf[p] = << >>
  /\ wbuf'[p] \in Seq(Byte)
  /\ wbuf' = [wbuf EXCEPT ![p] = wbuf'[p]]
  /\ UNCHANGED <<queue, rbuf>>

Put(p) ==
  /\ wbuf[p] # << >>
  /\ Len(queue) < Capacity
  /\ queue' = Append(queue, Head(wbuf[p]))
  /\ wbuf' = [wbuf EXCEPT ![p] = Tail(@)]
  /\ UNCHANGED rbuf

GiveUp(p) ==
  /\ wbuf' = [wbuf EXCEPT ![p] = << >>]
  /\ UNCHANGED <<queue, rbuf>>

Get(p) ==
  /\ queue # << >>
  /\ rbuf' = [rbuf EXCEPT ![p] = Append(@, Head(queue))]
  /\ queue' = Tail(queue)
  /\ UNCHANGED wbuf

Return(p) ==
  /\ rbuf' = [rbuf EXCEPT ![p] = << >>]
  /\ UNCHANGED <<queue, wbuf>>

Next == \E p \in Proc : Offer(p) \/ Put(p) \/ GiveUp(p) \/ Get(p) \/ Return(p)

Spec == Init /\ [][Next]_vars
=============================================================================
