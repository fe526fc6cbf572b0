------------------------------ MODULE FileStore -----------------------------
(***************************************************************************)
(* What the contents of files are to programs: sequences of bytes.  A      *)
(* store replaces or appends bytes of one file and leaves no gap; a file   *)
(* that is removed starts again empty.                                     *)
(***************************************************************************)
EXTENDS Naturals, Sequences

CONSTANTS Inum, Piece   \* Piece: what one store puts into a file

VARIABLE content

Init == content = [i \in Inum |-> << >>]

Stored(s, at, piece) ==
  [k \in 1..(IF at + Len(piece) > Len(s) THEN at + Len(piece) ELSE Len(s)) |->
     IF at < k /\ k <= at + Len(piece) THEN piece[k - at] ELSE s[k]]

Store(i) ==
  \E at \in 0..Len(content[i]), piece \in Piece :
    content' = [content EXCEPT ![i] = Stored(@, at, piece)]

Remove(i) == content' = [content EXCEPT ![i] = << >>]

Next == \E i \in Inum : Store(i) \/ Remove(i)

Spec == Init /\ [][Next]_content
=============================================================================
