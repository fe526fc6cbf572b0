----------------------------- MODULE LineInput ------------------------------
(***************************************************************************)
(* What a console promises its readers: a line is theirs, in order and     *)
(* each character once, when it is finished; until then it can be edited.  *)
(***************************************************************************)
EXTENDS Naturals, Sequences, SequencesExt

CONSTANTS Plain, End,   \* characters; those that finish a line
          INPUT_BUF

VARIABLES ready, line   \* finished, and still being edited

Init == ready = << >> /\ line = << >>

\* A character is typed; the line is finished by it, or because there is no room
\* for more.
Type(c) ==
  LET new == Append(line, c)
      finished == c \in End \/ Len(ready) + Len(new) = INPUT_BUF
  IN /\ Len(ready) + Len(line) < INPUT_BUF
     /\ ready' = IF finished THEN ready \o new ELSE ready
     /\ line' = IF finished THEN << >> ELSE new

Erase == line # << >> /\ line' = Front(line) /\ UNCHANGED ready

KillLine == line' = << >> /\ UNCHANGED ready

Take == ready # << >> /\ ready' = Tail(ready) /\ UNCHANGED line

Next == (\E c \in Plain \cup End : Type(c)) \/ Erase \/ KillLine \/ Take

Spec == Init /\ [][Next]_<<ready, line>>
=============================================================================
