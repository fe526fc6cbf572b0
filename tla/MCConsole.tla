----------------------------- MODULE MCConsole ------------------------------
EXTENDS Console, TLC

CONSTANTS p1, p2

\* Both read; p1, whose CPU has the interrupts, writes as well.
MCCounts == p1 :> {0, 1} @@ p2 :> {2}
=============================================================================
