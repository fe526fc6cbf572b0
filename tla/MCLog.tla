------------------------------- MODULE MCLog -------------------------------
EXTENDS Log, TLC

Symmetry == Permutations(Proc) \cup Permutations(Block)

\* Of the blocks only, for the run with a temporal property: neither it nor the
\* fairness tells blocks apart, so that every fair behaviour of the quotient is
\* the image of a fair one that violates the property just the same.
BlockSymmetry == Permutations(Block)
=============================================================================
