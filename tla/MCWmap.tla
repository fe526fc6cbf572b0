------------------------------- MODULE MCWmap -------------------------------
EXTENDS Wmap, TLC
=============================================================================
