------------------------------ MODULE MCMemory ------------------------------
EXTENDS Memory, TLC
=============================================================================
