----------------------------- MODULE MCFileData -----------------------------
EXTENDS FileData, TLC

CONSTANTS f1, f2

Long == <<2, 1, 2, 1, 2, 1, 2>>
MCWrites == {<<f1, Long>>, <<f2, <<1>>>>}

Symmetry == Permutations(Proc)
=============================================================================
