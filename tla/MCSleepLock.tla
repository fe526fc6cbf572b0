---------------------------- MODULE MCSleepLock ----------------------------
EXTENDS SleepLock, TLC

Symmetry == Permutations(Locker)
=============================================================================
