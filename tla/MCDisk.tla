------------------------------- MODULE MCDisk -------------------------------
EXTENDS Disk, TLC

CONSTANTS b1, b2, b3, b4

\* Programs change b1, and write b2 as it is, holding b2 and b1 as install_trans
\* does a block of the log and its home block.
MCImage == [b \in Block |-> 0]
MCStores == {<<b1, 1>>, <<b2, 0>>}
MCNested == {<<b2, b1>>}
=============================================================================
