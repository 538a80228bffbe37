------------------------------ MODULE MCPdipCfg ------------------------------
(* Nine CPUs, so that the bitmap has two bytes and CPU 8 shares bit 0 with *)
(* CPU 0 in the other byte; the application sets and unsets CPUs 0, 8 and  *)
(* 9 (out of range).  Four heap blocks: the application's, the object's,    *)
(* the restored copy and the dup'ed one.                                    *)
EXTENDS PdipCfg, TLC

CONSTANTS b1, b2, b3, b4

MCBlocks == {b1, b2, b3, b4}
MCUserCpus == {0, 8, 9}
MCSymmetry == Permutations(MCBlocks)

=============================================================================
