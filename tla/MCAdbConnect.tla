---------------------------- MODULE MCAdbConnect ----------------------------
EXTENDS AdbConnect, TLC

MCSymmetry == Permutations(Threads)
=============================================================================
