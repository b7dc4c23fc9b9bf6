---------------------------- MODULE MCAdbStreams ----------------------------
EXTENDS AdbStreams, TLC

MCSymmetry == Permutations(Threads)
=============================================================================
