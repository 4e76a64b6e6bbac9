--------------------------- MODULE MCVolumeAccess ---------------------------
EXTENDS VolumeAccess, TLC

\* Goroutines and inode numbers are interchangeable.
Symmetry == Permutations(Threads) \cup Permutations(Inodes)
=============================================================================
