----------------------------- MODULE MCHotStuff -----------------------------
EXTENDS HotStuff, TLC

CONSTANTS r1, r2, r3, r4, c1, c2

\* The live backups play the same part.
BackupSymmetry == Permutations((Replicas \ {Primary}) \ Crashed)
=============================================================================
