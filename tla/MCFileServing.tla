--------------------------- MODULE MCFileServing ---------------------------
\* Small instances of FileServing for TLC.
EXTENDS FileServing, TLC

Symmetry == Permutations(JobId) \cup Permutations(Key)
=============================================================================
