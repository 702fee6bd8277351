--------------------------- MODULE MCSessionMemory ---------------------------
\* Instances of SessionMemory for TLC.
EXTENDS SessionMemory, TLC

\* Users are only compared for equality.
Symmetry == Permutations(User)
=============================================================================
