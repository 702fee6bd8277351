--------------------------- MODULE MCSemanticCache ---------------------------
\* Instances of SemanticCache for TLC.
EXTENDS SemanticCache, TLC

\* Calls, sessions and queries are only compared for equality.
Symmetry == Permutations(Call) \cup Permutations(Session) \cup Permutations(Query)
=============================================================================
