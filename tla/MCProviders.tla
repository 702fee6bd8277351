----------------------------- MODULE MCProviders -----------------------------
\* Instances of Providers for TLC.
EXTENDS Providers, TLC

\* Calls are only compared for equality.
Symmetry == Permutations(Call)
=============================================================================
