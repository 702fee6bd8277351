--------------------------- MODULE MCChatPipeline ---------------------------
\* Instances of ChatPipeline for TLC.
EXTENDS ChatPipeline, TLC

\* Requests, users, sessions and keys are only compared for equality.
Symmetry == Permutations(Req) \cup Permutations(User) \cup Permutations(Session)
=============================================================================
