-------------------------- MODULE MCSummarization --------------------------
\* Instances of Summarization for TLC.
EXTENDS Summarization, TLC
=============================================================================
