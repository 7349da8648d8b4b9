-------------------------- MODULE MCVetisAutoQuench --------------------------
EXTENDS VetisAutoQuench

\* Dated records of one organisation: two lanes.
OneKind == [d \in Docs |-> "dated"]
=============================================================================
