--------------------------- MODULE VetisRefinement ---------------------------
(***************************************************************************)
(* The journal of VetisIncoming, seen as the promise of VetisJournal: the  *)
(* records are what Central shows, waybills and times are forgotten.       *)
(***************************************************************************)
EXTENDS VetisIncoming

InMercury == [v \in Vsds |-> mercury[v].status]

Journal == INSTANCE VetisJournal WITH status <- InMercury, shown <- db

\* No interleaving of loading, quench commands, stale pages and copies, late
\* applications, failed saves and restarts makes the journal show a VSD as
\* quenched that can still be quenched, or as withdrawn one that is not, or
\* change two records at once.
JournalNeverAhead == Journal!Spec
=============================================================================
