-------------------------- MODULE MCVetisPagedTable --------------------------
(***************************************************************************)
(* VetisPagedTable for TLC.                                                *)
(***************************************************************************)
EXTENDS VetisPagedTable
=============================================================================
