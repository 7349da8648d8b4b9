------------------------ MODULE MCVetisIncomingWindow ------------------------
(***************************************************************************)
(* VetisIncomingWindow for TLC.                                            *)
(***************************************************************************)
EXTENDS VetisIncomingWindow, TLC
=============================================================================
