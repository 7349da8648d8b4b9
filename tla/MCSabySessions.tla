---------------------------- MODULE MCSabySessions ----------------------------
EXTENDS SabySessions, TLC
=============================================================================
