---------------------------- MODULE MCWriteBehind ----------------------------
(* Instances of WriteBehind for TLC.                                       *)
EXTENDS WriteBehind
==============================================================================
