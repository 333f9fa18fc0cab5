---------------------------- MODULE MCDebugMode ----------------------------
(* DebugMode on a board whose buttons[] holds only Vup and Vdn. *)
EXTENDS DebugMode
=============================================================================
