------------------------------ MODULE MCStream ------------------------------
(* Instance of Stream on the lines of MCLines.                                 *)
EXTENDS Stream, MCLines
=============================================================================
