---------------------------- MODULE MCCppStream -----------------------------
(* Instance of CppStream on the lines of MCLines.                                 *)
EXTENDS CppStream, MCLines
=============================================================================
