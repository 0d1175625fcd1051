----------------------------- MODULE MCPyObjects -----------------------------
(***************************************************************************)
(* Two threads of a program that use one file, its tables and what is in   *)
(* them.                                                                   *)
(***************************************************************************)
EXTENDS PyObjects
=============================================================================
