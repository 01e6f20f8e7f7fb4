-------------------------- MODULE MCPythonIterator --------------------------
(***************************************************************************)
(* Instances of PythonIterator for TLC: one thread, and two that share the *)
(* iterator.                                                               *)
(***************************************************************************)
EXTENDS PythonIterator

CONSTANTS c1, c2

MCCallers == {{c1}, {c1, c2}}
=============================================================================
