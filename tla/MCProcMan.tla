----------------------------- MODULE MCProcMan -----------------------------
(* ProcMan for TLC: the children are interchangeable.                      *)
EXTENDS ProcMan, TLC

Symmetric == Permutations(Pid)

=============================================================================
