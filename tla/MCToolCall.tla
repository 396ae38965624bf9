------------------------------ MODULE MCToolCall ------------------------------
(* Instances of ToolCall for TLC.                                          *)
EXTENDS ToolCall, TLC

\* Calls differ in what Init leaves open; their names carry nothing else.
Symmetry == Permutations(Calls)
=============================================================================
