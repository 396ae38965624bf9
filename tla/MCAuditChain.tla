---------------------------- MODULE MCAuditChain ----------------------------
(* Instances of AuditChain for TLC.                                        *)
EXTENDS AuditChain

\* What a line says is opaque.
Symmetry == Permutations(Lines)
=============================================================================
