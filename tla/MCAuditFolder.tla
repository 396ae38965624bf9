---------------------------- MODULE MCAuditFolder ----------------------------
(* Instances of AuditFolder for TLC.                                       *)
EXTENDS AuditFolder, TLC

Symmetry == Permutations(Procs) \cup Permutations(Names)
=============================================================================
