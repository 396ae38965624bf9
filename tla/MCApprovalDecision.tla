------------------------ MODULE MCApprovalDecision ------------------------
(* The instance of ApprovalDecision for TLC.  What a command decides is    *)
(* left open by Init and a time is a stamp, but with a temporal property   *)
(* beside the invariants the run takes no symmetry.                        *)
EXTENDS ApprovalDecision, TLC
=============================================================================
