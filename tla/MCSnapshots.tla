---------------------------- MODULE MCSnapshots ----------------------------
(* Values of the constants of Snapshots for TLC.                           *)
EXTENDS Snapshots, TLC

CONSTANTS p1, p2, e1, e2

\* The key of the first day stays, or a record does.
StuckChoices == {{<<"key", 0>>}, {<<"record", <<e1, "before">>>>}}
=============================================================================
