---------------------------- MODULE MCWriteGuard ----------------------------
(* Instances of WriteGuard for TLC.                                        *)
EXTENDS WriteGuard, TLC

\* Commits differ in what Init leaves open; their names carry nothing else.
Symmetry == Permutations(Commits)

\* People edit the page beside the commits.
Editing ==
    [edits |-> 2, flips |-> 0, days |-> 0, restarts |-> 0, snapshots |-> TRUE]

\* Writing is stopped, or the server starts anew.
Stopping ==
    [edits |-> 0, flips |-> 1, days |-> 0, restarts |-> 1, snapshots |-> FALSE]

\* A day ends while counts are under way.
Counting ==
    [edits |-> 0, flips |-> 0, days |-> 1, restarts |-> 0, snapshots |-> FALSE]

AllWorlds == {Editing, Stopping, Counting}
=============================================================================
