------------------------------- MODULE MCDiff -------------------------------
(* Instances of Diff for TLC.                                              *)
EXTENDS Diff

Letters == {1, 2, 3}

Short(letters, n) == UNION {[1 .. k -> letters] : k \in 0 .. n}

\* All texts of up to six lines, two of them different, and of up to four,
\* three of them different.
PairsOfTexts ==
    (Short({1, 2}, 6) \X Short({1, 2}, 6))
        \cup (Short({1, 2, 3}, 4) \X Short({1, 2, 3}, 4))

\* Bounds the search meets exactly, by one, and never.
TightAndWide == {[depth |-> 1, lines |-> 9], [depth |-> 2, lines |-> 9],
                 [depth |-> 6, lines |-> 3], [depth |-> 6, lines |-> 9]}
=============================================================================
