--------------------------- MODULE MCConfirmation ---------------------------
(* Instances of Confirmation for TLC.                                      *)
EXTENDS Confirmation, TLC

\* Hashes, nonces and calls are opaque.
Symmetry == Permutations(Plans) \cup Permutations(Tokens)
            \cup Permutations(Answers)
=============================================================================
