---------------------------- MODULE MCQuotaStore ----------------------------
(* Instances of QuotaStore for TLC: constants come from the .cfg file.     *)
EXTENDS QuotaStore

CONSTANTS k1, k2

\* A quiet folder with two counters, and one with a crash, locks held for too
\* long and calls of the file system that fail.
WorldsOfTwo ==
    {[prompt |-> TRUE, fails |-> FALSE, crashes |-> 0, keys |-> {k1, k2}],
     [prompt |-> FALSE, fails |-> TRUE, crashes |-> 1, keys |-> {k1}]}
=============================================================================
