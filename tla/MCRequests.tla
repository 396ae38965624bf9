----------------------------- MODULE MCRequests -----------------------------
(* Values of the constants of Requests for TLC.                            *)
EXTENDS Requests

CONSTANTS c1, c2, c3

\* Three calls and a clock that stands; and one call after the other while the
\* clock goes on and is set back or ahead once.
WorldsOfCalls ==
    {[calls |-> 3, made |-> {c1, c2, c3}, ticks |-> 0, sets |-> {}, fails |-> {}],
     [calls |-> 6, made |-> {c1}, ticks |-> 2, sets |-> {-2, 9}, fails |-> {NoTime}]}
=============================================================================
