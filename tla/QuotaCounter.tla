---------------------------- MODULE QuotaCounter ----------------------------
(***************************************************************************)
(* What the port QuotaStore promises of `increment` (plugin-api quota.ts): *)
(* it "adds one to a counter" and answers "the counter after this call".   *)
(* A call counts at one instant between its start and its end, or ends     *)
(* without counting.  A caller that dies after counting gets no answer.    *)
(***************************************************************************)
EXTENDS Naturals

CONSTANTS
    Procs,      \* the processes that share one store
    Keys        \* the counters of one file

VARIABLES
    total,      \* [Keys -> Nat], the counters
    call        \* [Procs -> Call], what each process asked and got

Call == [key : Keys, phase : {"idle", "asked"}, value : {0}]
        \cup [key : Keys, phase : {"counted"}, value : Nat]

vars == <<total, call>>

Init ==
    /\ total = [k \in Keys |-> 0]
    /\ call \in [Procs -> [key : Keys, phase : {"idle"}, value : {0}]]

Ask(p) ==
    /\ call[p].phase # "asked"
    /\ \E k \in Keys :
        call' = [call EXCEPT ![p] = [key |-> k, phase |-> "asked", value |-> 0]]
    /\ UNCHANGED total

Count(p) ==
    LET k == call[p].key IN
    /\ call[p].phase = "asked"
    /\ total' = [total EXCEPT ![k] = @ + 1]
    /\ call' = [call EXCEPT ![p].phase = "counted", ![p].value = total[k] + 1]

\* The call fails before it counts, or its process dies before or after.
Drop(p) ==
    /\ call[p].phase # "idle"
    /\ call' = [call EXCEPT ![p].phase = "idle", ![p].value = 0]
    /\ UNCHANGED total

Next == \E p \in Procs : Ask(p) \/ Count(p) \/ Drop(p)

Spec == Init /\ [][Next]_vars
=============================================================================
