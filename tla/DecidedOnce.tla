---------------------------- MODULE DecidedOnce ----------------------------
(***************************************************************************)
(* What an operator may rely on who decides about an entry of the queue of *)
(* approvals, whatever commands run side by side: the first decision stays *)
(* (`decide` of the port ApprovalQueue, plugin-api approval-queue.ts), "so *)
(* that only one decision ever counts" (decideEntry, pipeline.ts), and one *)
(* command at most carries it out: it writes what was approved, or tells   *)
(* the operator of the rejection.                                          *)
(***************************************************************************)
CONSTANT Commands       \* commands of the operator about one entry

VARIABLES
    decision,   \* "none" or what was decided
    written,    \* the commands that wrote
    refused     \* the commands that told of the rejection

vars == <<decision, written, refused>>

Init == decision = "none" /\ written = {} /\ refused = {}

Decide ==
    /\ decision = "none"
    /\ decision' \in {"approved", "rejected"}
    /\ UNCHANGED <<written, refused>>

Write(c) ==
    /\ decision = "approved" /\ written = {}
    /\ written' = {c}
    /\ UNCHANGED <<decision, refused>>

Refuse(c) ==
    /\ decision = "rejected" /\ refused = {}
    /\ refused' = {c}
    /\ UNCHANGED <<decision, written>>

Next == Decide \/ \E c \in Commands : Write(c) \/ Refuse(c)

Spec == Init /\ [][Next]_vars
=============================================================================
