------------------------------- MODULE ToolCall -------------------------------
(***************************************************************************)
(* The stages of a call of a tool (packages/core/src/pipeline/pipeline.ts) *)
(* from its first stage to its line in the audit (audit/sink.ts), with the *)
(* daily budget of reads, the port and the access a tool gets for one call,*)
(* and the way of a planned write to its question or its queue.            *)
(*                                                                         *)
(* Calls run through each other at every await.  The code of a tool may    *)
(* live on after its call was given up, the store of the budget may answer *)
(* after its time is over, and the audit file may fail between the gate    *)
(* and the line.  The server around them (packages/cli/src/stdio/serve.ts) *)
(* may end at any point: it gives up every call, closes the transport and  *)
(* then the audit file, and a call that waits for a store ends after that. *)
(***************************************************************************)
EXTENDS Naturals, FiniteSets

CONSTANTS
    Calls,          \* calls of tools in one process
    ReadBudget,     \* calls of special tools a day (readBudgetPerDay)
    MaxWaiting,     \* entries that may wait for the operator (maxWaiting)
    MaxReads,       \* bound: reads of one tool
    MaxDay          \* bound: the latest day

ASSUME BoundAssumption ==
    /\ IsFiniteSet(Calls)
    /\ ReadBudget \in Nat /\ MaxWaiting \in Nat
    /\ MaxReads \in Nat /\ MaxDay \in Nat

Days == 0 .. MaxDay
NoDay == MaxDay + 1
NoCount == Cardinality(Calls) + 1

VARIABLES
    day,        \* the day of the clock
    lastOk,     \* whether the audit file is ready for a line
    server,     \* whether it serves, is closing, or has closed the audit file
    missing,    \* lines the file did not take
    closedWith, \* how many of them the line audit_file_closed names, or NoCount
    counted,    \* store of the budget: count of each day
    swept,      \* days whose counters a count of a later day removed
    afresh,     \* history: counted on a day whose counters were removed before
    queue,      \* calls whose entry waits in the queue of approvals
    tool,       \* what the tool of each call declares
    pc,         \* the stage of each call
    aborted,    \* whether its client gave it up
    asking,     \* its question to the store of the budget
    askedOn,    \* the day it asks for
    answer,     \* the count the store gave, or 0
    open,       \* whether access and port of the call are open
    reads,      \* reads its tool began
    plan,       \* the one plan its tool made
    result,     \* what the stages ended with
    state,      \* the state of its write, or none
    line,       \* outcome in the audit file, or none
    named,      \* objects that line names, or counts as left out (see End)
    copy,       \* outcome in the copy of the line on the log, or none
    told,       \* what went to the connection
    ranOn,      \* history: day of the budget under which its tool ran
    most        \* history: most calls at once between counting and queueing

file   == <<lastOk, server, missing, closedWith>>
store  == <<counted, swept, afresh>>
budget == <<store, asking, askedOn, answer>>
acts   == <<open, reads, plan>>
ends   == <<line, named, copy, told>>
vars == <<day, file, budget, queue, tool, pc, aborted, acts, result, state,
          ends, ranOn, most>>

Outcomes == {"ok", "error", "denied"}
States == {"planned", "queued", "skipped", "denied", "failed"}

TypeOK ==
    /\ day \in Days /\ lastOk \in BOOLEAN
    /\ server \in {"serves", "closing", "closed"}
    /\ missing \in 0 .. Cardinality(Calls) /\ closedWith \in 0 .. NoCount
    /\ counted \in [Days -> Nat] /\ swept \subseteq Days /\ afresh \subseteq Calls
    /\ queue \subseteq Calls
    /\ tool \in [Calls -> [special : BOOLEAN, writes : BOOLEAN]]
    /\ pc \in [Calls -> {"idle", "count", "run", "waiting", "enqueue", "end",
                         "done"}]
    /\ aborted \in [Calls -> BOOLEAN]
    /\ asking \in [Calls -> {"no", "asked", "answered", "failed"}]
    /\ askedOn \in [Calls -> Days]
    /\ answer \in [Calls -> Nat]
    /\ open \in [Calls -> BOOLEAN]
    /\ reads \in [Calls -> 0 .. MaxReads]
    /\ plan \in [Calls -> {"none", "reading", "sealed", "skipped", "denied",
                           "failed"}]
    /\ result \in [Calls -> Outcomes \cup {"none", "question"}]
    /\ state \in [Calls -> States \cup {"none"}]
    /\ line \in [Calls -> Outcomes \cup {"none"}]
    /\ named \in [Calls -> 0 .. MaxReads]
    /\ copy \in [Calls -> Outcomes \cup {"none"}]
    /\ told \in [Calls -> Outcomes \cup {"none", "question", "withheld"}]
    /\ ranOn \in [Calls -> Days \cup {NoDay}]
    /\ most \in Nat

Init ==
    /\ day = 0 /\ lastOk = TRUE
    /\ server = "serves" /\ missing = 0 /\ closedWith = NoCount
    /\ counted = [d \in Days |-> 0] /\ swept = {} /\ afresh = {}
    /\ queue = {}
    /\ tool \in [Calls -> [special : BOOLEAN, writes : BOOLEAN]]
    /\ pc = [c \in Calls |-> "idle"]
    /\ aborted = [c \in Calls |-> FALSE]
    /\ asking = [c \in Calls |-> "no"]
    /\ askedOn = [c \in Calls |-> 0]
    /\ answer = [c \in Calls |-> 0]
    /\ open = [c \in Calls |-> FALSE]
    /\ reads = [c \in Calls |-> 0]
    /\ plan = [c \in Calls |-> "none"]
    /\ result = [c \in Calls |-> "none"]
    /\ state = [c \in Calls |-> "none"]
    /\ line = [c \in Calls |-> "none"]
    /\ named = [c \in Calls |-> 0]
    /\ copy = [c \in Calls |-> "none"]
    /\ told = [c \in Calls |-> "none"]
    /\ ranOn = [c \in Calls |-> NoDay]
    /\ most = 0

Goto(c, stage) == pc' = [pc EXCEPT ![c] = stage]
EndWith(c, outcome) ==
    result' = [result EXCEPT ![c] = outcome] /\ Goto(c, "end")
WriteIs(c, write) == state' = [state EXCEPT ![c] = write]
\* The result is checked, redacted, marked and measured, or it cannot be.
Finish(c) == \E outcome \in {"ok", "error"} : EndWith(c, outcome)
Special(c) == tool[c].special
Writes(c) == tool[c].writes

-----------------------------------------------------------------------------
(* The first stages: tool, tenant, keys, gate and input.  The keys of the  *)
(* level strict are derived in memory, so all of it is one turn.           *)

\* An unknown tool, a request already given up, no tenant, a rule of the gate
\* or an input that does not fit.
Refuse(c) ==
    /\ pc[c] = "idle" /\ (server = "serves" \/ aborted[c])
    /\ \E outcome \in {"error", "denied"} : EndWith(c, outcome)
    /\ UNCHANGED <<day, file, budget, queue, tool, aborted, acts, state, ends,
                   ranOn, most>>

\* A special tool and a write need an audit file that can take their line.
NotReady(c) ==
    /\ pc[c] = "idle" /\ ~aborted[c] /\ server = "serves" /\ ~lastOk
    /\ Special(c) \/ Writes(c)
    /\ EndWith(c, "denied")
    /\ UNCHANGED <<day, file, budget, queue, tool, aborted, acts, state, ends,
                   ranOn, most>>

MayPass(c) ==
    /\ pc[c] = "idle" /\ ~aborted[c] /\ server = "serves"
    /\ lastOk \/ ~(Special(c) \/ Writes(c))

Run(c) ==
    /\ Goto(c, "run")
    /\ open' = [open EXCEPT ![c] = TRUE]
    /\ UNCHANGED <<reads, plan>>

Pass(c) ==
    /\ MayPass(c) /\ ~Special(c)
    /\ Run(c)
    /\ UNCHANGED <<day, file, budget, queue, tool, aborted, result, state, ends,
                   ranOn, most>>

\* A budget of 0 asks no store.
PassToBudget(c) ==
    /\ MayPass(c) /\ Special(c)
    /\ IF ReadBudget = 0
         THEN EndWith(c, "denied") /\ UNCHANGED <<asking, askedOn>>
         ELSE /\ asking' = [asking EXCEPT ![c] = "asked"]
              /\ askedOn' = [askedOn EXCEPT ![c] = day]
              /\ Goto(c, "count") /\ UNCHANGED result
    /\ UNCHANGED <<day, file, store, answer, queue, tool, aborted, acts,
                   state, ends, ranOn, most>>

-----------------------------------------------------------------------------
(* The budget of reads: the store races its timer.                         *)

\* The counters when the one of day d is n.  The first count a process makes
\* for a day then removes the files of earlier days, which may stay.
Stored(d, n) ==
    \E removed \in {{}, 0 .. d - 1} :
        /\ counted' = [e \in Days |-> IF e = d THEN n
                                     ELSE IF e \in removed THEN 0 ELSE counted[e]]
        /\ swept' = swept \cup removed

\* The store counts, also for a call that waits no longer.  A count of a later
\* day removes the file, so that the counter starts again, and its lock, so
\* that one count may miss another.
StoreCounts(c) ==
    /\ asking[c] = "asked"
    /\ asking' = [asking EXCEPT ![c] = "answered"]
    /\ LET d == askedOn[c] IN
        \E n \in 1 .. counted[d] + 1 :
            /\ d \in swept \/ n = counted[d] + 1
            /\ Stored(d, n)
            /\ answer' = [answer EXCEPT ![c] = n]
            /\ afresh' = IF d \in swept THEN afresh \cup {c} ELSE afresh
    /\ UNCHANGED <<day, file, askedOn, queue, tool, pc, aborted, acts, result,
                   state, ends, ranOn, most>>

\* The store fails, before or after it counted.
StoreFails(c) ==
    /\ asking[c] = "asked"
    /\ asking' = [asking EXCEPT ![c] = "failed"]
    /\ \E n \in {0, 1} : Stored(askedOn[c], counted[askedOn[c]] + n)
    /\ UNCHANGED <<day, file, askedOn, answer, afresh, queue, tool, pc, aborted,
                   acts, result, state, ends, ranOn, most>>

\* Another process counts something for the first time on a day that has
\* begun, and removes the counters of the days before.
CleanUp ==
    \E d \in 1 .. day :
        /\ counted' = [e \in Days |-> IF e < d THEN 0 ELSE counted[e]]
        /\ swept' = swept \cup 0 .. d - 1
        /\ UNCHANGED <<day, file, afresh, asking, askedOn, answer, queue, tool,
                       pc, aborted, acts, result, state, ends, ranOn, most>>

\* Mutant: the first call above the budget still runs.
OneAbove(c) == answer[c] > ReadBudget + 1

AboveBudget(c) == answer[c] > ReadBudget

CountAnswered(c) ==
    /\ pc[c] = "count" /\ asking[c] = "answered"
    /\ IF AboveBudget(c) THEN EndWith(c, "denied") /\ UNCHANGED <<acts, ranOn>>
       ELSE IF aborted[c] THEN EndWith(c, "error") /\ UNCHANGED <<acts, ranOn>>
       ELSE /\ Run(c) /\ UNCHANGED result
            /\ ranOn' = [ranOn EXCEPT ![c] = askedOn[c]]
    /\ asking' = [asking EXCEPT ![c] = "no"]
    /\ answer' = [answer EXCEPT ![c] = 0]
    /\ UNCHANGED <<day, file, store, askedOn, queue, tool, aborted, state,
                   ends, most>>

\* Mutant: a call without its count gives one back, made or not.
CountGivenBack(c) ==
    /\ pc[c] = "count" /\ asking[c] \in {"asked", "failed"}
    /\ EndWith(c, "denied")
    /\ counted' = [counted EXCEPT ![askedOn[c]] = @ - 1]
    /\ UNCHANGED <<day, file, swept, afresh, asking, askedOn, answer, queue,
                   tool, aborted, acts, state, ends, ranOn, most>>

\* No count in time, or none at all: the tool does not run.
CountUnavailable(c) ==
    /\ pc[c] = "count" /\ asking[c] \in {"asked", "failed"}
    /\ EndWith(c, "denied")
    /\ UNCHANGED <<day, file, budget, queue, tool, aborted, acts, state, ends,
                   ranOn, most>>

-----------------------------------------------------------------------------
(* The tool.  Its code may go on after its call ended, and does whatever   *)
(* access and port still let it do.                                        *)

\* A read is noted for the line and begun in one turn.
ToolReads(c) ==
    /\ open[c] /\ reads[c] < MaxReads
    /\ reads' = [reads EXCEPT ![c] = @ + 1]
    /\ UNCHANGED <<day, file, budget, queue, tool, pc, aborted, open, plan,
                   result, state, ends, ranOn, most>>

\* One plan for each call.
ToolPlans(c) ==
    /\ open[c] /\ Writes(c) /\ plan[c] = "none"
    /\ plan' = [plan EXCEPT ![c] = "reading"]
    /\ UNCHANGED <<day, file, budget, queue, tool, pc, aborted, open, reads,
                   result, state, ends, ranOn, most>>

\* The guard seals, finds nothing to write or refuses, also for a call that
\* ended meanwhile.
PlanEnds(c) ==
    /\ plan[c] = "reading"
    /\ \E end \in {"sealed", "skipped", "denied", "failed"} :
        plan' = [plan EXCEPT ![c] = end]
    /\ UNCHANGED <<day, file, budget, queue, tool, pc, aborted, open, reads,
                   result, state, ends, ranOn, most>>

\* The way of a write whose tool returned the outcome of its plan.
Routed(c) ==
    \/ plan[c] = "skipped" /\ WriteIs(c, "skipped") /\ Finish(c)
    \/ plan[c] = "sealed" /\ Goto(c, "waiting") /\ UNCHANGED <<result, state>>
    \* The echo: its token goes back as a result.
    \/ plan[c] = "sealed" /\ WriteIs(c, "planned") /\ Finish(c)
    \* The question.
    \/ plan[c] = "sealed" /\ WriteIs(c, "planned") /\ EndWith(c, "question")
    \* No place for the plan, or nobody to ask.
    \/ plan[c] = "sealed" /\ WriteIs(c, "denied") /\ EndWith(c, "denied")

\* A refused plan ends the call with its own error, whatever the tool made of
\* it.
RefusedPlan(c) ==
    /\ plan[c] \in {"denied", "failed"}
    /\ WriteIs(c, plan[c])
    /\ EndWith(c, IF plan[c] = "denied" THEN "denied" ELSE "error")

Threw(c) ==
    /\ plan[c] \notin {"denied", "failed"}
    /\ EndWith(c, "error") /\ UNCHANGED state

Returned(c) ==
    IF Writes(c)
      THEN Routed(c) \/ RefusedPlan(c)
      ELSE Finish(c) /\ UNCHANGED state

\* The tool ends: with its result or the outcome of its plan, by throwing, or
\* with something else, which for a write is a fault as well.
ToolEnds(c) ==
    /\ pc[c] = "run"
    /\ open' = [open EXCEPT ![c] = FALSE]
    /\ Returned(c) \/ Threw(c) \/ RefusedPlan(c)
    /\ UNCHANGED <<day, file, budget, queue, tool, aborted, reads, plan, ends,
                   ranOn, most>>

\* Mutant: a call that was given up waits for its tool.
AbortsUnheard(c) ==
    /\ server = "serves" /\ ~aborted[c] /\ pc[c] # "done"
    /\ aborted' = [aborted EXCEPT ![c] = TRUE]
    /\ UNCHANGED <<day, file, budget, queue, tool, pc, acts, result, state,
                   ends, ranOn, most>>

\* The client gives the call up.  Only a running tool is raced against that:
\* its call ends at once, and its code goes on without access and port.
ClientAborts(c) ==
    /\ server = "serves" /\ ~aborted[c] /\ pc[c] # "done"
    /\ aborted' = [aborted EXCEPT ![c] = TRUE]
    /\ IF pc[c] = "run"
         THEN /\ open' = [open EXCEPT ![c] = FALSE]
              /\ Threw(c) \/ RefusedPlan(c)
         ELSE UNCHANGED <<open, pc, result, state>>
    /\ UNCHANGED <<day, file, budget, queue, tool, reads, plan, ends, ranOn,
                   most>>

-----------------------------------------------------------------------------
(* The queue of approvals: counting the entries and keeping a new one are  *)
(* apart, with the keys of the day in between.                             *)

Between == {c \in Calls : pc[c] = "enqueue"}
Larger(a, b) == IF a > b THEN a ELSE b

HasRoom == Cardinality(queue) < MaxWaiting

CountWaiting(c) ==
    /\ pc[c] = "waiting"
    /\ IF HasRoom
         THEN /\ Goto(c, "enqueue") /\ UNCHANGED <<result, state>>
              /\ most' = Larger(most, Cardinality(Between) + 1)
         ELSE WriteIs(c, "denied") /\ EndWith(c, "denied") /\ UNCHANGED most
    /\ UNCHANGED <<day, file, budget, queue, tool, aborted, acts, ends, ranOn>>

Enqueue(c) ==
    /\ pc[c] = "enqueue"
    /\ queue' = queue \cup {c}
    /\ WriteIs(c, "queued") /\ Finish(c)
    /\ UNCHANGED <<day, file, budget, tool, aborted, acts, ends, ranOn, most>>

\* The folder cannot be read, or the entry cannot be sealed or kept.
QueueFails(c) ==
    /\ pc[c] \in {"waiting", "enqueue"}
    /\ WriteIs(c, "failed") /\ EndWith(c, "error")
    /\ UNCHANGED <<day, file, budget, queue, tool, aborted, acts, ends, ranOn,
                   most>>

\* The operator decides an entry, or it expires.
EntryGoes(c) ==
    /\ c \in queue
    /\ queue' = queue \ {c}
    /\ UNCHANGED <<day, file, budget, tool, pc, aborted, acts, result, state,
                   ends, ranOn, most>>

-----------------------------------------------------------------------------
(* The line and the answer.                                               *)

\* What the audit calls an outcome: a question waits, it is no error.
Audited(outcome) == IF outcome \in {"ok", "question"} THEN "ok" ELSE outcome

\* The outcome a state of a write goes with.
OutcomeOf(write) ==
    CASE write = "denied" -> "denied" [] write = "failed" -> "error" [] OTHER -> "ok"

\* The state of the write, or for a write tool that ended before, what its
\* outcome says.
StateOfCall(c, outcome) ==
    IF state[c] # "none" THEN state[c]
    ELSE IF outcome = "ok" \/ ~Writes(c) THEN "none"
    ELSE IF Audited(outcome) = "denied" THEN "denied" ELSE "failed"

\* Only this result waits for its line.
Required(c, outcome) == Special(c) /\ ~Writes(c) /\ outcome = "ok"

\* Mutant: a line the sink had to change still says ok.
LineOutcomeAnyway(c, outcome, changed) == Audited(outcome)

LineOutcome(c, outcome, changed) ==
    IF Required(c, outcome) /\ changed THEN "denied" ELSE Audited(outcome)

CopyOutcome(c, outcome, changed, taken) ==
    IF ~taken /\ Required(c, outcome) THEN "denied"
    ELSE LineOutcome(c, outcome, changed)

\* Mutant: what the file takes is enough, also when the line was changed.
HeldBackUnlessTaken(c, outcome, changed, taken) == Required(c, outcome) /\ ~taken

HeldBack(c, outcome, changed, taken) ==
    Required(c, outcome) /\ ~(taken /\ ~changed)

\* The end of every call, in one turn: access closes, the line is written and
\* the client is told.  The IDs of a result may fail to be derived, a field of
\* the line may be invalid, and the file may take the line or not.  The line
\* names the first 100 objects read and counts the others as left out.  What
\* only the stages of the call read is gone with it.
End(c) ==
    /\ pc[c] = "end"
    /\ open' = [open EXCEPT ![c] = FALSE]
    /\ \E derived, invalid, taken \in BOOLEAN :
        LET outcome == IF result[c] = "ok" /\ ~derived THEN "error" ELSE result[c]
            write == StateOfCall(c, outcome)
            fits == write = "none" \/ OutcomeOf(write) = Audited(outcome)
            changed == invalid \/ ~fits
        IN  /\ server = "closed" => ~taken
            /\ lastOk' = taken
            /\ missing' = IF taken THEN missing ELSE missing + 1
            /\ line' = [line EXCEPT ![c] =
                            IF taken THEN LineOutcome(c, outcome, changed) ELSE "none"]
            /\ named' = [named EXCEPT ![c] = reads[c]]
            /\ copy' = [copy EXCEPT ![c] = CopyOutcome(c, outcome, changed, taken)]
            /\ told' = [told EXCEPT ![c] =
                            IF HeldBack(c, outcome, changed, taken) THEN "withheld"
                            ELSE outcome]
    /\ Goto(c, "done")
    /\ result' = [result EXCEPT ![c] = "none"]
    /\ state' = [state EXCEPT ![c] = "none"]
    /\ aborted' = [aborted EXCEPT ![c] = FALSE]
    /\ UNCHANGED <<day, server, closedWith, budget, queue, tool, reads, plan,
                   ranOn, most>>

-----------------------------------------------------------------------------
(* The end of the server, and the world around.                           *)

\* A signal, the end of the input or an error of the output: the connection
\* closes, which gives up every call that has begun.  A process that ends at
\* once, at its deadline or by a second signal, just takes no further step.
ServerCloses ==
    /\ server = "serves" /\ server' = "closing"
    /\ LET begun   == {c \in Calls : pc[c] \notin {"idle", "done"}}
            running == {c \in Calls : pc[c] = "run"}
            refused == {c \in running : plan[c] \in {"denied", "failed"}}
        IN  /\ aborted' = [c \in Calls |-> aborted[c] \/ c \in begun]
            /\ open' = [c \in Calls |-> open[c] /\ c \notin running]
            /\ pc' = [c \in Calls |-> IF c \in running THEN "end" ELSE pc[c]]
            /\ result' = [c \in Calls |->
                            IF c \notin running THEN result[c]
                            ELSE IF plan[c] = "denied" THEN "denied"
                            ELSE "error"]
            /\ state' = [c \in Calls |->
                            IF c \in refused THEN plan[c] ELSE state[c]]
    /\ UNCHANGED <<day, lastOk, missing, closedWith, budget, queue, tool, reads,
                   plan, ends, ranOn, most>>

\* Calls that wait for nothing any more: their line is a few turns away,
\* fewer than closing the transport takes.
AtTheirLine == {c \in Calls : pc[c] = "end" \/ (pc[c] = "idle" /\ aborted[c])}

\* With the transport closed, the line audit_file_closed counts what the file
\* did not take, and the file closes.  No step waits for the calls.
FileCloses ==
    /\ server = "closing" /\ AtTheirLine = {}
    /\ server' = "closed" /\ lastOk' = FALSE
    /\ closedWith' = missing
    /\ UNCHANGED <<day, missing, budget, queue, tool, pc, aborted, acts, result,
                   state, ends, ranOn, most>>

\* A new day, or a file given up, opens another file.
FileReady ==
    /\ ~lastOk /\ server # "closed" /\ lastOk' = TRUE
    /\ UNCHANGED <<day, server, missing, closedWith, budget, queue, tool, pc,
                   aborted, acts, result, state, ends, ranOn, most>>

Midnight ==
    /\ day < MaxDay /\ day' = day + 1
    /\ UNCHANGED <<file, budget, queue, tool, pc, aborted, acts, result, state,
                   ends, ranOn, most>>

\* What the event loop and the stores do for a call; the code of the tool is
\* not among it.
Step(c) ==
    \/ Refuse(c) \/ NotReady(c) \/ Pass(c) \/ PassToBudget(c)
    \/ CountAnswered(c) \/ CountUnavailable(c)
    \/ CountWaiting(c) \/ Enqueue(c) \/ QueueFails(c)
    \/ End(c)

Next ==
    \/ \E c \in Calls :
        \/ Step(c) \/ StoreCounts(c) \/ StoreFails(c)
        \/ ToolReads(c) \/ ToolPlans(c) \/ PlanEnds(c) \/ ToolEnds(c)
        \/ ClientAborts(c) \/ EntryGoes(c)
    \/ FileReady \/ Midnight \/ CleanUp \/ ServerCloses \/ FileCloses

Spec == Init /\ [][Next]_vars

-----------------------------------------------------------------------------
(* Properties.                                                             *)

\* The result of a tool treated as special goes out only when its line is in
\* the audit file, says ok and names, or beyond 100 counts, every object its
\* tool read or goes on to read.
SpecialIsRecorded ==
    \A c \in Calls : Special(c) /\ ~Writes(c) /\ told[c] = "ok" =>
        line[c] = "ok" /\ named[c] = reads[c]

\* Neither the audit file nor the log says ok for a special call whose result
\* was held back or could not be given.
OkLinesWentOut ==
    \A c \in Calls :
        Special(c) /\ ~Writes(c) /\ (line[c] = "ok" \/ copy[c] = "ok")
            => told[c] = "ok"

\* On no day do more special tools run than the budget allows, with calls side
\* by side, over midnight, with late and failing answers of the store.  Only a
\* call that asked before midnight and was counted after the counters of its
\* day had been removed comes on top of them.
BudgetHolds ==
    \A d \in Days :
        Cardinality({c \in Calls : ranOn[c] = d /\ c \notin afresh}) <= ReadBudget

\* The queue holds more entries than its bound only by calls that counted side
\* by side, each of them one too many at most.
QueueNearBound ==
    Cardinality(queue) <= MaxWaiting
        \/ Cardinality(queue) + 1 <= MaxWaiting + most

\* Calls side by side keep the bounds: the budget of a day, and the queue but
\* for those that counted together.
BoundsHold == BudgetHolds /\ QueueNearBound

\* A call that was given up, by its client or by the end of the server, has no
\* access to ChurchTools, and can always go on by a step of its own, each one a
\* stage further, until it is over: it never waits for its tool, and for a
\* store only as long as its timer.
GivenUpGoesOn == \A c \in Calls : aborted[c] => ~open[c] /\ ENABLED Step(c)

\* docs/betrieb/stdio.md:108: each line goes into the file first, and what the
\* file does not take, the line audit_file_closed counts.
LossIsCounted == closedWith # NoCount => missing = closedWith
=============================================================================
