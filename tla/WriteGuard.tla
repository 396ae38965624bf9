----------------------------- MODULE WriteGuard -----------------------------
(***************************************************************************)
(* The commit of a confirmed write, packages/core/src/write/guard.ts, with *)
(* the policy gate, the switches, the snapshot, the one send to            *)
(* ChurchTools, the read back and the line of the audit the pipeline       *)
(* writes at the end of the call.                                          *)
(*                                                                         *)
(* Several commits run side by side: calls of the server, which share one  *)
(* guard, and commands of the operator (`undo`, `approve`), each with a    *)
(* guard of its own.  ChurchTools knows no condition on a write, so people *)
(* and other commits may change the page between any two steps, and a      *)
(* request whose answer was lost may still land later.                     *)
(***************************************************************************)
EXTENDS Naturals, FiniteSets

CONSTANTS
    Commits,        \* writes that are planned and confirmed
    Old, Person,    \* texts of the page: the first one, one a person saved
    None,           \* nothing read, nothing kept
    SameText,       \* TRUE: every change writes the same text
    Limit,          \* writes of the tool to this target on one day
    Worlds          \* bounds: what may happen around the commits

ASSUME GuardAssumption ==
    /\ IsFiniteSet(Commits) /\ Old \notin Commits /\ Person \notin Commits
    /\ None \notin Nat /\ SameText \in BOOLEAN /\ Limit \in Nat
    /\ \A w \in Worlds :
        /\ w.edits \in Nat /\ w.flips \in Nat
        /\ w.days \in Nat /\ w.restarts \in Nat
        /\ w.snapshots \in BOOLEAN

Texts == Commits \cup {Old, Person}
TextOf(c) == IF SameText THEN CHOOSE d \in Commits : TRUE ELSE c

VARIABLES
    world,      \* how many edits by people, changes of the kill switch,
                \* midnights and restarts there are at most, and whether
                \* snapshots are switched on
    page,       \* the page in ChurchTools: its version and its text
    made,       \* new pages: not there, as created, or edited by a person
    flight,     \* the request of each commit on its way to ChurchTools
    pc,         \* where each commit is
    kind,       \* "change" of the page, or "create" of a page
    by,         \* "tool" in the server, "undo" and "approve" by the operator
    base,       \* the version the plan of a commit was made on
    proof,      \* the proof of the confirmation
    before,     \* the version the snapshot of a commit keeps, or None
    failure,    \* how the send failed: not at all, refused, or unknown
    result,     \* the state a commit ended in
    sent,       \* whether it says that its write may have landed
    counts,     \* writes counted on each day, in the files of the quota store
    day,        \* midnights so far
    swept,      \* days whose counters a count of a later day removed
    askedOn,    \* the day a commit is to be counted on, or None
    answer,     \* the count it took its place with, or None
    afresh,     \* history: counted on a day whose counters were removed before
    switchOff,  \* a kill switch stops writing
    flips,      \* changes of the switch so far
    blocked,    \* the guard of the server stopped for good
    recorded,   \* commits whose line is in the audit file
    restarts,   \* restarts of the server so far
    gone,       \* history: calls of a server that has stopped
    lost        \* history: commits that landed over an edit nobody confirmed

remote  == <<page, made, flight>>
given   == <<world, kind, by>>
plan    == <<given, base>>
outcome == <<failure, result, sent>>
quota   == <<counts, day, swept, askedOn, answer, afresh>>
stops   == <<switchOff, flips, blocked>>
lives   == <<restarts, gone>>
vars == <<remote, pc, plan, proof, before, outcome, quota, stops, recorded,
          lives, lost>>

Days == 0 .. world.days
Steps == {"plan", "ask", "start", "read", "check", "policy", "count", "again",
          "save", "send", "wait", "complete", "readback", "audit", "done"}

TypeOK ==
    /\ world \in Worlds
    /\ page \in [version : Nat, text : Texts]
    /\ made \in [Commits -> {"none", "created", "edited"}]
    /\ flight \in [Commits -> {"none", "open", "landed", "refused"}]
    /\ pc \in [Commits -> Steps]
    /\ kind \in [Commits -> {"change", "create"}]
    /\ by \in [Commits -> {"tool", "undo", "approve"}]
    /\ base \in [Commits -> Nat]
    /\ proof \in [Commits -> {"none", "fresh", "stale", "used"}]
    /\ before \in [Commits -> Nat \cup {None}]
    /\ failure \in [Commits -> {"none", "definite", "unknown"}]
    /\ result \in [Commits -> {"none", "skipped", "denied", "failed",
                               "conflict", "verified"}]
    /\ sent \in [Commits -> BOOLEAN]
    /\ counts \in [Days -> Nat] /\ day \in Days /\ swept \subseteq Days
    /\ askedOn \in [Commits -> Days \cup {None}]
    /\ answer \in [Commits -> Nat \cup {None}] /\ afresh \subseteq Commits
    /\ switchOff \in BOOLEAN /\ blocked \in BOOLEAN
    /\ flips \in 0 .. world.flips /\ restarts \in 0 .. world.restarts
    /\ recorded \subseteq Commits /\ lost \subseteq Commits /\ gone \subseteq Commits

Init ==
    /\ world \in Worlds
    /\ page = [version |-> 1, text |-> Old]
    /\ made = [c \in Commits |-> "none"]
    /\ flight = [c \in Commits |-> "none"]
    /\ pc = [c \in Commits |-> "plan"]
    /\ by \in [Commits -> {"tool", "undo", "approve"}]
    \* An undo writes the text a page had before.
    /\ kind \in {k \in [Commits -> {"change", "create"}] :
                    \A c \in Commits : by[c] = "undo" => k[c] = "change"}
    /\ base = [c \in Commits |-> 0]
    /\ proof = [c \in Commits |-> "none"]
    /\ before = [c \in Commits |-> None]
    /\ failure = [c \in Commits |-> "none"]
    /\ result = [c \in Commits |-> "none"]
    /\ sent = [c \in Commits |-> FALSE]
    /\ counts = [d \in Days |-> 0] /\ day = 0 /\ swept = {}
    /\ askedOn = [c \in Commits |-> None]
    /\ answer = [c \in Commits |-> None] /\ afresh = {}
    /\ switchOff = FALSE /\ flips = 0 /\ blocked = FALSE
    /\ recorded = {} /\ restarts = 0 /\ gone = {} /\ lost = {}

Goto(c, step) == pc' = [pc EXCEPT ![c] = step]
Use(c) == proof' = [proof EXCEPT ![c] = "used"]

\* The commit ends in a state, and says whether its write may have landed.
Ended(c, state, maybe) ==
    /\ Goto(c, "audit")
    /\ result' = [result EXCEPT ![c] = state]
    /\ sent' = [sent EXCEPT ![c] = maybe]
Denied(c) == Ended(c, "denied", FALSE)

\* The block of the server stops its own calls, a switch stops every write.
stopped(c) == switchOff \/ (blocked /\ by[c] = "tool")

-----------------------------------------------------------------------------
(* Before the commit: planning, and the confirmation as it ended.          *)

\* The plan is made on the page as it is, unless the switches, the rights, the
\* texts or the policy refuse it.  A text that stands there is skipped.
AlreadyThere(c) == kind[c] = "change" /\ page.text = TextOf(c)

PlanOnce(c) ==
    /\ pc[c] = "plan"
    /\ \/ Denied(c) /\ UNCHANGED base
       \/ /\ ~stopped(c) /\ AlreadyThere(c)
          /\ Ended(c, "skipped", FALSE) /\ UNCHANGED base
       \/ /\ ~stopped(c) /\ ~AlreadyThere(c)
          /\ base' = [base EXCEPT ![c] = page.version]
          /\ Goto(c, "ask") /\ UNCHANGED <<result, sent>>
    /\ UNCHANGED <<remote, given, proof, before, failure, quota, stops,
                   recorded, lives, lost>>

\* A yes of the client or the operator, or none: then the call ends.
Confirm(c) ==
    /\ pc[c] = "ask"
    /\ \/ /\ proof' = [proof EXCEPT ![c] = "fresh"]
          /\ Goto(c, "start") /\ UNCHANGED <<result, sent>>
       \/ Denied(c) /\ UNCHANGED proof
    /\ UNCHANGED <<remote, plan, before, failure, quota, stops, recorded,
                   lives, lost>>

\* A proof counts for planTtlMs.
ProofExpires(c) ==
    /\ proof[c] = "fresh"
    /\ proof' = [proof EXCEPT ![c] = "stale"]
    /\ UNCHANGED <<remote, pc, plan, before, outcome, quota, stops, recorded,
                   lives, lost>>

-----------------------------------------------------------------------------
(* commit and commitPlan.                                                  *)

\* commit of a call looks at the switches before it reads anything.
Start(c) ==
    /\ pc[c] = "start"
    /\ IF by[c] = "tool" /\ stopped(c) THEN Denied(c)
       ELSE Goto(c, "read") /\ UNCHANGED <<result, sent>>
    /\ UNCHANGED <<remote, plan, proof, before, failure, quota, stops, recorded,
                   lives, lost>>

SameBase(c) == kind[c] = "create" \/ page.version = base[c]

\* The read right before the write: the plan is derived again.
ReadTarget(c) ==
    /\ pc[c] = "read" /\ SameBase(c)
    /\ Goto(c, "check")
    /\ UNCHANGED <<remote, plan, proof, before, outcome, quota, stops, recorded,
                   lives, lost>>

\* The target changed since the plan, or the read failed: the proof goes.
ReadRefused(c) ==
    /\ pc[c] = "read"
    /\ Use(c)
    /\ Denied(c)
    /\ UNCHANGED <<remote, plan, before, failure, quota, stops, recorded,
                   lives, lost>>

\* What runs in one turn once the read is back: proof, switches, clock.
CheckProof(c) ==
    /\ pc[c] = "check"
    /\ Use(c)
    /\ \/ /\ proof[c] = "fresh" /\ ~stopped(c)
          /\ Goto(c, IF by[c] = "undo" THEN "again" ELSE "policy")
          /\ UNCHANGED <<result, sent>>
       \/ Denied(c)
    /\ UNCHANGED <<remote, plan, before, failure, quota, stops, recorded,
                   lives, lost>>

\* The names fit an entry of the policy.  The day of the count is fixed here,
\* before the store is asked for it.
AskCount(c) ==
    /\ pc[c] = "policy"
    /\ askedOn' = [askedOn EXCEPT ![c] = day]
    /\ Goto(c, "count")
    /\ UNCHANGED <<remote, plan, proof, before, outcome, counts, day, swept,
                   answer, afresh, stops, recorded, lives, lost>>

\* The counters when a count of day d ends with n.  The first one a process
\* makes for a day then removes the files of earlier days, which may stay.
Counted(d, n) ==
    \E removed \in {{}, 0 .. d - 1} :
        /\ counts' = [e \in Days |-> IF e = d THEN n
                                    ELSE IF e \in removed THEN 0 ELSE counts[e]]
        /\ swept' = swept \cup removed

\* The store counts, at any time after it was asked, also for a commit that
\* waits no longer.  It reads and writes the file of the day under a lock; a
\* count of a later day removes the file, so that the counter starts again,
\* and the lock, so that one count may miss another.
StoreCounts(c) ==
    /\ askedOn[c] # None /\ answer[c] = None
    /\ LET d == askedOn[c] IN
        \E n \in 1 .. counts[d] + 1 :
            /\ d \in swept \/ n = counts[d] + 1
            /\ Counted(d, n)
            /\ answer' = [answer EXCEPT ![c] = n]
            /\ afresh' = IF d \in swept THEN afresh \cup {c} ELSE afresh
    /\ UNCHANGED <<remote, pc, plan, proof, before, outcome, day, askedOn, stops,
                   recorded, lives, lost>>

\* Mutant: the limit is compared with the count before this write.
CheckBeforeCount(c) ==
    /\ pc[c] = "count" /\ answer[c] # None
    /\ IF by[c] = "approve" \/ answer[c] <= Limit + 1
         THEN Goto(c, "again") /\ UNCHANGED <<result, sent>>
         ELSE Denied(c)
    /\ UNCHANGED <<remote, plan, proof, before, failure, quota, stops, recorded,
                   lives, lost>>

\* The count came in time, whichever day it is by now.  One over the limit
\* refuses a call; an approval is only counted.
CheckPolicy(c) ==
    /\ pc[c] = "count" /\ answer[c] # None
    /\ IF by[c] = "approve" \/ answer[c] <= Limit
         THEN Goto(c, "again") /\ UNCHANGED <<result, sent>>
         ELSE Denied(c)
    /\ UNCHANGED <<remote, plan, proof, before, failure, quota, stops, recorded,
                   lives, lost>>

\* No entry, a name that does not fit or does not read, or a count that fails
\* or is late: a call is refused, an approval goes on.
PolicyRefuses(c) ==
    /\ pc[c] \in {"policy", "count"}
    /\ \/ /\ by[c] = "approve"
          /\ Goto(c, "again") /\ UNCHANGED <<result, sent>>
       \/ by[c] = "tool" /\ Denied(c)
       \/ by[c] = "tool" /\ pc[c] = "policy" /\ Ended(c, "failed", FALSE)
    /\ UNCHANGED <<remote, plan, proof, before, failure, quota, stops, recorded,
                   lives, lost>>

\* Mutant: the switches are not looked at after the policy.
CheckNoMore(c) ==
    /\ pc[c] = "again"
    /\ Goto(c, IF world.snapshots THEN "save" ELSE "send")
    /\ UNCHANGED <<remote, plan, proof, before, outcome, quota, stops, recorded,
                   lives, lost>>

\* The switches once more, after the counter answered.
CheckAgain(c) ==
    /\ pc[c] = "again"
    /\ IF stopped(c) THEN Denied(c)
       ELSE /\ Goto(c, IF world.snapshots THEN "save" ELSE "send")
            /\ UNCHANGED <<result, sent>>
    /\ UNCHANGED <<remote, plan, proof, before, failure, quota, stops, recorded,
                   lives, lost>>

\* Mutant: a snapshot that cannot be kept is only logged.
SaveOrLog(c) ==
    /\ pc[c] = "save"
    /\ \/ before' = [before EXCEPT ![c] = base[c]]
       \/ UNCHANGED before
    /\ Goto(c, "send")
    /\ UNCHANGED <<remote, plan, proof, outcome, quota, stops, recorded,
                   lives, lost>>

\* The state before the write, as it was read, is kept before the send.
SaveBefore(c) ==
    /\ pc[c] = "save"
    /\ \/ /\ before' = [before EXCEPT ![c] = base[c]]
          /\ Goto(c, "send") /\ UNCHANGED <<result, sent>>
       \/ Ended(c, "failed", FALSE) /\ UNCHANGED before
    /\ UNCHANGED <<remote, plan, proof, failure, quota, stops, recorded,
                   lives, lost>>

-----------------------------------------------------------------------------
(* The one send, its answer and the read back: create and change.          *)

Send(c) ==
    /\ pc[c] = "send"
    /\ flight' = [flight EXCEPT ![c] = "open"]
    /\ Goto(c, "wait")
    /\ UNCHANGED <<page, made, plan, proof, before, outcome, quota, stops,
                   recorded, lives, lost>>

\* Refused before any socket: the write never left.
NotSent(c) ==
    /\ pc[c] = "send"
    /\ Ended(c, "failed", FALSE)
    /\ UNCHANGED <<remote, plan, proof, before, failure, quota, stops, recorded,
                   lives, lost>>

\* ChurchTools answered.
Answered(c) ==
    /\ pc[c] = "wait" /\ flight[c] = "landed"
    /\ Goto(c, IF kind[c] = "create" THEN "complete" ELSE "readback")
    /\ UNCHANGED <<remote, plan, proof, before, outcome, quota, stops, recorded,
                   lives, lost>>

\* It refused: a new page was not created, a change is read back.
Refused(c) ==
    /\ pc[c] = "wait" /\ flight[c] = "refused"
    /\ failure' = [failure EXCEPT ![c] = "definite"]
    /\ IF kind[c] = "create" THEN Ended(c, "failed", FALSE)
       ELSE Goto(c, "readback") /\ UNCHANGED <<result, sent>>
    /\ UNCHANGED <<remote, plan, proof, before, quota, stops, recorded,
                   lives, lost>>

\* No answer, or one that says nothing: the request may be anywhere.
Unanswered(c) ==
    /\ pc[c] = "wait"
    /\ failure' = [failure EXCEPT ![c] = "unknown"]
    /\ IF kind[c] = "create" THEN Ended(c, "failed", TRUE)
       ELSE Goto(c, "readback") /\ UNCHANGED <<result, sent>>
    /\ UNCHANGED <<remote, plan, proof, before, quota, stops, recorded,
                   lives, lost>>

\* completeCreate keeps the second part of the snapshot, or says it could
\* not; the write stays.  A page not as planned ends here.
CompleteCreate(c) ==
    /\ pc[c] = "complete"
    /\ \/ Goto(c, "readback") /\ UNCHANGED <<result, sent>>
       \/ Ended(c, "conflict", TRUE)
    /\ UNCHANGED <<remote, plan, proof, before, failure, quota, stops, recorded,
                   lives, lost>>

ReadBackFails(c) ==
    /\ pc[c] = "readback"
    /\ Ended(c, "failed", TRUE)
    /\ UNCHANGED <<remote, plan, proof, before, failure, quota, stops, recorded,
                   lives, lost>>

ReadBackNew(c) ==
    /\ pc[c] = "readback" /\ kind[c] = "create"
    /\ IF made[c] = "created" THEN Ended(c, "verified", TRUE)
       ELSE Ended(c, "conflict", TRUE)
    /\ UNCHANGED <<remote, plan, proof, before, failure, quota, stops, recorded,
                   lives, lost>>

AsPlanned(c) == page.version = base[c] + 1 /\ page.text = TextOf(c)

\* Mutant: the version has grown and the text is there.
ReadBackText(c) ==
    /\ pc[c] = "readback" /\ kind[c] = "change"
    /\ IF page.version > base[c] /\ page.text = TextOf(c)
         THEN Ended(c, "verified", TRUE)
       ELSE IF failure[c] # "none" /\ page.version = base[c]
       THEN Ended(c, "failed", failure[c] # "definite")
       ELSE Ended(c, "conflict", TRUE)
    /\ UNCHANGED <<remote, plan, proof, before, failure, quota, stops, recorded,
                   lives, lost>>

\* Mutant: a page as it was before shows that the write did not land.
ReadBackUnchanged(c) ==
    /\ pc[c] = "readback" /\ kind[c] = "change"
    /\ IF AsPlanned(c) THEN Ended(c, "verified", TRUE)
       ELSE IF failure[c] # "none" /\ page.version = base[c]
       THEN Ended(c, "failed", FALSE)
       ELSE Ended(c, "conflict", TRUE)
    /\ UNCHANGED <<remote, plan, proof, before, failure, quota, stops, recorded,
                   lives, lost>>

\* Only a refusal shows that the write did not land.
ReadBackChange(c) ==
    /\ pc[c] = "readback" /\ kind[c] = "change"
    /\ IF AsPlanned(c) THEN Ended(c, "verified", TRUE)
       ELSE IF failure[c] # "none" /\ page.version = base[c]
       THEN Ended(c, "failed", failure[c] # "definite")
       ELSE Ended(c, "conflict", TRUE)
    /\ UNCHANGED <<remote, plan, proof, before, failure, quota, stops, recorded,
                   lives, lost>>

\* The line of the call.  A write that may have landed and has no line
\* blocks the guard of the server; a command of the operator ends anyway.
Audit(c) ==
    /\ pc[c] = "audit"
    /\ Goto(c, "done")
    /\ \/ recorded' = recorded \cup {c} /\ UNCHANGED blocked
       \/ /\ UNCHANGED recorded
          /\ blocked' = (blocked \/ (by[c] = "tool" /\ sent[c]))
    /\ UNCHANGED <<remote, plan, proof, before, outcome, quota, switchOff, flips,
                   lives, lost>>

Step(c) ==
    \/ PlanOnce(c) \/ Confirm(c) \/ Start(c) \/ ReadTarget(c) \/ ReadRefused(c)
    \/ CheckProof(c) \/ AskCount(c) \/ CheckPolicy(c) \/ PolicyRefuses(c)
    \/ CheckAgain(c) \/ SaveBefore(c) \/ Send(c) \/ NotSent(c)
    \/ Answered(c) \/ Refused(c) \/ Unanswered(c) \/ CompleteCreate(c)
    \/ ReadBackFails(c) \/ ReadBackNew(c) \/ ReadBackChange(c) \/ Audit(c)

-----------------------------------------------------------------------------
(* ChurchTools, people, the operator and time.                             *)

\* The request is carried out: a change replaces whatever the page holds.
Land(c) ==
    /\ flight[c] = "open"
    /\ flight' = [flight EXCEPT ![c] = "landed"]
    /\ IF kind[c] = "create"
         THEN made' = [made EXCEPT ![c] = "created"] /\ UNCHANGED <<page, lost>>
         ELSE /\ page' = [version |-> page.version + 1, text |-> TextOf(c)]
              /\ lost' = IF page.version = base[c] \/ page.text = TextOf(c)
                           THEN lost ELSE lost \cup {c}
              /\ UNCHANGED made
    /\ UNCHANGED <<pc, plan, proof, before, outcome, quota, stops, recorded,
                   lives>>

Refuse(c) ==
    /\ flight[c] = "open"
    /\ flight' = [flight EXCEPT ![c] = "refused"]
    /\ UNCHANGED <<page, made, pc, plan, proof, before, outcome, quota, stops,
                   recorded, lives, lost>>

PersonEdits ==
    /\ page.version <= world.edits
    /\ page' = [version |-> page.version + 1, text |-> Person]
    /\ UNCHANGED <<made, flight, pc, plan, proof, before, outcome, quota, stops,
                   recorded, lives, lost>>

PersonEditsNew(c) ==
    /\ made[c] = "created" /\ pc[c] # "done"
    /\ made' = [made EXCEPT ![c] = "edited"]
    /\ UNCHANGED <<page, flight, pc, plan, proof, before, outcome, quota, stops,
                   recorded, lives, lost>>

FlipSwitch ==
    /\ flips < world.flips
    /\ flips' = flips + 1
    /\ switchOff' = ~switchOff
    /\ UNCHANGED <<remote, pc, plan, proof, before, outcome, quota, blocked,
                   recorded, lives, lost>>

Midnight ==
    /\ day < world.days
    /\ day' = day + 1
    /\ UNCHANGED <<remote, pc, plan, proof, before, outcome, counts, swept,
                   askedOn, answer, afresh, stops, recorded, lives, lost>>

\* Another process counts something for the first time on a day that has
\* begun, and removes the counters of the days before.
CleanUp ==
    \E d \in 1 .. day :
        /\ counts' = [e \in Days |-> IF e < d THEN 0 ELSE counts[e]]
        /\ swept' = swept \cup 0 .. d - 1
        /\ UNCHANGED <<remote, pc, plan, proof, before, outcome, day, askedOn,
                       answer, afresh, stops, recorded, lives, lost>>

\* The server stops with the calls it has begun and the counts they wait for,
\* and starts with a guard not blocked.
Restart ==
    /\ restarts < world.restarts
    /\ restarts' = restarts + 1
    /\ blocked' = FALSE
    /\ LET begun == {c \in Commits : by[c] = "tool" /\ pc[c] # "plan"} IN
        /\ gone' = gone \cup begun
        /\ pc' = [c \in Commits |-> IF c \in begun THEN "done" ELSE pc[c]]
        /\ askedOn' = [c \in Commits |-> IF c \in begun /\ answer[c] = None
                                           THEN None ELSE askedOn[c]]
    /\ UNCHANGED <<remote, plan, proof, before, outcome, counts, day, swept,
                   answer, afresh, switchOff, flips, recorded, lost>>

Next ==
    \/ \E c \in Commits : Step(c) \/ StoreCounts(c) \/ ProofExpires(c) \/ Land(c)
                          \/ Refuse(c) \/ PersonEditsNew(c)
    \/ PersonEdits \/ FlipSwitch \/ Midnight \/ CleanUp \/ Restart

Spec == Init /\ [][Next]_vars

-----------------------------------------------------------------------------
(* Properties.                                                             *)

\* ADR 0029 (T9): an edit a person saved between the read and the write is
\* overwritten, but never in silence: the read back reports a conflict.  So a
\* commit that says verified overwrites no edit, neither before nor later.
OverwriteReported == \A c \in Commits : result[c] = "verified" => c \notin lost

\* With snapshots on, no write reaches ChurchTools before the version it was
\* planned on is kept, so that it can be put back.
KeptBeforeItLands ==
    \A c \in Commits : world.snapshots /\ flight[c] = "landed" => before[c] = base[c]

\* No more calls write on the count of a day than its limit, whatever approvals
\* count beside them, however late their counts, and whichever day they are
\* sent on.  Only a call that asked before midnight and was counted after the
\* counters of its day had been removed comes on top of them.
LimitHolds ==
    \A d \in Days :
        Cardinality({c \in Commits : by[c] = "tool" /\ askedOn[c] = d
                                     /\ flight[c] # "none" /\ c \notin afresh})
            <= Limit

PastLastLook(c) == pc[c] \in {"save", "send", "wait", "complete", "readback"}

\* Once writing is stopped, only commits past their last look still send,
\* each at most once: no other commit comes that far while it is stopped.
StopsHold ==
    [][\A c \in Commits : stopped(c) /\ ~PastLastLook(c) => ~PastLastLook(c)']_vars

\* A call of the running server that ended without a line in the audit, while
\* its request may still land or has landed.
Untold(c) ==
    /\ by[c] = "tool" /\ c \notin gone /\ pc[c] = "done" /\ c \notin recorded
    /\ flight[c] \in {"open", "landed"}

\* Once a write that may land has no line in the audit, whatever its answer or
\* its read back said, no other call of this server comes past its last look.
UnrecordedStops ==
    [][\A c, d \in Commits :
        Untold(c) /\ by[d] = "tool" /\ ~PastLastLook(d) => ~PastLastLook(d)']_vars
=============================================================================
