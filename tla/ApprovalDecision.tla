-------------------------- MODULE ApprovalDecision --------------------------
(***************************************************************************)
(* How one entry of the queue of approvals is decided.  Each command of    *)
(* the operator (`ecclium queue approve | reject`) is a process of its     *)
(* own; they share the entry file, the decision file, the counter of       *)
(* decisions and the day key, and each may stop at any step.               *)
(*                                                                         *)
(*   packages/core/src/pipeline/pipeline.ts   decideEntry, approve, reject *)
(*   packages/core/src/queue/keeper.ts        load, decide, purgeBefore    *)
(*   packages/core/src/queue/file-store.ts    decide, get, purgeBefore     *)
(*                                                                         *)
(* The counter is the one QuotaStore models: lossy says whether two calls   *)
(* may be given the same count.       Days are counted from the day of    *)
(* the entry.                                                              *)
(***************************************************************************)
EXTENDS Naturals, FiniteSets

CONSTANTS
    Commands,       \* commands of the operator about this entry
    Times,          \* values of the clock a decision can carry (decidedAt)
    NoTime,         \* no decision stamped yet
    NoRecord,       \* no decision file
    Retention,      \* days an entry waits (queueRetentionDays)
    CountKeep,      \* days a counter of decisions stays (approvalCountDays)
    MaxDay,         \* bound: days that pass
    MaxLossyDay,    \* bound: days that pass where a count may be lost
    MaxBack,        \* bound: days the clock is set back
    MaxNights,      \* bound: midnights a running command sees
    Counters,       \* whether the counter may lose a count: TRUE, FALSE or both
    FsFails         \* TRUE: a call of the file system may fail

ASSUME DayAssumption ==
    /\ Retention \in Nat /\ CountKeep \in Nat /\ MaxDay \in Nat
    /\ MaxLossyDay \in Nat /\ MaxBack \in Nat /\ MaxNights \in Nat

ASSUME FlagAssumption ==
    /\ Counters \subseteq BOOLEAN
    /\ FsFails \in BOOLEAN

Kinds == {"approved", "rejected"}
Record == [kind : Kinds, at : Times]

ASSUME NoValueAssumption == NoTime \notin Times /\ NoRecord \notin Record

VARIABLES
    lossy,      \* whether the counter may lose a count, see QuotaStore
    entry,      \* the entry file: kept, overwritten with zeros, or gone
    record,     \* the decision file, or NoRecord
    count,      \* the counter of decisions about the entry
    late,       \* counts that timed out for their caller and may still land
    keyGone,    \* the day key of the entry was destroyed
    day,        \* days since the day of the entry, by the clock
    back,       \* days the clock was set back
    pc,         \* where each command is
    kind,       \* what each command decides
    at,         \* the time each command stamped its decision with
    want,       \* the decision each command hands to `decide` of the store
    own,        \* whether the store wrote that decision just now: "no", "yes",
                \* or "left" for one that stood before the call
    nights,     \* midnights each running command has seen
    told,       \* what each command told the operator
    purge,      \* where the removal of old entries is
    stood,      \* history: the decisions that ever stood in the file
    sent        \* history: the commands that sent their write

fileVars == <<entry, record, count, late, keyGone>>
dayVars  == <<day, back, nights>>
given    == <<lossy, kind>>
cmdVars  == <<pc, given, at, want, own, told>>
vars == <<fileVars, dayVars, cmdVars, purge, stood, sent>>

Steps == {"idle", "load", "peek", "plan", "count", "read", "link", "zero",
          "unlink", "write", "done"}
Answers == {"none", "missing", "expired", "decided", "used", "refused",
            "rejected", "approved", "internal", "notSent",
            "uncounted", "countUnknown", "usedUp"}

TypeOK ==
    /\ lossy \in Counters
    /\ entry \in {"kept", "zeroed", "gone"}
    /\ record \in Record \cup {NoRecord}
    /\ count \in Nat
    /\ late \in Nat
    /\ keyGone \in BOOLEAN
    /\ day \in Nat /\ back \in Nat
    /\ pc \in [Commands -> Steps]
    /\ kind \in [Commands -> Kinds]
    /\ at \in [Commands -> Times \cup {NoTime}]
    /\ want \in [Commands -> Record \cup {NoRecord}]
    /\ own \in [Commands -> {"no", "yes", "left"}]
    /\ nights \in [Commands -> Nat]
    /\ told \in [Commands -> Answers]
    /\ purge \in {"rest", "record", "zero", "unlink", "key"}
    /\ stood \subseteq Kinds
    /\ sent \subseteq Commands

\* The entry waits; `put` wrote it under an ID no other entry has.
Init ==
    /\ lossy \in Counters
    /\ entry = "kept" /\ record = NoRecord
    /\ count = 0 /\ late = 0 /\ keyGone = FALSE
    /\ day = 0 /\ back = 0
    /\ pc = [c \in Commands |-> "idle"]
    /\ kind \in [Commands -> Kinds]
    /\ at = [c \in Commands |-> NoTime]
    /\ want = [c \in Commands |-> NoRecord]
    /\ own = [c \in Commands |-> "no"]
    /\ nights = [c \in Commands |-> 0]
    /\ told = [c \in Commands |-> "none"]
    /\ purge = "rest"
    /\ stood = {} /\ sent = {}

Goto(c, step) == pc' = [pc EXCEPT ![c] = step] /\ UNCHANGED told
End(c, answer) ==
    /\ pc' = [pc EXCEPT ![c] = "done"]
    /\ told' = [told EXCEPT ![c] = answer]

Valid == day <= Retention
Stamped(c) == at[c] # NoTime
Mine(c) == [kind |-> kind[c], at |-> at[c]]

\* What a command says once its decision is kept, or another one stands.
Keep(c) ==
    IF kind[c] = "approved" THEN Goto(c, "write") ELSE End(c, "rejected")
\* Mutant: any decision of the same kind is taken for the own one.
DecidedAlike(c, decision) ==
    IF Stamped(c) /\ decision.kind = kind[c] THEN Keep(c) ELSE End(c, "decided")
Decided(c, decision) ==
    IF Stamped(c) /\ decision = Mine(c) THEN Keep(c) ELSE End(c, "decided")

-----------------------------------------------------------------------------
(* load of the keeper, at the start of a command and after a decision the  *)
(* store refused: there, anything but a decision means it was used up.     *)

Begin(c) ==
    /\ pc[c] = "idle"
    /\ Goto(c, "load")
    /\ UNCHANGED <<fileVars, dayVars, given, at, want, own, purge, stood, sent>>

\* The store gives an entry and no decision: it waits, or its time is over.
LoadUndecided(c) ==
    /\ pc[c] = "load" /\ entry = "kept" /\ record = NoRecord
    /\ IF Stamped(c) THEN End(c, "usedUp")
       ELSE IF ~Valid \/ keyGone THEN End(c, "expired")
       ELSE Goto(c, IF kind[c] = "approved" THEN "peek" ELSE "count")
    /\ UNCHANGED <<fileVars, dayVars, given, at, want, own, purge, stood, sent>>

LoadMissing(c) ==
    /\ pc[c] = "load" /\ entry = "gone" /\ record = NoRecord
    /\ End(c, IF Stamped(c) THEN "usedUp" ELSE "missing")
    /\ UNCHANGED <<fileVars, dayVars, given, at, want, own, purge, stood, sent>>

\* A file of zeros is no sealed entry: the store throws, decided or not.
LoadFails(c) ==
    /\ pc[c] = "load" /\ (entry = "zeroed" \/ FsFails)
    /\ End(c, IF Stamped(c) THEN "usedUp" ELSE "internal")
    /\ UNCHANGED <<fileVars, dayVars, given, at, want, own, purge, stood, sent>>

LoadDecided(c) ==
    /\ pc[c] = "load" /\ entry = "gone" /\ record # NoRecord
    /\ Decided(c, record)
    /\ UNCHANGED <<fileVars, dayVars, given, at, want, own, purge, stood, sent>>

\* An entry next to its decision is what a stop left: it is decided again
\* with the decision that stands, so that the store destroys it.
LoadLeftOver(c) ==
    /\ pc[c] = "load" /\ entry = "kept" /\ record # NoRecord
    /\ want' = [want EXCEPT ![c] = record]
    /\ own' = [own EXCEPT ![c] = "left"]
    /\ Goto(c, "read")
    /\ UNCHANGED <<fileVars, dayVars, given, at, purge, stood, sent>>

-----------------------------------------------------------------------------
(* An approval looks for a count and plans the write again.                *)

\* decisionCounted: a decision counted before ends here, before ChurchTools
\* is read.  A store that fails counts as none.
Peek(c) ==
    /\ pc[c] = "peek"
    /\ \/ IF count > 0 THEN End(c, "used") ELSE Goto(c, "plan")
       \/ FsFails /\ Goto(c, "plan")
    /\ UNCHANGED <<fileVars, dayVars, given, at, want, own, purge, stood, sent>>

\* The guard plans from the state now and compares the hash with the entry's.
Plan(c) ==
    /\ pc[c] = "plan"
    /\ Goto(c, "count") \/ End(c, "refused")
    /\ UNCHANGED <<fileVars, dayVars, given, at, want, own, purge, stood, sent>>

-----------------------------------------------------------------------------
(* decideEntry: stamp, count, keep.                                        *)

\* The time of the decision, before the count.  Where a count may be lost, no
\* two commands stamp the same millisecond.
Stamp(c) ==
    \E t \in Times :
        /\ lossy => \A d \in Commands : at[d] # t
        /\ at' = [at EXCEPT ![c] = t]
        /\ want' = [want EXCEPT ![c] = [kind |-> kind[c], at |-> t]]

\* What a count makes of the counter.  A lost count repeats a number.
NextCounts == IF lossy THEN 1 .. count + 1 ELSE {count + 1}

\* Mutant: any count decides.
CountAny(c) ==
    /\ pc[c] = "count"
    /\ Stamp(c)
    /\ count' \in NextCounts
    /\ Goto(c, "read")
    /\ UNCHANGED <<entry, record, late, keyGone, dayVars, given, own, purge,
                   stood, sent>>

\* Counted in time: only the call that counts 1 decides.
CountAnswered(c) ==
    /\ pc[c] = "count"
    /\ Stamp(c)
    /\ count' \in NextCounts
    /\ IF count' = 1 THEN Goto(c, "read") ELSE End(c, "used")
    /\ UNCHANGED <<entry, record, late, keyGone, dayVars, given, own, purge,
                   stood, sent>>

\* The store takes longer than quotaTimeoutMs: the count may still land.
CountLate(c) ==
    /\ pc[c] = "count"
    /\ Stamp(c)
    /\ late' = late + 1
    /\ End(c, "countUnknown")
    /\ UNCHANGED <<entry, record, count, keyGone, dayVars, given, own, purge,
                   stood, sent>>

\* The clock gives no time, or the store fails: nothing is counted.
CountFails(c) ==
    /\ pc[c] = "count"
    /\ End(c, "uncounted")
    /\ UNCHANGED <<fileVars, dayVars, given, at, want, own, purge, stood, sent>>

-----------------------------------------------------------------------------
(* decide of the file store, from `decideEntry` and from `load`.           *)

\* What follows a call of `decide`: `load` looks at nothing it throws;
\* `decideEntry` takes its own decision as kept and reads again otherwise.
AfterDecide(c, written) ==
    IF own[c] = "left" THEN Decided(c, want[c])
    ELSE IF written THEN Keep(c) ELSE Goto(c, "load")

\* Without an entry that opens there is nothing to decide.
ReadEntry(c) ==
    /\ pc[c] = "read"
    /\ IF entry = "kept" THEN Goto(c, "link") ELSE AfterDecide(c, FALSE)
    /\ UNCHANGED <<fileVars, dayVars, given, at, want, own, purge, stood, sent>>

\* The decision takes its name, unless the name is taken.
LinkRecord(c) ==
    /\ pc[c] = "link"
    /\ own' = [own EXCEPT ![c] = IF @ = "left" THEN "left"
                                 ELSE IF record = NoRecord THEN "yes" ELSE "no"]
    /\ IF record = NoRecord
         THEN record' = want[c] /\ stood' = stood \cup {want[c].kind}
         ELSE UNCHANGED <<record, stood>>
    /\ Goto(c, "zero")
    /\ UNCHANGED <<entry, count, late, keyGone, dayVars, given, at, want, purge,
                   sent>>

LinkFails(c) ==
    /\ pc[c] = "link" /\ FsFails
    /\ AfterDecide(c, FALSE)
    /\ UNCHANGED <<fileVars, dayVars, given, at, want, own, purge, stood, sent>>

\* The entry goes in either case: zeros over the file, then its name.
ZeroEntry(c) ==
    /\ pc[c] = "zero"
    /\ entry' \in {IF entry = "kept" THEN "zeroed" ELSE entry}
                  \cup (IF FsFails THEN {entry} ELSE {})
    /\ Goto(c, "unlink")
    /\ UNCHANGED <<record, count, late, keyGone, dayVars, given, at, want, own,
                   purge, stood, sent>>

UnlinkEntry(c) ==
    /\ pc[c] = "unlink"
    /\ \/ entry' = "gone" /\ AfterDecide(c, own[c] = "yes")
       \/ FsFails /\ UNCHANGED entry /\ AfterDecide(c, FALSE)
    /\ UNCHANGED <<record, count, late, keyGone, dayVars, given, at, want, own,
                   purge, stood, sent>>

-----------------------------------------------------------------------------
(* The write of an approval whose decision is kept.                        *)

Send(c) ==
    /\ pc[c] = "write"
    /\ sent' = sent \cup {c}
    /\ End(c, "approved")
    /\ UNCHANGED <<fileVars, dayVars, given, at, want, own, purge, stood>>

\* The guard refuses after the decision: a switch, the clock, a snapshot.
NotSent(c) ==
    /\ pc[c] = "write"
    /\ End(c, "notSent")
    /\ UNCHANGED <<fileVars, dayVars, given, at, want, own, purge, stood, sent>>

Step(c) ==
    \/ LoadUndecided(c) \/ LoadMissing(c) \/ LoadFails(c) \/ LoadDecided(c)
    \/ LoadLeftOver(c) \/ Peek(c) \/ Plan(c)
    \/ CountAnswered(c) \/ CountLate(c) \/ CountFails(c)
    \/ ReadEntry(c) \/ LinkRecord(c) \/ LinkFails(c)
    \/ ZeroEntry(c) \/ UnlinkEntry(c) \/ Send(c) \/ NotSent(c)

\* A command stops at any step; it is not started again.
Crash(c) ==
    /\ pc[c] \notin {"idle", "done"}
    /\ End(c, "none")
    /\ UNCHANGED <<fileVars, dayVars, given, at, want, own, purge, stood, sent>>

-----------------------------------------------------------------------------
(* The surroundings: a late count lands, days pass, the server purges.     *)

LateCountLands ==
    /\ late > 0
    /\ late' = late - 1
    /\ count' \in NextCounts
    /\ UNCHANGED <<entry, record, keyGone, dayVars, cmdVars, purge, stood, sent>>

\* cleanUpApprovals: a count of any key removes the counters of old days.
SweepCounts ==
    /\ day > CountKeep
    /\ count' = 0
    /\ UNCHANGED <<entry, record, late, keyGone, dayVars, cmdVars, purge, stood,
                   sent>>

Running(c) == pc[c] \notin {"idle", "done"}

Midnight ==
    /\ day < IF lossy THEN MaxLossyDay ELSE MaxDay
    /\ \A c \in Commands : Running(c) => nights[c] < MaxNights
    /\ day' = day + 1
    /\ nights' = [c \in Commands |->
                    IF Running(c) THEN nights[c] + 1 ELSE nights[c]]
    /\ UNCHANGED <<fileVars, back, cmdVars, purge, stood, sent>>

SetBack ==
    /\ day > 0 /\ back < MaxBack
    /\ day' = day - 1 /\ back' = back + 1
    /\ UNCHANGED <<fileVars, nights, cmdVars, purge, stood, sent>>

\* purgeBefore: the files of the day in the order of their names, the
\* decision before the entry, and the day key last.  What fails stays.
PurgeBegin ==
    /\ purge = "rest" /\ ~Valid
    /\ purge' = "record"
    /\ UNCHANGED <<fileVars, dayVars, cmdVars, stood, sent>>

PurgeRecord ==
    /\ purge = "record"
    /\ purge' = "zero"
    /\ record' \in {NoRecord} \cup (IF FsFails THEN {record} ELSE {})
    /\ UNCHANGED <<entry, count, late, keyGone, dayVars, cmdVars, stood, sent>>

PurgeZero ==
    /\ purge = "zero"
    /\ purge' = "unlink"
    /\ entry' \in {IF entry = "kept" THEN "zeroed" ELSE entry}
                  \cup (IF FsFails THEN {entry} ELSE {})
    /\ UNCHANGED <<record, count, late, keyGone, dayVars, cmdVars, stood, sent>>

\* Mutant: only an entry that opens is removed.
PurgeUnlinkSealed ==
    /\ purge = "unlink"
    /\ purge' = "key"
    /\ entry' = IF entry = "kept" THEN "gone" ELSE entry
    /\ UNCHANGED <<record, count, late, keyGone, dayVars, cmdVars, stood, sent>>

PurgeUnlink ==
    /\ purge = "unlink"
    /\ purge' = "key"
    /\ entry' \in {"gone"} \cup (IF FsFails THEN {entry} ELSE {})
    /\ UNCHANGED <<record, count, late, keyGone, dayVars, cmdVars, stood, sent>>

PurgeKey ==
    /\ purge = "key"
    /\ purge' = "rest"
    /\ keyGone' \in {TRUE} \cup (IF FsFails THEN {keyGone} ELSE {})
    /\ UNCHANGED <<entry, record, count, late, dayVars, cmdVars, stood, sent>>

Purge == PurgeBegin \/ PurgeRecord \/ PurgeZero \/ PurgeUnlink \/ PurgeKey

Next ==
    \/ \E c \in Commands : Begin(c) \/ Step(c) \/ Crash(c)
    \/ LateCountLands \/ SweepCounts \/ Midnight \/ SetBack \/ Purge

Spec == Init /\ [][Next]_vars

\* Commands that run go on, days pass, and the server purges by its timer;
\* the file system does not refuse to remove one file for ever.
FairSpec ==
    /\ Spec
    /\ \A c \in Commands : WF_vars(Step(c))
    /\ WF_vars(Midnight) /\ WF_vars(Purge)
    /\ SF_vars(PurgeUnlink /\ entry' = "gone")

-----------------------------------------------------------------------------
(* Properties.                                                             *)

\* The write of an entry goes out at most once, whatever commands run side by
\* side, stop, come late or run again after a purge.
AtMostOneWrite == Cardinality(sent) <= 1

\* An entry an operator was told is rejected is never written, and a write
\* that went out was decided as approved and nothing else.
RejectedNeverWritten ==
    /\ (\E c \in Commands : told[c] = "rejected") => sent = {}
    /\ sent # {} => stood = {"approved"}

\* The decision that stands is never replaced by the other kind, neither in
\* place nor after the files were purged.
OneKindStands == Cardinality(stood) <= 1

\* An entry is decided once, and one command at most carries the decision out:
\* the commands, their files and their counter implement DecidedOnce.
Decision == IF stood = {} THEN "none" ELSE CHOOSE k \in stood : TRUE
Refused == {c \in Commands : told[c] = "rejected"}
Once == INSTANCE DecidedOnce WITH
    decision <- Decision, written <- sent, refused <- Refused
EntryDecidedOnce == Once!Spec

\* Once a decision stands, the content of the entry goes, also when the
\* command stopped or a file could not be removed: the purge comes again.
DecidedContentGoes == record # NoRecord /\ ~lossy ~> entry = "gone"
=============================================================================
