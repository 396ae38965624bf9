----------------------------- MODULE AuditFolder -----------------------------
(***************************************************************************)
(* The folder of the audit files, packages/core/src/audit/file-writer.ts:  *)
(* several processes write there, each into a file of its own, and each    *)
(* deletes at its start and on every new UTC day what is past its          *)
(* retention and the empty files of earlier days, whosever they are.       *)
(*                                                                         *)
(* Each call of the file system another process can tell apart is a step,  *)
(* and a process may stop between any two.  A file is the name it was      *)
(* made under; a name is made once.  An open that fails leaves no file     *)
(* here, where the code may leave an empty one, and the retention is       *)
(* counted in days, where the code counts months of the calendar.  What a  *)
(* line leaves in its file, the chain and the pieces of lines that fail,   *)
(* is in AuditChain.                                                       *)
(***************************************************************************)
EXTENDS AuditLines, Naturals, FiniteSets

CONSTANTS
    Procs,          \* processes, one after the other under the same ID
    Names,          \* names of files
    NoName,         \* no open file
    DayTicks,       \* readings of the clock in a day
    Grace,          \* how old an empty file must be (emptyFileGraceMs)
    Retention,      \* days a file stays after its own (retentionMonths)
    MaxReopens,     \* files for lost ones, of each process
    MaxTime,        \* bound: the last reading of the clock
    MaxStarts,      \* bound: starts of processes
    MaxByHand       \* bound: files people delete

ASSUME FolderAssumption ==
    /\ NoName \notin Names
    /\ DayTicks \in Nat \ {0} /\ Grace \in Nat /\ Retention \in Nat
    /\ MaxReopens \in Nat /\ MaxTime \in Nat
    /\ MaxStarts \in Nat /\ MaxByHand \in Nat

VARIABLES
    now,        \* the clock
    files,      \* the folder: of each name in it the day in the name, the last
                \* change of its file, and whether that has no byte
    pc,         \* where each process is
    own,        \* its open file, the day of the last file it opened, the last
                \* day it tried one for, and files it may still open for lost ones
    call,       \* what it does, the line it writes, the day it read from the
                \* clock, whether this call had its one new file, and whether it
                \* writes into a second file
    sweep,      \* its sweep: names it has not looked at, the clock at its begin,
                \* the file it is about to delete, whether it neither stopped nor
                \* left a file; and, as history, what was due at its begin
    told,       \* what became of each line
    where,      \* the file each line went into
    on,         \* the day it was written
    raced,      \* history: lines written into a file judged before
    harmed,     \* history: processes that met a failed call of the file system,
                \* lost a file to a person, or had a midnight within a call
    starts,     \* starts so far
    byHand      \* history: files deleted by people

fate == <<told, where, on, raced>>
vars == <<now, files, pc, own, call, sweep, fate, harmed, starts, byHand>>

Steps == {"off", "open", "idle", "day", "sweep", "look", "unlink", "target",
          "attempt", "check"}

File   == [day : Nat, changed : Nat, empty : BOOLEAN]
Owns   == [file : Names \cup {NoName}, date : Nat, tried : Nat, left : 0 .. MaxReopens]
Calls  == [op : {"none", "start", "write", "ready", "tick"},
           line : Lines \cup {NoLine}, stamp : Nat, tried : BOOLEAN,
           again : BOOLEAN]
Sweeps == [todo : SUBSET Names, since : Nat, judged : Names \cup {NoName},
           due : SUBSET Names, clean : BOOLEAN]

NoOwn   == [file |-> NoName, date |-> 0, tried |-> 0, left |-> 0]
NoCall  == [op |-> "none", line |-> NoLine, stamp |-> 0, tried |-> FALSE,
            again |-> FALSE]
NoSweep == [todo |-> {}, since |-> 0, judged |-> NoName, due |-> {},
            clean |-> TRUE]

Folder == DOMAIN files
Without(gone) == [n \in Folder \ gone |-> files[n]]

DayOf(t) == 1 + t \div DayTicks
Today == DayOf(now)

TypeOK ==
    /\ now \in Nat
    /\ Folder \subseteq Names /\ files \in [Folder -> File]
    /\ pc \in [Procs -> Steps]
    /\ own \in [Procs -> Owns]
    /\ call \in [Procs -> Calls]
    /\ sweep \in [Procs -> Sweeps]
    /\ told \in [Lines -> {"none", "asked", "written", "lost"}]
    /\ where \in [Lines -> Names \cup {NoName}] /\ on \in [Lines -> Nat]
    /\ raced \subseteq Lines /\ byHand \subseteq Names /\ starts \in Nat
    /\ harmed \subseteq Procs

Init ==
    /\ now = 0
    /\ files = [n \in {} |-> NoName]
    /\ pc = [p \in Procs |-> "off"]
    /\ own = [p \in Procs |-> NoOwn]
    /\ call = [p \in Procs |-> NoCall]
    /\ sweep = [p \in Procs |-> NoSweep]
    /\ told = [l \in Lines |-> "none"]
    /\ where = [l \in Lines |-> NoName] /\ on = [l \in Lines |-> 0]
    /\ raced = {} /\ starts = 0 /\ byHand = {}
    /\ harmed = {}

-----------------------------------------------------------------------------
(* The steps several operations share.                                     *)

Cur(p)   == own[p].file
Open(p)  == Cur(p) # NoName
Stamp(p) == call[p].stamp

Goto(p, step) == pc' = [pc EXCEPT ![p] = step]
Harm(p) == harmed' = harmed \cup {p}
GiveUp(p) == own' = [own EXCEPT ![p].file = NoName]

\* A call returns; what it held of its own is gone.
Return(p) == Goto(p, "idle") /\ call' = [call EXCEPT ![p] = NoCall]
Tell(p, answer) == Return(p) /\ told' = [told EXCEPT ![call[p].line] = answer]

\* A name no file has and nothing remembers stands for one never used.
Fresh(n) ==
    /\ n \notin Folder \cup byHand
    /\ \A p \in Procs :
        /\ n \notin {Cur(p), sweep[p].judged} \cup sweep[p].todo \cup sweep[p].due
    /\ \A l \in Lines : where[l] # n

\* openFile: a new name with the day the caller read; files that go then.
Make(p, n, tried, left, gone) ==
    /\ n \in Names /\ Fresh(n)
    /\ files' = [m \in (Folder \ gone) \cup {n} |->
                    IF m = n THEN [day |-> Stamp(p), changed |-> now, empty |-> TRUE]
                    ELSE files[m]]
    /\ own' = [own EXCEPT ![p] = [file |-> n, date |-> Stamp(p), tried |-> tried,
                                  left |-> left]]

\* removeEmpty: an own file without a byte is not left behind.
Left(p) == {n \in Folder : n = Cur(p) /\ files[n].empty}

-----------------------------------------------------------------------------
(* The start: a file, and the sweep once there is a log to tell it.        *)

Start(p) ==
    /\ pc[p] = "off" /\ starts < MaxStarts
    /\ starts' = starts + 1
    /\ call' = [call EXCEPT ![p] = [NoCall EXCEPT !.op = "start", !.stamp = Today]]
    /\ Goto(p, "open")
    /\ UNCHANGED <<now, files, own, sweep, fate, harmed, byHand>>

OpenFirst(p) ==
    /\ pc[p] = "open"
    /\ \E n \in Names : Make(p, n, 0, MaxReopens, {})
    /\ Goto(p, "sweep")
    /\ UNCHANGED <<now, call, sweep, fate, harmed, starts, byHand>>

\* The process does not start without its file.
OpenFirstFails(p) ==
    /\ pc[p] = "open"
    /\ Goto(p, "off") /\ call' = [call EXCEPT ![p] = NoCall]
    /\ UNCHANGED <<now, files, own, sweep, fate, harmed, starts, byHand>>

-----------------------------------------------------------------------------
(* write, ready and tick, up to the file they use.  A tick reads the clock *)
(* after the check of its file: one step later than here.                  *)

Begin(p) ==
    /\ pc[p] = "idle"
    /\ \/ \E l \in Lines :
            /\ told[l] = "none"
            /\ told' = [told EXCEPT ![l] = "asked"]
            /\ call' = [call EXCEPT ![p] = [NoCall EXCEPT !.op = "write", !.line = l,
                                                          !.stamp = Today]]
       \/ \E o \in {"ready", "tick"} :
            /\ call' = [call EXCEPT ![p] = [NoCall EXCEPT !.op = o, !.stamp = Today]]
            /\ UNCHANGED told
    /\ Goto(p, "day")
    /\ UNCHANGED <<now, files, own, sweep, where, on, raced, harmed, starts, byHand>>

\* verify: a file whose name is gone is given up.
Verified(p) == IF Cur(p) \in Folder THEN Cur(p) ELSE NoName

\* Mutant: without an open file the day does not count.
TurnsOpen(p) ==
    Stamp(p) > own[p].date /\ Stamp(p) # own[p].tried /\ Verified(p) # NoName

\* turnDay: a later day than that of the file, tried once; without an open
\* file only while the bound for lost files is not used up.
Turns(p) ==
    /\ Stamp(p) > own[p].date /\ Stamp(p) # own[p].tried
    /\ Verified(p) # NoName \/ own[p].left > 0

SameDay(p) ==
    /\ pc[p] = "day" /\ ~Turns(p)
    /\ own' = [own EXCEPT ![p].file = Verified(p)]
    /\ Goto(p, "target")
    /\ UNCHANGED <<now, files, call, sweep, fate, harmed, starts, byHand>>

\* The new file is opened, then the old one is given up.  If there is no new
\* one, the old one stays open.
TurnDay(p) ==
    /\ pc[p] = "day" /\ Turns(p)
    /\ call' = [call EXCEPT ![p].tried = TRUE]
    /\ \/ /\ \E n \in Names : Make(p, n, Stamp(p), own[p].left, Left(p))
          /\ UNCHANGED harmed
       \/ /\ Harm(p)
          /\ own' = [own EXCEPT ![p].file = Verified(p), ![p].tried = Stamp(p)]
          /\ UNCHANGED files
    /\ Goto(p, "sweep")
    /\ UNCHANGED <<now, sweep, fate, starts, byHand>>

-----------------------------------------------------------------------------
(* sweep: the clock is read once, the names once, then file by file.       *)

\* isPastRetention.
Past(day, today) == today > day + Retention

\* Without a byte, its last change before the day and as long ago as the grace.
EmptyBefore(n, t) ==
    /\ files[n].empty
    /\ DayOf(files[n].changed) < DayOf(t) /\ files[n].changed + Grace <= t

\* Mutant: the day in the name decides alone.
DueByName(n, t) ==
    \/ Past(files[n].day, DayOf(t))
    \/ EmptyBefore(n, t)

\* Past its retention by its name and by its last change; or long empty.
Due(n, t) ==
    \/ Past(files[n].day, DayOf(t)) /\ Past(DayOf(files[n].changed), DayOf(t))
    \/ EmptyBefore(n, t)

\* Only names of days before today count, and never its own file.  What is not
\* due now will not be when it is looked at: a last change only moves on.
SweepBegin(p) ==
    /\ pc[p] = "sweep"
    /\ LET old == {n \in Folder \ {Cur(p)} : files[n].day < Today /\ Due(n, now)} IN
        sweep' = [sweep EXCEPT ![p] = [NoSweep EXCEPT !.todo = old, !.due = old,
                                                      !.since = now]]
    /\ Goto(p, "look")
    /\ UNCHANGED <<now, files, own, call, fate, harmed, starts, byHand>>

\* lstat: what is gone, or not due any more, is passed over.
Look(p) ==
    /\ pc[p] = "look"
    /\ \E n \in sweep[p].todo :
        IF n \in Folder /\ Due(n, sweep[p].since)
          THEN /\ sweep' = [sweep EXCEPT ![p].todo = @ \ {n}, ![p].judged = n]
               /\ Goto(p, "unlink")
          ELSE /\ sweep' = [sweep EXCEPT ![p].todo = @ \ {n}]
               /\ UNCHANGED pc
    /\ UNCHANGED <<now, files, own, call, fate, harmed, starts, byHand>>

\* Mutant: a file that cannot be deleted is not told.
UnlinkUntold(p) ==
    /\ pc[p] = "unlink"
    /\ sweep' = [sweep EXCEPT ![p].judged = NoName]
    /\ files' \in {files, Without({sweep[p].judged})}
    /\ Goto(p, "look")
    /\ UNCHANGED <<now, own, call, fate, harmed, starts, byHand>>

\* The file goes, unless it is gone already; or it cannot be deleted.
Unlink(p) ==
    /\ pc[p] = "unlink"
    /\ \/ /\ files' = Without({sweep[p].judged})
          /\ sweep' = [sweep EXCEPT ![p].judged = NoName]
       \/ /\ UNCHANGED files
          /\ sweep' = [sweep EXCEPT ![p].judged = NoName, ![p].clean = FALSE]
    /\ Goto(p, "look")
    /\ UNCHANGED <<now, own, call, fate, harmed, starts, byHand>>

\* The folder cannot be read, or is not the one opened any more.
SweepStops(p) ==
    /\ pc[p] \in {"look", "unlink"}
    /\ sweep' = [sweep EXCEPT ![p].todo = {}, ![p].judged = NoName,
                              ![p].clean = FALSE]
    /\ Goto(p, "look")
    /\ UNCHANGED <<now, files, own, call, fate, harmed, starts, byHand>>

SweepEnd(p) ==
    /\ pc[p] = "look" /\ sweep[p].todo = {}
    /\ sweep' = [sweep EXCEPT ![p] = NoSweep]
    /\ Goto(p, "target")
    /\ UNCHANGED <<now, files, own, call, fate, harmed, starts, byHand>>

-----------------------------------------------------------------------------
(* The rest of write and ready.                                            *)

\* A line goes into the open file; the other operations end here.
Target(p) ==
    /\ pc[p] = "target"
    /\ call[p].op \in {"start", "tick"} \/ Open(p)
    /\ IF call[p].op = "write" THEN Goto(p, "attempt") /\ UNCHANGED call
       ELSE Return(p)
    /\ UNCHANGED <<now, files, own, sweep, fate, harmed, starts, byHand>>

NeedsFile(p) == pc[p] = "target" /\ call[p].op \in {"write", "ready"} /\ ~Open(p)
MayReopen(p) == NeedsFile(p) /\ ~call[p].tried /\ own[p].left > 0

\* reopen: a file for a lost one, or one try of it less.
Reopen(p) ==
    /\ MayReopen(p)
    /\ call' = [call EXCEPT ![p].tried = TRUE]
    /\ \/ /\ \E n \in Names : Make(p, n, own[p].tried, own[p].left - 1, {})
          /\ UNCHANGED harmed
       \/ /\ Harm(p)
          /\ own' = [own EXCEPT ![p].left = @ - 1]
          /\ UNCHANGED files
    /\ UNCHANGED <<now, pc, sweep, fate, starts, byHand>>

NoFile(p) ==
    /\ NeedsFile(p) /\ ~MayReopen(p)
    /\ IF call[p].op = "write" THEN Tell(p, "lost") ELSE Return(p) /\ UNCHANGED told
    /\ UNCHANGED <<now, files, own, sweep, where, on, raced, harmed, starts, byHand>>

\* Bytes at the end of the open file; one whose name is gone is not in files.
Grown(p) == [n \in Folder |-> IF n = Cur(p)
                                THEN [files[n] EXCEPT !.changed = now, !.empty = FALSE]
                                ELSE files[n]]

\* The line reaches the file, whether or not its name is still there.
Attempt(p) ==
    /\ pc[p] = "attempt"
    /\ files' = Grown(p)
    /\ where' = [where EXCEPT ![call[p].line] = Cur(p)]
    /\ on' = [on EXCEPT ![call[p].line] = Today]
    /\ raced' = IF \E q \in Procs : sweep[q].judged = Cur(p)
                  THEN raced \cup {call[p].line} ELSE raced
    /\ Goto(p, "check")
    /\ UNCHANGED <<now, own, call, sweep, told, harmed, starts, byHand>>

\* No byte of it goes out, or a piece.
AttemptFails(p) ==
    /\ pc[p] = "attempt"
    /\ files' \in {files, Grown(p)}
    /\ Harm(p)
    /\ Tell(p, "lost")
    /\ UNCHANGED <<now, own, sweep, where, on, raced, starts, byHand>>

\* EBADF, ESTALE or EFBIG: the file is given up, and the line goes into a new
\* one, if this call had none.
AttemptDropped(p) ==
    /\ pc[p] = "attempt" /\ ~call[p].again
    /\ call' = [call EXCEPT ![p].again = TRUE]
    /\ files' \in {files, Grown(p), Without(Left(p))}
    /\ GiveUp(p)
    /\ Harm(p)
    /\ Goto(p, "target")
    /\ UNCHANGED <<now, sweep, fate, starts, byHand>>

\* verify again: a file deleted meanwhile lost the line with it.
Check(p) ==
    /\ pc[p] = "check"
    /\ IF Cur(p) \in Folder THEN Tell(p, "written") /\ UNCHANGED own
       ELSE Tell(p, "lost") /\ GiveUp(p)
    /\ UNCHANGED <<now, files, sweep, where, on, raced, harmed, starts, byHand>>

-----------------------------------------------------------------------------
(* The end of a process, and the surroundings.                             *)

Ends(p) ==
    /\ own' = [own EXCEPT ![p] = NoOwn]
    /\ call' = [call EXCEPT ![p] = NoCall]
    /\ sweep' = [sweep EXCEPT ![p] = NoSweep]
    /\ harmed' = harmed \ {p}
    /\ Goto(p, "off")

Close(p) ==
    /\ pc[p] = "idle" /\ Ends(p)
    /\ files' = Without(Left(p))
    /\ UNCHANGED <<now, fate, starts, byHand>>

\* A process stops anywhere; its file stays as it is.
Crash(p) ==
    /\ pc[p] # "off" /\ Ends(p)
    /\ UNCHANGED <<now, files, fate, starts, byHand>>

InCall(p) == pc[p] \notin {"off", "idle"}

\* Time passes, and with a new day every call under way straddles midnight.
TimePasses ==
    /\ now < MaxTime
    /\ now' = now + 1
    /\ harmed' = harmed \cup {p \in Procs : InCall(p) /\ DayOf(now + 1) # Today}
    /\ UNCHANGED <<files, pc, own, call, sweep, fate, starts, byHand>>

\* Someone deletes a file.
DeletedByHand ==
    /\ Cardinality(byHand) < MaxByHand
    /\ \E n \in Folder :
        /\ files' = Without({n})
        /\ byHand' = byHand \cup {n}
        /\ harmed' = harmed \cup {p \in Procs : Cur(p) = n}
    /\ UNCHANGED <<now, pc, own, call, sweep, fate, starts>>

Step(p) ==
    \/ OpenFirst(p) \/ OpenFirstFails(p) \/ SameDay(p) \/ TurnDay(p)
    \/ SweepBegin(p) \/ Look(p) \/ Unlink(p) \/ SweepStops(p) \/ SweepEnd(p)
    \/ Target(p) \/ Reopen(p) \/ NoFile(p) \/ Attempt(p) \/ AttemptFails(p)
    \/ AttemptDropped(p) \/ Check(p)

Next ==
    \/ \E p \in Procs : Start(p) \/ Begin(p) \/ Step(p) \/ Close(p) \/ Crash(p)
    \/ TimePasses \/ DeletedByHand

Spec == Init /\ [][Next]_vars

-----------------------------------------------------------------------------
(* Properties.                                                             *)

\* A line that was told written stays in the folder through its own day and
\* the whole retention, also in a file of an earlier day, whichever process
\* sweeps; unless a sweep had judged its file before the line reached it.
LinesStay ==
    \A l \in Lines :
        /\ told[l] = "written" /\ ~Past(on[l], Today)
        /\ l \notin raced /\ where[l] \notin byHand
        => where[l] \in Folder

\* What others sweep costs a process nothing: as long as nothing failed, no
\* one deleted its file by hand and no midnight came within a call, none of
\* its lines is lost or goes into a file another process judged, and it keeps
\* each try for a lost file.
SweepsCostNothing ==
    \A p \in Procs : pc[p] \notin {"off", "open"} /\ p \notin harmed =>
        /\ own[p].left = MaxReopens
        /\ call[p].line \notin raced
        /\ pc[p] \in {"attempt", "check"} => Cur(p) \in Folder

\* A sweep that says it is complete and left no file took whatever was due
\* when it began, but for files written on meanwhile.
CleanTookAll ==
    \A p \in Procs : pc[p] = "look" /\ sweep[p].todo = {} /\ sweep[p].clean =>
        \A n \in sweep[p].due \cap Folder : files[n].changed >= sweep[p].since
=============================================================================
