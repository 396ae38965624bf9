----------------------------- MODULE AuditChain -----------------------------
(***************************************************************************)
(* The bytes of the audit files of one process and of those started after  *)
(* it, packages/core/src/audit/file-writer.ts: each line with the number   *)
(* and the hash of the chain, pieces and their repair, a new file for one  *)
(* that is gone or full, the flush and the anchor of a file given up, and  *)
(* the anchor after each write.                                            *)
(*                                                                         *)
(* The process may end, and the power fail, between any two of its calls   *)
(* of the file system.  What stands after the last line break of a file is *)
(* its tail: the line it would be if a line break followed.  A piece with  *)
(* its repair is no line, and is left out of the lines.                    *)
(*                                                                         *)
(* AuditProofs extends this module and AuditFolder: a name both would have *)
(* is another one here.                                                    *)
(***************************************************************************)
EXTENDS AuditVerify

CONSTANTS
    WriteTools,     \* whether calls that wrote ask for an anchor (ADR 0029)
    MaxFiles,       \* bound: files opened
    MaxStops        \* bound: ends of the process without close, power failures

ASSUME ChainAssumption ==
    /\ WriteTools \subseteq BOOLEAN /\ WriteTools # {}
    /\ MaxFiles \in Nat /\ MaxStops \in Nat

None == [file |-> 0]

VARIABLES
    writes,     \* calls that wrote ask for an anchor
    disk,       \* the files, by the number of their name
    log,        \* the anchors on the log
    at,         \* where the process is
    cur,        \* its open file, or 0
    head,       \* number and hash of the last whole line of that file
    torn,       \* that file ends in a piece without its repair
    line,       \* the line it writes
    tried,      \* this line had its one new file
    again,      \* this line goes into a second file
    giving,     \* the file it gives up or flushes, or None
    became,     \* what became of each line
    stops,      \* ends without close and power failures so far
    unflushed   \* history: files given up without a flush

fileVars == <<cur, head, torn>>
lineVars == <<line, tried, again>>
ends == <<stops, unflushed, writes>>
chainVars == <<disk, log, at, fileVars, lineVars, giving, became, ends>>

ChainSteps == {"off", "idle", "day", "target", "attempt", "written", "repair",
               "failed", "give", "flush", "anchor"}

ChainTypeOK ==
    /\ Len(disk) <= MaxFiles
    /\ \A n \in DOMAIN disk :
        /\ \A i \in DOMAIN disk[n].lines : disk[n].lines[i].line \in Lines \cup {NoLine}
        /\ Len(disk[n].tail) <= 1
        /\ disk[n].synced \in 0 .. Len(disk[n].lines)
    /\ \A a \in log : a.file \in DOMAIN disk /\ a.seq \in Nat \ {0}
    /\ at \in ChainSteps
    /\ cur \in {0, Len(disk)}
    /\ head.seq \in Nat /\ torn \in BOOLEAN
    /\ line \in Lines \cup {NoLine}
    /\ tried \in BOOLEAN /\ again \in BOOLEAN
    /\ giving.file \in 0 .. Len(disk)
    /\ became \in [Lines -> {"none", "asked", "whole", "lost", "gone"}]
    /\ stops \in 0 .. MaxStops /\ unflushed \subseteq DOMAIN disk
    /\ writes \in WriteTools

ChainInit ==
    /\ disk = <<>> /\ log = {}
    /\ at = "off" /\ cur = 0
    /\ head = [seq |-> 0, hash |-> NameHash(0)] /\ torn = FALSE
    /\ line = NoLine /\ tried = FALSE /\ again = FALSE
    /\ giving = None
    /\ became = [l \in Lines |-> "none"]
    /\ stops = 0 /\ unflushed = {} /\ writes \in WriteTools

-----------------------------------------------------------------------------
(* The bytes of a file.                                                    *)

NewFile == [lines |-> <<>>, tail |-> <<>>, synced |-> 0]

\* Mutant: a line break alone closes a piece.
RepairedByBreak(f) == [f EXCEPT !.lines = @ \o f.tail, !.tail = <<>>]

Repaired(f) == [f EXCEPT !.tail = <<>>]
\* A tilde or a part of a line: whatever follows, it never parses.
Spoilt(f) == [f EXCEPT !.tail = <<Broken>>]
\* Bytes after a tail make one line with it.
After(f, e) == IF f.tail = <<>> THEN e ELSE Broken
WithLine(f, e) == [f EXCEPT !.lines = Append(@, After(f, e)), !.tail = <<>>]
\* All of a line but its line break.
WithoutBreak(f, e) == [f EXCEPT !.tail = <<After(f, e)>>]

Flushed(f) == [f EXCEPT !.synced = Len(f.lines)]

\* What the repair leaves, sent whole, up to its tilde, or not at all, and
\* whether the file stays torn.
RepairOutcomes(f) ==
    {[file |-> Repaired(f), torn |-> FALSE],
     [file |-> Spoilt(f), torn |-> TRUE],
     [file |-> f, torn |-> TRUE]}

-----------------------------------------------------------------------------
(* Opening a file, and giving one up (retire).                             *)

\* A new file and a new chain, from the hash of its name.
OpenNew ==
    /\ Len(disk) < MaxFiles
    /\ disk' = Append(disk, NewFile)
    /\ cur' = Len(disk) + 1
    /\ head' = [seq |-> 0, hash |-> NameHash(Len(disk) + 1)]
    /\ torn' = FALSE

\* The file is given up, with its head as it is now; then the process goes on
\* at a step.
Retire(step, then) ==
    /\ at' = step
    /\ giving' = [file |-> cur, seq |-> head.seq, hash |-> head.hash,
                  torn |-> torn, then |-> then]

\* Its descriptor may be someone else's by now: it is neither repaired nor
\* flushed, only its anchor is left to report.
RetireUntouched(then) ==
    /\ Retire("anchor", then)
    /\ unflushed' = unflushed \cup {cur}

StartProcess ==
    /\ at = "off"
    /\ OpenNew
    /\ at' = "idle"
    /\ UNCHANGED <<log, lineVars, giving, became, ends>>

\* An own file with a piece at its end gets its repair, whatever comes of it.
Give ==
    /\ at = "give"
    /\ IF giving.torn
         THEN \E o \in RepairOutcomes(disk[giving.file]) :
                disk' = [disk EXCEPT ![giving.file] = o.file]
         ELSE UNCHANGED disk
    /\ at' = "flush"
    /\ UNCHANGED <<log, fileVars, lineVars, giving, became, ends>>

\* Mutant: the anchor goes to the log, the bytes stay where they are.
FlushNothing ==
    /\ at = "flush"
    /\ at' = "anchor"
    /\ UNCHANGED <<disk, log, fileVars, lineVars, giving, became, ends>>

\* A failed flush changes nothing.
Flush ==
    /\ at = "flush"
    /\ \/ /\ disk' = [disk EXCEPT ![giving.file] = Flushed(@)]
          /\ UNCHANGED unflushed
       \/ unflushed' = unflushed \cup {giving.file} /\ UNCHANGED disk
    /\ at' = "anchor"
    /\ UNCHANGED <<log, fileVars, lineVars, giving, became, stops, writes>>

\* The anchor of a file with a whole line; a log may lose it.
Anchor ==
    /\ at = "anchor"
    /\ \/ /\ giving.seq > 0
          /\ log' = log \cup {[file |-> giving.file, seq |-> giving.seq,
                               hash |-> giving.hash]}
       \/ UNCHANGED log
    /\ at' = giving.then
    /\ giving' = None
    /\ UNCHANGED <<disk, fileVars, lineVars, became, ends>>

\* The anchor after a write: the open file is flushed and its head reported.
AnchorNow ==
    /\ writes /\ at = "idle" /\ cur # 0 /\ head.seq > 0
    /\ Retire("flush", "idle")
    /\ UNCHANGED <<disk, log, fileVars, lineVars, became, ends>>

CloseFile ==
    /\ at = "idle"
    /\ IF cur = 0 THEN at' = "off" /\ UNCHANGED giving ELSE Retire("give", "off")
    /\ cur' = 0
    /\ UNCHANGED <<disk, log, head, torn, lineVars, became, ends>>

\* verify: fstat fails or names another file.
DescriptorLost ==
    /\ at = "idle" /\ cur # 0
    /\ RetireUntouched("idle")
    /\ cur' = 0
    /\ UNCHANGED <<disk, log, head, torn, lineVars, became, stops, writes>>

-----------------------------------------------------------------------------
(* write, tick and ready.                                                  *)

\* Each line carries the ID of its event, so none is written twice.
Write(l) ==
    /\ at = "idle" /\ became[l] = "none"
    /\ became' = [became EXCEPT ![l] = "asked"]
    /\ line' = l /\ tried' = FALSE /\ again' = FALSE
    /\ at' = "day"
    /\ UNCHANGED <<disk, log, fileVars, giving, ends>>

ReadyOrTick ==
    /\ at = "idle"
    /\ line' = NoLine /\ tried' = FALSE /\ again' = FALSE
    /\ at' = "day"
    /\ UNCHANGED <<disk, log, fileVars, giving, became, ends>>

\* The day did not change, or its file was tried before.
DayStays ==
    /\ at = "day"
    /\ at' = "target"
    /\ UNCHANGED <<disk, log, fileVars, lineVars, giving, became, ends>>

\* A new day: the new file is opened before the old one is given up.
DayChanges ==
    /\ at = "day"
    /\ tried' = TRUE
    /\ \/ /\ OpenNew
          /\ IF cur = 0 THEN at' = "target" /\ UNCHANGED giving
             ELSE Retire("give", "target")
       \/ at' = "target" /\ UNCHANGED <<disk, fileVars, giving>>
    /\ UNCHANGED <<log, line, again, became, ends>>

Told(answer) ==
    /\ became' = [became EXCEPT ![line] = answer]
    /\ at' = "idle"

\* The line has its file.
TargetOpen ==
    /\ at = "target" /\ cur # 0
    /\ at' = IF line = NoLine THEN "idle" ELSE "attempt"
    /\ UNCHANGED <<disk, log, fileVars, lineVars, giving, became, ends>>

\* A new file for a lost one, once for each line and within the bound.
OpenAnother ==
    /\ at = "target" /\ cur = 0 /\ ~tried
    /\ tried' = TRUE
    /\ OpenNew
    /\ at' = IF line = NoLine THEN "idle" ELSE "attempt"
    /\ UNCHANGED <<log, line, again, giving, became, ends>>

\* There is none: the line is lost.
NoTarget ==
    /\ at = "target" /\ cur = 0
    /\ IF line = NoLine THEN at' = "idle" /\ UNCHANGED became ELSE Told("lost")
    /\ UNCHANGED <<disk, log, fileVars, lineVars, giving, ends>>

-----------------------------------------------------------------------------
(* attempt: one line with the next link of the chain.                      *)

Chained == [line |-> line, seq |-> head.seq + 1, prev |-> head.hash]

\* Mutant: a line after a piece goes out without the repair before it.
NoPrefix(f) == f

\* The repair a torn file still lacks goes out before the line.
Prefixed(f) == IF torn THEN Repaired(f) ELSE f

Rewrite(f) == disk' = [disk EXCEPT ![cur] = f]

AttemptWhole ==
    /\ at = "attempt"
    /\ Rewrite(WithLine(Prefixed(disk[cur]), Chained))
    /\ head' = [seq |-> Chained.seq, hash |-> Chained]
    /\ torn' = FALSE
    /\ at' = "written"
    /\ UNCHANGED <<log, cur, lineVars, giving, became, ends>>

Written ==
    /\ at = "written"
    /\ Told("whole")
    /\ UNCHANGED <<disk, log, fileVars, lineVars, giving, ends>>

\* The descriptor no longer names the file: the line counts as lost with it.
WrittenLost ==
    /\ at = "written"
    /\ became' = [became EXCEPT ![line] = "gone"]
    /\ RetireUntouched("idle")
    /\ cur' = 0
    /\ UNCHANGED <<disk, log, head, torn, lineVars, stops, writes>>

\* Nothing of the line goes out: no byte, the tilde of a repair, or all of it.
AttemptNothing ==
    /\ at = "attempt"
    /\ \/ UNCHANGED <<disk, torn>>
       \/ torn /\ Rewrite(Spoilt(disk[cur])) /\ UNCHANGED torn
       \/ torn /\ Rewrite(Repaired(disk[cur])) /\ torn' = FALSE
    /\ at' = "failed"
    /\ UNCHANGED <<log, cur, head, lineVars, giving, became, ends>>

\* Mutant: the head of the chain moves on with a piece.
AttemptPieceCounts ==
    /\ at = "attempt"
    /\ LET f == Prefixed(disk[cur]) IN
        Rewrite(Spoilt(f)) \/ Rewrite(WithoutBreak(f, Chained))
    /\ head' = [seq |-> Chained.seq, hash |-> Chained]
    /\ at' = "repair"
    /\ UNCHANGED <<log, cur, torn, lineVars, giving, became, ends>>

\* A piece of the line goes out, perhaps all but its line break.
AttemptPiece ==
    /\ at = "attempt"
    /\ LET f == Prefixed(disk[cur]) IN
        Rewrite(Spoilt(f)) \/ Rewrite(WithoutBreak(f, Chained))
    /\ at' = "repair"
    /\ UNCHANGED <<log, fileVars, lineVars, giving, became, ends>>

\* The piece is closed at once, if the file takes that much.
Repair ==
    /\ at = "repair"
    /\ \E o \in RepairOutcomes(disk[cur]) : Rewrite(o.file) /\ torn' = o.torn
    /\ at' = "failed"
    /\ UNCHANGED <<log, cur, head, lineVars, giving, became, ends>>

\* The line is lost, and the file stays open.
FailedKept ==
    /\ at = "failed"
    /\ Told("lost")
    /\ UNCHANGED <<disk, log, fileVars, lineVars, giving, ends>>

\* EFBIG, ESTALE or EBADF: the file is given up, after EBADF without touching
\* it, and the line goes into a new one, once.
FailedDropped ==
    /\ at = "failed" /\ ~again
    /\ again' = TRUE
    /\ \/ Retire("give", "target") /\ UNCHANGED unflushed
       \/ RetireUntouched("target")
    /\ cur' = 0
    /\ UNCHANGED <<disk, log, head, torn, line, tried, became, stops, writes>>

-----------------------------------------------------------------------------
(* Ends without a close.                                                   *)

Ended ==
    /\ stops < MaxStops
    /\ stops' = stops + 1
    /\ at' = "off" /\ cur' = 0 /\ giving' = None
    /\ UNCHANGED <<log, head, torn, lineVars, became, unflushed, writes>>

ProcessEnds == at # "off" /\ Ended /\ UNCHANGED disk

\* What may be left of a file when the power fails: the lines flushed, more
\* of them, and then nothing, a part of the next line, or all but its break.
NextTail(f, k) ==
    LET bytes == f.lines \o f.tail IN {<<bytes[i]>> : i \in {k + 1} \cap DOMAIN bytes}
Cuts(f) ==
    UNION {{[f EXCEPT !.lines = SubSeq(f.lines, 1, k), !.tail = t, !.synced = k] :
                t \in {<<>>, <<Broken>>} \cup NextTail(f, k)} :
           k \in f.synced .. Len(f.lines)}

PowerFails ==
    /\ Ended
    /\ disk' \in {cut \in [DOMAIN disk -> UNION {Cuts(disk[n]) : n \in DOMAIN disk}] :
                    \A n \in DOMAIN disk : cut[n] \in Cuts(disk[n])}

Line ==
    \/ DayStays \/ DayChanges \/ TargetOpen \/ OpenAnother \/ NoTarget
    \/ AttemptWhole \/ Written \/ WrittenLost
    \/ AttemptNothing \/ AttemptPiece \/ Repair \/ FailedKept \/ FailedDropped

ChainNext ==
    \/ StartProcess \/ CloseFile \/ AnchorNow \/ DescriptorLost \/ ReadyOrTick
    \/ \E l \in Lines : Write(l)
    \/ Line \/ Give \/ Flush \/ Anchor
    \/ ProcessEnds \/ PowerFails

ChainSpec == ChainInit /\ [][ChainNext]_chainVars

-----------------------------------------------------------------------------
(* Properties.                                                             *)

\* A file nobody touched is whole in its chain, whatever pieces, crashes and
\* power failures left in it: verify without a log finds nothing.
ChainHolds == \A n \in DOMAIN disk : FindingsOf(n, disk[n].lines, {}) = {}

Copies(l) ==
    UNION {{<<n, i>> : i \in {j \in DOMAIN disk[n].lines :
                                disk[n].lines[j].line = l}} : n \in DOMAIN disk}

\* A line that `write` called lost stands whole in no file, also after later
\* lines and repairs closed what it left, unless it was lost with the file it
\* stands in; no line stands in two files.
LostIsNowhere ==
    \A l \in Lines : Cardinality(Copies(l)) <= IF became[l] = "lost" THEN 0 ELSE 1

\* The line of an anchor, and with it all before it, survives a power failure
\* if its file could be flushed (docs/betrieb/stdio.md on the flush at the
\* anchor).
AnchoredStays ==
    \A a \in {b \in log : b.file \notin unflushed} :
        /\ a.seq <= Len(disk[a.file].lines)
        /\ disk[a.file].lines[a.seq] = a.hash

\* docs/betrieb/stdio.md: verify with the log of the server finds nothing in
\* files nobody touched and that could be flushed.  Without write tools.
NothingFound == ~writes =>
    \A n \in DOMAIN disk \ unflushed : FindingsOf(n, disk[n].lines, log) = {}

\* What a person may do to the lines of a file without the chain of its own.
Removed(s) == {RemoveAt(s, i) : i \in 1 .. Len(s) - 1}
Changed(s) ==
    {[s EXCEPT ![i].line = l] : i \in 1 .. Len(s) - 1, l \in Lines}
Swapped(s) ==
    {[s EXCEPT ![i] = s[j], ![j] = s[i]] : i, j \in DOMAIN s}
Added(s) == {InsertAt(s, i, s[j]) : i, j \in DOMAIN s}
\* At the end of the file, where only an anchor shows it.
Shortened(s) == {SubSeq(s, 1, k) : k \in 0 .. Len(s) - 1}
Extended(s) ==
    {Append(s, [line |-> l, seq |-> Len(s) + 1, prev |-> s[Len(s)]]) : l \in Lines}
LastChanged(s) == {[s EXCEPT ![Len(s)].line = l] : l \in Lines}

\* Between the lines of a process, and after its end, verify finds what
\* docs/betrieb/stdio.md says of it: a line changed, removed,
\* added or moved, and a file renamed; with the anchor of its last line also
\* a file shortened, extended, or with another last line.
TamperShows == at \in {"idle", "off"} =>
    \A n \in DOMAIN disk :
        LET s == disk[n].lines IN
        s # <<>> =>
        /\ \A t \in (Removed(s) \cup Changed(s) \cup Swapped(s) \cup Added(s)) \ {s} :
              FindingsOf(n, t, {}) # {}
        /\ \A m \in DOMAIN disk \ {n} : FindingsOf(m, s, {}) # {}
        /\ (\E a \in log : a.file = n /\ a.hash = s[Len(s)]) =>
              \A t \in (Shortened(s) \cup Extended(s) \cup LastChanged(s)) \ {s} :
                  FindingsOf(n, t, log) # {}
=============================================================================
