----------------------------- MODULE AuditVerify -----------------------------
(***************************************************************************)
(* What `ecclium audit verify` finds in audit files and in the anchors of  *)
(* a log, packages/core/src/audit/verify.ts, over the lines reader.ts      *)
(* hands it: whole lines only, without the pieces that end in a tilde.     *)
(*                                                                         *)
(* A hash stands for what it was taken of: the hash of a line is the line, *)
(* the hash of a name is [name |-> name].  So nothing else has that hash.  *)
(***************************************************************************)
EXTENDS AuditLines, Naturals, Sequences, FiniteSets, SequencesExt

NameHash(n) == [name |-> n]
Broken == [line |-> NoLine, seq |-> 0, prev |-> NameHash(0)]

\* Where the check of a file stands (FileState), with what it found so far.
Opened(n) ==
    [expected |-> 1, previous |-> NameHash(n), whole |-> 0, maxSeq |-> 0,
     atAnchor |-> {}, found |-> {}]

\* The finding of one whole line.
LineFindings(s, e) ==
    IF e = Broken THEN {"line_form"}
    ELSE IF e.prev # s.previous
           THEN {IF s.whole = 0 THEN "chain_name" ELSE "chain_link"}
    ELSE IF e.seq # s.expected THEN {"chain_seq"}
    ELSE {}

\* checkLine: the check goes on from the line that is in the file.
CheckLine(s, e, anchors) ==
    [expected |-> IF e = Broken THEN s.expected + 1 ELSE e.seq + 1,
     previous |-> e,
     whole    |-> s.whole + 1,
     maxSeq   |-> IF e.seq > s.maxSeq THEN e.seq ELSE s.maxSeq,
     atAnchor |-> IF /\ s.atAnchor = {} /\ e # Broken
                     /\ \E a \in anchors : a.seq = e.seq
                    THEN {e} ELSE s.atAnchor,
     found    |-> s.found \cup LineFindings(s, e)]

\* The states of the check, before the first line and after each.
Reading(n, lines, anchors) ==
    LET s[i \in 0 .. Len(lines)] ==
            IF i = 0 THEN Opened(n) ELSE CheckLine(s[i - 1], lines[i], anchors)
    IN  s

Read(n, lines, anchors) == Reading(n, lines, anchors)[Len(lines)]

\* No line has the number of the anchor, and none a higher one.
EndsBefore(s, a) == s.whole = 0 \/ (s.maxSeq > 0 /\ s.maxSeq < a.seq)

\* Mutant: lines after the anchor are no finding.
CompareNoEnd(s, a) ==
    IF s.atAnchor = {}
      THEN IF EndsBefore(s, a) THEN {"anchor_truncated"} ELSE {"anchor_mismatch"}
    ELSE IF s.atAnchor # {a.hash} THEN {"anchor_mismatch"}
    ELSE {}

\* compareAnchor: the file must end with the line of its anchor.
CompareAnchor(s, a) ==
    IF s.atAnchor = {}
      THEN IF EndsBefore(s, a) THEN {"anchor_truncated"} ELSE {"anchor_mismatch"}
    ELSE IF s.atAnchor # {a.hash} THEN {"anchor_mismatch"}
    ELSE IF s.previous # a.hash THEN {"anchor_extended"}
    ELSE {}

\* The collector: two different anchors of a file are a conflict, and it
\* gets none.
Conflicts(log) ==
    {a.file : a \in {b \in log : \E c \in log : c.file = b.file /\ c # b}}
AnchorsOf(n, log) == {a \in log : a.file = n /\ n \notin Conflicts(log)}

\* What a file of this name with these lines shows.
FindingsOf(n, lines, log) ==
    LET anchors == AnchorsOf(n, log)
        s == Read(n, lines, anchors)
    IN  s.found \cup (UNION {CompareAnchor(s, a) : a \in anchors})
              \cup (IF n \in Conflicts(log) THEN {"anchor_conflict"} ELSE {})
=============================================================================
