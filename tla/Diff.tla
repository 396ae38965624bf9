-------------------------------- MODULE Diff --------------------------------
(***************************************************************************)
(* The line diff an operator is shown before an undo writes:               *)
(*                                                                         *)
(*   packages/core/src/diff/myers.ts  editScript, a shortest edit script   *)
(*                                    found from both ends                 *)
(*   packages/core/src/diff/diff.ts   diffLines, the hunks of the script   *)
(*   packages/core/src/diff/apply.ts  applyDiff, the new text from the old *)
(*                                    and the hunks                        *)
(*                                                                         *)
(* A text is the sequence of its lines: two lines compare as their numbers *)
(* do (numbered, splitLines). Places in a text are boundaries between      *)
(* lines, from 0, as in the code. One diff is computed and applied, in the *)
(* steps of the loops; what is left to do of the calls of solve is a stack.*)
(***************************************************************************)
EXTENDS Integers, Sequences, SequencesExt

CONSTANTS
    Line,       \* what a line can be
    Texts,      \* pairs of texts that are compared
    Bounds,     \* how far a search may go (EditBounds)
    Context,    \* diffContextLines
    Nil         \* no hunk is open

EditStep == [equal : Nat, removed : Nat, added : Nat]
DiffLine == [kind : {"context", "removed", "added"}, text : Line]
DiffHunk == [oldStart : Nat, oldCount : Nat, newStart : Nat, newCount : Nat,
             lines : Seq(DiffLine)]

ASSUME DiffAssumption ==
    /\ Texts \subseteq Seq(Line) \X Seq(Line)
    /\ Bounds \subseteq [depth : Nat, lines : Nat]
    /\ Context \in Nat
    /\ Nil \notin DiffHunk

VARIABLES
    before,     \* the old text
    after,      \* the new text
    bounds,     \* how far the search may go
    stage,      \* where the program is
    todo,       \* the boxes still to do, the next one first
    level,      \* d, the steps of the search from either end
    diagonal,   \* k or c, the diagonal that is next
    forward,    \* the furthest x on each diagonal, from the start
    backward,   \* the least x on each diagonal, from the end
    script,     \* the steps found, and the one that is open
    oldAt,      \* how far the hunks are in the old text
    newAt,      \* and in the new
    draft,      \* the hunk that is open, or Nil
    shown,      \* the diff, with the hunks that are closed
    applied     \* what applyDiff made of the old text

texts   == <<before, after, bounds>>
search  == <<level, diagonal, forward, backward>>
hunking == <<oldAt, newAt, draft, shown>>
diffVars == <<texts, stage, todo, search, script, hunking, applied>>

-----------------------------------------------------------------------------
(* Boxes over both texts: the old lines from l to r, the new from t to b.  *)

Box(l, r, t, b) == [l |-> l, r |-> r, t |-> t, b |-> b]

\* How many lines are equal from a place on, and back from a place.
Run(box, x, y) ==
    Max({0} \cup {n \in 1 .. box.r - x :
                     /\ y + n <= box.b
                     /\ \A i \in 1 .. n : before[x + i] = after[y + i]})
RunBack(box, x, y) ==
    Max({0} \cup {n \in 1 .. x - box.l :
                     /\ y - n >= box.t
                     /\ \A i \in 0 .. n - 1 : before[x - i] = after[y - i]})

\* The box without the lines both texts share at its start and at its end.
Inner(box) ==
    LET start == Run(box, box.l, box.t)
        rest  == Box(box.l + start, box.r, box.t + start, box.b)
        end   == RunBack(rest, box.r, box.b)
    IN Box(rest.l, box.r - end, rest.t, box.b - end)

Whole == Box(0, Len(before), 0, Len(after))

\* The difference of the lengths, and with it the diagonal of the far corner.
Delta(box) == box.r - box.l - (box.b - box.t)
Row(box, x, k) == box.t + (x - box.l) - k
Odd(n) == n % 2 = 1

-----------------------------------------------------------------------------
(* The script: steps of lines that stay, go and come.                      *)

NoStep == [equal |-> 0, removed |-> 0, added |-> 0]

\* Mutant: lines that stay do not end the change before them.
KeepOpen(s, count) == [s EXCEPT !.open.equal = @ + count]

\* Lines that stay end the change before them.
Keep(s, count) ==
    IF count = 0 THEN s
    ELSE IF s.open.removed + s.open.added > 0
      THEN [steps |-> Append(s.steps, s.open),
            open  |-> [NoStep EXCEPT !.equal = count]]
    ELSE [s EXCEPT !.open.equal = @ + count]

Change(s, removed, added) ==
    [s EXCEPT !.open.removed = @ + removed, !.open.added = @ + added]

-----------------------------------------------------------------------------
(* Hunks.                                                                  *)

DraftAt(oldStart, newStart) ==
    [oldStart |-> oldStart, oldCount |-> 0,
     newStart |-> newStart, newCount |-> 0, lines |-> <<>>]

\* A hunk with more lines of a text.
Grown(hunk, kind, text, from, count) ==
    [hunk EXCEPT
       !.lines = @ \o [i \in 1 .. count |-> [kind |-> kind, text |-> text[from + i]]],
       !.oldCount = IF kind = "added" THEN @ ELSE @ + count,
       !.newCount = IF kind = "removed" THEN @ ELSE @ + count]

Changed(hunk, old, removed, new, added) ==
    Grown(Grown(hunk, "removed", before, old, removed), "added", after, new, added)

\* Past a bound the whole old text goes and the whole new text comes.
ShowWhole ==
    /\ stage' = "apply"
    /\ shown' = [hunks |-> <<Changed(DraftAt(1, 1), 0, Len(before), 0, Len(after))>>,
                 replaced |-> TRUE]
    /\ UNCHANGED <<oldAt, newAt, draft>>

-----------------------------------------------------------------------------
DiffInit ==
    /\ \E pair \in Texts : before = pair[1] /\ after = pair[2]
    /\ bounds \in Bounds
    /\ stage = "begin" /\ todo = <<>>
    /\ level = 0 /\ diagonal = 0
    /\ forward = [i \in -(bounds.depth + 1) .. bounds.depth + 1 |-> 0]
    /\ backward = forward
    /\ script = [steps |-> <<>>, open |-> NoStep]
    /\ oldAt = 0 /\ newAt = 0 /\ draft = Nil
    /\ shown = [hunks |-> <<>>, replaced |-> FALSE]
    /\ applied = [hunk |-> 1, line |-> 1, at |-> 0, text |-> <<>>,
                  oldCount |-> 0, newCount |-> 0]

Task(op, box) == [op |-> op, box |-> box]
Current == Head(todo).box

-----------------------------------------------------------------------------
(* editScript.                                                             *)

\* The lengths, or the lines in between, pass a bound.
TooFar ==
    LET in == Inner(Whole) IN
    \/ Len(before) - Len(after) > 2 * bounds.depth
    \/ Len(after) - Len(before) > 2 * bounds.depth
    \/ in.r - in.l > bounds.lines
    \/ in.b - in.t > bounds.lines

Refrain ==
    /\ stage = "begin" /\ TooFar
    /\ ShowWhole
    /\ UNCHANGED <<texts, todo, search, script, applied>>

Begin ==
    /\ stage = "begin" /\ ~TooFar
    /\ stage' = "script"
    /\ todo' = <<Task("solve", Whole)>>
    /\ UNCHANGED <<texts, search, script, hunking, applied>>

Doing(op) == stage = "script" /\ todo # <<>> /\ Head(todo).op = op

\* solve, of a box with one empty text: only removals or only additions.
SolveEdge ==
    /\ Doing("solve")
    /\ LET in == Inner(Current)
           kept == Keep(script, in.l - Current.l)
       IN /\ in.l = in.r \/ in.t = in.b
          /\ script' = Keep(Change(kept, in.r - in.l, in.b - in.t), Current.r - in.r)
    /\ todo' = Tail(todo)
    /\ UNCHANGED <<texts, stage, search, hunking, applied>>

\* solve, of any other: the search for its middle snake begins. The arrays
\* keep their positions from one box to the next.
SolveSplit ==
    /\ Doing("solve")
    /\ LET in == Inner(Current) IN
       /\ in.l # in.r /\ in.t # in.b
       /\ script' = Keep(script, in.l - Current.l)
       /\ todo' = <<Task("search", in),
                    Task("keep", Box(in.r, Current.r, in.b, Current.b))>> \o Tail(todo)
       /\ forward' = [forward EXCEPT ![1] = in.l]
       /\ backward' = [backward EXCEPT ![-1] = in.r]
    /\ stage' = "forward"
    /\ level' = 0 /\ diagonal' = 0
    /\ UNCHANGED <<texts, hunking, applied>>

\* The lines of a snake, or at the end of a box, stay.
KeepLines ==
    /\ Doing("keep")
    /\ script' = Keep(script, Current.r - Current.l)
    /\ todo' = Tail(todo)
    /\ UNCHANGED <<texts, stage, search, hunking, applied>>

\* Both halves of the box are solved, with the snake in between.
Split(snake) ==
    /\ stage' = "script"
    /\ todo' = <<Task("solve", Box(Current.l, snake.l, Current.t, snake.t)),
                 Task("keep", snake),
                 Task("solve", Box(snake.r, Current.r, snake.b, Current.b))>> \o Tail(todo)

\* Down from the diagonal above or right from the one below.
ForwardX ==
    IF \/ diagonal = -level
       \/ diagonal # level /\ forward[diagonal - 1] < forward[diagonal + 1]
      THEN forward[diagonal + 1] ELSE forward[diagonal - 1] + 1
ForwardY == Row(Current, ForwardX, diagonal)
ForwardRun == Run(Current, ForwardX, ForwardY)

\* With an odd difference of lengths the paths meet on a forward step.
ForwardMeets ==
    LET c == diagonal - Delta(Current) IN
    /\ Odd(Delta(Current))
    /\ c > -level /\ c < level
    /\ ForwardX + ForwardRun >= backward[c]

StepForward ==
    /\ stage = "forward"
    /\ forward' = [forward EXCEPT ![diagonal] = ForwardX + ForwardRun]
    /\ IF ForwardMeets
         THEN /\ Split(Box(ForwardX, ForwardX + ForwardRun,
                           ForwardY, ForwardY + ForwardRun))
              /\ UNCHANGED diagonal
         ELSE /\ stage' = IF diagonal = level THEN "backward" ELSE "forward"
              /\ diagonal' = IF diagonal = level THEN -level ELSE diagonal + 2
              /\ UNCHANGED todo
    /\ UNCHANGED <<texts, level, backward, script, hunking, applied>>

\* Up from the diagonal below or left from the one above.
BackwardX ==
    IF \/ diagonal = level
       \/ diagonal # -level /\ backward[diagonal - 1] < backward[diagonal + 1]
      THEN backward[diagonal - 1] ELSE backward[diagonal + 1] - 1
BackwardY == Row(Current, BackwardX, diagonal + Delta(Current))
BackwardRun == RunBack(Current, BackwardX, BackwardY)

\* Mutant: the paths do not meet on the outermost diagonals of a step.
MeetsInside ==
    LET k == diagonal + Delta(Current) IN
    /\ ~Odd(Delta(Current))
    /\ k > -level /\ k < level
    /\ BackwardX - BackwardRun <= forward[k]

\* With an even one, on a backward step.
BackwardMeets ==
    LET k == diagonal + Delta(Current) IN
    /\ ~Odd(Delta(Current))
    /\ k >= -level /\ k <= level
    /\ BackwardX - BackwardRun <= forward[k]

StepBackward ==
    /\ stage = "backward"
    /\ backward' = [backward EXCEPT ![diagonal] = BackwardX - BackwardRun]
    /\ \/ /\ BackwardMeets
          /\ Split(Box(BackwardX - BackwardRun, BackwardX,
                       BackwardY - BackwardRun, BackwardY))
          /\ UNCHANGED <<level, diagonal, hunking>>
       \/ /\ ~BackwardMeets /\ diagonal < level
          /\ diagonal' = diagonal + 2
          /\ UNCHANGED <<stage, todo, level, hunking>>
       \/ /\ ~BackwardMeets /\ diagonal = level /\ level < bounds.depth
          /\ stage' = "forward"
          /\ level' = level + 1 /\ diagonal' = -(level + 1)
          /\ UNCHANGED <<todo, hunking>>
       \/ /\ ~BackwardMeets /\ diagonal = level /\ level = bounds.depth
          /\ ShowWhole
          /\ UNCHANGED <<todo, level, diagonal>>
    /\ UNCHANGED <<texts, forward, script, applied>>

\* All boxes are done: the open step is the last.
Scripted ==
    /\ stage = "script" /\ todo = <<>>
    /\ stage' = "hunks"
    /\ script' = [script EXCEPT !.steps = Append(@, script.open)]
    /\ UNCHANGED <<texts, todo, search, hunking, applied>>

-----------------------------------------------------------------------------
(* hunksOf, one step of the script after the other.                        *)

First == Head(script.steps)
Changes == First.removed + First.added > 0
OldTo == oldAt + First.equal
NewTo == newAt + First.equal
Lead == Min({First.equal, Context})

\* A hunk that begins with its context, and the change in a hunk.
Opened == Grown(DraftAt(OldTo - Lead + 1, NewTo - Lead + 1),
                "context", before, OldTo - Lead, Lead)
WithChange(hunk) == Changed(hunk, OldTo, First.removed, NewTo, First.added)

\* Two changes are one hunk when their context meets.
Joins == script.steps # <<>> /\ draft # Nil /\ Changes /\ First.equal <= 2 * Context

HunkStep(open) ==
    /\ stage = "hunks" /\ script.steps # <<>>
    /\ draft' = IF Changes THEN WithChange(open) ELSE Nil
    /\ oldAt' = OldTo + First.removed
    /\ newAt' = NewTo + First.added
    /\ script' = [script EXCEPT !.steps = Tail(@)]
    /\ UNCHANGED <<texts, stage, todo, search, applied>>

HunkOpens ==
    /\ draft = Nil
    /\ HunkStep(Opened)
    /\ UNCHANGED shown

HunkGoesOn ==
    /\ Joins
    /\ HunkStep(Grown(draft, "context", before, oldAt, First.equal))
    /\ UNCHANGED shown

\* The hunk ends with its context, and a change opens the next one.
HunkEnds ==
    /\ draft # Nil /\ ~Joins
    /\ HunkStep(Opened)
    /\ shown' = [shown EXCEPT !.hunks =
                    Append(@, Grown(draft, "context", before, oldAt, Lead))]

Show ==
    /\ stage = "hunks" /\ script.steps = <<>>
    /\ stage' = "apply"
    /\ shown' = IF draft = Nil THEN shown
                ELSE [shown EXCEPT !.hunks = Append(@, draft)]
    /\ UNCHANGED <<texts, todo, search, script, oldAt, newAt, draft, applied>>

-----------------------------------------------------------------------------
(* applyDiff: a diff that does not fit the text is refused.                *)

Hunk == shown.hunks[applied.hunk]

ApplyHunk ==
    LET start == Hunk.oldStart - 1
        fits == /\ start >= applied.at /\ start <= Len(before)
                /\ Hunk.newStart - 1 = Len(applied.text) + start - applied.at
    IN /\ stage = "apply" /\ applied.hunk <= Len(shown.hunks)
       /\ stage' = IF fits THEN "line" ELSE "misfit"
       /\ applied' = IF fits
            THEN [hunk |-> applied.hunk, line |-> 1, at |-> start,
                  text |-> applied.text \o SubSeq(before, applied.at + 1, start),
                  oldCount |-> 0, newCount |-> 0]
            ELSE applied
       /\ UNCHANGED <<texts, todo, search, script, hunking>>

ApplyLine ==
    LET line == Hunk.lines[applied.line]
        added == line.kind = "added"  removed == line.kind = "removed"
        fits == \/ added
                \/ applied.at < Len(before) /\ before[applied.at + 1] = line.text
    IN /\ stage = "line" /\ applied.line <= Len(Hunk.lines)
       /\ stage' = IF fits THEN "line" ELSE "misfit"
       /\ applied' = IF fits
            THEN [hunk |-> applied.hunk, line |-> applied.line + 1,
                  at |-> IF added THEN applied.at ELSE applied.at + 1,
                  text |-> IF removed THEN applied.text
                           ELSE Append(applied.text, line.text),
                  oldCount |-> IF added THEN applied.oldCount ELSE applied.oldCount + 1,
                  newCount |-> IF removed THEN applied.newCount ELSE applied.newCount + 1]
            ELSE applied
       /\ UNCHANGED <<texts, todo, search, script, hunking>>

ApplyCounts ==
    LET fits == /\ applied.oldCount = Hunk.oldCount
                /\ applied.newCount = Hunk.newCount
    IN /\ stage = "line" /\ applied.line > Len(Hunk.lines)
       /\ stage' = IF fits THEN "apply" ELSE "misfit"
       /\ applied' = IF fits THEN [applied EXCEPT !.hunk = @ + 1] ELSE applied
       /\ UNCHANGED <<texts, todo, search, script, hunking>>

\* The lines after the last hunk stay.
ApplyRest ==
    /\ stage = "apply" /\ applied.hunk > Len(shown.hunks)
    /\ stage' = "done"
    /\ applied' = [applied EXCEPT !.text = @ \o SubSeq(before, applied.at + 1, Len(before))]
    /\ UNCHANGED <<texts, todo, search, script, hunking>>

-----------------------------------------------------------------------------
DiffNext ==
    \/ Refrain \/ Begin
    \/ SolveEdge \/ SolveSplit \/ KeepLines \/ StepForward \/ StepBackward
    \/ Scripted
    \/ HunkOpens \/ HunkGoesOn \/ HunkEnds \/ Show
    \/ ApplyHunk \/ ApplyLine \/ ApplyCounts \/ ApplyRest

\* One diff is asked for, shown and applied.
DiffSpec == DiffInit /\ [][DiffNext]_diffVars

-----------------------------------------------------------------------------
(* Properties.                                                             *)

\* What the operator was shown leads from the text as it is to exactly the
\* text an undo writes: the hunks fit, in their order and at their places.
ShownLeadsThere ==
    stage # "misfit" /\ (stage = "done" => applied.text = after)

\* The reference: the length of a longest common subsequence, line by line.
Common ==
    LET common[i \in 0 .. Len(before), j \in 0 .. Len(after)] ==
            IF i = 0 \/ j = 0 THEN 0
            ELSE IF before[i] = after[j] THEN common[i - 1, j - 1] + 1
            ELSE Max({common[i - 1, j], common[i, j - 1]})
    IN common[Len(before), Len(after)]

Fewest == Len(before) + Len(after) - 2 * Common

Edits == FoldLeft(LAMBDA n, hunk : n + Len(SelectSeq(hunk.lines,
                                             LAMBDA x : x.kind # "context")),
                  0, shown.hunks)

\* Nothing is shown as changed that need not be: the diff is a shortest one,
\* and the whole text is shown as replaced only past a bound.
ShownIsShortest ==
    stage = "done" =>
        LET in == Inner(Whole)
            fits == /\ Fewest <= 2 * bounds.depth
                    /\ in.r - in.l <= bounds.lines /\ in.b - in.t <= bounds.lines
        IN IF fits THEN ~shown.replaced /\ Edits = Fewest ELSE shown.replaced
=============================================================================
