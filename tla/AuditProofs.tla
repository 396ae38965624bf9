---------------------------- MODULE AuditProofs ----------------------------
(***************************************************************************)
(* Proofs about the audit files: about AuditFolder, for any number of      *)
(* processes, files and lines, every length of a day, grace and retention; *)
(* and about AuditVerify and AuditChain, for any number of lines, of files *)
(* and of ends of the process.                                             *)
(***************************************************************************)
EXTENDS AuditFolder, AuditChain, SequenceTheorems, FiniteSetTheorems,
        WellFoundedInduction, TLAPS

-----------------------------------------------------------------------------
(* Days.                                                                   *)

\* A later reading of the clock is of no earlier day.
LEMMA DaysAdvance ==
    ASSUME NEW s \in Nat, NEW t \in Nat
    PROVE  /\ DayOf(s) \in Nat
           /\ s <= t => DayOf(s) <= DayOf(t)
BY FolderAssumption DEF DayOf

-----------------------------------------------------------------------------
(* The invariant.                                                          *)

\* A file that holds a line has a byte, and its last change is not of an
\* earlier day than the line.
Grows ==
    \A l \in Lines : where[l] \in Folder =>
        ~files[where[l]].empty /\ on[l] <= DayOf(files[where[l]].changed)

\* Nothing was changed, and no sweep begun, later than now.
NotAhead ==
    /\ \A n \in Folder : files[n].changed <= now
    /\ \A p \in Procs : sweep[p].since <= now

\* A process writes a line nobody else writes, into its own file.
Asked ==
    /\ \A p \in Procs :
        /\ pc[p] \in {"attempt", "check"} => call[p].op = "write"
        /\ call[p].op = "write" => call[p].line \in Lines
        /\ call[p].line # NoLine => told[call[p].line] = "asked"
        /\ pc[p] = "check" => where[call[p].line] = Cur(p)
    /\ \A p, q \in Procs :
        p # q /\ call[p].line # NoLine => call[p].line # call[q].line

\* What a sweep is about to delete holds nothing within its retention but
\* what came after it was judged.
JudgedOld ==
    \A p \in Procs, l \in Lines :
        /\ sweep[p].judged # NoName /\ where[l] = sweep[p].judged
        /\ l \notin raced
        => Past(on[l], DayOf(sweep[p].since))

\* What was due when a sweep began is due, was written on since, or is gone;
\* and it is still to come, being deleted, written on, or told as left.
Pending(p, n) ==
    /\ Due(n, sweep[p].since) \/ files[n].changed >= sweep[p].since
    /\ \/ n \in sweep[p].todo \/ n = sweep[p].judged
       \/ files[n].changed >= sweep[p].since \/ ~sweep[p].clean

SweepGoesOn ==
    \A p \in Procs : \A n \in sweep[p].due \cap Folder : Pending(p, n)

\* Only while a file is deleted one is judged.
JudgedAlone ==
    \A p \in Procs : pc[p] # "unlink" => sweep[p].judged = NoName

IInv ==
    /\ TypeOK
    /\ Grows /\ NotAhead /\ Asked /\ JudgedOld /\ LinesStay
    /\ SweepGoesOn /\ JudgedAlone
-----------------------------------------------------------------------------
(* Types.                                                                  *)

LEMMA TypeInit == Init => TypeOK
BY FolderAssumption
   DEF Init, TypeOK, Folder, Steps, NoOwn, NoCall, NoSweep, Owns, Calls, Sweeps, File

\* A file that is made, and files that go, leave a folder.
LEMMA MakeTypes ==
    ASSUME TypeOK, NEW p \in Procs, NEW n, NEW t \in Nat, NEW k \in 0 .. MaxReopens,
           NEW gone, Make(p, n, t, k, gone)
    PROVE  /\ DOMAIN files' \subseteq Names /\ files' \in [DOMAIN files' -> File]
           /\ own' \in [Procs -> Owns]
<1>1. call[p].stamp \in Nat
  BY DEF TypeOK, Calls
<1>2. own' \in [Procs -> Owns]
  BY <1>1 DEF TypeOK, Make, Owns, Stamp
<1>3. [day |-> Stamp(p), changed |-> now, empty |-> TRUE] \in File
  BY <1>1 DEF TypeOK, File, Stamp
<1>4. DOMAIN files' = (Folder \ gone) \cup {n}
  BY DEF Make
<1>5. DOMAIN files' \subseteq Names
  BY <1>4 DEF Make, TypeOK
<1>6. files' \in [DOMAIN files' -> File]
  BY <1>3, <1>4 DEF Make, TypeOK, Folder
<1> QED
  BY <1>2, <1>5, <1>6

LEMMA WithoutTypes ==
    ASSUME TypeOK, NEW gone, files' = Without(gone)
    PROVE  DOMAIN files' \subseteq Names /\ files' \in [DOMAIN files' -> File]
BY DEF TypeOK, Without, Folder

LEMMA GrownTypes ==
    ASSUME TypeOK, NEW p \in Procs, files' = Grown(p)
    PROVE  DOMAIN files' \subseteq Names /\ files' \in [DOMAIN files' -> File]
<1>1. DOMAIN files' = Folder
  BY DEF Grown
<1>2. ASSUME NEW n \in Folder PROVE files'[n] \in File
  BY DEF TypeOK, Grown, File
<1>3. files' = [n \in DOMAIN files' |-> files'[n]]
  BY DEF Grown
<1> QED
  BY <1>1, <1>2, <1>3 DEF TypeOK

\* The forms of a sweep.
LEMMA SweepTypes ==
    /\ NoSweep \in Sweeps
    /\ \A s \in Sweeps :
        /\ \A n \in Names : /\ [s EXCEPT !.todo = @ \ {n}] \in Sweeps
                            /\ [s EXCEPT !.todo = @ \ {n}, !.judged = n] \in Sweeps
        /\ [s EXCEPT !.judged = NoName] \in Sweeps
        /\ [s EXCEPT !.judged = NoName, !.clean = FALSE] \in Sweeps
        /\ [s EXCEPT !.todo = {}, !.judged = NoName, !.clean = FALSE] \in Sweeps
<1>1. NoSweep \in Sweeps
  BY DEF NoSweep, Sweeps
<1>2. ASSUME NEW s \in Sweeps, NEW n \in Names
      PROVE  /\ [s EXCEPT !.todo = @ \ {n}] \in Sweeps
             /\ [s EXCEPT !.todo = @ \ {n}, !.judged = n] \in Sweeps
  BY DEF Sweeps
<1>3. ASSUME NEW s \in Sweeps
      PROVE  /\ [s EXCEPT !.judged = NoName] \in Sweeps
             /\ [s EXCEPT !.judged = NoName, !.clean = FALSE] \in Sweeps
  BY DEF Sweeps
<1>4. ASSUME NEW s \in Sweeps
      PROVE  [s EXCEPT !.todo = {}, !.judged = NoName, !.clean = FALSE] \in Sweeps
  BY DEF Sweeps
<1> QED
  BY <1>1, <1>2, <1>3, <1>4

\* The forms of a call.
LEMMA CallTypes ==
    /\ NoCall \in Calls
    /\ \A c \in Calls : /\ [c EXCEPT !.tried = TRUE] \in Calls
                        /\ [c EXCEPT !.again = TRUE] \in Calls
    /\ \A o \in {"start", "ready", "tick"}, t \in Nat :
            [NoCall EXCEPT !.op = o, !.stamp = t] \in Calls
    /\ \A l \in Lines, t \in Nat :
            [NoCall EXCEPT !.op = "write", !.line = l, !.stamp = t] \in Calls
<1>1. NoCall \in Calls
  BY DEF NoCall, Calls
<1>2. \A c \in Calls : /\ [c EXCEPT !.tried = TRUE] \in Calls
                      /\ [c EXCEPT !.again = TRUE] \in Calls
  BY DEF Calls
<1>3. \A o \in {"start", "ready", "tick"}, t \in Nat :
          [NoCall EXCEPT !.op = o, !.stamp = t] \in Calls
  BY DEF NoCall, Calls
<1>4. \A l \in Lines, t \in Nat :
          [NoCall EXCEPT !.op = "write", !.line = l, !.stamp = t] \in Calls
  BY DEF NoCall, Calls
<1> QED
  BY <1>1, <1>2, <1>3, <1>4

LEMMA TypeNext == TypeOK /\ Asked /\ [Next]_vars => TypeOK'
<1> SUFFICES ASSUME TypeOK, Asked, [Next]_vars PROVE TypeOK'
  OBVIOUS
<1> USE FolderAssumption DEF fate
<1>0. \A t \in Nat : DayOf(t) \in Nat
  BY DaysAdvance
<1>1. ASSUME NEW p \in Procs, Start(p) PROVE TypeOK'
  <2>1. Today \in Nat /\ call \in [Procs -> Calls]
    BY <1>0 DEF Today, TypeOK
  <2>2. call' \in [Procs -> Calls]
    BY <1>1, <2>1, CallTypes DEF Start
  <2> QED
    BY <1>1, <2>2 DEF TypeOK, Start, Goto, Steps, Folder
<1>2. ASSUME NEW p \in Procs, OpenFirst(p) PROVE TypeOK'
  <2>1. PICK n \in Names : Make(p, n, 0, MaxReopens, {})
    BY <1>2 DEF OpenFirst
  <2>2. 0 \in Nat /\ MaxReopens \in 0 .. MaxReopens
    OBVIOUS
  <2> QED
    BY <1>2, <2>1, <2>2, MakeTypes DEF TypeOK, OpenFirst, Goto, Steps, Folder
<1>3. ASSUME NEW p \in Procs, OpenFirstFails(p) PROVE TypeOK'
  BY <1>3, CallTypes DEF TypeOK, OpenFirstFails, Goto, Steps, Folder
<1>4. ASSUME NEW p \in Procs, Begin(p) PROVE TypeOK'
  <2>1. Today \in Nat /\ call \in [Procs -> Calls]
    BY <1>0 DEF Today, TypeOK
  <2>2. told' \in [Lines -> {"none", "asked", "written", "lost"}]
    BY <1>4 DEF TypeOK, Begin
  <2>3. call' \in [Procs -> Calls]
    <3>1. PICK c \in Calls : call' = [call EXCEPT ![p] = c]
      <4>1. CASE \E l \in Lines :
                  call' = [call EXCEPT ![p] = [NoCall EXCEPT !.op = "write", !.line = l,
                                                            !.stamp = Today]]
        BY <2>1, <4>1, CallTypes
      <4>2. CASE \E o \in {"ready", "tick"} :
                  call' = [call EXCEPT ![p] = [NoCall EXCEPT !.op = o, !.stamp = Today]]
        BY <2>1, <4>2, CallTypes
      <4> QED
        BY <1>4, <4>1, <4>2 DEF Begin
    <3> QED
      BY <2>1, <3>1
  <2> QED
    BY <1>4, <2>2, <2>3 DEF TypeOK, Begin, Goto, Steps, Folder
<1>5. ASSUME NEW p \in Procs, SameDay(p) PROVE TypeOK'
  BY <1>5 DEF TypeOK, SameDay, Verified, Cur, Goto, Steps, Owns, Folder
<1>6. ASSUME NEW p \in Procs, TurnDay(p) PROVE TypeOK'
  <2>1. Stamp(p) \in Nat /\ own[p].left \in 0 .. MaxReopens
    BY DEF TypeOK, Calls, Owns, Stamp
  <2>2. DOMAIN files' \subseteq Names /\ files' \in [DOMAIN files' -> File]
    BY <1>6, <2>1, MakeTypes DEF TurnDay, TypeOK, Folder
  <2>3. own' \in [Procs -> Owns]
    <3>1. CASE \E n \in Names : Make(p, n, Stamp(p), own[p].left, Left(p))
      BY <2>1, <3>1, MakeTypes
    <3>2. CASE own' = [own EXCEPT ![p].file = Verified(p), ![p].tried = Stamp(p)]
      <4>1. Verified(p) \in Names \cup {NoName}
        BY DEF TypeOK, Verified, Cur, Owns
      <4>2. own \in [Procs -> Owns]
        BY DEF TypeOK
      <4> QED
        BY <2>1, <3>2, <4>1, <4>2 DEF Owns
    <3> QED
      BY <1>6, <3>1, <3>2 DEF TurnDay
  <2>4. call' \in [Procs -> Calls]
    <3>1. call \in [Procs -> Calls]
      BY DEF TypeOK
    <3> QED
      BY <1>6, <3>1, CallTypes DEF TurnDay
  <2>5. harmed' \subseteq Procs
    BY <1>6 DEF TurnDay, TypeOK, Harm
  <2> QED
    BY <1>6, <2>2, <2>3, <2>4, <2>5 DEF TypeOK, TurnDay, Goto, Steps, Folder
<1>7. ASSUME NEW p \in Procs, SweepBegin(p) PROVE TypeOK'
  BY <1>7 DEF TypeOK, SweepBegin, Sweeps, NoSweep, Goto, Steps, Folder
<1>8. ASSUME NEW p \in Procs, Look(p) PROVE TypeOK'
  <2>1. sweep \in [Procs -> Sweeps]
    BY DEF TypeOK
  <2>2. \E n \in sweep[p].todo :
          \/ sweep' = [sweep EXCEPT ![p].todo = @ \ {n}, ![p].judged = n]
          \/ sweep' = [sweep EXCEPT ![p].todo = @ \ {n}]
    BY <1>8 DEF Look
  <2>3. sweep[p].todo \subseteq Names
    BY <2>1 DEF Sweeps
  <2>4. PICK s \in Sweeps : sweep' = [sweep EXCEPT ![p] = s]
    <3>1. PICK n \in sweep[p].todo :
            \/ sweep' = [sweep EXCEPT ![p] = [sweep[p] EXCEPT !.todo = @ \ {n},
                                                             !.judged = n]]
            \/ sweep' = [sweep EXCEPT ![p] = [sweep[p] EXCEPT !.todo = @ \ {n}]]
      BY <2>2
    <3> QED
      BY <2>1, <2>3, <3>1, SweepTypes
  <2>5. pc' \in [Procs -> Steps]
    BY <1>8 DEF TypeOK, Look, Goto, Steps
  <2> QED
    BY <1>8, <2>1, <2>4, <2>5 DEF TypeOK, Look, Folder
<1>9. ASSUME NEW p \in Procs, Unlink(p) PROVE TypeOK'
  <2>1. DOMAIN files' \subseteq Names /\ files' \in [DOMAIN files' -> File]
    BY <1>9, WithoutTypes DEF Unlink, TypeOK, Folder
  <2>2. sweep \in [Procs -> Sweeps]
    BY DEF TypeOK
  <2>3. PICK s \in Sweeps : sweep' = [sweep EXCEPT ![p] = s]
    <3>1. \/ sweep' = [sweep EXCEPT ![p] = [sweep[p] EXCEPT !.judged = NoName]]
          \/ sweep' = [sweep EXCEPT ![p] = [sweep[p] EXCEPT !.judged = NoName,
                                                           !.clean = FALSE]]
      BY <1>9 DEF Unlink
    <3> QED
      BY <2>2, <3>1, SweepTypes
  <2>4. sweep' \in [Procs -> Sweeps]
    BY <2>2, <2>3
  <2> QED
    BY <1>9, <2>1, <2>4 DEF TypeOK, Unlink, Goto, Steps, Folder
<1>10. ASSUME NEW p \in Procs, SweepStops(p) PROVE TypeOK'
  <2>1. sweep' \in [Procs -> Sweeps]
    <3>1. sweep \in [Procs -> Sweeps]
      BY DEF TypeOK
    <3>2. sweep' = [sweep EXCEPT ![p] = [sweep[p] EXCEPT !.todo = {}, !.judged = NoName,
                                                         !.clean = FALSE]]
      BY <1>10 DEF SweepStops
    <3> QED
      BY <3>1, <3>2, SweepTypes
  <2> QED
    BY <1>10, <2>1 DEF TypeOK, SweepStops, Goto, Steps, Folder
<1>11. ASSUME NEW p \in Procs, SweepEnd(p) PROVE TypeOK'
  <2>1. sweep' \in [Procs -> Sweeps]
    BY <1>11, SweepTypes DEF TypeOK, SweepEnd
  <2> QED
    BY <1>11, <2>1 DEF TypeOK, SweepEnd, Goto, Steps, Folder
<1>12. ASSUME NEW p \in Procs, Target(p) PROVE TypeOK'
  BY <1>12, CallTypes DEF TypeOK, Target, Return, Goto, Steps, Folder
<1>13. ASSUME NEW p \in Procs, Reopen(p) PROVE TypeOK'
  <2>1. /\ own[p].tried \in Nat /\ own[p].left \in 0 .. MaxReopens
        /\ own[p].left - 1 \in 0 .. MaxReopens
    BY <1>13 DEF TypeOK, Owns, Reopen, MayReopen
  <2>2. DOMAIN files' \subseteq Names /\ files' \in [DOMAIN files' -> File]
    BY <1>13, <2>1, MakeTypes DEF Reopen, TypeOK, Folder
  <2>3. own' \in [Procs -> Owns]
    <3>1. CASE \E n \in Names : Make(p, n, own[p].tried, own[p].left - 1, {})
      BY <2>1, <3>1, MakeTypes
    <3>2. CASE own' = [own EXCEPT ![p].left = @ - 1]
      <4>1. own[p] \in Owns /\ own \in [Procs -> Owns]
        BY DEF TypeOK
      <4>2. [own[p] EXCEPT !.left = @ - 1] \in Owns
        BY <2>1, <4>1 DEF Owns
      <4>3. own' = [own EXCEPT ![p] = [own[p] EXCEPT !.left = @ - 1]]
        BY <3>2
      <4> QED
        BY <4>1, <4>2, <4>3
    <3> QED
      BY <1>13, <3>1, <3>2 DEF Reopen
  <2>4. call' \in [Procs -> Calls]
    <3>1. call \in [Procs -> Calls] /\ call[p] \in Calls
      BY DEF TypeOK
    <3>2. call' = [call EXCEPT ![p] = [call[p] EXCEPT !.tried = TRUE]]
      BY <1>13 DEF Reopen
    <3>3. [call[p] EXCEPT !.tried = TRUE] \in Calls
      BY <3>1, CallTypes
    <3> QED
      BY <3>1, <3>2, <3>3
  <2>5. harmed' \subseteq Procs
    BY <1>13 DEF Reopen, TypeOK, Harm
  <2> QED
    BY <1>13, <2>2, <2>3, <2>4, <2>5 DEF TypeOK, Reopen, Folder
<1>14. ASSUME NEW p \in Procs, NoFile(p) PROVE TypeOK'
  <2>1. call' \in [Procs -> Calls]
    BY <1>14, CallTypes DEF TypeOK, NoFile, Tell, Return
  <2>2. told' \in [Lines -> {"none", "asked", "written", "lost"}]
    BY <1>14 DEF TypeOK, NoFile, Tell
  <2>3. pc' \in [Procs -> Steps]
    BY <1>14 DEF TypeOK, NoFile, Tell, Return, Goto, Steps
  <2> QED
    BY <1>14, <2>1, <2>2, <2>3 DEF TypeOK, NoFile, Folder
<1>15. ASSUME NEW p \in Procs, Attempt(p) PROVE TypeOK'
  <2>1. DOMAIN files' \subseteq Names /\ files' \in [DOMAIN files' -> File]
    BY <1>15, GrownTypes DEF Attempt
  <2>2. Today \in Nat /\ Cur(p) \in Names \cup {NoName}
    BY <1>0 DEF Today, TypeOK, Cur, Owns
  <2>3. where' \in [Lines -> Names \cup {NoName}] /\ on' \in [Lines -> Nat]
    BY <1>15, <2>2 DEF Attempt, TypeOK
  <2>4. raced' \subseteq Lines
    BY <1>15 DEF Attempt, TypeOK, Asked
  <2> QED
    BY <1>15, <2>1, <2>3, <2>4 DEF TypeOK, Attempt, Goto, Steps, Folder
<1>16. ASSUME NEW p \in Procs, AttemptFails(p) PROVE TypeOK'
  <2>1. DOMAIN files' \subseteq Names /\ files' \in [DOMAIN files' -> File]
    BY <1>16, GrownTypes DEF AttemptFails, TypeOK, Folder
  <2> QED
    BY <1>16, <2>1, CallTypes
       DEF TypeOK, AttemptFails, Tell, Return, Harm, Goto, Steps, Folder
<1>17. ASSUME NEW p \in Procs, AttemptDropped(p) PROVE TypeOK'
  <2>1. DOMAIN files' \subseteq Names /\ files' \in [DOMAIN files' -> File]
    BY <1>17, GrownTypes, WithoutTypes DEF AttemptDropped, TypeOK, Folder
  <2>2. own' \in [Procs -> Owns]
    BY <1>17 DEF AttemptDropped, GiveUp, TypeOK, Owns
  <2>3. call' \in [Procs -> Calls]
    <3>1. call \in [Procs -> Calls]
      BY DEF TypeOK
    <3> QED
      BY <1>17, <3>1, CallTypes DEF AttemptDropped
  <2> QED
    BY <1>17, <2>1, <2>2, <2>3 DEF TypeOK, AttemptDropped, Harm, Goto, Steps, Folder
<1>18. ASSUME NEW p \in Procs, Check(p) PROVE TypeOK'
  <2>1. own' \in [Procs -> Owns]
    BY <1>18 DEF Check, GiveUp, TypeOK, Owns
  <2> QED
    <3>1. /\ told' \in [Lines -> {"none", "asked", "written", "lost"}]
          /\ pc' \in [Procs -> Steps] /\ call' \in [Procs -> Calls]
      <4>1. PICK a \in {"written", "lost"} : Tell(p, a)
        BY <1>18 DEF Check
      <4> QED
        BY <4>1, CallTypes DEF Tell, Return, Goto, Steps, TypeOK
    <3> QED
      BY <1>18, <2>1, <3>1 DEF TypeOK, Check, Folder
<1>19. ASSUME NEW p \in Procs, Ends(p)
       PROVE  /\ own' \in [Procs -> Owns] /\ call' \in [Procs -> Calls]
              /\ sweep' \in [Procs -> Sweeps] /\ pc' \in [Procs -> Steps]
              /\ harmed' \subseteq Procs
  BY <1>19 DEF Ends, TypeOK, Owns, NoOwn, Calls, NoCall, Sweeps, NoSweep, Steps, Goto
<1>20. ASSUME NEW p \in Procs, Close(p) PROVE TypeOK'
  <2>1. DOMAIN files' \subseteq Names /\ files' \in [DOMAIN files' -> File]
    BY <1>20, WithoutTypes DEF Close
  <2>2. Ends(p)
    BY <1>20 DEF Close
  <2> QED
    BY <1>19, <1>20, <2>1, <2>2 DEF TypeOK, Close, Folder
<1>21. ASSUME NEW p \in Procs, Crash(p) PROVE TypeOK'
  <2>1. Ends(p)
    BY <1>21 DEF Crash
  <2> QED
    BY <1>19, <1>21, <2>1 DEF TypeOK, Crash, Folder
<1>22. CASE TimePasses
  BY <1>22 DEF TypeOK, TimePasses, Folder
<1>23. CASE DeletedByHand
  <2>1. PICK n \in Folder :
          /\ files' = Without({n})
          /\ byHand' = byHand \cup {n}
          /\ harmed' = harmed \cup {p \in Procs : Cur(p) = n}
    BY <1>23 DEF DeletedByHand
  <2>2. DOMAIN files' \subseteq Names /\ files' \in [DOMAIN files' -> File]
    BY <2>1, WithoutTypes
  <2> QED
    BY <1>23, <2>1, <2>2 DEF TypeOK, DeletedByHand, Folder
<1>24. CASE UNCHANGED vars
  BY <1>24 DEF TypeOK, vars, Folder
<1> QED
  BY <1>1, <1>2, <1>3, <1>4, <1>5, <1>6, <1>7, <1>8, <1>9, <1>10, <1>11, <1>12,
     <1>13, <1>14, <1>15, <1>16, <1>17, <1>18, <1>20, <1>21, <1>22, <1>23, <1>24
     DEF Next, Step

-----------------------------------------------------------------------------
(* What a step can do to a file, a line and a sweep.                       *)

\* A file stays as it is, is written on now, or is made now.
Kept(n)    == n \in Folder /\ files'[n] = files[n]
WrittenOn(n) == /\ n \in Folder /\ ~files'[n].empty /\ files'[n].changed = now
              /\ files'[n].day = files[n].day
Made(n)    == Fresh(n) /\ files'[n].changed = now

LEMMA MakeMoves ==
    ASSUME NEW p, NEW m, NEW t, NEW k, NEW gone, Make(p, m, t, k, gone)
    PROVE  /\ \A n \in DOMAIN files' : Kept(n) \/ Made(n)
           /\ Folder \ gone \subseteq DOMAIN files'
BY DEF Make, Kept, Made, Folder

LEMMA WithoutMoves ==
    ASSUME NEW gone, files' = Without(gone)
    PROVE  /\ \A n \in DOMAIN files' : Kept(n)
           /\ Folder \ gone \subseteq DOMAIN files'
BY DEF Without, Kept, Folder

LEMMA GrownMoves ==
    ASSUME TypeOK, NEW p, files' = Grown(p)
    PROVE  /\ \A n \in DOMAIN files' : Kept(n) \/ WrittenOn(n)
           /\ DOMAIN files' = Folder
<1>1. DOMAIN files' = Folder
  BY DEF Grown
<1>2. ASSUME NEW n \in Folder, n = Cur(p) PROVE WrittenOn(n)
  BY <1>2 DEF Grown, WrittenOn, TypeOK, File
<1>3. ASSUME NEW n \in Folder, n # Cur(p) PROVE Kept(n)
  BY <1>3 DEF Grown, Kept
<1> QED
  BY <1>1, <1>2, <1>3

\* What a file that goes was: empty, deleted by a person, or judged by a sweep.
Went(n) ==
    \/ files[n].empty
    \/ n \in byHand'
    \/ \E p \in Procs : n = sweep[p].judged

LEMMA FilesMove ==
    ASSUME TypeOK, [Next]_vars
    PROVE  /\ \A n \in DOMAIN files' : Kept(n) \/ WrittenOn(n) \/ Made(n)
           /\ \A n \in Folder \ DOMAIN files' : Went(n)
<1> DEFINE Moves == /\ \A n \in DOMAIN files' : Kept(n) \/ WrittenOn(n) \/ Made(n)
                    /\ \A n \in Folder \ DOMAIN files' : Went(n)
<1>1. CASE files' = files
  BY <1>1 DEF Kept, Folder
<1>2. ASSUME NEW p, files' = Grown(p) PROVE Moves
  BY <1>2, GrownMoves
<1>3. ASSUME NEW p, NEW m, NEW t, NEW k, Make(p, m, t, k, {}) PROVE Moves
  BY <1>3, MakeMoves
<1>4. \A p : \A n \in Left(p) : files[n].empty
  BY DEF Left
<1>5. ASSUME NEW p, NEW m, NEW t, NEW k, Make(p, m, t, k, Left(p)) PROVE Moves
  BY <1>4, <1>5, MakeMoves DEF Went
<1>6. ASSUME NEW p, files' = Without(Left(p)) PROVE Moves
  BY <1>4, <1>6, WithoutMoves DEF Went
<1>7. ASSUME NEW p \in Procs, files' = Without({sweep[p].judged}) PROVE Moves
  BY <1>7, WithoutMoves DEF Went
<1>8. ASSUME NEW n \in Folder, files' = Without({n}), n \in byHand' PROVE Moves
  BY <1>8, WithoutMoves DEF Went
<1>9. ASSUME NEW p \in Procs, Start(p) \/ Begin(p) \/ Step(p) \/ Close(p) \/ Crash(p)
      PROVE  Moves
  <2>1. CASE files' = files
    BY <1>1, <2>1
  <2>2. CASE OpenFirst(p)
    BY <1>3, <2>2 DEF OpenFirst
  <2>3. CASE TurnDay(p)
    BY <1>1, <1>5, <2>3 DEF TurnDay
  <2>4. CASE Unlink(p)
    BY <1>1, <1>7, <2>4 DEF Unlink
  <2>5. CASE Reopen(p)
    BY <1>1, <1>3, <2>5 DEF Reopen
  <2>6. CASE Attempt(p)
    BY <1>2, <2>6 DEF Attempt
  <2>7. CASE AttemptFails(p)
    BY <1>1, <1>2, <2>7 DEF AttemptFails
  <2>8. CASE AttemptDropped(p)
    BY <1>1, <1>2, <1>6, <2>8 DEF AttemptDropped
  <2>9. CASE Close(p)
    BY <1>6, <2>9 DEF Close
  <2> QED
    BY <1>9, <2>1, <2>2, <2>3, <2>4, <2>5, <2>6, <2>7, <2>8, <2>9
       DEF Step, Start, Begin, Crash, OpenFirstFails, SameDay, SweepBegin, Look,
           SweepStops, SweepEnd, Target, NoFile, Check
<1>10. CASE TimePasses
  BY <1>1, <1>10 DEF TimePasses
<1>11. CASE DeletedByHand
  BY <1>8, <1>11 DEF DeletedByHand
<1>12. CASE UNCHANGED vars
  BY <1>1, <1>12 DEF vars
<1> QED
  BY <1>9, <1>10, <1>11, <1>12 DEF Next

\* A line gets its file and its day as it is written, and is told written only
\* by the check of its own process; what was recorded as history stays.
LEMMA LinesMove ==
    ASSUME TypeOK, [Next]_vars, NEW l \in Lines
    PROVE  /\ now' \in Nat /\ now <= now'
           /\ raced \subseteq raced' /\ byHand \subseteq byHand'
           /\ \/ where'[l] = where[l] /\ on'[l] = on[l]
              \/ \E p \in Procs : Attempt(p) /\ l = call[p].line
           /\ told'[l] = "written" =>
                \/ told[l] = "written"
                \/ \E p \in Procs : /\ Check(p) /\ l = call[p].line
                                    /\ Cur(p) \in Folder
<1> DEFINE Still == /\ now' = now /\ raced' = raced /\ byHand' = byHand
                    /\ where' = where /\ on' = on
<1> USE DEF fate
<1>0. now \in Nat /\ told \in [Lines -> {"none", "asked", "written", "lost"}]
  BY DEF TypeOK
<1>1. CASE TimePasses
  BY <1>0, <1>1 DEF TimePasses
<1>2. CASE DeletedByHand
  BY <1>0, <1>2 DEF DeletedByHand
<1>3. CASE UNCHANGED vars
  BY <1>0, <1>3 DEF vars
<1>4. ASSUME NEW p \in Procs, Attempt(p)
      PROVE  /\ now' = now /\ raced \subseteq raced' /\ byHand' = byHand
             /\ told' = told
             /\ l # call[p].line => where'[l] = where[l] /\ on'[l] = on[l]
  BY <1>4 DEF Attempt, TypeOK
<1>5. ASSUME NEW p \in Procs, Check(p)
      PROVE  /\ Still
             /\ told'[l] = "written" /\ told[l] # "written" =>
                    l = call[p].line /\ Cur(p) \in Folder
  BY <1>0, <1>5 DEF Check, Tell
<1>6. ASSUME NEW p \in Procs,
             NoFile(p) \/ AttemptFails(p) \/ Begin(p)
      PROVE  Still /\ (told'[l] = "written" => told[l] = "written")
  <2>1. CASE NoFile(p)
    BY <1>0, <2>1 DEF NoFile, Tell
  <2>2. CASE AttemptFails(p)
    BY <1>0, <2>2 DEF AttemptFails, Tell
  <2>3. CASE Begin(p)
    BY <1>0, <2>3 DEF Begin
  <2> QED
    BY <1>6, <2>1, <2>2, <2>3
<1>7. ASSUME NEW p \in Procs, Start(p) \/ Begin(p) \/ Step(p) \/ Close(p) \/ Crash(p),
             ~Attempt(p), ~Check(p), ~NoFile(p), ~AttemptFails(p), ~Begin(p)
      PROVE  Still /\ told' = told
  BY <1>7 DEF Step, Start, OpenFirst, OpenFirstFails, SameDay, TurnDay, SweepBegin,
              Look, Unlink, SweepStops, SweepEnd, Target, Reopen, AttemptDropped,
              Close, Crash
<1> QED
  BY <1>0, <1>1, <1>2, <1>3, <1>4, <1>5, <1>6, <1>7 DEF Next

\* A sweep is moved on by its own process only.
LEMMA SweepsMove ==
    ASSUME TypeOK, [Next]_vars, NEW p \in Procs
    PROVE  \/ /\ sweep'[p] = sweep[p]
              /\ pc[p] = "unlink" => pc'[p] = "unlink"
           \/ sweep'[p] = NoSweep
           \/ SweepBegin(p) \/ Look(p) \/ Unlink(p) \/ SweepStops(p)
<1> DEFINE Moved == \/ /\ sweep'[p] = sweep[p]
                       /\ pc[p] = "unlink" => pc'[p] = "unlink"
                    \/ sweep'[p] = NoSweep
                    \/ SweepBegin(p) \/ Look(p) \/ Unlink(p) \/ SweepStops(p)
<1>0. pc \in [Procs -> Steps] /\ sweep \in [Procs -> Sweeps]
  BY DEF TypeOK
<1>1. CASE TimePasses \/ DeletedByHand \/ UNCHANGED vars
  BY <1>1 DEF TimePasses, DeletedByHand, vars
<1>2. ASSUME NEW q \in Procs, SweepBegin(q) \/ Look(q) \/ Unlink(q) \/ SweepStops(q)
      PROVE  Moved
  <2>1. CASE q = p
    BY <1>2, <2>1
  <2>2. CASE q # p
    BY <1>0, <1>2, <2>2 DEF SweepBegin, Look, Unlink, SweepStops, Goto
  <2> QED
    BY <2>1, <2>2
<1>3. ASSUME NEW q \in Procs, SweepEnd(q) PROVE Moved
  BY <1>0, <1>3 DEF SweepEnd, Goto
<1>4. ASSUME NEW q \in Procs, Close(q) \/ Crash(q) PROVE Moved
  BY <1>0, <1>4 DEF Close, Crash, Ends, Goto
<1>5. ASSUME NEW q \in Procs, Start(q) \/ Begin(q) \/ OpenFirst(q) \/ OpenFirstFails(q)
                \/ SameDay(q) \/ TurnDay(q)
      PROVE  Moved
  BY <1>0, <1>5 DEF Start, Begin, OpenFirst, OpenFirstFails, SameDay, TurnDay, Goto
<1>6. ASSUME NEW q \in Procs, Target(q) \/ Reopen(q) \/ NoFile(q) \/ Attempt(q)
                \/ AttemptFails(q) \/ AttemptDropped(q) \/ Check(q)
      PROVE  Moved
  BY <1>0, <1>6 DEF Target, Reopen, NoFile, Attempt, AttemptFails, AttemptDropped,
     Check, NeedsFile, MayReopen, Tell, Return, Goto
<1> QED
  BY <1>1, <1>2, <1>3, <1>4, <1>5, <1>6 DEF Next, Step

-----------------------------------------------------------------------------
(* Each part of the invariant is kept by every step.                       *)

LEMMA IInvInit == Init => IInv
<1> SUFFICES ASSUME Init PROVE IInv
  OBVIOUS
<1>1. TypeOK
  BY TypeInit
<1>2. Folder = {}
  BY DEF Init, Folder
<1>3. Grows /\ NotAhead /\ JudgedOld /\ LinesStay /\ SweepGoesOn /\ JudgedAlone
  BY <1>2, FolderAssumption
     DEF Init, Grows, NotAhead, JudgedOld, LinesStay, SweepGoesOn, JudgedAlone, NoSweep
<1>4. Asked
  BY DEF Init, Asked, NoCall
<1> QED
  BY <1>1, <1>3, <1>4 DEF IInv

\* Only one step moves the clock.
LEMMA NowStays == [Next]_vars /\ ~TimePasses => now' = now
<1>1. \A p \in Procs : Start(p) \/ Begin(p) \/ Close(p) \/ Crash(p) => now' = now
  BY DEF Start, Begin, Close, Crash
<1>2. ASSUME NEW p \in Procs, Step(p) PROVE now' = now
  <2>1. OpenFirst(p) \/ OpenFirstFails(p) \/ SameDay(p) \/ TurnDay(p) => now' = now
    BY DEF OpenFirst, OpenFirstFails, SameDay, TurnDay
  <2>2. \/ SweepBegin(p) \/ Look(p) \/ Unlink(p) \/ SweepStops(p) \/ SweepEnd(p)
        => now' = now
    BY DEF SweepBegin, Look, Unlink, SweepStops, SweepEnd
  <2>3. Target(p) \/ Reopen(p) \/ NoFile(p) => now' = now
    BY DEF Target, Reopen, NoFile
  <2>4. Attempt(p) \/ AttemptFails(p) \/ AttemptDropped(p) \/ Check(p) => now' = now
    BY DEF Attempt, AttemptFails, AttemptDropped, Check
  <2> QED
    BY <1>2, <2>1, <2>2, <2>3, <2>4 DEF Step
<1>3. DeletedByHand \/ UNCHANGED vars => now' = now
  BY DEF DeletedByHand, vars
<1> QED
  BY <1>1, <1>2, <1>3 DEF Next

LEMMA NotAheadNext == TypeOK /\ NotAhead /\ [Next]_vars => NotAhead'
<1> SUFFICES ASSUME TypeOK, NotAhead, [Next]_vars PROVE NotAhead'
  OBVIOUS
<1>1. now \in Nat /\ now' \in Nat /\ now <= now'
  <2>1. now \in Nat
    BY DEF TypeOK
  <2> QED
    BY <2>1, NowStays DEF TimePasses
<1>2. ASSUME NEW n \in DOMAIN files' PROVE files'[n].changed <= now'
  <2>1. Kept(n) => files[n].changed \in Nat /\ files[n].changed <= now
    BY DEF Kept, NotAhead, TypeOK, File
  <2>2. Kept(n) \/ WrittenOn(n) \/ Made(n)
    BY FilesMove
  <2> QED
    BY <1>1, <2>1, <2>2 DEF Kept, WrittenOn, Made
<1>3. ASSUME NEW p \in Procs PROVE sweep'[p].since <= now'
  <2>1. sweep[p] \in Sweeps /\ sweep[p].since \in Nat /\ sweep[p].since <= now
    BY DEF TypeOK, Sweeps, NotAhead
  <2>2. CASE sweep'[p].since = sweep[p].since
    BY <1>1, <2>1, <2>2
  <2>3. CASE sweep'[p] = NoSweep
    BY <1>1, <2>3 DEF NoSweep
  <2>4. CASE SweepBegin(p)
    BY <1>1, <2>4 DEF SweepBegin, TypeOK
  <2>5. CASE Look(p)
    BY <2>1, <2>2, <2>5 DEF Look, TypeOK, Sweeps
  <2>6. CASE Unlink(p)
    BY <2>1, <2>2, <2>6 DEF Unlink, TypeOK, Sweeps
  <2>7. CASE SweepStops(p)
    BY <2>1, <2>2, <2>7 DEF SweepStops, TypeOK, Sweeps
  <2> QED
    BY <2>2, <2>3, <2>4, <2>5, <2>6, <2>7, SweepsMove
<1> QED
  BY <1>2, <1>3 DEF NotAhead, Folder

LEMMA GrowsNext == TypeOK /\ NotAhead /\ Grows /\ [Next]_vars => Grows'
<1> SUFFICES ASSUME TypeOK, NotAhead, Grows, [Next]_vars,
                    NEW l \in Lines, where'[l] \in DOMAIN files'
             PROVE  /\ ~files'[where'[l]].empty
                    /\ on'[l] <= DayOf(files'[where'[l]].changed)
  BY DEF Grows, Folder
<1>1. CASE \E p \in Procs : Attempt(p) /\ l = call[p].line
  <2>1. PICK p \in Procs : Attempt(p) /\ l = call[p].line
    BY <1>1
  <2>2. where'[l] = Cur(p) /\ on'[l] = Today
    BY <2>1 DEF Attempt, TypeOK
  <2>3. where'[l] \in Folder /\ files' = Grown(p)
    BY <2>1, GrownMoves DEF Attempt
  <2>4. files[Cur(p)] \in File
    BY <2>2, <2>3 DEF TypeOK
  <2>5. files'[Cur(p)].changed = now /\ ~files'[Cur(p)].empty
    BY <2>2, <2>3, <2>4 DEF Grown, File
  <2>6. now \in Nat /\ Today \in Nat
    BY DaysAdvance DEF TypeOK, Today
  <2> QED
    BY <2>2, <2>5, <2>6 DEF Today
<1>2. CASE where'[l] = where[l] /\ on'[l] = on[l]
  <2>1. ~Fresh(where[l])
    BY DEF Fresh
  <2>2. /\ where[l] \in Folder
        /\ \/ files'[where[l]] = files[where[l]]
           \/ ~files'[where[l]].empty /\ files'[where[l]].changed = now
    BY <1>2, <2>1, FilesMove DEF Kept, WrittenOn, Made
  <2>3. /\ ~files[where[l]].empty
        /\ on[l] <= DayOf(files[where[l]].changed)
        /\ files[where[l]].changed <= now
    BY <2>2 DEF Grows, NotAhead
  <2>4. files[where[l]].changed \in Nat /\ now \in Nat /\ on[l] \in Nat
    BY <2>2 DEF TypeOK, File
  <2>5. /\ DayOf(files[where[l]].changed) \in Nat /\ DayOf(now) \in Nat
        /\ DayOf(files[where[l]].changed) <= DayOf(now)
    BY <2>3, <2>4, DaysAdvance
  <2> QED
    BY <1>2, <2>2, <2>3, <2>4, <2>5
<1> QED
  BY <1>1, <1>2, LinesMove

\* What was past its retention stays so.
LEMMA PastStays ==
    ASSUME NEW day \in Nat, NEW s \in Nat, NEW t \in Nat, s <= t,
           Past(day, DayOf(s))
    PROVE  Past(day, DayOf(t))
BY DaysAdvance, FolderAssumption DEF Past

LEMMA LinesStayNext ==
    /\ TypeOK /\ NotAhead /\ Grows /\ Asked /\ JudgedOld /\ LinesStay
    /\ [Next]_vars
    => LinesStay'
<1> SUFFICES ASSUME TypeOK, NotAhead, Grows, Asked, JudgedOld, LinesStay, [Next]_vars,
                    NEW l \in Lines,
                    told'[l] = "written", ~Past(on'[l], Today'),
                    l \notin raced', where'[l] \notin byHand'
             PROVE  where'[l] \in DOMAIN files'
  BY DEF LinesStay, Folder
<1>1. CASE told[l] = "written"
  <2>1. \A p \in Procs : Attempt(p) => l # call[p].line
    <3>1. ASSUME NEW p \in Procs, Attempt(p), l = call[p].line PROVE FALSE
      <4>1. told[l] = "asked"
        BY <3>1, FolderAssumption, NoLineAssumption DEF Attempt, Asked
      <4> QED
        BY <1>1, <4>1
    <3> QED
      BY <3>1
  <2>2. where'[l] = where[l] /\ on'[l] = on[l]
    BY <2>1, LinesMove
  <2>3. now \in Nat /\ on[l] \in Nat
    BY DEF TypeOK
  <2>4. ~Past(on[l], Today)
    BY <2>2, <2>3, PastStays, LinesMove DEF Today, DayOf
  <2>5. where[l] \in Folder
    BY <1>1, <2>2, <2>4, LinesMove DEF LinesStay
  <2>6. SUFFICES ASSUME Went(where[l]) PROVE FALSE
    BY <2>2, <2>5, FilesMove
  <2>7. ~files[where[l]].empty
    BY <2>5 DEF Grows
  <2>8. ASSUME NEW p \in Procs, where[l] = sweep[p].judged PROVE FALSE
    <3>1. sweep[p].judged # NoName /\ sweep[p].since \in Nat /\ sweep[p].since <= now
      BY <2>5, <2>8, FolderAssumption DEF TypeOK, Sweeps, NotAhead
    <3>2. l \notin raced
      BY LinesMove
    <3>3. Past(on[l], DayOf(sweep[p].since))
      BY <2>8, <3>1, <3>2 DEF JudgedOld
    <3>4. Past(on[l], DayOf(now))
      BY <2>3, <3>1, <3>3, PastStays
    <3> QED
      BY <2>4, <3>4 DEF Today
  <2> QED
    BY <2>2, <2>6, <2>7, <2>8 DEF Went
<1>2. ASSUME NEW p \in Procs, Check(p), l = call[p].line, Cur(p) \in Folder
      PROVE  where'[l] \in DOMAIN files'
  BY <1>2 DEF Check, Asked, Folder
<1> QED
  BY <1>1, <1>2, LinesMove

\* These steps judge no file, or are done with it.
LEMMA NoneJudged ==
    ASSUME TypeOK, NEW p \in Procs, SweepBegin(p) \/ Unlink(p) \/ SweepStops(p)
    PROVE  sweep'[p].judged = NoName
<1>1. sweep \in [Procs -> Sweeps]
  BY DEF TypeOK
<1>2. CASE SweepBegin(p)
  BY <1>1, <1>2 DEF SweepBegin, NoSweep
<1>3. CASE Unlink(p)
  BY <1>1, <1>3 DEF Unlink, Sweeps
<1>4. CASE SweepStops(p)
  BY <1>1, <1>4 DEF SweepStops, Sweeps
<1> QED
  BY <1>2, <1>3, <1>4

LEMMA JudgedOldNext ==
    TypeOK /\ NotAhead /\ Grows /\ JudgedAlone /\ JudgedOld /\ [Next]_vars => JudgedOld'
<1> SUFFICES ASSUME TypeOK, NotAhead, Grows, JudgedAlone, JudgedOld, [Next]_vars,
                    NEW p \in Procs, NEW l \in Lines,
                    sweep'[p].judged # NoName, where'[l] = sweep'[p].judged,
                    l \notin raced'
             PROVE  Past(on'[l], DayOf(sweep'[p].since))
  BY DEF JudgedOld, DayOf
<1>1. CASE sweep'[p] = sweep[p]
  <2>1. ~ \E q \in Procs : Attempt(q) /\ l = call[q].line
    BY <1>1 DEF Attempt, TypeOK
  <2>2. where'[l] = where[l] /\ on'[l] = on[l] /\ l \notin raced
    BY <2>1, LinesMove
  <2> QED
    BY <1>1, <2>2 DEF JudgedOld
<1>2. CASE Look(p)
  <2>1. where' = where /\ on' = on /\ sweep[p].judged = NoName
    BY <1>2 DEF Look, JudgedAlone, fate
  <2>2. PICK n \in sweep[p].todo :
            /\ n \in Folder /\ Due(n, sweep[p].since)
            /\ sweep' = [sweep EXCEPT ![p].todo = @ \ {n}, ![p].judged = n]
    <3>1. PICK n \in sweep[p].todo :
            IF n \in Folder /\ Due(n, sweep[p].since)
              THEN sweep' = [sweep EXCEPT ![p].todo = @ \ {n}, ![p].judged = n]
              ELSE sweep' = [sweep EXCEPT ![p].todo = @ \ {n}]
      BY <1>2 DEF Look
    <3>2. sweep \in [Procs -> Sweeps]
      BY DEF TypeOK
    <3>3. sweep' = [sweep EXCEPT ![p].todo = @ \ {n}] => sweep'[p].judged = NoName
      BY <2>1, <3>2 DEF Sweeps
    <3> QED
      BY <3>1, <3>3
  <2>3. sweep'[p].judged = n /\ sweep'[p].since = sweep[p].since
    BY <2>2 DEF TypeOK, Sweeps
  <2>4. where[l] = n
    BY <2>1, <2>3
  <2>5. ~files[n].empty /\ on[l] <= DayOf(files[n].changed)
    BY <2>2, <2>4 DEF Grows
  <2>6. Past(DayOf(files[n].changed), DayOf(sweep[p].since))
    BY <2>2, <2>5 DEF Due, EmptyBefore
  <2>7. /\ on[l] \in Nat /\ DayOf(files[n].changed) \in Nat
        /\ DayOf(sweep[p].since) \in Nat
    <3>1. on[l] \in Nat /\ files[n].changed \in Nat /\ sweep[p].since \in Nat
      BY <2>2 DEF TypeOK, File, Sweeps
    <3> QED
      BY <3>1, DaysAdvance
  <2> QED
    BY <2>1, <2>3, <2>5, <2>6, <2>7, FolderAssumption DEF Past
<1>3. CASE sweep'[p] = NoSweep
  BY <1>3 DEF NoSweep
<1>4. CASE SweepBegin(p) \/ Unlink(p) \/ SweepStops(p)
  BY <1>4, NoneJudged
<1> QED
  BY <1>1, <1>2, <1>3, <1>4, SweepsMove

LEMMA JudgedAloneNext == TypeOK /\ JudgedAlone /\ [Next]_vars => JudgedAlone'
<1> SUFFICES ASSUME TypeOK, JudgedAlone, [Next]_vars,
                    NEW p \in Procs, pc'[p] # "unlink"
             PROVE  sweep'[p].judged = NoName
  BY DEF JudgedAlone
<1>1. CASE sweep'[p] = sweep[p] /\ (pc[p] = "unlink" => pc'[p] = "unlink")
  BY <1>1 DEF JudgedAlone
<1>2. CASE sweep'[p] = NoSweep
  BY <1>2 DEF NoSweep
<1>3. CASE SweepBegin(p) \/ Unlink(p) \/ SweepStops(p)
  BY <1>3, NoneJudged
<1>4. CASE Look(p)
  <2>1. sweep[p].judged = NoName /\ pc \in [Procs -> Steps] /\ sweep \in [Procs -> Sweeps]
    BY <1>4 DEF Look, JudgedAlone, TypeOK
  <2> QED
    BY <1>4, <2>1 DEF Look, Goto, Sweeps
<1> QED
  BY <1>1, <1>2, <1>3, <1>4, SweepsMove

LEMMA SweepGoesOnNext ==
    TypeOK /\ NotAhead /\ JudgedAlone /\ SweepGoesOn /\ [Next]_vars => SweepGoesOn'
<1> SUFFICES ASSUME TypeOK, NotAhead, JudgedAlone, SweepGoesOn, [Next]_vars,
                    NEW p \in Procs, NEW n \in sweep'[p].due, n \in DOMAIN files'
             PROVE  Pending(p, n)'
  BY DEF SweepGoesOn, Folder
<1> USE DEF Pending, Due, EmptyBefore
<1>0. /\ sweep \in [Procs -> Sweeps] /\ now \in Nat
      /\ sweep[p].since \in Nat /\ sweep[p].since <= now
      /\ sweep[p].due \subseteq Names
  BY DEF TypeOK, Sweeps, NotAhead
<1>1. CASE sweep'[p] = sweep[p]
  <2>1. ~Fresh(n)
    BY <1>1 DEF Fresh
  <2>2. n \in Folder /\ (files'[n] = files[n] \/ files'[n].changed = now)
    BY <2>1, FilesMove DEF Kept, WrittenOn, Made
  <2>3. Pending(p, n)
    BY <1>1, <2>2 DEF SweepGoesOn
  <2>4. CASE files'[n] = files[n]
    BY <1>1, <2>3, <2>4
  <2>5. CASE files'[n].changed = now
    BY <1>0, <1>1, <2>5
  <2> QED
    BY <2>2, <2>4, <2>5
<1>2. CASE sweep'[p] = NoSweep
  BY <1>2 DEF NoSweep
<1>3. CASE SweepBegin(p)
  <2>1. PICK old \in SUBSET Folder :
          /\ \A m \in old : Due(m, now)
          /\ sweep' = [sweep EXCEPT ![p] = [NoSweep EXCEPT !.todo = old, !.due = old,
                                                           !.since = now]]
    BY <1>3 DEF SweepBegin
  <2>2. sweep'[p].todo = old /\ sweep'[p].due = old /\ sweep'[p].since = now
    BY <1>0, <2>1 DEF NoSweep
  <2>3. files' = files
    BY <1>3 DEF SweepBegin
  <2> QED
    BY <2>1, <2>2, <2>3
<1>4. CASE Look(p)
  <2>1. files' = files /\ sweep[p].judged = NoName
    BY <1>4 DEF Look, JudgedAlone
  <2>2. PICK m \in sweep[p].todo :
            IF m \in Folder /\ Due(m, sweep[p].since)
              THEN sweep' = [sweep EXCEPT ![p].todo = @ \ {m}, ![p].judged = m]
              ELSE sweep' = [sweep EXCEPT ![p].todo = @ \ {m}]
    BY <1>4 DEF Look
  <2>3. /\ sweep'[p].todo = sweep[p].todo \ {m}
        /\ sweep'[p].since = sweep[p].since /\ sweep'[p].due = sweep[p].due
        /\ m \in Folder /\ Due(m, sweep[p].since) => sweep'[p].judged = m
    BY <1>0, <2>2 DEF Sweeps
  <2>4. Pending(p, n) /\ n # NoName
    BY <1>0, <2>1, <2>3, FolderAssumption DEF SweepGoesOn, Folder
  <2>5. sweep'[p].clean = sweep[p].clean
    BY <1>0, <2>2 DEF Sweeps
  <2> QED
    BY <2>1, <2>3, <2>4, <2>5 DEF Folder
<1>5. CASE Unlink(p)
  <2>1. PICK b \in BOOLEAN :
          /\ b => files' = Without({sweep[p].judged})
          /\ ~b => files' = files
          /\ b => sweep' = [sweep EXCEPT ![p].judged = NoName]
          /\ ~b => sweep' = [sweep EXCEPT ![p].judged = NoName, ![p].clean = FALSE]
    BY <1>5 DEF Unlink
  <2>2. /\ sweep'[p].todo = sweep[p].todo /\ sweep'[p].since = sweep[p].since
        /\ sweep'[p].due = sweep[p].due
        /\ b => sweep'[p].clean = sweep[p].clean
        /\ ~b => ~sweep'[p].clean
    BY <1>0, <2>1 DEF Sweeps
  <2>3. /\ n \in Folder /\ files'[n] = files[n]
        /\ b => n # sweep[p].judged
    BY <2>1 DEF Without, Folder
  <2>4. Pending(p, n)
    BY <2>2, <2>3 DEF SweepGoesOn
  <2> QED
    BY <2>2, <2>3, <2>4
<1>6. CASE SweepStops(p)
  <2>1. files' = files
    BY <1>6 DEF SweepStops
  <2>2. /\ sweep' = [sweep EXCEPT ![p].todo = {}, ![p].judged = NoName, ![p].clean = FALSE]
    BY <1>6 DEF SweepStops
  <2>3. /\ sweep'[p].since = sweep[p].since /\ sweep'[p].due = sweep[p].due
        /\ ~sweep'[p].clean
    BY <1>0, <2>2 DEF Sweeps
  <2>4. Pending(p, n)
    BY <2>1, <2>3 DEF SweepGoesOn, Folder
  <2> QED
    BY <2>1, <2>3, <2>4
<1> QED
  BY <1>1, <1>2, <1>3, <1>4, <1>5, <1>6, SweepsMove

LEMMA AskedNext == TypeOK /\ Asked /\ [Next]_vars => Asked'
<1> SUFFICES ASSUME TypeOK, Asked, [Next]_vars PROVE Asked'
  OBVIOUS
<1> USE FolderAssumption, NoLineAssumption DEF fate
<1>0. /\ pc \in [Procs -> Steps] /\ call \in [Procs -> Calls] /\ own \in [Procs -> Owns]
      /\ told \in [Lines -> {"none", "asked", "written", "lost"}]
      /\ where \in [Lines -> Names \cup {NoName}]
  BY DEF TypeOK
<1>1. CASE UNCHANGED <<pc, own, call, told, where>>
  BY <1>1 DEF Asked, Cur
<1>2. ASSUME NEW p \in Procs, Begin(p) PROVE Asked'
  <2>1. CASE told' = told
    <3>1. PICK o \in {"ready", "tick"} :
            call' = [call EXCEPT ![p] = [NoCall EXCEPT !.op = o, !.stamp = Today]]
      <4>1. ASSUME NEW l \in Lines, told[l] = "none"
            PROVE  told # [told EXCEPT ![l] = "asked"]
        BY <1>0, <4>1
      <4> QED
        BY <1>2, <2>1, <4>1 DEF Begin
    <3>2. call'[p].op = o /\ call'[p].line = NoLine
      BY <1>0, <3>1 DEF NoCall
    <3>3. /\ pc'[p] = "day" /\ own' = own /\ where' = where
          /\ \A q \in Procs \ {p} : pc'[q] = pc[q] /\ call'[q] = call[q]
      BY <1>0, <1>2, <3>1 DEF Begin, Goto
    <3>4. \A q, v \in Procs :
            q # v /\ call'[q].line # NoLine => call'[q].line # call'[v].line
      BY <3>2, <3>3 DEF Asked
    <3> QED
      BY <2>1, <3>2, <3>3, <3>4 DEF Asked, Cur
  <2>2. CASE \E l \in Lines : /\ told[l] = "none" /\ told' = [told EXCEPT ![l] = "asked"]
                              /\ call' = [call EXCEPT ![p] =
                                   [NoCall EXCEPT !.op = "write", !.line = l,
                                                  !.stamp = Today]]
    <3>1. PICK l \in Lines : /\ told[l] = "none" /\ told' = [told EXCEPT ![l] = "asked"]
                             /\ call' = [call EXCEPT ![p] =
                                  [NoCall EXCEPT !.op = "write", !.line = l,
                                                 !.stamp = Today]]
      BY <2>2
    <3>2. call'[p].op = "write" /\ call'[p].line = l
      BY <1>0, <3>1 DEF NoCall
    <3>3. \A q \in Procs : call[q].line # l
      BY <3>1, FolderAssumption, NoLineAssumption DEF Asked
    <3>4. /\ \A q \in Procs \ {p} : call'[q] = call[q] /\ pc'[q] = pc[q]
          /\ pc'[p] = "day" /\ own' = own /\ where' = where
      BY <1>0, <1>2, <3>1 DEF Begin, Goto
    <3>5. told'[l] = "asked" /\ \A k \in Lines \ {l} : told'[k] = told[k]
      BY <1>0, <3>1
    <3>6. /\ \A q \in Procs :
            /\ pc'[q] \in {"attempt", "check"} => call'[q].op = "write"
            /\ call'[q].op = "write" => call'[q].line \in Lines
            /\ pc'[q] = "check" => where'[call'[q].line] = own'[q].file
      BY <3>2, <3>4 DEF Asked, Cur
    <3>7. \A q \in Procs : call[q].line \in Lines \cup {NoLine}
      BY <1>0 DEF Calls
    <3>8. \A q \in Procs : call'[q].line # NoLine => told'[call'[q].line] = "asked"
      BY <3>2, <3>3, <3>4, <3>5, <3>7 DEF Asked
    <3>9. \A q, r \in Procs :
            q # r /\ call'[q].line # NoLine => call'[q].line # call'[r].line
      BY <3>2, <3>3, <3>4 DEF Asked
    <3> QED
      BY <3>6, <3>8, <3>9 DEF Asked, Cur
  <2> QED
    BY <1>2, <2>1, <2>2 DEF Begin
<1>3. ASSUME NEW p \in Procs, call'[p].op # "write", call'[p].line = NoLine,
             call' = [call EXCEPT ![p] = call'[p]], \E s : Goto(p, s),
             pc'[p] \notin {"attempt", "check"},
             UNCHANGED where, \A q \in Procs \ {p} : own'[q] = own[q],
             told' = told \/ \E a : told' = [told EXCEPT ![call[p].line] = a]
      PROVE  Asked'
  <2>1. \A q \in Procs : call[q].line \in Lines \cup {NoLine}
    BY <1>0 DEF Calls
  <2>2. \A q \in Procs \ {p} : call'[q] = call[q] /\ pc'[q] = pc[q] /\ own'[q] = own[q]
    BY <1>0, <1>3 DEF Goto
  <2>3. \A q \in Procs \ {p} :
          call[q].line # NoLine => told'[call[q].line] = told[call[q].line]
    BY <1>0, <1>3, <2>1 DEF Asked
  <2>4. \A q \in Procs :
          /\ pc'[q] \in {"attempt", "check"} => call'[q].op = "write"
          /\ call'[q].op = "write" => call'[q].line \in Lines
          /\ pc'[q] = "check" => where'[call'[q].line] = own'[q].file
    BY <1>3, <2>2 DEF Asked, Cur
  <2>5. \A q \in Procs : call'[q].line # NoLine => told'[call'[q].line] = "asked"
    BY <1>3, <2>2, <2>3 DEF Asked
  <2>6. \A q, r \in Procs :
          q # r /\ call'[q].line # NoLine => call'[q].line # call'[r].line
    BY <1>3, <2>2 DEF Asked
  <2> QED
    BY <2>4, <2>5, <2>6 DEF Asked, Cur
<1>4. ASSUME NEW p \in Procs, Return(p)
      PROVE  /\ call'[p].op # "write" /\ call'[p].line = NoLine
             /\ call' = [call EXCEPT ![p] = call'[p]] /\ pc'[p] = "idle"
  BY <1>0, <1>4 DEF Return, Goto, NoCall
<1>5. ASSUME NEW p \in Procs, \E a : Tell(p, a),
             UNCHANGED where, \A q \in Procs \ {p} : own'[q] = own[q]
      PROVE  Asked'
  BY <1>3, <1>4, <1>5 DEF Tell, Return
<1>6. ASSUME NEW p \in Procs, NoFile(p) \/ AttemptFails(p) \/ Check(p)
      PROVE  Asked'
  <2>1. CASE NoFile(p) /\ call[p].op = "write"
    BY <1>5, <2>1 DEF NoFile
  <2>2. CASE NoFile(p) /\ call[p].op # "write"
    BY <1>3, <1>4, <2>2 DEF NoFile, Return
  <2>3. CASE AttemptFails(p)
    BY <1>5, <2>3 DEF AttemptFails
  <2>4. CASE Check(p)
    BY <1>0, <1>5, <2>4 DEF Check, GiveUp
  <2> QED
    BY <1>6, <2>1, <2>2, <2>3, <2>4
<1>7. ASSUME NEW p \in Procs, Close(p) \/ Crash(p) PROVE Asked'
  <2>1. /\ Ends(p) /\ UNCHANGED where /\ UNCHANGED told
    BY <1>7 DEF Close, Crash
  <2> QED
    BY <1>0, <1>3, <2>1 DEF Ends, Goto, NoCall
<1>8. ASSUME NEW p \in Procs, Target(p) PROVE Asked'
  <2>1. CASE call[p].op = "write"
    BY <1>0, <1>8, <2>1 DEF Target, Goto, Asked, Cur
  <2>2. CASE call[p].op # "write"
    BY <1>3, <1>4, <1>8, <2>2 DEF Target, Return
  <2> QED
    BY <2>1, <2>2
<1>9. ASSUME NEW p \in Procs, Attempt(p) PROVE Asked'
  BY <1>0, <1>9 DEF Attempt, Goto, Asked, Cur
<1>10. ASSUME NEW p \in Procs, Start(p) \/ OpenFirstFails(p) PROVE Asked'
  <2>1. call'[p].op # "write" /\ call'[p].line = NoLine
    <3>1. CASE Start(p)
      BY <1>0, <3>1 DEF Start, NoCall
    <3>2. CASE OpenFirstFails(p)
      BY <1>0, <3>2 DEF OpenFirstFails, NoCall
    <3> QED
      BY <1>10, <3>1, <3>2
  <2>2. call' = [call EXCEPT ![p] = call'[p]]
    BY <1>0, <1>10 DEF Start, OpenFirstFails
  <2> QED
    BY <1>0, <1>3, <1>10, <2>1, <2>2 DEF Start, OpenFirstFails, Goto
<1>11. ASSUME NEW p \in Procs,
              /\ \E s \in {"sweep", "look", "unlink", "target"} : Goto(p, s) \/ UNCHANGED pc
              /\ pc[p] # "check" /\ pc'[p] \notin {"attempt", "check"}
              /\ \A q \in Procs \ {p} : own'[q] = own[q]
              /\ call'[p].op = call[p].op /\ call'[p].line = call[p].line
              /\ \A q \in Procs \ {p} : call'[q] = call[q]
              /\ UNCHANGED <<told, where>>
       PROVE  Asked'
  BY <1>0, <1>11 DEF Goto, Asked, Cur
<1>12. ASSUME NEW p \in Procs, OpenFirst(p) \/ SameDay(p) \/ TurnDay(p) \/ SweepBegin(p)
                \/ Look(p) \/ Unlink(p) \/ SweepStops(p) \/ SweepEnd(p)
       PROVE  Asked'
  <2>1. /\ call'[p].op = call[p].op /\ call'[p].line = call[p].line
        /\ \A q \in Procs \ {p} : call'[q] = call[q]
    BY <1>0, <1>12 DEF OpenFirst, SameDay, TurnDay, SweepBegin, Look, Unlink,
                       SweepStops, SweepEnd, Calls
  <2>2. \A q \in Procs \ {p} : own'[q] = own[q]
    BY <1>0, <1>12 DEF OpenFirst, SameDay, TurnDay, SweepBegin, Look, Unlink,
                       SweepStops, SweepEnd, Make
  <2>3. /\ \E s \in {"sweep", "look", "unlink", "target"} : Goto(p, s) \/ UNCHANGED pc
        /\ pc[p] # "check" /\ pc'[p] \notin {"attempt", "check"}
        /\ UNCHANGED <<told, where>>
    BY <1>0, <1>12 DEF OpenFirst, SameDay, TurnDay, SweepBegin, Look, Unlink,
                       SweepStops, SweepEnd, Goto
  <2> QED
    BY <1>11, <2>1, <2>2, <2>3
<1>13. ASSUME NEW p \in Procs, Reopen(p) \/ AttemptDropped(p) PROVE Asked'
  <2>1. /\ call'[p].op = call[p].op /\ call'[p].line = call[p].line
        /\ \A q \in Procs \ {p} : call'[q] = call[q]
    BY <1>0, <1>13 DEF Reopen, AttemptDropped, Calls
  <2>2. \A q \in Procs \ {p} : own'[q] = own[q]
    BY <1>0, <1>13 DEF Reopen, AttemptDropped, GiveUp, Make
  <2>3. /\ \E s \in {"sweep", "look", "unlink", "target"} : Goto(p, s) \/ UNCHANGED pc
        /\ pc[p] # "check" /\ pc'[p] \notin {"attempt", "check"}
        /\ UNCHANGED <<told, where>>
    BY <1>0, <1>13 DEF Reopen, MayReopen, NeedsFile, AttemptDropped, Goto
  <2> QED
    BY <1>11, <2>1, <2>2, <2>3
<1>14. CASE TimePasses \/ DeletedByHand \/ UNCHANGED vars
  BY <1>1, <1>14 DEF TimePasses, DeletedByHand, vars
<1> QED
  BY <1>2, <1>6, <1>7, <1>8, <1>9, <1>10, <1>12, <1>13, <1>14 DEF Next, Step

LEMMA IInvNext == IInv /\ [Next]_vars => IInv'
BY TypeNext, GrowsNext, NotAheadNext, AskedNext, JudgedOldNext, LinesStayNext,
   SweepGoesOnNext, JudgedAloneNext DEF IInv

-----------------------------------------------------------------------------
(* The theorems.                                                           *)

\* The invariant holds in every state.
THEOREM Invariant == Spec => []IInv
BY IInvInit, IInvNext, PTL DEF Spec

\* Every variable keeps its type, whatever the processes, people and the file
\* system do in whatever order.
THEOREM TypeCorrect == Spec => []TypeOK
<1>1. IInv => TypeOK
  BY DEF IInv
<1> QED
  BY <1>1, Invariant, PTL

\* A line told written stays in the folder through its day and the retention,
\* however many processes sweep it, unless a sweep had judged its file before
\* the line reached it.
THEOREM LinesStayAlways == Spec => []LinesStay
<1>1. IInv => LinesStay
  BY DEF IInv
<1> QED
  BY <1>1, Invariant, PTL

\* A sweep that says it is complete and left nothing took whatever was due when
\* it began and was not written on since.
THEOREM CleanSweeps == Spec => []CleanTookAll
<1>1. IInv => CleanTookAll
  <2> SUFFICES ASSUME IInv, NEW p \in Procs,
                      pc[p] = "look", sweep[p].todo = {}, sweep[p].clean,
                      NEW n \in sweep[p].due \cap Folder
               PROVE  files[n].changed >= sweep[p].since
    BY DEF CleanTookAll
  <2>1. Pending(p, n) /\ sweep[p].judged = NoName /\ n # NoName
    BY FolderAssumption DEF IInv, SweepGoesOn, JudgedAlone, TypeOK
  <2> QED
    BY <2>1 DEF Pending
<1> QED
  BY <1>1, Invariant, PTL

-----------------------------------------------------------------------------
(* What others sweep costs a process nothing.                              *)

\* An open file has the day its process remembers, and is nobody else's.
OwnFiles ==
    \A p \in Procs :
        /\ Cur(p) \in Folder => files[Cur(p)].day = own[p].date
        /\ Open(p) => \A q \in Procs \ {p} : Cur(q) # Cur(p)

\* What a sweep looks at or is about to delete is of an earlier day.
SweptOld ==
    \A p \in Procs : \A n \in (sweep[p].todo \cup {sweep[p].judged}) \cap Folder :
        files[n].day < Today

RacedAsked == \A l \in raced : told[l] # "none"

\* Its file is in the folder, and of today.
Holds(p) == Cur(p) \in Folder /\ own[p].date >= Today

\* A process that met no harm read today from the clock and used no try.  Until
\* it has turned to today its file may be swept; from then on, never.
Mine(p) ==
    /\ pc[p] \notin {"off", "idle"} => Stamp(p) = Today
    /\ pc[p] \notin {"off", "open"} =>
        own[p].left = MaxReopens /\ own[p].tried <= own[p].date
    /\ pc[p] # "off" => call[p].line \notin raced
    /\ pc[p] \in {"idle", "day"} =>
        Cur(p) \in Folder \/ own[p].date < Today \/ MaxReopens = 0
    /\ pc[p] \in {"sweep", "look", "unlink", "target"} =>
        Holds(p) \/ (~Open(p) /\ MaxReopens = 0)
    /\ pc[p] \in {"attempt", "check"} => Holds(p)

Unharmed == \A p \in Procs \ harmed : Mine(p)

FreeInv == OwnFiles /\ SweptOld /\ RacedAsked /\ Unharmed

Acts(p) == Start(p) \/ Begin(p) \/ Step(p) \/ Close(p) \/ Crash(p)

LEMMA FreeInit == Init => FreeInv
BY FolderAssumption
   DEF Init, FreeInv, OwnFiles, SweptOld, RacedAsked, Unharmed, Mine, Folder, Cur, Open,
       NoOwn, NoSweep

\* A file keeps the day in its name.
LEMMA DaysStay ==
    ASSUME TypeOK, [Next]_vars, NEW n \in DOMAIN files', ~Fresh(n)
    PROVE  n \in Folder /\ files'[n].day = files[n].day
BY FilesMove DEF Kept, WrittenOn, Made

\* The day goes on only as time passes.
LEMMA TodayMoves ==
    ASSUME TypeOK, [Next]_vars
    PROVE  /\ Today \in Nat /\ Today' \in Nat /\ Today <= Today'
           /\ TimePasses \/ Today' = Today
<1>1. now \in Nat /\ now' \in Nat /\ now <= now'
  <2>1. CASE TimePasses
    BY <2>1 DEF TypeOK, TimePasses
  <2>2. CASE ~TimePasses
    BY <2>2, NowStays DEF TypeOK
  <2> QED
    BY <2>1, <2>2
<1>2. ~TimePasses => now' = now
  BY NowStays
<1>3. DayOf(now) \in Nat /\ DayOf(now') \in Nat /\ DayOf(now) <= DayOf(now')
  BY <1>1, DaysAdvance
<1>4. Today = DayOf(now) /\ Today' = DayOf(now')
  BY DEF Today, DayOf
<1> QED
  BY <1>2, <1>3, <1>4

\* A process that does not act stays where it is with what it has.  It comes
\* to harm, or the day goes on only if it is in no call.
LEMMA OthersMove ==
    ASSUME TypeOK, Asked, [Next]_vars, NEW p \in Procs, ~Acts(p)
    PROVE  /\ pc'[p] = pc[p] /\ own'[p] = own[p] /\ call'[p] = call[p]
           /\ p \notin harmed' => p \notin harmed
           /\ call[p].line \in raced' => call[p].line \in raced
           /\ p \notin harmed' /\ InCall(p) => Today' = Today
<1> USE DEF fate
<1> DEFINE Still == /\ pc'[p] = pc[p] /\ own'[p] = own[p] /\ call'[p] = call[p]
                    /\ p \notin harmed' => p \notin harmed
                    /\ call[p].line \in raced' => call[p].line \in raced
<1>0. /\ pc \in [Procs -> Steps] /\ call \in [Procs -> Calls] /\ own \in [Procs -> Owns]
      /\ raced \subseteq Lines
  BY DEF TypeOK
<1>1. ASSUME NEW q \in Procs, Acts(q) PROVE Still
  <2>0. q # p
    BY <1>1
  <2>1. CASE Start(q) \/ Begin(q) \/ OpenFirst(q) \/ OpenFirstFails(q)
    BY <1>0, <2>0, <2>1 DEF Start, Begin, OpenFirst, OpenFirstFails, Make, Goto
  <2>2. CASE SameDay(q) \/ TurnDay(q)
    BY <1>0, <2>0, <2>2 DEF SameDay, TurnDay, Make, Goto, Harm
  <2>3. CASE SweepBegin(q) \/ Look(q) \/ Unlink(q) \/ SweepStops(q) \/ SweepEnd(q)
    BY <1>0, <2>0, <2>3 DEF SweepBegin, Look, Unlink, SweepStops, SweepEnd, Goto
  <2>4. CASE Target(q) \/ Reopen(q) \/ NoFile(q)
    BY <1>0, <2>0, <2>4 DEF Target, Reopen, NoFile, Make, Goto, Return, Tell, Harm
  <2>5. CASE Attempt(q)
    <3>1. call[q].line # NoLine /\ call[q].line # call[p].line
      BY <2>0, <2>5, FolderAssumption, NoLineAssumption DEF Attempt, Asked
    <3> QED
      BY <1>0, <2>0, <2>5, <3>1 DEF Attempt, Goto
  <2>6. CASE AttemptFails(q) \/ AttemptDropped(q) \/ Check(q)
    BY <1>0, <2>0, <2>6 DEF AttemptFails, AttemptDropped, Check, GiveUp, Goto, Return,
                            Tell, Harm
  <2>7. CASE Close(q) \/ Crash(q)
    BY <1>0, <2>0, <2>7 DEF Close, Crash, Ends, Goto
  <2> QED
    BY <1>1, <2>1, <2>2, <2>3, <2>4, <2>5, <2>6, <2>7 DEF Acts, Step
<1>2. CASE TimePasses
  <2>1. Still
    BY <1>2 DEF TimePasses
  <2>2. p \notin harmed' /\ InCall(p) => Today' = Today
    BY <1>2 DEF TimePasses, Today, DayOf
  <2> QED
    BY <2>1, <2>2
<1>3. CASE ~TimePasses
  <2>1. Today' = Today
    BY <1>3, TodayMoves
  <2>2. CASE DeletedByHand
    <3>1. /\ pc' = pc /\ own' = own /\ call' = call /\ raced' = raced
          /\ harmed \subseteq harmed'
      BY <2>2 DEF DeletedByHand
    <3> QED
      BY <2>1, <3>1
  <2>3. CASE UNCHANGED vars
    BY <2>1, <2>3 DEF vars
  <2>4. CASE \E q \in Procs : Acts(q)
    BY <1>1, <2>1, <2>4
  <2> QED
    BY <1>3, <2>2, <2>3, <2>4 DEF Next, Acts
<1> QED
  BY <1>2, <1>3

\* A process may open a new file, which nobody has, or give its own up.
LEMMA OwnsMove ==
    ASSUME TypeOK, Asked, [Next]_vars, NEW p \in Procs
    PROVE  \/ own'[p].file = Cur(p) /\ own'[p].date = own[p].date
           \/ own'[p].file = NoName
           \/ /\ Fresh(own'[p].file)
              /\ files'[own'[p].file].day = own'[p].date
              /\ \A q \in Procs \ {p} : own'[q] = own[q]
<1> USE DEF fate
<1> DEFINE Moved == \/ own'[p].file = Cur(p) /\ own'[p].date = own[p].date
                    \/ own'[p].file = NoName
                    \/ /\ Fresh(own'[p].file)
                       /\ files'[own'[p].file].day = own'[p].date
                       /\ \A q \in Procs \ {p} : own'[q] = own[q]
<1>0. own \in [Procs -> Owns]
  BY DEF TypeOK
<1>1. CASE ~Acts(p)
  BY <1>1, OthersMove DEF Cur
<1>2. ASSUME NEW n, NEW t, NEW k, NEW gone, Make(p, n, t, k, gone) PROVE Moved
  BY <1>0, <1>2 DEF Make
<1>3. CASE own' = own
  BY <1>3 DEF Cur
<1>4. CASE TurnDay(p)
  BY <1>0, <1>2, <1>4 DEF TurnDay, Verified, Cur, Owns
<1>5. CASE Reopen(p)
  BY <1>0, <1>2, <1>5 DEF Reopen, Cur, Owns
<1>6. CASE OpenFirst(p)
  BY <1>2, <1>6 DEF OpenFirst
<1>7. CASE SameDay(p)
  BY <1>0, <1>7 DEF SameDay, Verified, Cur, Owns
<1>8. CASE AttemptDropped(p) \/ Check(p)
  BY <1>0, <1>8 DEF AttemptDropped, Check, GiveUp, Cur, Owns
<1>9. CASE Close(p) \/ Crash(p)
  BY <1>0, <1>9 DEF Close, Crash, Ends, NoOwn
<1> QED
  BY <1>1, <1>3, <1>4, <1>5, <1>6, <1>7, <1>8, <1>9
     DEF Acts, Step, Start, Begin, OpenFirstFails, SweepBegin, Look, Unlink, SweepStops,
         SweepEnd, Target, NoFile, Attempt, AttemptFails

LEMMA OwnFilesNext == TypeOK /\ Asked /\ OwnFiles /\ [Next]_vars => OwnFiles'
<1> SUFFICES ASSUME TypeOK, Asked, OwnFiles, [Next]_vars, NEW p \in Procs
             PROVE  /\ own'[p].file \in DOMAIN files' =>
                        files'[own'[p].file].day = own'[p].date
                    /\ own'[p].file # NoName =>
                        \A q \in Procs \ {p} : own'[q].file # own'[p].file
  BY DEF OwnFiles, Cur, Folder, Open
<1>1. NoName \notin DOMAIN files'
  BY TypeNext, FolderAssumption DEF TypeOK, Folder
<1>2. \A q \in Procs : ~Fresh(Cur(q))
  BY DEF Fresh
<1>3. own'[p].file \in DOMAIN files' => files'[own'[p].file].day = own'[p].date
  <2>1. CASE own'[p].file = Cur(p) /\ own'[p].date = own[p].date
    BY <1>2, <2>1, DaysStay DEF OwnFiles
  <2> QED
    BY <1>1, <2>1, OwnsMove
<1>4. ASSUME own'[p].file # NoName, NEW q \in Procs \ {p}, own'[q].file = own'[p].file
      PROVE  FALSE
  <2>1. CASE own'[p].file = Cur(p)
    <3>1. own'[q].file = Cur(q)
      BY <1>2, <1>4, <2>1, OwnsMove
    <3> QED
      BY <1>4, <2>1, <3>1 DEF OwnFiles, Open
  <2>2. CASE Fresh(own'[p].file) /\ \A r \in Procs \ {p} : own'[r] = own[r]
    BY <1>2, <1>4, <2>2 DEF Cur
  <2> QED
    BY <1>4, <2>1, <2>2, OwnsMove
<1> QED
  BY <1>3, <1>4

LEMMA SweptOldNext == TypeOK /\ Asked /\ SweptOld /\ [Next]_vars => SweptOld'
<1> SUFFICES ASSUME TypeOK, Asked, SweptOld, [Next]_vars, NEW p \in Procs,
                    NEW n \in sweep'[p].todo \cup {sweep'[p].judged}, n \in DOMAIN files'
             PROVE  files'[n].day < Today'
  BY DEF SweptOld, Folder
<1>0. /\ sweep \in [Procs -> Sweeps] /\ Today \in Nat /\ Today' \in Nat
      /\ Today <= Today' /\ n # NoName
  <2>1. n # NoName
    BY TypeNext, FolderAssumption DEF TypeOK, Folder
  <2> QED
    BY <2>1, TodayMoves DEF TypeOK
<1>1. CASE n \in sweep[p].todo \cup {sweep[p].judged}
  <2>1. n \in Folder /\ files'[n].day = files[n].day
    BY <1>1, DaysStay DEF Fresh
  <2>2. files[n].day < Today /\ files[n].day \in Nat
    BY <1>1, <2>1 DEF SweptOld, TypeOK, File
  <2> QED
    BY <1>0, <2>1, <2>2
<1>2. CASE sweep'[p] = NoSweep
  BY <1>0, <1>2 DEF NoSweep
<1>3. CASE SweepBegin(p)
  <2>1. n \in Folder /\ files[n].day < Today
    BY <1>0, <1>3 DEF SweepBegin, NoSweep
  <2>2. files' = files /\ files[n].day \in Nat
    BY <1>3, <2>1 DEF SweepBegin, TypeOK, File
  <2> QED
    BY <1>0, <2>1, <2>2
<1>4. CASE Look(p)
  <2>1. PICK m \in sweep[p].todo :
            \/ sweep' = [sweep EXCEPT ![p].todo = @ \ {m}, ![p].judged = m]
            \/ sweep' = [sweep EXCEPT ![p].todo = @ \ {m}]
    BY <1>4 DEF Look
  <2>2. /\ sweep'[p].todo \subseteq sweep[p].todo
        /\ sweep'[p].judged \in {m, sweep[p].judged}
    BY <1>0, <2>1 DEF Sweeps
  <2> QED
    BY <1>1, <2>1, <2>2
<1>5. CASE Unlink(p) \/ SweepStops(p)
  <2>1. sweep'[p].judged = NoName /\ sweep'[p].todo \subseteq sweep[p].todo
    <3>1. CASE Unlink(p)
      BY <1>0, <3>1 DEF Unlink, Sweeps
    <3>2. CASE SweepStops(p)
      BY <1>0, <3>2 DEF SweepStops, Sweeps
    <3> QED
      BY <1>5, <3>1, <3>2
  <2> QED
    BY <1>0, <1>1, <2>1
<1> QED
  BY <1>1, <1>2, <1>3, <1>4, <1>5, SweepsMove

LEMMA RacedAskedNext == TypeOK /\ Asked /\ RacedAsked /\ [Next]_vars => RacedAsked'
<1> SUFFICES ASSUME TypeOK, Asked, RacedAsked, [Next]_vars, NEW l \in raced'
             PROVE  told'[l] # "none"
  BY DEF RacedAsked
<1> USE DEF fate
<1>0. told \in [Lines -> {"none", "asked", "written", "lost"}] /\ raced \subseteq Lines
  BY DEF TypeOK
<1>1. ASSUME raced' = raced, told' = told PROVE told'[l] # "none"
  BY <1>1 DEF RacedAsked
<1>2. ASSUME NEW k, NEW a \in {"asked", "written", "lost"}, raced' = raced,
             told' = [told EXCEPT ![k] = a]
      PROVE  told'[l] # "none"
  BY <1>0, <1>2 DEF RacedAsked
<1>3. ASSUME NEW p \in Procs, Attempt(p) PROVE told'[l] # "none"
  <2>1. told' = told /\ raced' \subseteq raced \cup {call[p].line}
    BY <1>3 DEF Attempt
  <2>2. told[call[p].line] = "asked"
    BY <1>3, FolderAssumption, NoLineAssumption DEF Attempt, Asked
  <2> QED
    BY <2>1, <2>2 DEF RacedAsked
<1>4. ASSUME NEW p \in Procs, Begin(p) PROVE told'[l] # "none"
  BY <1>1, <1>2, <1>4 DEF Begin
<1>5. ASSUME NEW p \in Procs, NoFile(p) \/ AttemptFails(p) \/ Check(p)
      PROVE  told'[l] # "none"
  BY <1>1, <1>2, <1>5 DEF NoFile, AttemptFails, Check, Tell
<1>6. ASSUME NEW p \in Procs, Acts(p), ~Attempt(p), ~Begin(p), ~NoFile(p),
             ~AttemptFails(p), ~Check(p)
      PROVE  told'[l] # "none"
  BY <1>1, <1>6 DEF Acts, Step, Start, OpenFirst, OpenFirstFails, SameDay, TurnDay,
     SweepBegin, Look, Unlink, SweepStops, SweepEnd, Target, Reopen, AttemptDropped,
     Close, Crash
<1>7. CASE TimePasses \/ DeletedByHand \/ UNCHANGED vars
  BY <1>1, <1>7 DEF TimePasses, DeletedByHand, vars
<1> QED
  BY <1>3, <1>4, <1>5, <1>6, <1>7 DEF Next, Acts

\* The file of a process goes only by a sweep, or the process comes to harm.
LEMMA OwnStays ==
    ASSUME TypeOK, OwnFiles, [Next]_vars, NEW p \in Procs, Cur(p) \in Folder,
           own'[p].file = Cur(p), pc'[p] # "off"
    PROVE  \/ Cur(p) \in DOMAIN files' \/ p \in harmed'
           \/ \E q \in Procs : sweep[q].judged = Cur(p)
<1> DEFINE Stays == \/ Cur(p) \in DOMAIN files' \/ p \in harmed'
                    \/ \E q \in Procs : sweep[q].judged = Cur(p)
<1>0. /\ pc \in [Procs -> Steps] /\ own \in [Procs -> Owns] /\ Cur(p) # NoName
  BY FolderAssumption DEF TypeOK
<1>1. ASSUME NEW gone, Folder \ gone \subseteq DOMAIN files', Cur(p) \notin gone
      PROVE  Stays
  BY <1>1
<1>2. ASSUME NEW q \in Procs, q # p PROVE Cur(p) \notin Left(q)
  BY <1>0, <1>2 DEF OwnFiles, Open, Left
<1>3. CASE files' = files
  BY <1>3 DEF Folder
<1>4. ASSUME NEW q, files' = Grown(q) PROVE Stays
  BY <1>4 DEF Grown
<1>5. ASSUME NEW q, NEW m, NEW t, NEW k, Make(q, m, t, k, {}) PROVE Stays
  BY <1>1, <1>5, MakeMoves
<1>6. ASSUME NEW q \in Procs, NEW m, NEW t, NEW k, Make(q, m, t, k, Left(q)) PROVE Stays
  <2>1. q # p
    BY <1>0, <1>6 DEF Make, Fresh
  <2> QED
    BY <1>1, <1>2, <1>6, <2>1, MakeMoves
<1>7. ASSUME NEW q \in Procs, files' = Without(Left(q)), q # p PROVE Stays
  BY <1>1, <1>2, <1>7, WithoutMoves
<1>8. ASSUME NEW q \in Procs, Acts(q) PROVE Stays
  <2>2. CASE OpenFirst(q)
    BY <1>5, <2>2 DEF OpenFirst
  <2>3. CASE TurnDay(q)
    BY <1>3, <1>6, <2>3 DEF TurnDay
  <2>4. CASE Unlink(q)
    BY <1>3, <2>4, WithoutMoves DEF Unlink
  <2>5. CASE Reopen(q)
    BY <1>3, <1>5, <2>5 DEF Reopen
  <2>6. CASE Attempt(q)
    BY <1>4, <2>6 DEF Attempt
  <2>7. CASE AttemptFails(q)
    BY <1>3, <1>4, <2>7 DEF AttemptFails
  <2>8. CASE AttemptDropped(q)
    <3>1. CASE q = p
      BY <2>8, <3>1 DEF AttemptDropped, Harm
    <3>2. CASE q # p
      BY <1>3, <1>4, <1>7, <2>8, <3>2 DEF AttemptDropped
    <3> QED
      BY <3>1, <3>2
  <2>9. CASE Close(q)
    <3>1. q # p
      BY <1>0, <2>9 DEF Close, Ends, Goto
    <3> QED
      BY <1>7, <2>9, <3>1 DEF Close
  <2> QED
    BY <1>3, <1>8, <2>2, <2>3, <2>4, <2>5, <2>6, <2>7, <2>8, <2>9
       DEF Acts, Step, Start, Begin, Crash, OpenFirstFails, SameDay, SweepBegin, Look,
           SweepStops, SweepEnd, Target, NoFile, Check
<1>9. CASE DeletedByHand
  <2>1. PICK n \in Folder : files' = Without({n})
                             /\ harmed' = harmed \cup {q \in Procs : Cur(q) = n}
    BY <1>9 DEF DeletedByHand
  <2>2. (\A m \in DOMAIN files' : Kept(m)) /\ Folder \ {n} \subseteq DOMAIN files'
    BY <2>1, WithoutMoves
  <2> QED
    BY <2>1, <2>2
<1>10. CASE TimePasses \/ UNCHANGED vars
  BY <1>3, <1>10 DEF TimePasses, vars
<1> QED
  BY <1>8, <1>9, <1>10 DEF Next, Acts

\* A file of today stays: what is judged is of an earlier day.
LEMMA HoldsOn ==
    ASSUME TypeOK, OwnFiles, SweptOld, [Next]_vars, NEW p \in Procs,
           p \notin harmed', pc'[p] # "off", own'[p] = own[p], Today' = Today, Holds(p)
    PROVE  Holds(p)'
<1>1. Cur(p) \in Folder /\ files[Cur(p)].day >= Today
  BY DEF Holds, OwnFiles
<1>2. files[Cur(p)].day \in Nat /\ Today \in Nat
  BY <1>1, TodayMoves DEF TypeOK, File
<1>3. \A q \in Procs : sweep[q].judged # Cur(p)
  BY <1>1, <1>2 DEF SweptOld
<1>4. Cur(p) \in DOMAIN files'
  BY <1>1, <1>3, OwnStays DEF Cur
<1> QED
  BY <1>4 DEF Holds, Cur, Folder

\* Someone else acts, or time passes.
LEMMA MineStays ==
    ASSUME TypeOK, Asked, OwnFiles, SweptOld, [Next]_vars, NEW p \in Procs, ~Acts(p),
           p \notin harmed', Mine(p)
    PROVE  Mine(p)'
<1>0. /\ pc'[p] = pc[p] /\ own'[p] = own[p] /\ call'[p] = call[p]
      /\ call[p].line \in raced' => call[p].line \in raced
      /\ pc[p] \notin {"off", "idle"} => Today' = Today
  BY OthersMove DEF InCall
<1>1. /\ Today \in Nat /\ Today' \in Nat /\ Today <= Today'
      /\ own[p].date \in Nat /\ own[p].tried \in Nat
  BY TodayMoves DEF TypeOK, Owns
<1>2. pc[p] \notin {"off", "idle"} => Stamp(p)' = Today'
  BY <1>0 DEF Mine, Stamp
<1>3. /\ pc[p] \notin {"off", "open"} =>
            own'[p].left = MaxReopens /\ own'[p].tried <= own'[p].date
      /\ pc[p] # "off" => call'[p].line \notin raced'
  BY <1>0 DEF Mine
<1>4. pc[p] \in {"idle", "day"} =>
        Cur(p)' \in DOMAIN files' \/ own'[p].date < Today' \/ MaxReopens = 0
  <2> SUFFICES ASSUME pc[p] \in {"idle", "day"}, own[p].date >= Today', MaxReopens # 0
               PROVE  Cur(p)' \in DOMAIN files'
    BY <1>0, <1>1
  <2>1. Holds(p)
    BY <1>1 DEF Mine, Holds
  <2>2. /\ files[Cur(p)].day \in Nat /\ files[Cur(p)].day >= Today /\ Cur(p) \in Folder
    BY <2>1 DEF Holds, OwnFiles, TypeOK, File
  <2>3. \A q \in Procs : sweep[q].judged # Cur(p)
    BY <1>1, <2>2 DEF SweptOld
  <2>4. Cur(p) \in DOMAIN files'
    BY <1>0, <2>2, <2>3, OwnStays DEF Cur
  <2> QED
    BY <1>0, <2>4 DEF Cur
<1>5. pc[p] \in {"sweep", "look", "unlink", "target"} =>
        Holds(p)' \/ (~Open(p)' /\ MaxReopens = 0)
  <2>1. CASE Holds(p)
    BY <1>0, <2>1, HoldsOn
  <2>2. CASE ~Open(p)
    <3>1. ~Holds(p)
      BY <2>2, FolderAssumption DEF Holds, Open, TypeOK
    <3> QED
      BY <1>0, <2>2, <3>1 DEF Mine, Open, Cur
  <2> QED
    BY <2>1, <2>2 DEF Mine
<1>6. pc[p] \in {"attempt", "check"} => Holds(p)'
  BY <1>0, HoldsOn DEF Mine
<1> QED
  BY <1>0, <1>2, <1>3, <1>4, <1>5, <1>6 DEF Mine, Folder

\* What each act of an unharmed process does to it.
LEMMA MineActs ==
    ASSUME TypeOK, Asked, OwnFiles, SweptOld, RacedAsked, Next, NEW p \in Procs, Acts(p),
           p \notin harmed', p \notin harmed => Mine(p)
    PROVE  Mine(p)'
<1> USE DEF fate
<1>0. /\ pc \in [Procs -> Steps] /\ call \in [Procs -> Calls] /\ own \in [Procs -> Owns]
      /\ own[p].date \in Nat /\ own[p].tried \in Nat /\ own[p].left \in 0 .. MaxReopens
      /\ raced \subseteq Lines /\ Today \in Nat /\ NoName \notin Folder
      /\ Folder \subseteq Names
  BY TodayMoves, FolderAssumption DEF TypeOK, Owns
<1>a. Today' = Today
  BY DEF Acts, Today, DayOf, Step, Start, Begin, OpenFirst, OpenFirstFails, SameDay,
     TurnDay, SweepBegin, Look, Unlink, SweepStops, SweepEnd, Target, Reopen, NoFile,
     Attempt, AttemptFails, AttemptDropped, Check, Close, Crash
<1>1. CASE OpenFirstFails(p) \/ Close(p) \/ Crash(p)
  <2>1. pc'[p] = "off"
    BY <1>0, <1>1 DEF OpenFirstFails, Close, Crash, Ends, Goto
  <2> QED
    BY <2>1 DEF Mine
<1>2. CASE Start(p)
  <2>1. /\ pc'[p] = "open" /\ call'[p].stamp = Today /\ call'[p].line = NoLine
        /\ raced' = raced
    BY <1>0, <1>2 DEF Start, Goto, NoCall
  <2> QED
    BY <1>0, <1>a, <2>1, FolderAssumption, NoLineAssumption DEF Mine, Stamp
<1>3. CASE AttemptFails(p) \/ AttemptDropped(p)
  BY <1>3 DEF AttemptFails, AttemptDropped, Harm
<1>b. CASE p \in harmed
  BY <1>b, <1>1, <1>2 DEF Acts, Step, Begin, OpenFirst, SameDay,
     TurnDay, SweepBegin, Look, Unlink, SweepStops, SweepEnd, Target, Reopen, NoFile,
     Attempt, AttemptFails, AttemptDropped, Check, Harm
<1>c. CASE Mine(p) /\ Begin(p)
  <2>1. /\ pc[p] = "idle" /\ pc'[p] = "day" /\ own' = own /\ files' = files
        /\ raced' = raced
    BY <1>0, <1>c DEF Begin, Goto
  <2>2. call'[p].stamp = Today /\ call'[p].line \notin raced
    <3>1. CASE \E o \in {"ready", "tick"} :
                 call' = [call EXCEPT ![p] = [NoCall EXCEPT !.op = o, !.stamp = Today]]
      BY <1>0, <3>1, FolderAssumption, NoLineAssumption DEF NoCall
    <3>2. CASE \E l \in Lines : /\ told[l] = "none"
                                /\ call' = [call EXCEPT ![p] =
                                     [NoCall EXCEPT !.op = "write", !.line = l,
                                                    !.stamp = Today]]
      BY <1>0, <3>2 DEF NoCall, RacedAsked
    <3> QED
      BY <1>c, <3>1, <3>2 DEF Begin
  <2> QED
    BY <1>a, <1>c, <2>1, <2>2 DEF Mine, Stamp, Cur, Folder
<1>4. CASE Mine(p) /\ OpenFirst(p)
  <2>1. PICK n \in Names : Make(p, n, 0, MaxReopens, {})
    BY <1>4 DEF OpenFirst
  <2>2. /\ pc[p] = "open" /\ pc'[p] = "sweep" /\ call' = call /\ raced' = raced
        /\ Stamp(p) = Today
    BY <1>0, <1>4 DEF OpenFirst, Goto, Mine
  <2>3. own'[p] = [file |-> n, date |-> Today, tried |-> 0, left |-> MaxReopens]
    BY <1>0, <2>1, <2>2 DEF Make
  <2>4. n \in DOMAIN files'
    BY <2>1 DEF Make
  <2>5. call[p].line \notin raced
    BY <1>4, <2>2 DEF Mine
  <2> QED
    BY <1>0, <1>a, <2>2, <2>3, <2>4, <2>5 DEF Mine, Holds, Stamp, Cur, Folder
<1>5. CASE Mine(p) /\ SameDay(p)
  <2>1. /\ pc[p] = "day" /\ pc'[p] = "target" /\ call' = call /\ raced' = raced
        /\ files' = files /\ ~Turns(p)
        /\ own'[p] = [own[p] EXCEPT !.file = Verified(p)]
    BY <1>0, <1>5 DEF SameDay, Goto
  <2>2. /\ own'[p].file = Verified(p) /\ own'[p].date = own[p].date
        /\ own'[p].tried = own[p].tried /\ own'[p].left = own[p].left
    BY <1>0, <2>1 DEF Owns
  <2>3. /\ Stamp(p) = Today /\ own[p].left = MaxReopens /\ own[p].tried <= own[p].date
        /\ call[p].line \notin raced
        /\ Cur(p) \in Folder \/ own[p].date < Today \/ MaxReopens = 0
    BY <1>5, <2>1 DEF Mine
  <2>4. own[p].date >= Today \/ (Verified(p) = NoName /\ MaxReopens = 0)
    BY <1>0, <2>1, <2>3, FolderAssumption DEF Turns
  <2>5. \/ Verified(p) \in Folder /\ own[p].date >= Today
        \/ Verified(p) = NoName /\ MaxReopens = 0
    BY <1>0, <2>3, <2>4 DEF Verified
  <2> QED
    BY <1>0, <1>a, <2>1, <2>2, <2>3, <2>5 DEF Mine, Holds, Open, Stamp, Cur, Folder
<1>6. CASE Mine(p) /\ TurnDay(p)
  <2>1. /\ pc[p] = "day" /\ pc'[p] = "sweep" /\ raced' = raced
        /\ call'[p].stamp = call[p].stamp /\ call'[p].line = call[p].line
    BY <1>0, <1>6 DEF TurnDay, Goto, Calls
  <2>2. PICK n \in Names : Make(p, n, Stamp(p), own[p].left, Left(p))
    BY <1>6 DEF TurnDay, Harm
  <2>3. Stamp(p) = Today /\ own[p].left = MaxReopens /\ call[p].line \notin raced
    BY <1>6, <2>1 DEF Mine
  <2>4. own'[p] = [file |-> n, date |-> Today, tried |-> Today, left |-> MaxReopens]
    BY <1>0, <2>2, <2>3 DEF Make
  <2>5. n \in DOMAIN files'
    BY <2>2 DEF Make
  <2> QED
    BY <1>0, <1>a, <2>1, <2>3, <2>4, <2>5 DEF Mine, Holds, Stamp, Cur, Folder
<1>7. CASE /\ Mine(p)
           /\ SweepBegin(p) \/ Look(p) \/ Unlink(p) \/ SweepStops(p) \/ SweepEnd(p)
  <2>1. /\ pc[p] \in {"sweep", "look", "unlink"} /\ pc'[p] \in {"look", "unlink", "target"}
        /\ own' = own /\ call' = call /\ raced' = raced
    BY <1>0, <1>7 DEF SweepBegin, Look, Unlink, SweepStops, SweepEnd, Goto
  <2>2. Holds(p) => Holds(p)'
    BY <1>a, <2>1, HoldsOn
  <2> QED
    BY <1>a, <1>7, <2>1, <2>2 DEF Mine, Stamp, Cur, Open
<1>8. CASE Mine(p) /\ Target(p)
  <2>1. pc[p] = "target" /\ own' = own /\ files' = files /\ raced' = raced
    BY <1>8 DEF Target
  <2>2. /\ Stamp(p) = Today /\ own[p].left = MaxReopens /\ own[p].tried <= own[p].date
        /\ call[p].line \notin raced
        /\ Holds(p) \/ (~Open(p) /\ MaxReopens = 0)
    BY <1>8, <2>1 DEF Mine
  <2>3. CASE call[p].op = "write"
    <3>1. pc'[p] = "attempt" /\ call' = call /\ Open(p)
      BY <1>0, <1>8, <2>3 DEF Target, Goto
    <3> QED
      BY <1>a, <2>1, <2>2, <3>1 DEF Mine, Holds, Stamp, Cur, Folder
  <2>4. CASE call[p].op # "write"
    <3>1. pc'[p] = "idle" /\ call'[p].line = NoLine
      BY <1>0, <1>8, <2>4 DEF Target, Return, Goto, NoCall
    <3> QED
      BY <1>0, <1>a, <2>1, <2>2, <3>1, FolderAssumption, NoLineAssumption
         DEF Mine, Holds, Cur, Folder
  <2> QED
    BY <2>3, <2>4
<1>9. CASE Mine(p) /\ (Reopen(p) \/ NoFile(p))
  <2>1. pc[p] = "target" /\ ~Open(p) /\ raced' = raced
    BY <1>9 DEF Reopen, NoFile, MayReopen, NeedsFile
  <2>2. ~Holds(p)
    BY <1>0, <2>1 DEF Holds, Open
  <2>3. MaxReopens = 0 /\ own[p].left = 0 /\ own[p].tried <= own[p].date
    BY <1>9, <2>1, <2>2 DEF Mine
  <2>4. NoFile(p)
    BY <1>9, <2>3 DEF Reopen, MayReopen
  <2>5. /\ pc'[p] = "idle" /\ call'[p].line = NoLine /\ own' = own
    BY <1>0, <2>4 DEF NoFile, Tell, Return, Goto, NoCall
  <2> QED
    BY <1>0, <2>1, <2>3, <2>5, FolderAssumption, NoLineAssumption DEF Mine
<1>10. CASE Mine(p) /\ Attempt(p)
  <2>1. /\ pc[p] = "attempt" /\ pc'[p] = "check" /\ own' = own /\ call' = call
    BY <1>0, <1>10 DEF Attempt, Goto
  <2>2. /\ Stamp(p) = Today /\ own[p].left = MaxReopens /\ own[p].tried <= own[p].date
        /\ call[p].line \notin raced /\ Holds(p)
    BY <1>10, <2>1 DEF Mine
  <2>3. Cur(p) \in Folder /\ files[Cur(p)].day >= Today /\ files[Cur(p)].day \in Nat
    BY <2>2 DEF Holds, OwnFiles, TypeOK, File
  <2>4. \A q \in Procs : sweep[q].judged # Cur(p)
    BY <1>0, <2>3 DEF SweptOld
  <2>5. raced' = raced
    BY <1>10, <2>4 DEF Attempt
  <2>6. Holds(p)'
    BY <1>a, <2>1, <2>2, HoldsOn
  <2> QED
    BY <1>a, <2>1, <2>2, <2>5, <2>6 DEF Mine, Stamp
<1>11. CASE Mine(p) /\ Check(p)
  <2>1. pc[p] = "check" /\ raced' = raced /\ files' = files
    BY <1>11 DEF Check
  <2>2. /\ own[p].left = MaxReopens /\ own[p].tried <= own[p].date
        /\ Cur(p) \in Folder
    BY <1>11, <2>1 DEF Mine, Holds
  <2>3. pc'[p] = "idle" /\ call'[p].line = NoLine /\ own' = own
    BY <1>0, <1>11, <2>2 DEF Check, Tell, Return, Goto, NoCall
  <2> QED
    BY <1>0, <2>1, <2>2, <2>3, FolderAssumption, NoLineAssumption DEF Mine, Cur, Folder
<1> QED
  BY <1>1, <1>2, <1>3, <1>b, <1>c, <1>4, <1>5, <1>6, <1>7, <1>8, <1>9, <1>10, <1>11
     DEF Acts, Step

LEMMA FreeNext == IInv /\ FreeInv /\ [Next]_vars => FreeInv'
<1> SUFFICES ASSUME IInv, FreeInv, [Next]_vars PROVE FreeInv'
  OBVIOUS
<1>1. TypeOK /\ Asked /\ OwnFiles /\ SweptOld /\ RacedAsked
  BY DEF IInv, FreeInv
<1>2. ASSUME NEW p \in Procs, p \notin harmed' PROVE Mine(p)'
  <2>1. CASE Acts(p)
    BY <1>1, <1>2, <2>1, MineActs DEF FreeInv, Unharmed, Next, Acts
  <2>2. CASE ~Acts(p)
    BY <1>1, <1>2, <2>2, MineStays, OthersMove DEF FreeInv, Unharmed
  <2> QED
    BY <2>1, <2>2
<1> QED
  BY <1>1, <1>2, OwnFilesNext, SweptOldNext, RacedAskedNext DEF FreeInv, Unharmed

\* However many processes sweep the same folder, in whatever order: one that met
\* no failure, no hand and no midnight within a call loses no line and no try to
\* the sweeps of the others.
THEOREM SweepsAreFree == Spec => []SweepsCostNothing
<1>1. Init => IInv /\ FreeInv
  BY IInvInit, FreeInit
<1>2. IInv /\ FreeInv /\ [Next]_vars => (IInv /\ FreeInv)'
  BY IInvNext, FreeNext
<1>3. FreeInv => SweepsCostNothing
  BY DEF FreeInv, Unharmed, Mine, Holds, SweepsCostNothing
<1> QED
  BY <1>1, <1>2, <1>3, PTL DEF Spec

-----------------------------------------------------------------------------
(* What the check finds in a file.                                         *)

\* A set that has 0 and with each number the next has them all.
LEMMA EveryNumber ==
    ASSUME NEW T \in SUBSET Nat, 0 \in T, \A k \in T : k + 1 \in T
    PROVE  T = Nat
<1> SUFFICES ASSUME Nat \ T # {} PROVE FALSE
  OBVIOUS
<1>1. PICK m \in Nat \ T : \A k \in Nat \ T : ~ (<<k, m>> \in OpToRel(<, Nat))
  BY NatLessThanWellFounded, WFMin
<1>2. m # 0 /\ m - 1 \in Nat
  OBVIOUS
<1>3. <<m - 1, m>> \in OpToRel(<, Nat)
  BY <1>2 DEF OpToRel
<1>4. m - 1 \in T
  BY <1>1, <1>2, <1>3
<1> QED
  BY <1>2, <1>4

\* The check of a file goes from state to state.
LEMMA ReadingSteps ==
    ASSUME NEW n, NEW lines, Len(lines) \in Nat, NEW anchors
    PROVE  /\ Reading(n, lines, anchors)[0] = Opened(n)
           /\ \A i \in 1 .. Len(lines) :
                Reading(n, lines, anchors)[i] =
                    CheckLine(Reading(n, lines, anchors)[i - 1], lines[i], anchors)
<1> DEFINE Reads(s, j) ==
             s = [i \in 0 .. j |->
                    IF i = 0 THEN Opened(n) ELSE CheckLine(s[i - 1], lines[i], anchors)]
           T == {j \in Nat : \E s : Reads(s, j)}
<1>1. 0 \in T
  <2> DEFINE s == [i \in 0 .. 0 |-> Opened(n)]
  <2>1. Reads(s, 0)
    OBVIOUS
  <2> QED
    BY <2>1
<1>2. ASSUME NEW k \in T PROVE k + 1 \in T
  <2>1. PICK s : Reads(s, k)
    BY <1>2
  <2> DEFINE t == [i \in 0 .. k + 1 |->
                     IF i = k + 1 THEN CheckLine(s[k], lines[k + 1], anchors) ELSE s[i]]
  <2>2. \A i \in 0 .. k : t[i] = s[i]
    OBVIOUS
  <2>3. ASSUME NEW i \in 0 .. k + 1
        PROVE  t[i] = IF i = 0 THEN Opened(n) ELSE CheckLine(t[i - 1], lines[i], anchors)
    <3>1. CASE i = k + 1
      BY <2>2, <3>1
    <3>2. CASE i # k + 1
      <4>1. i \in 0 .. k /\ t[i] = s[i]
        BY <3>2
      <4>2. s[i] = IF i = 0 THEN Opened(n) ELSE CheckLine(s[i - 1], lines[i], anchors)
        BY <2>1, <4>1, Zenon
      <4>3. i # 0 => t[i - 1] = s[i - 1]
        BY <2>2, <4>1
      <4> QED
        BY <4>1, <4>2, <4>3
    <3> QED
      BY <3>1, <3>2
  <2> HIDE DEF t
  <2>4. Reads(t, k + 1)
    BY <2>3 DEF t
  <2>5. k + 1 \in Nat
    BY <1>2
  <2> QED
    BY <2>4, <2>5
<1>3. T = Nat
  <2> HIDE DEF T
  <2>1. T \in SUBSET Nat
    BY DEF T
  <2> QED
    BY <1>1, <1>2, <2>1, EveryNumber
<1>4. \E s : Reads(s, Len(lines))
  BY <1>3
<1>5. Reads(Reading(n, lines, anchors), Len(lines))
  BY <1>4, Zenon DEF Reading
<1> DEFINE r == Reading(n, lines, anchors)
<1> HIDE DEF r
<1>6. Reads(r, Len(lines))
  BY <1>5 DEF r
<1>7. ASSUME NEW i \in 0 .. Len(lines)
      PROVE  r[i] = IF i = 0 THEN Opened(n) ELSE CheckLine(r[i - 1], lines[i], anchors)
  BY <1>6, Zenon
<1>8. r[0] = Opened(n)
  BY <1>7
<1>9. ASSUME NEW i \in 1 .. Len(lines) PROVE r[i] = CheckLine(r[i - 1], lines[i], anchors)
  <2>1. i \in 0 .. Len(lines) /\ i # 0
    OBVIOUS
  <2> QED
    BY <1>7, <2>1
<1> QED
  BY <1>8, <1>9 DEF r

LEMMA ReadingOpens ==
    ASSUME NEW n, NEW lines, Len(lines) \in Nat, NEW anchors
    PROVE  Reading(n, lines, anchors)[0] = Opened(n)
BY ReadingSteps

LEMMA ReadingGoesOn ==
    ASSUME NEW n, NEW lines, Len(lines) \in Nat, NEW anchors, NEW i \in 1 .. Len(lines)
    PROVE  Reading(n, lines, anchors)[i] =
             CheckLine(Reading(n, lines, anchors)[i - 1], lines[i], anchors)
BY ReadingSteps

\* The line before a line, as its hash has it.
Before(n, lines, i) == IF i = 1 THEN NameHash(n) ELSE lines[i - 1]

\* The lines of a file in the chain of its name.
Chain(n, lines) ==
    \A i \in 1 .. Len(lines) :
        lines[i] # Broken /\ lines[i].seq = i /\ lines[i].prev = Before(n, lines, i)

\* The check always compares with the line before.
LEMMA ChecksAgainst ==
    ASSUME NEW n, NEW lines, Len(lines) \in Nat, NEW anchors, NEW i \in 1 .. Len(lines)
    PROVE  Reading(n, lines, anchors)[i - 1].previous = Before(n, lines, i)
<1> DEFINE r == Reading(n, lines, anchors)
<1>1. r[0] = Opened(n)
  BY ReadingOpens
<1>2. \A j \in 1 .. Len(lines) : r[j] = CheckLine(r[j - 1], lines[j], anchors)
  BY ReadingGoesOn
<1> HIDE DEF r
<1>3. Opened(n).previous = NameHash(n)
  BY DEF Opened
<1>4. \A x, e : CheckLine(x, e, anchors).previous = e
  BY DEF CheckLine
<1>5. CASE i = 1
  <2>1. i - 1 = 0
    BY <1>5
  <2> QED
    BY <1>1, <1>3, <1>5, <2>1, Zenon DEF Before, r
<1>6. CASE i # 1
  <2>1. i - 1 \in 1 .. Len(lines)
    BY <1>6
  <2>2. r[i - 1] = CheckLine(r[i - 1 - 1], lines[i - 1], anchors)
    BY <1>2, <2>1
  <2>3. r[i - 1].previous = Before(n, lines, i)
    BY <1>4, <1>6, <2>2 DEF Before
  <2> QED
    BY <2>3 DEF r
<1> QED
  BY <1>5, <1>6, Zenon

\* What was found stays found.
LEMMA FoundStays ==
    ASSUME NEW n, NEW lines, Len(lines) \in Nat, NEW anchors, NEW i \in 0 .. Len(lines)
    PROVE  Reading(n, lines, anchors)[i].found \subseteq Read(n, lines, anchors).found
<1> DEFINE s == Reading(n, lines, anchors)
           T == {k \in Nat : i + k <= Len(lines) => s[i].found \subseteq s[i + k].found}
<1>1. ASSUME NEW j \in 1 .. Len(lines) PROVE s[j] = CheckLine(s[j - 1], lines[j], anchors)
  BY ReadingGoesOn
<1>6. Read(n, lines, anchors) = s[Len(lines)]
  BY DEF Read
<1> HIDE DEF s
<1>2. 0 \in T
  OBVIOUS
<1>3. ASSUME NEW k \in T PROVE k + 1 \in T
  <2>1. SUFFICES ASSUME i + (k + 1) <= Len(lines)
                 PROVE  s[i].found \subseteq s[i + (k + 1)].found
    OBVIOUS
  <2>2. i + (k + 1) \in 1 .. Len(lines) /\ i + (k + 1) - 1 = i + k
    BY <2>1
  <2>3. s[i + (k + 1)] = CheckLine(s[i + k], lines[i + (k + 1)], anchors)
    BY <1>1, <2>2
  <2>4. s[i + k].found \subseteq s[i + (k + 1)].found
    BY <2>3 DEF CheckLine
  <2>5. s[i].found \subseteq s[i + k].found
    BY <2>1
  <2> QED
    BY <2>4, <2>5
<1>4. T = Nat
  <2> HIDE DEF T
  <2>1. T \in SUBSET Nat
    BY DEF T
  <2> QED
    BY <1>2, <1>3, <2>1, EveryNumber
<1>5. Len(lines) - i \in T /\ i + (Len(lines) - i) = Len(lines)
  <2> Len(lines) - i \in Nat /\ i + (Len(lines) - i) = Len(lines)
    OBVIOUS
  <2> QED
    BY <1>4
<1> QED
  BY <1>5, <1>6 DEF s

\* A file in which the check of the lines finds nothing is in the chain of its
\* name.
LEMMA CleanIsChain ==
    ASSUME NEW n, NEW lines, Len(lines) \in Nat, NEW anchors,
           Read(n, lines, anchors).found = {}
    PROVE  Chain(n, lines)
<1> DEFINE s == Reading(n, lines, anchors)
           T == {k \in Nat : k + 1 <= Len(lines) => lines[k + 1].seq = k + 1}
<1>0. \A i \in 1 .. Len(lines) : s[i] = CheckLine(s[i - 1], lines[i], anchors)
  BY ReadingGoesOn
<1>1. ASSUME NEW i \in 1 .. Len(lines)
      PROVE  /\ lines[i] # Broken /\ lines[i].prev = Before(n, lines, i)
             /\ lines[i].seq = s[i - 1].expected
  <2>1. s[i] = CheckLine(s[i - 1], lines[i], anchors)
    BY ReadingGoesOn
  <2>2. s[i].found = {}
    BY FoundStays
  <2>3. LineFindings(s[i - 1], lines[i]) = {}
    BY <2>1, <2>2 DEF CheckLine
  <2> QED
    BY <2>3, ChecksAgainst DEF LineFindings
<1>2. 0 \in T
  <2>1. s[0] = Opened(n)
    BY ReadingOpens
  <2>2. 1 <= Len(lines) => lines[1].seq = 1
    <3>1. SUFFICES ASSUME 1 <= Len(lines) PROVE lines[1].seq = 1
      OBVIOUS
    <3>2. 1 \in 1 .. Len(lines) /\ 1 - 1 = 0
      BY <3>1
    <3>3. lines[1].seq = s[1 - 1].expected
      BY <1>1, <3>2
    <3> QED
      BY <2>1, <3>2, <3>3 DEF Opened
  <2> QED
    BY <2>2
<1>3. ASSUME NEW k \in T PROVE k + 1 \in T
  <2>1. SUFFICES ASSUME k + 1 + 1 <= Len(lines)
                 PROVE  lines[k + 1 + 1].seq = k + 1 + 1
    OBVIOUS
  <2>2. /\ k + 1 \in 1 .. Len(lines) /\ k + 1 + 1 \in 1 .. Len(lines)
        /\ k + 1 + 1 - 1 = k + 1
    BY <2>1
  <2>3. s[k + 1] = CheckLine(s[k + 1 - 1], lines[k + 1], anchors)
    BY <1>0, <2>2
  <2>4. lines[k + 1] # Broken /\ lines[k + 1 + 1].seq = s[k + 1].expected
    BY <1>1, <2>2
  <2>5. s[k + 1].expected = lines[k + 1].seq + 1
    BY <2>3, <2>4 DEF CheckLine
  <2>6. lines[k + 1].seq = k + 1
    BY <2>1
  <2> QED
    BY <2>4, <2>5, <2>6
<1>4. T = Nat
  <2> HIDE DEF T
  <2>1. T \in SUBSET Nat
    BY DEF T
  <2> QED
    BY <1>2, <1>3, <2>1, EveryNumber
<1>5. ASSUME NEW i \in 1 .. Len(lines) PROVE lines[i].seq = i
  <2>0. i - 1 \in Nat /\ i - 1 + 1 = i
    OBVIOUS
  <2>1. i - 1 \in T
    BY <1>4, <2>0
  <2> QED
    BY <2>0, <2>1
<1> QED
  BY <1>1, <1>5 DEF Chain

\* In a chain the check finds nothing, and comes upon the first line with the
\* number of an anchor.
LEMMA ChainIsClean ==
    ASSUME NEW n, NEW lines, Len(lines) \in Nat, NEW anchors, Chain(n, lines),
           NEW i \in 0 .. Len(lines)
    PROVE  /\ Reading(n, lines, anchors)[i].found = {}
           /\ Reading(n, lines, anchors)[i].expected = i + 1
           /\ (\A a \in anchors, j \in 1 .. i : a.seq # j) =>
                Reading(n, lines, anchors)[i].atAnchor = {}
<1> DEFINE s == Reading(n, lines, anchors)
           Clean(j) ==
             /\ s[j].found = {} /\ s[j].expected = j + 1
             /\ (\A a \in anchors, m \in 1 .. j : a.seq # m) => s[j].atAnchor = {}
           T == {k \in Nat : k <= Len(lines) => Clean(k)}
<1>0. /\ \A j \in 1 .. Len(lines) : s[j] = CheckLine(s[j - 1], lines[j], anchors)
      /\ \A j \in 1 .. Len(lines) : s[j - 1].previous = Before(n, lines, j)
  BY ReadingGoesOn, ChecksAgainst
<1>1. s[0] = Opened(n)
  BY ReadingOpens
<1>2. 0 \in T
  BY <1>1 DEF Opened
<1>3. ASSUME NEW k \in T PROVE k + 1 \in T
  <2>1. SUFFICES ASSUME k + 1 <= Len(lines) PROVE Clean(k + 1)
    OBVIOUS
  <2>2. k + 1 \in 1 .. Len(lines) /\ k + 1 - 1 = k
    BY <2>1
  <2>3. s[k + 1] = CheckLine(s[k], lines[k + 1], anchors)
    <3>1. s[k + 1] = CheckLine(s[k + 1 - 1], lines[k + 1], anchors)
      BY <1>0, <2>2
    <3> QED
      BY <2>2, <3>1
  <2>4. Clean(k)
    BY <2>1
  <2>5. /\ lines[k + 1] # Broken /\ lines[k + 1].seq = k + 1
        /\ lines[k + 1].prev = s[k].previous
    <3>1. s[k + 1 - 1].previous = Before(n, lines, k + 1)
      BY <1>0, <2>2
    <3> QED
      BY <2>2, <3>1 DEF Chain
  <2> HIDE DEF s
  <2>6. LineFindings(s[k], lines[k + 1]) = {}
    BY <2>4, <2>5 DEF LineFindings
  <2>7. s[k + 1].found = {} /\ s[k + 1].expected = k + 1 + 1
    BY <2>3, <2>4, <2>5, <2>6 DEF CheckLine
  <2>8. ASSUME \A a \in anchors, m \in 1 .. k + 1 : a.seq # m
        PROVE  s[k + 1].atAnchor = {}
    <3>1. s[k].atAnchor = {}
      BY <2>4, <2>8
    <3>2. ~ \E a \in anchors : a.seq = lines[k + 1].seq
      BY <2>5, <2>8
    <3> QED
      BY <2>3, <3>1, <3>2 DEF CheckLine
  <2> QED
    BY <2>7, <2>8
<1>4. T = Nat
  <2> HIDE DEF T
  <2>1. T \in SUBSET Nat
    BY DEF T
  <2> QED
    BY <1>2, <1>3, <2>1, EveryNumber
<1>5. i \in T
  BY <1>4
<1> QED
  BY <1>5

\* What a file without findings shows: it is a chain, and ends with the line
\* of each of its anchors.
LEMMA NoFindings ==
    ASSUME NEW n, NEW lines, Len(lines) \in Nat, NEW logged,
           FindingsOf(n, lines, logged) = {}
    PROVE  /\ Chain(n, lines)
           /\ \A a \in logged : a.file = n => a.hash = Before(n, lines, Len(lines) + 1)
<1> DEFINE anchors == AnchorsOf(n, logged)
           s == Read(n, lines, anchors)
<1>0. FindingsOf(n, lines, logged) =
        s.found \cup (UNION {CompareAnchor(s, a) : a \in anchors})
                \cup (IF n \in Conflicts(logged) THEN {"anchor_conflict"} ELSE {})
  BY DEF FindingsOf
<1>1. /\ s.found = {}
      /\ \A a \in anchors : CompareAnchor(s, a) = {}
      /\ n \notin Conflicts(logged)
  <2> HIDE DEF anchors, s
  <2>0. FindingsOf(n, lines, logged) = {}
    OBVIOUS
  <2>1. /\ s.found = {} /\ UNION {CompareAnchor(s, a) : a \in anchors} = {}
        /\ (IF n \in Conflicts(logged) THEN {"anchor_conflict"} ELSE {}) = {}
    <3>1. ASSUME NEW A, NEW B, NEW C, A \cup B \cup C = {}
          PROVE  A = {} /\ B = {} /\ C = {}
      BY <3>1
    <3> QED
      BY <1>0, <2>0, <3>1
  <2>2. \A a \in anchors : CompareAnchor(s, a) = {}
    BY <2>1, Zenon
  <2> QED
    BY <2>1, <2>2
<1>2. Chain(n, lines)
  BY <1>1, CleanIsChain
<1>3. s.previous = Before(n, lines, Len(lines) + 1)
  <2>1. s = Reading(n, lines, anchors)[Len(lines)]
    BY DEF Read
  <2>2. CASE Len(lines) = 0
    <3>1. Reading(n, lines, anchors)[0] = Opened(n)
      BY ReadingOpens
    <3> QED
      BY <2>1, <2>2, <3>1 DEF Opened, Before
  <2>3. CASE Len(lines) # 0
    <3>1. Len(lines) \in 1 .. Len(lines)
      BY <2>3
    <3>2. s = CheckLine(Reading(n, lines, anchors)[Len(lines) - 1],
                        lines[Len(lines)], anchors)
      BY <2>1, <3>1, ReadingGoesOn
    <3>3. s.previous = lines[Len(lines)]
      <4> HIDE DEF s
      <4> QED
        BY <3>2 DEF CheckLine
    <3>4. Len(lines) + 1 # 1 /\ Len(lines) + 1 - 1 = Len(lines)
      BY <2>3
    <3> QED
      BY <3>3, <3>4 DEF Before
  <2> QED
    BY <2>2, <2>3
<1> HIDE DEF s
<1>4. ASSUME NEW a \in logged, a.file = n PROVE a.hash = s.previous
  <2>1. a \in anchors
    BY <1>1, <1>4 DEF AnchorsOf
  <2>2. CompareAnchor(s, a) = {}
    BY <1>1, <2>1
  <2> QED
    BY <2>2 DEF CompareAnchor
<1> QED
  BY <1>2, <1>3, <1>4

\* In a chain whose one anchor is of its last line, nothing is found.
LEMMA ChainShowsNothing ==
    ASSUME NEW n, NEW lines, Len(lines) \in Nat, NEW logged, Chain(n, lines),
           \A a, b \in logged : a.file = n /\ b.file = n => a = b,
           \A a \in logged : a.file = n =>
             a.seq = Len(lines) /\ Len(lines) # 0 /\ a.hash = lines[Len(lines)]
    PROVE  FindingsOf(n, lines, logged) = {}
<1> DEFINE anchors == AnchorsOf(n, logged)
           s == Read(n, lines, anchors)
<1>1. n \notin Conflicts(logged)
  BY DEF Conflicts
<1>2. s = Reading(n, lines, anchors)[Len(lines)]
  BY DEF Read
<1>3. s.found = {}
  <2>1. Len(lines) \in 0 .. Len(lines)
    OBVIOUS
  <2> QED
    BY <1>2, <2>1, ChainIsClean
<1>4. ASSUME NEW a \in anchors PROVE CompareAnchor(s, a) = {}
  <2>1. /\ a.file = n /\ a.seq = Len(lines) /\ a.hash = lines[Len(lines)]
        /\ Len(lines) \in 1 .. Len(lines) /\ Len(lines) - 1 \in 0 .. Len(lines)
        /\ \A b \in anchors : b = a
    BY <1>1, <1>4 DEF AnchorsOf
  <2> DEFINE r == Reading(n, lines, anchors)[Len(lines) - 1]
  <2>2. s = CheckLine(r, lines[Len(lines)], anchors)
    BY <1>2, <2>1, ReadingGoesOn
  <2>3. r.atAnchor = {}
    <3>1. \A b \in anchors, j \in 1 .. Len(lines) - 1 : b.seq # j
      BY <2>1
    <3> QED
      BY <2>1, <3>1, ChainIsClean
  <2>4. lines[Len(lines)] # Broken /\ lines[Len(lines)].seq = a.seq
    BY <2>1 DEF Chain
  <2> HIDE DEF s, r
  <2>5. s.atAnchor = {a.hash} /\ s.previous = a.hash
    BY <2>1, <2>2, <2>3, <2>4 DEF CheckLine
  <2> QED
    BY <2>5 DEF CompareAnchor
<1> HIDE DEF s
<1>5. UNION {CompareAnchor(s, a) : a \in anchors} = {}
  BY <1>4
<1> QED
  BY <1>1, <1>3, <1>5 DEF FindingsOf, s

-----------------------------------------------------------------------------
(* Sequences of whatever values.                                           *)

IsSeq(s) == s \in Seq(Range(s))

LEMMA SeqIs ==
    ASSUME NEW s, IsSeq(s)
    PROVE  Len(s) \in Nat /\ DOMAIN s = 1 .. Len(s) /\ s = [i \in 1 .. Len(s) |-> s[i]]
BY LenProperties DEF IsSeq

LEMMA SameSeq ==
    ASSUME NEW s, IsSeq(s), NEW t, IsSeq(t), Len(s) = Len(t),
           \A i \in 1 .. Len(s) : s[i] = t[i]
    PROVE  s = t
BY SeqIs

LEMMA SomeSeqIs ==
    ASSUME NEW S, NEW s \in Seq(S)
    PROVE  IsSeq(s)
BY SeqOfRange DEF IsSeq

LEMMA EmptyIs == IsSeq(<<>>) /\ Len(<<>>) = 0
<1>1. <<>> \in Seq({})
  BY EmptySeq
<1> QED
  BY <1>1, EmptySeq, SomeSeqIs

LEMMA NotEmpty ==
    ASSUME NEW s, IsSeq(s), s # <<>>
    PROVE  Len(s) \in Nat \ {0}
BY EmptySeq DEF IsSeq

\* A sequence with one more value, with another value, and its beginning.
LEMMA AppendIs ==
    ASSUME NEW s, IsSeq(s), NEW e
    PROVE  /\ IsSeq(Append(s, e)) /\ Len(Append(s, e)) = Len(s) + 1
           /\ \A i \in 1 .. Len(s) : Append(s, e)[i] = s[i]
           /\ Append(s, e)[Len(s) + 1] = e
<1> DEFINE S == Range(s) \cup {e}
<1>1. s \in Seq(S) /\ e \in S
  BY SeqMonotonic DEF IsSeq
<1> HIDE DEF S
<1>2. /\ Append(s, e) \in Seq(S) /\ Len(Append(s, e)) = Len(s) + 1
      /\ \A i \in 1 .. Len(s) : Append(s, e)[i] = s[i]
      /\ Append(s, e)[Len(s) + 1] = e
  BY <1>1, AppendProperties
<1>3. IsSeq(Append(s, e))
  BY <1>2, SomeSeqIs
<1> QED
  BY <1>2, <1>3

LEMMA ReplacedIs ==
    ASSUME NEW s, IsSeq(s), NEW i \in 1 .. Len(s), NEW e
    PROVE  /\ IsSeq([s EXCEPT ![i] = e]) /\ Len([s EXCEPT ![i] = e]) = Len(s)
           /\ [s EXCEPT ![i] = e][i] = e
           /\ \A j \in 1 .. Len(s) : j # i => [s EXCEPT ![i] = e][j] = s[j]
<1> DEFINE S == Range(s) \cup {e}
<1>1. s \in Seq(S) /\ e \in S
  BY SeqMonotonic DEF IsSeq
<1> HIDE DEF S
<1>2. [s EXCEPT ![i] = e] \in Seq(S) /\ Len([s EXCEPT ![i] = e]) = Len(s)
  BY <1>1, ExceptSeq
<1>3. IsSeq([s EXCEPT ![i] = e])
  BY <1>2, SomeSeqIs
<1>4. i \in DOMAIN s /\ \A j \in 1 .. Len(s) : j \in DOMAIN s
  BY SeqIs
<1> QED
  BY <1>2, <1>3, <1>4

LEMMA BeginningIs ==
    ASSUME NEW s, IsSeq(s), NEW k \in 0 .. Len(s)
    PROVE  /\ IsSeq(SubSeq(s, 1, k)) /\ Len(SubSeq(s, 1, k)) = k
           /\ \A i \in 1 .. k : SubSeq(s, 1, k)[i] = s[i]
<1> DEFINE S == Range(s)
<1>1. s \in Seq(S)
  BY DEF IsSeq
<1>2. k \in Int /\ 1 \in Int /\ \A i \in 1 .. k : s[i] \in S
  BY <1>1, ElementOfSeq, SeqIs
<1> HIDE DEF S
<1>3. /\ SubSeq(s, 1, k) \in Seq(S)
      /\ Len(SubSeq(s, 1, k)) = IF 1 <= k THEN k - 1 + 1 ELSE 0
      /\ \A i \in 1 .. k - 1 + 1 : SubSeq(s, 1, k)[i] = s[1 + i - 1]
  BY <1>2, SubSeqProperties
<1>4. k \in Nat
  BY SeqIs
<1>5. Len(SubSeq(s, 1, k)) = k /\ \A i \in 1 .. k : SubSeq(s, 1, k)[i] = s[i]
  BY <1>3, <1>4
<1>6. IsSeq(SubSeq(s, 1, k))
  BY <1>3, SomeSeqIs
<1> QED
  BY <1>5, <1>6

-----------------------------------------------------------------------------
(* The invariant of the writers.                                           *)

\* A tail is at most one line, and what is flushed is in the file.
FileShape(f) ==
    /\ f = [lines |-> f.lines, tail |-> f.tail, synced |-> f.synced]
    /\ IsSeq(f.lines)
    /\ f.tail # <<>> => f.tail = <<f.tail[1]>>
    /\ f.synced \in 0 .. Len(f.lines)

\* The lines of a file are lines of the process, in the chain of its name.
WholeChain(n, s) ==
    \A i \in 1 .. Len(s) :
        /\ s[i].line \in Lines
        /\ s[i] = [line |-> s[i].line, seq |-> i, prev |-> Before(n, s, i)]

\* Each file of the process has its shape and its chain.
FilesHold ==
    /\ IsSeq(disk) /\ Len(disk) <= MaxFiles
    /\ \A n \in 1 .. Len(disk) : FileShape(disk[n]) /\ WholeChain(n, disk[n].lines)

\* The open file ends with the line of the head, and in no piece that is not
\* known.
HeadHolds ==
    cur # 0 =>
        /\ head = [seq |-> Len(disk[cur].lines),
                   hash |-> Before(cur, disk[cur].lines, Len(disk[cur].lines) + 1)]
        /\ ~torn /\ at # "repair" => disk[cur].tail = <<>>

\* Where the process works at a line, and where it gives up a file.
Working == {"attempt", "written", "repair", "failed"}
Giving == {"give", "flush", "anchor"}

\* It works at a line in the open file; a process that ended has none open.
LineHolds ==
    /\ at \in Working => line \in Lines /\ cur # 0
    /\ at = "off" => cur = 0

\* The anchor of a file given up is of a line it has, and of one on the disk
\* once it is flushed.
GivingHolds ==
    IF at \in Giving
      THEN /\ giving = [file |-> giving.file, seq |-> giving.seq, hash |-> giving.hash,
                        torn |-> giving.torn, then |-> giving.then]
           /\ giving.file \in 1 .. Len(disk)
           /\ giving.seq \in 0 .. Len(disk[giving.file].lines)
           /\ giving.seq > 0 => disk[giving.file].lines[giving.seq] = giving.hash
           /\ giving.torn \in BOOLEAN
           /\ giving.then \in {"idle", "off", "target"}
           /\ giving.then = "off" => cur = 0
           /\ at = "give" => giving.file # cur
           /\ at = "anchor" /\ giving.file \notin unflushed =>
                giving.seq <= disk[giving.file].synced
      ELSE giving = None

\* The process has a line that stands whole nowhere.
Carrying ==
    \/ at \in {"day", "target", "attempt", "repair", "failed"}
    \/ at \in Giving /\ giving.then = "target"

\* No line stands twice.
LinesOnce ==
    \A n, m \in 1 .. Len(disk) :
        \A i \in 1 .. Len(disk[n].lines), j \in 1 .. Len(disk[m].lines) :
            disk[n].lines[i].line = disk[m].lines[j].line => n = m /\ i = j

\* A line that stands was never told lost, and is not the one still to write.
LinesTold ==
    /\ \A n \in 1 .. Len(disk) : \A i \in 1 .. Len(disk[n].lines) :
        /\ became[disk[n].lines[i].line] \in {"asked", "whole", "gone"}
        /\ Carrying => disk[n].lines[i].line # line
    /\ (Carrying \/ at = "written") /\ line \in Lines => became[line] = "asked"

\* The line of an anchor is on the disk, if its file was flushed.
LogHolds ==
    \A a \in log :
        /\ a.file \in 1 .. Len(disk) /\ a.seq \in Nat \ {0}
        /\ a.file \notin unflushed =>
            /\ a.seq <= disk[a.file].synced
            /\ disk[a.file].lines[a.seq] = a.hash

\* Without anchors after a write, a file has its one anchor after its last
\* line.
OneAnchor == ~writes =>
    /\ \A a \in log : a.file # cur /\ (at \in Giving => a.file # giving.file)
    /\ at \in Giving => /\ giving.file # cur
                        /\ giving.seq = Len(disk[giving.file].lines)
    /\ \A a, b \in log : a.file = b.file => a = b
    /\ \A a \in log : a.file \notin unflushed => a.seq = Len(disk[a.file].lines)

\* The types of what is no file.
StepTypes ==
    /\ at \in ChainSteps /\ cur \in {0, Len(disk)}
    /\ head.seq \in Nat /\ torn \in BOOLEAN
    /\ line \in Lines \cup {NoLine} /\ tried \in BOOLEAN /\ again \in BOOLEAN
    /\ became \in [Lines -> {"none", "asked", "whole", "lost", "gone"}]
    /\ stops \in 0 .. MaxStops /\ unflushed \subseteq 1 .. Len(disk)
    /\ writes \in WriteTools

ChainInv ==
    /\ StepTypes /\ FilesHold /\ HeadHolds /\ LineHolds /\ GivingHolds
    /\ LinesOnce /\ LinesTold /\ LogHolds /\ OneAnchor

-----------------------------------------------------------------------------
(* What the invariant says of the files.                                   *)

LEMMA WholeIsChain ==
    ASSUME NEW n, NEW s, IsSeq(s), WholeChain(n, s)
    PROVE  Chain(n, s)
<1> SUFFICES ASSUME NEW i \in 1 .. Len(s)
             PROVE  s[i] # Broken /\ s[i].seq = i /\ s[i].prev = Before(n, s, i)
  BY DEF Chain
<1>1. /\ s[i].line \in Lines
      /\ s[i] = [line |-> s[i].line, seq |-> i, prev |-> Before(n, s, i)]
  BY DEF WholeChain
<1>2. Broken.line = NoLine
  BY DEF Broken
<1>3. s[i].seq = i /\ s[i].prev = Before(n, s, i)
  BY <1>1
<1>4. s[i] # Broken
  BY <1>1, <1>2, NoLineAssumption
<1> QED
  BY <1>3, <1>4

LEMMA HoldsIsTypes == StepTypes /\ FilesHold /\ GivingHolds /\ LogHolds => ChainTypeOK
<1> SUFFICES ASSUME StepTypes, FilesHold, GivingHolds, LogHolds PROVE ChainTypeOK
  OBVIOUS
<1>1. DOMAIN disk = 1 .. Len(disk) /\ Len(disk) \in Nat /\ Len(disk) <= MaxFiles
  BY SeqIs DEF FilesHold
<1>2. ASSUME NEW n \in 1 .. Len(disk)
      PROVE  /\ \A i \in DOMAIN disk[n].lines :
                    disk[n].lines[i].line \in Lines \cup {NoLine}
             /\ Len(disk[n].tail) <= 1
             /\ disk[n].synced \in 0 .. Len(disk[n].lines)
  <2>1. FileShape(disk[n]) /\ WholeChain(n, disk[n].lines)
    BY DEF FilesHold
  <2>2. DOMAIN disk[n].lines = 1 .. Len(disk[n].lines)
    BY <2>1, SeqIs DEF FileShape
  <2>3. Len(disk[n].tail) <= 1
    <3>1. CASE disk[n].tail = <<>>
      BY <3>1, EmptyIs
    <3>2. CASE disk[n].tail # <<>>
      <4>1. PICK e : disk[n].tail = <<e>>
        BY <2>1, <3>2 DEF FileShape
      <4> QED
        BY <4>1
    <3> QED
      BY <3>1, <3>2
  <2> QED
    BY <2>1, <2>2, <2>3 DEF FileShape, WholeChain
<1>3. \A a \in log : a.file \in DOMAIN disk /\ a.seq \in Nat \ {0}
  BY <1>1 DEF LogHolds
<1>4. giving.file \in 0 .. Len(disk)
  BY <1>1 DEF GivingHolds, None
<1> QED
  BY <1>1, <1>2, <1>3, <1>4 DEF ChainTypeOK, StepTypes

\* In the files of the process verify finds nothing.
LEMMA HoldsIsChainHolds == FilesHold => ChainHolds
<1> SUFFICES ASSUME FilesHold, NEW n \in DOMAIN disk
             PROVE  FindingsOf(n, disk[n].lines, {}) = {}
  BY DEF ChainHolds
<1>1. n \in 1 .. Len(disk)
  BY SeqIs DEF FilesHold
<1>2. IsSeq(disk[n].lines) /\ WholeChain(n, disk[n].lines)
  BY <1>1 DEF FilesHold, FileShape
<1>3. Chain(n, disk[n].lines) /\ Len(disk[n].lines) \in Nat
  BY <1>2, WholeIsChain, SeqIs
<1> QED
  BY <1>3, ChainShowsNothing

LEMMA HoldsIsNothingFound == FilesHold /\ LogHolds /\ OneAnchor => NothingFound
<1> SUFFICES ASSUME FilesHold, LogHolds, OneAnchor, ~writes,
                    NEW n \in DOMAIN disk, n \notin unflushed
             PROVE  FindingsOf(n, disk[n].lines, log) = {}
  BY DEF NothingFound
<1>1. n \in 1 .. Len(disk)
  BY SeqIs DEF FilesHold
<1>2. IsSeq(disk[n].lines) /\ WholeChain(n, disk[n].lines)
  BY <1>1 DEF FilesHold, FileShape
<1>3. Chain(n, disk[n].lines) /\ Len(disk[n].lines) \in Nat
  BY <1>2, WholeIsChain, SeqIs
<1>4. \A a, b \in log : a.file = n /\ b.file = n => a = b
  BY DEF OneAnchor
<1>5. \A a \in log : a.file = n =>
        /\ a.seq = Len(disk[n].lines) /\ Len(disk[n].lines) # 0
        /\ a.hash = disk[n].lines[Len(disk[n].lines)]
  BY DEF OneAnchor, LogHolds
<1> QED
  BY <1>3, <1>4, <1>5, ChainShowsNothing

LEMMA HoldsIsAnchoredStays == FilesHold /\ LogHolds => AnchoredStays
<1> SUFFICES ASSUME FilesHold, LogHolds, NEW a \in log, a.file \notin unflushed
             PROVE  /\ a.seq <= Len(disk[a.file].lines)
                    /\ disk[a.file].lines[a.seq] = a.hash
  BY DEF AnchoredStays
<1>1. /\ a.file \in 1 .. Len(disk) /\ a.seq \in Nat
      /\ a.seq <= disk[a.file].synced /\ disk[a.file].lines[a.seq] = a.hash
  BY DEF LogHolds
<1>2. disk[a.file].synced \in 0 .. Len(disk[a.file].lines) /\ IsSeq(disk[a.file].lines)
  BY <1>1 DEF FilesHold, FileShape
<1>3. Len(disk[a.file].lines) \in Nat
  BY <1>2, SeqIs
<1> QED
  BY <1>1, <1>2, <1>3

LEMMA HoldsIsNowhere == FilesHold /\ LinesOnce /\ LinesTold => LostIsNowhere
<1> SUFFICES ASSUME FilesHold, LinesOnce, LinesTold, NEW l \in Lines
             PROVE  Cardinality(Copies(l)) <= IF became[l] = "lost" THEN 0 ELSE 1
  BY DEF LostIsNowhere
<1>1. \A c \in Copies(l) : \E n \in 1 .. Len(disk) : \E i \in 1 .. Len(disk[n].lines) :
        c = <<n, i>> /\ disk[n].lines[i].line = l
  <2>1. DOMAIN disk = 1 .. Len(disk)
    BY SeqIs DEF FilesHold
  <2>2. \A n \in 1 .. Len(disk) : DOMAIN disk[n].lines = 1 .. Len(disk[n].lines)
    BY SeqIs DEF FilesHold, FileShape
  <2> QED
    BY <2>1, <2>2 DEF Copies
<1>2. CASE Copies(l) = {}
  BY <1>2, FS_EmptySet
<1>3. CASE Copies(l) # {}
  <2>1. PICK c \in Copies(l) : TRUE
    BY <1>3
  <2>2. ASSUME NEW d \in Copies(l) PROVE d = c
    <3>1. PICK n \in 1 .. Len(disk) : \E i \in 1 .. Len(disk[n].lines) :
            c = <<n, i>> /\ disk[n].lines[i].line = l
      BY <1>1, <2>1
    <3>2. PICK i \in 1 .. Len(disk[n].lines) : c = <<n, i>> /\ disk[n].lines[i].line = l
      BY <3>1
    <3>3. PICK m \in 1 .. Len(disk) : \E j \in 1 .. Len(disk[m].lines) :
            d = <<m, j>> /\ disk[m].lines[j].line = l
      BY <1>1
    <3>4. PICK j \in 1 .. Len(disk[m].lines) : d = <<m, j>> /\ disk[m].lines[j].line = l
      BY <3>3
    <3>5. disk[n].lines[i].line = disk[m].lines[j].line
      BY <3>2, <3>4
    <3>6. n = m /\ i = j
      BY <3>5 DEF LinesOnce
    <3> QED
      BY <3>2, <3>4, <3>6
  <2>3. Copies(l) = {c}
    BY <2>1, <2>2
  <2>4. Cardinality(Copies(l)) = 1
    BY <2>3, FS_Singleton
  <2>5. became[l] # "lost"
    <3>1. PICK n \in 1 .. Len(disk) : \E i \in 1 .. Len(disk[n].lines) :
            disk[n].lines[i].line = l
      BY <1>1, <2>1
    <3> QED
      BY <3>1 DEF LinesTold
  <2> QED
    BY <2>4, <2>5
<1> QED
  BY <1>2, <1>3

-----------------------------------------------------------------------------
(* What verify finds in a file that was touched.                           *)

\* A sequence without one of its values, and with one more in it.
LEMMA RemovedIs ==
    ASSUME NEW s, IsSeq(s), NEW i \in 1 .. Len(s)
    PROVE  /\ Len(RemoveAt(s, i)) = Len(s) - 1
           /\ i < Len(s) => RemoveAt(s, i)[i] = s[i + 1]
<1> DEFINE S == Range(s)
           a == SubSeq(s, 1, i - 1)
           b == SubSeq(s, i + 1, Len(s))
<1>1. s \in Seq(S) /\ Len(s) \in Nat
  BY SeqIs DEF IsSeq
<1>2. \A j \in 1 .. Len(s) : s[j] \in S
  BY <1>1, ElementOfSeq
<1>3. RemoveAt(s, i) = a \o b
  BY DEF RemoveAt
<1> HIDE DEF S
<1>4. a \in Seq(S) /\ Len(a) = i - 1
  <2>1. 1 \in Int /\ i - 1 \in Int /\ \A j \in 1 .. i - 1 : s[j] \in S
    BY <1>1, <1>2
  <2>2. a \in Seq(S) /\ Len(a) = IF 1 <= i - 1 THEN i - 1 - 1 + 1 ELSE 0
    BY <2>1, SubSeqProperties
  <2> QED
    BY <1>1, <2>2
<1>5. b \in Seq(S) /\ Len(b) = Len(s) - i /\ (i < Len(s) => b[1] = s[i + 1])
  <2>1. i + 1 \in Int /\ Len(s) \in Int /\ \A j \in i + 1 .. Len(s) : s[j] \in S
    BY <1>1, <1>2
  <2>2. /\ b \in Seq(S) /\ Len(b) = IF i + 1 <= Len(s) THEN Len(s) - (i + 1) + 1 ELSE 0
        /\ \A j \in 1 .. Len(s) - (i + 1) + 1 : b[j] = s[i + 1 + j - 1]
    BY <2>1, SubSeqProperties
  <2>3. i < Len(s) => 1 \in 1 .. Len(s) - (i + 1) + 1 /\ i + 1 + 1 - 1 = i + 1
    BY <1>1
  <2> HIDE DEF b
  <2> QED
    BY <1>1, <2>2, <2>3
<1> HIDE DEF a, b
<1>6. /\ Len(a \o b) = Len(a) + Len(b)
      /\ \A j \in 1 .. Len(a) + Len(b) :
            (a \o b)[j] = IF j <= Len(a) THEN a[j] ELSE b[j - Len(a)]
  BY <1>4, <1>5, ConcatProperties
<1>7. i < Len(s) => /\ i \in 1 .. Len(a) + Len(b) /\ ~(i <= Len(a))
                    /\ i - Len(a) = 1
  BY <1>1, <1>4, <1>5
<1>8. i < Len(s) => (a \o b)[i] = s[i + 1]
  BY <1>5, <1>6, <1>7
<1> QED
  BY <1>1, <1>3, <1>4, <1>5, <1>6, <1>8

LEMMA AddedIs ==
    ASSUME NEW s, IsSeq(s), NEW i \in 1 .. Len(s), NEW e
    PROVE  /\ Len(InsertAt(s, i, e)) = Len(s) + 1
           /\ InsertAt(s, i, e)[i + 1] = s[i]
<1> DEFINE S == Range(s) \cup {e}
           a == SubSeq(s, 1, i - 1)
           b == SubSeq(s, i, Len(s))
<1>1. s \in Seq(S) /\ Len(s) \in Nat /\ <<e>> \in Seq(S) /\ Len(<<e>>) = 1
  <2>1. Len(s) \in Nat
    BY SeqIs
  <2>2. s \in Seq(S)
    BY SeqMonotonic DEF IsSeq
  <2> QED
    BY <2>1, <2>2
<1>2. \A j \in 1 .. Len(s) : s[j] \in S
  BY <1>1, ElementOfSeq
<1>3. InsertAt(s, i, e) = (a \o <<e>>) \o b
  BY DEF InsertAt
<1> HIDE DEF S
<1>4. a \in Seq(S) /\ Len(a) = i - 1
  <2>1. 1 \in Int /\ i - 1 \in Int /\ \A j \in 1 .. i - 1 : s[j] \in S
    BY <1>1, <1>2
  <2>2. a \in Seq(S) /\ Len(a) = IF 1 <= i - 1 THEN i - 1 - 1 + 1 ELSE 0
    BY <2>1, SubSeqProperties
  <2> QED
    BY <1>1, <2>2
<1>5. b \in Seq(S) /\ Len(b) = Len(s) - i + 1 /\ b[1] = s[i]
  <2>1. i \in Int /\ Len(s) \in Int /\ \A j \in i .. Len(s) : s[j] \in S
    BY <1>1, <1>2
  <2>2. /\ b \in Seq(S) /\ Len(b) = IF i <= Len(s) THEN Len(s) - i + 1 ELSE 0
        /\ \A j \in 1 .. Len(s) - i + 1 : b[j] = s[i + j - 1]
    BY <2>1, SubSeqProperties
  <2>3. 1 \in 1 .. Len(s) - i + 1 /\ i + 1 - 1 = i
    BY <1>1
  <2> HIDE DEF b
  <2> QED
    BY <1>1, <2>2, <2>3
<1> HIDE DEF a, b
<1> DEFINE c == a \o <<e>>
<1>6. c \in Seq(S) /\ Len(c) = i
  <2>1. c \in Seq(S) /\ Len(c) = Len(a) + Len(<<e>>)
    BY <1>1, <1>4, ConcatProperties
  <2> HIDE DEF c
  <2> QED
    BY <1>1, <1>4, <2>1
<1> HIDE DEF c
<1>7. /\ Len(c \o b) = Len(c) + Len(b)
      /\ \A j \in 1 .. Len(c) + Len(b) :
            (c \o b)[j] = IF j <= Len(c) THEN c[j] ELSE b[j - Len(c)]
  BY <1>5, <1>6, ConcatProperties
<1>8. i + 1 \in 1 .. Len(c) + Len(b) /\ ~(i + 1 <= Len(c)) /\ i + 1 - Len(c) = 1
  BY <1>1, <1>5, <1>6
<1>9. (c \o b)[i + 1] = s[i]
  <2>1. (c \o b)[i + 1] = b[i + 1 - Len(c)]
    BY <1>7, <1>8
  <2> QED
    BY <1>5, <1>8, <2>1
<1>10. Len(c \o b) = Len(s) + 1
  BY <1>1, <1>5, <1>6, <1>7
<1>11. InsertAt(s, i, e) = c \o b
  BY <1>3 DEF c
<1> QED
  BY <1>9, <1>10, <1>11

\* A line that is not the last is changed, removed, added or moved: the chain
\* breaks.
LEMMA TouchedIsNoChain ==
    ASSUME NEW n, NEW s, IsSeq(s), WholeChain(n, s),
           NEW t \in (Removed(s) \cup Changed(s) \cup Swapped(s) \cup Added(s)) \ {s}
    PROVE  Len(t) \in Nat /\ ~Chain(n, t)
<1>1. /\ Len(s) \in Nat /\ DOMAIN s = 1 .. Len(s)
      /\ \A i \in 1 .. Len(s) : s[i].seq = i
  BY SeqIs, WholeIsChain DEF Chain
<1>2. CASE t \in Removed(s)
  <2>1. PICK i \in 1 .. Len(s) - 1 : t = RemoveAt(s, i)
    BY <1>2 DEF Removed
  <2>2. i \in 1 .. Len(s) /\ i < Len(s) /\ i + 1 \in 1 .. Len(s)
    BY <1>1
  <2>3. Len(t) = Len(s) - 1 /\ t[i] = s[i + 1]
    BY <2>1, <2>2, RemovedIs
  <2>4. i \in 1 .. Len(t) /\ t[i].seq = i + 1
    BY <1>1, <2>2, <2>3
  <2> QED
    BY <1>1, <2>2, <2>3, <2>4 DEF Chain
<1>3. CASE t \in Changed(s)
  <2>1. PICK i \in 1 .. Len(s) - 1, l \in Lines : t = [s EXCEPT ![i].line = l]
    BY <1>3 DEF Changed
  <2>2. i \in 1 .. Len(s) /\ i + 1 \in 1 .. Len(s) /\ i + 1 # i
    BY <1>1
  <2> DEFINE e == [s[i] EXCEPT !.line = l]
  <2>3. t = [s EXCEPT ![i] = e]
    BY <2>1
  <2> HIDE DEF e
  <2>4. IsSeq(t) /\ Len(t) = Len(s) /\ \A j \in 1 .. Len(s) : j # i => t[j] = s[j]
    <3>1. LET u == [s EXCEPT ![i] = e] IN
            IsSeq(u) /\ Len(u) = Len(s) /\ \A j \in 1 .. Len(s) : j # i => u[j] = s[j]
      BY <2>2, ReplacedIs
    <3> QED
      BY <2>3, <3>1
  <2>5. ASSUME Chain(n, t) PROVE FALSE
    <3>1. t[i + 1].prev = Before(n, t, i + 1)
      BY <2>2, <2>4, <2>5 DEF Chain
    <3>2. s[i + 1].prev = Before(n, s, i + 1)
      BY <2>2, WholeIsChain DEF Chain
    <3>3. i + 1 # 1 /\ i + 1 - 1 = i
      BY <2>2
    <3>4. t[i] = s[i]
      BY <2>2, <2>4, <3>1, <3>2, <3>3 DEF Before
    <3>5. t = s
      BY <2>4, <3>4, SameSeq
    <3> QED
      BY <3>5
  <2> QED
    BY <1>1, <2>4, <2>5
<1>4. CASE t \in Swapped(s)
  <2>1. PICK i \in 1 .. Len(s), j \in 1 .. Len(s) :
            t = [s EXCEPT ![i] = s[j], ![j] = s[i]]
    BY <1>1, <1>4 DEF Swapped
  <2> DEFINE r == [s EXCEPT ![i] = s[j]]
  <2>2. /\ IsSeq(r) /\ Len(r) = Len(s) /\ r[i] = s[j]
        /\ \A k \in 1 .. Len(s) : k # i => r[k] = s[k]
    BY ReplacedIs
  <2>3. t = [r EXCEPT ![j] = s[i]]
    BY <2>1
  <2> HIDE DEF r
  <2>4. /\ IsSeq(t) /\ Len(t) = Len(s) /\ t[j] = s[i]
        /\ \A k \in 1 .. Len(s) : k # j => t[k] = r[k]
    <3>1. LET u == [r EXCEPT ![j] = s[i]] IN
            /\ IsSeq(u) /\ Len(u) = Len(s) /\ u[j] = s[i]
            /\ \A k \in 1 .. Len(s) : k # j => u[k] = r[k]
      BY <2>2, ReplacedIs
    <3> QED
      BY <2>3, <3>1
  <2>5. CASE i = j
    <3>1. \A k \in 1 .. Len(s) : t[k] = s[k]
      BY <2>2, <2>4, <2>5
    <3>2. t = s
      BY <2>4, <3>1, SameSeq
    <3> QED
      BY <3>2
  <2>6. CASE i # j
    <3>1. t[j].seq = i
      BY <1>1, <2>4
    <3> QED
      BY <1>1, <2>4, <2>6, <3>1 DEF Chain
  <2> QED
    BY <2>5, <2>6
<1>5. CASE t \in Added(s)
  <2>1. PICK i \in 1 .. Len(s), j \in 1 .. Len(s) : t = InsertAt(s, i, s[j])
    BY <1>1, <1>5 DEF Added
  <2>2. Len(t) = Len(s) + 1 /\ t[i + 1] = s[i]
    BY <2>1, AddedIs
  <2>3. i + 1 \in 1 .. Len(t) /\ t[i + 1].seq = i /\ i # i + 1
    BY <1>1, <2>2
  <2> QED
    BY <1>1, <2>2, <2>3 DEF Chain
<1> QED
  BY <1>2, <1>3, <1>4, <1>5

\* Lines after the last one, fewer of them, or another last one: the file does
\* not end with the line it had.
LEMMA OtherEnd ==
    ASSUME NEW n, NEW s, IsSeq(s), s # <<>>, WholeChain(n, s),
           NEW t \in (Shortened(s) \cup Extended(s) \cup LastChanged(s)) \ {s}
    PROVE  Len(t) \in Nat /\ s[Len(s)] # Before(n, t, Len(t) + 1)
<1>1. /\ Len(s) \in Nat \ {0} /\ Len(s) \in 1 .. Len(s)
      /\ \A i \in 1 .. Len(s) : s[i].seq = i
  <2>1. Len(s) \in Nat \ {0}
    BY NotEmpty
  <2> QED
    BY <2>1, WholeIsChain DEF Chain
<1>2. CASE t \in Shortened(s)
  <2>1. PICK k \in 0 .. Len(s) - 1 : t = SubSeq(s, 1, k)
    BY <1>2 DEF Shortened
  <2>2. k \in 0 .. Len(s) /\ k < Len(s)
    BY <1>1
  <2>3. Len(t) = k /\ \A i \in 1 .. k : t[i] = s[i]
    BY <2>1, <2>2, BeginningIs
  <2>4. CASE k = 0
    <3>1. Before(n, t, Len(t) + 1) = [name |-> n]
      BY <2>3, <2>4 DEF Before, NameHash
    <3>2. s[Len(s)] = [line |-> s[Len(s)].line, seq |-> Len(s),
                       prev |-> Before(n, s, Len(s))]
      BY <1>1 DEF WholeChain
    <3>3. "seq" \in DOMAIN s[Len(s)] /\ "seq" \notin DOMAIN [name |-> n]
      BY <3>2
    <3> QED
      BY <2>3, <2>4, <3>1, <3>3
  <2>5. CASE k # 0
    <3>1. k \in 1 .. Len(s) /\ k \in 1 .. k /\ k + 1 # 1 /\ k + 1 - 1 = k
      BY <2>2, <2>5
    <3>2. Before(n, t, Len(t) + 1) = s[k]
      BY <2>3, <3>1 DEF Before
    <3> QED
      BY <1>1, <2>2, <2>3, <3>1, <3>2
  <2> QED
    BY <2>4, <2>5
<1>3. CASE t \in Extended(s)
  <2>1. PICK l \in Lines :
            t = Append(s, [line |-> l, seq |-> Len(s) + 1, prev |-> s[Len(s)]])
    BY <1>3 DEF Extended
  <2> DEFINE e == [line |-> l, seq |-> Len(s) + 1, prev |-> s[Len(s)]]
  <2>2. e.seq = Len(s) + 1
    OBVIOUS
  <2>3. Len(t) = Len(s) + 1 /\ t[Len(s) + 1] = e
    BY <2>1, AppendIs
  <2> HIDE DEF e
  <2>4. Before(n, t, Len(t) + 1) = e
    BY <1>1, <2>3 DEF Before
  <2> QED
    BY <1>1, <2>2, <2>3, <2>4
<1>4. CASE t \in LastChanged(s)
  <2>1. PICK l \in Lines : t = [s EXCEPT ![Len(s)].line = l]
    BY <1>4 DEF LastChanged
  <2> DEFINE e == [s[Len(s)] EXCEPT !.line = l]
  <2>2. t = [s EXCEPT ![Len(s)] = e]
    BY <2>1
  <2> HIDE DEF e
  <2>3. IsSeq(t) /\ Len(t) = Len(s) /\ \A j \in 1 .. Len(s) : j # Len(s) => t[j] = s[j]
    <3>1. LET u == [s EXCEPT ![Len(s)] = e] IN
            /\ IsSeq(u) /\ Len(u) = Len(s)
            /\ \A j \in 1 .. Len(s) : j # Len(s) => u[j] = s[j]
      BY <1>1, ReplacedIs
    <3> QED
      BY <2>2, <3>1
  <2>4. Before(n, t, Len(t) + 1) = t[Len(s)]
    BY <1>1, <2>3 DEF Before
  <2>5. t[Len(s)] # s[Len(s)]
    BY <2>3, SameSeq
  <2> QED
    BY <1>1, <2>3, <2>4, <2>5
<1> QED
  BY <1>2, <1>3, <1>4

LEMMA HoldsIsTamperShows == FilesHold => TamperShows
<1> SUFFICES ASSUME FilesHold, NEW n \in DOMAIN disk, disk[n].lines # <<>>
             PROVE
        /\ \A t \in (Removed(disk[n].lines) \cup Changed(disk[n].lines)
                       \cup Swapped(disk[n].lines) \cup Added(disk[n].lines))
                    \ {disk[n].lines} :
              FindingsOf(n, t, {}) # {}
        /\ \A m \in DOMAIN disk \ {n} : FindingsOf(m, disk[n].lines, {}) # {}
        /\ (\E a \in log : a.file = n /\ a.hash = disk[n].lines[Len(disk[n].lines)]) =>
              \A t \in (Shortened(disk[n].lines) \cup Extended(disk[n].lines)
                          \cup LastChanged(disk[n].lines)) \ {disk[n].lines} :
                  FindingsOf(n, t, log) # {}
  BY DEF TamperShows
<1> DEFINE s == disk[n].lines
<1>1. IsSeq(s) /\ WholeChain(n, s) /\ s # <<>>
  <2>1. n \in 1 .. Len(disk)
    BY SeqIs DEF FilesHold
  <2> QED
    BY <2>1 DEF FilesHold, FileShape
<1> HIDE DEF s
<1>2. ASSUME NEW t \in (Removed(s) \cup Changed(s) \cup Swapped(s) \cup Added(s)) \ {s}
      PROVE  FindingsOf(n, t, {}) # {}
  BY <1>1, TouchedIsNoChain, NoFindings
<1>3. ASSUME NEW m \in DOMAIN disk \ {n} PROVE FindingsOf(m, s, {}) # {}
  <2>1. Len(s) \in Nat /\ 1 \in 1 .. Len(s)
    BY <1>1, NotEmpty
  <2>2. s[1].prev = [name |-> n]
    BY <1>1, <2>1, WholeIsChain DEF Chain, Before, NameHash
  <2>3. ASSUME Chain(m, s) PROVE s[1].prev = [name |-> m]
    BY <2>1, <2>3 DEF Chain, Before, NameHash
  <2>4. [name |-> n].name # [name |-> m].name
    BY <1>3
  <2> QED
    BY <2>1, <2>2, <2>3, <2>4, NoFindings
<1>4. ASSUME NEW a \in log, a.file = n, a.hash = s[Len(s)],
             NEW t \in (Shortened(s) \cup Extended(s) \cup LastChanged(s)) \ {s}
      PROVE  FindingsOf(n, t, log) # {}
  <2>1. Len(t) \in Nat /\ s[Len(s)] # Before(n, t, Len(t) + 1)
    BY <1>1, OtherEnd
  <2> QED
    BY <1>4, <2>1, NoFindings
<1> QED
  BY <1>2, <1>3, <1>4 DEF s

-----------------------------------------------------------------------------
(* What is done to a file.                                                 *)

\* Repairs, pieces and flushes leave the lines of a file as they are; only a
\* flush changes what is on the disk.
LEMMA FileOps ==
    ASSUME NEW f, FileShape(f), NEW e
    PROVE  /\ Repaired(f) = [lines |-> f.lines, tail |-> <<>>, synced |-> f.synced]
           /\ Spoilt(f) = [lines |-> f.lines, tail |-> <<Broken>>, synced |-> f.synced]
           /\ WithoutBreak(f, e) =
                [lines |-> f.lines, tail |-> <<After(f, e)>>, synced |-> f.synced]
           /\ Flushed(f) = [lines |-> f.lines, tail |-> f.tail, synced |-> Len(f.lines)]
           /\ WithLine(f, e) = [lines |-> Append(f.lines, After(f, e)), tail |-> <<>>,
                                synced |-> f.synced]
<1> DEFINE a == f.lines
           b == f.tail
           c == f.synced
<1>1. f = [lines |-> a, tail |-> b, synced |-> c]
  BY DEF FileShape
<1> DEFINE x == After(f, e)
<1>2. WithLine(f, e) = [f EXCEPT !.lines = Append(f.lines, x), !.tail = <<>>]
  BY DEF WithLine
<1> HIDE DEF a, b, c, x
<1>3. Repaired(f) = [lines |-> a, tail |-> <<>>, synced |-> c]
  BY <1>1 DEF Repaired
<1>4. Spoilt(f) = [lines |-> a, tail |-> <<Broken>>, synced |-> c]
  BY <1>1 DEF Spoilt
<1>5. WithoutBreak(f, e) = [lines |-> a, tail |-> <<x>>, synced |-> c]
  BY <1>1 DEF WithoutBreak, x
<1>6. Flushed(f) = [lines |-> a, tail |-> b, synced |-> Len(a)]
  BY <1>1 DEF Flushed
<1>7. WithLine(f, e) = [lines |-> Append(a, x), tail |-> <<>>, synced |-> c]
  BY <1>1, <1>2
<1> QED
  BY <1>3, <1>4, <1>5, <1>6, <1>7 DEF a, b, c, x

LEMMA ShapeKept ==
    ASSUME NEW f, FileShape(f), NEW g,
           \/ g = [lines |-> f.lines, tail |-> <<>>, synced |-> f.synced]
           \/ \E e : g = [lines |-> f.lines, tail |-> <<e>>, synced |-> f.synced]
    PROVE  FileShape(g) /\ g.lines = f.lines /\ g.synced = f.synced
<1>1. CASE g = [lines |-> f.lines, tail |-> <<>>, synced |-> f.synced]
  BY <1>1 DEF FileShape
<1>2. ASSUME NEW e, g = [lines |-> f.lines, tail |-> <<e>>, synced |-> f.synced]
      PROVE  FileShape(g) /\ g.lines = f.lines /\ g.synced = f.synced
  BY <1>2 DEF FileShape
<1> QED
  BY <1>1, <1>2

LEMMA RepairsAre ==
    ASSUME NEW f, FileShape(f), NEW o \in RepairOutcomes(f)
    PROVE  /\ FileShape(o.file) /\ o.torn \in BOOLEAN
           /\ o.file.lines = f.lines /\ o.file.synced = f.synced
           /\ ~o.torn => o.file.tail = <<>>
<1>1. CASE o = [file |-> Repaired(f), torn |-> FALSE]
  <2>1. FileShape(Repaired(f)) /\ Repaired(f).lines = f.lines
        /\ Repaired(f).synced = f.synced /\ Repaired(f).tail = <<>>
    BY FileOps, ShapeKept
  <2> QED
    BY <1>1, <2>1
<1>2. CASE o = [file |-> Spoilt(f), torn |-> TRUE]
  <2>1. FileShape(Spoilt(f)) /\ Spoilt(f).lines = f.lines /\ Spoilt(f).synced = f.synced
    BY FileOps, ShapeKept
  <2> QED
    BY <1>2, <2>1
<1>3. CASE o = [file |-> f, torn |-> TRUE]
  BY <1>3
<1> QED
  BY <1>1, <1>2, <1>3 DEF RepairOutcomes

LEMMA PrefixedIs ==
    ASSUME FileShape(disk[cur])
    PROVE  /\ FileShape(Prefixed(disk[cur]))
           /\ Prefixed(disk[cur]).lines = disk[cur].lines
           /\ Prefixed(disk[cur]).synced = disk[cur].synced
           /\ (torn \/ disk[cur].tail = <<>>) => Prefixed(disk[cur]).tail = <<>>
<1> DEFINE f == disk[cur]
<1> HIDE DEF f
<1>1. FileShape(f)
  BY DEF f
<1>2. FileShape(Repaired(f)) /\ Repaired(f).lines = f.lines
      /\ Repaired(f).synced = f.synced /\ Repaired(f).tail = <<>>
  BY <1>1, FileOps, ShapeKept
<1> QED
  BY <1>1, <1>2 DEF Prefixed, f

LEMMA CutsAre ==
    ASSUME NEW f, FileShape(f), NEW c \in Cuts(f)
    PROVE  /\ FileShape(c) /\ Len(c.lines) = c.synced
           /\ c.synced \in f.synced .. Len(f.lines)
           /\ \A i \in 1 .. c.synced : c.lines[i] = f.lines[i]
<1>1. PICK k \in f.synced .. Len(f.lines) :
        \E t \in {<<>>, <<Broken>>} \cup NextTail(f, k) :
            c = [f EXCEPT !.lines = SubSeq(f.lines, 1, k), !.tail = t, !.synced = k]
  BY DEF Cuts
<1>2. PICK t \in {<<>>, <<Broken>>} \cup NextTail(f, k) :
        c = [f EXCEPT !.lines = SubSeq(f.lines, 1, k), !.tail = t, !.synced = k]
  BY <1>1
<1>3. c = [lines |-> SubSeq(f.lines, 1, k), tail |-> t, synced |-> k]
  BY <1>2 DEF FileShape
<1>4. t # <<>> => t = <<t[1]>>
  <2>1. \A i \in {k + 1} \cap DOMAIN (f.lines \o f.tail) :
            <<(f.lines \o f.tail)[i]>> = << <<(f.lines \o f.tail)[i]>>[1] >>
    OBVIOUS
  <2>2. \A u \in NextTail(f, k) : u = <<u[1]>>
    BY <2>1 DEF NextTail
  <2> QED
    BY <2>2
<1>5. k \in 0 .. Len(f.lines) /\ IsSeq(f.lines) /\ Len(f.lines) \in Nat
  BY SeqIs DEF FileShape
<1>6. /\ IsSeq(SubSeq(f.lines, 1, k)) /\ Len(SubSeq(f.lines, 1, k)) = k
      /\ \A i \in 1 .. k : SubSeq(f.lines, 1, k)[i] = f.lines[i]
  BY <1>5, BeginningIs
<1>7. c.lines = SubSeq(f.lines, 1, k) /\ c.tail = t /\ c.synced = k
      /\ c = [lines |-> c.lines, tail |-> c.tail, synced |-> c.synced]
  BY <1>3
<1>8. FileShape(c)
  BY <1>4, <1>5, <1>6, <1>7 DEF FileShape
<1> QED
  BY <1>6, <1>7, <1>8

\* The beginning of a chain is one, and so is a chain with its next line.
LEMMA WholeBeginning ==
    ASSUME NEW n, NEW s, IsSeq(s), WholeChain(n, s), NEW t, Len(t) \in 0 .. Len(s),
           \A i \in 1 .. Len(t) : t[i] = s[i]
    PROVE  WholeChain(n, t)
<1> SUFFICES ASSUME NEW i \in 1 .. Len(t)
             PROVE  /\ t[i].line \in Lines
                    /\ t[i] = [line |-> t[i].line, seq |-> i, prev |-> Before(n, t, i)]
  BY DEF WholeChain
<1>1. i \in 1 .. Len(s) /\ Len(s) \in Nat /\ Len(t) \in Nat
  BY SeqIs
<1>2. Before(n, t, i) = Before(n, s, i)
  BY <1>1 DEF Before
<1>3. /\ s[i].line \in Lines
      /\ s[i] = [line |-> s[i].line, seq |-> i, prev |-> Before(n, s, i)]
  BY <1>1 DEF WholeChain
<1> QED
  BY <1>2, <1>3

LEMMA WholeAppended ==
    ASSUME NEW n, NEW s, IsSeq(s), WholeChain(n, s), NEW l \in Lines, NEW e,
           e = [line |-> l, seq |-> Len(s) + 1, prev |-> Before(n, s, Len(s) + 1)]
    PROVE  WholeChain(n, Append(s, e))
<1> DEFINE t == Append(s, e)
<1>1. /\ IsSeq(t) /\ Len(t) = Len(s) + 1 /\ Len(s) \in Nat
      /\ \A i \in 1 .. Len(s) : t[i] = s[i]
      /\ t[Len(s) + 1] = e
  BY AppendIs, SeqIs
<1> HIDE DEF t
<1> SUFFICES ASSUME NEW i \in 1 .. Len(t)
             PROVE  /\ t[i].line \in Lines
                    /\ t[i] = [line |-> t[i].line, seq |-> i, prev |-> Before(n, t, i)]
  BY DEF WholeChain, t
<1>2. Before(n, t, i) = Before(n, s, i)
  BY <1>1 DEF Before
<1>3. CASE i = Len(s) + 1
  <2>1. t[i] = e /\ e.line = l
    BY <1>1, <1>3
  <2> QED
    BY <1>2, <1>3, <2>1
<1>4. CASE i # Len(s) + 1
  <2>1. i \in 1 .. Len(s) /\ t[i] = s[i]
    BY <1>1, <1>4
  <2>2. /\ s[i].line \in Lines
        /\ s[i] = [line |-> s[i].line, seq |-> i, prev |-> Before(n, s, i)]
    BY <2>1 DEF WholeChain
  <2> QED
    BY <1>2, <2>1, <2>2
<1> QED
  BY <1>3, <1>4

-----------------------------------------------------------------------------
(* What a step does to the files.                                          *)

\* No line is added, and none taken to the disk.
FilesKept ==
    /\ Len(disk') = Len(disk)
    /\ \A n \in 1 .. Len(disk) :
        disk'[n].lines = disk[n].lines /\ disk'[n].synced = disk[n].synced

FileOpened ==
    /\ Len(disk') = Len(disk) + 1
    /\ \A n \in 1 .. Len(disk) : disk'[n] = disk[n]
    /\ disk'[Len(disk) + 1] = NewFile

FileFlushed ==
    /\ Len(disk') = Len(disk)
    /\ \A n \in 1 .. Len(disk) :
        /\ disk'[n].lines = disk[n].lines /\ disk'[n].tail = disk[n].tail
        /\ disk'[n].synced = IF n = giving.file THEN Len(disk[n].lines)
                                                ELSE disk[n].synced

LineWritten ==
    /\ cur \in 1 .. Len(disk) /\ Len(disk') = Len(disk)
    /\ \A n \in 1 .. Len(disk) : n # cur => disk'[n] = disk[n]
    /\ disk'[cur].lines = Append(disk[cur].lines, Chained)
    /\ disk'[cur].synced = disk[cur].synced
    /\ Chained = [line |-> line, seq |-> Len(disk[cur].lines) + 1,
                  prev |-> Before(cur, disk[cur].lines, Len(disk[cur].lines) + 1)]
    /\ disk'[cur].tail = <<>>

FilesCut ==
    /\ Len(disk') = Len(disk)
    /\ \A n \in 1 .. Len(disk) :
        /\ Len(disk'[n].lines) = disk'[n].synced
        /\ disk'[n].synced \in disk[n].synced .. Len(disk[n].lines)
        /\ \A i \in 1 .. disk'[n].synced : disk'[n].lines[i] = disk[n].lines[i]

LEMMA CurIs ==
    ASSUME StepTypes, FilesHold, cur # 0
    PROVE  cur \in 1 .. Len(disk) /\ cur = Len(disk)
BY SeqIs DEF StepTypes, FilesHold

LEMMA FileReplaced ==
    ASSUME FilesHold, NEW m \in 1 .. Len(disk), NEW g, FileShape(g),
           WholeChain(m, g.lines), disk' = [disk EXCEPT ![m] = g]
    PROVE  /\ FilesHold' /\ Len(disk') = Len(disk) /\ disk'[m] = g
           /\ \A n \in 1 .. Len(disk) : n # m => disk'[n] = disk[n]
<1>1. /\ IsSeq([disk EXCEPT ![m] = g]) /\ Len([disk EXCEPT ![m] = g]) = Len(disk)
      /\ [disk EXCEPT ![m] = g][m] = g
      /\ \A n \in 1 .. Len(disk) : n # m => [disk EXCEPT ![m] = g][n] = disk[n]
  <2>1. IsSeq(disk)
    BY DEF FilesHold
  <2>2. ASSUME NEW s, IsSeq(s), NEW i \in 1 .. Len(s)
        PROVE  /\ IsSeq([s EXCEPT ![i] = g]) /\ Len([s EXCEPT ![i] = g]) = Len(s)
               /\ [s EXCEPT ![i] = g][i] = g
               /\ \A n \in 1 .. Len(s) : n # i => [s EXCEPT ![i] = g][n] = s[n]
    BY ONLY <2>2, ReplacedIs
  <2> QED
    BY <2>1, <2>2
<1>2. /\ IsSeq(disk') /\ Len(disk') = Len(disk) /\ disk'[m] = g
      /\ \A n \in 1 .. Len(disk) : n # m => disk'[n] = disk[n]
  BY <1>1
<1>3. FilesHold'
  <2>1. ASSUME NEW n \in 1 .. Len(disk)
        PROVE  FileShape(disk'[n]) /\ WholeChain(n, disk'[n].lines)
    <3>1. CASE n = m
      BY <1>2, <3>1
    <3>2. CASE n # m
      BY <1>2, <3>2 DEF FilesHold
    <3> QED
      BY <3>1, <3>2
  <2> QED
    BY <1>2, <2>1 DEF FilesHold
<1> QED
  BY <1>2, <1>3

LEMMA FileRepaired ==
    ASSUME FilesHold, NEW m \in 1 .. Len(disk), NEW g, FileShape(g),
           g.lines = disk[m].lines, g.synced = disk[m].synced,
           disk' = [disk EXCEPT ![m] = g]
    PROVE  /\ FilesHold' /\ FilesKept /\ disk'[m] = g
           /\ \A n \in 1 .. Len(disk) : n # m => disk'[n] = disk[n]
<1>1. WholeChain(m, g.lines)
  BY DEF FilesHold
<1>2. /\ FilesHold' /\ Len(disk') = Len(disk) /\ disk'[m] = g
      /\ \A n \in 1 .. Len(disk) : n # m => disk'[n] = disk[n]
  BY <1>1, FileReplaced
<1>3. FilesKept
  BY <1>2 DEF FilesKept
<1> QED
  BY <1>2, <1>3

LEMMA OpenNewMoves ==
    ASSUME FilesHold, OpenNew
    PROVE  FilesHold' /\ FileOpened /\ IsSeq(disk')
<1>1. Len(disk) \in Nat /\ MaxFiles \in Nat
  BY SeqIs, ChainAssumption DEF FilesHold
<1>2. /\ IsSeq(disk') /\ Len(disk') = Len(disk) + 1
      /\ \A n \in 1 .. Len(disk) : disk'[n] = disk[n]
      /\ disk'[Len(disk) + 1] = NewFile
  <2>1. LET u == Append(disk, NewFile) IN
          /\ IsSeq(u) /\ Len(u) = Len(disk) + 1
          /\ \A n \in 1 .. Len(disk) : u[n] = disk[n]
          /\ u[Len(disk) + 1] = NewFile
    BY AppendIs DEF FilesHold
  <2>2. disk' = Append(disk, NewFile)
    BY DEF OpenNew
  <2> QED
    BY <2>1, <2>2
<1>3. FileShape(NewFile) /\ NewFile.lines = <<>>
  BY EmptyIs DEF FileShape, NewFile
<1>4. \A n : WholeChain(n, <<>>)
  BY EmptyIs DEF WholeChain
<1>5. ASSUME NEW n \in 1 .. Len(disk')
      PROVE  FileShape(disk'[n]) /\ WholeChain(n, disk'[n].lines)
  <2>1. CASE n = Len(disk) + 1
    BY <1>2, <1>3, <1>4, <2>1
  <2>2. CASE n # Len(disk) + 1
    <3>1. n \in 1 .. Len(disk)
      BY <1>1, <1>2, <2>2
    <3> QED
      BY <1>2, <3>1 DEF FilesHold
  <2> QED
    BY <2>1, <2>2
<1>6. Len(disk') <= MaxFiles
  BY <1>1, <1>2 DEF OpenNew
<1>7. FilesHold'
  BY <1>2, <1>5, <1>6 DEF FilesHold
<1> QED
  BY <1>2, <1>7 DEF FileOpened

LEMMA GiveMoves ==
    ASSUME FilesHold, GivingHolds, Give
    PROVE  /\ FilesHold' /\ FilesKept
           /\ \A n \in 1 .. Len(disk) : n # giving.file => disk'[n] = disk[n]
<1>1. giving.file \in 1 .. Len(disk)
  BY DEF GivingHolds, Give, Giving
<1>2. CASE giving.torn
  <2>1. PICK o \in RepairOutcomes(disk[giving.file]) :
            disk' = [disk EXCEPT ![giving.file] = o.file]
    BY <1>2 DEF Give
  <2>2. FileShape(disk[giving.file])
    BY <1>1 DEF FilesHold
  <2>3. /\ FileShape(o.file) /\ o.file.lines = disk[giving.file].lines
        /\ o.file.synced = disk[giving.file].synced
    BY <2>2, RepairsAre
  <2> QED
    BY <1>1, <2>1, <2>3, FileRepaired
<1>3. CASE ~giving.torn
  <2>1. disk' = disk
    BY <1>3 DEF Give
  <2> QED
    BY <2>1 DEF FilesHold, FilesKept
<1> QED
  BY <1>2, <1>3

LEMMA FlushMoves ==
    ASSUME FilesHold, GivingHolds, Flush
    PROVE  /\ FilesHold'
           /\ \/ FileFlushed /\ UNCHANGED unflushed
              \/ unflushed' = unflushed \cup {giving.file} /\ UNCHANGED disk
<1>1. giving.file \in 1 .. Len(disk)
  BY DEF GivingHolds, Flush, Giving
<1>2. CASE disk' = [disk EXCEPT ![giving.file] = Flushed(@)] /\ UNCHANGED unflushed
  <2> DEFINE f == disk[giving.file]
             g == Flushed(f)
  <2>1. FileShape(f) /\ WholeChain(giving.file, f.lines)
    BY <1>1 DEF FilesHold
  <2>2. disk' = [disk EXCEPT ![giving.file] = g]
    BY <1>2
  <2>3. g = [lines |-> f.lines, tail |-> f.tail, synced |-> Len(f.lines)]
    BY <2>1, FileOps
  <2>4. FileShape(g) /\ WholeChain(giving.file, g.lines)
    <3> HIDE DEF g
    <3>1. IsSeq(f.lines) /\ Len(f.lines) \in Nat
      BY <2>1, SeqIs DEF FileShape
    <3>2. /\ g.lines = f.lines /\ g.tail = f.tail /\ g.synced = Len(f.lines)
          /\ g = [lines |-> g.lines, tail |-> g.tail, synced |-> g.synced]
      BY <2>3
    <3>3. Len(f.lines) \in 0 .. Len(f.lines) /\ (f.tail # <<>> => f.tail = <<f.tail[1]>>)
      BY <2>1, <3>1 DEF FileShape
    <3> QED
      BY <2>1, <3>1, <3>2, <3>3 DEF FileShape
  <2>5. /\ g.lines = f.lines /\ g.tail = f.tail /\ g.synced = Len(f.lines)
    <3> HIDE DEF g
    <3> QED
      BY <2>3
  <2> HIDE DEF g
  <2>6. /\ FilesHold' /\ Len(disk') = Len(disk) /\ disk'[giving.file] = g
        /\ \A n \in 1 .. Len(disk) : n # giving.file => disk'[n] = disk[n]
    BY <1>1, <2>2, <2>4, FileReplaced
  <2>7. FileFlushed
    BY <2>5, <2>6 DEF FileFlushed
  <2> QED
    BY <1>2, <2>6, <2>7
<1>3. CASE unflushed' = unflushed \cup {giving.file} /\ UNCHANGED disk
  BY <1>3 DEF FilesHold
<1> QED
  BY <1>2, <1>3 DEF Flush

LEMMA AttemptWholeMoves ==
    ASSUME StepTypes, FilesHold, HeadHolds, LineHolds, AttemptWhole
    PROVE  FilesHold' /\ LineWritten
<1>1. cur \in 1 .. Len(disk) /\ line \in Lines /\ at = "attempt" /\ cur # 0
  BY CurIs DEF LineHolds, AttemptWhole, Working
<1> DEFINE f == Prefixed(disk[cur])
           s == disk[cur].lines
<1>2. FileShape(disk[cur]) /\ WholeChain(cur, s) /\ IsSeq(s)
  BY <1>1 DEF FilesHold, FileShape
<1>3. /\ FileShape(f) /\ f.lines = s /\ f.synced = disk[cur].synced /\ f.tail = <<>>
  <2>1. torn \/ disk[cur].tail = <<>>
    BY <1>1 DEF HeadHolds
  <2> QED
    BY <1>2, <2>1, PrefixedIs
<1> HIDE DEF f
<1>4. Chained = [line |-> line, seq |-> Len(s) + 1, prev |-> Before(cur, s, Len(s) + 1)]
  BY <1>1 DEF Chained, HeadHolds
<1>5. After(f, Chained) = Chained
  BY <1>3 DEF After
<1> DEFINE g == WithLine(f, Chained)
<1>6. g = [lines |-> Append(s, Chained), tail |-> <<>>, synced |-> disk[cur].synced]
  BY <1>3, <1>5, FileOps
<1>7. disk' = [disk EXCEPT ![cur] = g]
  BY DEF AttemptWhole, Rewrite, f
<1> HIDE DEF g
<1>8. /\ IsSeq(Append(s, Chained)) /\ Len(Append(s, Chained)) = Len(s) + 1
      /\ Len(s) \in Nat
  BY <1>2, AppendIs, SeqIs
<1>9. /\ g.lines = Append(s, Chained) /\ g.tail = <<>> /\ g.synced = disk[cur].synced
      /\ g = [lines |-> g.lines, tail |-> g.tail, synced |-> g.synced]
  BY <1>6
<1>10. disk[cur].synced \in 0 .. Len(s) + 1
  BY <1>2, <1>8 DEF FileShape
<1>11. FileShape(g)
  BY <1>8, <1>9, <1>10 DEF FileShape
<1>12. WholeChain(cur, g.lines)
  BY <1>1, <1>2, <1>4, <1>9, WholeAppended
<1>13. /\ FilesHold' /\ Len(disk') = Len(disk) /\ disk'[cur] = g
       /\ \A n \in 1 .. Len(disk) : n # cur => disk'[n] = disk[n]
  BY <1>1, <1>7, <1>11, <1>12, FileReplaced
<1> QED
  BY <1>1, <1>4, <1>9, <1>13 DEF LineWritten

LEMMA AttemptNothingMoves ==
    ASSUME StepTypes, FilesHold, HeadHolds, LineHolds, AttemptNothing
    PROVE  /\ FilesHold' /\ FilesKept /\ cur # 0
           /\ ~torn' => disk'[cur].tail = <<>>
<1>1. cur \in 1 .. Len(disk) /\ at = "attempt" /\ cur # 0
  BY CurIs DEF LineHolds, AttemptNothing, Working
<1>2. FileShape(disk[cur])
  BY <1>1 DEF FilesHold
<1>3. CASE UNCHANGED <<disk, torn>>
  BY <1>1, <1>3 DEF FilesHold, FilesKept, HeadHolds
<1>4. CASE torn /\ Rewrite(Spoilt(disk[cur])) /\ UNCHANGED torn
  <2>1. /\ FileShape(Spoilt(disk[cur])) /\ Spoilt(disk[cur]).lines = disk[cur].lines
        /\ Spoilt(disk[cur]).synced = disk[cur].synced
    BY <1>2, FileOps, ShapeKept
  <2> QED
    BY <1>1, <1>4, <2>1, FileRepaired DEF Rewrite
<1>5. CASE torn /\ Rewrite(Repaired(disk[cur])) /\ torn' = FALSE
  <2>1. /\ FileShape(Repaired(disk[cur])) /\ Repaired(disk[cur]).lines = disk[cur].lines
        /\ Repaired(disk[cur]).synced = disk[cur].synced
        /\ Repaired(disk[cur]).tail = <<>>
    BY <1>2, FileOps, ShapeKept
  <2>2. FilesHold' /\ FilesKept /\ disk'[cur] = Repaired(disk[cur])
    BY <1>1, <1>5, <2>1, FileRepaired DEF Rewrite
  <2> QED
    BY <1>1, <2>1, <2>2
<1> QED
  BY <1>3, <1>4, <1>5 DEF AttemptNothing

LEMMA AttemptPieceMoves ==
    ASSUME StepTypes, FilesHold, LineHolds, AttemptPiece
    PROVE  FilesHold' /\ FilesKept /\ cur # 0
<1>1. cur \in 1 .. Len(disk) /\ cur # 0
  BY CurIs DEF LineHolds, AttemptPiece, Working
<1> DEFINE f == Prefixed(disk[cur])
<1>2. FileShape(disk[cur])
  BY <1>1 DEF FilesHold
<1>3. FileShape(f) /\ f.lines = disk[cur].lines /\ f.synced = disk[cur].synced
  BY <1>2, PrefixedIs
<1>4. Rewrite(Spoilt(f)) \/ Rewrite(WithoutBreak(f, Chained))
  BY DEF AttemptPiece
<1> HIDE DEF f
<1>5. \A g \in {Spoilt(f), WithoutBreak(f, Chained)} :
        FileShape(g) /\ g.lines = f.lines /\ g.synced = f.synced
  BY <1>3, FileOps, ShapeKept
<1>6. PICK g \in {Spoilt(f), WithoutBreak(f, Chained)} : disk' = [disk EXCEPT ![cur] = g]
  BY <1>4 DEF Rewrite
<1>7. FileShape(g) /\ g.lines = disk[cur].lines /\ g.synced = disk[cur].synced
  BY <1>3, <1>5, <1>6
<1> QED
  BY <1>1, <1>6, <1>7, FileRepaired

LEMMA RepairMoves ==
    ASSUME StepTypes, FilesHold, LineHolds, Repair
    PROVE  /\ FilesHold' /\ FilesKept /\ cur # 0 /\ torn' \in BOOLEAN
           /\ ~torn' => disk'[cur].tail = <<>>
<1>1. cur \in 1 .. Len(disk) /\ cur # 0
  BY CurIs DEF LineHolds, Repair, Working
<1>2. PICK o \in RepairOutcomes(disk[cur]) :
        disk' = [disk EXCEPT ![cur] = o.file] /\ torn' = o.torn
  BY DEF Repair, Rewrite
<1>3. /\ FileShape(o.file) /\ o.torn \in BOOLEAN /\ (~o.torn => o.file.tail = <<>>)
      /\ o.file.lines = disk[cur].lines /\ o.file.synced = disk[cur].synced
  BY <1>1, RepairsAre DEF FilesHold
<1>4. FilesHold' /\ FilesKept /\ disk'[cur] = o.file
  BY <1>1, <1>2, <1>3, FileRepaired
<1> QED
  BY <1>1, <1>2, <1>3, <1>4

LEMMA PowerFailsMoves ==
    ASSUME FilesHold, PowerFails
    PROVE  FilesHold' /\ FilesCut
<1>1. PICK cut \in [DOMAIN disk -> UNION {Cuts(disk[n]) : n \in DOMAIN disk}] :
        disk' = cut /\ \A n \in DOMAIN disk : cut[n] \in Cuts(disk[n])
  BY DEF PowerFails
<1> DEFINE S == UNION {Cuts(disk[n]) : n \in DOMAIN disk}
<1>2. DOMAIN disk = 1 .. Len(disk) /\ Len(disk) \in Nat
  BY SeqIs DEF FilesHold
<1>3. disk' \in Seq(S) /\ Len(disk') = Len(disk)
  <2>1. disk' \in [1 .. Len(disk) -> S]
    BY <1>1, <1>2
  <2> HIDE DEF S
  <2> QED
    BY <1>2, <2>1
<1>4. IsSeq(disk')
  BY <1>3, SomeSeqIs
<1>5. ASSUME NEW n \in 1 .. Len(disk)
      PROVE  /\ FileShape(disk'[n]) /\ WholeChain(n, disk'[n].lines)
             /\ Len(disk'[n].lines) = disk'[n].synced
             /\ disk'[n].synced \in disk[n].synced .. Len(disk[n].lines)
             /\ \A i \in 1 .. disk'[n].synced : disk'[n].lines[i] = disk[n].lines[i]
  <2>1. disk'[n] \in Cuts(disk[n])
    BY <1>1, <1>2
  <2>2. FileShape(disk[n]) /\ WholeChain(n, disk[n].lines)
    BY DEF FilesHold
  <2>3. /\ FileShape(disk'[n]) /\ Len(disk'[n].lines) = disk'[n].synced
        /\ disk'[n].synced \in disk[n].synced .. Len(disk[n].lines)
        /\ \A i \in 1 .. disk'[n].synced : disk'[n].lines[i] = disk[n].lines[i]
    BY <2>1, <2>2, CutsAre
  <2>4. /\ IsSeq(disk[n].lines) /\ Len(disk[n].lines) \in Nat
        /\ disk[n].synced \in 0 .. Len(disk[n].lines)
    BY <2>2, SeqIs DEF FileShape
  <2>5. Len(disk'[n].lines) \in 0 .. Len(disk[n].lines)
    BY <2>3, <2>4
  <2>6. WholeChain(n, disk'[n].lines)
    BY <2>2, <2>3, <2>4, <2>5, WholeBeginning
  <2> QED
    BY <2>3, <2>6
<1>6. FilesHold'
  BY <1>3, <1>4, <1>5 DEF FilesHold
<1> QED
  BY <1>3, <1>5, <1>6 DEF FilesCut

\* Steps that leave the files as they are.
LEMMA OthersKeep ==
    FilesHold /\ UNCHANGED disk => FilesHold' /\ FilesKept
BY DEF FilesHold, FilesKept

LEMMA OpensMove ==
    ASSUME FilesHold, StartProcess \/ OpenAnother \/ DayChanges
    PROVE  FilesHold' /\ ((FileOpened /\ OpenNew) \/ (FilesKept /\ UNCHANGED disk))
<1>1. CASE OpenNew
  BY <1>1, OpenNewMoves
<1>2. CASE UNCHANGED disk
  BY <1>2, OthersKeep
<1>3. OpenNew \/ UNCHANGED disk
  BY DEF StartProcess, OpenAnother, DayChanges
<1> QED
  BY <1>1, <1>2, <1>3

\* Steps whose file system calls are none, or fail.
Quiet ==
    \/ CloseFile \/ AnchorNow \/ DescriptorLost \/ ReadyOrTick
    \/ \E l \in Lines : Write(l)
    \/ DayStays \/ TargetOpen \/ NoTarget \/ Written \/ WrittenLost
    \/ FailedKept \/ FailedDropped \/ Anchor \/ ProcessEnds

Opens == StartProcess \/ OpenAnother \/ DayChanges
Mends == Give \/ AttemptNothing \/ AttemptPiece \/ Repair

LEMMA EachStep ==
    ChainNext => Quiet \/ Opens \/ Mends \/ Flush \/ AttemptWhole \/ PowerFails
BY DEF ChainNext, Line, Quiet, Opens, Mends

LEMMA QuietKeeps == Quiet => UNCHANGED disk
BY DEF Quiet, CloseFile, AnchorNow, DescriptorLost, ReadyOrTick, Write, DayStays,
       TargetOpen, NoTarget, Written, WrittenLost, FailedKept, FailedDropped, Anchor,
       ProcessEnds

LEMMA DiskMoves ==
    ASSUME ChainInv, ChainNext
    PROVE  /\ FilesHold'
           /\ \/ FilesKept /\ ~AttemptWhole
              \/ Flush /\ FileFlushed
              \/ Opens /\ FileOpened /\ OpenNew
              \/ AttemptWhole /\ LineWritten
              \/ PowerFails /\ FilesCut
<1> USE DEF ChainInv
<1>1. CASE Quiet
  <2>1. ~AttemptWhole
    BY <1>1 DEF Quiet, CloseFile, AnchorNow, DescriptorLost, ReadyOrTick, Write,
          DayStays, TargetOpen, NoTarget, Written, WrittenLost, FailedKept,
          FailedDropped, Anchor, ProcessEnds, Ended, AttemptWhole
  <2> QED
    BY <1>1, <2>1, QuietKeeps, OthersKeep
<1>2. CASE Opens
  <2>1. ~AttemptWhole
    BY <1>2 DEF Opens, StartProcess, OpenAnother, DayChanges, AttemptWhole
  <2> QED
    BY <1>2, <2>1, OpensMove DEF Opens
<1>3. CASE Mends
  <2>1. ~AttemptWhole
    BY <1>3 DEF Mends, Give, AttemptNothing, AttemptPiece, Repair, AttemptWhole
  <2> QED
    BY <1>3, <2>1, GiveMoves, AttemptNothingMoves, AttemptPieceMoves, RepairMoves
       DEF Mends
<1>4. CASE Flush
  <2>1. ~AttemptWhole
    BY <1>4 DEF Flush, AttemptWhole
  <2> QED
    BY <1>4, <2>1, FlushMoves, OthersKeep
<1>5. CASE AttemptWhole
  BY <1>5, AttemptWholeMoves
<1>6. CASE PowerFails
  BY <1>6, PowerFailsMoves
<1> QED
  BY <1>1, <1>2, <1>3, <1>4, <1>5, <1>6, EachStep

-----------------------------------------------------------------------------
(* Where a process is and the file it has open.                            *)

\* A step keeps the number of files, but for one that opens a file.
LEMMA LenMoves ==
    ASSUME ChainInv, ChainNext
    PROVE  /\ Len(disk) \in Nat /\ Len(disk') \in Nat
           /\ \/ Len(disk') = Len(disk)
              \/ Opens /\ OpenNew /\ Len(disk') = Len(disk) + 1
<1>1. Len(disk) \in Nat /\ Len(disk') \in Nat
  BY DiskMoves, SeqIs DEF ChainInv, FilesHold
<1>2. CASE FilesKept \/ FileFlushed \/ LineWritten \/ FilesCut
  <2>1. Len(disk') = Len(disk)
    BY <1>2 DEF FilesKept, FileFlushed, LineWritten, FilesCut
  <2> QED
    BY <1>1, <2>1
<1>3. CASE Opens /\ FileOpened /\ OpenNew
  BY <1>1, <1>3 DEF FileOpened
<1> QED
  BY <1>2, <1>3, DiskMoves

\* What each step makes of the variables that hold no file.
PlainTypes ==
    /\ at \in ChainSteps
    /\ head.seq \in Nat /\ torn \in BOOLEAN
    /\ line \in Lines \cup {NoLine} /\ tried \in BOOLEAN /\ again \in BOOLEAN
    /\ became \in [Lines -> {"none", "asked", "whole", "lost", "gone"}]
    /\ stops \in 0 .. MaxStops /\ writes \in WriteTools

LEMMA PlainTypesNext ==
    ASSUME ChainInv, ChainNext
    PROVE  PlainTypes'
<1>0. PlainTypes /\ MaxStops \in Nat
  BY ChainAssumption DEF ChainInv, StepTypes, PlainTypes
<1>1. CASE StartProcess \/ OpenAnother
  <2>1. head'.seq \in Nat
    BY <1>1 DEF StartProcess, OpenAnother, OpenNew
  <2>2. torn' \in BOOLEAN
    BY <1>1 DEF StartProcess, OpenAnother, OpenNew
  <2>3. at' \in ChainSteps
    BY <1>1 DEF StartProcess, OpenAnother, ChainSteps
  <2>4. /\ tried' \in BOOLEAN /\ line' = line /\ again' = again /\ became' = became
        /\ stops' = stops /\ writes' = writes
    BY <1>0, <1>1 DEF PlainTypes, StartProcess, OpenAnother, lineVars, ends
  <2> QED
    BY <1>0, <2>1, <2>2, <2>3, <2>4 DEF PlainTypes
<1>2. CASE DayChanges
  <2>1. OpenNew \/ UNCHANGED <<head, torn>>
    BY <1>2 DEF DayChanges, fileVars
  <2>4. head'.seq \in Nat
    BY <1>0, <2>1 DEF PlainTypes, OpenNew
  <2>5. torn' \in BOOLEAN
    BY <1>0, <2>1 DEF PlainTypes, OpenNew
  <2>2. at' \in {"target", "give"}
    BY <1>2 DEF DayChanges, Retire
  <2>3. /\ tried' = TRUE /\ line' = line /\ again' = again /\ became' = became
        /\ stops' = stops /\ writes' = writes
    BY <1>2 DEF DayChanges, ends
  <2> QED
    BY <1>0, <2>4, <2>5, <2>2, <2>3 DEF PlainTypes, ChainSteps
<1>3. CASE CloseFile \/ AnchorNow \/ DescriptorLost
  BY <1>0, <1>3
     DEF PlainTypes, CloseFile, AnchorNow, DescriptorLost, Retire, RetireUntouched,
         ChainSteps, fileVars, lineVars, ends
<1>4. ASSUME NEW l \in Lines, Write(l) PROVE PlainTypes'
  BY <1>0, <1>4 DEF PlainTypes, Write, ChainSteps, fileVars, ends
<1>5. CASE ReadyOrTick \/ DayStays \/ TargetOpen
  BY <1>0, <1>5
     DEF PlainTypes, ReadyOrTick, DayStays, TargetOpen, ChainSteps, fileVars, lineVars,
         ends
<1>6. CASE NoTarget \/ Written \/ FailedKept
  BY <1>0, <1>6
     DEF PlainTypes, NoTarget, Written, FailedKept, Told, ChainSteps, fileVars,
         lineVars, ends
<1>7. CASE WrittenLost \/ FailedDropped
  BY <1>0, <1>7
     DEF PlainTypes, WrittenLost, FailedDropped, Retire, RetireUntouched, ChainSteps,
         lineVars
<1>8. CASE Anchor
  <2>1. giving.then \in ChainSteps
    BY <1>8 DEF ChainInv, GivingHolds, Anchor, Giving, ChainSteps
  <2> QED
    BY <1>0, <1>8, <2>1 DEF PlainTypes, Anchor, fileVars, lineVars, ends
<1>9. CASE Give \/ Flush
  BY <1>0, <1>9 DEF PlainTypes, Give, Flush, ChainSteps, fileVars, lineVars, ends
<1>10. CASE AttemptWhole
  <2>1. head'.seq = head.seq + 1
    BY <1>10 DEF AttemptWhole, Chained
  <2>2. head'.seq \in Nat
    BY <1>0, <2>1 DEF PlainTypes
  <2>3. torn' \in BOOLEAN
    BY <1>10 DEF AttemptWhole
  <2>4. /\ at' = "written"
        /\ UNCHANGED <<line, tried, again, became, stops, writes>>
    BY <1>10 DEF AttemptWhole, lineVars, ends
  <2> QED
    BY <1>0, <2>2, <2>3, <2>4 DEF PlainTypes, ChainSteps
<1>11. CASE AttemptNothing \/ AttemptPiece
  BY <1>0, <1>11
     DEF PlainTypes, AttemptNothing, AttemptPiece, ChainSteps, fileVars, lineVars, ends
<1>12. CASE Repair
  <2>1. torn' \in BOOLEAN
    BY <1>12, RepairMoves DEF ChainInv
  <2> QED
    BY <1>0, <1>12, <2>1 DEF PlainTypes, Repair, ChainSteps, lineVars, ends
<1>13. CASE ProcessEnds \/ PowerFails
  BY <1>0, <1>13 DEF PlainTypes, ProcessEnds, PowerFails, Ended, ChainSteps, lineVars
<1> QED
  BY <1>1, <1>2, <1>3, <1>4, <1>5, <1>6, <1>7, <1>8, <1>9, <1>10, <1>11, <1>12, <1>13
     DEF ChainNext, Line

LEMMA CurNext ==
    ASSUME ChainInv, ChainNext
    PROVE  cur' \in {0, Len(disk')} /\ unflushed' \subseteq 1 .. Len(disk')
<1>0. /\ cur \in {0, Len(disk)} /\ unflushed \subseteq 1 .. Len(disk)
      /\ Len(disk) \in Nat /\ Len(disk') \in Nat
      /\ cur # 0 => cur \in 1 .. Len(disk)
      /\ at \in Giving => giving.file \in 1 .. Len(disk)
  BY LenMoves DEF ChainInv, StepTypes, GivingHolds
<1>1. CASE Opens /\ OpenNew /\ Len(disk') = Len(disk) + 1
  <2>1. cur' = Len(disk) + 1 /\ unflushed' = unflushed
    BY <1>1 DEF Opens, OpenNew, StartProcess, OpenAnother, DayChanges, ends
  <2> QED
    BY <1>0, <1>1, <2>1
<1>2. CASE Len(disk') = Len(disk)
  <2>1. CASE CloseFile \/ AnchorNow \/ ReadyOrTick \/ DayStays \/ TargetOpen
             \/ NoTarget \/ Written \/ FailedKept \/ Anchor
    BY <1>0, <1>2, <2>1 DEF CloseFile, AnchorNow, ReadyOrTick, DayStays, TargetOpen,
       NoTarget, Written, FailedKept, Anchor, fileVars, ends
  <2>2. CASE DescriptorLost \/ WrittenLost \/ FailedDropped
    <3>1. cur # 0
      BY <2>2 DEF DescriptorLost, WrittenLost, FailedDropped, ChainInv, LineHolds, Working
    <3>2. cur' = 0 /\ (unflushed' = unflushed \/ unflushed' = unflushed \cup {cur})
      BY <2>2 DEF DescriptorLost, WrittenLost, FailedDropped, RetireUntouched
    <3> QED
      BY <1>0, <1>2, <3>1, <3>2
  <2>3. ASSUME NEW l \in Lines, Write(l) PROVE cur' = cur /\ unflushed' = unflushed
    BY <2>3 DEF Write, fileVars, ends
  <2>4. CASE Give \/ AttemptWhole \/ AttemptNothing \/ AttemptPiece \/ Repair
    BY <1>0, <1>2, <2>4 DEF Give, AttemptWhole, AttemptNothing, AttemptPiece, Repair,
       fileVars, ends
  <2>5. CASE Flush
    <3>1. giving.file \in 1 .. Len(disk)
      BY <1>0, <2>5 DEF Flush, Giving
    <3>2. /\ cur' = cur
          /\ unflushed' = unflushed \/ unflushed' = unflushed \cup {giving.file}
      BY <2>5 DEF Flush, fileVars
    <3> QED
      BY <1>0, <1>2, <3>1, <3>2
  <2>6. CASE ProcessEnds \/ PowerFails
    BY <1>0, <1>2, <2>6 DEF ProcessEnds, PowerFails, Ended
  <2>7. CASE Opens
    <3>1. \/ cur' = Len(disk) + 1 /\ OpenNew
          \/ cur' = cur /\ unflushed' = unflushed
      BY <2>7 DEF Opens, StartProcess, OpenAnother, DayChanges, OpenNew, fileVars, ends
    <3>2. ~OpenNew
      <4>1. ASSUME OpenNew PROVE Len(disk') = Len(disk) + 1
        BY <4>1, OpenNewMoves DEF ChainInv, FileOpened
      <4> QED
        BY <1>0, <1>2, <4>1
    <3> QED
      BY <1>0, <1>2, <3>1, <3>2
  <2> QED
    BY <1>0, <1>2, <2>1, <2>2, <2>3, <2>4, <2>5, <2>6, <2>7 DEF ChainNext, Line, Opens
<1> QED
  BY <1>1, <1>2, LenMoves

LEMMA StepTypesNext ==
    ASSUME ChainInv, ChainNext
    PROVE  StepTypes'
BY PlainTypesNext, CurNext DEF PlainTypes, StepTypes

LEMMA LineHoldsNext ==
    ASSUME ChainInv, ChainNext
    PROVE  LineHolds'
<1>0. LineHolds /\ line \in Lines \cup {NoLine} /\ Len(disk) \in Nat
  BY LenMoves DEF ChainInv, StepTypes
<1>1. CASE StartProcess \/ OpenAnother
  <2>1. cur' = Len(disk) + 1 /\ line' = line /\ at' # "off"
        /\ (at' \in Working => line # NoLine)
    BY <1>1 DEF StartProcess, OpenAnother, OpenNew, Working, lineVars
  <2> QED
    BY <1>0, <2>1 DEF LineHolds
<1>2. CASE DayChanges
  BY <1>2 DEF DayChanges, Retire, LineHolds, Working
<1>3. CASE CloseFile \/ AnchorNow \/ DescriptorLost
  BY <1>3
     DEF CloseFile, AnchorNow, DescriptorLost, Retire, RetireUntouched, LineHolds,
         Working
<1>4. ASSUME NEW l \in Lines, Write(l) PROVE LineHolds'
  BY <1>4 DEF Write, LineHolds, Working
<1>5. CASE ReadyOrTick \/ DayStays \/ TargetOpen
  BY <1>0, <1>5
     DEF ReadyOrTick, DayStays, TargetOpen, LineHolds, Working, fileVars, lineVars
<1>6. CASE NoTarget \/ Written \/ FailedKept
  BY <1>6 DEF NoTarget, Written, FailedKept, Told, LineHolds, Working
<1>7. CASE WrittenLost \/ FailedDropped
  BY <1>7 DEF WrittenLost, FailedDropped, Retire, RetireUntouched, LineHolds, Working
<1>8. CASE Anchor
  <2>1. giving.then \in {"idle", "off", "target"} /\ (giving.then = "off" => cur = 0)
    BY <1>8 DEF ChainInv, GivingHolds, Anchor, Giving
  <2> QED
    BY <1>8, <2>1 DEF Anchor, LineHolds, Working, fileVars
<1>9. CASE Give \/ Flush
  BY <1>9 DEF Give, Flush, LineHolds, Working
<1>10. CASE AttemptWhole \/ AttemptNothing \/ AttemptPiece \/ Repair
  BY <1>0, <1>10 DEF AttemptWhole, AttemptNothing, AttemptPiece, Repair, LineHolds,
     Working, fileVars, lineVars
<1>11. CASE ProcessEnds \/ PowerFails
  BY <1>11 DEF ProcessEnds, PowerFails, Ended, LineHolds, Working
<1> QED
  BY <1>1, <1>2, <1>3, <1>4, <1>5, <1>6, <1>7, <1>8, <1>9, <1>10, <1>11
     DEF ChainNext, Line

-----------------------------------------------------------------------------
(* The head of the open file, and the file given up.                       *)

\* The head is that of the last line of the open file.
LEMMA HeadIs ==
    ASSUME StepTypes, FilesHold, HeadHolds, cur # 0
    PROVE  /\ cur \in 1 .. Len(disk) /\ IsSeq(disk[cur].lines)
           /\ Len(disk[cur].lines) \in Nat /\ head.seq = Len(disk[cur].lines)
           /\ head.hash = Before(cur, disk[cur].lines, Len(disk[cur].lines) + 1)
           /\ head.seq > 0 => disk[cur].lines[head.seq] = head.hash
<1>1. cur \in 1 .. Len(disk)
  BY CurIs
<1>2. IsSeq(disk[cur].lines) /\ Len(disk[cur].lines) \in Nat
  BY <1>1, SeqIs DEF FilesHold, FileShape
<1>3. /\ head.seq = Len(disk[cur].lines)
      /\ head.hash = Before(cur, disk[cur].lines, Len(disk[cur].lines) + 1)
  BY DEF HeadHolds
<1>4. ASSUME head.seq > 0 PROVE disk[cur].lines[head.seq] = head.hash
  <2>1. Len(disk[cur].lines) + 1 # 1
        /\ Len(disk[cur].lines) + 1 - 1 = Len(disk[cur].lines)
    BY <1>2, <1>3, <1>4
  <2> QED
    BY <1>3, <2>1 DEF Before
<1> QED
  BY <1>1, <1>2, <1>3, <1>4

LEMMA HeadHoldsNext ==
    ASSUME ChainInv, ChainNext
    PROVE  HeadHolds'
<1>0. StepTypes /\ FilesHold /\ HeadHolds /\ LineHolds /\ GivingHolds
  BY DEF ChainInv
<1>1. cur # 0 => cur \in 1 .. Len(disk)
  BY <1>0, CurIs
<1>2. CASE OpenNew
  <2>1. /\ cur' = Len(disk) + 1 /\ torn' = FALSE
        /\ head' = [seq |-> 0, hash |-> NameHash(Len(disk) + 1)]
    BY <1>2 DEF OpenNew
  <2>2. disk'[cur'] = NewFile
    BY <1>0, <1>2, <2>1, OpenNewMoves DEF FileOpened
  <2>3. disk'[cur'].lines = <<>> /\ disk'[cur'].tail = <<>>
    BY <2>2 DEF NewFile
  <2>4. Before(cur', <<>>, 0 + 1) = NameHash(Len(disk) + 1)
    BY <2>1 DEF Before
  <2> QED
    BY <2>1, <2>3, <2>4, EmptyIs DEF HeadHolds
<1>3. CASE cur' = 0
  BY <1>3 DEF HeadHolds
<1>4. ASSUME cur # 0, cur' = cur, head' = head, torn' = torn,
             disk'[cur].lines = disk[cur].lines, disk'[cur].tail = disk[cur].tail,
             at # "repair"
      PROVE  HeadHolds'
  <2>1. Before(cur, disk'[cur].lines, Len(disk'[cur].lines) + 1)
          = Before(cur, disk[cur].lines, Len(disk[cur].lines) + 1)
    BY <1>4
  <2> QED
    BY <1>0, <1>4, <2>1 DEF HeadHolds
<1>5. CASE Quiet
  <2>1. UNCHANGED disk
    BY <1>5, QuietKeeps
  <2>2. cur' = 0 \/ UNCHANGED <<cur, head, torn>>
    BY <1>5 DEF Quiet, CloseFile, AnchorNow, DescriptorLost, ReadyOrTick, Write, DayStays,
       TargetOpen, NoTarget, Written, WrittenLost, FailedKept, FailedDropped, Anchor,
       ProcessEnds, Ended, fileVars
  <2>3. at # "repair" \/ cur' = 0
    BY <1>5 DEF Quiet, CloseFile, AnchorNow, DescriptorLost, ReadyOrTick, Write, DayStays,
       TargetOpen, NoTarget, Written, WrittenLost, FailedKept, FailedDropped, Anchor,
       ProcessEnds, Ended
  <2>4. cur' # 0 => cur # 0 /\ cur' = cur /\ head' = head /\ torn' = torn
    BY <2>2
  <2> QED
    BY <1>3, <1>4, <2>1, <2>3, <2>4
<1>6. CASE Opens
  <2>1. OpenNew \/ (UNCHANGED <<disk, cur, head, torn>> /\ at # "repair")
    BY <1>6 DEF Opens, StartProcess, OpenAnother, DayChanges, fileVars
  <2> QED
    BY <1>2, <1>3, <1>4, <2>1
<1>7. CASE Give
  <2>1. giving.file # cur /\ at # "repair" /\ UNCHANGED <<cur, head, torn>>
    BY <1>0, <1>7 DEF Give, GivingHolds, Giving, fileVars
  <2>2. cur # 0 => disk'[cur] = disk[cur]
    BY <1>0, <1>1, <1>7, <2>1, GiveMoves
  <2> QED
    BY <1>3, <1>4, <2>1, <2>2
<1>8. CASE Flush
  <2>1. at # "repair" /\ UNCHANGED <<cur, head, torn>>
    BY <1>8 DEF Flush, fileVars
  <2>2. cur # 0 => disk'[cur].lines = disk[cur].lines /\ disk'[cur].tail = disk[cur].tail
    BY <1>0, <1>1, <1>8, FlushMoves DEF FileFlushed
  <2> QED
    BY <1>3, <1>4, <2>1, <2>2
<1>9. CASE AttemptWhole
  <2>1. LineWritten
    BY <1>0, <1>9, AttemptWholeMoves
  <2> DEFINE s == disk[cur].lines
  <2>2. IsSeq(s) /\ Len(s) \in Nat
    BY <2>1, <1>0, SeqIs DEF LineWritten, FilesHold, FileShape
  <2>3. /\ Len(Append(s, Chained)) = Len(s) + 1 /\ Append(s, Chained)[Len(s) + 1] = Chained
    BY <2>2, AppendIs
  <2>4. cur' = cur /\ head' = [seq |-> Chained.seq, hash |-> Chained]
    BY <1>9 DEF AttemptWhole
  <2>5. disk'[cur].lines = Append(s, Chained) /\ disk'[cur].tail = <<>>
        /\ Chained.seq = Len(s) + 1
    BY <2>1 DEF LineWritten
  <2> HIDE DEF s
  <2>6. Before(cur, Append(s, Chained), Len(s) + 1 + 1) = Chained
    BY <2>2, <2>3 DEF Before
  <2> QED
    BY <2>3, <2>4, <2>5, <2>6 DEF HeadHolds
<1>10. CASE AttemptNothing
  <2>1. FilesKept /\ cur # 0 /\ (~torn' => disk'[cur].tail = <<>>)
    BY <1>0, <1>10, AttemptNothingMoves
  <2>2. cur' = cur /\ head' = head /\ disk'[cur].lines = disk[cur].lines
    BY <1>1, <1>10, <2>1 DEF AttemptNothing, FilesKept
  <2> QED
    BY <1>0, <2>1, <2>2 DEF HeadHolds
<1>11. CASE AttemptPiece
  <2>1. FilesKept /\ cur # 0
    BY <1>0, <1>11, AttemptPieceMoves
  <2>2. /\ cur' = cur /\ head' = head /\ at' = "repair"
        /\ disk'[cur].lines = disk[cur].lines
    BY <1>1, <1>11, <2>1 DEF AttemptPiece, FilesKept, fileVars
  <2> QED
    BY <1>0, <2>1, <2>2 DEF HeadHolds
<1>12. CASE Repair
  <2>1. FilesKept /\ cur # 0 /\ (~torn' => disk'[cur].tail = <<>>)
    BY <1>0, <1>12, RepairMoves
  <2>2. cur' = cur /\ head' = head /\ disk'[cur].lines = disk[cur].lines
    BY <1>1, <1>12, <2>1 DEF Repair, FilesKept
  <2> QED
    BY <1>0, <2>1, <2>2 DEF HeadHolds
<1>13. CASE PowerFails
  BY <1>3, <1>13 DEF PowerFails, Ended
<1> QED
  BY <1>5, <1>6, <1>7, <1>8, <1>9, <1>10, <1>11, <1>12, <1>13, EachStep DEF Mends

\* A file is given up with its head as it is.
LEMMA RetireHolds ==
    ASSUME ChainInv, ChainNext, cur # 0, NEW then \in {"idle", "off", "target"},
           NEW step \in Giving, Retire(step, then), disk'[cur] = disk[cur],
           then = "off" => cur' = 0, step = "give" => cur' # cur,
           step = "anchor" => cur \in unflushed'
    PROVE  GivingHolds'
<1>1. /\ cur \in 1 .. Len(disk) /\ Len(disk[cur].lines) \in Nat
      /\ head.seq = Len(disk[cur].lines)
      /\ head.seq > 0 => disk[cur].lines[head.seq] = head.hash
      /\ torn \in BOOLEAN
  BY HeadIs DEF ChainInv, StepTypes
<1>2. cur \in 1 .. Len(disk')
  BY <1>1, LenMoves
<1>3. at' = step /\ giving' = [file |-> cur, seq |-> head.seq, hash |-> head.hash,
                               torn |-> torn, then |-> then]
  BY DEF Retire
<1>4. /\ giving'.file = cur /\ giving'.seq = head.seq /\ giving'.hash = head.hash
      /\ giving'.torn = torn /\ giving'.then = then
  BY <1>3
<1>5. giving' = [file |-> giving'.file, seq |-> giving'.seq, hash |-> giving'.hash,
                 torn |-> giving'.torn, then |-> giving'.then]
  BY <1>3, <1>4
<1>6. at' \in Giving
  BY <1>3
<1> QED
  BY <1>1, <1>2, <1>3, <1>4, <1>5, <1>6 DEF GivingHolds

\* The file given up stays as it was.
LEMMA GivingGoesOn ==
    ASSUME ChainInv, ChainNext, at \in Giving, at' \in Giving, giving' = giving,
           cur' = cur, at' # "give",
           disk'[giving.file].lines = disk[giving.file].lines,
           at' = "anchor" /\ giving.file \notin unflushed' =>
             giving.seq <= disk'[giving.file].synced
    PROVE  GivingHolds'
BY LenMoves DEF ChainInv, GivingHolds

LEMMA GivingHoldsNext ==
    ASSUME ChainInv, ChainNext
    PROVE  GivingHolds'
<1>0. StepTypes /\ FilesHold /\ HeadHolds /\ LineHolds /\ GivingHolds
  BY DEF ChainInv
<1>1. ASSUME at \notin Giving, at' \notin Giving, giving' = giving PROVE GivingHolds'
  BY <1>0, <1>1 DEF GivingHolds
<1>2. CASE OpenAnother \/ StartProcess \/ ReadyOrTick \/ DayStays \/ TargetOpen
           \/ NoTarget \/ Written \/ FailedKept
  BY <1>1, <1>2 DEF OpenAnother, StartProcess, ReadyOrTick, DayStays, TargetOpen,
     NoTarget, Written, FailedKept, Told, Giving
<1>3. ASSUME NEW l \in Lines, Write(l) PROVE GivingHolds'
  BY <1>1, <1>3 DEF Write, Giving
<1>4. CASE AttemptWhole \/ AttemptNothing \/ AttemptPiece \/ Repair
  BY <1>1, <1>4 DEF AttemptWhole, AttemptNothing, AttemptPiece, Repair, Giving
<1>5. CASE DayChanges
  <2>1. CASE giving' = giving /\ at' = "target"
    BY <1>1, <1>5, <2>1 DEF DayChanges, Giving
  <2>2. CASE OpenNew /\ cur # 0 /\ Retire("give", "target")
    <3>1. disk'[cur] = disk[cur] /\ cur' = Len(disk) + 1 /\ cur' # cur
      BY <1>0, <2>2, OpenNewMoves, HeadIs, SeqIs DEF FileOpened, OpenNew, FilesHold
    <3> QED
      BY <2>2, <3>1, RetireHolds DEF Giving
  <2> QED
    BY <1>5, <2>1, <2>2 DEF DayChanges
<1>6. CASE CloseFile
  <2>1. CASE cur = 0
    BY <1>1, <1>6, <2>1 DEF CloseFile, Giving
  <2>2. CASE cur # 0
    BY <1>6, <2>2, RetireHolds DEF CloseFile, Giving
  <2> QED
    BY <2>1, <2>2
<1>7. CASE AnchorNow
  BY <1>7, RetireHolds DEF AnchorNow, Giving
<1>8. CASE DescriptorLost \/ WrittenLost \/ FailedDropped
  <2>1. cur # 0 /\ cur' = 0 /\ UNCHANGED disk
    BY <1>0, <1>8 DEF DescriptorLost, WrittenLost, FailedDropped, LineHolds, Working
  <2>2. \/ \E then \in {"idle", "target"} : RetireUntouched(then)
        \/ Retire("give", "target")
    BY <1>8 DEF DescriptorLost, WrittenLost, FailedDropped
  <2>3. ASSUME NEW then \in {"idle", "target"}, RetireUntouched(then)
        PROVE  Retire("anchor", then) /\ cur \in unflushed'
    BY <2>3 DEF RetireUntouched
  <2> QED
    BY <2>1, <2>2, <2>3, RetireHolds DEF Giving
<1>9. CASE Anchor
  BY <1>0, <1>9 DEF Anchor, GivingHolds, Giving
<1>10. CASE Give
  <2>1. /\ at = "give" /\ at' = "flush" /\ giving' = giving /\ cur' = cur
        /\ giving.file \in 1 .. Len(disk)
    BY <1>0, <1>10 DEF Give, GivingHolds, Giving, fileVars
  <2>2. disk'[giving.file].lines = disk[giving.file].lines
    BY <1>0, <1>10, <2>1, GiveMoves DEF FilesKept
  <2> QED
    BY <2>1, <2>2, GivingGoesOn DEF Giving
<1>11. CASE Flush
  <2>1. /\ at = "flush" /\ at' = "anchor" /\ giving' = giving /\ cur' = cur
        /\ giving.file \in 1 .. Len(disk)
        /\ giving.seq \in 0 .. Len(disk[giving.file].lines)
    BY <1>0, <1>11 DEF Flush, GivingHolds, Giving, fileVars
  <2>2. Len(disk[giving.file].lines) \in Nat
    BY <1>0, <2>1, SeqIs DEF FilesHold, FileShape
  <2>3. /\ disk'[giving.file].lines = disk[giving.file].lines
        /\ giving.file \notin unflushed' => giving.seq <= disk'[giving.file].synced
    BY <1>0, <1>11, <2>1, <2>2, FlushMoves DEF FileFlushed
  <2> QED
    BY <2>1, <2>3, GivingGoesOn DEF Giving
<1>12. CASE ProcessEnds \/ PowerFails
  BY <1>12 DEF ProcessEnds, PowerFails, Ended, GivingHolds, Giving
<1> QED
  BY <1>2, <1>3, <1>4, <1>5, <1>6, <1>7, <1>8, <1>9, <1>10, <1>11, <1>12
     DEF ChainNext, Line

-----------------------------------------------------------------------------
(* Where lines stand.                                                      *)

\* Line i of file n says l.
Stands(n, i, l) ==
    n \in 1 .. Len(disk) /\ i \in 1 .. Len(disk[n].lines) /\ disk[n].lines[i].line = l

\* A line that stands after a step stood there before it, or is the one that
\* was written.
LEMMA LinesCome ==
    ASSUME ChainInv, ChainNext, NEW n, NEW i, NEW l, Stands(n, i, l)'
    PROVE  \/ Stands(n, i, l)
           \/ /\ AttemptWhole /\ n = cur /\ i = Len(disk[cur].lines) + 1 /\ l = line
<1>0. n \in 1 .. Len(disk') /\ i \in 1 .. Len(disk'[n].lines) /\ disk'[n].lines[i].line = l
  BY DEF Stands
<1>1. FilesHold /\ FilesHold'
  BY DiskMoves DEF ChainInv
<1>2. ASSUME NEW m \in 1 .. Len(disk)
      PROVE  IsSeq(disk[m].lines) /\ Len(disk[m].lines) \in Nat
             /\ disk[m].synced \in 0 .. Len(disk[m].lines)
  BY <1>1, SeqIs DEF FilesHold, FileShape
<1>3. CASE FilesKept \/ FileFlushed
  BY <1>0, <1>3 DEF FilesKept, FileFlushed, Stands
<1>4. CASE FileOpened
  <2>1. CASE n = Len(disk) + 1
    <3>1. disk'[n].lines = <<>>
      BY <1>4, <2>1 DEF FileOpened, NewFile
    <3>2. i \in 1 .. 0
      BY <1>0, <3>1, EmptyIs
    <3> QED
      BY <3>2
  <2>2. CASE n # Len(disk) + 1
    <3>1. n \in 1 .. Len(disk)
      BY <1>0, <1>4, <2>2, LenMoves DEF FileOpened
    <3> QED
      BY <1>0, <1>4, <3>1 DEF FileOpened, Stands
  <2> QED
    BY <2>1, <2>2
<1>5. CASE AttemptWhole /\ LineWritten
  <2>1. n \in 1 .. Len(disk) /\ cur \in 1 .. Len(disk)
    BY <1>0, <1>5 DEF LineWritten
  <2>2. CASE n # cur
    BY <1>0, <1>5, <2>1, <2>2 DEF LineWritten, Stands
  <2>3. CASE n = cur
    <3> DEFINE s == disk[cur].lines
    <3>1. /\ Len(Append(s, Chained)) = Len(s) + 1
          /\ \A j \in 1 .. Len(s) : Append(s, Chained)[j] = s[j]
          /\ Append(s, Chained)[Len(s) + 1] = Chained
          /\ Len(s) \in Nat
      BY <1>2, <2>1, AppendIs
    <3>2. disk'[n].lines = Append(s, Chained) /\ Chained.line = line
      BY <1>5, <2>3 DEF LineWritten, Chained
    <3>3. i \in 1 .. Len(s) \/ i = Len(s) + 1
      BY <1>0, <3>1, <3>2
    <3>4. CASE i \in 1 .. Len(s)
      <4>1. s[i].line = l
        BY <1>0, <3>1, <3>2, <3>4
      <4> QED
        BY <2>1, <2>3, <3>4, <4>1 DEF Stands
    <3>5. CASE i = Len(s) + 1
      BY <1>0, <1>5, <2>3, <3>1, <3>2, <3>5
    <3> QED
      BY <3>3, <3>4, <3>5
  <2> QED
    BY <2>2, <2>3
<1>6. CASE FilesCut
  <2>1. n \in 1 .. Len(disk)
    BY <1>0, <1>6 DEF FilesCut
  <2>2. /\ Len(disk'[n].lines) = disk'[n].synced
        /\ disk'[n].synced \in disk[n].synced .. Len(disk[n].lines)
        /\ \A j \in 1 .. disk'[n].synced : disk'[n].lines[j] = disk[n].lines[j]
    BY <1>6, <2>1 DEF FilesCut
  <2>3. i \in 1 .. Len(disk[n].lines) /\ disk'[n].lines[i] = disk[n].lines[i]
    BY <1>0, <1>2, <2>1, <2>2
  <2> QED
    BY <1>0, <2>1, <2>3 DEF Stands
<1> QED
  BY <1>3, <1>4, <1>5, <1>6, DiskMoves

\* What the invariant says of a line that stands.
LEMMA StandingIs ==
    ASSUME ChainInv, NEW n, NEW i, NEW l, Stands(n, i, l)
    PROVE  /\ l \in Lines /\ became[l] \in {"asked", "whole", "gone"}
           /\ Carrying => l # line
           /\ \A m, j : Stands(m, j, l) => n = m /\ i = j
<1>1. FilesHold /\ LinesOnce /\ LinesTold
  BY DEF ChainInv
<1>2. n \in 1 .. Len(disk) /\ i \in 1 .. Len(disk[n].lines) /\ disk[n].lines[i].line = l
  BY DEF Stands
<1>3. l \in Lines
  BY <1>1, <1>2 DEF FilesHold, WholeChain
<1>4. became[l] \in {"asked", "whole", "gone"} /\ (Carrying => l # line)
  BY <1>1, <1>2 DEF LinesTold
<1>5. \A m, j : Stands(m, j, l) => n = m /\ i = j
  BY <1>1, <1>2 DEF LinesOnce, Stands
<1> QED
  BY <1>3, <1>4, <1>5

LEMMA LinesOnceNext ==
    ASSUME ChainInv, ChainNext
    PROVE  LinesOnce'
<1> SUFFICES ASSUME NEW n \in 1 .. Len(disk'), NEW m \in 1 .. Len(disk'),
                    NEW i \in 1 .. Len(disk'[n].lines), NEW j \in 1 .. Len(disk'[m].lines),
                    disk'[n].lines[i].line = disk'[m].lines[j].line
             PROVE  n = m /\ i = j
  BY DEF LinesOnce
<1>1. AttemptWhole => Carrying
  BY DEF AttemptWhole, Carrying
<1>2. PICK l : l = disk'[n].lines[i].line
  OBVIOUS
<1>3. Stands(n, i, l)' /\ Stands(m, j, l)'
  BY <1>2 DEF Stands
<1> QED
  BY <1>1, <1>3, LinesCome, StandingIs

\* What a step may tell of a line, and which line the process has then.
LEMMA LinesToldNext ==
    ASSUME ChainInv, ChainNext
    PROVE  LinesTold'
<1> DEFINE Has == Carrying \/ at = "written"
           Tells == /\ \A l \in Lines \ {line} :
                        became[l] # "none" => became'[l] = became[l]
                    /\ \A l \in Lines : ~(Carrying /\ l = line) =>
                         (became[l] \in {"asked", "whole", "gone"}
                            => became'[l] \in {"asked", "whole", "gone"})
           Goes == \/ UNCHANGED <<line, became>> /\ (Has' => Has) /\ (Carrying' => Carrying)
                   \/ ~Has'
                   \/ line' = NoLine
                   \/ line' \in Lines /\ became[line'] = "none" /\ became'[line'] = "asked"
<1>0. /\ became \in [Lines -> {"none", "asked", "whole", "lost", "gone"}]
      /\ line \in Lines \cup {NoLine} /\ GivingHolds /\ LineHolds /\ LinesTold
  BY DEF ChainInv, StepTypes
<1> SUFFICES Tells /\ Goes
  <2>1. ASSUME Tells, Goes, NEW n, NEW i, NEW l, Stands(n, i, l)'
        PROVE  /\ became'[l] \in {"asked", "whole", "gone"}
               /\ Carrying' => l # line'
    <3>1. CASE Stands(n, i, l)
      <4>1. /\ l \in Lines /\ became[l] \in {"asked", "whole", "gone"}
            /\ Carrying => l # line
        BY <3>1, StandingIs
      <4>2. became'[l] \in {"asked", "whole", "gone"}
        BY <2>1, <4>1
      <4> QED
        BY <2>1, <4>1, <4>2, NoLineAssumption
    <3>2. CASE AttemptWhole /\ l = line
      <4>1. at = "attempt" /\ at' = "written" /\ became' = became
        BY <3>2 DEF AttemptWhole
      <4>2. line \in Lines /\ became[line] = "asked"
        BY <1>0, <4>1 DEF LineHolds, LinesTold, Working, Carrying
      <4>3. ~Carrying'
        BY <4>1 DEF Carrying, Giving
      <4> QED
        BY <3>2, <4>1, <4>2, <4>3
    <3> QED
      BY <2>1, <3>1, <3>2, LinesCome
  <2>2. ASSUME Tells, Goes, Has', line' \in Lines
        PROVE  became'[line'] = "asked"
    BY <1>0, <2>2, NoLineAssumption DEF LinesTold
  <2> QED
    BY <2>1, <2>2 DEF LinesTold, Stands
<1>1. CASE StartProcess
  BY <1>1 DEF StartProcess, lineVars, Carrying, Giving
<1>2. CASE OpenAnother
  BY <1>2 DEF OpenAnother, Carrying, Giving
<1>3. CASE DayChanges
  BY <1>3 DEF DayChanges, Retire, Carrying, Giving
<1>4. CASE CloseFile \/ AnchorNow \/ DescriptorLost
  BY <1>4 DEF CloseFile, AnchorNow, DescriptorLost, Retire, RetireUntouched, lineVars,
     Carrying, Giving
<1>5. ASSUME NEW l \in Lines, Write(l) PROVE Tells /\ Goes
  BY <1>0, <1>5 DEF Write, Carrying, Giving
<1>6. CASE ReadyOrTick
  BY <1>6 DEF ReadyOrTick
<1>7. CASE DayStays \/ TargetOpen
  BY <1>7 DEF DayStays, TargetOpen, lineVars, Carrying, Giving
<1>8. CASE NoTarget
  BY <1>0, <1>8 DEF NoTarget, Told, Carrying, Giving
<1>9. CASE Written
  BY <1>0, <1>9 DEF Written, Told, Carrying, Giving
<1>10. CASE WrittenLost
  BY <1>0, <1>10 DEF WrittenLost, Retire, RetireUntouched, Carrying, Giving
<1>11. CASE FailedKept
  BY <1>0, <1>11 DEF FailedKept, Told, Carrying, Giving
<1>12. CASE FailedDropped
  BY <1>12 DEF FailedDropped, Retire, RetireUntouched, Carrying, Giving
<1>13. CASE Give \/ Flush
  BY <1>13 DEF Give, Flush, lineVars, Carrying, Giving
<1>14. CASE Anchor
  BY <1>0, <1>14 DEF Anchor, lineVars, Carrying, Giving, GivingHolds
<1>15. CASE AttemptWhole \/ AttemptNothing \/ AttemptPiece \/ Repair
  BY <1>15 DEF AttemptWhole, AttemptNothing, AttemptPiece, Repair, lineVars, Carrying,
     Giving
<1>16. CASE ProcessEnds \/ PowerFails
  BY <1>16 DEF ProcessEnds, PowerFails, Ended, lineVars, Carrying, Giving
<1> QED
  BY <1>1, <1>2, <1>3, <1>4, <1>5, <1>6, <1>7, <1>8, <1>9, <1>10, <1>11, <1>12, <1>13,
     <1>14, <1>15, <1>16 DEF ChainNext, Line

-----------------------------------------------------------------------------
(* Anchors.                                                                *)

\* What is on the disk stays there; and only the open file grows.
LEMMA DiskStays ==
    ASSUME ChainInv, ChainNext, NEW n \in 1 .. Len(disk)
    PROVE  /\ n \in 1 .. Len(disk') /\ unflushed \subseteq unflushed'
           /\ disk[n].synced \in Nat /\ disk'[n].synced \in Nat
           /\ Len(disk[n].lines) \in Nat /\ Len(disk'[n].lines) \in Nat
           /\ disk[n].synced <= disk'[n].synced
           /\ disk[n].synced <= Len(disk[n].lines)
           /\ disk'[n].synced <= Len(disk'[n].lines)
           /\ \A i \in 1 .. disk[n].synced : disk'[n].lines[i] = disk[n].lines[i]
           /\ n # cur => Len(disk'[n].lines) <= Len(disk[n].lines)
           /\ ~AttemptWhole => Len(disk'[n].lines) <= Len(disk[n].lines)
           /\ ~AttemptWhole /\ ~PowerFails => Len(disk'[n].lines) = Len(disk[n].lines)
<1>1. n \in 1 .. Len(disk')
  BY LenMoves
<1>2. FilesHold /\ FilesHold'
  BY DiskMoves DEF ChainInv
<1>3. /\ Len(disk[n].lines) \in Nat /\ disk[n].synced \in 0 .. Len(disk[n].lines)
      /\ IsSeq(disk[n].lines)
  BY <1>2, SeqIs DEF FilesHold, FileShape
<1>4. Len(disk'[n].lines) \in Nat /\ disk'[n].synced \in 0 .. Len(disk'[n].lines)
  BY <1>1, <1>2, SeqIs DEF FilesHold, FileShape
<1>5. unflushed \subseteq unflushed'
  BY DEF ChainNext, Line, StartProcess, CloseFile, AnchorNow, DescriptorLost, ReadyOrTick,
     Write, DayStays, DayChanges, TargetOpen, OpenAnother, NoTarget, AttemptWhole, Written,
     WrittenLost, AttemptNothing, AttemptPiece, Repair, FailedKept, FailedDropped, Give,
     Flush, Anchor, ProcessEnds, PowerFails, Ended, RetireUntouched, ends
<1>6. CASE FilesKept
  BY <1>1, <1>3, <1>4, <1>5, <1>6 DEF FilesKept
<1>7. CASE FileFlushed
  BY <1>1, <1>3, <1>4, <1>5, <1>7 DEF FileFlushed
<1>8. CASE FileOpened
  BY <1>1, <1>3, <1>4, <1>5, <1>8 DEF FileOpened
<1>9. CASE AttemptWhole /\ LineWritten
  <2>1. CASE n # cur
    <3>1. disk'[n] = disk[n]
      BY <1>9, <2>1 DEF LineWritten
    <3>2. ~(AttemptWhole /\ n = cur)
      BY <2>1
    <3> QED
      BY <1>1, <1>3, <1>4, <1>5, <1>9, <2>1, <3>1
  <2>2. CASE n = cur
    <3>1. /\ disk'[n].lines = Append(disk[n].lines, Chained)
          /\ disk'[n].synced = disk[n].synced
      BY <1>9, <2>2 DEF LineWritten
    <3>2. \A i \in 1 .. Len(disk[n].lines) : disk'[n].lines[i] = disk[n].lines[i]
      BY <1>3, <3>1, AppendIs
    <3> QED
      BY <1>1, <1>3, <1>4, <1>5, <1>9, <2>2, <3>1, <3>2
  <2> QED
    BY <2>1, <2>2
<1>10. CASE PowerFails /\ FilesCut
  BY <1>1, <1>3, <1>4, <1>5, <1>10 DEF FilesCut
<1> QED
  BY <1>6, <1>7, <1>8, <1>9, <1>10, DiskMoves

\* Only Anchor adds to the log, and only what the file given up shows.
LEMMA LogGrows ==
    ASSUME ChainNext
    PROVE  \/ log' = log
           \/ /\ Anchor /\ giving.seq > 0 /\ UNCHANGED <<disk, unflushed, cur>>
              /\ at = "anchor" /\ at' = giving.then
              /\ log' = log \cup {[file |-> giving.file, seq |-> giving.seq,
                                   hash |-> giving.hash]}
BY DEF ChainNext, Line, StartProcess, CloseFile, AnchorNow, DescriptorLost, ReadyOrTick,
   Write, DayStays, DayChanges, TargetOpen, OpenAnother, NoTarget, AttemptWhole, Written,
   WrittenLost, AttemptNothing, AttemptPiece, Repair, FailedKept, FailedDropped, Give,
   Flush, Anchor, ProcessEnds, PowerFails, Ended, ends, fileVars

LEMMA LogHoldsNext ==
    ASSUME ChainInv, ChainNext
    PROVE  LogHolds'
<1>0. LogHolds /\ GivingHolds
  BY DEF ChainInv
<1>1. ASSUME NEW a \in log
      PROVE  /\ a.file \in 1 .. Len(disk') /\ a.seq \in Nat \ {0}
             /\ a.file \notin unflushed' =>
                  a.seq <= disk'[a.file].synced /\ disk'[a.file].lines[a.seq] = a.hash
  <2>1. a.file \in 1 .. Len(disk) /\ a.seq \in Nat \ {0}
    BY <1>0 DEF LogHolds
  <2>2. /\ a.file \in 1 .. Len(disk') /\ unflushed \subseteq unflushed'
        /\ disk[a.file].synced \in Nat /\ disk'[a.file].synced \in Nat
        /\ disk[a.file].synced <= disk'[a.file].synced
        /\ \A i \in 1 .. disk[a.file].synced :
             disk'[a.file].lines[i] = disk[a.file].lines[i]
    BY <2>1, DiskStays
  <2>3. a.file \notin unflushed =>
          a.seq <= disk[a.file].synced /\ disk[a.file].lines[a.seq] = a.hash
    BY <1>0 DEF LogHolds
  <2> QED
    BY <2>1, <2>2, <2>3
<1>2. CASE log' = log
  BY <1>1, <1>2 DEF LogHolds
<1>3. CASE /\ at = "anchor" /\ giving.seq > 0 /\ UNCHANGED <<disk, unflushed, cur>>
           /\ log' = log \cup {[file |-> giving.file, seq |-> giving.seq,
                                hash |-> giving.hash]}
  <2> DEFINE b == [file |-> giving.file, seq |-> giving.seq, hash |-> giving.hash]
  <2>1. b.file = giving.file /\ b.seq = giving.seq /\ b.hash = giving.hash
    OBVIOUS
  <2>2. log' = log \cup {b}
    BY <1>3
  <2> HIDE DEF b
  <2>3. /\ giving.file \in 1 .. Len(disk) /\ giving.seq \in Nat \ {0}
        /\ disk[giving.file].lines[giving.seq] = giving.hash
        /\ giving.file \notin unflushed => giving.seq <= disk[giving.file].synced
    <3>1. Len(disk[giving.file].lines) \in Nat
      BY <1>0, <1>3, DiskStays DEF GivingHolds, Giving
    <3> QED
      BY <1>0, <1>3, <3>1 DEF GivingHolds, Giving
  <2>4. /\ b.file \in 1 .. Len(disk') /\ b.seq \in Nat \ {0}
        /\ b.file \notin unflushed' =>
             b.seq <= disk'[b.file].synced /\ disk'[b.file].lines[b.seq] = b.hash
    BY <1>3, <2>1, <2>3
  <2> QED
    BY <1>1, <2>2, <2>4 DEF LogHolds
<1> QED
  BY <1>2, <1>3, LogGrows

\* An anchor is of a file that is neither open nor about to get one.
AnchorsPast ==
    /\ \A a \in log : a.file # cur /\ (at \in Giving => a.file # giving.file)
    /\ at \in Giving => /\ giving.file # cur
                        /\ giving.seq = Len(disk[giving.file].lines)

LEMMA AnchorsPastNext ==
    ASSUME ChainInv, ChainNext, ~writes
    PROVE  AnchorsPast'
<1>0. /\ StepTypes /\ FilesHold /\ HeadHolds /\ LineHolds /\ GivingHolds /\ LogHolds
      /\ AnchorsPast /\ Len(disk) \in Nat
  BY LenMoves DEF ChainInv, OneAnchor, AnchorsPast
<1>1. \A a \in log : a.file \in 1 .. Len(disk)
  BY <1>0 DEF LogHolds
\* Nothing is given up: the open file is the same one, a new one, or none.
<1>2. ASSUME log' = log, at' \notin Giving, cur' \in {0, cur, Len(disk) + 1}
      PROVE  AnchorsPast'
  BY <1>0, <1>1, <1>2 DEF AnchorsPast
\* The open file is given up.
<1>3. ASSUME log' = log, cur # 0, cur' \in {0, Len(disk) + 1}, disk'[cur] = disk[cur],
             NEW step, NEW then, Retire(step, then)
      PROVE  AnchorsPast'
  <2>1. /\ cur \in 1 .. Len(disk) /\ head.seq = Len(disk[cur].lines)
    BY <1>0, <1>3, HeadIs
  <2>2. giving'.file = cur /\ giving'.seq = head.seq
    BY <1>3 DEF Retire
  <2> QED
    BY <1>0, <1>1, <1>3, <2>1, <2>2 DEF AnchorsPast
<1>4. CASE StartProcess \/ OpenAnother \/ ReadyOrTick \/ DayStays \/ TargetOpen
           \/ NoTarget \/ Written \/ FailedKept
  BY <1>2, <1>4 DEF StartProcess, OpenAnother, OpenNew, ReadyOrTick, DayStays, TargetOpen,
     NoTarget, Written, FailedKept, Told, Giving, fileVars
<1>5. ASSUME NEW l \in Lines, Write(l) PROVE AnchorsPast'
  BY <1>2, <1>5 DEF Write, Giving, fileVars
<1>6. CASE AttemptWhole \/ AttemptNothing \/ AttemptPiece \/ Repair
  BY <1>2, <1>6 DEF AttemptWhole, AttemptNothing, AttemptPiece, Repair, Giving, fileVars
<1>7. CASE ProcessEnds \/ PowerFails
  BY <1>2, <1>7 DEF ProcessEnds, PowerFails, Ended, Giving
<1>8. CASE DayChanges
  <2>1. CASE OpenNew /\ cur # 0 /\ Retire("give", "target")
    <3>1. disk'[cur] = disk[cur] /\ cur' = Len(disk) + 1
      BY <1>0, <2>1, OpenNewMoves, HeadIs DEF FileOpened, OpenNew
    <3> QED
      BY <1>3, <1>8, <2>1, <3>1 DEF DayChanges
  <2>2. CASE at' = "target" /\ (OpenNew \/ UNCHANGED fileVars)
    BY <1>2, <1>8, <2>2 DEF DayChanges, OpenNew, Giving, fileVars
  <2> QED
    BY <1>8, <2>1, <2>2 DEF DayChanges
<1>9. CASE CloseFile
  <2>1. CASE cur = 0
    BY <1>2, <1>9, <2>1 DEF CloseFile, Giving
  <2>2. CASE cur # 0
    BY <1>3, <1>9, <2>2 DEF CloseFile
  <2> QED
    BY <2>1, <2>2
<1>10. CASE AnchorNow
  BY <1>10 DEF AnchorNow
<1>11. CASE DescriptorLost \/ WrittenLost \/ FailedDropped
  <2>1. cur # 0 /\ cur' = 0 /\ UNCHANGED <<disk, log>>
    BY <1>0, <1>11 DEF DescriptorLost, WrittenLost, FailedDropped, LineHolds, Working
  <2>2. \E step, then : Retire(step, then)
    BY <1>11 DEF DescriptorLost, WrittenLost, FailedDropped, RetireUntouched
  <2> QED
    BY <1>3, <2>1, <2>2
<1>12. CASE Give \/ Flush
  <2>1. /\ at \in Giving /\ UNCHANGED <<log, giving, cur>>
        /\ ~AttemptWhole /\ ~PowerFails
    BY <1>12 DEF Give, Flush, Giving, fileVars, AttemptWhole, PowerFails, Ended
  <2>2. giving.file \in 1 .. Len(disk)
    BY <1>0, <2>1 DEF GivingHolds
  <2>3. Len(disk'[giving.file].lines) = Len(disk[giving.file].lines)
    BY <2>1, <2>2, DiskStays
  <2> QED
    BY <1>0, <2>1, <2>3 DEF AnchorsPast
<1>13. CASE Anchor
  <2>1. /\ at \in Giving /\ at' = giving.then /\ at' \notin Giving /\ cur' = cur
    BY <1>0, <1>13 DEF Anchor, GivingHolds, Giving, fileVars
  <2>2. \A a \in log' : a \in log \/ a.file = giving.file
    BY <1>13 DEF Anchor
  <2> QED
    BY <1>0, <2>1, <2>2 DEF AnchorsPast
<1> QED
  BY <1>4, <1>5, <1>6, <1>7, <1>8, <1>9, <1>10, <1>11, <1>12, <1>13 DEF ChainNext, Line

\* Without anchors after a write a file gets its one anchor when it is given
\* up, after its last line.
LEMMA OneAnchorNext ==
    ASSUME ChainInv, ChainNext
    PROVE  OneAnchor'
<1>0. /\ OneAnchor /\ LogHolds /\ GivingHolds /\ writes' = writes
  BY DEF ChainInv, ChainNext, Line, StartProcess, CloseFile, AnchorNow, DescriptorLost,
     ReadyOrTick, Write, DayStays, DayChanges, TargetOpen, OpenAnother, NoTarget,
     AttemptWhole, Written, WrittenLost, AttemptNothing, AttemptPiece, Repair, FailedKept,
     FailedDropped, Give, Flush, Anchor, ProcessEnds, PowerFails, Ended, ends
<1> SUFFICES ASSUME ~writes
             PROVE  /\ AnchorsPast'
                    /\ \A a, b \in log' : a.file = b.file => a = b
                    /\ \A a \in log' : a.file \notin unflushed' =>
                          a.seq = Len(disk'[a.file].lines)
  BY <1>0 DEF OneAnchor, AnchorsPast
<1>1. AnchorsPast'
  BY AnchorsPastNext
<1>2. ASSUME NEW a \in log, a.file \notin unflushed'
      PROVE  a.seq = Len(disk'[a.file].lines)
  <2>1. a.file \in 1 .. Len(disk) /\ a.seq \in Nat /\ a.file # cur
    BY <1>0 DEF LogHolds, OneAnchor
  <2>2. /\ unflushed \subseteq unflushed' /\ disk[a.file].synced \in Nat
        /\ disk'[a.file].synced \in Nat
        /\ Len(disk[a.file].lines) \in Nat /\ Len(disk'[a.file].lines) \in Nat
        /\ disk[a.file].synced <= disk'[a.file].synced
        /\ disk'[a.file].synced <= Len(disk'[a.file].lines)
        /\ Len(disk'[a.file].lines) <= Len(disk[a.file].lines)
    BY <2>1, DiskStays
  <2>3. a.file \notin unflushed
    BY <1>2, <2>2
  <2>4. a.seq <= disk[a.file].synced
    BY <1>0, <2>3 DEF LogHolds
  <2>5. a.seq = Len(disk[a.file].lines)
    BY <1>0, <2>3 DEF OneAnchor
  <2>6. \A x, y, z, u \in Nat : x <= y /\ y <= z /\ z <= u /\ u <= x => u = x
    OBVIOUS
  <2>7. Len(disk'[a.file].lines) = Len(disk[a.file].lines)
    BY <2>2, <2>4, <2>5, <2>6
  <2> QED
    BY <2>5, <2>7
<1>3. CASE log' = log
  BY <1>0, <1>1, <1>2, <1>3 DEF OneAnchor
<1>4. CASE /\ at = "anchor" /\ UNCHANGED <<disk, unflushed, cur>>
           /\ log' = log \cup {[file |-> giving.file, seq |-> giving.seq,
                                hash |-> giving.hash]}
  <2> DEFINE b == [file |-> giving.file, seq |-> giving.seq, hash |-> giving.hash]
  <2>1. b.file = giving.file /\ b.seq = giving.seq
    OBVIOUS
  <2>2. log' = log \cup {b}
    BY <1>4
  <2> HIDE DEF b
  <2>3. (\A a \in log : a.file # b.file) /\ b.seq = Len(disk'[b.file].lines)
    BY <1>0, <1>4, <2>1 DEF OneAnchor, Giving
  <2>4. \A x, y \in log' : x.file = y.file => x = y
    BY <1>0, <2>2, <2>3 DEF OneAnchor
  <2> QED
    BY <1>1, <1>2, <2>2, <2>3, <2>4
<1> QED
  BY <1>3, <1>4, LogGrows

-----------------------------------------------------------------------------
(* The theorems.                                                           *)

\* There is no file yet.
LEMMA ChainInvInit == ChainInit => ChainInv
<1> SUFFICES ASSUME ChainInit PROVE ChainInv
  OBVIOUS
<1>0. IsSeq(disk) /\ Len(disk) = 0 /\ MaxFiles \in Nat /\ MaxStops \in Nat
  BY EmptyIs, ChainAssumption DEF ChainInit
<1>1. StepTypes
  <2>1. head.seq = 0 /\ cur = 0 /\ at = "off" /\ stops = 0 /\ unflushed = {}
    BY DEF ChainInit
  <2>2. torn \in BOOLEAN /\ tried \in BOOLEAN /\ again \in BOOLEAN
    BY DEF ChainInit
  <2>3. /\ became \in [Lines -> {"none", "asked", "whole", "lost", "gone"}]
        /\ line \in Lines \cup {NoLine} /\ writes \in WriteTools
    BY DEF ChainInit
  <2> QED
    BY <1>0, <2>1, <2>2, <2>3 DEF StepTypes, ChainSteps
<1>2. FilesHold /\ LinesOnce /\ LogHolds
  BY <1>0 DEF ChainInit, FilesHold, LinesOnce, LogHolds
<1>3. HeadHolds /\ LineHolds /\ GivingHolds /\ OneAnchor
  BY <1>0 DEF ChainInit, HeadHolds, LineHolds, Working, GivingHolds, Giving, OneAnchor
<1>4. LinesTold
  BY <1>0 DEF ChainInit, LinesTold, Carrying, Giving
<1> QED
  BY <1>1, <1>2, <1>3, <1>4 DEF ChainInv

\* The invariant holds in every state: whatever pieces, repairs, lost descriptors,
\* ends of the process and power failures come between two steps of a write.
THEOREM ChainInvariant == ChainSpec => []ChainInv
<1>1. ASSUME ChainInv, [ChainNext]_chainVars PROVE ChainInv'
  <2>1. CASE ChainNext
    <3>1. StepTypes' /\ FilesHold' /\ HeadHolds' /\ LineHolds'
      BY <1>1, <2>1, StepTypesNext, DiskMoves, HeadHoldsNext, LineHoldsNext
    <3>2. GivingHolds' /\ LinesOnce' /\ LinesTold' /\ LogHolds' /\ OneAnchor'
      BY <1>1, <2>1, GivingHoldsNext, LinesOnceNext, LinesToldNext, LogHoldsNext,
         OneAnchorNext
    <3> QED
      BY <3>1, <3>2 DEF ChainInv
  <2>2. CASE UNCHANGED chainVars
    BY <1>1, <2>2 DEF chainVars, fileVars, lineVars, ends, ChainInv, StepTypes, FilesHold,
       HeadHolds, LineHolds, GivingHolds, LinesOnce, LinesTold, Carrying, LogHolds,
       OneAnchor
  <2> QED
    BY <1>1, <2>1, <2>2
<1> QED
  BY <1>1, ChainInvInit, PTL DEF ChainSpec

\* Every variable of the writer keeps its type.
THEOREM ChainTypes == ChainSpec => []ChainTypeOK
<1>1. ChainInv => ChainTypeOK
  BY HoldsIsTypes DEF ChainInv
<1> QED
  BY <1>1, ChainInvariant, PTL

\* Of any files nobody touched, each is whole in its chain: what write, its
\* repairs and a new start leave in a file is never a break for verify.
THEOREM FilesAreChains == ChainSpec => []ChainHolds
<1>1. ChainInv => ChainHolds
  BY HoldsIsChainHolds DEF ChainInv
<1> QED
  BY <1>1, ChainInvariant, PTL

\* A line that write called lost stands whole in no file, whatever followed it,
\* and no line stands twice, however often write tried it.
THEOREM LostStandsNowhere == ChainSpec => []LostIsNowhere
<1>1. ChainInv => LostIsNowhere
  BY HoldsIsNowhere DEF ChainInv
<1> QED
  BY <1>1, ChainInvariant, PTL

\* What an anchor names outlives a power failure: a file is flushed before its
\* anchor goes to the log, and no repair takes back what was flushed.
THEOREM AnchorsHold == ChainSpec => []AnchoredStays
<1>1. ChainInv => AnchoredStays
  BY HoldsIsAnchoredStays DEF ChainInv
<1> QED
  BY <1>1, ChainInvariant, PTL

\* Without write tools, verify with the log of the server finds nothing in files
\* nobody touched, of any length and however they came to their end.
THEOREM UntouchedIsClean == ChainSpec => []NothingFound
<1>1. ChainInv => NothingFound
  BY HoldsIsNothingFound DEF ChainInv
<1> QED
  BY <1>1, ChainInvariant, PTL

\* Verify finds every line changed, removed, added or moved in a file of any
\* length, and every file renamed; with the anchor of the last line also lines
\* cut off, added at the end, or another last line.
THEOREM TouchedIsFound == ChainSpec => []TamperShows
<1>1. ChainInv => TamperShows
  BY HoldsIsTamperShows DEF ChainInv
<1> QED
  BY <1>1, ChainInvariant, PTL
=============================================================================
