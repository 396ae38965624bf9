--------------------------- MODULE SnapshotsProofs ---------------------------
(***************************************************************************)
(* Proofs about Snapshots, for any number of processes, servers, writes    *)
(* and days, and every retention of at least a day.                        *)
(***************************************************************************)
EXTENDS Snapshots, TLAPS

-----------------------------------------------------------------------------
(* The invariant.                                                          *)

\* A save is about a part, and holds the key it seals with.
Saving == {"look", "make", "linked", "keep", "kept"}

Forms ==
    \A p \in Procs :
        /\ call[p].at \in Saving <=> call[p].part # None
        /\ call[p].at = "keep" => call[p].key \in Parts
        /\ call[p].at = "kept" => call[p].part \in Events \X {"before"}

\* A save ends at the latest on the day after its own, and no sweep is ahead.
Timely ==
    \A p \in Procs :
        /\ call[p].part # None => call[p].day <= today /\ today <= call[p].day + 1
        /\ cut[p] <= today
        /\ swept[p] # None => swept[p] <= today

\* What was past when a sweep began is still to come, gone, or told as left.
Sweeping ==
    \A p \in Procs : spc[p] # "idle" /\ ~stayed[p] =>
        /\ PastRecords(cut[p]) \subseteq todo[p]
        /\ spc[p] = "keys" => PastKeys(cut[p]) \cup PastTemps(cut[p]) \subseteq todo[p]

\* Each part is saved once, by the process that took the ID of its event.
Unkept(x) == records[x] = None /\ \A p \in Procs : <<"record", x>> \notin todo[p]

Owned ==
    /\ \A p \in Procs : call[p].part # None =>
        /\ call[p].part[1] \in used
        /\ \A q \in Procs \ {p} :
              call[q].part # None => call[q].part[1] # call[p].part[1]
        /\ call[p].at # "kept" => Unkept(call[p].part)
        /\ call[p].part[2] = "before" /\ call[p].part[1] \in Creates
               => Unkept(<<call[p].part[1], "after">>)
    /\ \A x \in Parts : ~Unkept(x) => x[1] \in used

\* What a sweep is about to remove is past for good.
Going ==
    /\ \A p \in Procs :
        /\ \A x \in Parts : <<"record", x>> \in todo[p] /\ records[x] # None
               => Past(records[x].day, today)
        /\ \A d \in Days : <<"key", d>> \in todo[p] => Past(d, today)
    /\ \A x \in Parts : records[x] # None => records[x].day <= today

\* The key a save holds is the one of its day, until that day is past.
HeldKey ==
    \A p \in Procs :
        /\ call[p].at \in {"look", "make"} => call[p].key = None
        /\ call[p].at \in {"linked", "keep"} /\ call[p].key # None
                /\ ~Past(call[p].day, today)
               => keys[call[p].day] = call[p].key

SweepInv == TypeOK /\ Forms /\ Timely /\ Sweeping /\ Shredded

KeptInv == SweepInv /\ Owned /\ Going /\ HeldKey /\ KeptOpens

-----------------------------------------------------------------------------
(* Types.                                                                  *)

LEMMA NoCallTypes == NoCall \in Calls /\ [NoCall EXCEPT !.at = "down"] \in Calls
BY SnapshotsAssumption DEF NoCall, Calls, Days

\* What a step makes of its call.
LEMMA CallTypes ==
    ASSUME TypeOK, NEW p \in Procs, NEW c \in Calls, Become(p, c)
    PROVE  /\ call' \in [Procs -> Calls]
           /\ call'[p] = c
           /\ \A q \in Procs \ {p} : call'[q] = call[q]
BY DEF TypeOK, Become

\* What a sweep begins with.
LEMMA PastTypes ==
    ASSUME TypeOK, NEW d
    PROVE  /\ PastRecords(d) \subseteq Entries
           /\ PastKeys(d) \subseteq Entries /\ PastTemps(d) \subseteq Entries
BY DEF TypeOK, PastRecords, PastKeys, PastTemps, Entries

LEMMA SweepInvInit == Init => SweepInv
<1> SUFFICES ASSUME Init PROVE SweepInv
  OBVIOUS
<1>1. TypeOK
  BY NoCallTypes, SnapshotsAssumption DEF Init, TypeOK, Days
<1>2. Forms
  BY DEF Init, Forms, NoCall, Saving
<1>3. Timely /\ Sweeping /\ Shredded
  BY DEF Init, Timely, Sweeping, Shredded, NoCall
<1> QED
  BY <1>1, <1>2, <1>3 DEF SweepInv

LEMMA TypeNext == TypeOK /\ Forms /\ [Next]_vars => TypeOK' /\ Forms'
<1> SUFFICES ASSUME TypeOK, Forms, [Next]_vars PROVE TypeOK' /\ Forms'
  OBVIOUS
<1> USE DEF files, sweep
<1>0. /\ today \in Days /\ call \in [Procs -> Calls]
      /\ \A p \in Procs : call[p] \in Calls
  BY DEF TypeOK
\* A step that changes nothing but a call, into one of the forms.
<1>1. ASSUME NEW p \in Procs, NEW c \in Calls, Become(p, c),
             c.at \in Saving <=> c.part # None,
             c.at = "keep" => c.key \in Parts,
             c.at = "kept" => c.part \in Events \X {"before"}
      PROVE  call' \in [Procs -> Calls] /\ Forms'
  BY <1>1, CallTypes DEF Forms
<1>2. ASSUME NEW p \in Procs, Become(p, NoCall) \/ Become(p, [NoCall EXCEPT !.at = "down"])
      PROVE  call' \in [Procs -> Calls] /\ Forms'
  <2>1. PICK c \in {NoCall, [NoCall EXCEPT !.at = "down"]} : Become(p, c)
    BY <1>2
  <2>2. c.at \in {"idle", "down"} /\ c.part = None /\ c \in Calls
    BY <2>1, NoCallTypes DEF NoCall
  <2> QED
    BY <1>1, <2>1, <2>2 DEF Saving
<1>3. ASSUME NEW p \in Procs, NEW e \in Events, SaveBefore(p, e) PROVE TypeOK' /\ Forms'
  <2> DEFINE c == [NoCall EXCEPT !.at = "look", !.part = <<e, "before">>, !.day = today]
  <2>1. <<e, "before">> \in Parts /\ <<e, "before">> # None
    BY SnapshotsAssumption DEF Parts
  <2>2. c \in Calls /\ c.at = "look" /\ c.part = <<e, "before">>
    BY <1>0, <2>1 DEF NoCall, Calls
  <2>3. Become(p, c)
    BY <1>3 DEF SaveBefore
  <2>4. call' \in [Procs -> Calls] /\ Forms'
    BY <1>1, <2>1, <2>2, <2>3 DEF Saving
  <2> QED
    BY <1>3, <2>4 DEF SaveBefore, TypeOK
<1>4. ASSUME NEW p \in Procs, SaveAfter(p) PROVE TypeOK' /\ Forms'
  <2> DEFINE c == [call[p] EXCEPT !.at = "look", !.part = <<call[p].part[1], "after">>,
                                  !.key = None]
  <2>1. call' \in [Procs -> Calls] /\ Forms'
    <3>1. CASE call[p].part[1] \in Creates /\ Become(p, c)
      <4>1. <<call[p].part[1], "after">> \in Parts
        BY <3>1 DEF Parts
      <4>2. <<call[p].part[1], "after">> # None
        BY <4>1, SnapshotsAssumption
      <4>3. c \in Calls /\ c.at = "look" /\ c.part = <<call[p].part[1], "after">>
        BY <1>0, <4>1 DEF Calls
      <4> QED
        BY <1>1, <3>1, <4>2, <4>3 DEF Saving
    <3>2. CASE Become(p, NoCall)
      BY <1>2, <3>2
    <3> QED
      BY <1>4, <3>1, <3>2 DEF SaveAfter
  <2> QED
    BY <1>4, <2>1 DEF SaveAfter, TypeOK
<1>5. ASSUME NEW p \in Procs, LookForKey(p) PROVE TypeOK' /\ Forms'
  <2>1. call[p].at = "look" /\ call[p].part \in Parts /\ call[p].day \in Days
    BY <1>0, <1>5 DEF LookForKey, At, Forms, Saving, Calls
  <2>2. call' \in [Procs -> Calls] /\ Forms'
    <3>1. CASE Become(p, [call[p] EXCEPT !.at = "make"])
      <4> DEFINE c == [call[p] EXCEPT !.at = "make"]
      <4>1. c \in Calls /\ c.at = "make" /\ c.part = call[p].part
        BY <1>0 DEF Calls
      <4> QED
        BY <1>1, <2>1, <3>1, <4>1, SnapshotsAssumption DEF Saving
    <3>2. CASE keys[call[p].day] # None
               /\ Become(p, [call[p] EXCEPT !.at = "keep", !.key = keys[call[p].day]])
      <4> DEFINE c == [call[p] EXCEPT !.at = "keep", !.key = keys[call[p].day]]
      <4>1. keys[call[p].day] \in Parts
        BY <1>5, <2>1, <3>2 DEF LookForKey, TypeOK
      <4>2. c \in Calls /\ c.at = "keep" /\ c.part = call[p].part /\ c.key \in Parts
        BY <1>0, <4>1 DEF Calls
      <4> QED
        BY <1>1, <2>1, <3>2, <4>2, SnapshotsAssumption DEF Saving
    <3> QED
      BY <1>5, <3>1, <3>2 DEF LookForKey
  <2>3. temps' \subseteq Days \X Parts
    BY <1>5, <2>1 DEF LookForKey, TypeOK
  <2> QED
    BY <1>5, <2>2, <2>3 DEF LookForKey, TypeOK
<1>6. ASSUME NEW p \in Procs, NameKey(p) PROVE TypeOK' /\ Forms'
  <2>1. call[p].at = "make" /\ call[p].part \in Parts /\ call[p].day \in Days
    BY <1>0, <1>6 DEF NameKey, Forms, Saving, Calls
  <2>2. call' \in [Procs -> Calls] /\ Forms'
    <3>1. PICK k \in Parts \cup {None} :
            Become(p, [call[p] EXCEPT !.at = "linked", !.key = k])
      <4>1. [call[p] EXCEPT !.at = "linked"]
              = [call[p] EXCEPT !.at = "linked", !.key = call[p].key]
        BY <1>0 DEF Calls
      <4>2. call[p].key \in Parts \cup {None}
        BY <1>0 DEF Calls
      <4> QED
        BY <1>6, <2>1, <4>1, <4>2 DEF NameKey
    <3> DEFINE c == [call[p] EXCEPT !.at = "linked", !.key = k]
    <3>2. c \in Calls /\ c.at = "linked" /\ c.part = call[p].part
      BY <1>0, <3>1 DEF Calls
    <3> QED
      BY <1>1, <2>1, <3>1, <3>2, SnapshotsAssumption DEF Saving
  <2>3. keys' \in [Days -> Parts \cup {None, Lost}]
    BY <1>6, <2>1 DEF NameKey, TypeOK
  <2> QED
    BY <1>6, <2>2, <2>3 DEF NameKey, TypeOK
<1>7. ASSUME NEW p \in Procs, TakeKey(p) PROVE TypeOK' /\ Forms'
  <2> DEFINE k == IF call[p].key # None THEN call[p].key ELSE keys[call[p].day]
             c == [call[p] EXCEPT !.at = "keep", !.key = k]
  <2>1. call[p].at = "linked" /\ call[p].part \in Parts
    BY <1>0, <1>7 DEF TakeKey, Forms, Saving, Calls
  <2>2. call' \in [Procs -> Calls] /\ Forms'
    <3>1. CASE k \in Parts
      <4>1. c \in Calls /\ c.at = "keep" /\ c.part = call[p].part /\ c.key = k
        BY <1>0, <3>1 DEF Calls
      <4>2. Become(p, c)
        BY <1>7, <3>1 DEF TakeKey
      <4> QED
        BY <1>1, <2>1, <3>1, <4>1, <4>2, SnapshotsAssumption DEF Saving
    <3>2. CASE k \notin Parts
      <4>1. Become(p, NoCall)
        BY <1>7, <3>2 DEF TakeKey
      <4> QED
        BY <1>2, <4>1
    <3> QED
      BY <3>1, <3>2
  <2> QED
    BY <1>7, <2>2 DEF TakeKey, TypeOK
<1>8. ASSUME NEW p \in Procs, KeepRecord(p) PROVE TypeOK' /\ Forms'
  <2>1. /\ call[p].at = "keep" /\ call[p].part \in Parts /\ call[p].key \in Parts
        /\ call[p].day \in Days
    BY <1>0, <1>8 DEF KeepRecord, At, Forms, Saving, Calls
  <2>2. [day |-> call[p].day, key |-> call[p].key, whole |-> TRUE] \in Record
    BY <2>1 DEF Record
  <2>3. records' \in [Parts -> Record \cup {None}]
    BY <1>8, <2>2 DEF KeepRecord, TypeOK
  <2>4. call' \in [Procs -> Calls] /\ Forms'
    <3>1. CASE call[p].part[2] = "before"
      <4> DEFINE c == [call[p] EXCEPT !.at = "kept"]
      <4>1. c \in Calls /\ c.at = "kept" /\ c.part = call[p].part
        BY <1>0 DEF Calls
      <4>2. call[p].part \in Events \X {"before"} /\ call[p].part # None
        BY <2>1, <3>1, SnapshotsAssumption DEF Parts
      <4>3. Become(p, c)
        BY <1>8, <3>1 DEF KeepRecord
      <4> QED
        BY <1>1, <4>1, <4>2, <4>3 DEF Saving
    <3>2. CASE Become(p, NoCall)
      BY <1>2, <3>2
    <3> QED
      BY <1>8, <3>1, <3>2 DEF KeepRecord
  <2> QED
    BY <1>8, <2>3, <2>4 DEF KeepRecord, TypeOK
<1>9. ASSUME NEW p \in Procs, SaveFails(p) \/ LoadEnds(p) \/ Restart(p)
      PROVE  TypeOK' /\ Forms'
  <2>1. Become(p, NoCall)
    BY <1>9 DEF SaveFails, LoadEnds, Restart
  <2>2. call' \in [Procs -> Calls] /\ Forms'
    BY <1>2, <2>1
  <2> QED
    BY <1>9, <2>2 DEF SaveFails, LoadEnds, Restart, TypeOK
<1>10. ASSUME NEW p \in Procs, NEW e \in Events, LoadStart(p, e) PROVE TypeOK' /\ Forms'
  <2>1. \A x : Read(x) \in Parts \cup {None}
    BY DEF Read, TypeOK, Record
  <2>2. \A y \in Parts : records[y] # None => records[y].day \in Days
    BY DEF TypeOK, Record
  <2>3. PICK c \in Calls : Become(p, c) /\ c.part = None
                           /\ c.at \in {"damaged", "missing", "open"}
    <3>1. CASE \E y \in Parts : /\ records[y] # None
                                /\ Become(p, [NoCall EXCEPT !.at = "damaged",
                                                            !.day = records[y].day])
      <4>1. PICK y \in Parts : /\ records[y] # None
                               /\ Become(p, [NoCall EXCEPT !.at = "damaged",
                                                           !.day = records[y].day])
        BY <3>1
      <4> DEFINE c == [NoCall EXCEPT !.at = "damaged", !.day = records[y].day]
      <4>2. records[y].day \in Days
        BY <2>2, <4>1
      <4>3. c \in Calls /\ c.part = None /\ c.at = "damaged"
        BY <4>2 DEF NoCall, Calls, Ends
      <4> QED
        BY <4>1, <4>3
    <3>2. CASE Become(p, [NoCall EXCEPT !.at = "missing"])
      <4> DEFINE c == [NoCall EXCEPT !.at = "missing"]
      <4>1. c \in Calls /\ c.part = None /\ c.at = "missing"
        BY SnapshotsAssumption DEF NoCall, Calls, Ends, Days
      <4> QED
        BY <3>2, <4>1
    <3>3. CASE \E y \in Parts : /\ records[y] # None
                                /\ Become(p, [at |-> "open", part |-> None,
                                              day |-> records[y].day, key |-> Read(y),
                                              second |-> Read(<<e, "after">>)])
      BY <2>1, <2>2, <3>3 DEF Calls
    <3> QED
      BY <1>10, <3>1, <3>2, <3>3 DEF LoadStart
  <2>4. call' \in [Procs -> Calls] /\ Forms'
    BY <1>1, <2>3 DEF Saving
  <2> QED
    BY <1>10, <2>4 DEF LoadStart, TypeOK
<1>11. ASSUME NEW p \in Procs, OpenBefore(p) \/ OpenAfter(p) PROVE TypeOK' /\ Forms'
  <2>1. PICK a \in {"openAfter"} \cup Ends : Become(p, [call[p] EXCEPT !.at = a])
    <3>1. CASE OpenBefore(p)
      BY <3>1 DEF OpenBefore, Opened, Ends
    <3>2. CASE OpenAfter(p)
      BY <3>2 DEF OpenAfter, Opened, Ends
    <3> QED
      BY <1>11, <3>1, <3>2
  <2> DEFINE c == [call[p] EXCEPT !.at = a]
  <2>2. c \in Calls /\ c.at = a /\ c.part = call[p].part
    BY <1>0, <2>1 DEF Calls, Ends
  <2>3. call[p].part = None
    BY <1>11 DEF OpenBefore, OpenAfter, At, Forms, Saving
  <2>4. call' \in [Procs -> Calls] /\ Forms'
    BY <1>1, <2>1, <2>2, <2>3 DEF Saving, Ends
  <2> QED
    BY <1>11, <2>4 DEF OpenBefore, OpenAfter, TypeOK
<1>12. ASSUME NEW p \in Procs, StartSweep(p) PROVE TypeOK' /\ Forms'
  BY <1>12, PastTypes DEF StartSweep, TypeOK, Forms
<1>13. ASSUME NEW p \in Procs, SweepKeys(p) PROVE TypeOK' /\ Forms'
  BY <1>13, PastTypes DEF SweepKeys, TypeOK, Forms
<1>14. ASSUME NEW p \in Procs, Zero(p) PROVE TypeOK' /\ Forms'
  <2>1. records' \in [Parts -> Record \cup {None}]
    <3>1. CASE records' = records
      BY <3>1 DEF TypeOK
    <3>2. ASSUME NEW x \in Parts, records[x] # None,
                 records' = [records EXCEPT ![x].whole = FALSE]
          PROVE  records' \in [Parts -> Record \cup {None}]
      <4>1. records[x] \in Record
        BY <3>2 DEF TypeOK
      <4>2. [records[x] EXCEPT !.whole = FALSE] \in Record
        BY <4>1 DEF Record
      <4> QED
        BY <3>2, <4>2 DEF TypeOK
    <3> QED
      BY <1>14, <3>1, <3>2 DEF Zero
  <2>2. keys' \in [Days -> Parts \cup {None, Lost}]
    BY <1>14 DEF Zero, TypeOK
  <2> QED
    BY <1>14, <2>1, <2>2 DEF Zero, TypeOK, Forms
<1>15. ASSUME NEW p \in Procs, Unname(p) PROVE TypeOK' /\ Forms'
  BY <1>15 DEF Unname, TypeOK, Forms
<1>16. ASSUME NEW p \in Procs, Stay(p) PROVE TypeOK' /\ Forms'
  BY <1>16 DEF Stay, TypeOK, Forms
<1>17. ASSUME NEW p \in Procs, EndSweep(p) PROVE TypeOK' /\ Forms'
  BY <1>17 DEF EndSweep, TypeOK, Forms
<1>18. CASE Midnight
  BY <1>18, SnapshotsAssumption DEF Midnight, TypeOK, Forms, Days
<1>19. ASSUME NEW p \in Procs, Crash(p) PROVE TypeOK' /\ Forms'
  <2>1. call' \in [Procs -> Calls] /\ Forms'
    BY <1>2, <1>19 DEF Crash
  <2>2. crashes' \in 0 .. MaxCrashes /\ 0 \in Days
    BY <1>19, SnapshotsAssumption DEF Crash, TypeOK, Days
  <2> QED
    BY <1>19, <2>1, <2>2 DEF Crash, TypeOK
<1>20. CASE UNCHANGED vars
  BY <1>20 DEF vars, TypeOK, Forms
<1> QED
  BY <1>3, <1>4, <1>5, <1>6, <1>7, <1>8, <1>9, <1>10, <1>11, <1>12, <1>13, <1>14,
     <1>15, <1>16, <1>17, <1>18, <1>19, <1>20 DEF Next, CallStep, SweepStep

-----------------------------------------------------------------------------
(* Days and sweeps.                                                        *)

\* The part and the day of a call, and the days of a sweep, after a step.
LEMMA TimelyNext == TypeOK /\ Forms /\ Timely /\ [Next]_vars => Timely'
<1> SUFFICES ASSUME TypeOK, Forms, Timely, [Next]_vars PROVE Timely'
  OBVIOUS
<1> USE DEF files, sweep
<1>0. /\ today \in Nat /\ call \in [Procs -> Calls]
      /\ \A p \in Procs : call[p] \in Calls /\ call[p].day \in Nat
      /\ cut \in [Procs -> Days] /\ \A p \in Procs : cut[p] \in Nat
      /\ swept \in [Procs -> Days \cup {None}]
  BY SnapshotsAssumption DEF TypeOK, Days, Calls
<1>1. ASSUME NEW p \in Procs, NEW c, Become(p, c), UNCHANGED <<today, cut, swept>>,
             c.part = None \/ (c.day = today) \/ (call[p].part # None /\ c.day = call[p].day)
      PROVE  Timely'
  BY <1>0, <1>1 DEF Timely, Become
<1>2. ASSUME NEW p \in Procs, SaveFails(p) \/ LoadEnds(p) \/ Restart(p) PROVE Timely'
  BY <1>1, <1>2 DEF SaveFails, LoadEnds, Restart, NoCall
<1>3. ASSUME NEW p \in Procs, NEW e \in Events, SaveBefore(p, e) PROVE Timely'
  <2> DEFINE c == [NoCall EXCEPT !.at = "look", !.part = <<e, "before">>, !.day = today]
  <2>1. c.day = today
    BY DEF NoCall
  <2> QED
    BY <1>1, <1>3, <2>1 DEF SaveBefore
<1>4. ASSUME NEW p \in Procs, SaveAfter(p) PROVE Timely'
  <2> DEFINE c == [call[p] EXCEPT !.at = "look", !.part = <<call[p].part[1], "after">>,
                                  !.key = None]
  <2>1. c.day = call[p].day /\ call[p].part # None
    BY <1>0, <1>4 DEF SaveAfter, At, Forms, Saving, Calls
  <2> QED
    BY <1>1, <1>4, <2>1 DEF SaveAfter, NoCall
<1>5. ASSUME NEW p \in Procs, call[p].at \in Saving, UNCHANGED <<today, cut, swept>>,
             \/ \E k : Become(p, [call[p] EXCEPT !.at = "keep", !.key = k])
             \/ \E k : Become(p, [call[p] EXCEPT !.at = "linked", !.key = k])
             \/ \E a : Become(p, [call[p] EXCEPT !.at = a])
             \/ Become(p, NoCall)
      PROVE  Timely'
  <2>1. call[p].part # None /\ call[p] \in Calls
    BY <1>0, <1>5 DEF Forms
  <2>2. \A k : /\ [call[p] EXCEPT !.at = "keep", !.key = k].day = call[p].day
               /\ [call[p] EXCEPT !.at = "linked", !.key = k].day = call[p].day
               /\ [call[p] EXCEPT !.at = k].day = call[p].day
    BY <2>1 DEF Calls
  <2>3. NoCall.part = None
    BY DEF NoCall
  <2> QED
    BY <1>1, <1>5, <2>1, <2>2, <2>3
<1>6. ASSUME NEW p \in Procs, LookForKey(p) \/ NameKey(p) \/ TakeKey(p) \/ KeepRecord(p)
      PROVE  Timely'
  BY <1>5, <1>6 DEF LookForKey, NameKey, TakeKey, KeepRecord, At, Saving
<1>7. ASSUME NEW p \in Procs, OpenBefore(p) \/ OpenAfter(p) PROVE Timely'
  <2>1. PICK a : Become(p, [call[p] EXCEPT !.at = a])
    BY <1>7 DEF OpenBefore, OpenAfter
  <2>2. [call[p] EXCEPT !.at = a].part = None
    BY <1>0, <1>7 DEF OpenBefore, OpenAfter, At, Forms, Saving, Calls
  <2>3. UNCHANGED <<today, cut, swept>>
    BY <1>7 DEF OpenBefore, OpenAfter
  <2> QED
    BY <1>1, <2>1, <2>2, <2>3
<1>8. ASSUME NEW p \in Procs, NEW e \in Events, LoadStart(p, e) PROVE Timely'
  <2>1. PICK c : Become(p, c) /\ c.part = None
    <3>1. \A d : [NoCall EXCEPT !.at = "damaged", !.day = d].part = None
      BY DEF NoCall
    <3>2. [NoCall EXCEPT !.at = "missing"].part = None
      BY DEF NoCall
    <3>3. \A d, k, l : [at |-> "open", part |-> None, day |-> d, key |-> k,
                        second |-> l].part = None
      OBVIOUS
    <3>4. \/ \E d : Become(p, [NoCall EXCEPT !.at = "damaged", !.day = d])
          \/ Become(p, [NoCall EXCEPT !.at = "missing"])
          \/ \E d, k, l : Become(p, [at |-> "open", part |-> None, day |-> d,
                                     key |-> k, second |-> l])
      BY <1>8 DEF LoadStart
    <3>5. CASE \E d : Become(p, [NoCall EXCEPT !.at = "damaged", !.day = d])
      BY <3>1, <3>5
    <3>6. CASE \E d, k, l : Become(p, [at |-> "open", part |-> None, day |-> d,
                                       key |-> k, second |-> l])
      BY <3>3, <3>6
    <3> QED
      BY <3>2, <3>4, <3>5, <3>6
  <2>2. UNCHANGED <<today, cut, swept>>
    BY <1>8 DEF LoadStart
  <2> QED
    BY <1>1, <2>1, <2>2
<1>9. ASSUME NEW p \in Procs, StartSweep(p) \/ EndSweep(p) PROVE Timely'
  <2>1. CASE StartSweep(p)
    BY <1>0, <2>1 DEF StartSweep, Timely
  <2>2. CASE EndSweep(p)
    BY <1>0, <2>2 DEF EndSweep, Timely
  <2> QED
    BY <1>9, <2>1, <2>2
<1>10. ASSUME NEW p \in Procs, SweepKeys(p) \/ Zero(p) \/ Unname(p) \/ Stay(p)
       PROVE  Timely'
  BY <1>10 DEF SweepKeys, Zero, Unname, Stay, Timely
<1>11. CASE Midnight
  <2>1. \A p \in Procs : swept[p] # None => swept[p] \in Nat
    BY <1>0 DEF Days
  <2> QED
    BY <1>0, <1>11, <2>1 DEF Midnight, Timely
<1>12. ASSUME NEW p \in Procs, Crash(p) PROVE Timely'
  <2>1. [NoCall EXCEPT !.at = "down"].part = None
    BY DEF NoCall
  <2> QED
    BY <1>0, <1>12, <2>1 DEF Crash, Become, Timely
<1>13. CASE UNCHANGED vars
  BY <1>13 DEF vars, Timely
<1> QED
  BY <1>2, <1>3, <1>4, <1>6, <1>7, <1>8, <1>9, <1>10, <1>11, <1>12, <1>13
     DEF Next, CallStep, SweepStep

\* What is past for a sweep is not made again: a save is of today or of
\* yesterday, and the retention is at least a day.
LEMMA NothingPastIsMade ==
    ASSUME TypeOK, Forms, Timely, [Next]_vars,
           NEW d \in Days, d <= today, ~ \E p \in Procs : Unname(p)
    PROVE  /\ PastRecords(d)' \subseteq PastRecords(d)
           /\ PastKeys(d)' \subseteq PastKeys(d)
           /\ PastTemps(d)' \subseteq PastTemps(d)
<1> USE DEF files, sweep
<1>1. ASSUME NEW p \in Procs, call[p].part # None PROVE ~Past(call[p].day, d)
  <2>1. call[p].day \in Nat /\ d \in Nat /\ today \in Nat
    BY DEF TypeOK, Calls, Days
  <2>2. today <= call[p].day + 1
    BY <1>1 DEF Timely
  <2> QED
    BY <2>1, <2>2, SnapshotsAssumption DEF Past
<1>2. CASE UNCHANGED <<records, keys, temps>>
  BY <1>2 DEF PastRecords, PastKeys, PastTemps
<1>3. ASSUME NEW p \in Procs, LookForKey(p)
      PROVE  /\ PastRecords(d)' = PastRecords(d) /\ PastKeys(d)' = PastKeys(d)
             /\ PastTemps(d)' = PastTemps(d)
  <2>1. call[p].part # None
    BY <1>3 DEF LookForKey, At, Forms, Saving
  <2> QED
    BY <1>1, <1>3, <2>1 DEF LookForKey, PastRecords, PastKeys, PastTemps
<1>4. ASSUME NEW p \in Procs, NameKey(p)
      PROVE  /\ PastRecords(d)' = PastRecords(d) /\ PastKeys(d)' = PastKeys(d)
             /\ PastTemps(d)' = PastTemps(d)
  <2>1. call[p].part # None
    BY <1>4 DEF NameKey, Forms, Saving
  <2> QED
    BY <1>1, <1>4, <2>1 DEF NameKey, PastRecords, PastKeys, PastTemps, TypeOK
<1>5. ASSUME NEW p \in Procs, TakeKey(p)
      PROVE  /\ PastRecords(d)' = PastRecords(d) /\ PastKeys(d)' = PastKeys(d)
             /\ PastTemps(d)' \subseteq PastTemps(d)
  BY <1>5 DEF TakeKey, PastRecords, PastKeys, PastTemps
<1>6. ASSUME NEW p \in Procs, KeepRecord(p)
      PROVE  /\ PastRecords(d)' \subseteq PastRecords(d) /\ PastKeys(d)' = PastKeys(d)
             /\ PastTemps(d)' = PastTemps(d)
  <2>1. call[p].part # None
    BY <1>6 DEF KeepRecord, At, Forms, Saving
  <2>2. \A x \in Parts \ {call[p].part} : records'[x] = records[x]
    BY <1>6 DEF KeepRecord, TypeOK
  <2>3. call[p].part \in Parts =>
            records'[call[p].part].day = call[p].day
    BY <1>6 DEF KeepRecord, TypeOK
  <2>4. PastRecords(d)' \subseteq PastRecords(d)
    BY <1>1, <2>1, <2>2, <2>3 DEF PastRecords
  <2> QED
    BY <1>6, <2>4 DEF KeepRecord, PastKeys, PastTemps
<1>7. ASSUME NEW p \in Procs, Zero(p)
      PROVE  /\ PastRecords(d)' \subseteq PastRecords(d)
             /\ PastKeys(d)' \subseteq PastKeys(d)
             /\ PastTemps(d)' = PastTemps(d)
  <2>1. \A x \in Parts : records'[x] # None =>
            records[x] # None /\ records'[x].day = records[x].day
    <3>1. CASE records' = records
      BY <3>1
    <3>2. ASSUME NEW x \in Parts, records[x] # None,
                 records' = [records EXCEPT ![x].whole = FALSE]
          PROVE  \A y \in Parts : records'[y] # None =>
                    records[y] # None /\ records'[y].day = records[y].day
      <4>1. records[x] \in Record
        BY <3>2 DEF TypeOK
      <4>2. [records[x] EXCEPT !.whole = FALSE].day = records[x].day
        BY <4>1 DEF Record
      <4> QED
        BY <3>2, <4>2 DEF TypeOK
    <3> QED
      BY <1>7, <3>1, <3>2 DEF Zero
  <2>2. \A c \in Days : keys'[c] # None => keys[c] # None
    BY <1>7, SnapshotsAssumption DEF Zero, TypeOK
  <2> QED
    BY <1>7, <2>1, <2>2 DEF Zero, PastRecords, PastKeys, PastTemps
<1>8. ASSUME NEW p \in Procs,
             \/ \E e \in Events : SaveBefore(p, e) \/ LoadStart(p, e)
             \/ SaveAfter(p) \/ SaveFails(p) \/ OpenBefore(p) \/ OpenAfter(p)
             \/ LoadEnds(p) \/ StartSweep(p) \/ SweepKeys(p) \/ Stay(p) \/ EndSweep(p)
             \/ Crash(p) \/ Restart(p)
      PROVE  UNCHANGED <<records, keys, temps>>
  BY <1>8 DEF SaveBefore, LoadStart, SaveAfter, SaveFails, OpenBefore, OpenAfter,
              LoadEnds, StartSweep, SweepKeys, Stay, EndSweep, Crash, Restart
<1>9. CASE Midnight \/ UNCHANGED vars
  BY <1>2, <1>9 DEF Midnight, vars
<1> QED
  BY <1>2, <1>3, <1>4, <1>5, <1>6, <1>7, <1>8, <1>9 DEF Next, CallStep, SweepStep

\* A name that goes is no longer past for anyone, and was the one removed.
LEMMA UnnameTakes ==
    ASSUME TypeOK, NEW p \in Procs, Unname(p), NEW d \in Days
    PROVE  \E x \in todo[p] :
             /\ todo' = [todo EXCEPT ![p] = @ \ {x}]
             /\ PastRecords(d)' \subseteq PastRecords(d) \ {x}
             /\ PastKeys(d)' \subseteq PastKeys(d) \ {x}
             /\ PastTemps(d)' \subseteq PastTemps(d) \ {x}
<1>1. PICK x \in todo[p] \ stuck :
        /\ records' = [y \in Parts |-> IF <<"record", y>> = x THEN None ELSE records[y]]
        /\ keys' = [c \in Days |-> IF <<"key", c>> = x THEN None ELSE keys[c]]
        /\ temps' = {t \in temps : <<"temp", t>> # x}
        /\ todo' = [todo EXCEPT ![p] = @ \ {x}]
  BY DEF Unname
<1>2. PastRecords(d)' \subseteq PastRecords(d) \ {x}
  BY <1>1 DEF PastRecords
<1>3. PastKeys(d)' \subseteq PastKeys(d) \ {x}
  BY <1>1 DEF PastKeys
<1>4. PastTemps(d)' \subseteq PastTemps(d) \ {x}
  BY <1>1 DEF PastTemps
<1> QED
  BY <1>1, <1>2, <1>3, <1>4

\* What was past only shrinks.
LEMMA PastShrinks ==
    ASSUME TypeOK, Forms, Timely, [Next]_vars, NEW d \in Days, d <= today
    PROVE  /\ PastRecords(d)' \subseteq PastRecords(d)
           /\ PastKeys(d)' \subseteq PastKeys(d)
           /\ PastTemps(d)' \subseteq PastTemps(d)
BY NothingPastIsMade, UnnameTakes

LEMMA SweepingNext ==
    TypeOK /\ Forms /\ Timely /\ Sweeping /\ Shredded /\ [Next]_vars
        => Sweeping' /\ Shredded'
<1> SUFFICES ASSUME TypeOK, Forms, Timely, Sweeping, Shredded, [Next]_vars
             PROVE  Sweeping' /\ Shredded'
  OBVIOUS
<1> USE DEF files, sweep
<1>0. /\ \A p \in Procs : cut[p] \in Days /\ cut[p] <= today
      /\ \A p \in Procs : swept[p] # None => swept[p] \in Days /\ swept[p] <= today
      /\ spc \in [Procs -> {"idle", "records", "keys"}] /\ cut \in [Procs -> Days]
      /\ todo \in [Procs -> SUBSET Entries] /\ stayed \in [Procs -> BOOLEAN]
      /\ swept \in [Procs -> Days \cup {None}]
  BY DEF TypeOK, Timely
<1>1. ASSUME NEW q \in Procs
      PROVE  /\ SweepKeys(q) \/ Unname(q) => UNCHANGED <<cut, stayed, swept>>
             /\ Unname(q) => UNCHANGED spc
             /\ Zero(q) => UNCHANGED <<spc, cut, todo, stayed, swept>>
             /\ Stay(q) => UNCHANGED <<spc, cut, swept>>
             /\ StartSweep(q) \/ SweepKeys(q) \/ Stay(q) \/ EndSweep(q) \/ Crash(q)
                    => UNCHANGED <<records, keys, temps>>
             /\ CallStep(q) \/ Restart(q) => UNCHANGED sweep
             /\ \A e \in Events : SaveBefore(q, e) \/ LoadStart(q, e) => UNCHANGED sweep
  BY DEF SweepKeys, Unname, Zero, Stay, StartSweep, EndSweep, Crash, CallStep, Restart,
         SaveBefore, LoadStart, SaveAfter, LookForKey, NameKey, TakeKey, KeepRecord,
         SaveFails, OpenBefore, OpenAfter, LoadEnds
<1>2. CASE UNCHANGED sweep
  <2>1. ASSUME NEW p \in Procs, NEW d, d = cut[p], spc[p] # "idle", ~stayed[p]
        PROVE  /\ PastRecords(d)' \subseteq todo[p]
               /\ spc[p] = "keys" => PastKeys(d)' \cup PastTemps(d)' \subseteq todo[p]
    BY <1>0, <2>1, PastShrinks DEF Sweeping
  <2>2. ASSUME NEW p \in Procs, NEW d, d = swept[p], d # None
        PROVE  PastRecords(d)' \cup PastKeys(d)' \cup PastTemps(d)' = {}
    BY <1>0, <2>2, PastShrinks DEF Shredded
  <2> QED
    BY <1>2, <2>1, <2>2 DEF Sweeping, Shredded, PastRecords, PastKeys, PastTemps
<1>3. ASSUME NEW q \in Procs, Unname(q) PROVE Sweeping' /\ Shredded'
  <2>1. UNCHANGED <<spc, cut, stayed, swept>>
    BY <1>1, <1>3
  <2>2. ASSUME NEW p \in Procs, NEW d, d = cut[p], spc[p] # "idle", ~stayed[p]
        PROVE  /\ PastRecords(d)' \subseteq todo'[p]
               /\ spc[p] = "keys" => PastKeys(d)' \cup PastTemps(d)' \subseteq todo'[p]
    <3>1. PICK x \in todo[q] :
             /\ todo' = [todo EXCEPT ![q] = @ \ {x}]
             /\ PastRecords(d)' \subseteq PastRecords(d) \ {x}
             /\ PastKeys(d)' \subseteq PastKeys(d) \ {x}
             /\ PastTemps(d)' \subseteq PastTemps(d) \ {x}
      BY <1>0, <1>3, <2>2, UnnameTakes
    <3>2. /\ PastRecords(d) \subseteq todo[p]
          /\ spc[p] = "keys" => PastKeys(d) \cup PastTemps(d) \subseteq todo[p]
      BY <2>2 DEF Sweeping
    <3>3. todo[p] \ {x} \subseteq todo'[p]
      BY <1>0, <3>1
    <3> QED
      BY <3>1, <3>2, <3>3
  <2>3. ASSUME NEW p \in Procs, NEW d, d = swept[p], d # None
        PROVE  PastRecords(d)' \cup PastKeys(d)' \cup PastTemps(d)' = {}
    BY <1>0, <2>3, PastShrinks DEF Shredded
  <2> QED
    BY <2>1, <2>2, <2>3 DEF Sweeping, Shredded, PastRecords, PastKeys, PastTemps
<1>4. ASSUME NEW q \in Procs, StartSweep(q) PROVE Sweeping' /\ Shredded'
  <2>1. UNCHANGED <<records, keys, temps, swept>>
    BY <1>1, <1>4 DEF StartSweep
  <2>2. /\ \A p \in Procs \ {q} : /\ spc'[p] = spc[p] /\ cut'[p] = cut[p]
                                  /\ todo'[p] = todo[p] /\ stayed'[p] = stayed[p]
        /\ spc'[q] = "records" /\ cut'[q] = today /\ todo'[q] = PastRecords(today)
    BY <1>0, <1>4 DEF StartSweep
  <2>3. Sweeping'
    BY <2>1, <2>2 DEF Sweeping, PastRecords, PastKeys, PastTemps
  <2> QED
    BY <2>1, <2>3 DEF Shredded, PastRecords, PastKeys, PastTemps
<1>5. ASSUME NEW q \in Procs, SweepKeys(q) PROVE Sweeping' /\ Shredded'
  <2>1. UNCHANGED <<records, keys, temps, cut, stayed, swept>>
    BY <1>1, <1>5
  <2>2. /\ \A p \in Procs \ {q} : spc'[p] = spc[p] /\ todo'[p] = todo[p]
        /\ spc[q] = "records" /\ todo[q] = {}
        /\ todo'[q] = PastKeys(cut[q]) \cup PastTemps(cut[q])
    BY <1>0, <1>5 DEF SweepKeys
  <2>3. ~stayed[q] => PastRecords(cut[q]) = {}
    BY <2>2 DEF Sweeping
  <2>4. Sweeping'
    BY <2>1, <2>2, <2>3 DEF Sweeping, PastRecords, PastKeys, PastTemps
  <2> QED
    BY <2>1, <2>4 DEF Shredded, PastRecords, PastKeys, PastTemps
<1>6. ASSUME NEW q \in Procs, Stay(q) PROVE Sweeping' /\ Shredded'
  <2>1. UNCHANGED <<records, keys, temps, spc, cut, swept>>
    BY <1>1, <1>6
  <2>2. /\ \A p \in Procs \ {q} : todo'[p] = todo[p] /\ stayed'[p] = stayed[p]
        /\ stayed'[q]
    BY <1>0, <1>6 DEF Stay
  <2> QED
    BY <2>1, <2>2 DEF Sweeping, Shredded, PastRecords, PastKeys, PastTemps
<1>7. ASSUME NEW q \in Procs, EndSweep(q) PROVE Sweeping' /\ Shredded'
  <2>1. UNCHANGED <<records, keys, temps, cut, todo>>
    BY <1>1, <1>7 DEF EndSweep
  <2>2. /\ \A p \in Procs \ {q} : /\ spc'[p] = spc[p] /\ stayed'[p] = stayed[p]
                                  /\ swept'[p] = swept[p]
        /\ spc'[q] = "idle" /\ spc[q] = "keys" /\ todo[q] = {}
        /\ swept'[q] = IF stayed[q] THEN swept[q] ELSE cut[q]
    BY <1>0, <1>7 DEF EndSweep
  <2>3. ~stayed[q] =>
            PastRecords(cut[q]) \cup PastKeys(cut[q]) \cup PastTemps(cut[q]) = {}
    BY <2>2 DEF Sweeping
  <2>4. Sweeping'
    BY <2>1, <2>2 DEF Sweeping, PastRecords, PastKeys, PastTemps
  <2>5. Shredded'
    BY <2>1, <2>2, <2>3 DEF Shredded, PastRecords, PastKeys, PastTemps
  <2> QED
    BY <2>4, <2>5
<1>8. ASSUME NEW q \in Procs, Crash(q) PROVE Sweeping' /\ Shredded'
  <2>1. UNCHANGED <<records, keys, temps>>
    BY <1>1, <1>8
  <2>2. /\ \A p \in Procs \ {q} : /\ spc'[p] = spc[p] /\ cut'[p] = cut[p]
                                  /\ todo'[p] = todo[p] /\ stayed'[p] = stayed[p]
                                  /\ swept'[p] = swept[p]
        /\ spc'[q] = "idle" /\ swept'[q] = None
    BY <1>0, <1>8 DEF Crash
  <2> QED
    BY <2>1, <2>2 DEF Sweeping, Shredded, PastRecords, PastKeys, PastTemps
<1>9. CASE Midnight \/ UNCHANGED vars
  BY <1>2, <1>9 DEF Midnight, vars
<1> QED
  BY <1>1, <1>2, <1>3, <1>4, <1>5, <1>6, <1>7, <1>8, <1>9 DEF Next, SweepStep

-----------------------------------------------------------------------------
(* The theorems.                                                           *)

\* The invariant of the sweeps.
THEOREM SweepInvariant == Spec => []SweepInv
<1>1. SweepInv /\ [Next]_vars => SweepInv'
  BY TypeNext, TimelyNext, SweepingNext DEF SweepInv
<1> QED
  BY <1>1, SweepInvInit, PTL DEF Spec

\* Every variable keeps its type.
THEOREM TypeCorrect == Spec => []TypeOK
<1>1. SweepInv => TypeOK
  BY DEF SweepInv
<1> QED
  BY <1>1, SweepInvariant, PTL

\* After a sweep without an entry that stayed nothing of the days before is
\* left, for any number of processes that save, stop and sweep.
THEOREM SweptIsShredded == Spec => []Shredded
<1>1. SweepInv => Shredded
  BY DEF SweepInv
<1> QED
  BY <1>1, SweepInvariant, PTL

-----------------------------------------------------------------------------
(* A kept part opens.                                                      *)

\* What a step does to a call: it goes on with its part, ends, or is new.
LEMMA CallMoves ==
    ASSUME TypeOK, Forms, [Next]_vars, NEW p \in Procs
    PROVE  \/ call'[p] = call[p]
           \/ call'[p].part = None
           \/ \E e \in Events : SaveBefore(p, e)
           \/ SaveAfter(p) \/ LookForKey(p) \/ NameKey(p) \/ TakeKey(p) \/ KeepRecord(p)
<1> DEFINE Moves == \/ call'[p] = call[p]
                    \/ call'[p].part = None
                    \/ \E e \in Events : SaveBefore(p, e)
                    \/ SaveAfter(p) \/ LookForKey(p) \/ NameKey(p) \/ TakeKey(p)
                    \/ KeepRecord(p)
<1>0. call \in [Procs -> Calls] /\ \A q \in Procs : call[q] \in Calls
  BY DEF TypeOK
<1>1. ASSUME NEW q \in Procs, NEW c, Become(q, c), c.part = None PROVE Moves
  BY <1>0, <1>1 DEF Become
<1>2. ASSUME NEW q \in Procs, SaveFails(q) \/ LoadEnds(q) \/ Restart(q) \/ Crash(q)
      PROVE  Moves
  <2>1. NoCall.part = None /\ [NoCall EXCEPT !.at = "down"].part = None
    BY DEF NoCall
  <2> QED
    BY <1>1, <1>2, <2>1 DEF SaveFails, LoadEnds, Restart, Crash
<1>3. ASSUME NEW q \in Procs, OpenBefore(q) \/ OpenAfter(q) PROVE Moves
  <2>1. PICK a : Become(q, [call[q] EXCEPT !.at = a])
    BY <1>3 DEF OpenBefore, OpenAfter
  <2>2. [call[q] EXCEPT !.at = a].part = None
    BY <1>0, <1>3 DEF OpenBefore, OpenAfter, At, Forms, Saving, Calls
  <2> QED
    BY <1>1, <2>1, <2>2
<1>4. ASSUME NEW q \in Procs, NEW e \in Events, LoadStart(q, e) PROVE Moves
  <2>1. \A d : [NoCall EXCEPT !.at = "damaged", !.day = d].part = None
    BY DEF NoCall
  <2>2. [NoCall EXCEPT !.at = "missing"].part = None
    BY DEF NoCall
  <2>3. \A d, k, l : [at |-> "open", part |-> None, day |-> d, key |-> k,
                      second |-> l].part = None
    OBVIOUS
  <2>4. \/ \E d : Become(q, [NoCall EXCEPT !.at = "damaged", !.day = d])
        \/ Become(q, [NoCall EXCEPT !.at = "missing"])
        \/ \E d, k, l : Become(q, [at |-> "open", part |-> None, day |-> d,
                                   key |-> k, second |-> l])
    BY <1>4 DEF LoadStart
  <2>5. CASE \E d : Become(q, [NoCall EXCEPT !.at = "damaged", !.day = d])
    BY <1>1, <2>1, <2>5
  <2>6. CASE \E d, k, l : Become(q, [at |-> "open", part |-> None, day |-> d,
                                     key |-> k, second |-> l])
    BY <1>1, <2>3, <2>6
  <2> QED
    BY <1>1, <2>2, <2>4, <2>5, <2>6
<1>5. ASSUME NEW q \in Procs,
             \/ \E e \in Events : SaveBefore(q, e)
             \/ SaveAfter(q) \/ LookForKey(q) \/ NameKey(q) \/ TakeKey(q) \/ KeepRecord(q)
      PROVE  Moves
  <2>1. CASE q = p
    BY <1>5, <2>1
  <2>2. CASE q # p
    <3>1. PICK c : Become(q, c)
      BY <1>5 DEF SaveBefore, SaveAfter, LookForKey, NameKey, TakeKey, KeepRecord
    <3> QED
      BY <1>0, <2>2, <3>1 DEF Become
  <2> QED
    BY <2>1, <2>2
<1>6. ASSUME NEW q \in Procs, SweepStep(q) PROVE UNCHANGED call
  BY <1>6 DEF SweepStep, StartSweep, SweepKeys, Zero, Unname, Stay, EndSweep
<1>7. CASE Midnight \/ UNCHANGED vars
  BY <1>7 DEF Midnight, vars
<1> QED
  BY <1>2, <1>3, <1>4, <1>5, <1>6, <1>7 DEF Next, CallStep

\* A part not kept yet is kept by its own save only.
LEMMA UnkeptStays ==
    ASSUME TypeOK, [Next]_vars, NEW x \in Parts, Unkept(x),
           ~ \E p \in Procs : KeepRecord(p) /\ x = call[p].part
    PROVE  Unkept(x)'
<1> USE DEF files, sweep
<1>0. records \in [Parts -> Record \cup {None}] /\ todo \in [Procs -> SUBSET Entries]
  BY DEF TypeOK
<1>1. CASE UNCHANGED <<records, todo>>
  BY <1>1 DEF Unkept
<1>2. ASSUME NEW p \in Procs, KeepRecord(p) PROVE Unkept(x)'
  BY <1>0, <1>2 DEF KeepRecord, Unkept
<1>3. ASSUME NEW p \in Procs, StartSweep(p) PROVE Unkept(x)'
  <2>1. <<"record", x>> \notin PastRecords(today)
    BY DEF Unkept, PastRecords
  <2> QED
    BY <1>0, <1>3, <2>1 DEF StartSweep, Unkept
<1>4. ASSUME NEW p \in Procs, SweepKeys(p) PROVE Unkept(x)'
  <2>1. <<"record", x>> \notin PastKeys(cut[p]) \cup PastTemps(cut[p])
    BY DEF PastKeys, PastTemps
  <2> QED
    BY <1>0, <1>4, <2>1 DEF SweepKeys, Unkept
<1>5. ASSUME NEW p \in Procs, Zero(p) PROVE Unkept(x)'
  BY <1>0, <1>5 DEF Zero, Unkept
<1>6. ASSUME NEW p \in Procs, Unname(p) PROVE Unkept(x)'
  BY <1>0, <1>6 DEF Unname, Unkept
<1>7. ASSUME NEW p \in Procs, Stay(p) PROVE Unkept(x)'
  BY <1>0, <1>7 DEF Stay, Unkept
<1>8. ASSUME NEW p \in Procs, Crash(p) PROVE Unkept(x)'
  BY <1>0, <1>8 DEF Crash, Unkept
<1>9. ASSUME NEW p \in Procs,
             \/ \E e \in Events : SaveBefore(p, e) \/ LoadStart(p, e)
             \/ SaveAfter(p) \/ LookForKey(p) \/ NameKey(p) \/ TakeKey(p) \/ SaveFails(p)
             \/ OpenBefore(p) \/ OpenAfter(p) \/ LoadEnds(p) \/ EndSweep(p) \/ Restart(p)
      PROVE  UNCHANGED <<records, todo>>
  BY <1>9 DEF SaveBefore, LoadStart, SaveAfter, LookForKey, NameKey, TakeKey, SaveFails,
              OpenBefore, OpenAfter, LoadEnds, EndSweep, Restart
<1>10. CASE Midnight \/ UNCHANGED vars
  BY <1>1, <1>10 DEF Midnight, vars
<1> QED
  BY <1>1, <1>2, <1>3, <1>4, <1>5, <1>6, <1>7, <1>8, <1>9, <1>10
     DEF Next, CallStep, SweepStep

\* The IDs taken are only ever more, by one new save.
LEMMA UsedGrows ==
    ASSUME TypeOK, [Next]_vars
    PROVE  /\ used \subseteq used'
           /\ \A p \in Procs, e \in Events : SaveBefore(p, e) => e \in used' /\ e \notin used
<1>1. UNCHANGED used \/ \E p \in Procs, e \in Events : SaveBefore(p, e)
  BY DEF Next, CallStep, SweepStep, LoadStart, SaveAfter, LookForKey, NameKey, TakeKey,
         KeepRecord, SaveFails, OpenBefore, OpenAfter, LoadEnds, StartSweep, SweepKeys,
         Zero, Unname, Stay, EndSweep, Crash, Restart, Midnight, vars
<1> QED
  BY <1>1 DEF SaveBefore

\* What each step of a save makes of its call.
LEMMA SaveSteps ==
    ASSUME TypeOK, Forms, NEW p \in Procs
    PROVE  /\ \A e \in Events : SaveBefore(p, e) =>
                  /\ call'[p].part = <<e, "before">> /\ call'[p].at = "look"
                  /\ call'[p].key = None /\ call'[p].day = today
           /\ SaveAfter(p) =>
                  \/ call'[p].part = None
                  \/ /\ call[p].part \in Events \X {"before"}
                     /\ call[p].part[1] \in Creates
                     /\ call'[p].part = <<call[p].part[1], "after">>
                     /\ call'[p].at = "look" /\ call'[p].key = None
                     /\ call'[p].day = call[p].day
           /\ LookForKey(p) =>
                  /\ call[p].at = "look" /\ keys' = keys
                  /\ call'[p].part = call[p].part /\ call'[p].day = call[p].day
                  /\ \/ call'[p].at = "make" /\ call'[p].key = call[p].key
                     \/ call'[p].at = "keep" /\ call'[p].key = keys[call[p].day]
           /\ NameKey(p) =>
                  /\ call[p].at = "make" /\ call'[p].at = "linked"
                  /\ call'[p].part = call[p].part /\ call'[p].day = call[p].day
                  /\ \/ call'[p].key = call[p].part /\ keys[call[p].day] = None
                        /\ keys' = [keys EXCEPT ![call[p].day] = call[p].part]
                     \/ call'[p].key = call[p].key /\ keys' = keys
           /\ TakeKey(p) => \/ call'[p].part = None
                            \/ /\ call[p].at = "linked" /\ keys' = keys
                               /\ call'[p].at = "keep"
                               /\ call'[p].part = call[p].part
                               /\ call'[p].day = call[p].day
                               /\ call'[p].key = IF call[p].key # None THEN call[p].key
                                                 ELSE keys[call[p].day]
           /\ KeepRecord(p) => \/ call'[p].part = None
                               \/ /\ call'[p].at = "kept" /\ call[p].at = "keep"
                                  /\ call'[p].part = call[p].part
<1>0. call \in [Procs -> Calls] /\ call[p] \in Calls
  BY DEF TypeOK
<1>1. \A c : Become(p, c) => call'[p] = c
  BY <1>0 DEF Become
<1>2. NoCall.part = None
  BY DEF NoCall
<1>3. ASSUME NEW e \in Events, SaveBefore(p, e)
      PROVE  /\ call'[p].part = <<e, "before">> /\ call'[p].at = "look"
             /\ call'[p].key = None /\ call'[p].day = today
  BY <1>0, <1>3 DEF SaveBefore, Become, NoCall
<1>4. ASSUME SaveAfter(p)
      PROVE  \/ call'[p].part = None
             \/ /\ call[p].part \in Events \X {"before"}
                /\ call[p].part[1] \in Creates
                /\ call'[p].part = <<call[p].part[1], "after">>
                /\ call'[p].at = "look" /\ call'[p].key = None
                /\ call'[p].day = call[p].day
  <2>1. CASE Become(p, NoCall)
    BY <1>1, <1>2, <2>1
  <2>2. CASE /\ call[p].part[1] \in Creates
             /\ Become(p, [call[p] EXCEPT !.at = "look",
                             !.part = <<call[p].part[1], "after">>, !.key = None])
    <3>1. call[p].part \in Events \X {"before"}
      BY <1>4 DEF SaveAfter, At, Forms
    <3> QED
      BY <1>0, <1>1, <2>2, <3>1 DEF Calls
  <2> QED
    BY <1>4, <2>1, <2>2 DEF SaveAfter
<1>5. ASSUME LookForKey(p)
      PROVE  /\ call[p].at = "look" /\ keys' = keys
             /\ call'[p].part = call[p].part /\ call'[p].day = call[p].day
             /\ \/ call'[p].at = "make" /\ call'[p].key = call[p].key
                \/ call'[p].at = "keep" /\ call'[p].key = keys[call[p].day]
  <2>1. CASE Become(p, [call[p] EXCEPT !.at = "make"])
    BY <1>0, <1>1, <1>5, <2>1 DEF LookForKey, At, Calls
  <2>2. CASE Become(p, [call[p] EXCEPT !.at = "keep", !.key = keys[call[p].day]])
    BY <1>0, <1>1, <1>5, <2>2 DEF LookForKey, At, Calls
  <2> QED
    BY <1>5, <2>1, <2>2 DEF LookForKey
<1>6. ASSUME NameKey(p)
      PROVE  /\ call[p].at = "make" /\ call'[p].at = "linked"
             /\ call'[p].part = call[p].part /\ call'[p].day = call[p].day
             /\ \/ call'[p].key = call[p].part /\ keys[call[p].day] = None
                   /\ keys' = [keys EXCEPT ![call[p].day] = call[p].part]
                \/ call'[p].key = call[p].key /\ keys' = keys
  <2>1. CASE /\ keys[call[p].day] = None
             /\ keys' = [keys EXCEPT ![call[p].day] = call[p].part]
             /\ Become(p, [call[p] EXCEPT !.at = "linked", !.key = call[p].part])
    BY <1>0, <1>1, <1>6, <2>1 DEF NameKey, Calls
  <2>2. CASE keys' = keys /\ Become(p, [call[p] EXCEPT !.at = "linked"])
    BY <1>0, <1>1, <1>6, <2>2 DEF NameKey, Calls
  <2> QED
    BY <1>6, <2>1, <2>2 DEF NameKey
<1>7. ASSUME TakeKey(p)
      PROVE  \/ call'[p].part = None
             \/ /\ call[p].at = "linked" /\ keys' = keys
                /\ call'[p].at = "keep"
                /\ call'[p].part = call[p].part
                /\ call'[p].day = call[p].day
                /\ call'[p].key = IF call[p].key # None THEN call[p].key
                                  ELSE keys[call[p].day]
  <2> DEFINE k == IF call[p].key # None THEN call[p].key ELSE keys[call[p].day]
  <2>1. CASE k \in Parts
    <3>1. call'[p] = [call[p] EXCEPT !.at = "keep", !.key = k]
      BY <1>1, <1>7, <2>1 DEF TakeKey
    <3> QED
      BY <1>0, <1>7, <3>1 DEF TakeKey, Calls
  <2>2. CASE k \notin Parts
    BY <1>1, <1>2, <1>7, <2>2 DEF TakeKey
  <2> QED
    BY <2>1, <2>2
<1>8. ASSUME KeepRecord(p)
      PROVE  \/ call'[p].part = None
             \/ /\ call'[p].at = "kept" /\ call[p].at = "keep"
                /\ call'[p].part = call[p].part
  <2>1. CASE Become(p, [call[p] EXCEPT !.at = "kept"])
    BY <1>0, <1>1, <1>8, <2>1 DEF KeepRecord, At, Calls
  <2>2. CASE Become(p, NoCall)
    BY <1>1, <1>2, <2>2
  <2> QED
    BY <1>8, <2>1, <2>2 DEF KeepRecord
<1> QED
  BY <1>3, <1>4, <1>5, <1>6, <1>7, <1>8

\* Where the part of a save came from.
LEMMA PartMoves ==
    ASSUME TypeOK, Forms, [Next]_vars, NEW p \in Procs, call'[p].part # None
    PROVE  \/ \E e \in Events : /\ SaveBefore(p, e) /\ call'[p].part = <<e, "before">>
                                /\ call'[p].at = "look"
           \/ \E e \in Creates : /\ call[p].part = <<e, "before">>
                                 /\ call'[p].part = <<e, "after">>
                                 /\ call'[p].at = "look"
           \/ /\ call'[p].part = call[p].part
              /\ KeepRecord(p) => call'[p].at = "kept"
              /\ call'[p].at # "kept" => call[p].at # "kept"
<1>0. call \in [Procs -> Calls] /\ call[p] \in Calls
  BY DEF TypeOK
<1>1. CASE call'[p] = call[p]
  <2>1. KeepRecord(p) => call'[p].at = "kept"
    BY <1>1, SaveSteps DEF KeepRecord, At
  <2> QED
    BY <1>1, <2>1
<1>2. CASE \E e \in Events : SaveBefore(p, e)
  BY <1>2, SaveSteps
<1>3. CASE SaveAfter(p)
  BY <1>3, SaveSteps
<1>4. CASE LookForKey(p)
  BY <1>4, SaveSteps DEF LookForKey, KeepRecord, At
<1>5. CASE NameKey(p)
  BY <1>5, SaveSteps DEF KeepRecord, At
<1>6. CASE TakeKey(p)
  BY <1>6, SaveSteps DEF KeepRecord, At
<1>7. CASE KeepRecord(p)
  BY <1>7, SaveSteps
<1> QED
  BY <1>1, <1>2, <1>3, <1>4, <1>5, <1>6, <1>7, CallMoves

LEMMA OwnedNext == SweepInv /\ Owned /\ [Next]_vars => Owned'
<1> SUFFICES ASSUME SweepInv, Owned, [Next]_vars PROVE Owned'
  OBVIOUS
<1>0. /\ TypeOK /\ Forms
      /\ call \in [Procs -> Calls] /\ \A p \in Procs : call[p].part \in Parts \cup {None}
  BY DEF SweepInv, TypeOK, Calls
<1>1. \A p \in Procs : call[p].part # None => call[p].part[1] \in used
  BY DEF Owned
<1>2. \A p, q \in Procs : p # q /\ call[p].part # None /\ call[q].part # None
         => call[p].part[1] # call[q].part[1]
  BY DEF Owned
<1>3. used \subseteq used'
  BY <1>0, UsedGrows
<1>4. \A p \in Procs : KeepRecord(p) => call[p].part # None
  BY <1>0 DEF KeepRecord, At, Forms, Saving
\* What is not kept and not being kept stays so.
<1>5. ASSUME NEW p \in Procs, NEW x \in Parts, Unkept(x), call[p].part # None,
             x[1] = call[p].part[1], ~(KeepRecord(p) /\ x = call[p].part)
      PROVE  Unkept(x)'
  <2>1. ~ \E q \in Procs : KeepRecord(q) /\ x = call[q].part
    BY <1>2, <1>4, <1>5
  <2> QED
    BY <1>0, <1>5, <2>1, UnkeptStays
<1>6. ASSUME NEW x \in Parts, x[1] \notin used PROVE Unkept(x)'
  <2>1. Unkept(x)
    BY <1>6 DEF Owned
  <2>2. ~ \E q \in Procs : KeepRecord(q) /\ x = call[q].part
    BY <1>1, <1>4, <1>6
  <2> QED
    BY <1>0, <2>1, <2>2, UnkeptStays
<1>7. \A x \in Parts : ~Unkept(x)' => x[1] \in used'
  <2> SUFFICES ASSUME NEW x \in Parts, ~Unkept(x)', x[1] \notin used' PROVE FALSE
    OBVIOUS
  <2> QED
    BY <1>3, <1>6
<1> DEFINE Fits(p) ==
             /\ call'[p].part[1] \in used'
             /\ call'[p].at # "kept" => Unkept(call[p].part)'
             /\ call'[p].part[2] = "before" /\ call'[p].part[1] \in Creates
                    => Unkept(<<call[p].part[1], "after">>)'
<1>8. ASSUME NEW p \in Procs, call'[p].part # None PROVE Fits(p)
  <2>1. ASSUME NEW e \in Events, SaveBefore(p, e), call'[p].part = <<e, "before">>
        PROVE  Fits(p)
    <3>1. e \notin used /\ e \in used'
      BY <1>0, <2>1, UsedGrows
    <3>2. <<e, "before">> \in Parts
      BY DEF Parts
    <3>3. <<e, "before">>[1] = e /\ <<e, "after">>[1] = e
      OBVIOUS
    <3>4. Unkept(<<e, "before">>)'
      BY <1>6, <3>1, <3>2, <3>3
    <3>5. e \in Creates => Unkept(<<e, "after">>)'
      BY <1>6, <3>1, <3>3 DEF Parts
    <3> QED
      BY <2>1, <3>1, <3>3, <3>4, <3>5
  <2>2. ASSUME NEW e \in Creates, call[p].part = <<e, "before">>,
               call'[p].part = <<e, "after">>
        PROVE  Fits(p)
    <3>1. call[p].part # None
      BY <2>2, SnapshotsAssumption DEF Parts
    <3>2. Unkept(<<e, "after">>)
      BY <2>2, <3>1 DEF Owned
    <3>3. <<e, "after">> \in Parts
      BY DEF Parts
    <3>4. Unkept(<<e, "after">>)'
      BY <1>5, <2>2, <3>1, <3>2, <3>3
    <3>5. call[p].part[1] \in used /\ <<e, "before">>[1] = e
      BY <1>1, <3>1
    <3>6. e \in used'
      BY <1>3, <2>2, <3>5
    <3> QED
      BY <2>2, <3>4, <3>6
  <2>3. ASSUME call'[p].part = call[p].part,
               KeepRecord(p) => call'[p].at = "kept",
               call'[p].at # "kept" => call[p].at # "kept"
        PROVE  Fits(p)
    <3>1. call[p].part # None /\ call[p].part \in Parts
      BY <1>0, <1>8, <2>3
    <3>2. call'[p].at # "kept" => Unkept(call[p].part)'
      <4> SUFFICES ASSUME call'[p].at # "kept" PROVE Unkept(call[p].part)'
        OBVIOUS
      <4>1. Unkept(call[p].part) /\ ~KeepRecord(p)
        BY <2>3, <3>1 DEF Owned
      <4> DEFINE x == call[p].part
      <4>2. \A y \in Parts : y = x => Unkept(y)'
        BY <1>5, <3>1, <4>1
      <4> QED
        BY <2>3, <3>1, <4>2
    <3>3. call[p].part[2] = "before" /\ call[p].part[1] \in Creates
             => Unkept(<<call[p].part[1], "after">>)'
      <4> SUFFICES ASSUME call[p].part[2] = "before", call[p].part[1] \in Creates
                   PROVE  Unkept(<<call[p].part[1], "after">>)'
        OBVIOUS
      <4>1. PICK e \in Creates : e = call[p].part[1]
        OBVIOUS
      <4>2. Unkept(<<e, "after">>) /\ <<e, "after">> \in Parts
        BY <3>1, <4>1 DEF Owned, Parts
      <4>3. <<e, "after">>[1] = e /\ <<e, "after">> # call[p].part
        OBVIOUS
      <4>4. Unkept(<<e, "after">>)'
        BY <1>5, <3>1, <4>1, <4>2, <4>3
      <4> QED
        BY <2>3, <4>1, <4>4
    <3>4. call'[p].part[1] \in used'
      BY <1>1, <1>3, <2>3, <3>1
    <3> QED
      BY <2>3, <3>2, <3>3, <3>4
  <2> QED
    BY <1>0, <1>8, <2>1, <2>2, <2>3, PartMoves
<1>9. ASSUME NEW p \in Procs, NEW q \in Procs \ {p},
             call'[p].part # None, call'[q].part # None
      PROVE  call'[q].part[1] # call'[p].part[1]
  <2>1. ASSUME NEW r \in Procs, call'[r].part # None
        PROVE  \/ call[r].part # None /\ call'[r].part[1] = call[r].part[1]
               \/ \E e \in Events : SaveBefore(r, e) /\ call'[r].part[1] = e
    <3>1. CASE \E e \in Creates : /\ call[r].part = <<e, "before">>
                                  /\ call'[r].part = <<e, "after">>
      <4>1. call[r].part # None
        BY <3>1, SnapshotsAssumption DEF Parts
      <4> QED
        BY <3>1, <4>1
    <3> QED
      BY <1>0, <2>1, <3>1, PartMoves
  <2>2. ASSUME NEW r \in Procs, NEW s \in Procs \ {r}, NEW e \in Events,
               SaveBefore(r, e), call'[r].part[1] = e,
               call'[r].part # None, call'[s].part # None
        PROVE  call'[s].part[1] # call'[r].part[1]
    <3>1. call'[s] = call[s] /\ e \notin used
      BY <1>0, <2>2 DEF SaveBefore, Become
    <3> QED
      BY <1>1, <2>2, <3>1
  <2>3. CASE \E e \in Events : SaveBefore(p, e) /\ call'[p].part[1] = e
    BY <1>9, <2>2, <2>3
  <2>4. CASE \E e \in Events : SaveBefore(q, e) /\ call'[q].part[1] = e
    <3>1. p \in Procs \ {q}
      BY <1>9
    <3> QED
      BY <1>9, <2>2, <2>4, <3>1
  <2> QED
    BY <1>2, <1>9, <2>1, <2>3, <2>4
<1> QED
  BY <1>7, <1>8, <1>9 DEF Owned

\* A day that is past stays past.
LEMMA PastGoesOn ==
    ASSUME TypeOK, [Next]_vars
    PROVE  /\ today \in Nat /\ today' \in Nat /\ today <= today'
           /\ \A d \in Days : Past(d, today) => Past(d, today')
<1>1. UNCHANGED today \/ today' = today + 1
  BY DEF Next, CallStep, SweepStep, SaveBefore, LoadStart, SaveAfter, LookForKey, NameKey,
         TakeKey, KeepRecord, SaveFails, OpenBefore, OpenAfter, LoadEnds, StartSweep,
         SweepKeys, Zero, Unname, Stay, EndSweep, Crash, Restart, Midnight, vars
<1>2. today \in Nat /\ Retention \in Nat
  BY SnapshotsAssumption DEF TypeOK, Days
<1> QED
  BY <1>1, <1>2 DEF Past, Days

\* What a step makes of the records: a new one, or one past goes.
LEMMA RecordsMove ==
    ASSUME TypeOK, Going, [Next]_vars, NEW x \in Parts
    PROVE  \/ records'[x] = records[x] \/ records'[x] = None
           \/ \E p \in Procs : KeepRecord(p) /\ x = call[p].part
           \/ /\ records[x] # None /\ Past(records[x].day, today)
              /\ records'[x].day = records[x].day
<1> USE DEF files
<1> DEFINE Moves == \/ records'[x] = records[x] \/ records'[x] = None
                    \/ \E p \in Procs : KeepRecord(p) /\ x = call[p].part
                    \/ /\ records[x] # None /\ Past(records[x].day, today)
                       /\ records'[x].day = records[x].day
<1>0. records \in [Parts -> Record \cup {None}] /\ todo \in [Procs -> SUBSET Entries]
  BY DEF TypeOK
<1>1. CASE UNCHANGED records
  BY <1>1
<1>2. ASSUME NEW p \in Procs, KeepRecord(p) PROVE Moves
  <2>1. CASE x = call[p].part
    BY <1>2, <2>1
  <2>2. CASE x # call[p].part
    BY <1>0, <1>2, <2>2 DEF KeepRecord
  <2> QED
    BY <2>1, <2>2
<1>3. ASSUME NEW p \in Procs, Zero(p) PROVE Moves
  <2>1. CASE UNCHANGED records
    BY <2>1
  <2>2. ASSUME NEW y \in Parts, <<"record", y>> \in todo[p], records[y] # None,
               records' = [records EXCEPT ![y].whole = FALSE]
        PROVE  Moves
    <3>1. CASE x # y
      BY <1>0, <2>2, <3>1
    <3>2. CASE x = y
      <4>1. records[x] \in Record
        BY <1>0, <2>2, <3>2
      <4>2. records'[x].day = records[x].day
        BY <1>0, <2>2, <3>2, <4>1 DEF Record
      <4>3. Past(records[x].day, today)
        BY <2>2, <3>2 DEF Going
      <4> QED
        BY <2>2, <3>2, <4>2, <4>3
    <3> QED
      BY <3>1, <3>2
  <2> QED
    BY <1>3, <2>1, <2>2 DEF Zero
<1>4. ASSUME NEW p \in Procs, Unname(p) PROVE Moves
  BY <1>4 DEF Unname
<1>5. ASSUME NEW p \in Procs,
             \/ \E e \in Events : SaveBefore(p, e) \/ LoadStart(p, e)
             \/ SaveAfter(p) \/ LookForKey(p) \/ NameKey(p) \/ TakeKey(p) \/ SaveFails(p)
             \/ OpenBefore(p) \/ OpenAfter(p) \/ LoadEnds(p) \/ StartSweep(p)
             \/ SweepKeys(p) \/ Stay(p) \/ EndSweep(p) \/ Crash(p) \/ Restart(p)
      PROVE  UNCHANGED records
  BY <1>5 DEF SaveBefore, LoadStart, SaveAfter, LookForKey, NameKey, TakeKey, SaveFails,
              OpenBefore, OpenAfter, LoadEnds, StartSweep, SweepKeys, Stay, EndSweep,
              Crash, Restart
<1>6. CASE Midnight \/ UNCHANGED vars
  BY <1>1, <1>6 DEF Midnight, vars
<1> QED
  BY <1>1, <1>2, <1>3, <1>4, <1>5, <1>6 DEF Next, CallStep, SweepStep

\* A key that is not past stays as it is.
LEMMA KeysStay ==
    ASSUME TypeOK, Going, [Next]_vars, NEW d \in Days, keys[d] # None, ~Past(d, today)
    PROVE  keys'[d] = keys[d]
<1> USE DEF files
<1>0. keys \in [Days -> Parts \cup {None, Lost}] /\ todo \in [Procs -> SUBSET Entries]
  BY DEF TypeOK
<1>1. \A p \in Procs : <<"key", d>> \notin todo[p]
  BY DEF Going
<1>2. ASSUME NEW p \in Procs, NameKey(p) PROVE keys'[d] = keys[d]
  BY <1>0, <1>2 DEF NameKey
<1>3. ASSUME NEW p \in Procs, Zero(p) PROVE keys'[d] = keys[d]
  BY <1>0, <1>1, <1>3 DEF Zero
<1>4. ASSUME NEW p \in Procs, Unname(p) PROVE keys'[d] = keys[d]
  BY <1>0, <1>1, <1>4 DEF Unname
<1>5. ASSUME NEW p \in Procs,
             \/ \E e \in Events : SaveBefore(p, e) \/ LoadStart(p, e)
             \/ SaveAfter(p) \/ LookForKey(p) \/ TakeKey(p) \/ KeepRecord(p)
             \/ SaveFails(p) \/ OpenBefore(p) \/ OpenAfter(p) \/ LoadEnds(p)
             \/ StartSweep(p) \/ SweepKeys(p) \/ Stay(p) \/ EndSweep(p) \/ Crash(p)
             \/ Restart(p)
      PROVE  UNCHANGED keys
  BY <1>5 DEF SaveBefore, LoadStart, SaveAfter, LookForKey, TakeKey, KeepRecord,
              SaveFails, OpenBefore, OpenAfter, LoadEnds, StartSweep, SweepKeys, Stay,
              EndSweep, Crash, Restart
<1>6. CASE Midnight \/ UNCHANGED vars
  BY <1>6 DEF Midnight, vars
<1> QED
  BY <1>2, <1>3, <1>4, <1>5, <1>6 DEF Next, CallStep, SweepStep

\* A sweep takes up only what is past.
LEMMA TodoMoves ==
    ASSUME TypeOK, [Next]_vars, NEW p \in Procs
    PROVE  \/ todo'[p] \subseteq todo[p]
           \/ todo'[p] = PastRecords(today) /\ UNCHANGED <<records, keys, today>>
           \/ /\ todo'[p] = PastKeys(cut[p]) \cup PastTemps(cut[p])
              /\ UNCHANGED <<records, keys, today>>
<1> USE DEF files, sweep
<1> DEFINE Moves == \/ todo'[p] \subseteq todo[p]
                    \/ todo'[p] = PastRecords(today) /\ UNCHANGED <<records, keys, today>>
                    \/ /\ todo'[p] = PastKeys(cut[p]) \cup PastTemps(cut[p])
                       /\ UNCHANGED <<records, keys, today>>
<1>0. todo \in [Procs -> SUBSET Entries]
  BY DEF TypeOK
<1>1. ASSUME NEW q \in Procs, StartSweep(q) PROVE Moves
  BY <1>0, <1>1 DEF StartSweep
<1>2. ASSUME NEW q \in Procs, SweepKeys(q) PROVE Moves
  BY <1>0, <1>2 DEF SweepKeys
<1>3. ASSUME NEW q \in Procs, Unname(q) PROVE Moves
  BY <1>0, <1>3 DEF Unname
<1>4. ASSUME NEW q \in Procs, Stay(q) PROVE Moves
  BY <1>0, <1>4 DEF Stay
<1>5. ASSUME NEW q \in Procs, Crash(q) PROVE Moves
  BY <1>0, <1>5 DEF Crash
<1>6. ASSUME NEW q \in Procs,
             \/ \E e \in Events : SaveBefore(q, e) \/ LoadStart(q, e)
             \/ SaveAfter(q) \/ LookForKey(q) \/ NameKey(q) \/ TakeKey(q) \/ KeepRecord(q)
             \/ SaveFails(q) \/ OpenBefore(q) \/ OpenAfter(q) \/ LoadEnds(q)
             \/ Zero(q) \/ EndSweep(q) \/ Restart(q)
      PROVE  UNCHANGED todo
  BY <1>6 DEF SaveBefore, LoadStart, SaveAfter, LookForKey, NameKey, TakeKey, KeepRecord,
              SaveFails, OpenBefore, OpenAfter, LoadEnds, Zero, EndSweep, Restart
<1>7. CASE Midnight \/ UNCHANGED vars
  BY <1>7 DEF Midnight, vars
<1> QED
  BY <1>1, <1>2, <1>3, <1>4, <1>5, <1>6, <1>7 DEF Next, CallStep, SweepStep

LEMMA GoingNext == SweepInv /\ Owned /\ Going /\ [Next]_vars => Going'
<1> SUFFICES ASSUME SweepInv, Owned, Going, [Next]_vars PROVE Going'
  OBVIOUS
<1>0. /\ TypeOK /\ Forms /\ Timely
      /\ call \in [Procs -> Calls] /\ records \in [Parts -> Record \cup {None}]
      /\ \A p \in Procs : call[p].day \in Days
  BY DEF SweepInv, TypeOK, Calls
<1>1. /\ today \in Nat /\ today' \in Nat /\ today <= today'
      /\ \A d \in Days : Past(d, today) => Past(d, today')
  BY <1>0, PastGoesOn
<1>2. \A x \in Parts : records[x] # None => records[x].day \in Days
  BY <1>0 DEF Record
<1>3. ASSUME NEW p \in Procs, KeepRecord(p)
      PROVE  /\ Unkept(call[p].part) /\ UNCHANGED <<todo, today>>
             /\ call[p].part \in Parts
             /\ records'[call[p].part].day = call[p].day /\ call[p].day <= today
  <2>1. call[p].at = "keep" /\ call[p].part # None /\ call[p].part \in Parts
    BY <1>0, <1>3 DEF KeepRecord, At, Forms, Saving, Calls
  <2>2. records'[call[p].part] = [day |-> call[p].day, key |-> call[p].key, whole |-> TRUE]
    BY <1>0, <1>3, <2>1 DEF KeepRecord
  <2> QED
    BY <1>0, <1>3, <2>1, <2>2 DEF KeepRecord, Owned, Timely, sweep
\* A record that was there before the step, with its day.
<1>4. ASSUME NEW x \in Parts, records'[x] # None,
             ~ \E p \in Procs : KeepRecord(p) /\ x = call[p].part
      PROVE  records[x] # None /\ records'[x].day = records[x].day
  BY <1>0, <1>4, RecordsMove
<1>5. \A x \in Parts : records'[x] # None => records'[x].day <= today'
  <2> SUFFICES ASSUME NEW x \in Parts, records'[x] # None
               PROVE  records'[x].day <= today'
    OBVIOUS
  <2>1. CASE \E p \in Procs : KeepRecord(p) /\ x = call[p].part
    BY <1>1, <1>3, <2>1
  <2>2. CASE ~ \E p \in Procs : KeepRecord(p) /\ x = call[p].part
    <3>1. records'[x].day = records[x].day /\ records[x].day <= today
      BY <1>4, <2>2 DEF Going
    <3> QED
      BY <1>1, <1>2, <1>4, <2>2, <3>1 DEF Days
  <2> QED
    BY <2>1, <2>2
<1>6. \A p \in Procs, x \in Parts : <<"record", x>> \in todo'[p] /\ records'[x] # None
          => Past(records'[x].day, today')
  <2> SUFFICES ASSUME NEW p \in Procs, NEW x \in Parts, <<"record", x>> \in todo'[p],
                      records'[x] # None
               PROVE  Past(records'[x].day, today')
    OBVIOUS
  <2>1. CASE <<"record", x>> \in todo[p]
    <3>1. ~ \E q \in Procs : KeepRecord(q) /\ x = call[q].part
      BY <1>3, <2>1 DEF Unkept
    <3>2. records[x] # None /\ records'[x].day = records[x].day
      BY <1>4, <3>1
    <3>3. Past(records[x].day, today)
      BY <2>1, <3>2 DEF Going
    <3> QED
      BY <1>1, <1>2, <3>2, <3>3
  <2>2. CASE todo'[p] = PastRecords(today) /\ UNCHANGED <<records, keys, today>>
    BY <2>2 DEF PastRecords
  <2>3. CASE todo'[p] = PastKeys(cut[p]) \cup PastTemps(cut[p])
    BY <2>3 DEF PastKeys, PastTemps
  <2> QED
    BY <1>0, <2>1, <2>2, <2>3, TodoMoves
<1>7. \A p \in Procs, d \in Days : <<"key", d>> \in todo'[p] => Past(d, today')
  <2> SUFFICES ASSUME NEW p \in Procs, NEW d \in Days, <<"key", d>> \in todo'[p]
               PROVE  Past(d, today')
    OBVIOUS
  <2>1. CASE <<"key", d>> \in todo[p]
    BY <1>1, <2>1 DEF Going
  <2>2. CASE todo'[p] = PastRecords(today)
    BY <2>2 DEF PastRecords
  <2>3. CASE todo'[p] = PastKeys(cut[p]) \cup PastTemps(cut[p])
    <3>1. Past(d, cut[p])
      BY <2>3 DEF PastKeys, PastTemps
    <3>2. cut[p] <= today /\ cut[p] \in Days
      BY <1>0 DEF Timely, TypeOK
    <3>3. Past(d, today)
      BY <1>1, <3>1, <3>2, SnapshotsAssumption DEF Past, Days
    <3> QED
      BY <1>1, <3>3
  <2> QED
    BY <1>0, <2>1, <2>2, <2>3, TodoMoves
<1> QED
  BY <1>5, <1>6, <1>7 DEF Going

LEMMA HeldKeyNext == SweepInv /\ Going /\ HeldKey /\ [Next]_vars => HeldKey'
<1> SUFFICES ASSUME SweepInv, Going, HeldKey, [Next]_vars, NEW p \in Procs
             PROVE  /\ call'[p].at \in {"look", "make"} => call'[p].key = None
                    /\ call'[p].at \in {"linked", "keep"} /\ call'[p].key # None
                           /\ ~Past(call'[p].day, today')
                          => keys'[call'[p].day] = call'[p].key
  BY DEF HeldKey
<1> DEFINE Holds == /\ call'[p].at \in {"look", "make"} => call'[p].key = None
                    /\ call'[p].at \in {"linked", "keep"} /\ call'[p].key # None
                           /\ ~Past(call'[p].day, today')
                          => keys'[call'[p].day] = call'[p].key
<1>0. /\ TypeOK /\ Forms
      /\ call[p].day \in Days /\ call[p].part \in Parts \cup {None}
      /\ keys \in [Days -> Parts \cup {None, Lost}]
  BY DEF SweepInv, TypeOK, Calls
<1>1. \A d \in Days : ~Past(d, today') => ~Past(d, today)
  BY <1>0, PastGoesOn
<1>2. \A d \in Days : keys[d] # None /\ ~Past(d, today) => keys'[d] = keys[d]
  BY <1>0, KeysStay
<1>3. Forms'
  BY <1>0, TypeNext
<1>4. CASE call'[p] = call[p]
  BY <1>0, <1>1, <1>2, <1>4 DEF HeldKey
<1>5. CASE call'[p].part = None
  <2>1. call'[p].at \notin Saving
    BY <1>3, <1>5 DEF Forms
  <2> QED
    BY <2>1 DEF Saving
<1>6. CASE \E e \in Events : SaveBefore(p, e)
  BY <1>0, <1>6, SaveSteps
<1>7. CASE SaveAfter(p)
  <2>1. call'[p].part = None \/ (call'[p].at = "look" /\ call'[p].key = None)
    BY <1>0, <1>7, SaveSteps
  <2> QED
    BY <1>5, <2>1
<1>8. CASE LookForKey(p)
  <2>1. /\ call[p].at = "look" /\ keys' = keys /\ call'[p].day = call[p].day
        /\ \/ call'[p].at = "make" /\ call'[p].key = call[p].key
           \/ call'[p].at = "keep" /\ call'[p].key = keys[call[p].day]
    BY <1>0, <1>8, SaveSteps
  <2> QED
    BY <2>1 DEF HeldKey
<1>9. CASE NameKey(p)
  <2>1. /\ call[p].at = "make" /\ call'[p].at = "linked"
        /\ call'[p].day = call[p].day
        /\ \/ call'[p].key = call[p].part /\ keys[call[p].day] = None
              /\ keys' = [keys EXCEPT ![call[p].day] = call[p].part]
           \/ call'[p].key = call[p].key /\ keys' = keys
    BY <1>0, <1>9, SaveSteps
  <2> QED
    BY <1>0, <2>1 DEF HeldKey
<1>10. CASE TakeKey(p)
  <2>1. \/ call'[p].part = None
        \/ /\ call[p].at = "linked" /\ keys' = keys
           /\ call'[p].at = "keep" /\ call'[p].day = call[p].day
           /\ call'[p].key = IF call[p].key # None THEN call[p].key
                             ELSE keys[call[p].day]
    BY <1>0, <1>10, SaveSteps
  <2> QED
    BY <1>0, <1>1, <1>5, <2>1 DEF HeldKey
<1>11. CASE KeepRecord(p)
  <2>1. call'[p].part = None \/ call'[p].at = "kept"
    BY <1>0, <1>11, SaveSteps
  <2> QED
    BY <1>5, <2>1
<1> QED
  BY <1>0, <1>4, <1>5, <1>6, <1>7, <1>8, <1>9, <1>10, <1>11, CallMoves

LEMMA KeptOpensNext ==
    SweepInv /\ Going /\ HeldKey /\ KeptOpens /\ [Next]_vars => KeptOpens'
<1> SUFFICES ASSUME SweepInv, Going, HeldKey, KeptOpens, [Next]_vars,
                    NEW x \in Parts, records'[x] # None,
                    today' \in records'[x].day .. records'[x].day + Retention
             PROVE  records'[x].whole /\ keys'[records'[x].day] = records'[x].key
  BY DEF KeptOpens, InTime
<1>0. /\ TypeOK /\ Forms
      /\ records \in [Parts -> Record \cup {None}]
      /\ keys \in [Days -> Parts \cup {None, Lost}]
      /\ Retention \in Nat
  BY SnapshotsAssumption DEF SweepInv, TypeOK
<1>1. today \in Nat /\ today' \in Nat /\ today <= today'
  BY <1>0, PastGoesOn
<1>2. \A d \in Days : keys[d] # None /\ ~Past(d, today) => keys'[d] = keys[d]
  BY <1>0, KeysStay
<1>3. ASSUME NEW p \in Procs, KeepRecord(p), x = call[p].part
      PROVE  records'[x].whole /\ keys'[records'[x].day] = records'[x].key
  <2>1. /\ call[p] \in Calls /\ call[p].at = "keep" /\ call[p].key \in Parts
        /\ call[p].day \in Days
    BY <1>0, <1>3 DEF KeepRecord, At, Forms, TypeOK, Calls
  <2>2. records'[x] = [day |-> call[p].day, key |-> call[p].key, whole |-> TRUE]
    BY <1>0, <1>3 DEF KeepRecord
  <2>3. ~Past(call[p].day, today) /\ call[p].key # None
    BY <1>0, <1>1, <2>1, <2>2, SnapshotsAssumption DEF Past, Days
  <2>4. keys[call[p].day] = call[p].key
    BY <2>1, <2>3 DEF HeldKey
  <2>5. keys' = keys
    BY <1>3 DEF KeepRecord
  <2> QED
    BY <2>2, <2>4, <2>5
<1>4. CASE ~ \E p \in Procs : KeepRecord(p) /\ x = call[p].part
  <2>1. \/ records'[x] = records[x]
        \/ records[x] # None /\ Past(records[x].day, today)
              /\ records'[x].day = records[x].day
    BY <1>0, <1>4, RecordsMove
  <2>2. records[x] # None /\ records[x] \in Record
    BY <1>0, <2>1
  <2>3. /\ records'[x].day = records[x].day /\ records[x].day \in Days
        /\ records[x].key \in Parts /\ records[x].day <= today
    BY <2>1, <2>2 DEF Record, Going
  <2>4. InTime(records[x].day) /\ ~Past(records[x].day, today)
    BY <1>0, <1>1, <2>3 DEF InTime, Past, Days
  <2>5. records[x].whole /\ keys[records[x].day] = records[x].key
    BY <2>2, <2>4 DEF KeptOpens
  <2>6. keys'[records[x].day] = keys[records[x].day]
    BY <1>2, <2>3, <2>4, <2>5, SnapshotsAssumption
  <2> QED
    BY <2>1, <2>4, <2>5, <2>6
<1> QED
  BY <1>3, <1>4

LEMMA KeptInvInit == Init => KeptInv
<1> SUFFICES ASSUME Init PROVE KeptInv
  OBVIOUS
<1>1. SweepInv
  BY SweepInvInit
<1>2. Owned /\ Going
  BY DEF Init, Owned, Going, Unkept, NoCall
<1>3. HeldKey /\ KeptOpens
  BY DEF Init, HeldKey, KeptOpens, NoCall
<1> QED
  BY <1>1, <1>2, <1>3 DEF KeptInv

\* A part kept within the retention is whole and opens, for any number of
\* processes that make the key of a day at the same moment, save, sweep and
\* stop.
THEOREM KeptPartsOpen == Spec => []KeptOpens
<1>1. KeptInv /\ [Next]_vars => KeptInv'
  BY TypeNext, TimelyNext, SweepingNext, OwnedNext, GoingNext, HeldKeyNext,
     KeptOpensNext DEF KeptInv, SweepInv
<1>2. KeptInv => KeptOpens
  BY DEF KeptInv
<1> QED
  BY <1>1, <1>2, KeptInvInit, PTL DEF Spec
=============================================================================
